--------------------------- MODULE BatchJobs_proof ---------------------------
(* Theorems about BatchJobs for any number of samples, batches, jobs,      *)
(* worker threads and request threads.                                     *)
EXTENDS BatchJobs, FiniteSetTheorems, TLAPS

\* The parts of TypeOK, each to be cited without the others.
LEMMA TypeParts ==
  ASSUME TypeOK
  PROVE  /\ row \in [Jobs -> JobRecord] /\ cache \in [Jobs -> JobRecord]
         /\ item \in [Jobs -> [Md5s -> ItemStatus]]
         /\ task \in [Md5s -> ItemStatus]
         /\ batchItem \in [Batches -> [Md5s -> ItemStatus]]
         /\ control \in [Jobs -> BOOLEAN]
         /\ thr \in [Threads -> WiredThread]
         /\ req \in [Handlers -> WiredRequest]
         /\ spent \in [requests: Nat, restarts: Nat, faults: Nat]
         /\ client \in SUBSET Manners
PROOF BY DEF TypeOK

\* The constant records the specification starts from have their types.
LEMMA ConstantRecords ==
  /\ NoRecord \in JobRecord
  /\ \A b \in Batches : NewRecord(b) \in JobRecord
  /\ IdleThread \in WiredThread
  /\ IdleRequest \in WiredRequest
PROOF
  <1>1. NoRecord \in JobRecord /\ \A b \in Batches : NewRecord(b) \in JobRecord
    BY DEF NoRecord, NewRecord, JobRecord, JobStatus
  <1>2. IdleThread \in WiredThread
    BY DEF IdleThread, Thread, WiredThread, ThreadPc, HoldsSample
  <1>3. IdleRequest \in WiredRequest
    BY <1>1 DEF IdleRequest, Request, WiredRequest, RequestPc, Op
  <1> QED BY <1>1, <1>2, <1>3

LEMMA InitType == Init => TypeOK
PROOF BY ConstantRecords DEF Init, TypeOK, ItemStatus

\* GoRequest only moves a request on.
LEMMA GoRequestType ==
  ASSUME TypeOK, NEW h \in Handlers, NEW pc \in RequestPc \ {"create", "resetBatch"},
         req[h].pc \notin {"idle", "create"} \/ pc = "idle",
         GoRequest(h, pc)
  PROVE  req' \in [Handlers -> WiredRequest]
PROOF
  <1>1. req \in [Handlers -> WiredRequest]
    BY TypeParts
  <1>2. CASE pc = "idle"
    BY <1>1, <1>2, ConstantRecords DEF GoRequest
  <1>3. CASE pc # "idle"
    <2>1. [req[h] EXCEPT !.pc = pc] \in WiredRequest
      BY <1>1, <1>3 DEF WiredRequest, Request, RequestPc
    <2> QED BY <1>1, <1>3, <2>1 DEF GoRequest
  <1> QED BY <1>2, <1>3

\* A record written to a job keeps the table and the cache well typed.
LEMMA PersistType ==
  ASSUME TypeOK, NEW j \in Jobs, NEW rec \in JobRecord,
         PersistJob(j, rec) \/ PersistRaises(j, rec)
  PROVE  row' \in [Jobs -> JobRecord] /\ cache' \in [Jobs -> JobRecord]
PROOF BY TypeParts DEF PersistJob, PersistRaises

\* So does a change of a job's status alone.
LEMMA StatusType ==
  ASSUME TypeOK, NEW j \in Jobs, NEW s \in JobStatus
  PROVE  [cache[j] EXCEPT !.status = s] \in JobRecord
PROOF BY TypeParts DEF JobRecord

LEMMA LaunchType ==
  ASSUME TypeOK, NEW j \in Jobs, LaunchWorker(j)
  PROVE  thr' \in [Threads -> WiredThread]
PROOF
  <1>1. [IdleThread EXCEPT !.pc = "load", !.job = j] \in WiredThread
    BY DEF IdleThread, WiredThread, Thread, ThreadPc, HoldsSample
  <1>2. PICK w \in Threads :
          thr' = [thr EXCEPT ![w] = [IdleThread EXCEPT !.pc = "load", !.job = j]]
    BY DEF LaunchWorker
  <1> QED BY <1>1, <1>2, TypeParts

LEMMA AfterGetType ==
  ASSUME NEW op, NEW rec
  PROVE  AfterGet(op, rec) \in {"signal", "clear", "retryRead", "idle"}
PROOF BY DEF AfterGet

LEMMA NewItemsType ==
  ASSUME TypeOK, NEW j \in Jobs, NEW S
  PROVE  [item EXCEPT ![j] = [m \in Md5s |-> IF m \in S THEN "pending" ELSE "absent"]]
           \in [Jobs -> [Md5s -> ItemStatus]]
PROOF
  <1>1. [m \in Md5s |-> IF m \in S THEN "pending" ELSE "absent"] \in [Md5s -> ItemStatus]
    BY DEF ItemStatus
  <1> QED BY <1>1, TypeParts

\* Requests: every step of a handler keeps the types.
LEMMA RequestType ==
  ASSUME TypeOK, NEW h \in Handlers, RequestStep(h)
  PROVE  TypeOK'
PROOF
  <1> USE TypeParts DEF tables, memory, RequestAt
  <1>0. /\ req[h] \in WiredRequest
        /\ req[h].pc \notin {"idle", "create"} => req[h].job \in Jobs
        /\ req[h].seen \in JobRecord /\ req[h].picked \in SUBSET Md5s
        /\ req[h].hand \in Md5s \cup {NoMd5}
    BY DEF WiredRequest, Request
  <1>1. CASE FetchRow(h)
    <2>1. [[req[h] EXCEPT !.seen = row[req[h].job]] EXCEPT !.pc = "store"] \in WiredRequest
      BY <1>0, <1>1 DEF FetchRow, WiredRequest, Request, RequestPc
    <2>2. req' \in [Handlers -> WiredRequest]
      BY <1>1, <2>1 DEF FetchRow
    <2> QED BY <1>1, <2>2 DEF FetchRow, TypeOK
  <1>2. CASE StoreRow(h)
    <2>1. req' \in [Handlers -> WiredRequest]
      BY <1>2, GoRequestType, AfterGetType DEF StoreRow, RequestPc
    <2>2. cache' \in [Jobs -> JobRecord]
      BY <1>0, <1>2 DEF StoreRow
    <2>3. client' \in SUBSET Manners
      BY <1>2 DEF StoreRow, Resuming, Manners
    <2> QED BY <1>2, <2>1, <2>2, <2>3 DEF StoreRow, TypeOK
  <1>3. CASE PauseSignal(h)
    <2>1. req' \in [Handlers -> WiredRequest]
      BY <1>3, GoRequestType DEF PauseSignal, RequestPc
    <2>2. control' \in [Jobs -> BOOLEAN]
      BY <1>3 DEF PauseSignal
    <2> QED BY <1>3, <2>1, <2>2 DEF PauseSignal, TypeOK
  <1>4. CASE PausePatch(h)
    <2>1. req' \in [Handlers -> WiredRequest]
      BY <1>4, GoRequestType DEF PausePatch, RequestPc
    <2>2. row' \in [Jobs -> JobRecord] /\ cache' \in [Jobs -> JobRecord]
      BY <1>0, <1>4, PersistType, StatusType DEF PausePatch, JobStatus
    <2> QED BY <1>4, <2>1, <2>2 DEF PausePatch, TypeOK
  <1>5. CASE ResumeClear(h)
    <2>1. req' \in [Handlers -> WiredRequest]
      BY <1>5, GoRequestType DEF ResumeClear, RequestPc
    <2>2. control' \in [Jobs -> BOOLEAN]
      BY <1>5 DEF ResumeClear
    <2> QED BY <1>5, <2>1, <2>2 DEF ResumeClear, TypeOK
  <1>6. CASE ResumePatch(h)
    <2>1. req' \in [Handlers -> WiredRequest]
      BY <1>6, GoRequestType DEF ResumePatch, RequestPc
    <2>2. row' \in [Jobs -> JobRecord] /\ cache' \in [Jobs -> JobRecord]
      BY <1>0, <1>6, PersistType, StatusType DEF ResumePatch, JobStatus
    <2> QED BY <1>6, <2>1, <2>2 DEF ResumePatch, TypeOK
  <1>7. CASE ResumeLaunch(h)
    <2>1. req' \in [Handlers -> WiredRequest]
      BY <1>7, GoRequestType DEF ResumeLaunch, RequestPc
    <2>2. thr' \in [Threads -> WiredThread]
      BY <1>0, <1>7, LaunchType DEF ResumeLaunch
    <2> QED BY <1>7, <2>1, <2>2 DEF ResumeLaunch, TypeOK
  <1>8. ASSUME NEW j \in Jobs, StartCreate(h, j) PROVE TypeOK'
    <2>1. req' \in [Handlers -> WiredRequest]
      BY <1>8, GoRequestType DEF StartCreate, RequestPc
    <2>2. thr' \in [Threads -> WiredThread]
      BY <1>8, LaunchType DEF StartCreate, RegisterAndLaunch
    <2>3. NewRecord(req[h].batch) \in JobRecord
      BY <1>0 DEF WiredRequest, Request, NewRecord, JobRecord, JobStatus
    <2>4. /\ row' \in [Jobs -> JobRecord] /\ cache' \in [Jobs -> JobRecord]
          /\ control' \in [Jobs -> BOOLEAN]
      BY <1>8, <2>3 DEF StartCreate, CreateJobRecord, RegisterAndLaunch
    <2>5. item' \in [Jobs -> [Md5s -> ItemStatus]]
      BY <1>8, NewItemsType DEF StartCreate, CreateJobRecord
    <2> QED BY <1>8, <2>1, <2>2, <2>4, <2>5 DEF StartCreate, TypeOK
  <1>9. ASSUME NEW S \in SUBSET Md5s, RetryRead(h, S) PROVE TypeOK'
    <2>1. row[req[h].job] \in JobRecord
      BY <1>0, <1>9 DEF RetryRead
    <2>2. [[[req[h] EXCEPT !.picked = S] EXCEPT !.pc = "retryCreate"]
             EXCEPT !.batch = row[req[h].job].batch] \in WiredRequest
      BY <1>0, <1>9, <2>1 DEF RetryRead, WiredRequest, Request, RequestPc, JobRecord
    <2>3. req' \in [Handlers -> WiredRequest]
      BY <1>9, <2>2 DEF RetryRead
    <2> QED BY <1>9, <2>3 DEF RetryRead, TypeOK
  <1>10. ASSUME NEW j \in Jobs, RetryCreate(h, j) PROVE TypeOK'
    <2>1. [[req[h] EXCEPT !.job = j] EXCEPT !.pc = "resetTask"] \in WiredRequest
      BY <1>0 DEF WiredRequest, Request, RequestPc
    <2>2. req' \in [Handlers -> WiredRequest]
      BY <1>10, <2>1 DEF RetryCreate
    <2>3. NewRecord(req[h].batch) \in JobRecord
      BY <1>0 DEF WiredRequest, Request, NewRecord, JobRecord, JobStatus
    <2>4. row' \in [Jobs -> JobRecord]
      BY <1>10, <2>3 DEF RetryCreate, CreateJobRecord
    <2>5. item' \in [Jobs -> [Md5s -> ItemStatus]]
      BY <1>10, NewItemsType DEF RetryCreate, CreateJobRecord
    <2> QED BY <1>10, <2>2, <2>4, <2>5 DEF RetryCreate, TypeOK
  <1>11. ASSUME NEW m \in Md5s, RetryResetTask(h, m) PROVE TypeOK'
    <2>1. [[req[h] EXCEPT !.hand = m] EXCEPT !.pc = "resetBatch"] \in WiredRequest
      BY <1>0, <1>11 DEF RetryResetTask, WiredRequest, Request, RequestPc
    <2>2. req' \in [Handlers -> WiredRequest]
      BY <1>11, <2>1 DEF RetryResetTask
    <2>3. task' \in [Md5s -> ItemStatus]
      BY <1>11 DEF RetryResetTask, ItemStatus
    <2> QED BY <1>11, <2>2, <2>3 DEF RetryResetTask, TypeOK
  <1>12. CASE RetryResetBatch(h)
    <2> DEFINE pc == IF req[h].picked = {req[h].hand} THEN "retryLaunch" ELSE "resetTask"
               S == req[h].picked \ {req[h].hand}
    <2>1. [[[req[h] EXCEPT !.picked = S] EXCEPT !.hand = NoMd5] EXCEPT !.pc = pc]
            \in WiredRequest
      BY <1>0, <1>12 DEF RetryResetBatch, WiredRequest, Request, RequestPc
    <2>2. req' \in [Handlers -> WiredRequest]
      BY <1>12, <2>1 DEF RetryResetBatch
    <2>3. batchItem' \in [Batches -> [Md5s -> ItemStatus]]
      BY <1>12 DEF RetryResetBatch, ItemStatus
    <2> QED BY <1>12, <2>2, <2>3 DEF RetryResetBatch, TypeOK
  <1>13. CASE RetryLaunch(h)
    <2>1. req' \in [Handlers -> WiredRequest]
      BY <1>13, GoRequestType DEF RetryLaunch, RequestPc
    <2>2. thr' \in [Threads -> WiredThread]
      BY <1>0, <1>13, LaunchType DEF RetryLaunch, RegisterAndLaunch
    <2>3. NewRecord(req[h].batch) \in JobRecord
      BY <1>0 DEF WiredRequest, Request, NewRecord, JobRecord, JobStatus
    <2>4. cache' \in [Jobs -> JobRecord] /\ control' \in [Jobs -> BOOLEAN]
      BY <1>13, <2>3 DEF RetryLaunch, RegisterAndLaunch
    <2> QED BY <1>13, <2>1, <2>2, <2>4 DEF RetryLaunch, TypeOK
  <1>14. CASE RequestRejected(h)
    <2>1. req' \in [Handlers -> WiredRequest]
      BY <1>14, GoRequestType DEF RequestRejected, RequestPc
    <2> QED BY <1>14, <2>1 DEF RequestRejected, TypeOK
  <1> QED
    BY <1>1, <1>2, <1>3, <1>4, <1>5, <1>6, <1>7, <1>8, <1>9, <1>10, <1>11, <1>12,
       <1>13, <1>14 DEF RequestStep

\* The record a worker writes is a job record.
LEMMA IntendedType ==
  ASSUME TypeOK, NEW w \in Threads, JobOf(w) \in Jobs
  PROVE  Intended(w) \in JobRecord
PROOF
  <1>1. cache[JobOf(w)] \in JobRecord
    BY TypeParts
  <1> QED BY <1>1 DEF Intended, JobRecord, JobStatus

\* Workers: every step of a worker thread keeps the types.
LEMMA WorkerType ==
  ASSUME TypeOK, NEW w \in Threads, WorkerStep(w)
  PROVE  TypeOK'
PROOF
  <1> USE TypeParts DEF tables, memory, At
  <1>0. /\ thr[w] \in WiredThread
        /\ thr[w].pc # "idle" => thr[w].job \in Jobs
        /\ thr[w].pc \in HoldsSample => thr[w].hand \in Md5s
    BY DEF WiredThread
  <1>1. CASE LoadPending(w)
    <2>1. PendingJobMd5s(JobOf(w)) \in SUBSET Md5s
      BY DEF PendingJobMd5s
    <2>2. [[thr[w] EXCEPT !.queue = PendingJobMd5s(JobOf(w))] EXCEPT !.pc = "check"]
            \in WiredThread
      BY <1>0, <1>1, <2>1 DEF LoadPending, WiredThread, Thread, ThreadPc, HoldsSample
    <2>3. thr' \in [Threads -> WiredThread]
      BY <1>1, <2>2 DEF LoadPending
    <2> QED BY <1>1, <2>3 DEF LoadPending, TypeOK
  <1>2. CASE CheckControl(w)
    <2> DEFINE pc == IF control[JobOf(w)] THEN "pause" ELSE "claim"
    <2>1. [thr[w] EXCEPT !.pc = pc] \in WiredThread
      BY <1>0, <1>2 DEF CheckControl, WiredThread, Thread, ThreadPc, HoldsSample
    <2>2. thr' \in [Threads -> WiredThread]
      BY <1>2, <2>1 DEF CheckControl
    <2> QED BY <1>2, <2>2 DEF CheckControl, TypeOK
  <1>3. CASE PauseHere(w)
    <2>1. row' \in [Jobs -> JobRecord] /\ cache' \in [Jobs -> JobRecord]
      BY <1>0, <1>3, IntendedType, PersistType DEF PauseHere, JobOf
    <2>2. thr' \in [Threads -> WiredThread]
      BY <1>3, ConstantRecords DEF PauseHere
    <2> QED BY <1>3, <2>1, <2>2 DEF PauseHere, TypeOK
  <1>4. ASSUME NEW S \in SUBSET Md5s, ClaimChunk(w, S) PROVE TypeOK'
    <2>1. row' \in [Jobs -> JobRecord] /\ cache' \in [Jobs -> JobRecord]
      BY <1>0, <1>4, IntendedType, PersistType DEF ClaimChunk, JobOf
    <2>2. [[[thr[w] EXCEPT !.queue = @ \ S] EXCEPT !.todo = S] EXCEPT !.pc = "mark"]
            \in WiredThread
      BY <1>0, <1>4 DEF ClaimChunk, WiredThread, Thread, ThreadPc, HoldsSample
    <2>3. thr' \in [Threads -> WiredThread]
      BY <1>4, <2>2 DEF ClaimChunk
    <2> QED BY <1>4, <2>1, <2>3 DEF ClaimChunk, TypeOK
  <1>5. ASSUME NEW m \in Md5s, MarkItem(w, m) PROVE TypeOK'
    <2>1. item' \in [Jobs -> [Md5s -> ItemStatus]]
      BY <1>0, <1>5 DEF MarkItem, JobOf, ItemStatus
    <2>2. [[[thr[w] EXCEPT !.todo = @ \ {m}] EXCEPT !.hand = m] EXCEPT !.pc = "markTask"]
            \in WiredThread
      BY <1>0, <1>5 DEF MarkItem, WiredThread, Thread, ThreadPc, HoldsSample
    <2>3. thr' \in [Threads -> WiredThread]
      BY <1>5, <2>2 DEF MarkItem
    <2> QED BY <1>5, <2>1, <2>3 DEF MarkItem, TypeOK
  <1>6. CASE MarkTask(w)
    <2>1. task' \in [Md5s -> ItemStatus]
      BY <1>6 DEF MarkTask, ItemStatus
    <2>2. [thr[w] EXCEPT !.pc = "markBatch"] \in WiredThread
      BY <1>0, <1>6 DEF MarkTask, WiredThread, Thread, ThreadPc, HoldsSample
    <2>3. thr' \in [Threads -> WiredThread]
      BY <1>6, <2>2 DEF MarkTask
    <2> QED BY <1>6, <2>1, <2>3 DEF MarkTask, TypeOK
  <1>7. CASE MarkBatch(w)
    <2> DEFINE pc == IF thr[w].todo = {} THEN "collect" ELSE "mark"
    <2>1. batchItem' \in [Batches -> [Md5s -> ItemStatus]]
      BY <1>7 DEF MarkBatch, ItemStatus
    <2>2. [[[thr[w] EXCEPT !.running = @ \cup {thr[w].hand}] EXCEPT !.hand = NoMd5]
            EXCEPT !.pc = pc] \in WiredThread
      BY <1>0, <1>7 DEF MarkBatch, WiredThread, Thread, ThreadPc, HoldsSample
    <2>3. thr' \in [Threads -> WiredThread]
      BY <1>7, <2>2 DEF MarkBatch
    <2> QED BY <1>7, <2>1, <2>3 DEF MarkBatch, TypeOK
  <1>8. ASSUME NEW m \in Md5s, Judge(w, m) PROVE TypeOK'
    <2>1. [[thr[w] EXCEPT !.running = @ \ {m}] EXCEPT !.good = @ \cup {m}] \in WiredThread
      BY <1>0 DEF WiredThread, Thread
    <2>2. [[thr[w] EXCEPT !.running = @ \ {m}] EXCEPT !.bad = @ \cup {m}] \in WiredThread
      BY <1>0 DEF WiredThread, Thread
    <2>3. thr' \in [Threads -> WiredThread]
      <3>1. CASE thr' = [thr EXCEPT ![w].running = @ \ {m}, ![w].good = @ \cup {m}]
        BY <2>1, <3>1
      <3>2. CASE thr' = [thr EXCEPT ![w].running = @ \ {m}, ![w].bad = @ \cup {m}]
        BY <2>2, <3>2
      <3> QED BY <1>8, <3>1, <3>2 DEF Judge
    <2> QED BY <1>8, <2>3 DEF Judge, TypeOK
  <1>9. \A m : Verdict(w, m) \in ItemStatus
    BY DEF Verdict, ItemStatus
  <1>10. ASSUME NEW m \in Md5s, RecordTask(w, m) PROVE TypeOK'
    <2>1. task' \in [Md5s -> ItemStatus]
      BY <1>9, <1>10 DEF RecordTask
    <2>2. [[thr[w] EXCEPT !.hand = m] EXCEPT !.pc = "recBatch"] \in WiredThread
      BY <1>0, <1>10 DEF RecordTask, WiredThread, Thread, ThreadPc, HoldsSample
    <2>3. thr' \in [Threads -> WiredThread]
      BY <1>10, <2>2 DEF RecordTask
    <2> QED BY <1>10, <2>1, <2>3 DEF RecordTask, TypeOK
  <1>11. CASE RecordBatch(w)
    <2>1. batchItem' \in [Batches -> [Md5s -> ItemStatus]]
      BY <1>9, <1>11 DEF RecordBatch
    <2>2. [thr[w] EXCEPT !.pc = "recItem"] \in WiredThread
      BY <1>0, <1>11 DEF RecordBatch, WiredThread, Thread, ThreadPc, HoldsSample
    <2>3. thr' \in [Threads -> WiredThread]
      BY <1>11, <2>2 DEF RecordBatch
    <2> QED BY <1>11, <2>1, <2>3 DEF RecordBatch, TypeOK
  <1>12. CASE RecordItem(w)
    <2>1. item' \in [Jobs -> [Md5s -> ItemStatus]]
      BY <1>9, <1>12 DEF RecordItem
    <2>2. [thr[w] EXCEPT !.pc = "append"] \in WiredThread
      BY <1>0, <1>12 DEF RecordItem, WiredThread, Thread, ThreadPc, HoldsSample
    <2>3. thr' \in [Threads -> WiredThread]
      BY <1>12, <2>2 DEF RecordItem
    <2> QED BY <1>12, <2>1, <2>3 DEF RecordItem, TypeOK
  <1>13. CASE AppendOutcome(w)
    <2> DEFINE pc == IF InFlight(w) = {thr[w].hand} THEN "check" ELSE "collect"
    <2>1. row' \in [Jobs -> JobRecord] /\ cache' \in [Jobs -> JobRecord]
      BY <1>0, <1>13, IntendedType, PersistType DEF AppendOutcome, JobOf
    <2>2. [[[[thr[w] EXCEPT !.good = @ \ {thr[w].hand}] EXCEPT !.bad = @ \ {thr[w].hand}]
             EXCEPT !.hand = NoMd5] EXCEPT !.pc = pc] \in WiredThread
      BY <1>0, <1>13 DEF AppendOutcome, WiredThread, Thread, ThreadPc, HoldsSample
    <2>3. thr' \in [Threads -> WiredThread]
      BY <1>13, <2>2 DEF AppendOutcome
    <2> QED BY <1>13, <2>1, <2>3 DEF AppendOutcome, TypeOK
  <1>14. CASE Finish(w)
    <2>1. row' \in [Jobs -> JobRecord] /\ cache' \in [Jobs -> JobRecord]
      BY <1>0, <1>14, IntendedType, PersistType DEF Finish, JobOf
    <2>2. thr' \in [Threads -> WiredThread]
      BY <1>14, ConstantRecords DEF Finish
    <2> QED BY <1>14, <2>1, <2>2 DEF Finish, TypeOK
  <1> QED
    BY <1>1, <1>2, <1>3, <1>4, <1>5, <1>6, <1>7, <1>8, <1>10, <1>11, <1>12, <1>13,
       <1>14 DEF WorkerStep

\* Imports, arriving requests, failures and restarts keep the types.
LEMMA EnvironmentType ==
  ASSUME TypeOK, Environment
  PROVE  TypeOK'
PROOF
  <1> USE TypeParts, BatchAssumption DEF tables, memory, RequestAt, At
  <1>1. ASSUME NEW b \in Batches, NEW S \in SUBSET Md5s, Import(b, S) PROVE TypeOK'
    <2>1. task' \in [Md5s -> ItemStatus]
      BY <1>1 DEF Import, ItemStatus
    <2>2. batchItem' \in [Batches -> [Md5s -> ItemStatus]]
      <3>1. [m \in Md5s |-> IF m \in S THEN "pending" ELSE "absent"] \in [Md5s -> ItemStatus]
        BY DEF ItemStatus
      <3> QED BY <1>1, <3>1 DEF Import
    <2> QED BY <1>1, <2>1, <2>2 DEF Import, TypeOK
  <1>2. ASSUME NEW h \in Handlers, NEW op \in Op, NEW j \in Jobs, Enter(h, op, j)
        PROVE  TypeOK'
    <2> DEFINE pc == IF Cached(j) THEN AfterGet(op, cache[j]) ELSE "fetch"
    <2>1. [[[IdleRequest EXCEPT !.op = op] EXCEPT !.job = j] EXCEPT !.pc = pc]
            \in WiredRequest
      BY ConstantRecords, AfterGetType DEF WiredRequest, Request, RequestPc
    <2>2. req' \in [Handlers -> WiredRequest]
      BY <1>2, <2>1 DEF Enter
    <2>3. spent' \in [requests: Nat, restarts: Nat, faults: Nat]
      BY <1>2 DEF Enter
    <2>4. client' \in SUBSET Manners
      BY <1>2 DEF Enter, Meeting, Resuming, Manners
    <2> QED BY <1>2, <2>2, <2>3, <2>4 DEF Enter, TypeOK
  <1>3. ASSUME NEW h \in Handlers, NEW b \in Batches, NEW S \in SUBSET Md5s,
               StartRead(h, b, S)
        PROVE  TypeOK'
    <2>1. [[[[IdleRequest EXCEPT !.op = "start"] EXCEPT !.pc = "create"]
             EXCEPT !.batch = b] EXCEPT !.picked = S] \in WiredRequest
      BY ConstantRecords DEF WiredRequest, Request, RequestPc, Op
    <2>2. req' \in [Handlers -> WiredRequest]
      BY <1>3, <2>1 DEF StartRead
    <2>3. spent' \in [requests: Nat, restarts: Nat, faults: Nat]
      BY <1>3 DEF StartRead
    <2> QED BY <1>3, <2>2, <2>3 DEF StartRead, TypeOK
  <1>4. ASSUME NEW w \in Threads, WorkerDies(w) PROVE TypeOK'
    <2>1. WritesRecord(w) => JobOf(w) \in Jobs
      <3>1. thr[w] \in WiredThread
        OBVIOUS
      <3> QED BY <3>1 DEF WritesRecord, WiredThread, JobOf
    <2>2. row' \in [Jobs -> JobRecord] /\ cache' \in [Jobs -> JobRecord]
      BY <1>4, <2>1, IntendedType, PersistType DEF WorkerDies
    <2>3. thr' \in [Threads -> WiredThread]
      BY <1>4, ConstantRecords DEF WorkerDies
    <2>4. spent' \in [requests: Nat, restarts: Nat, faults: Nat]
      BY <1>4 DEF WorkerDies
    <2> QED BY <1>4, <2>2, <2>3, <2>4 DEF WorkerDies, TypeOK
  <1>5. ASSUME NEW h \in Handlers, RequestFails(h) PROVE TypeOK'
    <2>1. req[h].pc \in {"patchPausing", "patchRunning"} => req[h].job \in Jobs
      <3>1. req[h] \in WiredRequest
        OBVIOUS
      <3> QED BY <3>1 DEF WiredRequest
    <2>2. row' \in [Jobs -> JobRecord] /\ cache' \in [Jobs -> JobRecord]
      BY <1>5, <2>1, StatusType, PersistType DEF RequestFails, JobStatus
    <2>3. req' \in [Handlers -> WiredRequest]
      BY <1>5, GoRequestType DEF RequestFails, RequestPc
    <2>4. spent' \in [requests: Nat, restarts: Nat, faults: Nat]
      <3>1. spent' = [spent EXCEPT !.faults = @ + 1]
        BY <1>5 DEF RequestFails
      <3> QED BY <3>1
    <2> QED BY <1>5, <2>2, <2>3, <2>4 DEF RequestFails, TypeOK
  <1>6. ASSUME ProcessGone
        PROVE  /\ cache' \in [Jobs -> JobRecord] /\ control' \in [Jobs -> BOOLEAN]
               /\ thr' \in [Threads -> WiredThread] /\ req' \in [Handlers -> WiredRequest]
               /\ spent' \in [requests: Nat, restarts: Nat, faults: Nat]
    BY <1>6, ConstantRecords DEF ProcessGone
  <1>7. CASE Restart
    <2>1. \A s \in ItemStatus : Requeue(s) \in ItemStatus
      BY DEF Requeue, ItemStatus
    <2>2. row' \in [Jobs -> JobRecord]
      <3>1. ASSUME NEW j \in Jobs
            PROVE  (IF Interrupted(j) THEN [row[j] EXCEPT !.status = "paused"] ELSE row[j])
                     \in JobRecord
        <4>1. row[j] \in JobRecord
          OBVIOUS
        <4>2. [row[j] EXCEPT !.status = "paused"] \in JobRecord
          BY <4>1 DEF JobRecord, JobStatus
        <4> QED BY <4>1, <4>2
      <3> QED BY <1>7, <3>1 DEF Restart
    <2>3. item' \in [Jobs -> [Md5s -> ItemStatus]]
      <3>1. \A j \in Jobs : [m \in Md5s |-> Requeue(item[j][m])] \in [Md5s -> ItemStatus]
        BY <2>1
      <3> QED BY <1>7, <3>1 DEF Restart
    <2>4. task' \in [Md5s -> ItemStatus]
      BY <1>7, <2>1 DEF Restart
    <2>5. batchItem' \in [Batches -> [Md5s -> ItemStatus]]
      BY <1>7, <2>1 DEF Restart
    <2> QED BY <1>6, <1>7, <2>2, <2>3, <2>4, <2>5 DEF Restart, ProcessGone, TypeOK
  <1>8. CASE RestartAndReset
    <2>1. /\ row' \in [Jobs -> JobRecord]
          /\ task' \in [Md5s -> ItemStatus]
          /\ item' \in [Jobs -> [Md5s -> ItemStatus]]
          /\ batchItem' \in [Batches -> [Md5s -> ItemStatus]]
      BY <1>8, ConstantRecords DEF RestartAndReset, ItemStatus
    <2> QED BY <1>6, <1>8, <2>1 DEF RestartAndReset, ProcessGone, TypeOK
  <1> QED
    BY <1>1, <1>2, <1>3, <1>4, <1>5, <1>7, <1>8 DEF Environment

LEMMA TypeStep == TypeOK /\ [Next]_vars => TypeOK'
PROOF
  <1> SUFFICES ASSUME TypeOK, [Next]_vars PROVE TypeOK'
    OBVIOUS
  <1>1. CASE Environment
    BY <1>1, EnvironmentType
  <1>2. ASSUME NEW h \in Handlers, RequestStep(h) PROVE TypeOK'
    BY <1>2, RequestType
  <1>3. ASSUME NEW w \in Threads, WorkerStep(w) PROVE TypeOK'
    BY <1>3, WorkerType
  <1>4. CASE UNCHANGED vars
    BY <1>4 DEF vars, TypeOK
  <1> QED BY <1>1, <1>2, <1>3, <1>4 DEF Next

\* Every reachable state is well typed, whatever the numbers of samples, jobs,
\* threads and requests and the bounds on restarts and SQLite errors: no
\* interleaving leaves a thread or a request without the job or the sample its
\* next statement names (batch.py:201-337).
THEOREM TypeCorrect == Spec => []TypeOK
PROOF BY InitType, TypeStep, PTL DEF Spec

\* The program counters of a request: reading the job's row into memory, holding
\* a job that is in memory, resetting the samples of a retry job before it is
\* registered.
Fetching == {"fetch", "store"}
Holding == {"signal", "patchPausing", "clear", "patchRunning", "launch",
            "retryRead", "retryCreate"}
Resetting == {"resetTask", "resetBatch", "retryLaunch"}

\* Which jobs are in the table and in memory when a thread or a request names
\* one: the parts of the invariant every other proof of this module rests on.
RowsRegistered ==
  /\ \A j \in Jobs : ~Exists(j) => row[j] = NoRecord
  /\ \A j \in Jobs : Cached(j) => Exists(j)
WorkersRegistered ==
  \A w \in Threads : thr[w].job \in Jobs => Cached(thr[w].job)
RequestRegistered(h) ==
  /\ req[h].pc \in {"idle", "create"} => req[h].job = NoJob
  /\ req[h].pc \in Holding => Cached(req[h].job)
  /\ req[h].pc \in Fetching => Exists(req[h].job)
  /\ req[h].pc = "store" => req[h].seen.status # "none"
  /\ req[h].pc \in Resetting =>
       ~Cached(req[h].job) /\ row[req[h].job] = NewRecord(req[h].batch)
RetryAlone ==
  \A g, h \in Handlers : req[h].pc \in Resetting /\ req[g].job = req[h].job => g = h
Registered ==
  /\ RowsRegistered /\ WorkersRegistered /\ RetryAlone
  /\ \A h \in Handlers : RequestRegistered(h)

\* What a step of a worker thread may touch: its own slot, and the record of its
\* own job, which it writes from memory.
LEMMA WorkerFrame ==
  ASSUME TypeOK, NEW w \in Threads, WorkerStep(w)
  PROVE  /\ req' = req /\ spent' = spent
         /\ \A v \in Threads \ {w} : thr'[v] = thr[v]
         /\ \/ thr'[w].job = thr[w].job /\ (thr'[w].pc = "idle" => thr[w].pc = "idle")
            \/ /\ thr'[w].job = NoJob /\ thr[w].job \in Jobs
               /\ row'[thr[w].job].status \in {"paused", "completed"}
         /\ \/ row' = row /\ cache' = cache
            \/ /\ thr[w].job \in Jobs /\ WritesRecord(w)
               /\ PersistJob(thr[w].job, Intended(w))
               /\ \/ thr'[w].job = NoJob
                  \/ Intended(w).status \in {"running", cache[thr[w].job].status}
PROOF
  <1> USE TypeParts DEF tables, memory, At, JobOf
  <1>0. thr[w] \in WiredThread /\ (thr[w].pc # "idle" => thr[w].job \in Jobs)
    BY DEF WiredThread
  <1>1. CASE LoadPending(w)
    BY <1>0, <1>1 DEF LoadPending, WiredThread, Thread
  <1>2. CASE CheckControl(w)
    BY <1>0, <1>2 DEF CheckControl, WiredThread, Thread
  <1>3. CASE PauseHere(w) \/ Finish(w)
    <2>1. thr' = [thr EXCEPT ![w] = IdleThread] /\ thr[w].job \in Jobs
      BY <1>0, <1>3 DEF PauseHere, Finish
    <2>2. PersistJob(thr[w].job, Intended(w)) /\ req' = req /\ spent' = spent
      BY <1>3 DEF PauseHere, Finish
    <2>3. Intended(w).status \in {"paused", "completed"}
      BY <1>0, <1>3, <2>1 DEF PauseHere, Finish, Intended, JobRecord
    <2>4. WritesRecord(w)
      BY <1>3 DEF PauseHere, Finish, WritesRecord
    <2> QED BY <2>1, <2>2, <2>3, <2>4 DEF PersistJob, IdleThread
  <1>4. ASSUME NEW S \in SUBSET Md5s, ClaimChunk(w, S)
        PROVE  /\ req' = req /\ spent' = spent /\ thr[w].job \in Jobs
               /\ PersistJob(thr[w].job, Intended(w)) /\ WritesRecord(w)
               /\ Intended(w).status = "running"
               /\ \A v \in Threads \ {w} : thr'[v] = thr[v]
               /\ thr'[w].job = thr[w].job /\ thr'[w].pc = "mark"
    <2>1. thr' = [thr EXCEPT ![w] =
                    [[[thr[w] EXCEPT !.queue = @ \ S] EXCEPT !.todo = S] EXCEPT !.pc = "mark"]]
      BY <1>4 DEF ClaimChunk
    <2>2. \A v \in Threads \ {w} : thr'[v] = thr[v]
      BY <2>1
    <2>3. thr'[w].job = thr[w].job /\ thr'[w].pc = "mark"
      BY <1>0, <2>1 DEF WiredThread, Thread
    <2>4. WritesRecord(w) /\ thr[w].job \in Jobs /\ cache[thr[w].job] \in JobRecord
      BY <1>0, <1>4 DEF ClaimChunk, WritesRecord
    <2>5. Intended(w).status = "running"
      BY <1>4, <2>4 DEF ClaimChunk, Intended, JobRecord
    <2> QED BY <1>0, <1>4, <2>2, <2>3, <2>4, <2>5 DEF ClaimChunk
  <1>5. ASSUME NEW m \in Md5s, MarkItem(w, m) \/ Judge(w, m) \/ RecordTask(w, m)
        PROVE  /\ req' = req /\ spent' = spent /\ row' = row /\ cache' = cache
               /\ \A v \in Threads \ {w} : thr'[v] = thr[v]
               /\ thr'[w].job = thr[w].job /\ (thr'[w].pc = "idle" => thr[w].pc = "idle")
    BY <1>0, <1>5 DEF MarkItem, Judge, RecordTask, WiredThread, Thread
  <1>6. CASE MarkTask(w) \/ MarkBatch(w) \/ RecordBatch(w) \/ RecordItem(w)
    BY <1>0, <1>6 DEF MarkTask, MarkBatch, RecordBatch, RecordItem, WiredThread, Thread
  <1>7. CASE AppendOutcome(w)
    <2>1. WritesRecord(w) /\ thr[w].job \in Jobs /\ cache[thr[w].job] \in JobRecord
      BY <1>0, <1>7 DEF AppendOutcome, WritesRecord
    <2>2. Intended(w).status = cache[thr[w].job].status
      BY <1>7, <2>1 DEF AppendOutcome, Intended, JobRecord
    <2>3. /\ thr'[w].job = thr[w].job /\ thr'[w].pc # "idle"
          /\ \A v \in Threads \ {w} : thr'[v] = thr[v]
      BY <1>0, <1>7 DEF AppendOutcome, WiredThread, Thread
    <2> QED BY <1>7, <2>1, <2>2, <2>3 DEF AppendOutcome
  <1> QED BY <1>1, <1>2, <1>3, <1>4, <1>5, <1>6, <1>7 DEF WorkerStep

\* The record a worker writes keeps the job's batch, is never "none", and its
\* counters are at least those in memory.
LEMMA IntendedGrows ==
  ASSUME TypeOK, NEW w \in Threads, thr[w].job \in Jobs, NEW rec, rec = cache[thr[w].job]
  PROVE  /\ Intended(w) \in JobRecord
         /\ Intended(w).status \in {rec.status, "paused", "running", "completed"}
         /\ Intended(w).succeeded >= rec.succeeded
         /\ Intended(w).failed >= rec.failed
PROOF
  <1>1. rec \in JobRecord
    BY TypeParts
  <1>2. Intended(w) \in JobRecord
    BY IntendedType DEF JobOf
  <1> QED BY <1>1, <1>2 DEF Intended, JobRecord, JobOf


\* The job a busy request names is a job.
LEMMA RequestJob ==
  ASSUME TypeOK, NEW h \in Handlers, req[h].pc \notin {"idle", "create"}
  PROVE  req[h].job \in Jobs
PROOF BY TypeParts DEF WiredRequest

\* A write to the record of a job in memory, whether or not it reaches the table,
\* keeps the registrations.
LEMMA PersistRegisters ==
  ASSUME TypeOK, Registered, NEW j \in Jobs, Cached(j), NEW rec, rec.status # "none",
         PersistJob(j, rec) \/ PersistRaises(j, rec),
         \A v \in Threads : thr'[v].job \in {thr[v].job, NoJob},
         \A g \in Handlers : \/ req'[g] = req[g]
                             \/ req'[g] = IdleRequest
                             \/ /\ req'[g].pc \in Holding
                                /\ req'[g].job = j /\ req[g].job = j
  PROVE  Registered'
PROOF
  <1>1. Exists(j)
    BY DEF Registered, RowsRegistered
  <1>2. /\ \A i \in Jobs : Cached(i)' <=> Cached(i)
        /\ \A i \in Jobs : Exists(i)' <=> Exists(i)
        /\ \A i \in Jobs \ {j} : row'[i] = row[i]
    BY <1>1, TypeParts DEF Cached, Exists, PersistJob, PersistRaises
  <1>3. RowsRegistered'
    BY <1>1, <1>2 DEF Registered, RowsRegistered
  <1>4. WorkersRegistered'
    BY <1>2, BatchAssumption DEF Registered, WorkersRegistered
  <1>5. \A g \in Handlers : req[g].pc \in Resetting => req[g].job \in Jobs /\ req[g].job # j
    BY RequestJob DEF Registered, RequestRegistered, Resetting
  <1>6. RetryAlone'
    BY <1>5, BatchAssumption DEF Registered, RetryAlone, IdleRequest, Resetting, Holding
  <1>7. \A h \in Handlers : RequestRegistered(h)'
    <2> SUFFICES ASSUME NEW h \in Handlers PROVE RequestRegistered(h)'
      OBVIOUS
    <2>1. CASE req'[h] = req[h]
      BY <1>2, <1>5, <2>1, RequestJob
         DEF Registered, RequestRegistered, Holding, Fetching, Resetting
    <2>2. CASE req'[h] = IdleRequest
      BY <2>2 DEF IdleRequest, RequestRegistered, Holding, Fetching, Resetting
    <2>3. CASE req'[h].pc \in Holding /\ req'[h].job = j
      BY <1>2, <2>3 DEF RequestRegistered, Holding, Fetching, Resetting
    <2> QED BY <2>1, <2>2, <2>3
  <1> QED BY <1>3, <1>4, <1>6, <1>7 DEF Registered

\* A step of one request that writes no job record keeps them too.
LEMMA QuietRegisters ==
  ASSUME TypeOK, Registered, row' = row, cache' = cache, NEW h \in Handlers,
         \A g \in Handlers \ {h} : req'[g] = req[g],
         RequestRegistered(h)',
         req'[h].job = NoJob \/ req'[h].job = req[h].job,
         req'[h].pc \in Resetting => req[h].pc \in Resetting /\ req'[h].job = req[h].job,
         \A v \in Threads : thr'[v].job \in Jobs => Cached(thr'[v].job)
  PROVE  Registered'
PROOF
  <1>1. \A i : (Cached(i)' <=> Cached(i)) /\ (Exists(i)' <=> Exists(i))
    BY DEF Cached, Exists
  <1>2. RowsRegistered' /\ WorkersRegistered'
    BY <1>1 DEF Registered, RowsRegistered, WorkersRegistered
  <1>3. \A g \in Handlers : req[g].pc \in Resetting => req[g].job \in Jobs
    BY RequestJob DEF Resetting
  <1>4. RetryAlone'
    BY <1>3, BatchAssumption DEF Registered, RetryAlone
  <1>5. \A g \in Handlers \ {h} : RequestRegistered(g)'
    BY <1>1 DEF Registered, RequestRegistered
  <1> QED BY <1>2, <1>4, <1>5 DEF Registered

\* The job a busy request names is in the table.
LEMMA NamedExists ==
  ASSUME TypeOK, Registered, NEW h \in Handlers, req[h].pc \notin {"idle", "create"}
  PROVE  Exists(req[h].job)
PROOF
  <1>1. req[h].job \in Jobs /\ req[h].pc \in Fetching \cup Holding \cup Resetting
    BY RequestJob, TypeParts
       DEF WiredRequest, Request, RequestPc, Fetching, Holding, Resetting
  <1>2. RequestRegistered(h) /\ (Cached(req[h].job) => Exists(req[h].job))
    BY <1>1 DEF Registered, RowsRegistered
  <1>3. \A b : NewRecord(b).status # "none"
    BY DEF NewRecord
  <1> QED BY <1>1, <1>2, <1>3 DEF RequestRegistered, Exists

\* A worker thread keeps the registrations.
LEMMA WorkerRegisters ==
  ASSUME TypeOK, Registered, NEW w \in Threads, WorkerStep(w)
  PROVE  Registered'
PROOF
  <1> DEFINE j == thr[w].job
  <1>1. /\ req' = req
        /\ \A v \in Threads : thr'[v].job \in {thr[v].job, NoJob}
        /\ \/ row' = row /\ cache' = cache
           \/ j \in Jobs /\ PersistJob(j, Intended(w))
    BY WorkerFrame
  <1>2. CASE row' = row /\ cache' = cache
    BY <1>1, <1>2, BatchAssumption
       DEF Registered, RowsRegistered, WorkersRegistered, RequestRegistered, RetryAlone,
           Exists, Cached
  <1>3. CASE j \in Jobs /\ PersistJob(j, Intended(w))
    <2>1. Cached(j)
      BY <1>3 DEF Registered, WorkersRegistered
    <2>2. Intended(w).status # "none"
      BY <1>3, <2>1, IntendedGrows DEF Cached
    <2> QED BY <1>1, <1>3, <2>1, <2>2, PersistRegisters
  <1> QED BY <1>1, <1>2, <1>3

\* GoRequest moves one request on and leaves the others.
LEMMA GoRequestFrame ==
  ASSUME TypeOK, NEW h \in Handlers, NEW pc, GoRequest(h, pc)
  PROVE  /\ \A g \in Handlers \ {h} : req'[g] = req[g]
         /\ pc = "idle" => req'[h] = IdleRequest
         /\ pc # "idle" => /\ req'[h].pc = pc /\ req'[h].job = req[h].job
                           /\ req'[h].op = req[h].op /\ req'[h].batch = req[h].batch
                           /\ req'[h].picked = req[h].picked /\ req'[h].seen = req[h].seen
PROOF
  <1>1. req[h] \in WiredRequest /\ req \in [Handlers -> WiredRequest]
    BY TypeParts
  <1> QED BY <1>1 DEF GoRequest, WiredRequest, Request

\* Requests keep the registrations.
LEMMA RequestRegisters ==
  ASSUME TypeOK, Registered, NEW h \in Handlers, RequestStep(h)
  PROVE  Registered'
PROOF
  <1> USE TypeParts DEF RequestAt, tables, memory
  <1> PICK j : j = req[h].job
    OBVIOUS
  <1>0. /\ req[h] \in WiredRequest /\ RequestRegistered(h)
        /\ req[h].pc \notin {"idle", "create"} => j \in Jobs
        /\ \A v \in Threads : thr[v].job \in Jobs => Cached(thr[v].job)
    BY RequestJob DEF Registered, WorkersRegistered
  <1>1. CASE FetchRow(h)
    <2>1. req' = [req EXCEPT ![h] = [[req[h] EXCEPT !.seen = row[j]] EXCEPT !.pc = "store"]]
      BY <1>1 DEF FetchRow
    <2>2. /\ \A g \in Handlers \ {h} : req'[g] = req[g]
          /\ req'[h].pc = "store" /\ req'[h].job = j /\ req'[h].seen = row[j]
      BY <1>0, <2>1 DEF WiredRequest, Request
    <2>3. row' = row /\ cache' = cache /\ thr' = thr /\ req[h].pc = "fetch"
      BY <1>1 DEF FetchRow
    <2>4. RequestRegistered(h)'
      BY <1>0, <2>2, <2>3 DEF RequestRegistered, Holding, Fetching, Resetting, Exists
    <2> QED BY <1>0, <2>2, <2>3, <2>4, QuietRegisters DEF Resetting
  <1>2. CASE StoreRow(h)
    <2> DEFINE pc == AfterGet(req[h].op, req[h].seen)
    <2>1. /\ pc \in {"signal", "clear", "retryRead", "idle"} /\ GoRequest(h, pc)
          /\ req[h].pc = "store" /\ row' = row /\ thr' = thr
          /\ cache' = [cache EXCEPT ![j] = req[h].seen]
      BY <1>2, AfterGetType DEF StoreRow
    <2>2. j \in Jobs /\ Exists(j) /\ req[h].seen.status # "none"
      BY <1>0, <2>1 DEF RequestRegistered, Fetching
    <2>3. /\ Cached(j)' /\ \A i \in Jobs : Cached(i) => Cached(i)'
          /\ \A i \in Jobs \ {j} : Cached(i)' <=> Cached(i)
          /\ \A i \in Jobs : Exists(i)' <=> Exists(i)
      <3>1. cache'[j] = req[h].seen /\ \A i \in Jobs \ {j} : cache'[i] = cache[i]
        BY <2>1, <2>2
      <3> QED BY <2>1, <2>2, <3>1 DEF Cached, Exists
    <2>4. /\ \A g \in Handlers \ {h} : req'[g] = req[g]
          /\ req'[h].pc = pc /\ req'[h].job \in {j, NoJob}
          /\ pc = "idle" => req'[h].job = NoJob
          /\ pc # "idle" => req'[h].job = j
      BY <2>1, GoRequestFrame DEF IdleRequest
    <2>5. RowsRegistered' /\ WorkersRegistered'
      BY <2>1, <2>2, <2>3 DEF Registered, RowsRegistered, WorkersRegistered
    <2>6. \A g \in Handlers \ {h} :
            req[g].pc \in Resetting => req[g].job \in Jobs /\ req[g].job # j
      BY RequestJob DEF Registered, RetryAlone, Resetting
    <2>7. RetryAlone'
      BY <2>1, <2>4, <2>6, BatchAssumption DEF Registered, RetryAlone, Resetting
    <2>8. \A g \in Handlers \ {h} : RequestRegistered(g)'
      BY <2>1, <2>3, <2>4, <2>6, RequestJob
         DEF Registered, RequestRegistered, Resetting, Fetching, Holding
    <2>9. RequestRegistered(h)'
      BY <2>1, <2>3, <2>4 DEF RequestRegistered, Holding, Fetching, Resetting
    <2> QED BY <2>5, <2>7, <2>8, <2>9 DEF Registered
  <1>3. CASE PauseSignal(h) \/ ResumeClear(h)
    <2>1. PICK pc \in {"patchPausing", "patchRunning"} : GoRequest(h, pc)
      BY <1>3 DEF PauseSignal, ResumeClear
    <2>2. /\ \A g \in Handlers \ {h} : req'[g] = req[g]
          /\ req'[h].pc = pc /\ req'[h].job = j
      BY <2>1, GoRequestFrame
    <2>3. row' = row /\ cache' = cache /\ thr' = thr /\ req[h].pc \in {"signal", "clear"}
      BY <1>3 DEF PauseSignal, ResumeClear
    <2>4. RequestRegistered(h)'
      BY <1>0, <2>2, <2>3 DEF RequestRegistered, Holding, Fetching, Resetting, Cached
    <2> QED BY <1>0, <2>2, <2>3, <2>4, QuietRegisters DEF Resetting
  <1>4. CASE PausePatch(h) \/ ResumePatch(h)
    <2>1. PICK pc \in {"idle", "launch"}, s \in {"pausing", "running"} :
            GoRequest(h, pc) /\ PersistJob(j, [cache[j] EXCEPT !.status = s])
      BY <1>4 DEF PausePatch, ResumePatch
    <2>2. /\ \A g \in Handlers \ {h} : req'[g] = req[g]
          /\ req'[h] = IdleRequest \/ (req'[h].pc \in Holding /\ req'[h].job = j)
      BY <2>1, GoRequestFrame DEF Holding
    <2>3. Cached(j) /\ j \in Jobs /\ thr' = thr
      BY <1>0, <1>4 DEF PausePatch, ResumePatch, RequestRegistered, Holding
    <2>4. [cache[j] EXCEPT !.status = s].status # "none"
      BY <2>3 DEF JobRecord
    <2> QED BY <2>1, <2>2, <2>3, <2>4, PersistRegisters
  <1>5. CASE ResumeLaunch(h)
    <2>1. /\ \A g \in Handlers \ {h} : req'[g] = req[g]
          /\ req'[h] = IdleRequest
      BY <1>5, GoRequestFrame DEF ResumeLaunch
    <2>2. row' = row /\ cache' = cache /\ LaunchWorker(j) /\ Cached(j) /\ j \in Jobs
      BY <1>0, <1>5 DEF ResumeLaunch, RequestRegistered, Holding
    <2>3. \A v \in Threads : thr'[v].job \in Jobs => Cached(thr'[v].job)
      BY <1>0, <2>2 DEF LaunchWorker, IdleThread
    <2>4. RequestRegistered(h)' /\ req'[h].job = NoJob /\ req'[h].pc \notin Resetting
      BY <2>1 DEF IdleRequest, RequestRegistered, Holding, Fetching, Resetting
    <2> QED BY <2>1, <2>2, <2>3, <2>4, QuietRegisters, Zenon
  <1>6. ASSUME NEW i \in Jobs, StartCreate(h, i) PROVE Registered'
    <2>1. /\ \A g \in Handlers \ {h} : req'[g] = req[g]
          /\ req'[h] = IdleRequest
      BY <1>6, GoRequestFrame DEF StartCreate
    <2>2. /\ ~Exists(i) /\ LaunchWorker(i)
          /\ row' = [row EXCEPT ![i] = NewRecord(req[h].batch)]
          /\ cache' = [cache EXCEPT ![i] = NewRecord(req[h].batch)]
      BY <1>6 DEF StartCreate, CreateJobRecord, RegisterAndLaunch
    <2>3. /\ Cached(i)' /\ Exists(i)'
          /\ \A k \in Jobs \ {i} : row'[k] = row[k] /\ cache'[k] = cache[k]
      BY <2>2 DEF Cached, Exists, NewRecord
    <2>4. RowsRegistered'
      BY <2>3 DEF Registered, RowsRegistered, Cached, Exists
    <2>5. \A v \in Threads : thr'[v].job \in {thr[v].job, i}
      BY <2>2 DEF LaunchWorker, IdleThread
    <2>6. WorkersRegistered'
      BY <1>0, <2>3, <2>5 DEF WorkersRegistered, Cached
    <2>7. RetryAlone'
      BY <2>1, <1>0, RequestJob, BatchAssumption
         DEF Registered, RetryAlone, IdleRequest, Resetting
    <2>8. \A g \in Handlers \ {h} : req[g].pc \notin {"idle", "create"} => req[g].job # i
      BY <2>2, NamedExists
    <2>9. \A g \in Handlers \ {h} : RequestRegistered(g)'
      <3> SUFFICES ASSUME NEW g \in Handlers \ {h} PROVE RequestRegistered(g)'
        OBVIOUS
      <3>1. RequestRegistered(g) /\ req'[g] = req[g]
        BY <2>1 DEF Registered
      <3>2. CASE req[g].pc \in {"idle", "create"}
        BY <3>1, <3>2 DEF RequestRegistered, Holding, Fetching, Resetting
      <3>3. CASE req[g].pc \notin {"idle", "create"}
        <4>1. req[g].job \in Jobs \ {i}
          BY <2>8, <3>3, RequestJob
        <4> QED BY <2>3, <3>1, <4>1 DEF RequestRegistered, Cached, Exists
      <3> QED BY <3>2, <3>3
    <2>10. RequestRegistered(h)'
      BY <2>1 DEF IdleRequest, RequestRegistered, Holding, Fetching, Resetting
    <2> QED BY <2>4, <2>6, <2>7, <2>9, <2>10 DEF Registered
  <1>7. ASSUME NEW S \in SUBSET Md5s, RetryRead(h, S) PROVE Registered'
    <2>1. req' = [req EXCEPT ![h] = [[[req[h] EXCEPT !.picked = S] EXCEPT !.pc = "retryCreate"]
                                       EXCEPT !.batch = row[j].batch]]
      BY <1>7 DEF RetryRead
    <2>2. /\ \A g \in Handlers \ {h} : req'[g] = req[g]
          /\ req'[h].pc = "retryCreate" /\ req'[h].job = j
      BY <1>0, <2>1 DEF WiredRequest, Request
    <2>3. row' = row /\ cache' = cache /\ thr' = thr /\ req[h].pc = "retryRead"
      BY <1>7 DEF RetryRead
    <2>4. RequestRegistered(h)'
      BY <1>0, <2>2, <2>3 DEF RequestRegistered, Holding, Fetching, Resetting, Cached
    <2> QED BY <1>0, <2>2, <2>3, <2>4, QuietRegisters DEF Resetting
  <1>8. ASSUME NEW i \in Jobs, RetryCreate(h, i) PROVE Registered'
    <2>1. req' = [req EXCEPT ![h] = [[req[h] EXCEPT !.job = i] EXCEPT !.pc = "resetTask"]]
      BY <1>8 DEF RetryCreate
    <2>2. /\ \A g \in Handlers \ {h} : req'[g] = req[g]
          /\ req'[h].pc = "resetTask" /\ req'[h].job = i /\ req'[h].batch = req[h].batch
      BY <1>0, <2>1 DEF WiredRequest, Request
    <2>3. /\ ~Exists(i) /\ ~Cached(i) /\ cache' = cache /\ thr' = thr
          /\ row' = [row EXCEPT ![i] = NewRecord(req[h].batch)]
      BY <1>8 DEF RetryCreate, CreateJobRecord, Registered, RowsRegistered
    <2>4. /\ row'[i] = NewRecord(req[h].batch) /\ Exists(i)'
          /\ \A k \in Jobs \ {i} : row'[k] = row[k]
          /\ \A k \in Jobs : Cached(k)' <=> Cached(k)
      BY <2>3 DEF Cached, Exists, NewRecord
    <2>5. RowsRegistered' /\ WorkersRegistered'
      BY <2>3, <2>4 DEF Registered, RowsRegistered, WorkersRegistered, Cached, Exists
    <2>6. \A g \in Handlers \ {h} : req[g].job # i
      BY <2>3, NamedExists, BatchAssumption DEF Registered, RequestRegistered
    <2>7. RetryAlone'
      BY <2>2, <2>6 DEF Registered, RetryAlone
    <2>8. \A g \in Handlers \ {h} : RequestRegistered(g)'
      BY <2>2, <2>4, <2>6, RequestJob DEF Registered, RequestRegistered, Holding, Fetching,
         Resetting, Cached, Exists
    <2>9. RequestRegistered(h)'
      BY <2>2, <2>3, <2>4 DEF RequestRegistered, Holding, Fetching, Resetting, Cached
    <2> QED BY <2>5, <2>7, <2>8, <2>9 DEF Registered
  <1>9. ASSUME NEW m \in Md5s, RetryResetTask(h, m) PROVE Registered'
    <2>1. req' = [req EXCEPT ![h] = [[req[h] EXCEPT !.hand = m] EXCEPT !.pc = "resetBatch"]]
      BY <1>9 DEF RetryResetTask
    <2>2. /\ \A g \in Handlers \ {h} : req'[g] = req[g]
          /\ req'[h].pc = "resetBatch" /\ req'[h].job = j /\ req'[h].batch = req[h].batch
      BY <1>0, <2>1 DEF WiredRequest, Request
    <2>3. row' = row /\ cache' = cache /\ thr' = thr /\ req[h].pc = "resetTask"
      BY <1>9 DEF RetryResetTask
    <2>4. RequestRegistered(h)'
      BY <1>0, <2>2, <2>3 DEF RequestRegistered, Holding, Fetching, Resetting, Cached
    <2> QED BY <1>0, <2>2, <2>3, <2>4, QuietRegisters DEF Resetting
  <1>10. CASE RetryResetBatch(h)
    <2> DEFINE pc == IF req[h].picked = {req[h].hand} THEN "retryLaunch" ELSE "resetTask"
               S == req[h].picked \ {req[h].hand}
    <2>1. req' = [req EXCEPT ![h] = [[[req[h] EXCEPT !.picked = S] EXCEPT !.hand = NoMd5]
                                       EXCEPT !.pc = pc]]
      BY <1>10 DEF RetryResetBatch
    <2>2. /\ \A g \in Handlers \ {h} : req'[g] = req[g]
          /\ req'[h].pc = pc /\ req'[h].job = j /\ req'[h].batch = req[h].batch
      BY <1>0, <2>1 DEF WiredRequest, Request
    <2>3. row' = row /\ cache' = cache /\ thr' = thr /\ req[h].pc = "resetBatch"
      BY <1>10 DEF RetryResetBatch
    <2>4. pc \in {"retryLaunch", "resetTask"}
      OBVIOUS
    <2> HIDE DEF pc
    <2>5. RequestRegistered(h)'
      BY <1>0, <2>2, <2>3, <2>4 DEF RequestRegistered, Holding, Fetching, Resetting, Cached
    <2> QED BY <1>0, <2>2, <2>3, <2>5, QuietRegisters DEF Resetting
  <1>11. CASE RetryLaunch(h)
    <2>1. /\ \A g \in Handlers \ {h} : req'[g] = req[g]
          /\ req'[h] = IdleRequest
      BY <1>11, GoRequestFrame DEF RetryLaunch
    <2>2. /\ j \in Jobs /\ Exists(j) /\ LaunchWorker(j) /\ row' = row
          /\ cache' = [cache EXCEPT ![j] = NewRecord(req[h].batch)]
          /\ \A g \in Handlers \ {h} : req[g].job # j
      BY <1>0, <1>11, NamedExists
         DEF RetryLaunch, RegisterAndLaunch, Registered, RetryAlone, Resetting
    <2>3. /\ Cached(j)' /\ \A i \in Jobs : Exists(i)' <=> Exists(i)
          /\ \A k \in Jobs \ {j} : cache'[k] = cache[k]
      <3>1. \A i \in Jobs : Exists(i)' <=> Exists(i)
        BY <2>2, Zenon DEF Exists
      <3>2. cache \in [Jobs -> JobRecord]
        OBVIOUS
      <3>3. cache' = [cache EXCEPT ![j] = NewRecord(req[h].batch)] /\ j \in Jobs
        BY <2>2
      <3>4. cache'[j] = NewRecord(req[h].batch) /\ \A k \in Jobs \ {j} : cache'[k] = cache[k]
        BY <3>2, <3>3
      <3> QED BY <3>1, <3>4 DEF Cached, NewRecord
    <2>4. RowsRegistered'
      BY <2>2, <2>3 DEF Registered, RowsRegistered, Cached
    <2>5. \A v \in Threads : thr'[v].job \in {thr[v].job, j}
      BY <2>2 DEF LaunchWorker, IdleThread
    <2>6. WorkersRegistered'
      <3> SUFFICES ASSUME NEW v \in Threads, thr'[v].job \in Jobs PROVE Cached(thr[v].job)'
        BY DEF WorkersRegistered
      <3>1. CASE thr'[v].job = j
        BY <2>3, <3>1
      <3>2. CASE thr'[v].job # j
        BY <1>0, <2>3, <2>5, <3>2 DEF Cached
      <3> QED BY <3>1, <3>2
    <2>7. RetryAlone'
      BY <2>1, RequestJob, BatchAssumption
         DEF Registered, RetryAlone, IdleRequest, Resetting
    <2>8. \A g \in Handlers \ {h} : RequestRegistered(g)'
      BY <2>1, <2>2, <2>3, RequestJob DEF Registered, RequestRegistered, Holding, Fetching,
         Resetting, Cached
    <2>9. RequestRegistered(h)'
      BY <2>1 DEF IdleRequest, RequestRegistered, Holding, Fetching, Resetting
    <2> QED BY <2>4, <2>6, <2>7, <2>8, <2>9 DEF Registered
  <1>12. CASE RequestRejected(h)
    <2>1. /\ \A g \in Handlers \ {h} : req'[g] = req[g]
          /\ req'[h] = IdleRequest
      BY <1>12, GoRequestFrame DEF RequestRejected
    <2>2. row' = row /\ cache' = cache /\ thr' = thr
      BY <1>12 DEF RequestRejected
    <2>3. RequestRegistered(h)' /\ req'[h].job = NoJob /\ req'[h].pc \notin Resetting
      BY <2>1 DEF IdleRequest, RequestRegistered, Holding, Fetching, Resetting
    <2> QED BY <1>0, <2>1, <2>2, <2>3, QuietRegisters, Zenon
  <1> QED
    BY <1>1, <1>2, <1>3, <1>4, <1>5, <1>6, <1>7, <1>8, <1>9, <1>10, <1>11, <1>12
       DEF RequestStep


\* Imports, arriving requests, failures and restarts keep the registrations.
LEMMA EnvironmentRegisters ==
  ASSUME TypeOK, Registered, Environment
  PROVE  Registered'
PROOF
  <1> USE TypeParts DEF RequestAt, tables, memory, At
  <1>0. /\ \A v \in Threads : thr[v].job \in Jobs => Cached(thr[v].job)
        /\ \A g \in Handlers : RequestRegistered(g)
    BY DEF Registered, WorkersRegistered
  <1>1. ASSUME NEW b \in Batches, NEW S \in SUBSET Md5s, Import(b, S) PROVE Registered'
    BY <1>1 DEF Import, Registered, RowsRegistered, WorkersRegistered, RequestRegistered,
       RetryAlone, Exists, Cached
  <1>2. ASSUME NEW h \in Handlers, NEW op \in Op, NEW j \in Jobs, Enter(h, op, j)
        PROVE  Registered'
    <2>1. PICK pc \in {"signal", "clear", "retryRead", "fetch"} :
            /\ req' = [req EXCEPT ![h] =
                         [[[IdleRequest EXCEPT !.op = op] EXCEPT !.job = j] EXCEPT !.pc = pc]]
            /\ pc # "fetch" => Cached(j)
      <3> DEFINE p == IF Cached(j) THEN AfterGet(op, cache[j]) ELSE "fetch"
      <3>1. req' = [req EXCEPT ![h] =
                      [[[IdleRequest EXCEPT !.op = op] EXCEPT !.job = j] EXCEPT !.pc = p]]
        BY <1>2 DEF Enter
      <3>2. p \in {"signal", "clear", "retryRead", "fetch"} /\ (p # "fetch" => Cached(j))
        BY <1>2, AfterGetType DEF Enter
      <3> QED BY <3>1, <3>2
    <2>2. /\ \A g \in Handlers \ {h} : req'[g] = req[g]
          /\ req'[h].pc = pc /\ req'[h].job = j
      BY <2>1 DEF IdleRequest
    <2>3. /\ row' = row /\ cache' = cache /\ thr' = thr /\ Exists(j)
          /\ \A g \in Handlers : req[g].job = j => req[g].pc \notin Resetting
      BY <1>2 DEF Enter, Known, Resetting
    <2>4. RowsRegistered' /\ WorkersRegistered'
      BY <2>3 DEF Registered, RowsRegistered, WorkersRegistered, Exists, Cached
    <2>5. RetryAlone'
      BY <2>1, <2>2, <2>3 DEF Registered, RetryAlone, Resetting
    <2>6. \A g \in Handlers \ {h} : RequestRegistered(g)'
      BY <1>0, <2>2, <2>3 DEF RequestRegistered, Exists, Cached
    <2>7. RequestRegistered(h)'
      BY <2>1, <2>2, <2>3
         DEF RequestRegistered, Exists, Cached, Holding, Fetching, Resetting
    <2> QED BY <2>4, <2>5, <2>6, <2>7 DEF Registered
  <1>3. ASSUME NEW h \in Handlers, NEW b \in Batches, NEW S \in SUBSET Md5s,
               StartRead(h, b, S)
        PROVE  Registered'
    <2>1. req' = [req EXCEPT ![h] =
                    [[[[IdleRequest EXCEPT !.op = "start"] EXCEPT !.pc = "create"]
                       EXCEPT !.batch = b] EXCEPT !.picked = S]]
      BY <1>3 DEF StartRead
    <2>2. /\ \A g \in Handlers \ {h} : req'[g] = req[g]
          /\ req'[h].pc = "create" /\ req'[h].job = NoJob
      BY <2>1 DEF IdleRequest
    <2>3. row' = row /\ cache' = cache /\ thr' = thr
      BY <1>3 DEF StartRead
    <2>4. RequestRegistered(h)'
      BY <2>2 DEF RequestRegistered, Holding, Fetching, Resetting
    <2> QED BY <1>0, <2>2, <2>3, <2>4, QuietRegisters DEF Resetting
  <1>4. ASSUME NEW w \in Threads, WorkerDies(w) PROVE Registered'
    <2>1. req' = req /\ \A v \in Threads : thr'[v].job \in {thr[v].job, NoJob}
      BY <1>4 DEF WorkerDies, IdleThread
    <2>2. CASE row' = row /\ cache' = cache
      BY <1>0, <2>1, <2>2, BatchAssumption DEF Registered, RowsRegistered, WorkersRegistered,
         RequestRegistered, RetryAlone, Exists, Cached
    <2>3. CASE WritesRecord(w) /\ PersistRaises(JobOf(w), Intended(w))
      <3>1. JobOf(w) \in Jobs
        <4>1. thr[w] \in WiredThread
          OBVIOUS
        <4> QED BY <2>3, <4>1 DEF WritesRecord, WiredThread, JobOf
      <3>2. Cached(JobOf(w))
        BY <1>0, <3>1 DEF JobOf
      <3>3. Intended(w).status # "none"
        BY <3>1, <3>2, IntendedGrows DEF Cached, JobOf
      <3> QED BY <2>1, <2>3, <3>1, <3>2, <3>3, PersistRegisters
    <2> QED BY <1>4, <2>2, <2>3 DEF WorkerDies
  <1>5. ASSUME NEW h \in Handlers, RequestFails(h) PROVE Registered'
    <2>1. /\ \A g \in Handlers \ {h} : req'[g] = req[g]
          /\ req'[h] = IdleRequest /\ thr' = thr
      BY <1>5, GoRequestFrame DEF RequestFails
    <2>2. CASE row' = row /\ cache' = cache
      <3>1. RequestRegistered(h)' /\ req'[h].job = NoJob /\ req'[h].pc \notin Resetting
        BY <2>1 DEF IdleRequest, RequestRegistered, Holding, Fetching, Resetting
      <3> QED BY <1>0, <2>1, <2>2, <3>1, QuietRegisters, Zenon
    <2>3. ASSUME NEW s \in {"pausing", "running"}, req[h].pc \in Holding,
                 PersistRaises(req[h].job, [cache[req[h].job] EXCEPT !.status = s])
          PROVE  Registered'
      <3>1. req[h].job \in Jobs /\ Cached(req[h].job)
        BY <1>0, <2>3, RequestJob DEF RequestRegistered, Holding
      <3>2. [cache[req[h].job] EXCEPT !.status = s].status # "none"
        BY <3>1 DEF JobRecord
      <3> QED BY <2>1, <2>3, <3>1, <3>2, PersistRegisters
    <2> QED BY <1>5, <2>2, <2>3 DEF RequestFails, Holding
  <1>6. ASSUME ProcessGone,
               \A j \in Jobs : \/ row'[j] = row[j] \/ row'[j] = NoRecord
                               \/ Exists(j) /\ row'[j].status # "none"
        PROVE  Registered'
    <2>1. /\ cache' = [j \in Jobs |-> NoRecord]
          /\ thr' = [w \in Threads |-> IdleThread]
          /\ req' = [h \in Handlers |-> IdleRequest]
      BY <1>6 DEF ProcessGone
    <2>2. RowsRegistered'
      BY <1>6, <2>1 DEF Registered, RowsRegistered, Cached, Exists, NoRecord
    <2>3. WorkersRegistered' /\ RetryAlone'
      BY <2>1, BatchAssumption DEF WorkersRegistered, RetryAlone, IdleThread, IdleRequest, Resetting
    <2>4. \A h \in Handlers : RequestRegistered(h)'
      BY <2>1 DEF RequestRegistered, IdleRequest, Holding, Fetching, Resetting
    <2> QED BY <2>2, <2>3, <2>4 DEF Registered
  <1>7. CASE Restart
    <2>1. \A j \in Jobs : \/ row'[j] = row[j]
                          \/ Exists(j) /\ row'[j].status # "none"
      BY <1>7 DEF Restart, Interrupted, Exists, JobRecord
    <2> QED BY <1>6, <1>7, <2>1 DEF Restart
  <1>8. CASE RestartAndReset
    BY <1>6, <1>8 DEF RestartAndReset
  <1> QED
    BY <1>1, <1>2, <1>3, <1>4, <1>5, <1>7, <1>8 DEF Environment

\* Every job named by a thread or a request is where the next statement of it
\* looks for it.
LEMMA RegisteredAlways == Spec => [](TypeOK /\ Registered)
PROOF
  <1>1. Init => TypeOK /\ Registered
    <2>1. Init => Registered
      BY BatchAssumption DEF Init, Registered, RowsRegistered, WorkersRegistered, RequestRegistered, RetryAlone,
         Exists, Cached, NoRecord, IdleThread, IdleRequest, Holding, Fetching, Resetting
    <2> QED BY <2>1, InitType
  <1>2. TypeOK /\ Registered /\ [Next]_vars => Registered'
    <2> SUFFICES ASSUME TypeOK, Registered, [Next]_vars PROVE Registered'
      OBVIOUS
    <2>1. CASE UNCHANGED vars
      BY <2>1 DEF vars, Registered, RowsRegistered, WorkersRegistered, RequestRegistered,
         RetryAlone, Exists, Cached
    <2> QED
      BY <2>1, EnvironmentRegisters, RequestRegisters, WorkerRegisters DEF Next
  <1>3. TypeOK /\ [Next]_vars => TypeOK'
    BY TypeStep
  <1> QED BY <1>1, <1>2, <1>3, PTL DEF Spec


\* A free slot of the thread table belongs to no job.
SlotsFree == \A w \in Threads : thr[w].pc = "idle" => thr[w].job = NoJob

LEMMA SlotsFreeAlways == Spec => []SlotsFree
PROOF
  <1>1. Init => SlotsFree
    BY DEF Init, SlotsFree, IdleThread
  <1>2. TypeOK /\ SlotsFree /\ [Next]_vars => SlotsFree'
    <2> SUFFICES ASSUME TypeOK, SlotsFree, [Next]_vars PROVE SlotsFree'
      OBVIOUS
    <2> USE DEF tables, memory
    <2>1. ASSUME NEW j, LaunchWorker(j) PROVE SlotsFree'
      BY <2>1, TypeParts DEF LaunchWorker, SlotsFree, IdleThread
    <2>2. ASSUME NEW h \in Handlers, RequestStep(h) PROVE SlotsFree'
      <3>1. thr' = thr \/ \E j : LaunchWorker(j)
        BY <2>2 DEF RequestStep, FetchRow, StoreRow, PauseSignal, PausePatch, ResumeClear,
           ResumePatch, ResumeLaunch, StartCreate, RetryCreate, RetryRead, RetryResetTask,
           RetryResetBatch, RetryLaunch, RequestRejected, RegisterAndLaunch
      <3> QED BY <2>1, <3>1 DEF SlotsFree
    <2>3. ASSUME NEW w \in Threads, WorkerStep(w) PROVE SlotsFree'
      BY <2>3, WorkerFrame DEF SlotsFree
    <2>4. CASE Environment
      <3>1. \/ thr' = thr
            \/ \E w \in Threads : thr' = [thr EXCEPT ![w] = IdleThread]
            \/ thr' = [w \in Threads |-> IdleThread]
        BY <2>4 DEF Environment, Import, Enter, StartRead, WorkerDies, RequestFails, Restart,
           RestartAndReset, ProcessGone
      <3> QED BY <3>1, TypeParts DEF SlotsFree, IdleThread
    <2>5. CASE UNCHANGED vars
      BY <2>5 DEF vars, SlotsFree
    <2> QED BY <2>2, <2>3, <2>4, <2>5 DEF Next
  <1> QED BY <1>1, <1>2, TypeCorrect, PTL DEF Spec

\* Who is answerable for a job that says running: a thread on it, or a request
\* that has created or resumed it and will launch one.
Launching(h) == req[h].pc \in Resetting \cup {"launch"}
Worked(j) ==
  \/ \E w \in Threads : thr[w].job = j
  \/ \E h \in Handlers : req[h].job = j /\ Launching(h)
RunningWorked ==
  \A j \in Jobs : row[j].status = "running" /\ spent.faults = 0 => Worked(j)

\* A step of one request that changes no record keeps this when the request, if it
\* was about to launch a thread, still is or has launched it.
LEMMA QuietWorked ==
  ASSUME TypeOK, SlotsFree, RunningWorked, row' = row, spent'.faults = spent.faults,
         NEW h \in Handlers, NEW j, j = req[h].job,
         \A g \in Handlers \ {h} : req'[g] = req[g],
         thr' = thr \/ LaunchWorker(j),
         Launching(h) => \/ Launching(h)' /\ req'[h].job = j
                         \/ LaunchWorker(j)
  PROVE  RunningWorked'
PROOF
  <1> SUFFICES ASSUME NEW i \in Jobs, row'[i].status = "running", spent'.faults = 0
               PROVE  Worked(i)'
    BY DEF RunningWorked
  <1>1. Worked(i)
    BY DEF RunningWorked
  <1>2. CASE thr' = thr /\ ~LaunchWorker(j)
    BY <1>1, <1>2 DEF Worked, Launching
  <1>3. CASE LaunchWorker(j)
    <2>1. PICK v \in Threads :
            /\ thr[v].pc = "idle"
            /\ thr' = [thr EXCEPT ![v] = [[IdleThread EXCEPT !.pc = "load"] EXCEPT !.job = j]]
      BY <1>3 DEF LaunchWorker
    <2>2. /\ thr'[v].job = j /\ thr[v].job = NoJob
          /\ \A w \in Threads \ {v} : thr'[w] = thr[w]
      BY <2>1, TypeParts DEF IdleThread, SlotsFree
    <2> QED BY <1>1, <2>2, BatchAssumption DEF Worked, Launching
  <1> QED BY <1>2, <1>3

\* A step that writes the record of one job keeps it when that job is worked after
\* the step and no thread and no launching request is lost.
LEMMA WriteWorked ==
  ASSUME TypeOK, RunningWorked, NEW i \in Jobs, spent'.faults = spent.faults,
         \A k \in Jobs \ {i} : row'[k] = row[k],
         \A v \in Threads : thr[v].job \in Jobs => thr'[v].job = thr[v].job,
         \A g \in Handlers : req'[g] = req[g] \/ ~Launching(g),
         row'[i].status = "running" => Worked(i)'
  PROVE  RunningWorked'
PROOF
  <1> SUFFICES ASSUME NEW k \in Jobs, row'[k].status = "running", spent'.faults = 0, k # i
               PROVE  Worked(k)'
    BY DEF RunningWorked
  <1>1. Worked(k)
    BY DEF RunningWorked
  <1>2. CASE \E w \in Threads : thr[w].job = k
    BY <1>2 DEF Worked
  <1>3. CASE \E g \in Handlers : req[g].job = k /\ Launching(g)
    <2>1. PICK g \in Handlers : req[g].job = k /\ Launching(g)
      BY <1>3
    <2>2. req'[g] = req[g]
      BY <2>1
    <2> QED BY <2>1, <2>2 DEF Worked, Launching
  <1> QED BY <1>1, <1>2, <1>3 DEF Worked

LEMMA RequestWorked ==
  ASSUME TypeOK, Registered, SlotsFree, RunningWorked, NEW h \in Handlers, RequestStep(h)
  PROVE  RunningWorked'
PROOF
  <1> USE TypeParts DEF RequestAt, tables, memory
  <1> PICK j : j = req[h].job
    OBVIOUS
  <1>0. req[h] \in WiredRequest /\ RequestRegistered(h)
    BY DEF Registered
  <1>1. CASE FetchRow(h) \/ StoreRow(h) \/ PauseSignal(h) \/ ResumeClear(h) \/ RequestRejected(h)
    <2>1. /\ row' = row /\ thr' = thr /\ spent' = spent /\ ~Launching(h)
      BY <1>1 DEF FetchRow, StoreRow, PauseSignal, ResumeClear, RequestRejected,
         Launching, Resetting
    <2>2. \A g \in Handlers \ {h} : req'[g] = req[g]
      BY <1>1, GoRequestFrame DEF FetchRow, StoreRow, PauseSignal, ResumeClear, RequestRejected
    <2> QED BY <2>1, <2>2, QuietWorked
  <1>2. ASSUME NEW S \in SUBSET Md5s, RetryRead(h, S) PROVE RunningWorked'
    <2>1. /\ row' = row /\ thr' = thr /\ spent' = spent /\ ~Launching(h)
          /\ \A g \in Handlers \ {h} : req'[g] = req[g]
      BY <1>2 DEF RetryRead, Launching, Resetting
    <2> QED BY <2>1, QuietWorked
  <1>3. ASSUME NEW m \in Md5s, RetryResetTask(h, m) PROVE RunningWorked'
    <2>1. req' = [req EXCEPT ![h] = [[req[h] EXCEPT !.hand = m] EXCEPT !.pc = "resetBatch"]]
      BY <1>3 DEF RetryResetTask
    <2>2. /\ \A g \in Handlers \ {h} : req'[g] = req[g]
          /\ req'[h].pc = "resetBatch" /\ req'[h].job = j
      BY <1>0, <2>1 DEF WiredRequest, Request
    <2>3. row' = row /\ thr' = thr /\ spent' = spent /\ Launching(h)'
      BY <1>3, <2>2 DEF RetryResetTask, Launching, Resetting
    <2> QED BY <2>2, <2>3, QuietWorked
  <1>4. CASE RetryResetBatch(h)
    <2> DEFINE pc == IF req[h].picked = {req[h].hand} THEN "retryLaunch" ELSE "resetTask"
               S == req[h].picked \ {req[h].hand}
    <2>1. req' = [req EXCEPT ![h] = [[[req[h] EXCEPT !.picked = S] EXCEPT !.hand = NoMd5]
                                       EXCEPT !.pc = pc]]
      BY <1>4 DEF RetryResetBatch
    <2>2. /\ \A g \in Handlers \ {h} : req'[g] = req[g]
          /\ req'[h].pc = pc /\ req'[h].job = j
      BY <1>0, <2>1 DEF WiredRequest, Request
    <2>3. row' = row /\ thr' = thr /\ spent' = spent /\ Launching(h)'
      BY <1>4, <2>2 DEF RetryResetBatch, Launching, Resetting
    <2> QED BY <2>2, <2>3, QuietWorked
  <1>5. CASE ResumeLaunch(h) \/ RetryLaunch(h)
    <2>1. /\ row' = row /\ LaunchWorker(j) /\ spent' = spent
      BY <1>5 DEF ResumeLaunch, RetryLaunch, RegisterAndLaunch
    <2>2. \A g \in Handlers \ {h} : req'[g] = req[g]
      BY <1>5, GoRequestFrame DEF ResumeLaunch, RetryLaunch
    <2> QED BY <2>1, <2>2, QuietWorked
  <1>6. CASE PausePatch(h)
    <2>1. /\ j \in Jobs /\ row' = [row EXCEPT ![j] = [cache[j] EXCEPT !.status = "pausing"]]
          /\ thr' = thr /\ spent' = spent /\ ~Launching(h)
      BY <1>6, RequestJob DEF PausePatch, PersistJob, Launching, Resetting
    <2>2. \A g \in Handlers \ {h} : req'[g] = req[g]
      BY <1>6, GoRequestFrame DEF PausePatch
    <2>3. row'[j].status = "pausing" /\ \A i \in Jobs \ {j} : row'[i] = row[i]
      BY <2>1 DEF JobRecord
    <2> QED BY <2>1, <2>2, <2>3, WriteWorked
  <1>7. CASE ResumePatch(h)
    <2>1. /\ j \in Jobs /\ \A i \in Jobs \ {j} : row'[i] = row[i]
          /\ thr' = thr /\ spent' = spent
      BY <1>7, RequestJob DEF ResumePatch, PersistJob
    <2>2. /\ \A g \in Handlers \ {h} : req'[g] = req[g]
          /\ req'[h].pc = "launch" /\ req'[h].job = j
      BY <1>7, GoRequestFrame DEF ResumePatch
    <2>3. Worked(j)' /\ ~Launching(h)
      BY <1>7, <2>2 DEF Worked, Launching, Resetting, ResumePatch
    <2> QED BY <2>1, <2>2, <2>3, WriteWorked
  <1>8. ASSUME NEW i \in Jobs, StartCreate(h, i) PROVE RunningWorked'
    <2>1. /\ \A k \in Jobs \ {i} : row'[k] = row[k]
          /\ LaunchWorker(i) /\ spent' = spent /\ ~Launching(h)
      BY <1>8 DEF StartCreate, CreateJobRecord, RegisterAndLaunch, Launching, Resetting
    <2>2. \A g \in Handlers \ {h} : req'[g] = req[g]
      BY <1>8, GoRequestFrame DEF StartCreate
    <2>3. PICK v \in Threads :
            /\ thr[v].pc = "idle"
            /\ thr' = [thr EXCEPT ![v] = [[IdleThread EXCEPT !.pc = "load"] EXCEPT !.job = i]]
      BY <2>1 DEF LaunchWorker
    <2>4. /\ thr'[v].job = i /\ thr[v].job = NoJob
          /\ \A w \in Threads \ {v} : thr'[w] = thr[w]
      BY <2>3 DEF IdleThread, SlotsFree
    <2>5. Worked(i)' /\ \A w \in Threads : thr[w].job \in Jobs => thr'[w].job = thr[w].job
      BY <2>4, BatchAssumption DEF Worked
    <2> QED BY <2>1, <2>2, <2>5, WriteWorked
  <1>9. ASSUME NEW i \in Jobs, RetryCreate(h, i) PROVE RunningWorked'
    <2>1. req' = [req EXCEPT ![h] = [[req[h] EXCEPT !.job = i] EXCEPT !.pc = "resetTask"]]
      BY <1>9 DEF RetryCreate
    <2>2. /\ \A g \in Handlers \ {h} : req'[g] = req[g]
          /\ req'[h].pc = "resetTask" /\ req'[h].job = i
      BY <1>0, <2>1 DEF WiredRequest, Request
    <2>3. /\ \A k \in Jobs \ {i} : row'[k] = row[k]
          /\ thr' = thr /\ spent' = spent /\ ~Launching(h)
      BY <1>9 DEF RetryCreate, CreateJobRecord, Launching, Resetting
    <2>4. Worked(i)'
      BY <2>2 DEF Worked, Launching, Resetting
    <2> QED BY <2>2, <2>3, <2>4, WriteWorked
  <1> QED
    BY <1>1, <1>2, <1>3, <1>4, <1>5, <1>6, <1>7, <1>8, <1>9 DEF RequestStep

LEMMA WorkerWorked ==
  ASSUME TypeOK, RunningWorked, NEW w \in Threads, WorkerStep(w)
  PROVE  RunningWorked'
PROOF
  <1> USE TypeParts
  <1> PICK j : j = thr[w].job
    OBVIOUS
  <1>1. /\ req' = req /\ spent' = spent
        /\ \A v \in Threads \ {w} : thr'[v] = thr[v]
        /\ \/ thr'[w].job = j
           \/ j \in Jobs /\ row'[j].status \in {"paused", "completed"}
        /\ \/ row' = row /\ cache' = cache
           \/ j \in Jobs /\ PersistJob(j, Intended(w))
    BY WorkerFrame
  <1>2. \A i \in Jobs \ {j} : row'[i] = row[i]
    BY <1>1 DEF PersistJob
  <1> SUFFICES ASSUME NEW i \in Jobs, row'[i].status = "running", spent'.faults = 0
               PROVE  Worked(i)'
    BY DEF RunningWorked
  <1>3. CASE i = j
    BY <1>1, <1>3 DEF Worked
  <1>4. CASE i # j
    <2>1. Worked(i)
      BY <1>1, <1>2, <1>4 DEF RunningWorked
    <2> QED BY <1>1, <1>4, <2>1 DEF Worked, Launching
  <1> QED BY <1>3, <1>4

LEMMA EnvironmentWorked ==
  ASSUME TypeOK, RunningWorked, Environment
  PROVE  RunningWorked'
PROOF
  <1> USE TypeParts DEF tables, memory, RequestAt
  <1>1. ASSUME NEW b \in Batches, NEW S \in SUBSET Md5s, Import(b, S) PROVE RunningWorked'
    BY <1>1 DEF Import, RunningWorked, Worked, Launching
  <1>2. ASSUME NEW h \in Handlers, req[h].pc = "idle", row' = row, thr' = thr,
               spent'.faults = spent.faults, \A g \in Handlers \ {h} : req'[g] = req[g]
        PROVE  RunningWorked'
    BY <1>2 DEF RunningWorked, Worked, Launching, Resetting
  <1>3. ASSUME NEW h \in Handlers, NEW op \in Op, NEW j \in Jobs, Enter(h, op, j)
        PROVE  RunningWorked'
    BY <1>2, <1>3 DEF Enter
  <1>4. ASSUME NEW h \in Handlers, NEW b \in Batches, NEW S \in SUBSET Md5s,
               StartRead(h, b, S)
        PROVE  RunningWorked'
    BY <1>2, <1>4 DEF StartRead
  <1>5. ASSUME spent' = [spent EXCEPT !.faults = @ + 1] PROVE RunningWorked'
    BY <1>5 DEF RunningWorked
  <1>6. CASE Restart \/ RestartAndReset
    <2>1. \A i \in Jobs : row'[i].status # "running"
      BY <1>6 DEF Restart, RestartAndReset, Interrupted, NoRecord, JobRecord
    <2> QED BY <2>1 DEF RunningWorked
  <1> QED
    BY <1>1, <1>3, <1>4, <1>5, <1>6 DEF Environment, WorkerDies, RequestFails

\* A job whose row says running has a thread working on it, or a request that will
\* launch one, unless an SQLite error has taken the thread away: for any number of
\* requests at once, with restarts, and whether or not the clients respect the
\* console's buttons (batch.py:88-129, 232-337).
THEOREM RunningJobsAreWorked == Spec => []RunningIsWorked
PROOF
  <1>1. Init => RunningWorked
    BY DEF Init, RunningWorked, NoRecord
  <1>2. TypeOK /\ Registered /\ SlotsFree /\ RunningWorked /\ [Next]_vars => RunningWorked'
    <2> SUFFICES ASSUME TypeOK, Registered, SlotsFree, RunningWorked, [Next]_vars
                 PROVE  RunningWorked'
      OBVIOUS
    <2>1. CASE UNCHANGED vars
      BY <2>1 DEF vars, RunningWorked, Worked, Launching
    <2> QED BY <2>1, RequestWorked, WorkerWorked, EnvironmentWorked DEF Next
  <1>3. TypeOK /\ RunningWorked => RunningIsWorked
    <2> SUFFICES ASSUME TypeOK, RunningWorked, NEW j \in Jobs, row[j].status = "running",
                        spent.faults = 0
                 PROVE  \/ WorkersOf(j) # {}
                        \/ \E h \in Handlers : req[h].job = j /\ req[h].pc # "idle"
      BY DEF RunningIsWorked
    <2>1. Worked(j)
      BY DEF RunningWorked
    <2> QED BY <2>1 DEF Worked, Launching, Resetting, WorkersOf
  <1> QED BY <1>1, <1>2, <1>3, RegisteredAlways, SlotsFreeAlways, PTL DEF Spec


\* What a step of one request may touch of the others: it moves no other request, it
\* takes up no job that is in the table, and it leaves the records and the threads of
\* every job but its own and a fresh one alone.
LEMMA RequestFrame ==
  ASSUME TypeOK, Registered, SlotsFree, NEW g \in Handlers, RequestStep(g)
  PROVE  /\ \A h \in Handlers \ {g} : req'[h] = req[h]
         /\ \/ req'[g].job \in {req[g].job, NoJob}
            \/ req'[g].job \in Jobs /\ ~Exists(req'[g].job) /\ req'[g].pc = "resetTask"
         /\ req'[g].pc \in Fetching =>
              /\ req[g].pc = "fetch" /\ req'[g].pc = "store" /\ req'[g].job = req[g].job
              /\ req'[g].seen = row[req[g].job] /\ row' = row /\ cache' = cache
         /\ \A k \in Jobs : Exists(k) /\ k # req[g].job =>
              /\ row'[k] = row[k] /\ cache'[k] = cache[k]
              /\ \A w \in Threads : thr'[w].job = k => thr[w].job = k
PROOF
  <1> USE TypeParts DEF RequestAt, tables, memory
  <1> PICK j : j = req[g].job
    OBVIOUS
  <1>0. /\ req[g] \in WiredRequest /\ RequestRegistered(g)
        /\ req[g].pc \notin {"idle", "create"} => j \in Jobs
    BY RequestJob DEF Registered
  <1> DEFINE Moves == /\ \A h \in Handlers \ {g} : req'[h] = req[h]
                      /\ req'[g].job \in {j, NoJob} /\ req'[g].pc \notin Fetching
             Spares(i) == \A k \in Jobs : Exists(k) /\ k # i =>
                            /\ row'[k] = row[k] /\ cache'[k] = cache[k]
                            /\ \A w \in Threads : thr'[w].job = k => thr[w].job = k
  <1> DEFINE Frame == /\ \A h \in Handlers \ {g} : req'[h] = req[h]
                      /\ \/ req'[g].job \in {j, NoJob}
                         \/ /\ req'[g].job \in Jobs /\ ~Exists(req'[g].job)
                            /\ req'[g].pc = "resetTask"
                      /\ req'[g].pc \in Fetching =>
                           /\ req[g].pc = "fetch" /\ req'[g].pc = "store" /\ req'[g].job = j
                           /\ req'[g].seen = row[j] /\ row' = row /\ cache' = cache
                      /\ Spares(j)
  <1> SUFFICES Frame
    OBVIOUS
  <1>1. ASSUME NEW pc \in RequestPc \ Fetching, GoRequest(g, pc) PROVE Moves
    BY <1>1, GoRequestFrame DEF IdleRequest, Fetching
  <1>2. ASSUME row' = row, cache' = cache, thr' = thr, NEW i PROVE Spares(i)
    BY <1>2
  <1>3. ASSUME NEW i \in Jobs, LaunchWorker(i)
        PROVE  \A k \in Jobs \ {i}, w \in Threads : thr'[w].job = k => thr[w].job = k
    <2>1. PICK v \in Threads :
            thr' = [thr EXCEPT ![v] = [[IdleThread EXCEPT !.pc = "load"] EXCEPT !.job = i]]
      BY <1>3 DEF LaunchWorker
    <2>2. thr'[v].job = i /\ \A w \in Threads \ {v} : thr'[w] = thr[w]
      BY <2>1 DEF IdleThread
    <2> QED BY <2>2
  <1>4. CASE FetchRow(g)
    <2>1. req' = [req EXCEPT ![g] = [[req[g] EXCEPT !.seen = row[j]] EXCEPT !.pc = "store"]]
      BY <1>4 DEF FetchRow
    <2>2. /\ \A h \in Handlers \ {g} : req'[h] = req[h]
          /\ req'[g].pc = "store" /\ req'[g].job = j /\ req'[g].seen = row[j]
      BY <1>0, <2>1 DEF WiredRequest, Request
    <2> QED BY <1>4, <2>2 DEF FetchRow
  <1>5. CASE StoreRow(g)
    <2>1. /\ GoRequest(g, AfterGet(req[g].op, req[g].seen)) /\ row' = row /\ thr' = thr
          /\ cache' = [cache EXCEPT ![j] = req[g].seen] /\ j \in Jobs
      BY <1>0, <1>5 DEF StoreRow
    <2>2. Moves
      BY <1>1, <2>1, AfterGetType DEF RequestPc, Fetching
    <2>3. Spares(j)
      BY <2>1
    <2> QED BY <2>2, <2>3
  <1>6. CASE PauseSignal(g) \/ ResumeClear(g) \/ RequestRejected(g)
    <2>1. Moves
      BY <1>1, <1>6 DEF PauseSignal, ResumeClear, RequestRejected, RequestPc, Fetching
    <2>2. Spares(j)
      BY <1>2, <1>6 DEF PauseSignal, ResumeClear, RequestRejected
    <2> QED BY <2>1, <2>2
  <1>7. CASE PausePatch(g) \/ ResumePatch(g)
    <2>1. PICK pc \in {"idle", "launch"}, s \in {"pausing", "running"} :
            /\ GoRequest(g, pc) /\ PersistJob(j, [cache[j] EXCEPT !.status = s])
            /\ thr' = thr
      BY <1>7 DEF PausePatch, ResumePatch
    <2>2. Moves
      BY <1>1, <2>1 DEF RequestPc, Fetching
    <2>3. Spares(j)
      BY <2>1 DEF PersistJob
    <2> QED BY <2>2, <2>3
  <1>8. CASE ResumeLaunch(g)
    <2>1. Moves
      BY <1>1, <1>8 DEF ResumeLaunch, RequestPc, Fetching
    <2>2. row' = row /\ cache' = cache /\ LaunchWorker(j) /\ j \in Jobs
      BY <1>0, <1>8 DEF ResumeLaunch
    <2>3. Spares(j)
      BY <1>3, <2>2
    <2> QED BY <2>1, <2>3
  <1>9. ASSUME NEW i \in Jobs, StartCreate(g, i) PROVE Moves /\ Spares(j)
    <2>1. Moves
      BY <1>1, <1>9 DEF StartCreate, RequestPc, Fetching
    <2>2. /\ row' = [row EXCEPT ![i] = NewRecord(req[g].batch)]
          /\ cache' = [cache EXCEPT ![i] = NewRecord(req[g].batch)]
          /\ LaunchWorker(i) /\ ~Exists(i)
      BY <1>9 DEF StartCreate, CreateJobRecord, RegisterAndLaunch
    <2>3. Spares(i)
      BY <1>3, <2>2
    <2> QED BY <2>1, <2>2, <2>3
  <1>10. ASSUME NEW i \in Jobs, RetryCreate(g, i)
         PROVE  /\ \A h \in Handlers \ {g} : req'[h] = req[h]
                /\ req'[g].job = i /\ ~Exists(i) /\ req'[g].pc = "resetTask"
                /\ Spares(j)
    <2>1. req' = [req EXCEPT ![g] = [[req[g] EXCEPT !.job = i] EXCEPT !.pc = "resetTask"]]
      BY <1>10 DEF RetryCreate
    <2>2. /\ \A h \in Handlers \ {g} : req'[h] = req[h]
          /\ req'[g].pc = "resetTask" /\ req'[g].job = i
      BY <1>0, <2>1 DEF WiredRequest, Request
    <2>3. /\ row' = [row EXCEPT ![i] = NewRecord(req[g].batch)] /\ cache' = cache
          /\ thr' = thr /\ ~Exists(i)
      BY <1>10 DEF RetryCreate, CreateJobRecord
    <2>4. Spares(j)
      BY <2>3
    <2> QED BY <2>2, <2>3, <2>4
  <1>11. ASSUME NEW S \in SUBSET Md5s, RetryRead(g, S) PROVE Moves /\ Spares(j)
    <2>1. req' = [req EXCEPT ![g] = [[[req[g] EXCEPT !.picked = S] EXCEPT !.pc = "retryCreate"]
                                       EXCEPT !.batch = row[j].batch]]
      BY <1>11 DEF RetryRead
    <2>2. /\ \A h \in Handlers \ {g} : req'[h] = req[h]
          /\ req'[g].pc = "retryCreate" /\ req'[g].job = j
      BY <1>0, <2>1 DEF WiredRequest, Request
    <2>3. row' = row /\ cache' = cache /\ thr' = thr
      BY <1>11 DEF RetryRead
    <2> QED BY <2>2, <2>3 DEF Fetching
  <1>12. ASSUME NEW m \in Md5s, RetryResetTask(g, m) PROVE Moves /\ Spares(j)
    <2>1. req' = [req EXCEPT ![g] = [[req[g] EXCEPT !.hand = m] EXCEPT !.pc = "resetBatch"]]
      BY <1>12 DEF RetryResetTask
    <2>2. /\ \A h \in Handlers \ {g} : req'[h] = req[h]
          /\ req'[g].pc = "resetBatch" /\ req'[g].job = j
      BY <1>0, <2>1 DEF WiredRequest, Request
    <2>3. row' = row /\ cache' = cache /\ thr' = thr
      BY <1>12 DEF RetryResetTask
    <2> QED BY <2>2, <2>3 DEF Fetching
  <1>13. CASE RetryResetBatch(g)
    <2> DEFINE pc == IF req[g].picked = {req[g].hand} THEN "retryLaunch" ELSE "resetTask"
               S == req[g].picked \ {req[g].hand}
    <2>1. req' = [req EXCEPT ![g] = [[[req[g] EXCEPT !.picked = S] EXCEPT !.hand = NoMd5]
                                       EXCEPT !.pc = pc]]
      BY <1>13 DEF RetryResetBatch
    <2>2. /\ \A h \in Handlers \ {g} : req'[h] = req[h]
          /\ req'[g].pc = pc /\ req'[g].job = j
      BY <1>0, <2>1 DEF WiredRequest, Request
    <2>3. row' = row /\ cache' = cache /\ thr' = thr
      BY <1>13 DEF RetryResetBatch
    <2> QED BY <2>2, <2>3 DEF Fetching
  <1>14. CASE RetryLaunch(g)
    <2>1. Moves
      BY <1>1, <1>14 DEF RetryLaunch, RequestPc, Fetching
    <2>2. /\ j \in Jobs /\ row' = row /\ LaunchWorker(j)
          /\ cache' = [cache EXCEPT ![j] = NewRecord(req[g].batch)]
      BY <1>0, <1>14 DEF RetryLaunch, RegisterAndLaunch
    <2>3. Spares(j)
      BY <1>3, <2>2
    <2> QED BY <2>1, <2>3
  <1>15. ASSUME Moves, Spares(j) PROVE Frame
    BY <1>15
  <1>16. CASE \E i \in Jobs : RetryCreate(g, i)
    BY <1>10, <1>16 DEF Fetching
  <1> HIDE DEF Frame, Moves, Spares
  <1> QED
    BY <1>4, <1>5, <1>6, <1>7, <1>8, <1>9, <1>11, <1>12, <1>13, <1>14, <1>15, <1>16
       DEF RequestStep

\* What was noted of the clients stays noted, and no error is forgotten.
LEMMA NotesStay ==
  ASSUME TypeOK, [Next]_vars
  PROVE  client \subseteq client' /\ spent'.faults >= spent.faults
PROOF
  <1> USE TypeParts DEF tables, memory
  <1>1. CASE UNCHANGED vars
    BY <1>1 DEF vars
  <1>2. CASE Environment
    <2>1. /\ client \subseteq client'
          /\ \/ spent' = spent
             \/ spent' = [spent EXCEPT !.requests = @ + 1]
             \/ spent' = [spent EXCEPT !.faults = @ + 1]
             \/ spent' = [spent EXCEPT !.restarts = @ + 1]
      BY <1>2 DEF Environment, Import, Enter, StartRead, WorkerDies, RequestFails, Restart,
         RestartAndReset, ProcessGone
    <2> QED BY <2>1
  <1>3. ASSUME NEW h \in Handlers, RequestStep(h) PROVE client \subseteq client' /\ spent' = spent
    BY <1>3 DEF RequestStep, FetchRow, StoreRow, PauseSignal, PausePatch, ResumeClear,
       ResumePatch, ResumeLaunch, StartCreate, RetryCreate, RetryRead, RetryResetTask,
       RetryResetBatch, RetryLaunch, RequestRejected
  <1>4. ASSUME NEW w \in Threads, WorkerStep(w) PROVE client' = client /\ spent' = spent
    BY <1>4 DEF WorkerStep, LoadPending, CheckControl, PauseHere, ClaimChunk, MarkItem, Judge,
       RecordTask, MarkTask, MarkBatch, RecordBatch, RecordItem, AppendOutcome, Finish
  <1> QED BY <1>1, <1>2, <1>3, <1>4 DEF Next

\* A request that names a job names it after the retry that created it has answered,
\* and what is noted of its client says whom it meets.
LEMMA EnterFrame ==
  ASSUME TypeOK, Registered, NEW h \in Handlers, NEW op \in Op, NEW j \in Jobs, Enter(h, op, j)
  PROVE  /\ \A g \in Handlers \ {h} : req'[g] = req[g]
         /\ req[h].pc = "idle" /\ req[h].job = NoJob
         /\ req'[h].job = j /\ req'[h].op = op /\ Exists(j)
         /\ req'[h].pc = (IF Cached(j) THEN AfterGet(op, cache[j]) ELSE "fetch")
         /\ row' = row /\ cache' = cache /\ thr' = thr
         /\ ~Cached(j) => \A g \in Handlers : req[g].job = j => req[g].pc \in Fetching
         /\ "together" \notin client' => \A g \in Handlers : req[g].job # j
         /\ "stale" \notin client' =>
              \A g \in Handlers : req[g].job = j => req[g].pc \notin Fetching
         /\ "early" \notin client' => ~(op = "resume" /\ cache[j].status = "pausing")
PROOF
  <1> USE TypeParts DEF RequestAt, tables, memory
  <1> PICK p : p = IF Cached(j) THEN AfterGet(op, cache[j]) ELSE "fetch"
    OBVIOUS
  <1>1. req' = [req EXCEPT ![h] =
                  [[[IdleRequest EXCEPT !.op = op] EXCEPT !.job = j] EXCEPT !.pc = p]]
    BY DEF Enter
  <1>2. /\ \A g \in Handlers \ {h} : req'[g] = req[g]
        /\ req'[h].job = j /\ req'[h].op = op /\ req'[h].pc = p
    BY <1>1 DEF IdleRequest
  <1>3. /\ req[h].pc = "idle" /\ row' = row /\ cache' = cache /\ thr' = thr
        /\ client' = client \cup Meeting(j) \cup Resuming(op, cache[j]) /\ Known(j)
    BY DEF Enter
  <1>4. req[h].job = NoJob /\ \A g \in Handlers : RequestRegistered(g)
    BY <1>3 DEF Registered, RequestRegistered
  <1>5. ASSUME ~Cached(j), NEW g \in Handlers, req[g].job = j PROVE req[g].pc \in Fetching
    <2>1. req[g] \in WiredRequest /\ RequestRegistered(g)
      BY <1>4
    <2>2. req[g].pc \notin {"idle", "create"} /\ req[g].pc \notin Holding
      BY <1>5, <2>1, BatchAssumption DEF RequestRegistered
    <2>3. req[g].pc \notin Resetting
      BY <1>3, <1>5 DEF Known, Resetting
    <2> QED BY <2>1, <2>2, <2>3
            DEF WiredRequest, Request, RequestPc, Holding, Resetting, Fetching
  <1>6. "together" \notin client' => \A g \in Handlers : req[g].job # j
    BY <1>3 DEF Meeting, Busy
  <1>7. "stale" \notin client' => \A g \in Handlers : req[g].job = j => req[g].pc \notin Fetching
    BY <1>3 DEF Meeting, Reading, Fetching
  <1>8. "early" \notin client' => ~(op = "resume" /\ cache[j].status = "pausing")
    BY <1>3 DEF Resuming
  <1> QED BY <1>2, <1>3, <1>4, <1>5, <1>6, <1>7, <1>8 DEF Known

\* What one step may do to a job's record, in memory and in the table.
AtLeast(new, old) == new.succeeded >= old.succeeded /\ new.failed >= old.failed
Fresh(rec) == rec.succeeded = 0 /\ rec.failed = 0
RecordStep(j) ==
  \/ row'[j] = row[j] /\ cache'[j] = cache[j]
  \/ \* the job is created, or its record enters memory for the first time
     /\ Fresh(row[j]) /\ Fresh(row'[j])
     /\ cache'[j] = cache[j] \/ cache'[j] = row'[j]
     /\ ~Cached(j)
  \/ \* the record in memory is changed and written, or the write raises
     /\ Cached(j) /\ AtLeast(cache'[j], cache[j])
     /\ \/ row'[j] = cache'[j]
        \/ row'[j] = row[j] /\ spent'.faults # spent.faults
  \/ \* a row that was read earlier enters memory
     /\ row'[j] = row[j]
     /\ \E h \in Handlers : /\ req[h].pc = "store" /\ req[h].job = j
                            /\ cache'[j] = req[h].seen
  \/ \* the process is gone
     /\ ~Cached(j)'
     /\ \/ row'[j] = NoRecord
        \/ AtLeast(row'[j], row[j])

LEMMA RecordSteps ==
  ASSUME TypeOK, Registered, [Next]_vars, NEW j \in Jobs
  PROVE  RecordStep(j)
PROOF
  <1> USE TypeParts DEF tables, memory, RequestAt
  <1>0. row[j] \in JobRecord /\ cache[j] \in JobRecord
    OBVIOUS
  <1>1. CASE row' = row /\ cache' = cache
    BY <1>1 DEF RecordStep
  <1>2. ASSUME NEW h \in Handlers, RequestStep(h) PROVE RecordStep(j)
    <2>0. RequestRegistered(h)
      BY DEF Registered
    <2>1. CASE PausePatch(h) \/ ResumePatch(h)
      <3>1. PICK s \in {"pausing", "running"} :
              PersistJob(req[h].job, [cache[req[h].job] EXCEPT !.status = s])
        BY <2>1 DEF PausePatch, ResumePatch
      <3>2. req[h].job \in Jobs /\ Cached(req[h].job)
        BY <2>0, <2>1, RequestJob DEF PausePatch, ResumePatch, RequestRegistered, Holding
      <3>3. CASE j # req[h].job
        BY <3>1, <3>2, <3>3 DEF PersistJob, RecordStep
      <3>4. CASE j = req[h].job
        <4>1. /\ cache'[j] = [cache[j] EXCEPT !.status = s] /\ row'[j] = cache'[j]
          BY <3>1, <3>4 DEF PersistJob
        <4>2. AtLeast(cache'[j], cache[j])
          BY <1>0, <4>1 DEF AtLeast, JobRecord
        <4> QED BY <3>2, <3>4, <4>1, <4>2 DEF RecordStep
      <3> QED BY <3>3, <3>4
    <2>2. CASE StoreRow(h)
      <3>1. req[h].job \in Jobs
        BY <2>2, RequestJob DEF StoreRow
      <3>2. /\ row' = row /\ req[h].pc = "store"
            /\ cache' = [cache EXCEPT ![req[h].job] = req[h].seen]
        BY <2>2 DEF StoreRow
      <3>3. CASE j # req[h].job
        BY <3>1, <3>2, <3>3 DEF RecordStep
      <3>4. CASE j = req[h].job
        <4>1. cache'[j] = req[h].seen
          BY <3>2, <3>4
        <4> QED BY <3>2, <3>4, <4>1 DEF RecordStep
      <3> QED BY <3>3, <3>4
    <2>3. ASSUME NEW i \in Jobs, StartCreate(h, i) \/ RetryCreate(h, i) PROVE RecordStep(j)
      <3>1. /\ row' = [row EXCEPT ![i] = NewRecord(req[h].batch)] /\ ~Exists(i)
            /\ cache' = [cache EXCEPT ![i] = NewRecord(req[h].batch)] \/ cache' = cache
        BY <2>3 DEF StartCreate, RetryCreate, CreateJobRecord, RegisterAndLaunch
      <3>2. row[i] = NoRecord /\ ~Cached(i)
        BY <3>1 DEF Registered, RowsRegistered
      <3>3. CASE j # i
        BY <3>1, <3>3 DEF RecordStep
      <3>4. CASE j = i
        BY <3>1, <3>2, <3>4 DEF RecordStep, Fresh, NoRecord, NewRecord
      <3> QED BY <3>3, <3>4
    <2>4. CASE RetryLaunch(h)
      <3>1. /\ req[h].job \in Jobs /\ ~Cached(req[h].job)
            /\ row[req[h].job] = NewRecord(req[h].batch) /\ row' = row
            /\ cache' = [cache EXCEPT ![req[h].job] = NewRecord(req[h].batch)]
        BY <2>0, <2>4, RequestJob
           DEF RetryLaunch, RegisterAndLaunch, RequestRegistered, Resetting
      <3>2. CASE j # req[h].job
        BY <3>1, <3>2 DEF RecordStep
      <3>3. CASE j = req[h].job
        BY <3>1, <3>3 DEF RecordStep, Fresh, NewRecord
      <3> QED BY <3>2, <3>3
    <2>5. \/ row' = row /\ cache' = cache
          \/ PausePatch(h) \/ ResumePatch(h) \/ StoreRow(h) \/ RetryLaunch(h)
          \/ \E i \in Jobs : StartCreate(h, i) \/ RetryCreate(h, i)
      BY <1>2 DEF RequestStep, FetchRow, PauseSignal, ResumeClear, ResumeLaunch, RetryRead,
         RetryResetTask, RetryResetBatch, RequestRejected
    <2> QED BY <1>1, <2>1, <2>2, <2>3, <2>4, <2>5
  <1>3. ASSUME NEW w \in Threads, thr[w].job \in Jobs,
               \/ PersistJob(thr[w].job, Intended(w))
               \/ PersistRaises(thr[w].job, Intended(w)) /\ spent'.faults # spent.faults
        PROVE  RecordStep(j)
    <2>1. Cached(thr[w].job)
      BY <1>3 DEF Registered, WorkersRegistered
    <2>2. CASE j # thr[w].job
      BY <1>3, <2>2 DEF PersistJob, PersistRaises, RecordStep
    <2>3. CASE j = thr[w].job
      <3>1. AtLeast(Intended(w), cache[j])
        BY <1>3, <2>3, IntendedGrows DEF AtLeast
      <3>2. /\ cache'[j] = Intended(w)
            /\ row'[j] = cache'[j] \/ (row'[j] = row[j] /\ spent'.faults # spent.faults)
        BY <1>3, <2>3 DEF PersistJob, PersistRaises
      <3> QED BY <2>1, <2>3, <3>1, <3>2 DEF RecordStep
    <2> QED BY <2>2, <2>3
  <1>4. ASSUME NEW w \in Threads, WorkerStep(w) PROVE RecordStep(j)
    BY <1>1, <1>3, <1>4, WorkerFrame
  <1>5. CASE Environment
    <2>0. ASSUME spent' = [spent EXCEPT !.faults = @ + 1] PROVE spent'.faults # spent.faults
      BY <2>0
    <2>1. ASSUME NEW w \in Threads, WorkerDies(w) PROVE RecordStep(j)
      <3>1. CASE WritesRecord(w) /\ PersistRaises(JobOf(w), Intended(w))
        <4>1. thr[w] \in WiredThread
          OBVIOUS
        <4>2. thr[w].job \in Jobs
          BY <3>1, <4>1 DEF WritesRecord, WiredThread, JobOf, At
        <4>3. spent'.faults # spent.faults
          BY <2>0, <2>1 DEF WorkerDies
        <4> QED BY <1>3, <3>1, <4>2, <4>3 DEF JobOf
      <3> QED BY <1>1, <2>1, <3>1 DEF WorkerDies
    <2>2. ASSUME NEW h \in Handlers, RequestFails(h) PROVE RecordStep(j)
      <3>0. RequestRegistered(h)
        BY DEF Registered
      <3>1. ASSUME NEW s \in {"pausing", "running"}, req[h].pc \in Holding,
                   PersistRaises(req[h].job, [cache[req[h].job] EXCEPT !.status = s])
            PROVE  RecordStep(j)
        <4>1. req[h].job \in Jobs /\ Cached(req[h].job)
          BY <3>0, <3>1, RequestJob DEF RequestRegistered, Holding
        <4>2. CASE j # req[h].job
          BY <3>1, <4>1, <4>2 DEF PersistRaises, RecordStep
        <4>3. CASE j = req[h].job
          <5>1. cache'[j] = [cache[j] EXCEPT !.status = s] /\ row'[j] = row[j]
            BY <3>1, <4>3 DEF PersistRaises
          <5>2. AtLeast(cache'[j], cache[j])
            BY <1>0, <5>1 DEF AtLeast, JobRecord
          <5>3. spent'.faults # spent.faults
            BY <2>0, <2>2 DEF RequestFails
          <5> QED BY <4>1, <4>3, <5>1, <5>2, <5>3 DEF RecordStep
        <4> QED BY <4>2, <4>3
      <3> QED BY <1>1, <2>2, <3>1 DEF RequestFails, Holding
    <2>3. CASE Restart
      <3>1. ~Cached(j)' /\ (row'[j] = row[j] \/ row'[j] = [row[j] EXCEPT !.status = "paused"])
        BY <2>3 DEF Restart, ProcessGone, Cached, NoRecord
      <3>2. /\ AtLeast(row[j], row[j])
            /\ AtLeast([row[j] EXCEPT !.status = "paused"], row[j])
        BY <1>0 DEF AtLeast, JobRecord
      <3> QED BY <3>1, <3>2 DEF RecordStep
    <2>4. CASE RestartAndReset
      BY <2>4 DEF RestartAndReset, ProcessGone, Cached, NoRecord, RecordStep
    <2>5. \/ row' = row /\ cache' = cache
          \/ \E w \in Threads : WorkerDies(w)
          \/ \E h \in Handlers : RequestFails(h)
          \/ Restart \/ RestartAndReset
      BY <1>5 DEF Environment, Import, Enter, StartRead
    <2> QED BY <1>1, <2>1, <2>2, <2>3, <2>4, <2>5
  <1>6. CASE UNCHANGED vars
    BY <1>1, <1>6 DEF vars
  <1> QED BY <1>2, <1>4, <1>5, <1>6 DEF Next

\* As long as no request reads a row while another is at work on the job, the job a
\* request reads is not in memory, no other request names it, and what was read is
\* still the row when it is stored in memory.
Reads ==
  "stale" \notin client => \A h \in Handlers :
    /\ req[h].pc \in Fetching =>
         /\ ~Cached(req[h].job)
         /\ \A g \in Handlers \ {h} : req[g].job # req[h].job
    /\ req[h].pc = "store" => req[h].seen = row[req[h].job]

LEMMA ReadsStep ==
  ASSUME TypeOK, Registered, SlotsFree, Reads, [Next]_vars
  PROVE  Reads'
PROOF
  <1> USE TypeParts DEF tables, memory, RequestAt
  <1> DEFINE Alone(h) == \A g \in Handlers \ {h} : req'[g].job # req'[h].job
             Goal(h) == /\ req'[h].pc \in Fetching => ~Cached(req[h].job)' /\ Alone(h)
                        /\ req'[h].pc = "store" => req'[h].seen = row'[req'[h].job]
  <1> SUFFICES ASSUME "stale" \notin client', NEW h \in Handlers PROVE Goal(h)
    BY DEF Reads
  <1>0. /\ RequestRegistered(h)
        /\ req[h].pc \in Fetching =>
             /\ req[h].job \in Jobs /\ Exists(req[h].job) /\ ~Cached(req[h].job)
             /\ \A g \in Handlers \ {h} : req[g].job # req[h].job
        /\ req[h].pc = "store" => req[h].seen = row[req[h].job]
    <2>1. "stale" \notin client
      BY NotesStay
    <2> QED BY <2>1, RequestJob DEF Reads, Registered, RequestRegistered, Fetching
  <1>1. ASSUME req'[h].pc \notin Fetching PROVE Goal(h)
    BY <1>1 DEF Fetching
  <1>2. ASSUME req'[h] = req[h],
               req[h].pc \in Fetching =>
                 /\ row'[req[h].job] = row[req[h].job] /\ cache'[req[h].job] = cache[req[h].job]
                 /\ \A g \in Handlers \ {h} : req'[g].job # req[h].job
        PROVE  Goal(h)
    BY <1>0, <1>2 DEF Cached, Fetching
  <1>3. ASSUME NEW g \in Handlers, RequestStep(g) PROVE Goal(h)
    <2>1. CASE g = h
      <3>1. CASE req'[h].pc \in Fetching
        <4>1. /\ \A x \in Handlers \ {h} : req'[x] = req[x]
              /\ req[h].pc = "fetch" /\ req'[h].pc = "store" /\ req'[h].job = req[h].job
              /\ req'[h].seen = row[req[h].job] /\ row' = row /\ cache' = cache
          BY <1>3, <2>1, <3>1, RequestFrame
        <4> QED BY <1>0, <4>1 DEF Fetching, Cached
      <3> QED BY <1>1, <3>1
    <2>2. CASE g # h
      <3> PICK k : k = req[h].job
        OBVIOUS
      <3>1. /\ req'[h] = req[h] /\ \A x \in Handlers \ {g} : req'[x] = req[x]
            /\ req'[g].job \in {req[g].job, NoJob}
               \/ (req'[g].job \in Jobs /\ ~Exists(req'[g].job))
            /\ \A i \in Jobs : Exists(i) /\ i # req[g].job => row'[i] = row[i] /\ cache'[i] = cache[i]
        BY <1>3, <2>2, RequestFrame
      <3>2. ASSUME req[h].pc \in Fetching
            PROVE  /\ row'[k] = row[k] /\ cache'[k] = cache[k]
                   /\ \A x \in Handlers \ {h} : req'[x].job # k
        <4>1. /\ k \in Jobs /\ Exists(k) /\ k # req[g].job
              /\ \A x \in Handlers \ {h} : req[x].job # k
          BY <1>0, <2>2, <3>2
        <4>2. req'[g].job # k
          BY <3>1, <4>1, BatchAssumption
        <4> QED BY <3>1, <4>1, <4>2
      <3> QED BY <1>2, <3>1, <3>2
    <2> QED BY <2>1, <2>2
  <1>4. ASSUME req' = req, \A j \in Jobs : ~Cached(j) => row'[j] = row[j] /\ cache'[j] = cache[j]
        PROVE  Goal(h)
    BY <1>0, <1>2, <1>4
  <1>5. ASSUME NEW w \in Threads, WorkerStep(w) PROVE Goal(h)
    <2>1. /\ req' = req
          /\ \/ row' = row /\ cache' = cache
             \/ thr[w].job \in Jobs /\ PersistJob(thr[w].job, Intended(w))
      BY <1>5, WorkerFrame
    <2>2. thr[w].job \in Jobs => Cached(thr[w].job)
      BY DEF Registered, WorkersRegistered
    <2>3. \A j \in Jobs : ~Cached(j) => row'[j] = row[j] /\ cache'[j] = cache[j]
      BY <2>1, <2>2 DEF PersistJob
    <2> QED BY <1>4, <2>1, <2>3
  <1>6. ASSUME NEW w \in Threads, WorkerDies(w) PROVE Goal(h)
    <2>1. /\ req' = req
          /\ \/ row' = row /\ cache' = cache
             \/ WritesRecord(w) /\ PersistRaises(thr[w].job, Intended(w))
      BY <1>6 DEF WorkerDies, JobOf
    <2>2. WritesRecord(w) => Cached(thr[w].job)
      <3>1. thr[w] \in WiredThread
        OBVIOUS
      <3> QED BY <3>1 DEF Registered, WorkersRegistered, WritesRecord, WiredThread, At
    <2>3. \A j \in Jobs : ~Cached(j) => row'[j] = row[j] /\ cache'[j] = cache[j]
      BY <2>1, <2>2 DEF PersistRaises
    <2> QED BY <1>4, <2>1, <2>3
  <1>7. ASSUME NEW g \in Handlers, NEW op \in Op, NEW j \in Jobs, Enter(g, op, j)
        PROVE  Goal(h)
    <2>1. /\ \A x \in Handlers \ {g} : req'[x] = req[x]
          /\ req'[g].job = j /\ row' = row /\ cache' = cache
          /\ req'[g].pc = (IF Cached(j) THEN AfterGet(op, cache[j]) ELSE "fetch")
          /\ ~Cached(j) => \A x \in Handlers : req[x].job = j => req[x].pc \in Fetching
          /\ \A x \in Handlers : req[x].job = j => req[x].pc \notin Fetching
      BY <1>7, EnterFrame
    <2>2. CASE g = h
      <3>1. CASE Cached(j)
        <4>1. req'[h].pc = AfterGet(op, cache[j])
          BY <2>1, <2>2, <3>1
        <4>2. req'[h].pc \notin Fetching
          BY <4>1, AfterGetType DEF Fetching
        <4> QED BY <1>1, <4>2
      <3>2. CASE ~Cached(j)
        BY <2>1, <2>2, <3>2 DEF Cached
      <3> QED BY <3>1, <3>2
    <2>3. CASE g # h
      <3>1. req[h].pc \in Fetching => req[h].job # j
        BY <2>1
      <3>2. req'[h] = req[h]
        BY <2>1, <2>3
      <3>3. ASSUME req[h].pc \in Fetching, NEW x \in Handlers \ {h} PROVE req'[x].job # req[h].job
        BY <1>0, <2>1, <3>1, <3>3
      <3> QED BY <1>2, <2>1, <3>2, <3>3
    <2> QED BY <2>2, <2>3
  <1>8. ASSUME NEW g \in Handlers, NEW b \in Batches, NEW S \in SUBSET Md5s, StartRead(g, b, S)
        PROVE  Goal(h)
    <2>1. /\ row' = row /\ cache' = cache
          /\ req' = [req EXCEPT ![g] =
                       [[[[IdleRequest EXCEPT !.op = "start"] EXCEPT !.pc = "create"]
                          EXCEPT !.batch = b] EXCEPT !.picked = S]]
      BY <1>8 DEF StartRead
    <2>2. /\ req'[g].pc = "create" /\ req'[g].job = NoJob
          /\ \A x \in Handlers \ {g} : req'[x] = req[x]
      BY <2>1 DEF IdleRequest
    <2>3. CASE g = h
      BY <1>1, <2>2, <2>3 DEF Fetching
    <2>4. CASE g # h
      <3>1. ASSUME req[h].pc \in Fetching, NEW x \in Handlers \ {h} PROVE req'[x].job # req[h].job
        BY <1>0, <2>2, <3>1, BatchAssumption
      <3> QED BY <1>2, <2>1, <2>2, <2>4, <3>1
    <2> QED BY <2>3, <2>4
  <1>9. ASSUME NEW g \in Handlers, RequestFails(g) PROVE Goal(h)
    <2>1. /\ \A x \in Handlers \ {g} : req'[x] = req[x]
          /\ req'[g] = IdleRequest /\ row' = row
          /\ \A k \in Jobs \ {req[g].job} : cache'[k] = cache[k]
      BY <1>9, GoRequestFrame DEF RequestFails, PersistRaises
    <2>2. CASE g = h
      BY <1>1, <2>1, <2>2 DEF IdleRequest, Fetching
    <2>3. CASE g # h
      <3>1. ASSUME req[h].pc \in Fetching, NEW x \in Handlers \ {h} PROVE req'[x].job # req[h].job
        BY <1>0, <2>1, <3>1, BatchAssumption DEF IdleRequest
      <3>2. req[h].pc \in Fetching => cache'[req[h].job] = cache[req[h].job]
        BY <1>0, <2>1, <2>3
      <3> QED BY <1>2, <2>1, <2>3, <3>1, <3>2
    <2> QED BY <2>2, <2>3
  <1>10. CASE Restart \/ RestartAndReset
    BY <1>1, <1>10 DEF Restart, RestartAndReset, ProcessGone, IdleRequest, Fetching
  <1>11. ASSUME NEW b \in Batches, NEW S \in SUBSET Md5s, Import(b, S) PROVE Goal(h)
    BY <1>4, <1>11 DEF Import
  <1>12. CASE UNCHANGED vars
    BY <1>4, <1>12 DEF vars
  <1> HIDE DEF Goal
  <1>13. CASE Environment
    BY <1>6, <1>7, <1>8, <1>9, <1>10, <1>11, <1>13 DEF Environment
  <1> QED BY <1>3, <1>5, <1>12, <1>13 DEF Next

LEMMA ReadsAlways == Spec => [](TypeOK /\ Registered /\ SlotsFree /\ Reads)
PROOF
  <1>1. Init => Reads
    BY DEF Init, Reads, IdleRequest, Fetching
  <1>2. TypeOK /\ Registered /\ SlotsFree /\ Reads /\ [Next]_vars => Reads'
    BY ReadsStep
  <1> QED BY <1>1, <1>2, RegisteredAlways, SlotsFreeAlways, PTL DEF Spec

\* What the server answers from memory is what the table holds, however many requests
\* and threads change a job at once and however often the process restarts and reads
\* its rows back (batch.py:166-181, 379-407), unless a write to the table has raised
\* or a request read a row while another was at work on its job.
THEOREM MemoryIsTheTable == Spec => []CacheCoherent
PROOF
  <1>1. Init => CacheCoherent
    BY DEF Init, CacheCoherent, Cached, NoRecord
  <1>2. TypeOK /\ TypeOK' /\ Registered /\ Reads /\ CacheCoherent /\ [Next]_vars => CacheCoherent'
    <2> SUFFICES ASSUME TypeOK, TypeOK', Registered, Reads, CacheCoherent, [Next]_vars,
                        NEW j \in Jobs, Cached(j)', spent'.faults = 0, "stale" \notin client'
                 PROVE  cache'[j] = row'[j]
      BY DEF CacheCoherent
    <2>1. spent.faults = 0 /\ "stale" \notin client
      BY NotesStay, TypeParts
    <2>2. RecordStep(j)
      BY RecordSteps
    <2>3. Cached(j) => cache[j] = row[j]
      BY <2>1 DEF CacheCoherent
    <2>4. CASE row'[j] = row[j] /\ cache'[j] = cache[j]
      BY <2>3, <2>4 DEF Cached
    <2>5. CASE ~Cached(j) /\ (cache'[j] = cache[j] \/ cache'[j] = row'[j])
      BY <2>5 DEF Cached
    <2>6. CASE row'[j] = row[j] /\ \E h \in Handlers : /\ req[h].pc = "store" /\ req[h].job = j
                                                      /\ cache'[j] = req[h].seen
      BY <2>1, <2>6 DEF Reads
    <2> QED BY <2>1, <2>2, <2>4, <2>5, <2>6 DEF RecordStep
  <1> QED BY <1>1, <1>2, ReadsAlways, PTL DEF Spec

\* The record in memory is never behind the row.
Ahead == "stale" \notin client => \A j \in Jobs : Cached(j) => AtLeast(cache[j], row[j])

LEMMA AheadStep ==
  ASSUME TypeOK, Registered, Reads, Ahead, [Next]_vars
  PROVE  Ahead'
PROOF
  <1> USE TypeParts
  <1> SUFFICES ASSUME "stale" \notin client', NEW j \in Jobs, Cached(j)'
               PROVE  AtLeast(cache'[j], row'[j])
    BY DEF Ahead
  <1>0. "stale" \notin client
    BY NotesStay
  <1>1. RecordStep(j) /\ row[j] \in JobRecord /\ cache[j] \in JobRecord
    BY RecordSteps
  <1>2. cache'[j] \in JobRecord /\ row'[j] \in JobRecord
    BY TypeStep DEF TypeOK
  <1>3. CASE row'[j] = row[j] /\ cache'[j] = cache[j]
    BY <1>0, <1>3 DEF Cached, Ahead
  <1>4. CASE ~Cached(j) /\ (cache'[j] = cache[j] \/ cache'[j] = row'[j])
    BY <1>2, <1>4 DEF Cached, AtLeast, JobRecord
  <1>5. CASE Cached(j) /\ AtLeast(cache'[j], cache[j])
               /\ (row'[j] = cache'[j] \/ row'[j] = row[j])
    BY <1>0, <1>1, <1>2, <1>5 DEF Ahead, AtLeast, JobRecord
  <1>6. CASE row'[j] = row[j] /\ \E h \in Handlers : /\ req[h].pc = "store" /\ req[h].job = j
                                                    /\ cache'[j] = req[h].seen
    BY <1>0, <1>1, <1>6 DEF Reads, AtLeast, JobRecord
  <1> QED BY <1>1, <1>3, <1>4, <1>5, <1>6 DEF RecordStep

\* The counters in the table never go back, over SQLite errors and restarts included:
\* a record that was lost from memory is read back before anything writes it again
\* (batch.py:56-72, 166-181, 379-407). The exception is a row read while another
\* request was at work on the job: stored late, it restores an old record.
THEOREM CountersNeverGoBack == Spec => ProgressNeverLost
PROOF
  <1> DEFINE Kept == \A j \in Jobs :
                       \/ "stale" \in client
                       \/ row'[j] = NoRecord
                       \/ /\ row'[j].succeeded >= row[j].succeeded
                          /\ row'[j].failed >= row[j].failed
  <1>1. Init => Ahead
    BY DEF Init, Ahead, Cached, NoRecord
  <1>2. TypeOK /\ Registered /\ Reads /\ Ahead /\ [Next]_vars => Ahead'
    BY AheadStep
  <1>3. TypeOK /\ Registered /\ Ahead /\ [Next]_vars => [Kept]_vars
    <2> SUFFICES ASSUME TypeOK, Registered, Ahead, [Next]_vars, NEW j \in Jobs,
                        "stale" \notin client
                 PROVE  row'[j] = NoRecord \/ AtLeast(row'[j], row[j])
      BY DEF AtLeast
    <2>1. RecordStep(j) /\ row[j] \in JobRecord /\ cache[j] \in JobRecord
      BY RecordSteps, TypeParts
    <2>2. row'[j] \in JobRecord /\ cache'[j] \in JobRecord
      BY TypeStep DEF TypeOK
    <2>3. Cached(j) => AtLeast(cache[j], row[j])
      BY DEF Ahead
    <2> QED BY <2>1, <2>2, <2>3 DEF RecordStep, AtLeast, Fresh, JobRecord
  <1> QED BY <1>1, <1>2, <1>3, ReadsAlways, PTL DEF Spec, ProgressNeverLost

\* While the clients keep to their manners at most one thread works on a job, a job with
\* a thread is running or pausing, no two requests name the same job, and a job that is
\* being resumed is paused and has no thread until the request that resumes it launches
\* one.
Active == {"running", "pausing"}
OneThread ==
  \A v, w \in Threads : thr[v].job = thr[w].job /\ thr[w].job \in Jobs => v = w
ThreadsActive ==
  \A w \in Threads : thr[w].job \in Jobs =>
    row[thr[w].job].status \in Active /\ cache[thr[w].job].status \in Active
ResumeQuiet(h) ==
  /\ req[h].pc \in {"clear", "patchRunning"} => cache[req[h].job].status = "paused"
  /\ req[h].pc = "launch" =>
       /\ row[req[h].job].status = "running" /\ cache[req[h].job].status = "running"
       /\ \A w \in Threads : thr[w].job # req[h].job
Apart == \A g, h \in Handlers : req[h].job \in Jobs /\ g # h => req[g].job # req[h].job
Sole == OneThread /\ ThreadsActive /\ Apart /\ \A h \in Handlers : ResumeQuiet(h)

\* No thread is launched or moved, and the jobs that have one stay active.
LEMMA ThreadsStay ==
  ASSUME OneThread, \A v \in Threads : thr'[v].job \in {thr[v].job, NoJob},
         \A v \in Threads : thr'[v].job \in Jobs =>
           row'[thr[v].job].status \in Active /\ cache'[thr[v].job].status \in Active
  PROVE  OneThread' /\ ThreadsActive'
PROOF BY BatchAssumption DEF OneThread, ThreadsActive

\* A thread is launched for a job that has none.
LEMMA ThreadLaunched ==
  ASSUME TypeOK, SlotsFree, OneThread, ThreadsActive, NEW j \in Jobs, LaunchWorker(j),
         \A w \in Threads : thr[w].job # j,
         row'[j].status \in Active, cache'[j].status \in Active,
         \A k \in Jobs \ {j} : row'[k] = row[k] /\ cache'[k] = cache[k]
  PROVE  OneThread' /\ ThreadsActive'
PROOF
  <1>1. PICK v \in Threads :
          /\ thr[v].pc = "idle"
          /\ thr' = [thr EXCEPT ![v] = [[IdleThread EXCEPT !.pc = "load"] EXCEPT !.job = j]]
    BY DEF LaunchWorker
  <1>2. /\ thr'[v].job = j
        /\ \A w \in Threads \ {v} : thr'[w] = thr[w]
    BY <1>1, TypeParts DEF IdleThread
  <1>3. OneThread'
    BY <1>2 DEF OneThread
  <1>4. ThreadsActive'
    <2> SUFFICES ASSUME NEW w \in Threads, thr'[w].job \in Jobs
                 PROVE  /\ row'[thr'[w].job].status \in Active
                        /\ cache'[thr'[w].job].status \in Active
      BY DEF ThreadsActive
    <2>1. CASE w = v
      BY <1>2, <2>1
    <2>2. CASE w # v
      <3>1. thr'[w] = thr[w] /\ thr[w].job # j
        BY <1>2, <2>2
      <3> QED BY <3>1 DEF ThreadsActive
    <2> QED BY <2>1, <2>2
  <1> QED BY <1>3, <1>4

\* A job without a thread: not in memory, or paused.
LEMMA NoThread ==
  ASSUME Registered, Sole, NEW j \in Jobs,
         ~Cached(j) \/ cache[j].status = "paused"
  PROVE  \A w \in Threads : thr[w].job # j
PROOF BY DEF Registered, WorkersRegistered, Sole, ThreadsActive, Active

LEMMA RequestSole ==
  ASSUME TypeOK, Registered, SlotsFree, Reads, Sole, client = {}, client' = {},
         NEW h \in Handlers, RequestStep(h)
  PROVE  Sole'
PROOF
  <1> USE TypeParts DEF RequestAt, tables, memory
  <1> PICK j : j = req[h].job
    OBVIOUS
  <1>0. /\ req[h] \in WiredRequest /\ RequestRegistered(h) /\ ResumeQuiet(h)
        /\ OneThread /\ ThreadsActive
    BY DEF Registered, Sole
  <1>1. ASSUME ResumeQuiet(h)', OneThread', ThreadsActive' PROVE Sole'
    <2>1. /\ \A x \in Handlers \ {h} : req'[x] = req[x]
          /\ \/ req'[h].job \in {j, NoJob}
             \/ req'[h].job \in Jobs /\ ~Exists(req'[h].job)
          /\ \A k \in Jobs : Exists(k) /\ k # j =>
               /\ row'[k] = row[k] /\ cache'[k] = cache[k]
               /\ \A w \in Threads : thr'[w].job = k => thr[w].job = k
      BY RequestFrame
    <2>2. \A x \in Handlers : req[x].job \in Jobs => Exists(req[x].job)
      BY NamedExists, BatchAssumption DEF Registered, RequestRegistered
    <2>3. \A x, y \in Handlers : req[x].job \in Jobs /\ y # x => req[y].job # req[x].job
      BY DEF Sole, Apart
    <2>4. Apart'
      BY <2>1, <2>2, <2>3, BatchAssumption DEF Apart
    <2>5. ASSUME NEW x \in Handlers \ {h} PROVE ResumeQuiet(x)'
      <3>1. CASE req[x].pc \in {"clear", "patchRunning", "launch"}
        <4>1. req[x].job \in Jobs
          BY <3>1, RequestJob
        <4>2. Exists(req[x].job) /\ req[x].job # j
          BY <2>2, <2>3, <2>5, <4>1
        <4>3. req'[x] = req[x] /\ ResumeQuiet(x)
          BY <2>1, <2>5 DEF Sole
        <4> QED BY <2>1, <4>1, <4>2, <4>3 DEF ResumeQuiet
      <3>2. CASE req[x].pc \notin {"clear", "patchRunning", "launch"}
        BY <2>1, <2>5, <3>2 DEF ResumeQuiet
      <3> QED BY <3>1, <3>2
    <2> QED BY <1>1, <2>4, <2>5 DEF Sole
  <1>2. ASSUME row' = row, cache' = cache, thr' = thr PROVE OneThread' /\ ThreadsActive'
    BY <1>0, <1>2 DEF OneThread, ThreadsActive
  <1>3. ASSUME req'[h].pc \notin {"clear", "patchRunning", "launch"}
        PROVE  ResumeQuiet(h)'
    BY <1>3 DEF ResumeQuiet
  <1>4. CASE FetchRow(h)
    <2>1. req' = [req EXCEPT ![h] = [[req[h] EXCEPT !.seen = row[req[h].job]] EXCEPT !.pc = "store"]]
      BY <1>4 DEF FetchRow
    <2>2. req'[h].pc = "store" /\ req'[h].job = j /\ req'[h].op = req[h].op
      BY <1>0, <2>1 DEF WiredRequest, Request
    <2>3. row' = row /\ cache' = cache /\ thr' = thr /\ req[h].pc = "fetch"
      BY <1>4 DEF FetchRow
    <2>4. ResumeQuiet(h)'
      BY <1>0, <2>2, <2>3 DEF ResumeQuiet, Fetching
    <2> QED BY <1>1, <1>2, <2>3, <2>4
  <1>5. CASE StoreRow(h)
    <2> PICK pc : pc = AfterGet(req[h].op, req[h].seen)
      OBVIOUS
    <2>1. /\ pc \in {"signal", "clear", "retryRead", "idle"} /\ GoRequest(h, pc)
          /\ pc = "clear" => req[h].op = "resume" /\ req[h].seen.status \in {"paused", "pausing"}
          /\ Resuming(req[h].op, req[h].seen) = {}
          /\ req[h].pc = "store" /\ row' = row /\ thr' = thr
          /\ cache' = [cache EXCEPT ![j] = req[h].seen]
      BY <1>5 DEF StoreRow, AfterGet
    <2>2. /\ pc = "idle" => req'[h] = IdleRequest
          /\ pc # "idle" => req'[h].pc = pc /\ req'[h].job = j /\ req'[h].op = req[h].op
      BY <2>1, GoRequestFrame
    <2>3. j \in Jobs /\ ~Cached(j)
      BY <2>1, RequestJob DEF Reads, Fetching
    <2>4. \A w \in Threads : thr[w].job # j
      BY <2>3, NoThread
    <2>5. \A k \in Jobs \ {j} : cache'[k] = cache[k]
      BY <2>1
    <2>6. OneThread' /\ ThreadsActive'
      BY <1>0, <2>1, <2>4, <2>5 DEF OneThread, ThreadsActive
    <2>7. ResumeQuiet(h)'
      <3>1. CASE pc = "clear"
        BY <2>1, <2>2, <2>3, <3>1 DEF ResumeQuiet, Resuming
      <3>2. CASE pc # "clear"
        BY <1>3, <2>1, <2>2, <3>2 DEF IdleRequest, Fetching
      <3> QED BY <3>1, <3>2
    <2> QED BY <1>1, <2>6, <2>7
  <1>6. CASE PauseSignal(h) \/ RequestRejected(h)
    <2>1. PICK pc \in {"patchPausing", "idle"} : GoRequest(h, pc)
      BY <1>6 DEF PauseSignal, RequestRejected
    <2>2. req'[h].pc \notin Fetching \cup {"clear", "patchRunning", "launch"}
      BY <2>1, GoRequestFrame DEF IdleRequest, Fetching
    <2>3. row' = row /\ cache' = cache /\ thr' = thr
      BY <1>6 DEF PauseSignal, RequestRejected
    <2> QED BY <1>1, <1>2, <1>3, <2>2, <2>3
  <1>7. CASE ResumeClear(h)
    <2>1. /\ req'[h].pc = "patchRunning" /\ req'[h].job = j /\ req'[h].op = req[h].op
      BY <1>7, GoRequestFrame DEF ResumeClear
    <2>2. row' = row /\ cache' = cache /\ thr' = thr /\ req[h].pc = "clear"
      BY <1>7 DEF ResumeClear
    <2>3. ResumeQuiet(h)'
      BY <1>0, <2>1, <2>2 DEF ResumeQuiet, Fetching
    <2> QED BY <1>1, <1>2, <2>2, <2>3
  <1>8. CASE PausePatch(h)
    <2>1. req'[h] = IdleRequest
      BY <1>8, GoRequestFrame DEF PausePatch
    <2>2. /\ j \in Jobs /\ thr' = thr
          /\ row' = [row EXCEPT ![j] = [cache[j] EXCEPT !.status = "pausing"]]
          /\ cache' = [cache EXCEPT ![j] = [cache[j] EXCEPT !.status = "pausing"]]
      BY <1>8, RequestJob DEF PausePatch, PersistJob
    <2>3. /\ row'[j].status \in Active /\ cache'[j].status \in Active
          /\ \A k \in Jobs \ {j} : row'[k] = row[k] /\ cache'[k] = cache[k]
      BY <2>2 DEF Active, JobRecord
    <2>4. OneThread' /\ ThreadsActive'
      BY <1>0, <2>2, <2>3, ThreadsStay DEF ThreadsActive
    <2> QED BY <1>1, <1>3, <2>1, <2>4 DEF IdleRequest, Fetching
  <1>9. CASE ResumePatch(h)
    <2>1. req'[h].pc = "launch" /\ req'[h].job = j
      BY <1>9, GoRequestFrame DEF ResumePatch
    <2>2. /\ j \in Jobs /\ thr' = thr /\ req[h].pc = "patchRunning"
          /\ row' = [row EXCEPT ![j] = [cache[j] EXCEPT !.status = "running"]]
          /\ cache' = [cache EXCEPT ![j] = [cache[j] EXCEPT !.status = "running"]]
      BY <1>9, RequestJob DEF ResumePatch, PersistJob
    <2>3. \A w \in Threads : thr[w].job # j
      BY <1>0, <2>2, NoThread DEF ResumeQuiet
    <2>4. /\ row'[j].status = "running" /\ cache'[j].status = "running"
          /\ \A k \in Jobs \ {j} : row'[k] = row[k] /\ cache'[k] = cache[k]
      BY <2>2 DEF JobRecord
    <2>5. OneThread' /\ ThreadsActive'
      BY <1>0, <2>2, <2>4, ThreadsStay DEF ThreadsActive, Active
    <2>6. ResumeQuiet(h)'
      BY <2>1, <2>2, <2>3, <2>4 DEF ResumeQuiet, Fetching
    <2> QED BY <1>1, <2>5, <2>6
  <1>10. CASE ResumeLaunch(h)
    <2>1. req'[h] = IdleRequest
      BY <1>10, GoRequestFrame DEF ResumeLaunch
    <2>2. /\ j \in Jobs /\ LaunchWorker(j) /\ row' = row /\ cache' = cache
          /\ row[j].status = "running" /\ cache[j].status = "running"
          /\ \A w \in Threads : thr[w].job # j
      BY <1>0, <1>10, RequestJob DEF ResumeLaunch, ResumeQuiet
    <2>3. OneThread' /\ ThreadsActive'
      BY <1>0, <2>2, ThreadLaunched DEF Active
    <2> QED BY <1>1, <1>3, <2>1, <2>3 DEF IdleRequest, Fetching
  <1>11. ASSUME NEW i \in Jobs, StartCreate(h, i) PROVE Sole'
    <2>1. req'[h] = IdleRequest
      BY <1>11, GoRequestFrame DEF StartCreate
    <2>2. /\ LaunchWorker(i) /\ ~Exists(i)
          /\ row' = [row EXCEPT ![i] = NewRecord(req[h].batch)]
          /\ cache' = [cache EXCEPT ![i] = NewRecord(req[h].batch)]
      BY <1>11 DEF StartCreate, CreateJobRecord, RegisterAndLaunch
    <2>3. \A w \in Threads : thr[w].job # i
      BY <2>2, NoThread DEF Registered, RowsRegistered
    <2>4. /\ row'[i] = NewRecord(req[h].batch) /\ cache'[i] = NewRecord(req[h].batch)
          /\ \A k \in Jobs \ {i} : row'[k] = row[k] /\ cache'[k] = cache[k]
      BY <2>2
    <2>5. OneThread' /\ ThreadsActive'
      BY <1>0, <2>2, <2>3, <2>4, ThreadLaunched DEF Active, NewRecord
    <2> QED BY <1>1, <1>3, <2>1, <2>5 DEF IdleRequest, Fetching
  <1>12. ASSUME NEW i \in Jobs, RetryCreate(h, i) PROVE Sole'
    <2>1. req' = [req EXCEPT ![h] = [[req[h] EXCEPT !.job = i] EXCEPT !.pc = "resetTask"]]
      BY <1>12 DEF RetryCreate
    <2>2. req'[h].pc = "resetTask"
      BY <1>0, <2>1 DEF WiredRequest, Request
    <2>3. /\ ~Exists(i) /\ cache' = cache /\ thr' = thr
          /\ row' = [row EXCEPT ![i] = NewRecord(req[h].batch)]
      BY <1>12 DEF RetryCreate, CreateJobRecord
    <2>4. \A w \in Threads : thr[w].job # i
      BY <2>3, NoThread DEF Registered, RowsRegistered
    <2>5. \A k \in Jobs \ {i} : row'[k] = row[k]
      BY <2>3
    <2>6. OneThread' /\ ThreadsActive'
      BY <1>0, <2>3, <2>4, <2>5 DEF OneThread, ThreadsActive
    <2> QED BY <1>1, <1>3, <2>2, <2>6 DEF Fetching
  <1>13. ASSUME NEW S \in SUBSET Md5s, RetryRead(h, S) PROVE Sole'
    <2>1. req' = [req EXCEPT ![h] = [[[req[h] EXCEPT !.picked = S] EXCEPT !.pc = "retryCreate"]
                                       EXCEPT !.batch = row[req[h].job].batch]]
      BY <1>13 DEF RetryRead
    <2>2. req'[h].pc = "retryCreate"
      BY <1>0, <2>1 DEF WiredRequest, Request
    <2>3. row' = row /\ cache' = cache /\ thr' = thr
      BY <1>13 DEF RetryRead
    <2> QED BY <1>1, <1>2, <1>3, <2>2, <2>3 DEF Fetching
  <1>14. ASSUME NEW m \in Md5s, RetryResetTask(h, m) PROVE Sole'
    <2>1. req' = [req EXCEPT ![h] = [[req[h] EXCEPT !.hand = m] EXCEPT !.pc = "resetBatch"]]
      BY <1>14 DEF RetryResetTask
    <2>2. req'[h].pc = "resetBatch"
      BY <1>0, <2>1 DEF WiredRequest, Request
    <2>3. row' = row /\ cache' = cache /\ thr' = thr
      BY <1>14 DEF RetryResetTask
    <2> QED BY <1>1, <1>2, <1>3, <2>2, <2>3 DEF Fetching
  <1>15. CASE RetryResetBatch(h)
    <2> DEFINE pc == IF req[h].picked = {req[h].hand} THEN "retryLaunch" ELSE "resetTask"
               S == req[h].picked \ {req[h].hand}
    <2>1. req' = [req EXCEPT ![h] = [[[req[h] EXCEPT !.picked = S] EXCEPT !.hand = NoMd5]
                                       EXCEPT !.pc = pc]]
      BY <1>15 DEF RetryResetBatch
    <2>2. req'[h].pc = pc
      BY <1>0, <2>1 DEF WiredRequest, Request
    <2>3. row' = row /\ cache' = cache /\ thr' = thr
      BY <1>15 DEF RetryResetBatch
    <2> QED BY <1>1, <1>2, <1>3, <2>2, <2>3 DEF Fetching
  <1>16. CASE RetryLaunch(h)
    <2>1. req'[h] = IdleRequest
      BY <1>16, GoRequestFrame DEF RetryLaunch
    <2>2. /\ j \in Jobs /\ LaunchWorker(j) /\ row' = row /\ ~Cached(j)
          /\ row[j] = NewRecord(req[h].batch)
          /\ cache' = [cache EXCEPT ![j] = NewRecord(req[h].batch)]
      BY <1>0, <1>16, RequestJob
         DEF RetryLaunch, RegisterAndLaunch, RequestRegistered, Resetting
    <2>3. \A w \in Threads : thr[w].job # j
      BY <2>2, NoThread
    <2>4. /\ row'[j] = NewRecord(req[h].batch) /\ cache'[j] = NewRecord(req[h].batch)
          /\ \A k \in Jobs \ {j} : row'[k] = row[k] /\ cache'[k] = cache[k]
      BY <2>2
    <2>5. OneThread' /\ ThreadsActive'
      BY <1>0, <2>2, <2>3, <2>4, ThreadLaunched DEF Active, NewRecord
    <2> QED BY <1>1, <1>3, <2>1, <2>5 DEF IdleRequest, Fetching
  <1> QED
    BY <1>4, <1>5, <1>6, <1>7, <1>8, <1>9, <1>10, <1>11, <1>12, <1>13, <1>14, <1>15,
       <1>16 DEF RequestStep

LEMMA WorkerSole ==
  ASSUME TypeOK, Registered, Sole, NEW w \in Threads, WorkerStep(w)
  PROVE  Sole'
PROOF
  <1> PICK j : j = thr[w].job
    OBVIOUS
  <1>1. /\ req' = req
        /\ \A v \in Threads \ {w} : thr'[v] = thr[v]
        /\ thr'[w].job \in {j, NoJob}
        /\ \/ row' = row /\ cache' = cache
           \/ /\ j \in Jobs /\ PersistJob(j, Intended(w))
              /\ thr'[w].job = NoJob \/ Intended(w).status \in {"running", cache[j].status}
    BY WorkerFrame
  <1>2. /\ \A v \in Threads : thr'[v].job \in {thr[v].job, NoJob}
        /\ OneThread /\ ThreadsActive
    BY <1>1 DEF Sole
  <1>3. \A k \in Jobs : k = j \/ (row'[k] = row[k] /\ cache'[k] = cache[k])
    BY <1>1, TypeParts DEF PersistJob
  <1>4. thr'[w].job \in Jobs => row'[j].status \in Active /\ cache'[j].status \in Active
    <2>1. CASE row' = row /\ cache' = cache
      BY <1>1, <1>2, <2>1, BatchAssumption DEF ThreadsActive
    <2>2. CASE /\ j \in Jobs /\ PersistJob(j, Intended(w))
               /\ thr'[w].job = NoJob \/ Intended(w).status \in {"running", cache[j].status}
      <3>1. row'[j] = Intended(w) /\ cache'[j] = Intended(w)
        BY <2>2, TypeParts DEF PersistJob
      <3>2. cache[j].status \in Active
        BY <1>2, <2>2 DEF ThreadsActive
      <3> QED BY <2>2, <3>1, <3>2, BatchAssumption DEF Active
    <2> QED BY <1>1, <2>1, <2>2
  <1>5. OneThread' /\ ThreadsActive'
    <2>1. \A v \in Threads : thr'[v].job \in Jobs =>
            row'[thr[v].job].status \in Active /\ cache'[thr[v].job].status \in Active
      <3> SUFFICES ASSUME NEW v \in Threads, thr'[v].job \in Jobs
                   PROVE  row'[thr[v].job].status \in Active /\ cache'[thr[v].job].status \in Active
        OBVIOUS
      <3>1. CASE v = w
        BY <1>4, <3>1
      <3>2. CASE v # w
        <4>1. thr[v].job \in Jobs /\ thr[v].job # j
          BY <1>1, <1>2, <3>2 DEF OneThread
        <4> QED BY <1>2, <1>3, <4>1 DEF ThreadsActive
      <3> QED BY <3>1, <3>2
    <2> QED BY <1>2, <2>1, ThreadsStay
  <1>6. ASSUME NEW h \in Handlers PROVE ResumeQuiet(h)'
    <2>1. ResumeQuiet(h) /\ req'[h] = req[h]
      BY <1>1 DEF Sole
    <2>2. CASE req[h].pc \notin {"clear", "patchRunning", "launch"}
      BY <2>1, <2>2 DEF ResumeQuiet
    <2>3. CASE req[h].pc \in {"clear", "patchRunning", "launch"}
      <3>1. req[h].job \in Jobs
        BY <2>3, RequestJob
      <3>2. req[h].job # j
        BY <1>2, <2>1, <2>3, <3>1 DEF ThreadsActive, Active, ResumeQuiet
      <3> QED BY <1>1, <1>2, <1>3, <2>1, <3>1, <3>2, BatchAssumption DEF ResumeQuiet
    <2> QED BY <2>2, <2>3
  <1>7. Apart'
    BY <1>1 DEF Sole, Apart
  <1> QED BY <1>5, <1>6, <1>7 DEF Sole

LEMMA EnvironmentSole ==
  ASSUME TypeOK, Registered, Sole, client' = {}, Environment
  PROVE  Sole'
PROOF
  <1> USE TypeParts DEF RequestAt, tables, memory
  <1>0. OneThread /\ ThreadsActive /\ \A h \in Handlers : ResumeQuiet(h)
    BY DEF Sole
  <1>1. ASSUME NEW b \in Batches, NEW S \in SUBSET Md5s, Import(b, S) PROVE Sole'
    BY <1>0, <1>1 DEF Import, Sole, OneThread, ThreadsActive, ResumeQuiet, Apart
  <1>2. ASSUME row' = row, cache' = cache, thr' = thr, Apart',
               \A h \in Handlers : ResumeQuiet(h)'
        PROVE  Sole'
    BY <1>0, <1>2 DEF Sole, OneThread, ThreadsActive
  \* A request that ends, or begins without a job.
  <1>3. ASSUME NEW h \in Handlers, \A g \in Handlers \ {h} : req'[g] = req[g],
               req'[h].job = NoJob
        PROVE  Apart'
    BY <1>0, <1>3, BatchAssumption DEF Apart, Sole
  <1>4. ASSUME NEW h \in Handlers, NEW op \in Op, NEW j \in Jobs, Enter(h, op, j)
        PROVE  Sole'
    <2>1. /\ \A g \in Handlers \ {h} : req'[g] = req[g]
          /\ req'[h].job = j /\ row' = row /\ cache' = cache /\ thr' = thr
          /\ req'[h].pc = (IF Cached(j) THEN AfterGet(op, cache[j]) ELSE "fetch")
          /\ \A g \in Handlers : req[g].job # j
          /\ ~(op = "resume" /\ cache[j].status = "pausing")
      BY <1>4, EnterFrame
    <2>2. Apart'
      BY <1>0, <2>1 DEF Apart, Sole
    <2>3. ResumeQuiet(h)'
      <3>1. req'[h].pc \in {"signal", "clear", "retryRead", "idle", "fetch"}
        BY <2>1, AfterGetType
      <3>2. req'[h].pc = "clear" => cache[j].status = "paused"
        BY <2>1 DEF AfterGet
      <3> QED BY <2>1, <3>1, <3>2 DEF ResumeQuiet
    <2>4. \A g \in Handlers \ {h} : ResumeQuiet(g)'
      BY <1>0, <2>1 DEF ResumeQuiet
    <2> QED BY <1>2, <2>1, <2>2, <2>3, <2>4
  <1>5. ASSUME NEW h \in Handlers, NEW b \in Batches, NEW S \in SUBSET Md5s,
               StartRead(h, b, S)
        PROVE  Sole'
    <2>1. /\ req' = [req EXCEPT ![h] =
                       [[[[IdleRequest EXCEPT !.op = "start"] EXCEPT !.pc = "create"]
                          EXCEPT !.batch = b] EXCEPT !.picked = S]]
          /\ row' = row /\ cache' = cache /\ thr' = thr
      BY <1>5 DEF StartRead
    <2>2. /\ req'[h].pc = "create" /\ req'[h].job = NoJob
          /\ \A g \in Handlers \ {h} : req'[g] = req[g]
      BY <2>1 DEF IdleRequest
    <2>3. \A g \in Handlers : ResumeQuiet(g)'
      BY <1>0, <2>1, <2>2 DEF ResumeQuiet
    <2> QED BY <1>2, <1>3, <2>1, <2>2, <2>3
  <1>6. ASSUME NEW w \in Threads, WorkerDies(w) PROVE Sole'
    <2> PICK j : j = thr[w].job
      OBVIOUS
    <2>1. /\ req' = req /\ row' = row /\ thr' = [thr EXCEPT ![w] = IdleThread]
          /\ cache' = cache \/ (WritesRecord(w) /\ cache' = [cache EXCEPT ![j] = Intended(w)])
      BY <1>6 DEF WorkerDies, PersistRaises, JobOf
    <2>2. /\ \A v \in Threads \ {w} : thr'[v] = thr[v]
          /\ thr'[w].job = NoJob
          /\ \A k \in Jobs \ {j} : cache'[k] = cache[k]
      BY <2>1 DEF IdleThread
    <2>3. OneThread' /\ ThreadsActive'
      <3>1. \A v \in Threads : thr'[v].job \in {thr[v].job, NoJob}
        BY <2>2
      <3>2. ASSUME NEW v \in Threads, thr'[v].job \in Jobs
            PROVE  row'[thr[v].job].status \in Active /\ cache'[thr[v].job].status \in Active
        <4>1. v # w /\ thr[v].job \in Jobs /\ thr[v].job # j
          BY <1>0, <2>2, <3>2, BatchAssumption DEF OneThread
        <4> QED BY <1>0, <2>1, <2>2, <4>1 DEF ThreadsActive
      <3> QED BY <1>0, <3>1, <3>2, ThreadsStay
    <2>4. ASSUME NEW h \in Handlers PROVE ResumeQuiet(h)'
      <3>1. ResumeQuiet(h) /\ req'[h] = req[h]
        BY <1>0, <2>1
      <3>2. CASE req[h].pc \notin {"clear", "patchRunning", "launch"}
        BY <3>1, <3>2 DEF ResumeQuiet
      <3>3. CASE req[h].pc \in {"clear", "patchRunning", "launch"}
        <4>1. req[h].job \in Jobs
          BY <3>3, RequestJob
        <4>2. req[h].job # j
          BY <1>0, <3>1, <3>3, <4>1 DEF ThreadsActive, Active, ResumeQuiet
        <4> QED BY <2>1, <2>2, <3>1, <4>1, <4>2, BatchAssumption DEF ResumeQuiet
      <3> QED BY <3>2, <3>3
    <2>5. Apart'
      BY <1>0, <2>1 DEF Sole, Apart
    <2> QED BY <2>3, <2>4, <2>5 DEF Sole
  <1>7. ASSUME NEW h \in Handlers, RequestFails(h) PROVE Sole'
    <2> PICK j : j = req[h].job
      OBVIOUS
    <2>1. /\ req'[h] = IdleRequest /\ thr' = thr /\ row' = row
          /\ \A g \in Handlers \ {h} : req'[g] = req[g]
          /\ \A k \in Jobs \ {j} : cache'[k] = cache[k]
      BY <1>7, GoRequestFrame DEF RequestFails, PersistRaises
    <2>2. (\A g \in Handlers : ResumeQuiet(g)') /\ Apart'
      <3>1. ResumeQuiet(h)' /\ Apart'
        BY <1>3, <2>1 DEF IdleRequest, ResumeQuiet
      <3>2. ASSUME NEW g \in Handlers \ {h} PROVE ResumeQuiet(g)'
        <4>1. CASE req[g].pc \in {"clear", "patchRunning", "launch"}
          <5>1. req[g].job \in Jobs
            BY <4>1, RequestJob
          <5>2. req[g].job # j
            BY <3>2, <5>1 DEF Sole, Apart
          <5> QED BY <1>0, <2>1, <3>2, <5>1, <5>2 DEF ResumeQuiet
        <4>2. CASE req[g].pc \notin {"clear", "patchRunning", "launch"}
          BY <2>1, <3>2, <4>2 DEF ResumeQuiet
        <4> QED BY <4>1, <4>2
      <3> QED BY <3>1, <3>2
    <2>3. CASE cache' = cache
      BY <1>2, <2>1, <2>2, <2>3
    <2>4. CASE \E s \in Active : /\ req[h].pc \in {"patchPausing", "patchRunning"}
                                 /\ PersistRaises(j, [cache[j] EXCEPT !.status = s])
      <3>1. PICK s \in Active : /\ j \in Jobs
                                /\ cache' = [cache EXCEPT ![j] = [cache[j] EXCEPT !.status = s]]
        BY <2>4, RequestJob DEF PersistRaises
      <3>2. cache'[j].status \in Active /\ \A k \in Jobs \ {j} : cache'[k] = cache[k]
        BY <3>1 DEF JobRecord
      <3>3. OneThread' /\ ThreadsActive'
        BY <1>0, <2>1, <3>1, <3>2, ThreadsStay DEF ThreadsActive
      <3> QED BY <2>2, <3>3 DEF Sole
    <2> QED BY <1>7, <2>3, <2>4 DEF RequestFails, Active
  <1>8. CASE Restart \/ RestartAndReset
    <2>1. /\ thr' = [w \in Threads |-> IdleThread]
          /\ req' = [h \in Handlers |-> IdleRequest]
      BY <1>8 DEF Restart, RestartAndReset, ProcessGone
    <2> QED BY <2>1, BatchAssumption
            DEF Sole, OneThread, ThreadsActive, ResumeQuiet, Apart, IdleThread, IdleRequest
  <1> QED
    BY <1>1, <1>4, <1>5, <1>6, <1>7, <1>8 DEF Environment


\* One thread a job at most, as long as the clients keep to their manners.
SoleParts == TypeOK /\ Registered /\ SlotsFree /\ Reads /\ (client = {} => Sole)

LEMMA SoleAlways == Spec => []SoleParts
PROOF
  <1> DEFINE Inv == client = {} => Sole
  <1>1. Init => Sole
    BY BatchAssumption
       DEF Init, Sole, OneThread, ThreadsActive, ResumeQuiet, Apart, IdleThread, IdleRequest
  <1>2. TypeOK /\ Registered /\ SlotsFree /\ Reads /\ Inv /\ [Next]_vars => Inv'
    <2> SUFFICES ASSUME TypeOK, Registered, SlotsFree, Reads, Inv, [Next]_vars,
                        client' = {}
                 PROVE  Sole'
      OBVIOUS
    <2>1. client = {} /\ Sole
      BY NotesStay
    <2>2. CASE UNCHANGED vars
      BY <2>1, <2>2 DEF vars, Sole, OneThread, ThreadsActive, ResumeQuiet, Apart
    <2> QED
      BY <2>1, <2>2, EnvironmentSole, RequestSole, WorkerSole DEF Next
  <1> QED BY <1>1, <1>2, ReadsAlways, PTL DEF Spec, SoleParts

\* One worker thread a job (batch.py:161-183, 303-337), for clients of any number that
\* keep to the manners OneWorker names: a job is then resumed only from paused, which
\* the last thing its thread does makes it, and launched once.
THEOREM OneThreadPerJob == Spec => []OneWorker
PROOF
  <1>1. SoleParts => OneWorker
    <2> SUFFICES ASSUME OneThread, NEW j \in Jobs PROVE Cardinality(WorkersOf(j)) <= 1
      BY DEF SoleParts, Sole, OneWorker
    <2>1. WorkersOf(j) = {} \/ \E w \in Threads : WorkersOf(j) = {w}
      <3>1. ASSUME NEW w \in Threads, thr[w].job = j PROVE WorkersOf(j) = {w}
        BY <3>1 DEF WorkersOf, OneThread
      <3>2. CASE \A w \in Threads : thr[w].job # j
        BY <3>2 DEF WorkersOf
      <3> QED BY <3>1, <3>2
    <2>2. Cardinality(WorkersOf(j)) \in {0, 1}
      BY <2>1, FS_EmptySet, FS_Singleton
    <2> QED BY <2>2
  <1> QED BY <1>1, SoleAlways, PTL



\* What a worker thread still owes its job: a sample of the job has no outcome
\* exactly while the thread has it in its queue, in its chunk, in hand or with the
\* judge; the outcome of the sample it is about to count is in the table.
Unsettled(j, m) == item[j][m] \in {"pending", "processing"}
Recording == {"recBatch", "recItem", "append"}
Awaits(w, m) ==
  \/ m \in thr[w].queue \/ m \in thr[w].todo
  \/ thr[w].pc \in {"markTask", "markBatch"} /\ thr[w].hand = m
  \/ m \in InFlight(w) /\ ~(thr[w].pc = "append" /\ thr[w].hand = m)
WorkOn(w, m) ==
  /\ thr[w].pc \notin {"idle", "load"} => (Unsettled(thr[w].job, m) <=> Awaits(w, m))
  /\ thr[w].pc \in Recording /\ thr[w].hand = m => m \in thr[w].good \cup thr[w].bad
  /\ thr[w].pc = "append" /\ thr[w].hand = m => item[thr[w].job][m] \in Done
  /\ thr[w].pc \in {"idle", "load", "check", "pause", "claim"} => m \notin InFlight(w)
  /\ thr[w].pc \notin {"mark", "markTask", "markBatch"} => m \notin thr[w].todo
  /\ m \in thr[w].queue => m \notin thr[w].todo /\ m \notin InFlight(w)
  /\ m \in thr[w].todo => m \notin InFlight(w)
  /\ thr[w].pc \in {"markTask", "markBatch"} /\ thr[w].hand = m =>
       m \notin thr[w].queue /\ m \notin thr[w].todo /\ m \notin InFlight(w)
  /\ m \in thr[w].running => m \notin thr[w].good /\ m \notin thr[w].bad
Work == \A w \in Threads, m \in Md5s : WorkOn(w, m)

\* The samples a request is about to make a job of.
Picked == \A h \in Handlers : req[h].pc \in {"create", "retryCreate"} => req[h].picked # {}

\* A thread whose slot and whose job's samples do not change goes on owing the same.
LEMMA WorkStays ==
  ASSUME NEW w \in Threads, NEW m \in Md5s, WorkOn(w, m), thr'[w] = thr[w],
         thr[w].pc = "idle" \/ item'[thr[w].job] = item[thr[w].job]
  PROVE  WorkOn(w, m)'
PROOF BY DEF WorkOn, Unsettled, Awaits, InFlight, Recording

\* A thread that has just been launched, or has ended, owes nothing yet.
LEMMA WorkFresh ==
  ASSUME NEW w \in Threads, NEW m \in Md5s, thr'[w].pc \in {"idle", "load"},
         thr'[w].queue = {}, thr'[w].todo = {}, thr'[w].running = {},
         thr'[w].good = {}, thr'[w].bad = {}
  PROVE  WorkOn(w, m)'
PROOF BY DEF WorkOn, InFlight, Recording

\* A thread's own steps.
LEMMA OwnWork ==
  ASSUME TypeOK, NEW w \in Threads, \A m \in Md5s : WorkOn(w, m), WorkerStep(w),
         NEW m \in Md5s
  PROVE  WorkOn(w, m)'
PROOF
  <1> USE TypeParts DEF At, JobOf
  <1> PICK t : t = thr[w]
    OBVIOUS
  <1> PICK j : j = t.job
    OBVIOUS
  <1>0. t \in WiredThread /\ (t.pc # "idle" => j \in Jobs) /\ WorkOn(w, m)
    BY DEF WiredThread
  <1>1. CASE LoadPending(w)
    <2>1. /\ thr' = [thr EXCEPT ![w] = [[t EXCEPT !.queue = PendingJobMd5s(j)] EXCEPT !.pc = "check"]]
          /\ item' = item /\ t.pc = "load"
      BY <1>1 DEF LoadPending, tables
    <2>2. /\ thr'[w].pc = "check" /\ thr'[w].job = j /\ thr'[w].queue = PendingJobMd5s(j)
          /\ thr'[w].todo = t.todo /\ thr'[w].running = t.running
          /\ thr'[w].good = t.good /\ thr'[w].bad = t.bad
      BY <1>0, <2>1 DEF WiredThread, Thread
    <2> QED BY <1>0, <2>1, <2>2
            DEF WorkOn, Unsettled, Awaits, InFlight, Recording, PendingJobMd5s
  <1>2. CASE CheckControl(w)
    <2>1. PICK pc \in {"pause", "claim"} : thr' = [thr EXCEPT ![w] = [t EXCEPT !.pc = pc]]
      BY <1>2 DEF CheckControl
    <2>2. /\ thr'[w].pc = pc /\ thr'[w].job = j /\ thr'[w].queue = t.queue
          /\ thr'[w].todo = t.todo /\ thr'[w].running = t.running
          /\ thr'[w].good = t.good /\ thr'[w].bad = t.bad
      BY <1>0, <2>1 DEF WiredThread, Thread
    <2>3. item' = item /\ t.pc = "check"
      BY <1>2 DEF CheckControl, tables
    <2> QED BY <1>0, <2>2, <2>3 DEF WorkOn, Unsettled, Awaits, InFlight, Recording
  <1>3. CASE PauseHere(w) \/ Finish(w)
    <2>1. thr'[w] = IdleThread
      BY <1>3 DEF PauseHere, Finish
    <2> QED BY <2>1, WorkFresh DEF IdleThread
  <1>4. ASSUME NEW S \in SUBSET Md5s, ClaimChunk(w, S) PROVE WorkOn(w, m)'
    <2>1. thr' = [thr EXCEPT ![w] =
                    [[[t EXCEPT !.queue = t.queue \ S] EXCEPT !.todo = S] EXCEPT !.pc = "mark"]]
      BY <1>4 DEF ClaimChunk
    <2>2. /\ thr'[w].pc = "mark" /\ thr'[w].job = j /\ thr'[w].queue = t.queue \ S
          /\ thr'[w].todo = S /\ thr'[w].running = t.running
          /\ thr'[w].good = t.good /\ thr'[w].bad = t.bad
      BY <1>0, <2>1 DEF WiredThread, Thread
    <2>3. item' = item /\ t.pc = "claim" /\ S \subseteq t.queue
      BY <1>4 DEF ClaimChunk
    <2> QED BY <1>0, <2>2, <2>3 DEF WorkOn, Unsettled, Awaits, InFlight, Recording
  <1>5. ASSUME NEW i \in Md5s, MarkItem(w, i) PROVE WorkOn(w, m)'
    <2>1. thr' = [thr EXCEPT ![w] =
                    [[[t EXCEPT !.todo = t.todo \ {i}] EXCEPT !.hand = i] EXCEPT !.pc = "markTask"]]
      BY <1>5 DEF MarkItem
    <2>2. /\ thr'[w].pc = "markTask" /\ thr'[w].job = j /\ thr'[w].queue = t.queue
          /\ thr'[w].todo = t.todo \ {i} /\ thr'[w].running = t.running /\ thr'[w].hand = i
          /\ thr'[w].good = t.good /\ thr'[w].bad = t.bad
      BY <1>0, <2>1 DEF WiredThread, Thread
    <2>3. /\ t.pc = "mark" /\ i \in t.todo
          /\ item' = [item EXCEPT ![j] = [item[j] EXCEPT ![i] = "processing"]]
      BY <1>5 DEF MarkItem
    <2>4. item'[j][m] = IF m = i THEN "processing" ELSE item[j][m]
      BY <1>0, <2>3
    <2> QED BY <1>0, <2>2, <2>3, <2>4 DEF WorkOn, Unsettled, Awaits, InFlight, Recording
  <1>6. ASSUME NEW i \in Md5s, Judge(w, i) PROVE WorkOn(w, m)'
    <2>1. PICK G \in SUBSET Md5s, B \in SUBSET Md5s :
            /\ thr' = [thr EXCEPT ![w] = [[[t EXCEPT !.running = t.running \ {i}]
                                             EXCEPT !.good = G] EXCEPT !.bad = B]]
            /\ \/ G = t.good \cup {i} /\ B = t.bad
               \/ G = t.good /\ B = t.bad \cup {i}
      <3>0. t.good \in SUBSET Md5s /\ t.bad \in SUBSET Md5s
        BY <1>0 DEF WiredThread, Thread
      <3>1. CASE thr' = [thr EXCEPT ![w] = [[t EXCEPT !.running = t.running \ {i}]
                                              EXCEPT !.good = t.good \cup {i}]]
        <4>1. [[t EXCEPT !.running = t.running \ {i}] EXCEPT !.good = t.good \cup {i}]
              = [[[t EXCEPT !.running = t.running \ {i}] EXCEPT !.good = t.good \cup {i}]
                   EXCEPT !.bad = t.bad]
          BY <1>0 DEF WiredThread, Thread
        <4> QED BY <3>0, <3>1, <4>1
      <3>2. CASE thr' = [thr EXCEPT ![w] = [[t EXCEPT !.running = t.running \ {i}]
                                              EXCEPT !.bad = t.bad \cup {i}]]
        <4>1. [[t EXCEPT !.running = t.running \ {i}] EXCEPT !.bad = t.bad \cup {i}]
              = [[[t EXCEPT !.running = t.running \ {i}] EXCEPT !.good = t.good]
                   EXCEPT !.bad = t.bad \cup {i}]
          BY <1>0 DEF WiredThread, Thread
        <4> QED BY <3>0, <3>2, <4>1
      <3> QED BY <1>6, <3>1, <3>2 DEF Judge
    <2>2. /\ thr'[w].pc = t.pc /\ thr'[w].job = j /\ thr'[w].queue = t.queue
          /\ thr'[w].todo = t.todo /\ thr'[w].running = t.running \ {i} /\ thr'[w].hand = t.hand
          /\ thr'[w].good = G /\ thr'[w].bad = B
      BY <1>0, <2>1 DEF WiredThread, Thread
    <2>3. i \in t.running /\ item' = item
      BY <1>6 DEF Judge, tables
    <2> QED BY <1>0, <2>1, <2>2, <2>3 DEF WorkOn, Unsettled, Awaits, InFlight, Recording
  <1>7. ASSUME NEW i \in Md5s, RecordTask(w, i) PROVE WorkOn(w, m)'
    <2>1. thr' = [thr EXCEPT ![w] = [[t EXCEPT !.hand = i] EXCEPT !.pc = "recBatch"]]
      BY <1>7 DEF RecordTask
    <2>2. /\ thr'[w].pc = "recBatch" /\ thr'[w].job = j /\ thr'[w].queue = t.queue
          /\ thr'[w].todo = t.todo /\ thr'[w].running = t.running /\ thr'[w].hand = i
          /\ thr'[w].good = t.good /\ thr'[w].bad = t.bad
      BY <1>0, <2>1 DEF WiredThread, Thread
    <2>3. item' = item /\ t.pc = "collect" /\ i \in t.good \cup t.bad
      BY <1>7 DEF RecordTask
    <2> QED BY <1>0, <2>2, <2>3 DEF WorkOn, Unsettled, Awaits, InFlight, Recording
  <1>8. CASE MarkTask(w) \/ RecordBatch(w)
    <2>1. PICK pc \in {"markBatch", "recItem"} : /\ thr' = [thr EXCEPT ![w] = [t EXCEPT !.pc = pc]]
                                                 /\ item' = item
                                                 /\ t.pc = IF pc = "recItem" THEN "recBatch" ELSE "markTask"
      BY <1>8 DEF MarkTask, RecordBatch
    <2>2. /\ thr'[w].pc = pc /\ thr'[w].job = j /\ thr'[w].queue = t.queue
          /\ thr'[w].todo = t.todo /\ thr'[w].running = t.running /\ thr'[w].hand = t.hand
          /\ thr'[w].good = t.good /\ thr'[w].bad = t.bad
      BY <1>0, <2>1 DEF WiredThread, Thread
    <2> QED BY <1>0, <2>1, <2>2 DEF WorkOn, Unsettled, Awaits, InFlight, Recording
  <1>9. CASE MarkBatch(w)
    <2>1. PICK pc : /\ pc = IF t.todo = {} THEN "collect" ELSE "mark"
                    /\ thr' = [thr EXCEPT ![w] =
                         [[[t EXCEPT !.running = t.running \cup {t.hand}] EXCEPT !.hand = NoMd5]
                            EXCEPT !.pc = pc]]
      BY <1>9 DEF MarkBatch
    <2>2. /\ thr'[w].pc = pc /\ thr'[w].job = j /\ thr'[w].queue = t.queue
          /\ thr'[w].todo = t.todo /\ thr'[w].running = t.running \cup {t.hand}
          /\ thr'[w].hand = NoMd5 /\ thr'[w].good = t.good /\ thr'[w].bad = t.bad
      BY <1>0, <2>1 DEF WiredThread, Thread
    <2>3. item' = item /\ t.pc = "markBatch" /\ m # NoMd5
      BY <1>9, BatchAssumption DEF MarkBatch
    <2> QED BY <1>0, <2>1, <2>2, <2>3 DEF WorkOn, Unsettled, Awaits, InFlight, Recording
  <1>10. CASE RecordItem(w)
    <2>1. thr' = [thr EXCEPT ![w] = [t EXCEPT !.pc = "append"]]
      BY <1>10 DEF RecordItem
    <2>2. /\ thr'[w].pc = "append" /\ thr'[w].job = j /\ thr'[w].queue = t.queue
          /\ thr'[w].todo = t.todo /\ thr'[w].running = t.running /\ thr'[w].hand = t.hand
          /\ thr'[w].good = t.good /\ thr'[w].bad = t.bad
      BY <1>0, <2>1 DEF WiredThread, Thread
    <2>3. /\ t.pc = "recItem" /\ t.hand \in Md5s
          /\ item' = [item EXCEPT ![j] = [item[j] EXCEPT ![t.hand] = Verdict(w, t.hand)]]
      BY <1>0, <1>10 DEF RecordItem, WiredThread, HoldsSample
    <2>4. /\ item'[j][m] = IF m = t.hand THEN Verdict(w, t.hand) ELSE item[j][m]
          /\ Verdict(w, t.hand) \in Done
      BY <1>0, <2>3 DEF Verdict, Done
    <2> QED BY <1>0, <2>2, <2>3, <2>4 DEF WorkOn, Unsettled, Awaits, InFlight, Recording, Done
  <1>11. CASE AppendOutcome(w)
    <2>1. PICK pc : /\ pc = IF InFlight(w) = {t.hand} THEN "check" ELSE "collect"
                    /\ thr' = [thr EXCEPT ![w] =
                         [[[[t EXCEPT !.good = t.good \ {t.hand}] EXCEPT !.bad = t.bad \ {t.hand}]
                            EXCEPT !.hand = NoMd5] EXCEPT !.pc = pc]]
      BY <1>11 DEF AppendOutcome
    <2>2. /\ thr'[w].pc = pc /\ thr'[w].job = j /\ thr'[w].queue = t.queue
          /\ thr'[w].todo = t.todo /\ thr'[w].running = t.running
          /\ thr'[w].hand = NoMd5 /\ thr'[w].good = t.good \ {t.hand}
          /\ thr'[w].bad = t.bad \ {t.hand}
      BY <1>0, <2>1 DEF WiredThread, Thread
    <2>3. item' = item /\ t.pc = "append" /\ m # NoMd5
      BY <1>11, BatchAssumption DEF AppendOutcome
    <2>4. pc = "check" => (m \in InFlight(w) <=> m = t.hand)
      BY <2>1
    <2>5. pc \in {"check", "collect"}
      BY <2>1
    <2> QED BY <1>0, <2>2, <2>3, <2>4, <2>5
            DEF WorkOn, Unsettled, Awaits, InFlight, Recording, Done
  <1> QED BY <1>1, <1>2, <1>3, <1>4, <1>5, <1>6, <1>7, <1>8, <1>9, <1>10, <1>11 DEF WorkerStep



\* A thread writes items of its own job only.
LEMMA WorkerItems ==
  ASSUME TypeOK, NEW w \in Threads, WorkerStep(w), NEW k \in Jobs, k # thr[w].job
  PROVE  item'[k] = item[k]
PROOF BY TypeParts
  DEF WorkerStep, LoadPending, CheckControl, PauseHere, ClaimChunk, MarkItem, Judge, RecordTask,
      MarkTask, MarkBatch, RecordBatch, RecordItem, AppendOutcome, Finish, JobOf, tables

\* The steps of one thread leave what the others owe.
LEMMA WorkerKeepsWork ==
  ASSUME TypeOK, Sole, Work, NEW w \in Threads, WorkerStep(w)
  PROVE  Work'
PROOF
  <1> SUFFICES ASSUME NEW v \in Threads, NEW m \in Md5s PROVE WorkOn(v, m)'
    BY DEF Work
  <1>1. CASE v = w
    BY <1>1, OwnWork DEF Work
  <1>2. CASE v # w
    <2>1. thr'[v] = thr[v] /\ WorkOn(v, m) /\ OneThread
      BY <1>2, WorkerFrame DEF Work, Sole
    <2>2. thr[v].pc = "idle" \/ (thr[v].job \in Jobs /\ thr[v].job # thr[w].job)
      BY <1>2, <2>1, TypeParts DEF WiredThread, OneThread
    <2>3. thr[v].pc = "idle" \/ item'[thr[v].job] = item[thr[v].job]
      BY <2>2, WorkerItems
    <2> QED BY <2>1, <2>3, WorkStays
  <1> QED BY <1>1, <1>2

\* A launched thread starts fresh, the others stay.
LEMMA LaunchKeepsWork ==
  ASSUME TypeOK, Work, NEW j \in Jobs, LaunchWorker(j),
         \A w \in Threads : thr[w].pc = "idle" \/ item'[thr[w].job] = item[thr[w].job]
  PROVE  Work'
PROOF
  <1>1. PICK w \in Threads :
          thr' = [thr EXCEPT ![w] = [[IdleThread EXCEPT !.pc = "load"] EXCEPT !.job = j]]
    BY DEF LaunchWorker
  <1> SUFFICES ASSUME NEW v \in Threads, NEW m \in Md5s PROVE WorkOn(v, m)'
    BY DEF Work
  <1>2. CASE v = w
    <2>1. /\ thr'[v].pc = "load" /\ thr'[v].queue = {} /\ thr'[v].todo = {}
          /\ thr'[v].running = {} /\ thr'[v].good = {} /\ thr'[v].bad = {}
      BY <1>1, <1>2, TypeParts DEF IdleThread
    <2> QED BY <2>1, WorkFresh
  <1>3. CASE v # w
    BY <1>1, <1>3, WorkStays DEF Work
  <1> QED BY <1>2, <1>3

\* A request writes items only of the job it creates, which no thread works on.
LEMMA RequestItems ==
  ASSUME TypeOK, NEW h \in Handlers, RequestStep(h)
  PROVE  \/ item' = item
         \/ \E j \in Jobs : StartCreate(h, j) \/ RetryCreate(h, j)
PROOF
  BY DEF RequestStep, FetchRow, StoreRow, PauseSignal, PausePatch, ResumeClear, ResumePatch,
     ResumeLaunch, RetryRead, RetryResetTask, RetryResetBatch, RetryLaunch, RequestRejected, tables

LEMMA RequestKeepsWork ==
  ASSUME TypeOK, Registered, Sole, Work, NEW h \in Handlers, RequestStep(h)
  PROVE  Work'
PROOF
  <1>1. \A w \in Threads : thr[w].pc = "idle" \/ item'[thr[w].job] = item[thr[w].job]
    <2>1. CASE item' = item
      BY <2>1
    <2>2. ASSUME NEW j \in Jobs, StartCreate(h, j) \/ RetryCreate(h, j)
          PROVE  \A w \in Threads : thr[w].pc = "idle" \/ item'[thr[w].job] = item[thr[w].job]
      <3>1. /\ ~Exists(j) /\ \A k \in Jobs \ {j} : item'[k] = item[k]
        BY <2>2, TypeParts DEF StartCreate, RetryCreate, CreateJobRecord
      <3>2. \A w \in Threads : thr[w].job # j
        BY <3>1, NoThread DEF Registered, RowsRegistered
      <3> QED BY <3>1, <3>2, TypeParts DEF WiredThread
    <2> QED BY <2>1, <2>2, RequestItems
  <1>2. CASE thr' = thr
    BY <1>1, <1>2, WorkStays DEF Work
  <1>3. ASSUME NEW j \in Jobs, LaunchWorker(j) PROVE Work'
    BY <1>1, <1>3, LaunchKeepsWork
  <1>4. thr' = thr \/ \E j \in Jobs : LaunchWorker(j)
    BY RequestJob, TypeParts
       DEF RequestStep, FetchRow, StoreRow, PauseSignal, PausePatch, ResumeClear, ResumePatch,
       ResumeLaunch, StartCreate, RetryCreate, RegisterAndLaunch, RetryRead, RetryResetTask,
       RetryResetBatch, RetryLaunch, RequestRejected, RequestAt
  <1> QED BY <1>2, <1>3, <1>4

LEMMA EnvironmentKeepsWork ==
  ASSUME TypeOK, Work, Environment
  PROVE  Work'
PROOF
  <1>1. CASE item' = item /\ thr' = thr
    BY <1>1, WorkStays DEF Work
  <1>2. ASSUME NEW w \in Threads, WorkerDies(w) PROVE Work'
    <2> SUFFICES ASSUME NEW v \in Threads, NEW m \in Md5s PROVE WorkOn(v, m)'
      BY DEF Work
    <2>1. thr' = [thr EXCEPT ![w] = IdleThread] /\ item' = item
      BY <1>2 DEF WorkerDies
    <2>2. CASE v = w
      BY <2>1, <2>2, TypeParts, WorkFresh DEF IdleThread
    <2>3. CASE v # w
      BY <2>1, <2>3, TypeParts, WorkStays DEF Work
    <2> QED BY <2>2, <2>3
  <1>3. CASE Restart \/ RestartAndReset
    <2>1. \A v \in Threads : thr'[v] = IdleThread
      BY <1>3 DEF Restart, RestartAndReset, ProcessGone
    <2> QED BY <2>1, WorkFresh DEF Work, IdleThread
  <1> QED
    BY <1>1, <1>2, <1>3 DEF Environment, Import, Enter, StartRead, RequestFails, memory, tables

\* Whatever a request goes on to create, it has picked some sample for it.
LEMMA PickedStep ==
  ASSUME TypeOK, Picked, [Next]_vars
  PROVE  Picked'
PROOF
  <1> USE TypeParts DEF RequestAt
  <1> DEFINE Made(h) == req'[h].pc \in {"create", "retryCreate"} => req'[h].picked # {}
  <1> SUFFICES ASSUME NEW g \in Handlers PROVE Made(g)
    BY DEF Picked
  <1>0. \A h \in Handlers : req'[h] = req[h] => Made(h)
    BY DEF Picked
  <1>1. ASSUME NEW h \in Handlers, NEW pc \in RequestPc \ {"create", "retryCreate"},
               GoRequest(h, pc)
        PROVE  Made(g)
    <2>1. req'[h].pc = pc
      BY <1>1, GoRequestFrame DEF IdleRequest
    <2>2. \A k \in Handlers \ {h} : req'[k] = req[k]
      BY <1>1, GoRequestFrame
    <2> QED BY <1>0, <2>1, <2>2
  <1>2. ASSUME NEW h \in Handlers, NEW r, req' = [req EXCEPT ![h] = r],
               r.pc \in {"create", "retryCreate"} => r.picked # {}
        PROVE  Made(g)
    BY <1>0, <1>2
  <1>3. CASE req' = req
    BY <1>0, <1>3
  <1>4. ASSUME NEW h \in Handlers, RequestStep(h) PROVE Made(g)
    <2>0. req[h] \in WiredRequest
      OBVIOUS
    <2>1. CASE FetchRow(h)
      <3>1. req' = [req EXCEPT ![h] = [[req[h] EXCEPT !.seen = row[req[h].job]] EXCEPT !.pc = "store"]]
        BY <2>1 DEF FetchRow
      <3> QED BY <1>2, <2>0, <3>1 DEF WiredRequest, Request
    <2>2. CASE StoreRow(h)
      <3>1. PICK pc \in RequestPc \ {"create", "retryCreate"} : GoRequest(h, pc)
        <4>1. AfterGet(req[h].op, req[h].seen) \in RequestPc \ {"create", "retryCreate"}
          BY DEF AfterGet, RequestPc
        <4> QED BY <2>2, <4>1 DEF StoreRow
      <3> QED BY <1>1, <3>1
    <2>3. CASE PauseSignal(h) \/ PausePatch(h) \/ ResumeClear(h) \/ ResumePatch(h)
               \/ ResumeLaunch(h) \/ RetryLaunch(h) \/ RequestRejected(h)
               \/ \E j \in Jobs : StartCreate(h, j)
      <3>1. PICK pc \in {"patchPausing", "idle", "patchRunning", "launch"} : GoRequest(h, pc)
        BY <2>3 DEF PauseSignal, PausePatch, ResumeClear, ResumePatch, ResumeLaunch, RetryLaunch,
                    RequestRejected, StartCreate
      <3> QED BY <1>1, <3>1 DEF RequestPc
    <2>4. ASSUME NEW j \in Jobs, RetryCreate(h, j) PROVE Made(g)
      <3>1. req' = [req EXCEPT ![h] = [[req[h] EXCEPT !.job = j] EXCEPT !.pc = "resetTask"]]
        BY <2>4 DEF RetryCreate
      <3> QED BY <1>2, <2>0, <3>1 DEF WiredRequest, Request
    <2>5. ASSUME NEW S \in SUBSET Md5s, RetryRead(h, S) PROVE Made(g)
      <3>1. /\ req' = [req EXCEPT ![h] =
                         [[[req[h] EXCEPT !.picked = S] EXCEPT !.pc = "retryCreate"]
                            EXCEPT !.batch = row[req[h].job].batch]]
            /\ S # {}
        BY <2>5 DEF RetryRead
      <3> QED BY <1>2, <2>0, <3>1 DEF WiredRequest, Request
    <2>6. ASSUME NEW m \in Md5s, RetryResetTask(h, m) PROVE Made(g)
      <3>1. req' = [req EXCEPT ![h] = [[req[h] EXCEPT !.hand = m] EXCEPT !.pc = "resetBatch"]]
        BY <2>6 DEF RetryResetTask
      <3> QED BY <1>2, <2>0, <3>1 DEF WiredRequest, Request
    <2>7. CASE RetryResetBatch(h)
      <3>1. PICK pc \in {"retryLaunch", "resetTask"} : \E S :
              req' = [req EXCEPT ![h] = [[[req[h] EXCEPT !.picked = S] EXCEPT !.hand = NoMd5]
                                           EXCEPT !.pc = pc]]
        BY <2>7 DEF RetryResetBatch
      <3> QED BY <1>2, <2>0, <3>1 DEF WiredRequest, Request
    <2> QED BY <1>4, <2>1, <2>2, <2>3, <2>4, <2>5, <2>6, <2>7 DEF RequestStep
  <1>5. ASSUME NEW w \in Threads, WorkerStep(w) PROVE Made(g)
    BY <1>3, <1>5, WorkerFrame
  <1>6. CASE Environment
    <2>1. ASSUME NEW h \in Handlers, NEW op \in Op, NEW j \in Jobs, Enter(h, op, j) PROVE Made(g)
      <3>1. PICK p : req' = [req EXCEPT ![h] =
                       [[[IdleRequest EXCEPT !.op = op] EXCEPT !.job = j] EXCEPT !.pc = p]]
                     /\ p = IF Cached(j) THEN AfterGet(op, cache[j]) ELSE "fetch"
        BY <2>1 DEF Enter
      <3>2. p \notin {"create", "retryCreate"}
        BY <3>1 DEF AfterGet
      <3> QED BY <1>2, <3>1, <3>2 DEF IdleRequest
    <2>2. ASSUME NEW h \in Handlers, NEW b \in Batches, NEW S \in SUBSET Md5s, StartRead(h, b, S)
          PROVE  Made(g)
      <3>1. S # {} /\ req' = [req EXCEPT ![h] =
                      [[[[IdleRequest EXCEPT !.op = "start"] EXCEPT !.pc = "create"]
                         EXCEPT !.batch = b] EXCEPT !.picked = S]]
        BY <2>2 DEF StartRead
      <3> QED BY <1>2, <3>1 DEF IdleRequest
    <2>3. ASSUME NEW h \in Handlers, RequestFails(h) PROVE Made(g)
      BY <1>1, <2>3 DEF RequestFails, RequestPc
    <2>4. CASE Restart \/ RestartAndReset
      BY <2>4 DEF Restart, RestartAndReset, ProcessGone, IdleRequest
    <2> QED BY <1>3, <1>6, <2>1, <2>2, <2>3, <2>4 DEF Environment, Import, WorkerDies
  <1> QED BY <1>3, <1>4, <1>5, <1>6 DEF Next, vars

\* All of it, always.
LEMMA WorkAlways == Spec => [](SoleParts /\ (client = {} => Work) /\ Picked)
PROOF
  <1> DEFINE Inv == client = {} => Work
  <1>1. Init => Work /\ Picked
    BY DEF Init, Work, Picked, WorkOn, InFlight, Recording, IdleThread, IdleRequest
  <1>2. SoleParts /\ Inv /\ [Next]_vars => Inv'
    <2> SUFFICES ASSUME SoleParts, Inv, [Next]_vars, client' = {} PROVE Work'
      OBVIOUS
    <2>1. TypeOK /\ Registered /\ Sole /\ Work
      BY NotesStay DEF SoleParts
    <2>2. CASE UNCHANGED vars
      BY <2>1, <2>2, WorkStays DEF vars, Work
    <2> QED
      BY <2>1, <2>2, EnvironmentKeepsWork, RequestKeepsWork, WorkerKeepsWork DEF Next
  <1>3. SoleParts /\ Picked /\ [Next]_vars => Picked'
    BY PickedStep DEF SoleParts
  <1> QED BY <1>1, <1>2, <1>3, SoleAlways, PTL DEF Spec

\* The counters of a job never pass the samples that have an outcome, in the table or
\* in memory, and stay below them between the outcome of a sample and its counting.
Finished(j) == Cardinality(DoneItems(j))
Recorded(w, j) == thr[w].job = j /\ thr[w].pc = "append"
ProgressOn(j) ==
  /\ Processed(row[j]) <= Finished(j)
  /\ Cached(j) => Processed(cache[j]) <= Finished(j)
  /\ \A w \in Threads : Recorded(w, j) => Processed(cache[j]) < Finished(j)
Progress == \A j \in Jobs : ProgressOn(j)

\* The samples with an outcome are finitely many, and counted monotonically.
LEMMA FinishedNat ==
  /\ \A j \in Jobs : IsFiniteSet(DoneItems(j)) /\ Finished(j) \in Nat
  /\ \A j \in Jobs : IsFiniteSet(DoneItems(j)') /\ Finished(j)' \in Nat
PROOF
  <1>1. \A D \in SUBSET Md5s : IsFiniteSet(D) /\ Cardinality(D) \in Nat
    BY FS_Subset, FS_CardinalityType, BatchAssumption
  <1> QED BY <1>1 DEF DoneItems, Finished

LEMMA FinishedGrows ==
  ASSUME NEW j \in Jobs, DoneItems(j) \subseteq DoneItems(j)'
  PROVE  Finished(j) <= Finished(j)'
PROOF BY FinishedNat, FS_Subset DEF Finished

LEMMA ProcessedNat == \A rec \in JobRecord : Processed(rec) \in Nat
PROOF BY DEF JobRecord, Processed

\* Counters that keep their values, or enter memory from the table.
LEMMA ProgressKept ==
  ASSUME TypeOK, TypeOK', NEW j \in Jobs, ProgressOn(j), Finished(j) <= Finished(j)',
         \/ Processed(row'[j]) = Processed(row[j])
         \/ Cached(j) /\ Processed(row'[j]) = Processed(cache[j]),
         Cached(j)' => \/ Processed(cache'[j]) = Processed(row[j])
                       \/ Cached(j) /\ Processed(cache'[j]) = Processed(cache[j]),
         \A w \in Threads : Recorded(w, j)' =>
           Recorded(w, j) /\ Processed(cache'[j]) = Processed(cache[j])
  PROVE  ProgressOn(j)'
PROOF
  <1>1. /\ Finished(j) \in Nat /\ Finished(j)' \in Nat
        /\ Processed(row[j]) \in Nat /\ Processed(cache[j]) \in Nat
        /\ Processed(row'[j]) \in Nat /\ Processed(cache'[j]) \in Nat
    BY FinishedNat, ProcessedNat DEF TypeOK
  <1>2. Processed(row'[j]) <= Finished(j)'
    BY <1>1 DEF ProgressOn
  <1>3. Cached(j)' => Processed(cache'[j]) <= Finished(j)'
    BY <1>1 DEF ProgressOn
  <1>4. ASSUME NEW w \in Threads, Recorded(w, j)' PROVE Processed(cache'[j]) < Finished(j)'
    BY <1>1, <1>4 DEF ProgressOn
  <1>5. /\ Processed(row[j])' = Processed(row'[j]) /\ Processed(cache[j])' = Processed(cache'[j])
    BY DEF Processed
  <1> QED BY <1>2, <1>3, <1>4, <1>5 DEF ProgressOn

\* Counters that start at zero.
LEMMA ProgressFresh ==
  ASSUME NEW j \in Jobs, Processed(row'[j]) = 0, Cached(j)' => Processed(cache'[j]) = 0,
         \A w \in Threads : ~Recorded(w, j)'
  PROVE  ProgressOn(j)'
PROOF BY FinishedNat DEF ProgressOn, Processed

\* What a worker's write adds to the counters.
LEMMA IntendedCounts ==
  ASSUME TypeOK, NEW w \in Threads, thr[w].job \in Jobs, WritesRecord(w)
  PROVE  Processed(Intended(w)) =
           Processed(cache[thr[w].job]) + (IF thr[w].pc = "append" THEN 1 ELSE 0)
PROOF
  <1> PICK rec \in JobRecord : rec = cache[thr[w].job]
    BY TypeParts
  <1>1. CASE thr[w].pc = "append"
    BY <1>1 DEF Intended, At, JobOf, JobRecord, Processed
  <1>2. CASE thr[w].pc # "append"
    BY <1>2 DEF Intended, At, JobOf, JobRecord, Processed, WritesRecord
  <1> QED BY <1>1, <1>2

\* The step of a thread, seen by its own job.
LEMMA OwnProgress ==
  ASSUME TypeOK, TypeOK', Sole, Work, NEW w \in Threads, WorkerStep(w),
         NEW j \in Jobs, j = thr[w].job, ProgressOn(j)
  PROVE  ProgressOn(j)'
PROOF
  <1> USE TypeParts DEF At, JobOf, tables, memory
  <1> PICK t : t = thr[w]
    OBVIOUS
  <1>0. t \in WiredThread /\ \A m \in Md5s : WorkOn(w, m)
    BY DEF Work
  <1> Cached(j)
    BY DEF Sole, ThreadsActive, Active, Cached
  <1>1. \A v \in Threads : v # w => ~Recorded(v, j) /\ ~Recorded(v, j)'
    BY WorkerFrame DEF Sole, OneThread, Recorded
  <1>2. ASSUME WritesRecord(w), PersistJob(j, Intended(w)), item' = item, ~Recorded(w, j)'
        PROVE  ProgressOn(j)'
    <2>2. row'[j] = Intended(w) /\ cache'[j] = Intended(w)
      BY <1>2 DEF PersistJob
    <2>3. Finished(j)' = Finished(j)
      BY <1>2 DEF Finished, DoneItems
    <2>4. Processed(Intended(w)) <= Finished(j)
      <3>1. Processed(Intended(w)) = Processed(cache[j]) + (IF t.pc = "append" THEN 1 ELSE 0)
        BY <1>2, IntendedCounts
      <3>2. Finished(j) \in Nat /\ Processed(cache[j]) \in Nat
        BY FinishedNat, ProcessedNat
      <3>3. CASE t.pc = "append"
        <4>1. Processed(cache[j]) < Finished(j)
          BY <3>3 DEF ProgressOn, Recorded
        <4> QED BY <3>1, <3>2, <3>3, <4>1
      <3>4. CASE t.pc # "append"
        <4>1. Processed(cache[j]) <= Finished(j)
          BY DEF ProgressOn
        <4> QED BY <3>1, <3>2, <3>4, <4>1
      <3> QED BY <3>3, <3>4
    <2>5. Processed(row'[j]) <= Finished(j)' /\ Processed(cache'[j]) <= Finished(j)'
      BY <2>2, <2>3, <2>4
    <2>6. \A v \in Threads : ~Recorded(v, j)'
      BY <1>1, <1>2
    <2> QED BY <2>5, <2>6 DEF ProgressOn, Processed
  <1>3. ASSUME row' = row, cache' = cache, DoneItems(j) \subseteq DoneItems(j)',
               Recorded(w, j)' => Recorded(w, j)
        PROVE  ProgressOn(j)'
    <2>1. \A v \in Threads : Recorded(v, j)' => Recorded(v, j)
      BY <1>1, <1>3
    <2>2. Cached(j)' => Cached(j)
      BY <1>3 DEF Cached
    <2> QED BY <1>3, <2>1, <2>2, FinishedGrows, ProgressKept
  <1>4. CASE PauseHere(w) \/ Finish(w)
    <2>1. ~Recorded(w, j)'
      BY <1>4 DEF PauseHere, Finish, Recorded, IdleThread
    <2> QED BY <1>2, <1>4, <2>1 DEF PauseHere, Finish, WritesRecord
  <1>5. ASSUME NEW S \in SUBSET Md5s, ClaimChunk(w, S) PROVE ProgressOn(j)'
    <2>1. thr' = [thr EXCEPT ![w] =
                    [[[t EXCEPT !.queue = t.queue \ S] EXCEPT !.todo = S] EXCEPT !.pc = "mark"]]
      BY <1>5 DEF ClaimChunk
    <2>2. thr'[w].pc = "mark"
      BY <1>0, <2>1 DEF WiredThread, Thread
    <2> QED BY <1>2, <1>5, <2>2 DEF ClaimChunk, WritesRecord, Recorded
  <1>6. CASE AppendOutcome(w)
    <2>1. PICK pc \in {"check", "collect"} : thr' = [thr EXCEPT ![w] =
                         [[[[t EXCEPT !.good = t.good \ {t.hand}] EXCEPT !.bad = t.bad \ {t.hand}]
                            EXCEPT !.hand = NoMd5] EXCEPT !.pc = pc]]
      BY <1>6 DEF AppendOutcome
    <2>2. thr'[w].pc = pc
      BY <1>0, <2>1 DEF WiredThread, Thread
    <2> QED BY <1>2, <1>6, <2>1, <2>2 DEF AppendOutcome, WritesRecord, Recorded
  <1>7. ASSUME NEW m \in Md5s, MarkItem(w, m) PROVE ProgressOn(j)'
    <2>1. /\ row' = row /\ cache' = cache /\ m \in t.todo /\ t.pc = "mark"
          /\ item' = [item EXCEPT ![j] = [item[j] EXCEPT ![m] = "processing"]]
          /\ thr' = [thr EXCEPT ![w] =
               [[[t EXCEPT !.todo = t.todo \ {m}] EXCEPT !.hand = m] EXCEPT !.pc = "markTask"]]
      BY <1>7 DEF MarkItem
    <2>2. item[j][m] \notin Done
      BY <1>0, <2>1 DEF WorkOn, Awaits, Unsettled, Done
    <2>3. \A i \in Md5s : i # m => item'[j][i] = item[j][i]
      BY <2>1
    <2>4. DoneItems(j) \subseteq DoneItems(j)'
      BY <2>2, <2>3 DEF DoneItems
    <2>5. thr'[w].pc = "markTask"
      BY <1>0, <2>1 DEF WiredThread, Thread
    <2> QED BY <1>3, <2>1, <2>4, <2>5 DEF Recorded
  <1>8. CASE RecordItem(w)
    <2>1. /\ row' = row /\ cache' = cache /\ t.pc = "recItem"
          /\ item' = [item EXCEPT ![j] = [item[j] EXCEPT ![t.hand] = Verdict(w, t.hand)]]
      BY <1>8 DEF RecordItem
    <2>2. t.hand \in Md5s
      BY <1>0, <2>1 DEF WiredThread, HoldsSample
    <2>3. t.hand \notin DoneItems(j)
      BY <1>0, <2>1, <2>2 DEF WorkOn, Awaits, Unsettled, DoneItems, Done, Recording, InFlight
    <2>4. /\ item'[j][t.hand] \in Done
          /\ \A i \in Md5s : i # t.hand => item'[j][i] = item[j][i]
      BY <2>1, <2>2 DEF Verdict, Done
    <2>5. DoneItems(j)' = DoneItems(j) \cup {t.hand}
      BY <2>2, <2>4 DEF DoneItems
    <2>6. Finished(j)' = Finished(j) + 1
      <3>1. \A D, x : IsFiniteSet(D) /\ x \notin D => Cardinality(D \cup {x}) = Cardinality(D) + 1
        BY FS_AddElement
      <3>2. Cardinality(DoneItems(j) \cup {t.hand}) = Cardinality(DoneItems(j)) + 1
        BY <2>3, <3>1, FinishedNat
      <3> QED BY <2>5, <3>2 DEF Finished
    <2>7. /\ Finished(j) \in Nat /\ Processed(row[j]) \in Nat /\ Processed(cache[j]) \in Nat
      BY FinishedNat, ProcessedNat
    <2>8. /\ Processed(row[j]) <= Finished(j)'
          /\ Cached(j) => Processed(cache[j]) < Finished(j)'
      BY <2>6, <2>7 DEF ProgressOn
    <2> QED BY <2>1, <2>8, <2>6, <2>7 DEF ProgressOn, Cached, Processed
  <1>9. CASE LoadPending(w) \/ CheckControl(w) \/ MarkTask(w) \/ MarkBatch(w) \/ RecordBatch(w)
             \/ \E m \in Md5s : Judge(w, m) \/ RecordTask(w, m)
    <2>1. row' = row /\ cache' = cache /\ item' = item
      BY <1>9 DEF LoadPending, CheckControl, MarkTask, MarkBatch, RecordBatch, Judge, RecordTask
    <2>2. thr'[w].pc = "append" => thr[w].pc = "append"
      <3>1. CASE LoadPending(w) \/ CheckControl(w)
        BY <1>0, <3>1 DEF LoadPending, CheckControl, WiredThread, Thread
      <3>2. CASE MarkTask(w) \/ RecordBatch(w) \/ MarkBatch(w)
        BY <1>0, <3>2 DEF MarkTask, RecordBatch, MarkBatch, WiredThread, Thread
      <3>3. ASSUME NEW m \in Md5s, Judge(w, m) \/ RecordTask(w, m) PROVE thr'[w].pc = "append" => thr[w].pc = "append"
        BY <1>0, <3>3 DEF Judge, RecordTask, WiredThread, Thread
      <3> QED BY <1>9, <3>1, <3>2, <3>3
    <2>3. DoneItems(j) \subseteq DoneItems(j)'
      BY <2>1 DEF DoneItems
    <2> QED BY <1>3, <2>1, <2>2, <2>3 DEF Recorded
  <1> QED BY <1>4, <1>5, <1>6, <1>7, <1>8, <1>9 DEF WorkerStep



\* The step of a thread, seen by every job.
LEMMA WorkerProgress ==
  ASSUME TypeOK, TypeOK', Sole, Work, Progress, NEW w \in Threads, WorkerStep(w)
  PROVE  Progress'
PROOF
  <1> SUFFICES ASSUME NEW j \in Jobs PROVE ProgressOn(j)'
    BY DEF Progress
  <1>1. CASE j = thr[w].job
    BY <1>1, OwnProgress DEF Progress
  <1>2. CASE j # thr[w].job
    <2>1. row'[j] = row[j] /\ cache'[j] = cache[j] /\ item'[j] = item[j]
      BY <1>2, WorkerFrame, WorkerItems, TypeParts DEF PersistJob
    <2>2. \A v \in Threads : Recorded(v, j)' => Recorded(v, j)
      BY <1>2, WorkerFrame, BatchAssumption DEF Recorded
    <2>3. Cached(j)' => Cached(j)
      BY <2>1 DEF Cached
    <2>4. DoneItems(j) \subseteq DoneItems(j)'
      BY <2>1 DEF DoneItems
    <2> QED BY <2>1, <2>2, <2>3, <2>4, FinishedGrows, ProgressKept DEF Progress
  <1> QED BY <1>1, <1>2

\* Steps that leave the items alone, launch at most a thread and change no counter.
LEMMA ProgressFrame ==
  ASSUME TypeOK, TypeOK', Progress, item' = item,
         \A w \in Threads : thr'[w] = thr[w] \/ thr'[w].pc # "append",
         NEW j \in Jobs, Processed(row'[j]) = Processed(row[j]),
         Processed(cache'[j]) = Processed(cache[j]), Cached(j)' => Cached(j)
  PROVE  ProgressOn(j)'
PROOF
  <1>1. DoneItems(j) \subseteq DoneItems(j)' /\ ProgressOn(j)
    BY DEF DoneItems, Progress
  <1>2. \A w \in Threads : Recorded(w, j)' => Recorded(w, j)
    BY DEF Recorded
  <1> QED BY <1>1, <1>2, FinishedGrows, ProgressKept

\* A launched thread is not about to count anything.
LEMMA LaunchedThread ==
  ASSUME TypeOK, NEW j, LaunchWorker(j)
  PROVE  \A w \in Threads : thr'[w] = thr[w] \/ thr'[w].pc # "append"
PROOF BY TypeParts DEF LaunchWorker, IdleThread

LEMMA RequestProgress ==
  ASSUME TypeOK, TypeOK', Registered, Reads, Sole, client = {}, Progress,
         NEW h \in Handlers, RequestStep(h)
  PROVE  Progress'
PROOF
  <1> USE TypeParts DEF RequestAt, tables, memory
  <1> PICK k : k = req[h].job
    OBVIOUS
  <1>0. RequestRegistered(h)
    BY DEF Registered
  <1> SUFFICES ASSUME NEW j \in Jobs PROVE ProgressOn(j)'
    BY DEF Progress
  <1>1. ASSUME row' = row, cache' = cache, item' = item,
               thr' = thr \/ \E i : LaunchWorker(i)
        PROVE  ProgressOn(j)'
    BY <1>1, LaunchedThread, ProgressFrame DEF Cached
  <1>2. CASE PausePatch(h) \/ ResumePatch(h)
    <2>1. PICK s \in {"pausing", "running"} : PersistJob(k, [cache[k] EXCEPT !.status = s])
      BY <1>2 DEF PausePatch, ResumePatch
    <2>2. /\ item' = item /\ thr' = thr /\ Cached(k) /\ k \in Jobs
      BY <1>0, <1>2, RequestJob DEF PausePatch, ResumePatch, RequestRegistered, Holding
    <2>3. CASE j # k
      <3>1. row'[j] = row[j] /\ cache'[j] = cache[j]
        BY <2>1, <2>2, <2>3 DEF PersistJob
      <3> QED BY <2>2, <3>1, ProgressFrame DEF Cached
    <2>4. CASE j = k
      <3>1. /\ row'[j] = [cache[j] EXCEPT !.status = s]
            /\ cache'[j] = [cache[j] EXCEPT !.status = s]
        BY <2>1, <2>4 DEF PersistJob
      <3>2. Processed(row'[j]) = Processed(cache[j]) /\ Processed(cache'[j]) = Processed(cache[j])
        BY <3>1 DEF Processed, JobRecord
      <3>3. \A w \in Threads : Recorded(w, j)' => Recorded(w, j)
        BY <2>2 DEF Recorded
      <3>4. DoneItems(j) \subseteq DoneItems(j)' /\ ProgressOn(j)
        BY <2>2 DEF DoneItems, Progress
      <3> QED BY <2>2, <2>4, <3>2, <3>3, <3>4, FinishedGrows, ProgressKept
    <2> QED BY <2>3, <2>4
  <1>3. CASE StoreRow(h)
    <2>1. /\ k \in Jobs /\ ~Cached(k) /\ req[h].seen = row[k]
      BY <1>3, RequestJob DEF StoreRow, Reads, Fetching
    <2>2. /\ row' = row /\ item' = item /\ thr' = thr
          /\ cache' = [cache EXCEPT ![k] = row[k]]
      BY <1>3, <2>1 DEF StoreRow
    <2>3. CASE j # k
      <3>1. row'[j] = row[j] /\ cache'[j] = cache[j]
        BY <2>1, <2>2, <2>3
      <3> QED BY <2>2, <3>1, ProgressFrame DEF Cached
    <2>4. CASE j = k
      <3>1. cache'[j] = row[j] /\ row'[j] = row[j]
        BY <2>1, <2>2, <2>4
      <3>2. \A w \in Threads : ~Recorded(w, j)'
        BY <1>0, <2>1, <2>2, <2>4, NoThread DEF Recorded
      <3>3. DoneItems(j) \subseteq DoneItems(j)' /\ ProgressOn(j)
        BY <2>2 DEF DoneItems, Progress
      <3> QED BY <3>1, <3>2, <3>3, FinishedGrows, ProgressKept
    <2> QED BY <2>3, <2>4
  <1>4. ASSUME NEW i \in Jobs, StartCreate(h, i) \/ RetryCreate(h, i) PROVE ProgressOn(j)'
    <2>1. /\ ~Exists(i) /\ row' = [row EXCEPT ![i] = NewRecord(req[h].batch)]
          /\ \A l \in Jobs : l # i => item'[l] = item[l]
          /\ cache' = cache \/ cache' = [cache EXCEPT ![i] = NewRecord(req[h].batch)]
          /\ thr' = thr \/ LaunchWorker(i)
      BY <1>4 DEF StartCreate, RetryCreate, CreateJobRecord, RegisterAndLaunch
    <2>2. ~Cached(i) /\ \A w \in Threads : thr[w].job # i
      BY <1>0, <2>1, NoThread DEF Registered, RowsRegistered
    <2>3. \A w \in Threads : thr'[w] = thr[w] \/ thr'[w].pc # "append"
      BY <2>1, LaunchedThread
    <2>4. CASE j = i
      <3>1. /\ row'[j] = NewRecord(req[h].batch)
            /\ cache'[j] = cache[j] \/ cache'[j] = NewRecord(req[h].batch)
        BY <2>1, <2>4
      <3>2. \A b : Processed(NewRecord(b)) = 0
        BY DEF Processed, NewRecord
      <3>3. \A w \in Threads : ~Recorded(w, j)'
        BY <2>2, <2>3, <2>4 DEF Recorded
      <3>4. Cached(j)' => Processed(cache'[j]) = 0
        BY <2>2, <2>4, <3>1, <3>2 DEF Cached
      <3> QED BY <3>1, <3>2, <3>3, <3>4, ProgressFresh
    <2>5. CASE j # i
      <3>1. row'[j] = row[j] /\ cache'[j] = cache[j] /\ item'[j] = item[j]
        BY <2>1, <2>5
      <3>2. \A w \in Threads : Recorded(w, j)' => Recorded(w, j)
        BY <2>3 DEF Recorded
      <3>3. DoneItems(j) \subseteq DoneItems(j)' /\ ProgressOn(j) /\ (Cached(j)' => Cached(j))
        BY <3>1 DEF DoneItems, Progress, Cached
      <3> QED BY <3>1, <3>2, <3>3, FinishedGrows, ProgressKept
    <2> QED BY <2>4, <2>5
  <1>5. CASE RetryLaunch(h)
    <2>1. /\ k \in Jobs /\ LaunchWorker(k) /\ row' = row /\ item' = item /\ ~Cached(k)
          /\ row[k] = NewRecord(req[h].batch)
          /\ cache' = [cache EXCEPT ![k] = NewRecord(req[h].batch)]
      BY <1>0, <1>5, RequestJob
         DEF RetryLaunch, RegisterAndLaunch, RequestRegistered, Resetting
    <2>2. \A w \in Threads : thr[w].job # k
      BY <1>0, <2>1, NoThread
    <2>3. \A w \in Threads : thr'[w] = thr[w] \/ thr'[w].pc # "append"
      BY <2>1, LaunchedThread
    <2>4. CASE j = k
      <3>1. row'[j] = NewRecord(req[h].batch) /\ cache'[j] = NewRecord(req[h].batch)
        BY <2>1, <2>4
      <3>2. \A w \in Threads : ~Recorded(w, j)'
        BY <2>2, <2>3, <2>4 DEF Recorded
      <3>3. \A b : Processed(NewRecord(b)) = 0
        BY DEF Processed, NewRecord
      <3> QED BY <3>1, <3>2, <3>3, ProgressFresh
    <2>5. CASE j # k
      <3>1. row'[j] = row[j] /\ cache'[j] = cache[j]
        BY <2>1, <2>5
      <3> QED BY <2>1, <2>3, <3>1, ProgressFrame DEF Cached
    <2> QED BY <2>4, <2>5
  <1>6. \/ /\ row' = row /\ cache' = cache /\ item' = item
           /\ thr' = thr \/ \E i : LaunchWorker(i)
        \/ PausePatch(h) \/ ResumePatch(h) \/ StoreRow(h) \/ RetryLaunch(h)
        \/ \E i \in Jobs : StartCreate(h, i) \/ RetryCreate(h, i)
    BY DEF RequestStep, FetchRow, PauseSignal, ResumeClear, ResumeLaunch, RetryRead,
       RetryResetTask, RetryResetBatch, RequestRejected
  <1> QED BY <1>1, <1>2, <1>3, <1>4, <1>5, <1>6

LEMMA EnvironmentProgress ==
  ASSUME TypeOK, TypeOK', Registered, Sole, Progress, Environment
  PROVE  Progress'
PROOF
  <1> USE TypeParts DEF RequestAt, tables, memory
  <1> SUFFICES ASSUME NEW j \in Jobs PROVE ProgressOn(j)'
    BY DEF Progress
  <1>1. ASSUME row' = row, cache' = cache, item' = item,
               \A w \in Threads : thr'[w] = thr[w] \/ thr'[w].pc # "append"
        PROVE  ProgressOn(j)'
    BY <1>1, ProgressFrame DEF Cached
  <1>2. ASSUME NEW w \in Threads, WorkerDies(w) PROVE ProgressOn(j)'
    <2>1. /\ thr' = [thr EXCEPT ![w] = IdleThread] /\ item' = item /\ row' = row
          /\ \/ cache' = cache
             \/ /\ WritesRecord(w)
                /\ cache' = [cache EXCEPT ![thr[w].job] = Intended(w)]
      BY <1>2 DEF WorkerDies, PersistRaises, JobOf
    <2>2. \A v \in Threads : thr'[v] = thr[v] \/ thr'[v].pc # "append"
      BY <2>1 DEF IdleThread
    <2>3. CASE cache'[j] = cache[j]
      BY <2>1, <2>2, <2>3, ProgressFrame DEF Cached
    <2>4. CASE /\ j = thr[w].job /\ WritesRecord(w)
               /\ cache' = [cache EXCEPT ![thr[w].job] = Intended(w)]
      <3>1. cache'[j] = Intended(w)
        BY <2>4
      <3>2. Processed(Intended(w)) = Processed(cache[j]) + (IF thr[w].pc = "append" THEN 1 ELSE 0)
        BY <2>4, IntendedCounts
      <3>3. Cached(j) /\ \A v \in Threads : v # w => thr[v].job # j
        BY <2>4 DEF Sole, OneThread, ThreadsActive, Active, Cached
      <3>4. /\ Finished(j) \in Nat /\ Processed(cache[j]) \in Nat /\ ProgressOn(j)
            /\ Finished(j)' = Finished(j)
        BY <2>1, FinishedNat, ProcessedNat DEF Progress, Finished, DoneItems
      <3>5. thr[w].pc = "append" => Processed(cache[j]) < Finished(j)
        BY <2>4, <3>4 DEF ProgressOn, Recorded
      <3>6. Processed(cache'[j]) <= Finished(j)'
        BY <3>1, <3>2, <3>3, <3>4, <3>5 DEF ProgressOn
      <3>7. \A v \in Threads : ~Recorded(v, j)'
        BY <2>1, <2>4, <3>3, BatchAssumption DEF Recorded, IdleThread
      <3>8. Processed(row'[j]) <= Finished(j)'
        BY <2>1, <3>4 DEF ProgressOn
      <3> QED BY <3>6, <3>7, <3>8 DEF ProgressOn, Processed
    <2> QED BY <2>1, <2>3, <2>4
  <1>3. ASSUME NEW h \in Handlers, RequestFails(h) PROVE ProgressOn(j)'
    <2>1. /\ row' = row /\ item' = item /\ thr' = thr
          /\ \/ cache' = cache
             \/ \E s \in {"pausing", "running"} :
                  /\ req[h].pc \in {"patchPausing", "patchRunning"}
                  /\ PersistRaises(req[h].job, [cache[req[h].job] EXCEPT !.status = s])
      BY <1>3 DEF RequestFails, PersistRaises
    <2>2. CASE cache'[j] = cache[j]
      BY <2>1, <2>2, ProgressFrame DEF Cached
    <2>3. ASSUME NEW s \in {"pausing", "running"}, req[h].job = j,
                 req[h].pc \in {"patchPausing", "patchRunning"},
                 PersistRaises(req[h].job, [cache[req[h].job] EXCEPT !.status = s])
          PROVE  ProgressOn(j)'
      <3>1. cache'[j] = [cache[j] EXCEPT !.status = s] /\ Cached(j)
        BY <2>3 DEF PersistRaises, Registered, RequestRegistered, Holding
      <3>2. Processed(cache'[j]) = Processed(cache[j])
        BY <3>1 DEF Processed, JobRecord
      <3> QED BY <2>1, <3>1, <3>2, ProgressFrame
    <2>4. cache'[j] = cache[j] \/ \E s \in {"pausing", "running"} :
                  /\ req[h].pc \in {"patchPausing", "patchRunning"} /\ req[h].job = j
                  /\ PersistRaises(req[h].job, [cache[req[h].job] EXCEPT !.status = s])
      BY <2>1 DEF PersistRaises
    <2> QED BY <2>2, <2>3, <2>4
  <1>4. CASE Restart
    <2>1. /\ ~Cached(j)' /\ \A w \in Threads : ~Recorded(w, j)'
      BY <1>4 DEF Restart, ProcessGone, Cached, NoRecord, Recorded, IdleThread
    <2>2. Processed(row'[j]) = Processed(row[j])
      BY <1>4 DEF Restart, Processed, JobRecord
    <2>3. \A m \in Md5s : item[j][m] \in Done => item'[j][m] = item[j][m]
      BY <1>4 DEF Restart, Requeue, Done
    <2>4. DoneItems(j) \subseteq DoneItems(j)'
      BY <2>3 DEF DoneItems
    <2> QED BY <2>1, <2>2, <2>4, FinishedGrows, ProgressKept DEF Progress
  <1>5. CASE RestartAndReset
    <2>1. /\ ~Cached(j)' /\ \A w \in Threads : ~Recorded(w, j)'
      BY <1>5 DEF RestartAndReset, ProcessGone, Cached, NoRecord, Recorded, IdleThread
    <2>2. Processed(row'[j]) = 0
      BY <1>5 DEF RestartAndReset, Processed, NoRecord
    <2> QED BY <2>1, <2>2, ProgressFresh
  <1> QED
    BY <1>1, <1>2, <1>3, <1>4, <1>5 DEF Environment, Import, Enter, StartRead

\* At most as many samples are counted as are finished, whatever crash or error comes
\* between the outcome of a sample and its counting (batch.py:206-259): the outcome is
\* written first, and only the thread that wrote it counts it.
THEOREM ProgressIsHonest == Spec => []ProgressNeverOverstated
PROOF
  <1> DEFINE Inv == client = {} => Progress
  <1>1. Init => Progress
    BY ProgressFresh, FinishedNat DEF Init, Progress, ProgressOn, Processed, Cached, NoRecord,
       Recorded, IdleThread
  <1>2. SoleParts /\ SoleParts' /\ (client = {} => Work) /\ Inv /\ [Next]_vars => Inv'
    <2> SUFFICES ASSUME SoleParts, TypeOK', client = {} => Work, Inv, [Next]_vars, client' = {}
                 PROVE  Progress'
      BY DEF SoleParts
    <2>1. TypeOK /\ Registered /\ Reads /\ client = {} /\ Sole /\ Work /\ Progress
      BY NotesStay DEF SoleParts
    <2>2. CASE UNCHANGED vars
      BY <2>1, <2>2, ProgressFrame DEF vars, Progress, Cached
    <2> QED
      BY <2>1, <2>2, EnvironmentProgress, RequestProgress, WorkerProgress DEF Next
  <1>3. Inv => ProgressNeverOverstated
    BY DEF Progress, ProgressOn, ProgressNeverOverstated, Finished
  <1> QED BY <1>1, <1>2, <1>3, WorkAlways, PTL DEF Spec


\* The state of JobLedger that the tables stand for, job by job.
PhaseOf(j) == CASE row[j].status = "none" -> "none"
                [] row[j].status = "completed" -> "closed"
                [] OTHER -> "open"
OutcomeOf(j, m) == IF item[j][m] \in {"pending", "processing"} THEN "open" ELSE item[j][m]
LedgerState == <<[j \in Jobs |-> PhaseOf(j)], [j \in Jobs |-> [m \in Md5s |-> OutcomeOf(j, m)]]>>
LedgerStep == Ledger!Keep \/ UNCHANGED LedgerState

\* The ledger is kept while it binds; it binds no more once a client broke the manners.
LEMMA LedgerSteps ==
  ASSUME client = {} /\ client' = {} => LedgerStep, client' = {} => client = {}
  PROVE  [Ledger!Next]_(Ledger!ledger)
PROOF
  <1>1. CASE client' # {}
    BY <1>1 DEF Ledger!Next
  <1>2. CASE client' = {}
    <2>1. LedgerStep /\ (client = {})' = (client = {})
      BY <1>2
    <2>2. CASE Ledger!Keep
      BY <2>1, <2>2 DEF Ledger!Next
    <2>3. CASE UNCHANGED LedgerState
      BY <2>1, <2>3 DEF LedgerState, Ledger!ledger, PhaseOf, OutcomeOf
    <2> QED BY <2>1, <2>2, <2>3 DEF LedgerStep
  <1> QED BY <1>1, <1>2

\* Steps that the ledger does not see.
LEMMA LedgerStutters ==
  ASSUME \A j \in Jobs : PhaseOf(j)' = PhaseOf(j),
         \A j \in Jobs, m \in Md5s : OutcomeOf(j, m)' = OutcomeOf(j, m)
  PROVE  LedgerStep
PROOF BY DEF LedgerStep, LedgerState

\* A job that is neither created nor completed by a step stays open to the ledger.
LEMMA RowStutters ==
  ASSUME \A j \in Jobs : \/ row'[j].status = row[j].status
                         \/ /\ row[j].status \notin {"none", "completed"}
                            /\ row'[j].status \notin {"none", "completed"},
         \A j \in Jobs, m \in Md5s : OutcomeOf(j, m)' = OutcomeOf(j, m)
  PROVE  LedgerStep
PROOF
  <1>1. \A j \in Jobs : PhaseOf(j)' = PhaseOf(j)
    BY DEF PhaseOf
  <1> QED BY <1>1, LedgerStutters

LEMMA ItemsStutter ==
  ASSUME item' = item
  PROVE  \A j \in Jobs, m \in Md5s : OutcomeOf(j, m)' = OutcomeOf(j, m)
PROOF BY DEF OutcomeOf

\* One job changes its phase.
LEMMA PhaseChanges ==
  ASSUME NEW j \in Jobs, \A k \in Jobs \ {j} : row'[k] = row[k]
  PROVE  [k \in Jobs |-> PhaseOf(k)]' = [[k \in Jobs |-> PhaseOf(k)] EXCEPT ![j] = PhaseOf(j)']
PROOF BY DEF PhaseOf

\* Creating a job opens it in the ledger.
LEMMA LedgerOpens ==
  ASSUME TypeOK, NEW j \in Jobs, NEW b, NEW S \in SUBSET Md5s, S # {}, CreateJobRecord(j, b, S)
  PROVE  LedgerStep
PROOF
  <1>1. /\ row[j].status = "none" /\ row'[j] = NewRecord(b)
        /\ \A k \in Jobs \ {j} : row'[k] = row[k] /\ item'[k] = item[k]
        /\ item'[j] = [m \in Md5s |-> IF m \in S THEN "pending" ELSE "absent"]
    BY TypeParts DEF CreateJobRecord, Exists
  <1>2. PhaseOf(j) = "none" /\ PhaseOf(j)' = "open"
    BY <1>1 DEF PhaseOf, NewRecord
  <1>3. [k \in Jobs |-> PhaseOf(k)]' = [[k \in Jobs |-> PhaseOf(k)] EXCEPT ![j] = "open"]
    BY <1>1, <1>2, PhaseChanges
  <1>4. [k \in Jobs |-> [m \in Md5s |-> OutcomeOf(k, m)]]'
        = [[k \in Jobs |-> [m \in Md5s |-> OutcomeOf(k, m)]]
             EXCEPT ![j] = [m \in Md5s |-> IF m \in S THEN "open" ELSE "absent"]]
    <2>1. \A m \in Md5s : OutcomeOf(j, m)' = IF m \in S THEN "open" ELSE "absent"
      BY <1>1 DEF OutcomeOf
    <2>2. \A k \in Jobs \ {j}, m \in Md5s : OutcomeOf(k, m)' = OutcomeOf(k, m)
      BY <1>1 DEF OutcomeOf
    <2> QED BY <2>1, <2>2
  <1>5. Ledger!Open(j, S)
    BY <1>2, <1>3, <1>4 DEF Ledger!Open, PhaseOf, OutcomeOf
  <1> QED BY <1>5 DEF LedgerStep, Ledger!Keep

\* An open job completes: the ledger closes it. A closed one is paused: it reopens.
LEMMA LedgerCloses ==
  ASSUME TypeOK, NEW j \in Jobs, item' = item, \A k \in Jobs \ {j} : row'[k] = row[k],
         row[j].status \notin {"none", "completed"}, row'[j].status = "completed",
         \A m \in Md5s : ~Unsettled(j, m)
  PROVE  LedgerStep
PROOF
  <1>1. PhaseOf(j) = "open" /\ PhaseOf(j)' = "closed"
    BY DEF PhaseOf
  <1>2. [k \in Jobs |-> PhaseOf(k)]' = [[k \in Jobs |-> PhaseOf(k)] EXCEPT ![j] = "closed"]
    BY <1>1, PhaseChanges
  <1>3. \A m \in Md5s : OutcomeOf(j, m) # "open"
    BY TypeParts DEF OutcomeOf, Unsettled, ItemStatus
  <1>4. [k \in Jobs |-> [m \in Md5s |-> OutcomeOf(k, m)]]'
        = [k \in Jobs |-> [m \in Md5s |-> OutcomeOf(k, m)]]
    BY DEF OutcomeOf
  <1>5. Ledger!Close(j)
    BY <1>1, <1>2, <1>3, <1>4 DEF Ledger!Close, PhaseOf, OutcomeOf
  <1> QED BY <1>5 DEF LedgerStep, Ledger!Keep

LEMMA LedgerReopens ==
  ASSUME TypeOK, NEW j \in Jobs, item' = item, \A k \in Jobs \ {j} : row'[k] = row[k],
         row[j].status = "completed", row'[j].status \notin {"none", "completed"}
  PROVE  LedgerStep
PROOF
  <1>1. PhaseOf(j) = "closed" /\ PhaseOf(j)' = "open"
    BY DEF PhaseOf
  <1>2. [k \in Jobs |-> PhaseOf(k)]' = [[k \in Jobs |-> PhaseOf(k)] EXCEPT ![j] = "open"]
    BY <1>1, PhaseChanges
  <1>3. [k \in Jobs |-> [m \in Md5s |-> OutcomeOf(k, m)]]'
        = [k \in Jobs |-> [m \in Md5s |-> OutcomeOf(k, m)]]
    BY DEF OutcomeOf
  <1>4. Ledger!Reopen(j)
    BY <1>1, <1>2, <1>3 DEF Ledger!Reopen, PhaseOf, OutcomeOf
  <1> QED BY <1>4 DEF LedgerStep, Ledger!Keep

\* A sample of an open job gets its outcome.
LEMMA LedgerSettles ==
  ASSUME TypeOK, NEW j \in Jobs, NEW m \in Md5s, NEW o \in Done, row' = row,
         row[j].status \notin {"none", "completed"}, Unsettled(j, m),
         item' = [item EXCEPT ![j] = [item[j] EXCEPT ![m] = o]]
  PROVE  LedgerStep
PROOF
  <1>1. PhaseOf(j) = "open" /\ OutcomeOf(j, m) = "open"
    BY DEF PhaseOf, OutcomeOf, Unsettled
  <1>2. [k \in Jobs |-> PhaseOf(k)]' = [k \in Jobs |-> PhaseOf(k)]
    BY DEF PhaseOf
  <1>3. /\ \A k \in Jobs \ {j} : item'[k] = item[k]
        /\ \A i \in Md5s : item'[j][i] = IF i = m THEN o ELSE item[j][i]
    BY TypeParts
  <1>4. \A k \in Jobs, i \in Md5s :
          OutcomeOf(k, i)' = IF k = j /\ i = m THEN o ELSE OutcomeOf(k, i)
    BY <1>3 DEF OutcomeOf, Done
  <1>5. [k \in Jobs |-> [i \in Md5s |-> OutcomeOf(k, i)]]'
        = [[k \in Jobs |-> [i \in Md5s |-> OutcomeOf(k, i)]]
             EXCEPT ![j] = [[i \in Md5s |-> OutcomeOf(j, i)] EXCEPT ![m] = o]]
    BY <1>4
  <1>6. Ledger!Settle(j, m, o)
    BY <1>1, <1>2, <1>5 DEF Ledger!Settle, PhaseOf, OutcomeOf
  <1> QED BY <1>6 DEF LedgerStep, Ledger!Keep, Ledger!Final, Done

LEMMA RequestLedger ==
  ASSUME TypeOK, Registered, Sole, Picked, NEW h \in Handlers, RequestStep(h)
  PROVE  LedgerStep
PROOF
  <1> USE TypeParts DEF RequestAt, tables, memory
  <1> PICK k : k = req[h].job
    OBVIOUS
  <1>0. RequestRegistered(h) /\ ResumeQuiet(h)
    BY DEF Registered, Sole
  <1>1. CASE row' = row /\ item' = item
    BY <1>1, ItemsStutter, RowStutters
  <1>2. CASE PausePatch(h) \/ ResumePatch(h)
    <2>1. PICK s \in {"pausing", "running"} :
            item' = item /\ row' = [row EXCEPT ![k] = [cache[k] EXCEPT !.status = s]]
      BY <1>2 DEF PausePatch, ResumePatch, PersistJob
    <2>2. k \in Jobs /\ Cached(k)
      BY <1>0, <1>2, RequestJob DEF PausePatch, ResumePatch, RequestRegistered, Holding
    <2>3. /\ row'[k].status = s /\ \A j \in Jobs \ {k} : row'[j] = row[j]
          /\ row[k].status # "none"
      BY <2>1, <2>2 DEF JobRecord, Registered, RowsRegistered, Exists
    <2>4. CASE row[k].status = "completed"
      BY <2>1, <2>2, <2>3, <2>4, LedgerReopens
    <2>5. CASE row[k].status # "completed"
      BY <2>1, <2>3, <2>5, ItemsStutter, RowStutters
    <2> QED BY <2>4, <2>5
  <1>4. ASSUME NEW j \in Jobs, StartCreate(h, j) \/ RetryCreate(h, j) PROVE LedgerStep
    <2>1. /\ CreateJobRecord(j, req[h].batch, req[h].picked)
          /\ req[h].pc \in {"create", "retryCreate"}
      BY <1>4 DEF StartCreate, RetryCreate
    <2>2. req[h].picked \in SUBSET Md5s /\ req[h].picked # {}
      BY <2>1 DEF Picked, WiredRequest, Request
    <2> QED BY <2>1, <2>2, LedgerOpens
  <1> QED BY <1>1, <1>2, <1>4
          DEF RequestStep, FetchRow, StoreRow, PauseSignal, ResumeClear, ResumeLaunch, RetryRead,
              RetryResetTask, RetryResetBatch, RetryLaunch, RegisterAndLaunch, RequestRejected

LEMMA WorkerLedger ==
  ASSUME TypeOK, Sole, Work, NEW w \in Threads, WorkerStep(w)
  PROVE  LedgerStep
PROOF
  <1> USE TypeParts DEF At, JobOf, tables, memory
  <1> PICK j : j = thr[w].job
    OBVIOUS
  <1>0. /\ thr[w] \in WiredThread /\ \A m \in Md5s : WorkOn(w, m)
        /\ j \in Jobs => /\ row[j].status \in Active /\ cache[j].status \in Active
                         /\ cache[j] \in JobRecord
    BY DEF Work, Sole, ThreadsActive
  <1>1. CASE row' = row /\ item' = item
    BY <1>1, ItemsStutter, RowStutters
  <1>2. ASSUME j \in Jobs, PersistJob(j, Intended(w)), item' = item,
               Intended(w).status \notin {"none", "completed"}
        PROVE  LedgerStep
    <2>1. /\ row'[j] = Intended(w) /\ \A k \in Jobs \ {j} : row'[k] = row[k]
      BY <1>2 DEF PersistJob
    <2> QED BY <1>0, <1>2, <2>1, ItemsStutter, RowStutters DEF Active
  <1>3. CASE PauseHere(w) \/ AppendOutcome(w) \/ \E S \in SUBSET Md5s : ClaimChunk(w, S)
    <2>1. /\ thr[w].pc \in {"pause", "append", "claim"}
          /\ PersistJob(j, Intended(w)) /\ item' = item
      BY <1>3 DEF PauseHere, AppendOutcome, ClaimChunk
    <2>2. j \in Jobs
      BY <1>0, <2>1 DEF WiredThread
    <2>3. Intended(w).status \in {cache[j].status, "paused", "running"}
      BY <1>0, <2>1, <2>2 DEF Intended, JobRecord
    <2> QED BY <1>0, <1>2, <2>1, <2>2, <2>3 DEF Active
  <1>4. CASE Finish(w)
    <2>1. /\ thr[w].pc = "check" /\ thr[w].queue = {}
          /\ PersistJob(j, Intended(w)) /\ item' = item
      BY <1>4 DEF Finish
    <2>2. j \in Jobs
      BY <1>0, <2>1 DEF WiredThread
    <2>3. Intended(w).status = "completed"
      BY <1>0, <2>1, <2>2 DEF Intended, JobRecord
    <2>4. row'[j].status = "completed" /\ \A k \in Jobs \ {j} : row'[k] = row[k]
      BY <2>1, <2>2, <2>3 DEF PersistJob
    <2>5. \A m \in Md5s : ~Unsettled(j, m)
      BY <1>0, <2>1 DEF WorkOn, Awaits
    <2> QED BY <1>0, <2>1, <2>2, <2>4, <2>5, LedgerCloses DEF Active
  <1>5. ASSUME NEW m \in Md5s, MarkItem(w, m) PROVE LedgerStep
    <2>1. /\ row' = row /\ m \in thr[w].todo /\ thr[w].pc = "mark"
          /\ item' = [item EXCEPT ![j] = [item[j] EXCEPT ![m] = "processing"]]
      BY <1>5 DEF MarkItem
    <2>2. Unsettled(j, m)
      BY <1>0, <2>1 DEF WorkOn, Awaits
    <2>3. \A k \in Jobs, i \in Md5s :
            item'[k][i] = item[k][i] \/ (Unsettled(k, i) /\ item'[k][i] = "processing")
      BY <2>1, <2>2
    <2>4. \A k \in Jobs, i \in Md5s : OutcomeOf(k, i)' = OutcomeOf(k, i)
      BY <2>3 DEF OutcomeOf, Unsettled
    <2> QED BY <2>1, <2>4, RowStutters
  <1>6. CASE RecordItem(w)
    <2>1. /\ row' = row /\ thr[w].pc = "recItem"
          /\ item' = [item EXCEPT ![j] = [item[j] EXCEPT ![thr[w].hand] = Verdict(w, thr[w].hand)]]
      BY <1>6 DEF RecordItem
    <2>2. thr[w].hand \in Md5s /\ j \in Jobs
      BY <1>0, <2>1 DEF WiredThread, HoldsSample
    <2>3. Unsettled(j, thr[w].hand)
      BY <1>0, <2>1, <2>2 DEF WorkOn, Awaits, Recording, InFlight
    <2>4. Verdict(w, thr[w].hand) \in Done
      BY DEF Verdict, Done
    <2> QED BY <1>0, <2>1, <2>2, <2>3, <2>4, LedgerSettles DEF Active
  <1> QED BY <1>1, <1>3, <1>4, <1>5, <1>6
          DEF WorkerStep, LoadPending, CheckControl, MarkTask, MarkBatch, Judge, RecordTask,
              RecordBatch

LEMMA EnvironmentLedger ==
  ASSUME TypeOK, Environment
  PROVE  LedgerStep
PROOF
  <1> USE TypeParts DEF tables, memory
  <1>1. CASE row' = row /\ item' = item
    BY <1>1, ItemsStutter, RowStutters
  <1>2. CASE Restart
    <2>1. \A j \in Jobs : \/ row'[j].status = row[j].status
                          \/ /\ row[j].status \in {"running", "pausing"}
                             /\ row'[j].status = "paused"
      BY <1>2 DEF Restart, Interrupted, JobRecord
    <2>2. \A j \in Jobs, m \in Md5s : item'[j][m] \in {item[j][m], Requeue(item[j][m])}
      BY <1>2 DEF Restart
    <2>3. \A j \in Jobs, m \in Md5s : OutcomeOf(j, m)' = OutcomeOf(j, m)
      BY <2>2 DEF OutcomeOf, Requeue
    <2> QED BY <2>1, <2>3, RowStutters
  <1>3. CASE RestartAndReset
    <2>1. /\ \A j \in Jobs : row'[j].status = "none"
          /\ \A j \in Jobs, m \in Md5s : item'[j][m] = "absent"
      BY <1>3 DEF RestartAndReset, NoRecord
    <2>2. [j \in Jobs |-> PhaseOf(j)]' = [j \in Jobs |-> "none"]
      BY <2>1 DEF PhaseOf
    <2>3. [j \in Jobs |-> [m \in Md5s |-> OutcomeOf(j, m)]]'
          = [j \in Jobs |-> [m \in Md5s |-> "absent"]]
      BY <2>1 DEF OutcomeOf
    <2>4. Ledger!Forget
      BY <2>2, <2>3 DEF Ledger!Forget, PhaseOf, OutcomeOf
    <2> QED BY <2>4 DEF LedgerStep, Ledger!Keep
  <1> QED
    BY <1>1, <1>2, <1>3
       DEF Environment, Import, Enter, StartRead, WorkerDies, PersistRaises, RequestFails

\* The tables implement the ledger (JobLedger), which binds while the clients keep to
\* the manners of one console: every sample of a job gets one outcome, and a job
\* completes when none of them is left open, through pauses, retries, SQLite errors and
\* restarts.
THEOREM TablesKeepTheLedger == Spec => KeepsLedger
PROOF
  <1>1. Init => Ledger!Init
    BY DEF Init, Ledger!Init, NoRecord
  <1>2. SoleParts /\ (client = {} => Work) /\ Picked /\ [Next]_vars
        => [Ledger!Next]_(Ledger!ledger)
    <2> SUFFICES ASSUME SoleParts, client = {} => Work, Picked, [Next]_vars
                 PROVE  [Ledger!Next]_(Ledger!ledger)
      OBVIOUS
    <2>0. TypeOK /\ Registered /\ (client' = {} => client = {})
      BY NotesStay DEF SoleParts
    <2>1. ASSUME client = {} PROVE LedgerStep
      <3>1. Sole /\ Work
        BY <2>1 DEF SoleParts
      <3>2. CASE UNCHANGED vars
        BY <3>2, ItemsStutter, RowStutters DEF vars
      <3> QED
        BY <2>0, <3>1, <3>2, EnvironmentLedger, RequestLedger, WorkerLedger DEF Next
    <2> QED BY <2>0, <2>1, LedgerSteps
  <1> QED BY <1>1, <1>2, WorkAlways, PTL DEF Spec, KeepsLedger, Ledger!Spec
============================================================================
