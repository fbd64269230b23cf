------------------------------ MODULE BatchJobs ------------------------------
(***************************************************************************)
(* Batch judgement (malapp/application/batch.py) over the SQLite tables of *)
(* malapp/data_import/preprocess.py: HTTP request threads start, pause,    *)
(* resume, retry and poll jobs; daemon worker threads take a job's samples *)
(* in chunks, judge them and record the results; the process may restart   *)
(* and an SQLite statement may raise in the middle of anything.            *)
(* Priorities, result payloads and error texts are abstracted: a list of   *)
(* samples is a set, so every order the priorities can produce is covered. *)
(***************************************************************************)
EXTENDS Integers, FiniteSets

CONSTANTS
  Md5s, Batches, Jobs,     \* samples, import batches, job ids (uuid4 pool)
  Threads, Handlers,       \* slots for worker threads and request threads
  NoMd5, NoJob, NoBatch,   \* absent values
  PoolSize,                \* batch_judge_workers(): samples per chunk
  MaxRequests, MaxRestarts, MaxFaults   \* bounds on the environment

ASSUME BatchAssumption ==
  /\ NoMd5 \notin Md5s /\ NoJob \notin Jobs /\ NoBatch \notin Batches
  /\ IsFiniteSet(Md5s)
  /\ PoolSize \in 1..4
  /\ MaxRequests \in Nat /\ MaxRestarts \in Nat /\ MaxFaults \in Nat

VARIABLES
  row,        \* table batch_jobs
  item,       \* table batch_job_items: item[j][m]
  task,       \* table sample_tasks: task[m]
  batchItem,  \* table batch_items: batchItem[b][m]
  cache,      \* JOBS, the in-memory copy of batch_jobs
  control,    \* CONTROLS: is the job's pause event set
  thr,        \* worker threads
  req,        \* request threads
  spent,      \* requests, restarts and faults used up, for the bounds
  client      \* history: what the clients have done that no console does

tables == <<row, item, task, batchItem>>
memory == <<cache, control>>
vars == <<row, item, task, batchItem, cache, control, thr, req, spent, client>>
------------------------------------------------------------------------------
ItemStatus == {"absent", "pending", "processing", "completed", "failed"}
Done == {"completed", "failed"}
JobStatus == {"none", "running", "pausing", "paused", "completed"}

JobRecord == [status: JobStatus, batch: Batches \cup {NoBatch},
              succeeded: Nat, failed: Nat]
NoRecord == [status |-> "none", batch |-> NoBatch, succeeded |-> 0, failed |-> 0]
NewRecord(b) == [status |-> "running", batch |-> b, succeeded |-> 0, failed |-> 0]

ThreadPc == {"idle", "load", "check", "pause", "claim", "mark", "markTask",
             "markBatch", "collect", "recBatch", "recItem", "append"}
HoldsSample == {"markTask", "markBatch", "recBatch", "recItem", "append"}
Thread == [pc: ThreadPc, job: Jobs \cup {NoJob}, hand: Md5s \cup {NoMd5},
           queue: SUBSET Md5s, todo: SUBSET Md5s, running: SUBSET Md5s,
           good: SUBSET Md5s, bad: SUBSET Md5s]
IdleThread == [pc |-> "idle", job |-> NoJob, hand |-> NoMd5, queue |-> {},
               todo |-> {}, running |-> {}, good |-> {}, bad |-> {}]

RequestPc == {"idle", "fetch", "store", "signal", "patchPausing", "clear",
              "patchRunning", "launch", "create", "retryRead", "retryCreate",
              "resetTask", "resetBatch", "retryLaunch"}
Op == {"none", "poll", "start", "pause", "resume", "retry"}
Request == [pc: RequestPc, op: Op, job: Jobs \cup {NoJob},
            batch: Batches \cup {NoBatch}, picked: SUBSET Md5s,
            hand: Md5s \cup {NoMd5}, seen: JobRecord]
IdleRequest == [pc |-> "idle", op |-> "none", job |-> NoJob, batch |-> NoBatch,
                picked |-> {}, hand |-> NoMd5, seen |-> NoRecord]

\* What batch.py accepts from its clients although its threads are not made for it:
\* two requests about one job at a time; one of them reading the job's row past
\* the memory; a resume before the thread of the job has come to its pause.
Manners == {"together", "stale", "early"}

\* A busy thread has a job, and a sample in hand between two writes on it; so
\* does a request that named a job.
WiredThread == {t \in Thread :
  /\ t.pc # "idle" => t.job \in Jobs
  /\ t.pc \in HoldsSample => t.hand \in Md5s}
WiredRequest == {r \in Request :
  /\ r.pc \notin {"idle", "create"} => r.job \in Jobs
  /\ r.pc = "resetBatch" => r.hand \in Md5s}

TypeOK ==
  /\ row \in [Jobs -> JobRecord]
  /\ item \in [Jobs -> [Md5s -> ItemStatus]]
  /\ task \in [Md5s -> ItemStatus]
  /\ batchItem \in [Batches -> [Md5s -> ItemStatus]]
  /\ cache \in [Jobs -> JobRecord]
  /\ control \in [Jobs -> BOOLEAN]
  /\ thr \in [Threads -> WiredThread]
  /\ req \in [Handlers -> WiredRequest]
  /\ spent \in [requests: Nat, restarts: Nat, faults: Nat]
  /\ client \in SUBSET Manners

Init ==
  /\ row = [j \in Jobs |-> NoRecord]
  /\ item = [j \in Jobs |-> [m \in Md5s |-> "absent"]]
  /\ task = [m \in Md5s |-> "absent"]
  /\ batchItem = [b \in Batches |-> [m \in Md5s |-> "absent"]]
  /\ cache = [j \in Jobs |-> NoRecord]
  /\ control = [j \in Jobs |-> FALSE]
  /\ thr = [w \in Threads |-> IdleThread]
  /\ req = [h \in Handlers |-> IdleRequest]
  /\ spent = [requests |-> 0, restarts |-> 0, faults |-> 0]
  /\ client = {}
------------------------------------------------------------------------------
Exists(j) == row[j].status # "none"
\* A client can name a job once the request that created it has answered.
Known(j) ==
  /\ Exists(j)
  /\ \A h \in Handlers :
       req[h].job = j => req[h].pc \notin {"resetTask", "resetBatch", "retryLaunch"}
Cached(j) == cache[j].status # "none"
Items(j) == {m \in Md5s : item[j][m] # "absent"}
DoneItems(j) == {m \in Md5s : item[j][m] \in Done}
Processed(rec) == rec.succeeded + rec.failed
WorkersOf(j) == {w \in Threads : thr[w].job = j}

\* Mutant: a resumed job takes its failed samples up again.
PendingJobMd5s_TakesFailed(j) ==
  {m \in Md5s : item[j][m] \in {"pending", "processing", "failed"}}

\* pending_job_md5s, failed_job_md5s and batch_pending_md5s
PendingJobMd5s(j) == {m \in Md5s : item[j][m] \in {"pending", "processing"}}
FailedJobMd5s(j) == {m \in Md5s : item[j][m] = "failed"}
BatchPendingMd5s(b) == {m \in Md5s : batchItem[b][m] = "pending"}

\* Mutant: the record is changed in memory only.
PersistJob_MemoryOnly(j, rec) == cache' = [cache EXCEPT ![j] = rec] /\ UNCHANGED row

\* _patch_job, _append_result and _append_error change the cached record and
\* write the whole of it to its row while they hold JOBS_LOCK.
PersistJob(j, rec) ==
  /\ cache' = [cache EXCEPT ![j] = rec]
  /\ row' = [row EXCEPT ![j] = rec]

\* The same when SQLite raises: memory keeps the change, the row does not.
PersistRaises(j, rec) ==
  /\ cache' = [cache EXCEPT ![j] = rec]
  /\ UNCHANGED row

\* Mutant: every job that is not completed can be resumed.
AfterGet_ResumesRunning(op, rec) ==
  CASE op = "pause" /\ rec.status \notin {"completed", "paused"} -> "signal"
    [] op = "resume" /\ rec.status \notin {"none", "completed"} -> "clear"
    [] op = "retry" -> "retryRead"
    [] OTHER -> "idle"

\* Where get_batch_job's caller goes on once it holds a copy of the job.
AfterGet(op, rec) ==
  CASE op = "pause" /\ rec.status \notin {"completed", "paused"} -> "signal"
    [] op = "resume" /\ rec.status \in {"paused", "pausing"} -> "clear"
    [] op = "retry" -> "retryRead"
    [] OTHER -> "idle"

RequestAt(h, pc) == req[h].pc = pc
GoRequest(h, pc) ==
  req' = [req EXCEPT ![h] = IF pc = "idle" THEN IdleRequest
                            ELSE [@ EXCEPT !.pc = pc]]

LaunchWorker(j) ==
  \E w \in Threads :
    /\ thr[w].pc = "idle"
    /\ thr' = [thr EXCEPT ![w] = [IdleThread EXCEPT !.pc = "load", !.job = j]]
------------------------------------------------------------------------------
(* Imports and the request handlers                                        *)

\* One import: a fresh batch; every sample it names becomes pending again.
Import(b, S) ==
  /\ \A m \in Md5s : batchItem[b][m] = "absent"
  /\ S # {}
  /\ task' = [m \in Md5s |-> IF m \in S THEN "pending" ELSE task[m]]
  /\ batchItem' = [batchItem EXCEPT ![b] =
                     [m \in Md5s |-> IF m \in S THEN "pending" ELSE "absent"]]
  /\ UNCHANGED <<row, item, memory, thr, req, spent, client>>

\* What is noted of the client: whom its request meets, and which job it resumes.
Busy(j) == \E h \in Handlers : req[h].job = j
Reading(j) == \E h \in Handlers : req[h].job = j /\ req[h].pc \in {"fetch", "store"}
Meeting(j) ==
  (IF Busy(j) THEN {"together"} ELSE {})
    \cup (IF Reading(j) THEN {"stale"} ELSE {})
Resuming(op, rec) == IF op = "resume" /\ rec.status = "pausing" THEN {"early"} ELSE {}

\* A request naming a job begins with get_batch_job: a copy of the cached
\* record when there is one, otherwise the slow path through the database.
Enter(h, op, j) ==
  /\ RequestAt(h, "idle")
  /\ op \in {"poll", "pause", "resume", "retry"}
  /\ Known(j)
  /\ spent.requests < MaxRequests
  /\ Cached(j) => AfterGet(op, cache[j]) # "idle"
  /\ req' = [req EXCEPT ![h] =
       [IdleRequest EXCEPT !.op = op, !.job = j,
          !.pc = IF Cached(j) THEN AfterGet(op, cache[j]) ELSE "fetch"]]
  /\ client' = client \cup Meeting(j) \cup Resuming(op, cache[j])
  /\ spent' = [spent EXCEPT !.requests = @ + 1]
  /\ UNCHANGED <<tables, memory, thr>>

FetchRow(h) ==
  /\ RequestAt(h, "fetch")
  /\ req' = [req EXCEPT ![h].seen = row[req[h].job], ![h].pc = "store"]
  /\ UNCHANGED <<tables, memory, thr, spent, client>>

\* Mutant: row_to_job loses the counters.
StoreRow_DropsCounters(h) ==
  /\ RequestAt(h, "store")
  /\ cache' = [cache EXCEPT ![req[h].job] = [req[h].seen EXCEPT !.succeeded = 0, !.failed = 0]]
  /\ client' = client \cup Resuming(req[h].op, req[h].seen)
  /\ GoRequest(h, AfterGet(req[h].op, req[h].seen))
  /\ UNCHANGED <<tables, control, thr, spent>>

StoreRow(h) ==
  /\ RequestAt(h, "store")
  /\ cache' = [cache EXCEPT ![req[h].job] = req[h].seen]
  /\ client' = client \cup Resuming(req[h].op, req[h].seen)
  /\ GoRequest(h, AfterGet(req[h].op, req[h].seen))
  /\ UNCHANGED <<tables, control, thr, spent>>

PauseSignal(h) ==
  /\ RequestAt(h, "signal")
  /\ control' = [control EXCEPT ![req[h].job] = TRUE]
  /\ GoRequest(h, "patchPausing")
  /\ UNCHANGED <<tables, cache, thr, spent, client>>

PausePatch(h) ==
  /\ RequestAt(h, "patchPausing")
  /\ PersistJob(req[h].job, [cache[req[h].job] EXCEPT !.status = "pausing"])
  /\ GoRequest(h, "idle")
  /\ UNCHANGED <<item, task, batchItem, control, thr, spent, client>>

ResumeClear(h) ==
  /\ RequestAt(h, "clear")
  /\ control' = [control EXCEPT ![req[h].job] = FALSE]
  /\ GoRequest(h, "patchRunning")
  /\ UNCHANGED <<tables, cache, thr, spent, client>>

ResumePatch(h) ==
  /\ RequestAt(h, "patchRunning")
  /\ PersistJob(req[h].job, [cache[req[h].job] EXCEPT !.status = "running"])
  /\ GoRequest(h, "launch")
  /\ UNCHANGED <<item, task, batchItem, control, thr, spent, client>>

ResumeLaunch(h) ==
  /\ RequestAt(h, "launch")
  /\ LaunchWorker(req[h].job)
  /\ GoRequest(h, "idle")
  /\ UNCHANGED <<tables, memory, spent, client>>

\* start_batch_judgement picks up to `limit` pending samples of the batch ...
StartRead(h, b, S) ==
  /\ RequestAt(h, "idle")
  /\ S # {} /\ S \subseteq BatchPendingMd5s(b)
  /\ spent.requests < MaxRequests
  /\ req' = [req EXCEPT ![h] = [IdleRequest EXCEPT !.op = "start", !.pc = "create",
                                  !.batch = b, !.picked = S]]
  /\ spent' = [spent EXCEPT !.requests = @ + 1]
  /\ UNCHANGED <<tables, memory, thr, client>>

\* ... and, in a later transaction, makes a job of them. Nothing marks the
\* samples as taken in between or afterwards. The record is not known to other
\* requests before this one answers: its steps from the insert on are one action.
CreateJobRecord(j, b, S) ==
  /\ ~Exists(j)
  /\ row' = [row EXCEPT ![j] = NewRecord(b)]
  /\ item' = [item EXCEPT ![j] = [m \in Md5s |-> IF m \in S THEN "pending" ELSE "absent"]]

RegisterAndLaunch(j, b) ==
  /\ cache' = [cache EXCEPT ![j] = NewRecord(b)]
  /\ control' = [control EXCEPT ![j] = FALSE]
  /\ LaunchWorker(j)

StartCreate(h, j) ==
  /\ RequestAt(h, "create")
  /\ CreateJobRecord(j, req[h].batch, req[h].picked)
  /\ RegisterAndLaunch(j, req[h].batch)
  /\ GoRequest(h, "idle")
  /\ UNCHANGED <<task, batchItem, spent, client>>

RetryRead(h, S) ==
  /\ RequestAt(h, "retryRead")
  /\ S # {} /\ S \subseteq FailedJobMd5s(req[h].job)
  /\ req' = [req EXCEPT ![h].picked = S, ![h].pc = "retryCreate",
                        ![h].batch = row[req[h].job].batch]
  /\ UNCHANGED <<tables, memory, thr, spent, client>>

RetryCreate(h, j) ==
  /\ RequestAt(h, "retryCreate")
  /\ CreateJobRecord(j, req[h].batch, req[h].picked)
  /\ req' = [req EXCEPT ![h].job = j, ![h].pc = "resetTask"]
  /\ UNCHANGED <<task, batchItem, memory, thr, spent, client>>

RetryResetTask(h, m) ==
  /\ RequestAt(h, "resetTask") /\ m \in req[h].picked
  /\ task' = [task EXCEPT ![m] = "pending"]
  /\ req' = [req EXCEPT ![h].hand = m, ![h].pc = "resetBatch"]
  /\ UNCHANGED <<row, item, batchItem, memory, thr, spent, client>>

RetryResetBatch(h) ==
  /\ RequestAt(h, "resetBatch")
  /\ batchItem' = [batchItem EXCEPT ![req[h].batch][req[h].hand] = "pending"]
  /\ req' = [req EXCEPT ![h].picked = @ \ {req[h].hand}, ![h].hand = NoMd5,
               ![h].pc = IF req[h].picked = {req[h].hand} THEN "retryLaunch"
                         ELSE "resetTask"]
  /\ UNCHANGED <<row, item, task, memory, thr, spent, client>>

RetryLaunch(h) ==
  /\ RequestAt(h, "retryLaunch")
  /\ RegisterAndLaunch(req[h].job, req[h].batch)
  /\ GoRequest(h, "idle")
  /\ UNCHANGED <<tables, spent, client>>

\* Requests that raise before changing anything: the runtime is not ready, or
\* the job has no failed sample.
RequestRejected(h) ==
  /\ \/ RequestAt(h, "create")
     \/ RequestAt(h, "retryCreate")
     \/ RequestAt(h, "retryRead") /\ FailedJobMd5s(req[h].job) = {}
  /\ GoRequest(h, "idle")
  /\ UNCHANGED <<tables, memory, thr, spent, client>>
------------------------------------------------------------------------------
(* The worker thread _run_job                                              *)

At(w, pc) == thr[w].pc = pc
JobOf(w) == thr[w].job
BatchOf(w) == row[JobOf(w)].batch
InFlight(w) == thr[w].running \cup thr[w].good \cup thr[w].bad

LoadPending(w) ==
  /\ At(w, "load")
  /\ thr' = [thr EXCEPT ![w].queue = PendingJobMd5s(JobOf(w)), ![w].pc = "check"]
  /\ UNCHANGED <<tables, memory, req, spent, client>>

\* The loop head reads the pause event; the patch it decides on comes later.
CheckControl(w) ==
  /\ At(w, "check") /\ thr[w].queue # {}
  /\ thr' = [thr EXCEPT ![w].pc = IF control[JobOf(w)] THEN "pause" ELSE "claim"]
  /\ UNCHANGED <<tables, memory, req, spent, client>>

\* The record _run_job writes at the points where it writes one.
Intended(w) ==
  LET rec == cache[JobOf(w)]
  IN CASE At(w, "pause") -> [rec EXCEPT !.status = "paused"]
       [] At(w, "claim") -> [rec EXCEPT !.status = "running"]
       [] At(w, "check") -> [rec EXCEPT !.status = "completed"]
       [] At(w, "append") /\ thr[w].hand \in thr[w].good ->
            [rec EXCEPT !.succeeded = @ + 1]
       [] OTHER -> [rec EXCEPT !.failed = @ + 1]

PauseHere(w) ==
  /\ At(w, "pause")
  /\ PersistJob(JobOf(w), Intended(w))
  /\ thr' = [thr EXCEPT ![w] = IdleThread]
  /\ UNCHANGED <<item, task, batchItem, control, req, spent, client>>

ClaimChunk(w, S) ==
  /\ At(w, "claim")
  /\ S \subseteq thr[w].queue
  /\ Cardinality(S) = IF Cardinality(thr[w].queue) < PoolSize
                      THEN Cardinality(thr[w].queue) ELSE PoolSize
  /\ PersistJob(JobOf(w), Intended(w))
  /\ thr' = [thr EXCEPT ![w].queue = @ \ S, ![w].todo = S, ![w].pc = "mark"]
  /\ UNCHANGED <<item, task, batchItem, control, req, spent, client>>

MarkItem(w, m) ==
  /\ At(w, "mark") /\ m \in thr[w].todo
  /\ item' = [item EXCEPT ![JobOf(w)][m] = "processing"]
  /\ thr' = [thr EXCEPT ![w].todo = @ \ {m}, ![w].hand = m, ![w].pc = "markTask"]
  /\ UNCHANGED <<row, task, batchItem, memory, req, spent, client>>

MarkTask(w) ==
  /\ At(w, "markTask")
  /\ task' = [task EXCEPT ![thr[w].hand] = "processing"]
  /\ thr' = [thr EXCEPT ![w].pc = "markBatch"]
  /\ UNCHANGED <<row, item, batchItem, memory, req, spent, client>>

\* The sample is then judged: inline with one worker, otherwise by the pool
\* while the thread goes on marking the rest of the chunk.
MarkBatch(w) ==
  /\ At(w, "markBatch")
  /\ batchItem' = [batchItem EXCEPT ![BatchOf(w)][thr[w].hand] = "processing"]
  /\ thr' = [thr EXCEPT ![w].running = @ \cup {thr[w].hand}, ![w].hand = NoMd5,
                        ![w].pc = IF thr[w].todo = {} THEN "collect" ELSE "mark"]
  /\ UNCHANGED <<row, item, task, memory, req, spent, client>>

\* _judge_job_item returns after its bounded attempts; it never raises and
\* touches none of these tables.
Judge(w, m) ==
  /\ m \in thr[w].running
  /\ \/ thr' = [thr EXCEPT ![w].running = @ \ {m}, ![w].good = @ \cup {m}]
     \/ thr' = [thr EXCEPT ![w].running = @ \ {m}, ![w].bad = @ \cup {m}]
  /\ UNCHANGED <<tables, memory, req, spent, client>>

Verdict(w, m) == IF m \in thr[w].good THEN "completed" ELSE "failed"

RecordTask(w, m) ==
  /\ At(w, "collect") /\ m \in thr[w].good \cup thr[w].bad
  /\ task' = [task EXCEPT ![m] = Verdict(w, m)]
  /\ thr' = [thr EXCEPT ![w].hand = m, ![w].pc = "recBatch"]
  /\ UNCHANGED <<row, item, batchItem, memory, req, spent, client>>

RecordBatch(w) ==
  /\ At(w, "recBatch")
  /\ batchItem' = [batchItem EXCEPT ![BatchOf(w)][thr[w].hand] = Verdict(w, thr[w].hand)]
  /\ thr' = [thr EXCEPT ![w].pc = "recItem"]
  /\ UNCHANGED <<row, item, task, memory, req, spent, client>>

RecordItem(w) ==
  /\ At(w, "recItem")
  /\ item' = [item EXCEPT ![JobOf(w)][thr[w].hand] = Verdict(w, thr[w].hand)]
  /\ thr' = [thr EXCEPT ![w].pc = "append"]
  /\ UNCHANGED <<row, task, batchItem, memory, req, spent, client>>

AppendOutcome(w) ==
  /\ At(w, "append")
  /\ PersistJob(JobOf(w), Intended(w))
  /\ thr' = [thr EXCEPT ![w].good = @ \ {thr[w].hand}, ![w].bad = @ \ {thr[w].hand},
               ![w].hand = NoMd5,
               ![w].pc = IF InFlight(w) = {thr[w].hand} THEN "check" ELSE "collect"]
  /\ UNCHANGED <<item, task, batchItem, control, req, spent, client>>

\* Mutant: a loop with nothing left to do ends without completing the job.
Finish_JustReturns(w) ==
  /\ At(w, "check") /\ thr[w].queue = {}
  /\ thr' = [thr EXCEPT ![w] = IdleThread]
  /\ UNCHANGED <<tables, memory, req, spent, client>>

Finish(w) ==
  /\ At(w, "check") /\ thr[w].queue = {}
  /\ PersistJob(JobOf(w), Intended(w))
  /\ thr' = [thr EXCEPT ![w] = IdleThread]
  /\ UNCHANGED <<item, task, batchItem, control, req, spent, client>>
------------------------------------------------------------------------------
(* Failures                                                                *)

WritesRecord(w) ==
  \/ At(w, "pause") \/ At(w, "claim") \/ At(w, "append")
  \/ At(w, "check") /\ thr[w].queue = {}

\* An SQLite error ends the daemon thread: nothing catches it in _run_job.
WorkerDies(w) ==
  /\ spent.faults < MaxFaults
  /\ \/ /\ WritesRecord(w)
        /\ PersistRaises(JobOf(w), Intended(w))
     \/ /\ thr[w].pc \in {"load", "mark", "markTask", "markBatch", "recBatch", "recItem"}
        /\ UNCHANGED <<row, cache>>
  /\ thr' = [thr EXCEPT ![w] = IdleThread]
  /\ spent' = [spent EXCEPT !.faults = @ + 1]
  /\ UNCHANGED <<item, task, batchItem, control, req, client>>

\* An SQLite error answers the request with an error where it stands.
RequestFails(h) ==
  /\ spent.faults < MaxFaults
  /\ \/ /\ RequestAt(h, "patchPausing")
        /\ PersistRaises(req[h].job, [cache[req[h].job] EXCEPT !.status = "pausing"])
     \/ /\ RequestAt(h, "patchRunning")
        /\ PersistRaises(req[h].job, [cache[req[h].job] EXCEPT !.status = "running"])
     \/ /\ req[h].pc \in {"resetTask", "resetBatch"}
        /\ UNCHANGED <<row, cache>>
  /\ GoRequest(h, "idle")
  /\ spent' = [spent EXCEPT !.faults = @ + 1]
  /\ UNCHANGED <<item, task, batchItem, control, thr, client>>

\* Mutant: recovery forgets the jobs that nobody was pausing.
Interrupted_PausingOnly(j) == row[j].status = "pausing"

Interrupted(j) == row[j].status \in {"running", "pausing"}

\* Mutant: recovery also requeues samples that failed.
Requeue_FailedToo(status) == IF status \in {"processing", "failed"} THEN "pending" ELSE status

Requeue(status) == IF status = "processing" THEN "pending" ELSE status

ProcessGone ==
  /\ cache' = [j \in Jobs |-> NoRecord]
  /\ control' = [j \in Jobs |-> FALSE]
  /\ thr' = [w \in Threads |-> IdleThread]
  /\ req' = [h \in Handlers |-> IdleRequest]
  /\ spent' = [spent EXCEPT !.restarts = @ + 1]
  /\ UNCHANGED client

\* The process dies and starts again. initialize_application runs
\* recover_interrupted_jobs, one transaction, before any request is served.
Restart ==
  /\ spent.restarts < MaxRestarts
  /\ ProcessGone
  /\ row' = [j \in Jobs |-> IF Interrupted(j) THEN [row[j] EXCEPT !.status = "paused"]
                            ELSE row[j]]
  /\ item' = [j \in Jobs |-> IF Interrupted(j)
                             THEN [m \in Md5s |-> Requeue(item[j][m])] ELSE item[j]]
  /\ IF \E j \in Jobs : Interrupted(j)
     THEN /\ task' = [m \in Md5s |-> Requeue(task[m])]
          /\ batchItem' = [b \in Batches |-> [m \in Md5s |-> Requeue(batchItem[b][m])]]
     ELSE UNCHANGED <<task, batchItem>>

\* The same with MALAPP_RESET_RUNTIME_ON_START: the queue tables are emptied
\* first, so there is nothing left to recover.
RestartAndReset ==
  /\ spent.restarts < MaxRestarts
  /\ ProcessGone
  /\ row' = [j \in Jobs |-> NoRecord]
  /\ item' = [j \in Jobs |-> [m \in Md5s |-> "absent"]]
  /\ task' = [m \in Md5s |-> "absent"]
  /\ batchItem' = [b \in Batches |-> [m \in Md5s |-> "absent"]]
------------------------------------------------------------------------------
RequestStep(h) ==
  \/ FetchRow(h) \/ StoreRow(h)
  \/ PauseSignal(h) \/ PausePatch(h)
  \/ ResumeClear(h) \/ ResumePatch(h) \/ ResumeLaunch(h)
  \/ \E j \in Jobs : StartCreate(h, j) \/ RetryCreate(h, j)
  \/ \E S \in SUBSET Md5s : RetryRead(h, S)
  \/ \E m \in Md5s : RetryResetTask(h, m)
  \/ RetryResetBatch(h) \/ RetryLaunch(h) \/ RequestRejected(h)

WorkerStep(w) ==
  \/ LoadPending(w) \/ CheckControl(w) \/ PauseHere(w)
  \/ \E S \in SUBSET Md5s : ClaimChunk(w, S)
  \/ \E m \in Md5s : MarkItem(w, m) \/ Judge(w, m) \/ RecordTask(w, m)
  \/ MarkTask(w) \/ MarkBatch(w)
  \/ RecordBatch(w) \/ RecordItem(w) \/ AppendOutcome(w) \/ Finish(w)

Environment ==
  \/ \E b \in Batches, S \in SUBSET Md5s : Import(b, S)
  \/ \E h \in Handlers, op \in Op, j \in Jobs : Enter(h, op, j)
  \/ \E h \in Handlers, b \in Batches, S \in SUBSET Md5s : StartRead(h, b, S)
  \/ \E w \in Threads : WorkerDies(w)
  \/ \E h \in Handlers : RequestFails(h)
  \/ Restart \/ RestartAndReset

Next ==
  \/ Environment
  \/ \E h \in Handlers : RequestStep(h)
  \/ \E w \in Threads : WorkerStep(w)

Spec == Init /\ [][Next]_vars

\* A started thread runs on: the worker's judge calls return (they carry their
\* own timeouts) and the request threads of the server are scheduled.
Fairness ==
  /\ \A h \in Handlers : WF_vars(RequestStep(h))
  /\ \A w \in Threads : WF_vars(WorkerStep(w))

FairSpec == Spec /\ Fairness
------------------------------------------------------------------------------
(* Properties                                                              *)

\* Two worker threads never run the same job, which a resume launches a new one for,
\* as long as the clients keep to the manners of one console: requests about a job
\* one after the other, and no resume while the job is still pausing (resume accepts
\* it, batch.py:158, and does not ask whether the old thread has stopped).
OneWorker ==
  client = {} => \A j \in Jobs : Cardinality(WorkersOf(j)) <= 1

\* The persisted progress never runs ahead of the items: whatever crash or error
\* intervenes, at most as many samples are counted as are finished. Two threads of
\* one job would count a sample twice: the clients keep to the same manners.
ProgressNeverOverstated ==
  client = {} => \A j \in Jobs : Processed(row[j]) <= Cardinality(DoneItems(j))

\* Persisted counters never go back, over errors and restarts included, unless a
\* request read a row past the memory while another was at work on the job: it may
\* then put an old record back (batch.py:171-180).
ProgressNeverLost ==
  [][\A j \in Jobs :
       \/ "stale" \in client
       \/ row'[j] = NoRecord
       \/ /\ row'[j].succeeded >= row[j].succeeded
          /\ row'[j].failed >= row[j].failed]_vars

\* What the server answers from JOBS is what the table holds, over restarts that
\* empty JOBS included, unless a write to the table raised or a request read a row
\* while another was at work on the job.
CacheCoherent == \A j \in Jobs :
  Cached(j) /\ spent.faults = 0 /\ "stale" \notin client => cache[j] = row[j]

\* A job that says running has a thread, or a request about to launch one, or
\* lost its thread to an SQLite error.
RunningIsWorked == \A j \in Jobs :
  row[j].status = "running" /\ spent.faults = 0 =>
    \/ WorkersOf(j) # {}
    \/ \E h \in Handlers : req[h].job = j /\ req[h].pc # "idle"

\* A job that has started running stops by itself, is asked to pause or loses its
\* thread to an SQLite error.
JobSettles == \A j \in Jobs :
  row[j].status = "running" ~> row[j].status # "running" \/ spent.faults > 0

\* The promise of JobLedger: samples settle once, a job closes when all have, for
\* clients that keep to the manners of one console.
Ledger == INSTANCE JobLedger WITH
  phase <- [j \in Jobs |-> CASE row[j].status = "none" -> "none"
                             [] row[j].status = "completed" -> "closed"
                             [] OTHER -> "open"],
  outcome <- [j \in Jobs |-> [m \in Md5s |->
                IF item[j][m] \in {"pending", "processing"} THEN "open" ELSE item[j][m]]],
  binding <- client = {}
KeepsLedger == Ledger!Spec
==============================================================================
