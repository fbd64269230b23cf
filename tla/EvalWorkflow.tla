------------------------------ MODULE EvalWorkflow ------------------------------
(***************************************************************************)
(* The evaluation jobs of malapp/evaluation/workflows.py. A job is a JSON  *)
(* file that the server's requests and the job's worker process each read, *)
(* change and replace as a whole, with no lock. The worker runs the job's  *)
(* commands one after the other as child processes (run_evaluation.py,     *)
(* external). Requests start a job, cancel one or list them all; load_jobs *)
(* corrects a status by whether the processes live. On POSIX an ended      *)
(* worker stays a zombie until its server starts another process, and      *)
(* os.kill(pid, 0) finds zombies alive.                                    *)
(* Samples, suites, batches, logs, results and time stamps are left out.   *)
(***************************************************************************)
EXTENDS Naturals, FiniteSets

CONSTANTS Jobs, Handlers, NoJob,
          N,               \* commands of a job
          Platforms,       \* a subset of {"nt", "posix"}
          MaxOperators,    \* bounds: start and cancel requests served at once,
          MaxRequests,     \*   such requests in all, lists at once,
          MaxLists,
          MaxFaults        \*   errors and crashes of workers and restarts of the server

ASSUME WorkflowAssumption ==
  /\ NoJob \notin Jobs /\ N \in Nat \ {0}
  /\ Platforms \subseteq {"nt", "posix"}
  /\ {MaxOperators, MaxRequests, MaxLists, MaxFaults} \subseteq Nat

VARIABLES
  platform,
  file,      \* five_layer_jobs/<job>.json
  proc,      \* the worker process of each job
  worker,    \*   its place in worker_main, its command and its `job`
  child,     \* the command whose child process runs, 0 if none does
  ended,     \* the commands whose children ended well
  request,   \* the requests: place, operation, job and what each has read
  spent      \* what the bounds have used

vars == <<platform, file, proc, worker, child, ended, request, spent>>
------------------------------------------------------------------------------
Active == {"queued", "running", "cancelling"}
Final == {"completed", "failed", "cancelled"}

\* worker_pid is set or not; active_child_pid is the command of the child.
File == [status: Active \cup Final \cup {"absent"}, worker: BOOLEAN,
         child: 0..N, completed: 0..N]
NoFile == [status |-> "absent", worker |-> FALSE, child |-> 0, completed |-> 0]
Queued == [NoFile EXCEPT !.status = "queued"]

\* A zombie has ended; an orphan runs on after its server was restarted.
Running == {"alive", "orphan"}
ProcStates == {"none", "gone", "zombie"} \cup Running
WorkerPcs == {"boot", "bootWrite", "check", "quit", "announce", "spawn", "note", "wait",
              "append", "record", "complete", "failRead", "failWrite", "exit"}
RequestPcs == {"idle", "judge", "spawn", "reread", "setPid", "cancelling", "kill", "cancelled"}

TypeOK ==
  /\ platform \in Platforms
  /\ file \in [Jobs -> File]
  /\ proc \in [Jobs -> ProcStates]
  /\ worker \in [Jobs -> [pc: WorkerPcs, index: 1..N + 1, job: File]]
  /\ child \in [Jobs -> 0..N]
  /\ ended \in [Jobs -> SUBSET (1..N)]
  /\ request \in [Handlers -> [pc: RequestPcs, op: {"none", "start", "cancel", "list"},
                               job: Jobs \cup {NoJob}, read: [Jobs -> File],
                               todo: SUBSET Jobs, active: BOOLEAN]]
  /\ spent \in [requests: Nat, crashes: Nat, restarts: Nat]

NewWorker == [pc |-> "boot", index |-> 1, job |-> NoFile]
NoRequest == [pc |-> "idle", op |-> "none", job |-> NoJob,
              read |-> [j \in Jobs |-> NoFile], todo |-> {}, active |-> FALSE]

Init ==
  /\ platform \in Platforms
  /\ file = [j \in Jobs |-> NoFile]
  /\ proc = [j \in Jobs |-> "none"]
  /\ worker = [j \in Jobs |-> NewWorker]
  /\ child = [j \in Jobs |-> 0]
  /\ ended = [j \in Jobs |-> {}]
  /\ request = [h \in Handlers |-> NoRequest]
  /\ spent = [requests |-> 0, crashes |-> 0, restarts |-> 0]
------------------------------------------------------------------------------
(* worker_main *)

At(j, pc) == proc[j] \in Running /\ worker[j].pc = pc
Go(j, pc) == worker' = [worker EXCEPT ![j].pc = pc]
\* read_json into the worker's `job`; write_json of `content`, which becomes it.
Read(j, pc) == worker' = [worker EXCEPT ![j].pc = pc, ![j].job = file[j]]
Write(j, content, pc) ==
  /\ file' = [file EXCEPT ![j] = content]
  /\ worker' = [worker EXCEPT ![j].pc = pc, ![j].job = content]
others == <<platform, proc, child, ended, request, spent>>

Boot(j) == At(j, "boot") /\ Read(j, "bootWrite") /\ UNCHANGED <<file, others>>

BootWrite(j) ==
  /\ At(j, "bootWrite")
  /\ Write(j, [worker[j].job EXCEPT !.status = "running", !.worker = TRUE], "check")
  /\ UNCHANGED others

\* The head of the loop, which looks for a cancellation.
Check(j) ==
  /\ At(j, "check")
  /\ IF worker[j].index > N THEN Go(j, "complete")
     ELSE Read(j, IF file[j].status = "cancelling" THEN "quit" ELSE "announce")
  /\ UNCHANGED <<file, others>>

Announce(j) ==
  /\ At(j, "announce")
  /\ Write(j, worker[j].job, "spawn")
  /\ UNCHANGED others

Spawn(j) ==
  /\ At(j, "spawn")
  /\ child' = [child EXCEPT ![j] = worker[j].index]
  /\ worker' = [worker EXCEPT ![j].pc = "note", ![j].job.child = worker[j].index]
  /\ UNCHANGED <<platform, file, proc, ended, request, spent>>

Note(j) ==
  /\ At(j, "note")
  /\ Write(j, worker[j].job, "wait")
  /\ UNCHANGED others

\* process.wait, and the first of the two readings after it.
Wait(j) ==
  /\ At(j, "wait") /\ child[j] = 0
  /\ IF file[j].status \in {"cancelling", "cancelled"}
     THEN worker' = [worker EXCEPT ![j].pc = "quit", ![j].job = [file[j] EXCEPT !.child = 0]]
     ELSE Go(j, "append")
  /\ UNCHANGED <<file, others>>

Append(j) == At(j, "append") /\ Read(j, "record") /\ UNCHANGED <<file, others>>

\* The result is recorded; a failed command raises. Mutant: it does not raise.
Record_GoesOn(j) ==
  LET i == worker[j].index
      content == [worker[j].job EXCEPT !.child = 0, !.completed = i]
  IN /\ At(j, "record")
     /\ file' = [file EXCEPT ![j] = content]
     /\ worker' = [worker EXCEPT ![j] = [pc |-> "check", index |-> i + 1, job |-> content]]
     /\ UNCHANGED others

Record(j) ==
  LET i == worker[j].index
      content == [worker[j].job EXCEPT !.child = 0, !.completed = i]
  IN /\ At(j, "record")
     /\ file' = [file EXCEPT ![j] = content]
     /\ worker' = [worker EXCEPT ![j] =
          IF i \in ended[j] THEN [pc |-> "check", index |-> i + 1, job |-> content]
          ELSE [pc |-> "failRead", index |-> i, job |-> content]]
     /\ UNCHANGED others

Quit(j) ==
  /\ At(j, "quit")
  /\ Write(j, [worker[j].job EXCEPT !.status = "cancelled"], "exit")
  /\ UNCHANGED others

Complete(j) ==
  /\ At(j, "complete")
  /\ Write(j, [worker[j].job EXCEPT !.status = "completed"], "exit")
  /\ UNCHANGED others

FailRead(j) == At(j, "failRead") /\ Read(j, "failWrite") /\ UNCHANGED <<file, others>>

FailWrite(j) ==
  /\ At(j, "failWrite")
  /\ Write(j, [worker[j].job EXCEPT !.status = "failed"], "exit")
  /\ UNCHANGED others

\* The worker process ends; what is left of it.
Remains(j) == IF platform = "posix" /\ proc[j] = "alive" THEN "zombie" ELSE "gone"
Ends(j) ==
  /\ proc' = [proc EXCEPT ![j] = Remains(j)]
  /\ worker' = [worker EXCEPT ![j] = NewWorker]

Exit(j) == At(j, "exit") /\ Ends(j) /\ UNCHANGED <<platform, file, child, ended, request, spent>>

ChildEnds(j) ==
  /\ child[j] # 0
  /\ ended' = [ended EXCEPT ![j] = @ \cup {child[j]}] \/ UNCHANGED ended
  /\ child' = [child EXCEPT ![j] = 0]
  /\ UNCHANGED <<platform, file, proc, worker, request, spent>>

\* A read or write that raises: inside the try it fails the job.
Raise(j) ==
  /\ proc[j] \in Running
  /\ worker[j].pc \in {"announce", "spawn", "note", "record", "quit", "complete"}
  /\ spent.crashes + spent.restarts < MaxFaults
  /\ spent' = [spent EXCEPT !.crashes = @ + 1]
  /\ Go(j, "failRead")
  /\ UNCHANGED <<platform, file, proc, child, ended, request>>

Crash(j) ==
  /\ proc[j] \in Running /\ spent.crashes + spent.restarts < MaxFaults
  /\ spent' = [spent EXCEPT !.crashes = @ + 1]
  /\ Ends(j)
  /\ UNCHANGED <<platform, file, child, ended, request>>

WorkerStep(j) ==
  \/ Boot(j) \/ BootWrite(j) \/ Check(j) \/ Announce(j) \/ Spawn(j) \/ Note(j) \/ Wait(j)
  \/ Append(j) \/ Record(j) \/ Quit(j) \/ Complete(j) \/ FailRead(j) \/ FailWrite(j) \/ Exit(j)
------------------------------------------------------------------------------
(* load_jobs, start_workflow and cancel_workflow *)

Serving(ops) == {h \in Handlers : request[h].op \in ops}

\* A request arrives and reads its file or files. One of an operator, that is a
\* start or a cancel, is counted.
Arrive(h, op, j, pc, todo) ==
  /\ request[h].pc = "idle"
  /\ IF op = "list" THEN Cardinality(Serving({"list"})) < MaxLists
     ELSE Cardinality(Serving({"start", "cancel"})) < MaxOperators /\ spent.requests < MaxRequests
  /\ request' = [request EXCEPT ![h] =
       [pc |-> pc, op |-> op, job |-> j, todo |-> todo, active |-> FALSE,
        read |-> [i \in Jobs |-> IF i \in todo \cup {j} THEN file[i] ELSE NoFile]]]
  /\ spent' = [spent EXCEPT !.requests = IF op = "list" THEN @ ELSE @ + 1]
  /\ UNCHANGED <<platform, file, proc, worker, child, ended>>

Listed == {j \in Jobs : file[j].status # "absent"}
List(h) == Listed # {} /\ Arrive(h, "list", NoJob, "judge", Listed)
Start(h, j) ==
  /\ file[j].status = "absent" /\ \A g \in Handlers : request[g].job # j
  /\ Arrive(h, "start", j, "judge", Listed)

\* process_alive of the two pids that a job's file names.
WorkerAlive(j, f) == f.worker /\ proc[j] \in Running \cup {"zombie"}
ChildAlive(j, f) == f.child # 0 /\ child[j] = f.child
HasPid(f) == f.worker \/ f.child # 0

Corrected(j, f) ==
  IF f.status = "failed" /\ (WorkerAlive(j, f) \/ ChildAlive(j, f)) THEN "running"
  ELSE IF f.status \in Active /\ HasPid(f) /\ ~WorkerAlive(j, f) /\ ~ChildAlive(j, f)
  THEN "failed" ELSE f.status

\* load_jobs takes the jobs it has read one by one; a corrected one is written as
\* it was read. What a start needs of them is whether one is active.
Judge(h, j) ==
  LET f == request[h].read[j]
      corrected == [f EXCEPT !.status = Corrected(j, f)]
  IN /\ request[h].pc = "judge" /\ j \in request[h].todo
     /\ file' = IF corrected # f THEN [file EXCEPT ![j] = corrected] ELSE file
     /\ request' = [request EXCEPT ![h].read[j] = NoFile, ![h].todo = @ \ {j},
                                  ![h].active = request[h].active \/ corrected.status \in Active]
     /\ UNCHANGED <<platform, proc, worker, child, ended, spent>>

Answer(h) == request' = [request EXCEPT ![h] = NoRequest]
Continue(h, pc) == request' = [request EXCEPT ![h].pc = pc]
Judged(h, op) == request[h].pc = "judge" /\ request[h].op = op /\ request[h].todo = {}

ListAnswer(h) == Judged(h, "list") /\ Answer(h) /\ UNCHANGED <<platform, file, proc, worker, child, ended, spent>>

\* Mutant: a start does not look for an active job.
ActiveJob_Ignored(h) == FALSE
ActiveJob(h) == request[h].active

\* A start is refused while a job is active; else the job's file is written.
StartDecides(h) ==
  /\ Judged(h, "start")
  /\ IF ActiveJob(h) THEN Answer(h) /\ UNCHANGED file
     ELSE file' = [file EXCEPT ![request[h].job] = Queued] /\ Continue(h, "spawn")
  /\ UNCHANGED <<platform, proc, worker, child, ended, spent>>

\* Popen reaps the server's zombies.
StartSpawn(h) ==
  /\ request[h].pc = "spawn"
  /\ proc' = [j \in Jobs |-> IF j = request[h].job THEN "alive"
                             ELSE IF proc[j] = "zombie" THEN "gone" ELSE proc[j]]
  /\ Continue(h, "reread")
  /\ UNCHANGED <<platform, file, worker, child, ended, spent>>

StartReread(h) ==
  /\ request[h].pc = "reread"
  /\ request' = [request EXCEPT ![h].pc = "setPid", ![h].read[request[h].job] = file[request[h].job]]
  /\ UNCHANGED <<platform, file, proc, worker, child, ended, spent>>

StartSetPid(h) ==
  LET f == request[h].read[request[h].job] IN
  /\ request[h].pc = "setPid"
  /\ file' = [file EXCEPT ![request[h].job] =
       [f EXCEPT !.worker = TRUE, !.status = IF f.status \in Final THEN f.status ELSE "running"]]
  /\ Answer(h)
  /\ UNCHANGED <<platform, proc, worker, child, ended, spent>>

\* cancel_workflow: a finished job whose processes are gone is left alone.
Cancel(h, j) ==
  /\ file[j].status # "absent"
  /\ file[j].status \in Final => WorkerAlive(j, file[j]) \/ ChildAlive(j, file[j])
  /\ Arrive(h, "cancel", j, "cancelling", {})

CancelWrites(h, pc, status, next) ==
  LET j == request[h].job
      f == [request[h].read[j] EXCEPT !.status = status]
  IN /\ request[h].pc = pc
     /\ file' = [file EXCEPT ![j] = f]
     /\ request' = [request EXCEPT ![h] = IF next = "idle" THEN NoRequest
                                         ELSE [@ EXCEPT !.pc = next, !.read[j] = f]]
     /\ UNCHANGED <<platform, proc, worker, child, ended, spent>>

CancelBegins(h) == CancelWrites(h, "cancelling", "cancelling", "kill")

\* Mutant: the job is marked, its processes go on.
CancelKills_Nothing(h) ==
  /\ request[h].pc = "kill"
  /\ Continue(h, "cancelled")
  /\ UNCHANGED <<platform, file, proc, worker, child, ended, spent>>

\* taskkill ends a living worker and its child; os.kill ends the worker alone.
CancelKills(h) ==
  LET j == request[h].job
      hit == request[h].read[j].worker /\ proc[j] \in Running
  IN /\ request[h].pc = "kill"
     /\ IF hit THEN Ends(j) ELSE UNCHANGED <<proc, worker>>
     /\ child' = IF hit /\ platform = "nt" THEN [child EXCEPT ![j] = 0] ELSE child
     /\ Continue(h, "cancelled")
     /\ UNCHANGED <<platform, file, ended, spent>>

CancelEnds(h) == CancelWrites(h, "cancelled", "cancelled", "idle")
------------------------------------------------------------------------------
\* The server starts another process (git), which reaps its zombies; the server
\* is restarted, which leaves the workers to init.
Reap ==
  /\ \E j \in Jobs : proc[j] = "zombie"
  /\ proc' = [j \in Jobs |-> IF proc[j] = "zombie" THEN "gone" ELSE proc[j]]
  /\ UNCHANGED <<platform, file, worker, child, ended, request, spent>>

ServerRestart ==
  /\ spent.crashes + spent.restarts < MaxFaults
  /\ spent' = [spent EXCEPT !.restarts = @ + 1]
  /\ request' = [h \in Handlers |-> NoRequest]
  /\ proc' = [j \in Jobs |-> CASE proc[j] = "zombie" -> "gone"
                               [] proc[j] = "alive" -> "orphan"
                               [] OTHER -> proc[j]]
  /\ UNCHANGED <<platform, file, worker, child, ended>>

RequestStep(h) ==
  \/ \E j \in Jobs : Judge(h, j)
  \/ ListAnswer(h) \/ StartDecides(h) \/ StartSpawn(h) \/ StartReread(h) \/ StartSetPid(h)
  \/ CancelBegins(h) \/ CancelKills(h) \/ CancelEnds(h)

Next ==
  \/ \E j \in Jobs : WorkerStep(j) \/ ChildEnds(j) \/ Raise(j) \/ Crash(j)
  \/ \E h \in Handlers : RequestStep(h) \/ List(h) \/ \E j \in Jobs : Start(h, j) \/ Cancel(h, j)
  \/ Reap \/ ServerRestart

Spec == Init /\ [][Next]_vars
------------------------------------------------------------------------------
\* The worker of j has not written its last status.
Live(j) == proc[j] \in Running /\ worker[j].pc # "exit"

\* A job is listed as completed only when each of its commands ended well, and
\* nothing of it runs any more.
CompletedRanAll == \A j \in Jobs : file[j].status = "completed" =>
  ended[j] = 1..N /\ child[j] = 0 /\ ~Live(j)

\* docs/evaluation/five-layer-guide.md:20: the jobs run one at a time.
OneExperiment == Cardinality({j \in Jobs : child[j] # 0}) <= 1

\* On Windows, with one operator and no crash, that holds: a start, a cancel and
\* the lists that run meanwhile never lead to two commands at once.
OneExperimentOnNt ==
  platform = "nt" /\ spent.crashes = 0 /\ spent.restarts = 0 => OneExperiment

\* Once a job is cancelled no further command of it is started.
CancelStops == [][spent.restarts = 0 =>
  \A j \in Jobs : file[j].status = "cancelled" => child'[j] \in {0, child[j]}]_vars
==============================================================================
