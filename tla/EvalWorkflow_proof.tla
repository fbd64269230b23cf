---------------------------- MODULE EvalWorkflow_proof ----------------------------
(***************************************************************************)
(* What holds of the evaluation jobs for any number of jobs, commands,     *)
(* handlers, faults and requests: a job that says completed has run all of *)
(* its commands (CompletedMeansRun); and while one operator's requests     *)
(* follow each other and the server is not restarted, a cancelled job      *)
(* starts nothing (CancelledStops), one worker lives at a time             *)
(* (OneWorkerLives), and on Windows, without a crash, one command runs     *)
(* (OneCommandRuns).                                                       *)
(*                                                                         *)
(* The file of a job is written back by whoever has read it, so that no    *)
(* status in it says by itself what runs.  What carries the proofs is that *)
(* some facts cannot be undone: a job whose worker has written its last    *)
(* status is Stopped for ever, and one that is completed is Done for ever. *)
(* Every copy of the file that says so, in a request, in the worker or on  *)
(* the disk, may then be as old as it likes (Told, LastWord).                 *)
(***************************************************************************)
EXTENDS EvalWorkflow, TLAPS, FiniteSetTheorems

Workers == [pc: WorkerPcs, index: 1..N + 1, job: File]
Requests == [pc: RequestPcs, op: {"none", "start", "cancel", "list"},
             job: Jobs \cup {NoJob}, read: [Jobs -> File], todo: SUBSET Jobs, active: BOOLEAN]

Runs(j) == proc[j] \in Running
Stopped(j) == proc[j] # "none" /\ ~Live(j)
Done(j) == Stopped(j) /\ ended[j] = 1..N /\ child[j] = 0

\* Where a request can be: what it is, and that a start's job has not begun before its
\* worker is spawned.
InFlight(h, j) == request[h].op = "start" /\ request[h].job = j
Requesting ==
  /\ \A h \in Handlers :
       /\ request[h].pc = "idle" <=> request[h].op = "none"
       /\ request[h].op = "list" => request[h].pc = "judge"
       /\ request[h].op = "start" => /\ request[h].pc \in {"judge", "spawn", "reread", "setPid"}
                                     /\ request[h].job \in Jobs
       /\ request[h].op = "cancel" => /\ request[h].pc \in {"cancelling", "kill", "cancelled"}
                                      /\ request[h].job \in Jobs
  /\ \A h \in Handlers, j \in Jobs : InFlight(h, j) =>
       /\ request[h].pc = "judge" => file[j].status = "absent"
       /\ request[h].pc \in {"judge", "spawn"} => proc[j] = "none"
       /\ request[h].pc # "judge" => file[j].status # "absent"
       /\ request[h].pc \in {"reread", "setPid"} => proc[j] # "none"
  /\ \A h \in Handlers, j \in Jobs :
       request[h].op = "cancel" /\ request[h].job = j => file[j].status # "absent"
  /\ \A g, h \in Handlers : \A j \in Jobs : InFlight(g, j) /\ InFlight(h, j) => g = h

\* Where a worker can be: the commands before its index ended well, and between two of
\* them no child runs.
Working == \A j \in Jobs :
  /\ proc[j] = "none" => worker[j] = NewWorker /\ child[j] = 0
  /\ proc[j] # "none" => file[j].status # "absent"
  /\ ~Runs(j) => worker[j] = NewWorker
  /\ Runs(j) =>
       /\ worker[j].pc # "boot" => worker[j].job.status # "absent"
       /\ worker[j].pc \notin {"exit", "quit", "failRead", "failWrite"} =>
            \A i \in 1..N : i < worker[j].index => i \in ended[j]
       /\ worker[j].pc \in {"boot", "bootWrite", "check", "announce", "spawn", "append",
                            "record", "complete"} => child[j] = 0
       /\ worker[j].pc \in {"announce", "spawn", "note", "wait", "append", "record"} =>
            worker[j].index <= N
       /\ worker[j].pc = "complete" => worker[j].index = N + 1

\* What some copy of the job's file says.
Copies(j) == {file[j], worker[j].job} \cup {request[h].read[j] : h \in Handlers}
Begun == \A j \in Jobs : \A f \in Copies(j) :
  /\ f.status # "absent" => file[j].status # "absent"
  /\ HasPid(f) => proc[j] # "none"
Told == \A j \in Jobs : \A f \in Copies(j) : f.status = "completed" => Done(j)

Inv == TypeOK /\ Requesting /\ Working /\ Begun /\ Told
------------------------------------------------------------------------------
Serial == MaxOperators = 1

\* One operator's request at a time.
InTurn == \A g, h \in Handlers :
  {request[g].op, request[h].op} \subseteq {"start", "cancel"} => g = h

\* A copy of a file with a child, or with a last status, names the worker too.
Named(f) == f.child # 0 \/ f.status \in Final => f.worker
Starting(j) == \E h \in Handlers : InFlight(h, j) /\ request[h].pc # "judge"
Pids == \A j \in Jobs :
  /\ \A f \in Copies(j) : Named(f)
  /\ file[j].status # "absent" /\ ~Starting(j) => file[j].worker
  /\ Runs(j) /\ worker[j].pc \notin {"boot", "bootWrite"} =>
       file[j].worker /\ worker[j].job.worker
  /\ \A h \in Handlers : request[h].op = "cancel" /\ request[h].job = j => request[h].read[j].worker

\* A last status in any copy of the file is the end of the worker.
LastWord == \A j \in Jobs :
  /\ \A f \in Copies(j) : f.status \in Final => Stopped(j)
  /\ \A h \in Handlers : request[h].job = j /\ request[h].pc = "cancelled" => Stopped(j)

\* A start that may still be granted knows every job that lives.
Known(h, i) ==
  request[h].active \/ (i \in request[h].todo /\ request[h].read[i].status \in Active)
OneLive ==
  /\ \A i, j \in Jobs : Live(i) /\ Live(j) => i = j
  /\ \A h \in Handlers : request[h].op = "start" =>
       /\ request[h].pc = "judge" => \A i \in Jobs : Live(i) => Known(h, i)
       /\ request[h].pc = "spawn" => \A i \in Jobs : ~Live(i)

\* On Windows a command runs only while its worker is in its loop.
Attended == platform = "nt" /\ spent.crashes = 0 =>
  \A j \in Jobs : child[j] # 0 => Runs(j) /\ worker[j].pc \in {"note", "wait"}

Steady == InTurn /\ (spent.restarts = 0 => Pids /\ LastWord /\ OneLive /\ Attended)
------------------------------------------------------------------------------
(* What the steps do to the one job or the one request they are about.     *)

Placed(j, p, n, job) ==
  /\ worker' \in [Jobs -> Workers]
  /\ worker'[j].pc = p /\ worker'[j].index = n /\ worker'[j].job = job
  /\ \A i \in Jobs \ {j} : worker'[i] = worker[i]
Written(j, f) ==
  /\ file' \in [Jobs -> File] /\ file'[j] = f
  /\ \A i \in Jobs \ {j} : file'[i] = file[i]
WorkerMoves(j, p, n, job, f, c) ==
  /\ Placed(j, p, n, job) /\ Written(j, f)
  /\ child' \in [Jobs -> 0..N] /\ child'[j] = c
  /\ \A i \in Jobs \ {j} : child'[i] = child[i]
  /\ UNCHANGED <<platform, proc, ended, request, spent>>

SameFile(f, g) == f.status = g.status /\ f.worker = g.worker /\ f.child = g.child

\* The worker's places, one after the other.
Moves(j, p, n, job, f, c) ==
  LET pc == worker[j].pc
      at == worker[j].index
      old == worker[j].job
      now == file[j]
  IN
  \/ pc = "boot" /\ p = "bootWrite" /\ n = at /\ job = now /\ f = now /\ c = child[j]
  \/ /\ pc = "bootWrite" /\ p = "check" /\ n = at /\ job = f /\ c = child[j]
     /\ f.status = "running" /\ f.worker /\ f.child = old.child
  \/ /\ pc = "check" /\ n = at /\ f = now /\ c = child[j]
     /\ \/ at = N + 1 /\ p = "complete" /\ job = old
        \/ at <= N /\ p = "quit" /\ job = now
        \/ at <= N /\ p = "announce" /\ job = now
  \/ pc = "announce" /\ p = "spawn" /\ n = at /\ job = old /\ f = old /\ c = child[j]
  \/ /\ pc = "spawn" /\ p = "note" /\ n = at /\ c = at /\ f = now
     /\ job.status = old.status /\ job.worker = old.worker
  \/ pc = "note" /\ p = "wait" /\ n = at /\ job = old /\ f = old /\ c = child[j]
  \/ /\ pc = "wait" /\ n = at /\ child[j] = 0 /\ c = 0 /\ f = now
     /\ \/ /\ p = "quit" /\ job.status = now.status /\ job.worker = now.worker /\ job.child = 0
           /\ now.status \in {"cancelling", "cancelled"}
        \/ p = "append" /\ job = old
  \/ pc = "append" /\ p = "record" /\ n = at /\ job = now /\ f = now /\ c = child[j]
  \/ /\ pc = "record" /\ job = f /\ c = child[j]
     /\ f.status = old.status /\ f.worker = old.worker /\ f.child = 0
     /\ \/ at \in ended[j] /\ p = "check" /\ n = at + 1
        \/ p = "failRead" /\ n = at
  \/ pc = "failRead" /\ p = "failWrite" /\ n = at /\ job = now /\ f = now /\ c = child[j]
  \/ /\ p = "exit" /\ n = at /\ job = f /\ c = child[j]
     /\ f.worker = old.worker /\ f.child = old.child
     /\ \/ pc = "quit" /\ f.status = "cancelled"
        \/ pc = "complete" /\ f.status = "completed"
        \/ pc = "failWrite" /\ f.status = "failed"

LEMMA Shapes ==
  ASSUME TypeOK, NEW j \in Jobs
  PROVE  /\ worker \in [Jobs -> Workers] /\ worker[j] \in Workers
         /\ file \in [Jobs -> File] /\ file[j] \in File /\ worker[j].job \in File
         /\ worker[j].pc \in WorkerPcs /\ worker[j].index \in 1..N + 1
         /\ child \in [Jobs -> 0..N] /\ child[j] \in 0..N
         /\ proc \in [Jobs -> ProcStates] /\ proc[j] \in ProcStates
         /\ ended \in [Jobs -> SUBSET (1..N)] /\ ended[j] \in SUBSET (1..N)
         /\ request \in [Handlers -> Requests]
         /\ \A h \in Handlers : request[h] \in Requests /\ request[h].read[j] \in File
<1>1. worker \in [Jobs -> Workers] /\ request \in [Handlers -> Requests]
  BY DEF TypeOK, Workers, Requests
<1>2. worker[j] \in Workers /\ \A h \in Handlers : request[h] \in Requests
  BY <1>1
<1>3. /\ worker[j].job \in File /\ worker[j].pc \in WorkerPcs /\ worker[j].index \in 1..N + 1
      /\ \A h \in Handlers : request[h].read[j] \in File
  BY <1>2 DEF Workers, Requests
<1>4. /\ file \in [Jobs -> File] /\ child \in [Jobs -> 0..N] /\ proc \in [Jobs -> ProcStates]
      /\ ended \in [Jobs -> SUBSET (1..N)]
  BY DEF TypeOK
<1> QED BY <1>1, <1>2, <1>3, <1>4

LEMMA WorkerTable ==
  ASSUME TypeOK, Working, NEW j \in Jobs, WorkerStep(j), ~Exit(j)
  PROVE  /\ Runs(j)
         /\ \E p \in WorkerPcs, n \in 1..N + 1, job \in File, f \in File, c \in 0..N :
              WorkerMoves(j, p, n, job, f, c) /\ Moves(j, p, n, job, f, c)
<1>0. /\ N \in Nat /\ {"running", "cancelled", "completed", "failed"} \subseteq Active \cup Final
      /\ file = [file EXCEPT ![j] = file[j]] /\ child = [child EXCEPT ![j] = child[j]]
  BY Shapes, WorkflowAssumption DEF Active, Final
<1> DEFINE Goal == /\ Runs(j)
                   /\ \E p \in WorkerPcs, n \in 1..N + 1, job \in File, f \in File, c \in 0..N :
                        WorkerMoves(j, p, n, job, f, c) /\ Moves(j, p, n, job, f, c)
<1> SUFFICES Goal OBVIOUS
<1> PICK now \in File : now = file[j] BY Shapes
<1> PICK old \in File : old = worker[j].job BY Shapes
<1> PICK at \in 1..N + 1 : at = worker[j].index BY Shapes
<1> PICK kid \in 0..N : kid = child[j] BY Shapes
<1>1. ASSUME NEW p \in WorkerPcs, NEW n \in 1..N + 1, NEW job \in File, NEW f \in File,
             NEW c \in 0..N, WorkerMoves(j, p, n, job, f, c), Moves(j, p, n, job, f, c), Runs(j)
      PROVE  Goal
  BY <1>1
<1> HIDE DEF Goal
<1>2. CASE Boot(j)
  <2>1. worker[j].pc = "boot" /\ Runs(j)
    BY <1>2 DEF Boot, At, Runs
  <2>2. WorkerMoves(j, "bootWrite", at, now, now, kid)
    BY <1>0, <1>2, Shapes DEF Placed, Written, Workers, WorkerPcs, Boot, Read, WorkerMoves, others
  <2>3. Moves(j, "bootWrite", at, now, now, kid) /\ "bootWrite" \in WorkerPcs
    BY <2>1 DEF Moves, WorkerPcs
  <2> QED BY <1>1, <2>1, <2>2, <2>3
<1>3. CASE BootWrite(j)
  <2>1. worker[j].pc = "bootWrite" /\ Runs(j)
    BY <1>3 DEF BootWrite, At, Runs
  <2>a. PICK f : f = [old EXCEPT !.status = "running", !.worker = TRUE]
    OBVIOUS
  <2>2. f \in File /\ f.status = "running" /\ f.worker /\ f.child = old.child
    BY <1>0, <2>a DEF File
  <2>3. WorkerMoves(j, "check", at, f, f, kid)
    BY <1>0, <1>3, <2>a, <2>2, Shapes DEF Placed, Written, Workers, WorkerPcs, BootWrite, Write, WorkerMoves, others
  <2>4. Moves(j, "check", at, f, f, kid) /\ "check" \in WorkerPcs
    BY <2>1, <2>2 DEF Moves, WorkerPcs
  <2> QED BY <1>1, <2>1, <2>2, <2>3, <2>4
<1>4. CASE Check(j)
  <2>1. worker[j].pc = "check" /\ Runs(j)
    BY <1>4 DEF Check, At, Runs
  <2>2. CASE at > N
    <3>a. worker' = [worker EXCEPT ![j].pc = "complete"] /\ UNCHANGED <<file, others>>
      BY <1>4, <2>2 DEF Check, Go
    <3>1. WorkerMoves(j, "complete", at, old, now, kid)
      BY <1>0, <3>a, Shapes DEF Placed, Written, Workers, WorkerPcs, WorkerMoves, others
    <3>2. Moves(j, "complete", at, old, now, kid) /\ "complete" \in WorkerPcs
      BY <1>0, <2>1, <2>2 DEF Moves, WorkerPcs
    <3> QED BY <1>1, <2>1, <3>1, <3>2
  <2>3. CASE ~(at > N)
    <3>a. PICK p \in {"quit", "announce"} :
            /\ worker' = [worker EXCEPT ![j].pc = p, ![j].job = now]
            /\ UNCHANGED <<file, others>>
      BY <1>4, <2>3 DEF Check, Read
    <3>1. WorkerMoves(j, p, at, now, now, kid)
      BY <1>0, <3>a, Shapes DEF Placed, Written, Workers, WorkerPcs, WorkerMoves, others
    <3>2. Moves(j, p, at, now, now, kid) /\ p \in WorkerPcs
      BY <1>0, <2>1, <2>3 DEF Moves, WorkerPcs
    <3> QED BY <1>1, <2>1, <3>1, <3>2
  <2> QED BY <2>2, <2>3
<1>5. CASE Announce(j) \/ Note(j)
  <2>1. PICK p \in {"spawn", "wait"} :
          /\ worker[j].pc = (IF p = "spawn" THEN "announce" ELSE "note") /\ Runs(j)
          /\ Write(j, worker[j].job, p) /\ UNCHANGED others
    BY <1>5 DEF Announce, Note, At, Runs
  <2>2. WorkerMoves(j, p, at, old, old, kid)
    BY <1>0, <2>1, Shapes DEF Placed, Written, Workers, WorkerPcs, Write, WorkerMoves, others
  <2>3. Moves(j, p, at, old, old, kid) /\ p \in WorkerPcs
    BY <2>1 DEF Moves, WorkerPcs
  <2> QED BY <1>1, <2>1, <2>2, <2>3
<1>6. CASE Spawn(j)
  <2>1. worker[j].pc = "spawn" /\ Runs(j)
    BY <1>6 DEF Spawn, At, Runs
  <2>2. at \in 0..N
    BY <2>1, <1>0 DEF Working
  <2>a. PICK job : job = [old EXCEPT !.child = at]
    OBVIOUS
  <2>3. job \in File /\ job.status = old.status /\ job.worker = old.worker
    BY <1>0, <2>2, <2>a DEF File
  <2>4. Placed(j, "note", at, job)
    <3>1. worker \in [Jobs -> Workers] /\ worker[j] \in Workers
      BY Shapes
    <3>2. worker' = [worker EXCEPT ![j].pc = "note", ![j].job.child = at]
      BY <1>6 DEF Spawn
    <3> QED BY <2>2, <2>a, <2>3, <3>1, <3>2 DEF Placed, Workers, WorkerPcs
  <2>5. WorkerMoves(j, "note", at, job, now, at)
    BY <1>0, <1>6, <2>2, <2>4, Shapes DEF Spawn, WorkerMoves, Written
  <2>6. Moves(j, "note", at, job, now, at) /\ "note" \in WorkerPcs
    BY <2>1, <2>3 DEF Moves, WorkerPcs
  <2> QED BY <1>1, <2>1, <2>2, <2>3, <2>5, <2>6
<1>7. CASE Wait(j)
  <2>1. worker[j].pc = "wait" /\ Runs(j) /\ child[j] = 0
    BY <1>7 DEF Wait, At, Runs
  <2>2. CASE now.status \in {"cancelling", "cancelled"}
    <3>a. PICK job : job = [now EXCEPT !.child = 0]
      OBVIOUS
    <3>1. /\ job \in File /\ job.child = 0
          /\ job.status = now.status /\ job.worker = now.worker
      BY <1>0, <3>a DEF File
    <3>b. /\ worker' = [worker EXCEPT ![j].pc = "quit", ![j].job = job]
          /\ UNCHANGED <<file, others>>
      BY <1>7, <2>2, <3>a DEF Wait
    <3>2. WorkerMoves(j, "quit", at, job, now, kid)
      BY <1>0, <3>1, <3>b, Shapes DEF Placed, Written, Workers, WorkerPcs, WorkerMoves, others
    <3>3. Moves(j, "quit", at, job, now, kid) /\ "quit" \in WorkerPcs
      BY <2>1, <2>2, <3>1 DEF Moves, WorkerPcs
    <3> QED BY <1>1, <2>1, <3>1, <3>2, <3>3
  <2>3. CASE now.status \notin {"cancelling", "cancelled"}
    <3>1. WorkerMoves(j, "append", at, old, now, kid)
      BY <1>0, <1>7, <2>3, Shapes DEF Placed, Written, Workers, WorkerPcs, Wait, Go, WorkerMoves, others
    <3>2. Moves(j, "append", at, old, now, kid) /\ "append" \in WorkerPcs
      BY <2>1 DEF Moves, WorkerPcs
    <3> QED BY <1>1, <2>1, <3>1, <3>2
  <2> QED BY <2>2, <2>3
<1>8. CASE Append(j) \/ FailRead(j)
  <2>1. PICK p \in {"record", "failWrite"} :
          /\ worker[j].pc = (IF p = "record" THEN "append" ELSE "failRead") /\ Runs(j)
          /\ Read(j, p) /\ UNCHANGED <<file, others>>
    BY <1>8 DEF Append, FailRead, At, Runs
  <2>2. WorkerMoves(j, p, at, now, now, kid)
    BY <1>0, <2>1, Shapes DEF Placed, Written, Workers, WorkerPcs, Read, WorkerMoves, others
  <2>3. Moves(j, p, at, now, now, kid) /\ p \in WorkerPcs
    BY <2>1 DEF Moves, WorkerPcs
  <2> QED BY <1>1, <2>1, <2>2, <2>3
<1>9. CASE Record(j)
  <2>1. worker[j].pc = "record" /\ Runs(j)
    BY <1>9 DEF Record, At, Runs
  <2>2. at \in 0..N
    BY <2>1, <1>0 DEF Working
  <2>a. PICK f : f = [old EXCEPT !.child = 0, !.completed = at]
    OBVIOUS
  <2>3. f \in File /\ f.status = old.status /\ f.worker = old.worker /\ f.child = 0
    <3>1. PICK w \in BOOLEAN, t \in Active \cup Final \cup {"absent"}, c \in 0..N, d \in 0..N :
            old = [status |-> t, worker |-> w, child |-> c, completed |-> d]
      BY DEF File
    <3>2. PICK g : g = [old EXCEPT !.child = 0]
      OBVIOUS
    <3>3. g = [status |-> t, worker |-> w, child |-> 0, completed |-> d]
      BY <3>1, <3>2
    <3>4. [g EXCEPT !.completed = at] = [status |-> t, worker |-> w, child |-> 0, completed |-> at]
      BY <3>3
    <3>5. [old EXCEPT !.child = 0, !.completed = at] = [g EXCEPT !.completed = at]
      BY ONLY <3>2
    <3>6. [status |-> t, worker |-> w, child |-> 0, completed |-> at] \in File
      BY <1>0, <2>2 DEF File
    <3> QED BY <2>a, <3>1, <3>4, <3>5, <3>6
  <2>4. CASE at \in ended[j]
    <3>a. /\ worker' = [worker EXCEPT ![j] = [pc |-> "check", index |-> at + 1, job |-> f]]
          /\ file' = [file EXCEPT ![j] = f] /\ UNCHANGED others
      BY <1>9, <2>a, <2>4 DEF Record
    <3>1. WorkerMoves(j, "check", at + 1, f, f, kid)
      BY <1>0, <2>2, <2>3, <3>a, Shapes DEF Placed, Written, Workers, WorkerPcs, WorkerMoves, others
    <3>2. Moves(j, "check", at + 1, f, f, kid) /\ "check" \in WorkerPcs /\ at + 1 \in 1..N + 1
      BY <1>0, <2>1, <2>2, <2>3, <2>4 DEF Moves, WorkerPcs
    <3> QED BY <1>1, <2>1, <2>3, <3>1, <3>2
  <2>5. CASE at \notin ended[j]
    <3>a. /\ worker' = [worker EXCEPT ![j] = [pc |-> "failRead", index |-> at, job |-> f]]
          /\ file' = [file EXCEPT ![j] = f] /\ UNCHANGED others
      BY <1>9, <2>a, <2>5 DEF Record
    <3>1. WorkerMoves(j, "failRead", at, f, f, kid)
      BY <1>0, <2>2, <2>3, <3>a, Shapes DEF Placed, Written, Workers, WorkerPcs, WorkerMoves, others
    <3>2. Moves(j, "failRead", at, f, f, kid) /\ "failRead" \in WorkerPcs
      BY <2>1, <2>3 DEF Moves, WorkerPcs
    <3> QED BY <1>1, <2>1, <2>3, <3>1, <3>2
  <2> QED BY <2>4, <2>5
<1>10. CASE Quit(j) \/ Complete(j) \/ FailWrite(j)
  <2>1. PICK s \in {"cancelled", "completed", "failed"} :
          /\ worker[j].pc = (IF s = "cancelled" THEN "quit"
                             ELSE IF s = "completed" THEN "complete" ELSE "failWrite") /\ Runs(j)
          /\ Write(j, [worker[j].job EXCEPT !.status = s], "exit") /\ UNCHANGED others
    BY <1>10 DEF Quit, Complete, FailWrite, At, Runs
  <2>a. PICK f : f = [old EXCEPT !.status = s]
    OBVIOUS
  <2>2. f \in File /\ f.status = s /\ f.worker = old.worker /\ f.child = old.child
    BY <1>0, <2>a DEF File
  <2>3. WorkerMoves(j, "exit", at, f, f, kid)
    BY <1>0, <2>1, <2>a, <2>2, Shapes DEF Placed, Written, Workers, WorkerPcs, Write, WorkerMoves, others
  <2>4. Moves(j, "exit", at, f, f, kid) /\ "exit" \in WorkerPcs
    BY <2>1, <2>2 DEF Moves, WorkerPcs
  <2> QED BY <1>1, <2>1, <2>2, <2>3, <2>4
<1> QED BY <1>2, <1>3, <1>4, <1>5, <1>6, <1>7, <1>8, <1>9, <1>10 DEF WorkerStep
------------------------------------------------------------------------------
(* What the requests do.                                                   *)

Asked(h) ==
  /\ request' \in [Handlers -> Requests]
  /\ \A g \in Handlers \ {h} : request'[g] = request[g]
Keeps(h) ==
  /\ Asked(h)
  /\ request'[h].op = request[h].op /\ request'[h].job = request[h].job
GoesTo(h, pc) ==
  /\ Keeps(h) /\ request'[h].pc = pc /\ request'[h].read = request[h].read
  /\ request'[h].todo = request[h].todo /\ request'[h].active = request[h].active
Leaves(h) == Asked(h) /\ request'[h] = NoRequest

Arrives(h, op, j, pc, todo) ==
  /\ request[h].pc = "idle" /\ Asked(h)
  /\ request'[h].pc = pc /\ request'[h].op = op /\ request'[h].job = j
  /\ request'[h].todo = todo /\ request'[h].active = FALSE
  /\ \A i \in Jobs : request'[h].read[i] = IF i \in todo \cup {j} THEN file[i] ELSE NoFile
  /\ op # "list" => Cardinality(Serving({"start", "cancel"})) < MaxOperators
  /\ spent' \in [requests: Nat, crashes: Nat, restarts: Nat]
  /\ spent'.crashes = spent.crashes /\ spent'.restarts = spent.restarts
  /\ UNCHANGED <<platform, file, proc, worker, child, ended>>

LEMMA NoRequestIs ==
  /\ NoFile \in File /\ NoFile.status = "absent" /\ ~NoFile.worker /\ NoFile.child = 0
  /\ Queued \in File /\ Queued.status = "queued" /\ ~Queued.worker /\ Queued.child = 0
  /\ NoRequest \in Requests /\ NoRequest.pc = "idle" /\ NoRequest.op = "none"
  /\ NoRequest.job = NoJob /\ NoRequest.todo = {} /\ NoRequest.active = FALSE
  /\ \A i \in Jobs : NoRequest.read[i] = NoFile
  /\ NewWorker \in Workers /\ NewWorker.pc = "boot" /\ NewWorker.index = 1 /\ NewWorker.job = NoFile
<1>1. N \in Nat /\ 0 \in 0..N /\ 1 \in 1..N + 1
  BY WorkflowAssumption
<1>2. NoFile \in File /\ NoFile.status = "absent" /\ ~NoFile.worker /\ NoFile.child = 0
  BY <1>1 DEF NoFile, File
<1>3. Queued \in File /\ Queued.status = "queued" /\ ~Queued.worker /\ Queued.child = 0
  BY <1>1 DEF NoFile, Queued, File, Active
<1>4. /\ NoRequest \in Requests /\ NoRequest.pc = "idle" /\ NoRequest.op = "none"
      /\ NoRequest.job = NoJob /\ NoRequest.todo = {} /\ NoRequest.active = FALSE
      /\ \A i \in Jobs : NoRequest.read[i] = NoFile
  BY <1>2 DEF NoRequest, Requests, RequestPcs
<1>5. NewWorker \in Workers /\ NewWorker.pc = "boot" /\ NewWorker.index = 1 /\ NewWorker.job = NoFile
  BY <1>1, <1>2 DEF NewWorker, Workers, WorkerPcs
<1> QED BY <1>2, <1>3, <1>4, <1>5

LEMMA ArriveTable ==
  ASSUME TypeOK, NEW h \in Handlers, NEW op \in {"list", "start", "cancel"},
         NEW j \in Jobs \cup {NoJob}, NEW pc \in RequestPcs, NEW todo \in SUBSET Jobs,
         Arrive(h, op, j, pc, todo)
  PROVE  Arrives(h, op, j, pc, todo)
<1>1. /\ request \in [Handlers -> Requests] /\ file \in [Jobs -> File]
      /\ spent \in [requests: Nat, crashes: Nat, restarts: Nat]
  BY DEF TypeOK, Requests
<1>2. PICK read \in [Jobs -> File] :
        read = [i \in Jobs |-> IF i \in todo \cup {j} THEN file[i] ELSE NoFile]
  BY <1>1, NoRequestIs
<1>3. PICK r \in Requests : r = [pc |-> pc, op |-> op, job |-> j, todo |-> todo, active |-> FALSE,
                                 read |-> read]
  BY DEF Requests
<1>4. request' = [request EXCEPT ![h] = r]
  BY <1>2, <1>3 DEF Arrive
<1>5. Asked(h) /\ request'[h] = r
  BY <1>1, <1>4 DEF Asked
<1>6. /\ spent' \in [requests: Nat, crashes: Nat, restarts: Nat]
      /\ spent'.crashes = spent.crashes /\ spent'.restarts = spent.restarts
  BY <1>1 DEF Arrive
<1> QED BY <1>2, <1>3, <1>5, <1>6 DEF Arrive, Arrives

LEMMA ContinueTable ==
  ASSUME TypeOK, NEW h \in Handlers, NEW pc \in RequestPcs
  PROVE  /\ Continue(h, pc) => GoesTo(h, pc)
         /\ Answer(h) => Leaves(h)
<1>1. request \in [Handlers -> Requests] /\ request[h] \in Requests
  BY DEF TypeOK, Requests
<1>2. Continue(h, pc) => GoesTo(h, pc)
  <2> SUFFICES ASSUME Continue(h, pc) PROVE GoesTo(h, pc)
    OBVIOUS
  <2>1. PICK r : r = [request[h] EXCEPT !.pc = pc]
    OBVIOUS
  <2>2. /\ r \in Requests /\ r.pc = pc /\ r.op = request[h].op /\ r.job = request[h].job
        /\ r.read = request[h].read /\ r.todo = request[h].todo
        /\ r.active = request[h].active
    BY <1>1, <2>1 DEF Requests
  <2>3. request' = [request EXCEPT ![h] = r]
    BY <1>1, <2>1 DEF Continue
  <2>4. Asked(h) /\ request'[h] = r
    BY <1>1, <2>2, <2>3 DEF Asked
  <2> QED BY <2>2, <2>4 DEF GoesTo, Keeps
<1>3. Answer(h) => Leaves(h)
  BY <1>1, NoRequestIs DEF Answer, Leaves, Asked
<1> QED BY <1>2, <1>3

\* The answer of load_jobs on one job.
Judges(h, j, f) ==
  /\ request[h].pc = "judge" /\ j \in request[h].todo
  /\ Keeps(h) /\ request'[h].pc = "judge"
  /\ request'[h].todo = request[h].todo \ {j}
  /\ request'[h].read[j] = NoFile
  /\ \A i \in Jobs \ {j} : request'[h].read[i] = request[h].read[i]
  /\ f.status = Corrected(j, request[h].read[j])
  /\ f.worker = request[h].read[j].worker /\ f.child = request[h].read[j].child
  /\ \/ Written(j, f) /\ f.status # request[h].read[j].status
     \/ UNCHANGED file /\ f = request[h].read[j]
  /\ request[h].active \/ f.status \in Active => request'[h].active
  /\ UNCHANGED <<platform, proc, worker, child, ended, spent>>

LEMMA CorrectedIs ==
  ASSUME NEW j, NEW f \in File
  PROVE  \/ Corrected(j, f) = "running" /\ f.status = "failed"
         \/ Corrected(j, f) = "failed" /\ f.status \in Active /\ HasPid(f) /\ ~WorkerAlive(j, f)
         \/ Corrected(j, f) = f.status
BY DEF Corrected

LEMMA JudgeTable ==
  ASSUME TypeOK, NEW h \in Handlers, NEW j \in Jobs, Judge(h, j)
  PROVE  \E f \in File : Judges(h, j, f)
<1>1. /\ request \in [Handlers -> Requests] /\ request[h] \in Requests
      /\ file \in [Jobs -> File] /\ request[h].read[j] \in File
      /\ request[h].read \in [Jobs -> File]
  BY Shapes DEF Requests
<1>2. PICK old \in File : old = request[h].read[j]
  BY <1>1
<1>3. PICK s : s = Corrected(j, old)
  OBVIOUS
<1>4. s \in Active \cup Final \cup {"absent"}
  BY <1>3, CorrectedIs DEF File, Active, Final
<1>5. PICK f : f = [old EXCEPT !.status = s]
  OBVIOUS
<1>6. f \in File /\ f.status = s /\ f.worker = old.worker /\ f.child = old.child
  BY <1>4, <1>5 DEF File
<1>7. f # old <=> s # old.status
  BY <1>5, <1>6 DEF File
<1>8. PICK b \in BOOLEAN : b = (request[h].active \/ f.status \in Active)
  OBVIOUS
<1>9. /\ request[h].pc = "judge" /\ j \in request[h].todo
      /\ file' = IF f # old THEN [file EXCEPT ![j] = f] ELSE file
      /\ request' = [request EXCEPT ![h].read[j] = NoFile, ![h].todo = @ \ {j}, ![h].active = b]
      /\ UNCHANGED <<platform, proc, worker, child, ended, spent>>
  BY <1>2, <1>3, <1>5, <1>8 DEF Judge
<1>10. /\ Keeps(h) /\ request'[h].pc = "judge" /\ request'[h].active = b
       /\ request'[h].todo = request[h].todo \ {j}
       /\ request'[h].read = [request[h].read EXCEPT ![j] = NoFile]
  BY <1>1, <1>9, NoRequestIs DEF Keeps, Asked, Requests
<1>11. /\ request'[h].read[j] = NoFile
       /\ \A i \in Jobs \ {j} : request'[h].read[i] = request[h].read[i]
  BY <1>1, <1>10
<1>12. \/ Written(j, f) /\ f.status # old.status
       \/ UNCHANGED file /\ f = old
  BY <1>1, <1>6, <1>7, <1>9 DEF Written
<1>13. Judges(h, j, f)
  BY <1>2, <1>3, <1>6, <1>8, <1>9, <1>10, <1>11, <1>12 DEF Judges
<1> QED BY <1>6, <1>13

\* The writes of a start and of a cancellation.
LEMMA DecideTable ==
  ASSUME TypeOK, Requesting, NEW h \in Handlers, StartDecides(h)
  PROVE  /\ request[h].pc = "judge" /\ request[h].op = "start" /\ request[h].todo = {}
         /\ request[h].job \in Jobs
         /\ \/ Leaves(h) /\ UNCHANGED file
            \/ ~request[h].active /\ GoesTo(h, "spawn") /\ Written(request[h].job, Queued)
         /\ UNCHANGED <<platform, proc, worker, child, ended, spent>>
<1>1. /\ request[h].pc = "judge" /\ request[h].op = "start" /\ request[h].todo = {}
      /\ UNCHANGED <<platform, proc, worker, child, ended, spent>>
  BY DEF StartDecides, Judged
<1>2. request[h].job \in Jobs /\ file \in [Jobs -> File]
  BY <1>1 DEF Requesting, TypeOK
<1>3. \/ Answer(h) /\ UNCHANGED file
      \/ /\ ~request[h].active /\ Continue(h, "spawn")
         /\ file' = [file EXCEPT ![request[h].job] = Queued]
  BY DEF StartDecides, ActiveJob
<1>4. "spawn" \in RequestPcs
  BY DEF RequestPcs
<1>5. file' = [file EXCEPT ![request[h].job] = Queued] => Written(request[h].job, Queued)
  BY <1>2, NoRequestIs DEF Written
<1> QED BY <1>1, <1>2, <1>3, <1>4, <1>5, ContinueTable

LEMMA RereadTable ==
  ASSUME TypeOK, Requesting, NEW h \in Handlers, StartReread(h)
  PROVE  /\ request[h].pc = "reread" /\ request[h].op = "start" /\ request[h].job \in Jobs
         /\ Keeps(h) /\ request'[h].pc = "setPid"
         /\ request'[h].read[request[h].job] = file[request[h].job]
         /\ \A i \in Jobs \ {request[h].job} : request'[h].read[i] = request[h].read[i]
         /\ UNCHANGED <<platform, file, proc, worker, child, ended, spent>>
<1>1. PICK j : j = request[h].job
  OBVIOUS
<1>2. request[h].pc = "reread" /\ request[h].op = "start" /\ j \in Jobs
  BY <1>1, Shapes DEF StartReread, Requesting, TypeOK
<1>3. /\ request \in [Handlers -> Requests] /\ request[h] \in Requests
      /\ file[j] \in File /\ request[h].read \in [Jobs -> File]
  BY <1>2, Shapes DEF Requests
<1>4. request' = [request EXCEPT ![h].pc = "setPid", ![h].read[j] = file[j]]
  BY <1>1 DEF StartReread
<1>5. /\ Keeps(h) /\ request'[h].pc = "setPid"
      /\ request'[h].read = [request[h].read EXCEPT ![j] = file[j]]
  BY <1>2, <1>3, <1>4 DEF Keeps, Asked, Requests, RequestPcs
<1> QED BY <1>1, <1>2, <1>3, <1>5 DEF StartReread

LEMMA SetPidTable ==
  ASSUME TypeOK, Requesting, NEW h \in Handlers, StartSetPid(h)
  PROVE  /\ request[h].pc = "setPid" /\ request[h].op = "start" /\ request[h].job \in Jobs
         /\ Leaves(h)
         /\ \E f \in File : /\ Written(request[h].job, f)
                            /\ f.status # "absent" /\ f.worker
                            /\ f.child = request[h].read[request[h].job].child
                            /\ \/ f.status = "running"
                               \/ f.status = request[h].read[request[h].job].status
         /\ UNCHANGED <<platform, proc, worker, child, ended, spent>>
<1>1. PICK j : j = request[h].job
  OBVIOUS
<1>2. request[h].pc = "setPid" /\ request[h].op = "start" /\ j \in Jobs
  <2>1. request[h].pc = "setPid" /\ request[h] \in Requests
    BY Shapes DEF StartSetPid, TypeOK, Requests
  <2>2. request[h].op \in {"none", "list", "start", "cancel"}
    BY <2>1 DEF Requests
  <2> QED BY <1>1, <2>1, <2>2 DEF Requesting
<1>3. file \in [Jobs -> File]
  BY DEF TypeOK
<1>4. PICK old \in File : old = request[h].read[j]
  BY <1>2, Shapes
<1>5. PICK s \in Active \cup Final : s = IF old.status \in Final THEN old.status ELSE "running"
  BY DEF Active
<1>6. PICK f : f = [old EXCEPT !.worker = TRUE, !.status = s]
  OBVIOUS
<1>7. f \in File /\ f.status = s /\ f.status # "absent" /\ f.worker /\ f.child = old.child
  BY <1>5, <1>6 DEF File, Active, Final
<1>8. file' = [file EXCEPT ![j] = f] /\ Answer(h)
  BY <1>1, <1>4, <1>5, <1>6 DEF StartSetPid
<1>9. Written(j, f) /\ Leaves(h)
  BY <1>2, <1>3, <1>7, <1>8, ContinueTable, NoRequestIs DEF Written, Requests
<1> QED BY <1>1, <1>2, <1>4, <1>5, <1>7, <1>9 DEF StartSetPid

LEMMA CancelTable ==
  ASSUME TypeOK, Requesting, NEW h \in Handlers, CancelBegins(h) \/ CancelEnds(h)
  PROVE  /\ request[h].op = "cancel" /\ request[h].job \in Jobs
         /\ \E f \in File : /\ Written(request[h].job, f)
                            /\ f.worker = request[h].read[request[h].job].worker
                            /\ f.child = request[h].read[request[h].job].child
                            /\ \/ /\ request[h].pc = "cancelling" /\ f.status = "cancelling"
                                  /\ Keeps(h) /\ request'[h].pc = "kill"
                                  /\ request'[h].read[request[h].job] = f
                                  /\ \A i \in Jobs \ {request[h].job} :
                                        request'[h].read[i] = request[h].read[i]
                               \/ /\ request[h].pc = "cancelled" /\ f.status = "cancelled"
                                  /\ Leaves(h)
         /\ UNCHANGED <<platform, proc, worker, child, ended, spent>>
<1>1. PICK j : j = request[h].job
  OBVIOUS
<1>2. PICK s \in {"cancelling", "cancelled"} :
        CancelWrites(h, s, s, IF s = "cancelling" THEN "kill" ELSE "idle")
  BY DEF CancelBegins, CancelEnds
<1>3. request[h].pc = s /\ request[h] \in Requests /\ request \in [Handlers -> Requests]
  BY <1>2, Shapes DEF CancelWrites, TypeOK, Requests
<1>4. request[h].op = "cancel" /\ j \in Jobs
  BY <1>1, <1>3 DEF Requesting, Requests
<1>5. file \in [Jobs -> File] /\ request[h].read \in [Jobs -> File]
  BY <1>3 DEF TypeOK, Requests
<1>6. PICK old \in File : old = request[h].read[j]
  BY <1>4, <1>5
<1>7. PICK f : f = [old EXCEPT !.status = s]
  OBVIOUS
<1>8. f \in File /\ f.status = s /\ f.worker = old.worker /\ f.child = old.child
  BY <1>7 DEF File, Active, Final
<1>9. /\ file' = [file EXCEPT ![j] = f]
      /\ request' = [request EXCEPT ![h] = IF s = "cancelled" THEN NoRequest
                                           ELSE [@ EXCEPT !.pc = "kill", !.read[j] = f]]
      /\ UNCHANGED <<platform, proc, worker, child, ended, spent>>
  BY <1>1, <1>2, <1>6, <1>7 DEF CancelWrites
<1>10. Written(j, f)
  BY <1>4, <1>5, <1>8, <1>9 DEF Written
<1>11. CASE s = "cancelled"
  <2>1. Leaves(h)
    BY <1>3, <1>9, <1>11, NoRequestIs DEF Leaves, Asked
  <2> QED BY <1>1, <1>3, <1>4, <1>6, <1>8, <1>9, <1>10, <1>11, <2>1
<1>12. CASE s = "cancelling"
  <2>1. request' = [request EXCEPT ![h] = [@ EXCEPT !.pc = "kill", !.read[j] = f]]
    BY <1>9, <1>12
  <2>2. /\ Keeps(h) /\ request'[h].pc = "kill"
        /\ request'[h].read = [request[h].read EXCEPT ![j] = f]
    BY <1>3, <1>4, <1>5, <1>8, <2>1 DEF Keeps, Asked, Requests, RequestPcs
  <2>3. /\ request'[h].read[j] = f
        /\ \A i \in Jobs \ {j} : request'[h].read[i] = request[h].read[i]
    BY <1>4, <1>5, <2>2
  <2> QED BY <1>1, <1>3, <1>4, <1>6, <1>8, <1>9, <1>10, <1>12, <2>2, <2>3
<1> QED BY <1>11, <1>12

\* The end of a worker process, and what a kill ends.
Dies(j) ==
  /\ proc' \in [Jobs -> ProcStates] /\ proc'[j] \in {"gone", "zombie"}
  /\ \A i \in Jobs \ {j} : proc'[i] = proc[i]
  /\ Placed(j, NewWorker.pc, NewWorker.index, NewWorker.job) /\ worker'[j] = NewWorker

LEMMA EndsTable ==
  ASSUME TypeOK, NEW j \in Jobs, Ends(j)
  PROVE  Dies(j)
<1>1. proc \in [Jobs -> ProcStates] /\ worker \in [Jobs -> Workers]
  BY Shapes
<1>2. Remains(j) \in {"gone", "zombie"} /\ Remains(j) \in ProcStates
  BY DEF Remains, ProcStates
<1> QED BY <1>1, <1>2, NoRequestIs DEF Ends, Dies, Placed

LEMMA KillTable ==
  ASSUME TypeOK, Requesting, NEW h \in Handlers, CancelKills(h)
  PROVE  /\ request[h].pc = "kill" /\ request[h].op = "cancel" /\ request[h].job \in Jobs
         /\ GoesTo(h, "cancelled")
         /\ \/ Dies(request[h].job) /\ request[h].read[request[h].job].worker
               /\ Runs(request[h].job)
            \/ /\ UNCHANGED <<proc, worker>>
               /\ ~(request[h].read[request[h].job].worker /\ Runs(request[h].job))
         /\ child' \in [Jobs -> 0..N]
         /\ \A i \in Jobs \ {request[h].job} : child'[i] = child[i]
         /\ child'[request[h].job] \in {0, child[request[h].job]}
         /\ platform = "nt" /\ Dies(request[h].job) /\ Runs(request[h].job)
              /\ request[h].read[request[h].job].worker => child'[request[h].job] = 0
         /\ UNCHANGED <<platform, file, ended, spent>>
<1>1. PICK j : j = request[h].job
  OBVIOUS
<1>2. request[h].pc = "kill" /\ request[h] \in Requests
  BY Shapes DEF CancelKills, TypeOK, Requests
<1>3. request[h].op = "cancel" /\ j \in Jobs
  BY <1>1, <1>2 DEF Requesting, Requests
<1>4. "cancelled" \in RequestPcs
  BY DEF RequestPcs
<1>5. GoesTo(h, "cancelled") /\ UNCHANGED <<platform, file, ended, spent>>
  BY <1>4, ContinueTable DEF CancelKills
<1>6. PICK hit \in BOOLEAN : hit <=> (request[h].read[j].worker /\ Runs(j))
  OBVIOUS
<1>7. /\ IF hit THEN Ends(j) ELSE UNCHANGED <<proc, worker>>
      /\ child' = IF hit /\ platform = "nt" THEN [child EXCEPT ![j] = 0] ELSE child
  BY <1>1, <1>6 DEF CancelKills, Runs
<1>8. child \in [Jobs -> 0..N] /\ 0 \in 0..N
  BY WorkflowAssumption DEF TypeOK
<1>9. hit => Dies(j)
  BY <1>3, <1>7, EndsTable
<1>10. /\ child' \in [Jobs -> 0..N] /\ \A i \in Jobs \ {j} : child'[i] = child[i]
       /\ child'[j] \in {0, child[j]}
       /\ hit /\ platform = "nt" => child'[j] = 0
  BY <1>3, <1>7, <1>8
<1> QED BY <1>1, <1>2, <1>3, <1>5, <1>6, <1>7, <1>9, <1>10
------------------------------------------------------------------------------
(* What a step does to each job, to each copy of its file and to each      *)
(* request.                                                                *)

Rests(j) ==
  /\ worker'[j] = worker[j] /\ (proc'[j] \in Running <=> Runs(j))
  /\ proc'[j] = "none" <=> proc[j] = "none"
  /\ child'[j] \in {0, child[j]}
Works(j) ==
  /\ Runs(j) /\ proc'[j] = proc[j]
  /\ \E p \in WorkerPcs, n \in 1..N + 1, job \in File, f \in File, c \in 0..N :
       /\ worker'[j].pc = p /\ worker'[j].index = n /\ worker'[j].job = job
       /\ file'[j] = f /\ child'[j] = c /\ Moves(j, p, n, job, f, c)
Stops(j) ==
  /\ Runs(j) /\ proc'[j] \in {"gone", "zombie"} /\ worker'[j] = NewWorker
  /\ child'[j] \in {0, child[j]}
  /\ worker[j].pc = "exit" \/ spent'.crashes # 0 \/ (platform = "nt" => child'[j] = 0)
Raises(j) ==
  /\ Runs(j) /\ proc'[j] = proc[j] /\ child'[j] = child[j] /\ spent'.crashes # 0
  /\ worker[j].pc \in {"announce", "spawn", "note", "record", "quit", "complete"}
  /\ worker'[j].pc = "failRead" /\ worker'[j].index = worker[j].index
  /\ worker'[j].job = worker[j].job
Spawned(h, j) ==
  /\ InFlight(h, j) /\ request[h].pc = "spawn" /\ GoesTo(h, "reread")
  /\ proc'[j] = "alive" /\ worker'[j] = worker[j] /\ child'[j] = child[j]
Fate(j) ==
  /\ ended[j] \subseteq ended'[j]
  /\ Rests(j) \/ Works(j) \/ Stops(j) \/ Raises(j) \/ (\E h \in Handlers : Spawned(h, j))

\* What a copy of the file was made from.
Corrects(j, f, g) ==
  /\ f.worker = g.worker /\ f.child = g.child
  /\ \/ f.status = "running" /\ g.status = "failed"
     \/ f.status = "failed" /\ g.status \in Active /\ HasPid(g) /\ ~WorkerAlive(j, g)
Begins(j, f) ==
  /\ Runs(j) /\ worker[j].pc = "bootWrite" /\ f.status = "running" /\ f.worker
Finishes(j, f) ==
  /\ Runs(j) /\ proc'[j] = proc[j] /\ worker'[j].pc = "exit"
  /\ f.worker = worker[j].job.worker /\ f.child = worker[j].job.child
  /\ \/ worker[j].pc \in {"quit", "failWrite"} /\ f.status \in {"cancelled", "failed"}
     \/ worker[j].pc = "complete" /\ f.status = "completed"
SetsPid(h, j, f) ==
  /\ InFlight(h, j) /\ request[h].pc = "setPid" /\ f.worker
  /\ f.status # "absent" /\ f.status \in {"running", request[h].read[j].status}
Marks(h, j, f) ==
  /\ request[h].op = "cancel" /\ request[h].job = j
  /\ f.worker = request[h].read[j].worker /\ f.child = request[h].read[j].child
  /\ \/ f.status = "cancelling"
     \/ request[h].pc = "cancelled" /\ f.status = "cancelled"
Derived(j, f) ==
  \/ \E g \in Copies(j) : f.status = g.status /\ f.worker = g.worker /\ f.child \in {0, g.child}
  \/ f = NoFile
  \/ \E h \in Handlers : /\ f = Queued /\ InFlight(h, j) /\ request[h].pc = "judge"
                         /\ file'[j] = Queued
  \/ /\ Runs(j) /\ worker[j].pc = "spawn"
     /\ f.status = worker[j].job.status /\ f.worker = worker[j].job.worker
  \/ \E g \in Copies(j) : Corrects(j, f, g)
  \/ Begins(j, f) \/ Finishes(j, f)
  \/ \E h \in Handlers : SetsPid(h, j, f) \/ Marks(h, j, f)
Descends(j) ==
  /\ Derived(j, file'[j]) /\ Derived(j, worker'[j].job)
  /\ \A h \in Handlers : Derived(j, request'[h].read[j])

\* Where a request goes.
Closes(h) ==
  /\ request'[h] = NoRequest
  /\ \/ spent'.restarts # 0
     \/ request[h].op = "start" => \/ request[h].pc = "judge"
                                   \/ request[h].pc = "setPid" /\ file'[request[h].job].worker
Comes(h) ==
  \/ Arrives(h, "list", NoJob, "judge", Listed)
  \/ \E j \in Jobs : /\ Arrives(h, "start", j, "judge", Listed) /\ file[j].status = "absent"
                     /\ \A g \in Handlers : request[g].job # j
  \/ \E j \in Jobs : Arrives(h, "cancel", j, "cancelling", {}) /\ file[j].status # "absent"
Grants(h) ==
  /\ request[h].pc = "judge" /\ request[h].op = "start" /\ request[h].todo = {}
  /\ ~request[h].active /\ GoesTo(h, "spawn") /\ file'[request[h].job] = Queued
  /\ UNCHANGED <<proc, worker, child>>
Rereads(h) ==
  /\ request[h].op = "start" /\ request[h].pc = "reread"
  /\ Keeps(h) /\ request'[h].pc = "setPid"
MarksIt(h) ==
  /\ request[h].op = "cancel" /\ request[h].pc = "cancelling"
  /\ Keeps(h) /\ request'[h].pc = "kill"
  /\ request'[h].read[request[h].job].worker = request[h].read[request[h].job].worker
Kills(h) ==
  /\ request[h].op = "cancel" /\ request[h].pc = "kill" /\ GoesTo(h, "cancelled")
  /\ \/ ~request[h].read[request[h].job].worker
     \/ proc'[request[h].job] \notin Running
Plea(h) ==
  \/ request'[h] = request[h] \/ Closes(h) \/ Comes(h)
  \/ \E j \in Jobs, f \in File : Judges(h, j, f)
  \/ Grants(h) \/ (\E j \in Jobs : Spawned(h, j)) \/ Rereads(h) \/ MarksIt(h) \/ Kills(h)

Tally ==
  /\ platform' = platform /\ spent' \in [requests: Nat, crashes: Nat, restarts: Nat]
  /\ spent'.crashes = 0 => spent.crashes = 0
  /\ spent'.restarts = 0 => spent.restarts = 0

Tables ==
  /\ TypeOK' /\ Tally
  /\ \A j \in Jobs : Fate(j) /\ Descends(j)
  /\ \A h \in Handlers : Plea(h)

LEMMA CopyIs ==
  ASSUME NEW j \in Jobs
  PROVE  /\ file[j] \in Copies(j) /\ worker[j].job \in Copies(j)
         /\ \A h \in Handlers : request[h].read[j] \in Copies(j)
BY DEF Copies

LEMMA TypesKeep ==
  ASSUME TypeOK,
         platform' = platform, file' \in [Jobs -> File], proc' \in [Jobs -> ProcStates],
         worker' \in [Jobs -> Workers], child' \in [Jobs -> 0..N],
         ended' \in [Jobs -> SUBSET (1..N)], request' \in [Handlers -> Requests],
         spent' \in [requests: Nat, crashes: Nat, restarts: Nat]
  PROVE  TypeOK'
BY DEF TypeOK, Workers, Requests

\* What is left alone.
LEMMA FileRests ==
  ASSUME TypeOK, NEW j \in Jobs
  PROVE  /\ file'[j] = file[j] => Derived(j, file'[j])
         /\ worker'[j].job = worker[j].job => Derived(j, worker'[j].job)
         /\ \A h \in Handlers : request'[h].read[j] = request[h].read[j]
              => Derived(j, request'[h].read[j])
         /\ file'[j] = NoFile => Derived(j, file'[j])
         /\ worker'[j].job = NoFile => Derived(j, worker'[j].job)
         /\ \A h \in Handlers : request'[h].read[j] = NoFile => Derived(j, request'[h].read[j])
         /\ \A h \in Handlers : request'[h].read[j] = file[j] => Derived(j, request'[h].read[j])
         /\ \A f : f \in Copies(j) => Derived(j, f)
BY CopyIs DEF Derived

LEMMA JobRests ==
  ASSUME TypeOK, NEW j \in Jobs, worker'[j] = worker[j], proc'[j] = proc[j],
         child'[j] = child[j], ended'[j] = ended[j]
  PROVE  Fate(j)
BY DEF Fate, Rests, Runs

LEMMA ReadRests ==
  ASSUME TypeOK, NEW j \in Jobs
  PROVE  /\ UNCHANGED request => \A h \in Handlers : Derived(j, request'[h].read[j])
         /\ \A g \in Handlers : GoesTo(g, request'[g].pc) \/ Leaves(g)
              => \A h \in Handlers : Derived(j, request'[h].read[j])
BY FileRests, NoRequestIs DEF GoesTo, Keeps, Asked, Leaves

LEMMA TalliesRest ==
  ASSUME TypeOK, platform' = platform, spent' = spent
  PROVE  Tally
BY DEF TypeOK, Tally
LEMMA WorkerTables ==
  ASSUME TypeOK, Working, NEW j \in Jobs, WorkerStep(j), ~Exit(j)
  PROVE  Tables
<1>1. Runs(j)
  BY WorkerTable
<1>2. PICK p \in WorkerPcs, n \in 1..N + 1, job \in File, f \in File, c \in 0..N :
        WorkerMoves(j, p, n, job, f, c) /\ Moves(j, p, n, job, f, c)
  BY WorkerTable
<1>3. TypeOK'
  BY <1>2, TypesKeep DEF WorkerMoves, Placed, Written, TypeOK, Requests
<1>4. Tally
  BY <1>2, TalliesRest DEF WorkerMoves
<1>5. \A h \in Handlers : Plea(h)
  BY <1>2 DEF WorkerMoves, Plea
<1>6. \A i \in Jobs \ {j} : Fate(i) /\ Descends(i)
  BY <1>2, JobRests, FileRests DEF WorkerMoves, Placed, Written, Descends
<1>7. Fate(j)
  <2>1. Works(j)
    BY <1>1, <1>2 DEF WorkerMoves, Placed, Written, Works
  <2> QED BY <1>2, <2>1 DEF WorkerMoves, Fate
<1>8. Descends(j)
  <2> DEFINE old == worker[j].job
             now == file[j]
  <2>1. /\ file'[j] = f /\ worker'[j].job = job /\ worker'[j].pc = p /\ proc'[j] = proc[j]
        /\ UNCHANGED request
    BY <1>2 DEF WorkerMoves, Placed, Written
  <2>2. now \in Copies(j) /\ old \in Copies(j)
    BY CopyIs
  <2>3. \A h \in Handlers : Derived(j, request'[h].read[j])
    BY <2>1, ReadRests
  <2>4. Derived(j, f) /\ Derived(j, job)
    <3>1. CASE worker[j].pc \in {"boot", "check", "announce", "note", "append", "failRead"}
      <4>1. f \in {now, old} /\ job \in {now, old}
        BY <1>2, <3>1 DEF Moves
      <4> QED BY <2>2, <4>1, FileRests
    <3>2. CASE worker[j].pc = "bootWrite"
      <4>1. job = f /\ f.status = "running" /\ f.worker
        BY <1>2, <3>2 DEF Moves
      <4> QED BY <1>1, <3>2, <4>1 DEF Derived, Begins
    <3>3. CASE worker[j].pc = "spawn"
      <4>1. f = now /\ job.status = old.status /\ job.worker = old.worker
        BY <1>2, <3>3 DEF Moves
      <4>2. Derived(j, f)
        BY <2>2, <4>1, FileRests
      <4>3. Derived(j, job)
        BY <1>1, <3>3, <4>1 DEF Derived
      <4> QED BY <4>2, <4>3
    <3>4. CASE worker[j].pc = "wait"
      <4>1. f = now /\ \/ job = old
                       \/ job.status = now.status /\ job.worker = now.worker /\ job.child = 0
        BY <1>2, <3>4 DEF Moves
      <4>2. Derived(j, f)
        BY <2>2, <4>1, FileRests
      <4>3. job.status = now.status /\ job.worker = now.worker /\ job.child = 0 => Derived(j, job)
        BY <2>2 DEF Derived
      <4> QED BY <2>2, <4>1, <4>2, <4>3, FileRests
    <3>5. CASE worker[j].pc = "record"
      <4>1. job = f /\ f.status = old.status /\ f.worker = old.worker /\ f.child = 0
        BY <1>2, <3>5 DEF Moves
      <4> QED BY <2>2, <4>1 DEF Derived
    <3>6. CASE worker[j].pc \in {"quit", "complete", "failWrite"}
      <4>1. /\ p = "exit" /\ job = f /\ f.worker = old.worker /\ f.child = old.child
            /\ \/ worker[j].pc = "quit" /\ f.status = "cancelled"
               \/ worker[j].pc = "complete" /\ f.status = "completed"
               \/ worker[j].pc = "failWrite" /\ f.status = "failed"
        BY <1>2, <3>6 DEF Moves
      <4> QED BY <1>1, <2>1, <4>1 DEF Derived, Finishes
    <3>7. CASE worker[j].pc = "exit"
      BY <1>2, <3>7 DEF Moves
    <3> QED BY <3>1, <3>2, <3>3, <3>4, <3>5, <3>6, <3>7, Shapes DEF WorkerPcs
  <2> QED BY <2>1, <2>3, <2>4 DEF Descends
<1> QED BY <1>3, <1>4, <1>5, <1>6, <1>7, <1>8 DEF Tables

\* The end of a worker, by itself or by a crash.
LEMMA EndTables ==
  ASSUME TypeOK, NEW j \in Jobs, Exit(j) \/ Crash(j)
  PROVE  Tables
<1>1. /\ Dies(j) /\ Runs(j) /\ UNCHANGED <<platform, file, child, ended, request>>
      /\ \/ worker[j].pc = "exit" /\ spent' = spent
         \/ spent' = [spent EXCEPT !.crashes = @ + 1]
  BY EndsTable DEF Exit, Crash, At, Runs
<1>2. /\ spent' \in [requests: Nat, crashes: Nat, restarts: Nat]
      /\ spent'.restarts = spent.restarts
      /\ \/ worker[j].pc = "exit" /\ spent'.crashes = spent.crashes
         \/ spent'.crashes # 0
  BY <1>1 DEF TypeOK
<1>3. TypeOK' /\ Tally
  <2>1. TypeOK'
    BY <1>1, <1>2, TypesKeep DEF Dies, Placed, TypeOK, Requests
  <2> QED BY <1>1, <1>2, <2>1 DEF Tally
<1>4. \A i \in Jobs \ {j} : Fate(i)
  BY <1>1, JobRests DEF Dies, Placed
<1>5. Stops(j)
  BY <1>1, <1>2 DEF Stops, Dies
<1>6. \A i \in Jobs : Descends(i)
  BY <1>1, FileRests, ReadRests, NoRequestIs DEF Dies, Placed, Descends
<1> QED BY <1>1, <1>3, <1>4, <1>5, <1>6 DEF Tables, Fate, Plea

LEMMA RaiseTables ==
  ASSUME TypeOK, NEW j \in Jobs, Raise(j)
  PROVE  Tables
<1>1. worker \in [Jobs -> Workers] /\ worker[j] \in Workers
  BY Shapes
<1>2. PICK w : w = [worker[j] EXCEPT !.pc = "failRead"]
  OBVIOUS
<1>3. w \in Workers /\ w.pc = "failRead" /\ w.index = worker[j].index /\ w.job = worker[j].job
  BY <1>1, <1>2 DEF Workers, WorkerPcs
<1>4. worker' = [worker EXCEPT ![j] = w]
  BY <1>2 DEF Raise, Go
<1>5. /\ worker' \in [Jobs -> Workers] /\ worker'[j] = w
      /\ \A i \in Jobs \ {j} : worker'[i] = worker[i]
  BY <1>1, <1>3, <1>4
<1>6. /\ spent' \in [requests: Nat, crashes: Nat, restarts: Nat]
      /\ spent'.restarts = spent.restarts /\ spent'.crashes # 0
  BY DEF Raise, TypeOK
<1>7. TypeOK' /\ Tally
  <2>1. TypeOK'
    BY <1>5, <1>6, TypesKeep DEF Raise, TypeOK, Requests
  <2> QED BY <1>6, <2>1 DEF Raise, Tally
<1>8. \A i \in Jobs \ {j} : Fate(i)
  BY <1>5, JobRests DEF Raise
<1>9. Raises(j) /\ ended'[j] = ended[j] /\ UNCHANGED <<file, request>>
  BY <1>3, <1>5, <1>6 DEF Raise, Raises, Runs
<1>10. \A i \in Jobs : Descends(i)
  BY <1>3, <1>5, <1>9, FileRests, ReadRests DEF Descends
<1> QED BY <1>7, <1>8, <1>9, <1>10 DEF Tables, Fate, Plea

LEMMA ChildTables ==
  ASSUME TypeOK, NEW j \in Jobs, ChildEnds(j)
  PROVE  Tables
<1>1. /\ child \in [Jobs -> 0..N] /\ ended \in [Jobs -> SUBSET (1..N)]
      /\ child[j] \in 1..N /\ N \in Nat /\ 0 \in 0..N
  BY Shapes, WorkflowAssumption DEF ChildEnds
<1>2. /\ child' \in [Jobs -> 0..N] /\ child'[j] = 0
      /\ \A i \in Jobs \ {j} : child'[i] = child[i]
  BY <1>1 DEF ChildEnds
<1>3. /\ ended' \in [Jobs -> SUBSET (1..N)] /\ \A i \in Jobs : ended[i] \subseteq ended'[i]
  <2>1. ended[j] \cup {child[j]} \in SUBSET (1..N)
    BY <1>1
  <2> QED BY <1>1, <2>1 DEF ChildEnds
<1>4. TypeOK'
  BY <1>2, <1>3, TypesKeep DEF ChildEnds, TypeOK, Requests, Workers
<1>5. \A i \in Jobs : Fate(i)
  BY <1>2, <1>3 DEF ChildEnds, Fate, Rests, Runs
<1>6. \A i \in Jobs : Descends(i)
  BY FileRests, ReadRests DEF ChildEnds, Descends
<1>7. Tally
  BY TalliesRest DEF ChildEnds
<1> QED BY <1>4, <1>5, <1>6, <1>7 DEF Tables, Plea, ChildEnds
------------------------------------------------------------------------------
LEMMA JudgeTables ==
  ASSUME TypeOK, NEW h \in Handlers, NEW j \in Jobs, Judge(h, j)
  PROVE  Tables
<1>1. PICK f \in File : Judges(h, j, f)
  BY JudgeTable
<1>2. /\ Keeps(h) /\ Asked(h) /\ UNCHANGED <<platform, proc, worker, child, ended, spent>>
  BY <1>1 DEF Judges, Keeps
<1>3. file' \in [Jobs -> File] /\ \A i \in Jobs \ {j} : file'[i] = file[i]
  BY <1>1 DEF Judges, Written, TypeOK
<1>4. file'[j] \in {file[j], f}
  BY <1>1 DEF Judges, Written
<1>5. TypeOK' /\ Tally
  <2>1. TypeOK'
    BY <1>2, <1>3, TypesKeep DEF Asked, TypeOK, Workers
  <2> QED BY <1>2, <2>1, TalliesRest
<1>6. \A i \in Jobs : Fate(i)
  BY <1>2, JobRests
<1>7. \A g \in Handlers : Plea(g)
  BY <1>1, <1>2 DEF Plea, Asked
<1>8. Derived(j, f)
  <2>1. PICK old \in File : old = request[h].read[j]
    BY Shapes
  <2>2. old \in Copies(j)
    BY <2>1, CopyIs
  <2>3. f.status = Corrected(j, old) /\ f.worker = old.worker /\ f.child = old.child
    BY <1>1, <2>1 DEF Judges
  <2>4. Corrects(j, f, old) \/ f.status = old.status
    BY <2>3, CorrectedIs DEF Corrects
  <2> QED BY <2>2, <2>3, <2>4 DEF Derived
<1>9. \A i \in Jobs : Descends(i)
  <2>1. \A i \in Jobs : Derived(i, file'[i]) /\ Derived(i, worker'[i].job)
    BY <1>2, <1>3, <1>4, <1>8, FileRests
  <2>2. \A i \in Jobs, g \in Handlers :
          request'[g].read[i] = request[g].read[i] \/ request'[g].read[i] = NoFile
    BY <1>1, <1>2 DEF Asked, Judges
  <2> QED BY <2>1, <2>2, FileRests DEF Descends
<1> QED BY <1>5, <1>6, <1>7, <1>9 DEF Tables

LEMMA AnswerTables ==
  ASSUME TypeOK, NEW h \in Handlers, ListAnswer(h)
  PROVE  Tables
<1>1. Leaves(h) /\ request[h].op = "list" /\ "idle" \in RequestPcs
      /\ UNCHANGED <<platform, file, proc, worker, child, ended, spent>>
  BY ContinueTable DEF ListAnswer, Judged, RequestPcs
<1>2. TypeOK' /\ Tally
  <2>1. TypeOK'
    BY <1>1, TypesKeep DEF Leaves, Asked, TypeOK, Workers
  <2> QED BY <1>1, <2>1, TalliesRest
<1>3. \A i \in Jobs : Fate(i) /\ Descends(i)
  BY <1>1, JobRests, FileRests, ReadRests DEF Descends, Leaves
<1>4. \A g \in Handlers : Plea(g)
  BY <1>1 DEF Leaves, Asked, Plea, Closes
<1> QED BY <1>2, <1>3, <1>4 DEF Tables

LEMMA DecideTables ==
  ASSUME TypeOK, Requesting, NEW h \in Handlers, StartDecides(h)
  PROVE  Tables
<1>1. PICK j \in Jobs : j = request[h].job
  BY DecideTable
<1>2. /\ request[h].pc = "judge" /\ request[h].op = "start" /\ request[h].todo = {}
      /\ \/ Leaves(h) /\ UNCHANGED file
         \/ ~request[h].active /\ GoesTo(h, "spawn") /\ Written(j, Queued)
      /\ UNCHANGED <<platform, proc, worker, child, ended, spent>>
  BY <1>1, DecideTable
<1>3. /\ request' \in [Handlers -> Requests]
      /\ \A g \in Handlers \ {h} : request'[g] = request[g]
      /\ Leaves(h) \/ GoesTo(h, request'[h].pc)
  BY <1>2 DEF Leaves, GoesTo, Keeps, Asked
<1>4. /\ file' \in [Jobs -> File] /\ \A i \in Jobs \ {j} : file'[i] = file[i]
      /\ file'[j] \in {file[j], Queued}
  BY <1>2 DEF Written, TypeOK
<1>5. TypeOK' /\ Tally
  <2>1. TypeOK'
    BY <1>2, <1>3, <1>4, TypesKeep DEF TypeOK, Workers
  <2> QED BY <1>2, <2>1, TalliesRest
<1>6. Plea(h)
  BY <1>1, <1>2 DEF Plea, Closes, Grants, Leaves, Written
<1>7. file'[j] = Queued => Derived(j, file'[j])
  BY <1>1, <1>2 DEF Derived, InFlight
<1>8. \A i \in Jobs : Fate(i) /\ Descends(i)
  BY <1>2, <1>3, <1>4, <1>7, JobRests, FileRests, ReadRests DEF Descends
<1> QED BY <1>3, <1>5, <1>6, <1>8 DEF Tables, Plea

LEMMA RereadTables ==
  ASSUME TypeOK, Requesting, NEW h \in Handlers, StartReread(h)
  PROVE  Tables
<1>1. /\ request[h].pc = "reread" /\ request[h].op = "start"
      /\ Keeps(h) /\ Asked(h) /\ request'[h].pc = "setPid"
      /\ \A i \in Jobs : request'[h].read[i] \in {file[i], request[h].read[i]}
      /\ UNCHANGED <<platform, file, proc, worker, child, ended, spent>>
  BY RereadTable DEF Keeps
<1>2. TypeOK' /\ Tally
  <2>1. TypeOK'
    BY <1>1, TypesKeep DEF Asked, TypeOK, Workers
  <2> QED BY <1>1, <2>1, TalliesRest
<1>3. \A g \in Handlers : Plea(g)
  BY <1>1 DEF Asked, Plea, Rereads
<1>4. \A i \in Jobs, g \in Handlers : request'[g].read[i] \in Copies(i)
  BY <1>1, CopyIs DEF Asked
<1>5. \A i \in Jobs : Fate(i) /\ Descends(i)
  BY <1>1, <1>4, JobRests, FileRests DEF Descends
<1> QED BY <1>2, <1>3, <1>5 DEF Tables

LEMMA SetPidTables ==
  ASSUME TypeOK, Requesting, NEW h \in Handlers, StartSetPid(h)
  PROVE  Tables
<1>1. PICK j \in Jobs : j = request[h].job
  BY SetPidTable
<1>2. /\ request[h].pc = "setPid" /\ request[h].op = "start" /\ Leaves(h)
      /\ UNCHANGED <<platform, proc, worker, child, ended, spent>>
  BY SetPidTable
<1>3. PICK f \in File : /\ Written(j, f) /\ f.status # "absent" /\ f.worker
                        /\ \/ f.status = "running"
                           \/ f.status = request[h].read[j].status
  BY <1>1, SetPidTable
<1>4. TypeOK' /\ Tally
  <2>1. TypeOK'
    BY <1>2, <1>3, TypesKeep DEF Leaves, Asked, Written, TypeOK, Workers
  <2> QED BY <1>2, <2>1, TalliesRest
<1>5. \A g \in Handlers : Plea(g)
  <2>1. Closes(h)
    BY <1>1, <1>2, <1>3 DEF Closes, Leaves, Written
  <2> QED BY <1>2, <2>1 DEF Leaves, Asked, Plea
<1>6. Derived(j, file'[j])
  <2>1. file'[j] = f /\ SetsPid(h, j, f)
    BY <1>1, <1>2, <1>3 DEF SetsPid, InFlight, Written
  <2> QED BY <2>1 DEF Derived
<1>7. \A i \in Jobs : Fate(i) /\ Descends(i)
  BY <1>2, <1>3, <1>6, JobRests, FileRests, ReadRests DEF Descends, Written
<1> QED BY <1>4, <1>5, <1>7 DEF Tables

LEMMA CancelTables ==
  ASSUME TypeOK, Requesting, NEW h \in Handlers, CancelBegins(h) \/ CancelEnds(h)
  PROVE  Tables
<1>1. PICK j \in Jobs : j = request[h].job
  BY CancelTable
<1>2. request[h].op = "cancel" /\ UNCHANGED <<platform, proc, worker, child, ended, spent>>
  BY CancelTable
<1>3. PICK f \in File :
        /\ Written(j, f)
        /\ f.worker = request[h].read[j].worker /\ f.child = request[h].read[j].child
        /\ \/ /\ request[h].pc = "cancelling" /\ f.status = "cancelling"
              /\ Keeps(h) /\ request'[h].pc = "kill" /\ request'[h].read[j] = f
              /\ \A i \in Jobs \ {j} : request'[h].read[i] = request[h].read[i]
           \/ request[h].pc = "cancelled" /\ f.status = "cancelled" /\ Leaves(h)
  BY <1>1, CancelTable
<1>4. Asked(h)
  BY <1>3 DEF Keeps, Leaves
<1>5. TypeOK' /\ Tally
  <2>1. TypeOK'
    BY <1>2, <1>3, <1>4, TypesKeep DEF Asked, Written, TypeOK, Workers
  <2> QED BY <1>2, <2>1, TalliesRest
<1>6. \A g \in Handlers : Plea(g)
  <2>1. Closes(h) \/ MarksIt(h)
    BY <1>1, <1>2, <1>3 DEF Closes, MarksIt, Leaves
  <2> QED BY <1>4, <2>1 DEF Asked, Plea
<1>7. Derived(j, f)
  BY <1>1, <1>2, <1>3 DEF Derived, Marks
<1>8. /\ \A i \in Jobs \ {j} : file'[i] = file[i]
      /\ file'[j] = f
  BY <1>3 DEF Written
<1>9. \A i \in Jobs, g \in Handlers : Derived(i, request'[g].read[i])
  <2>1. CASE Leaves(h)
    BY <2>1, ReadRests
  <2>2. CASE /\ request'[h].read[j] = f
             /\ \A i \in Jobs \ {j} : request'[h].read[i] = request[h].read[i]
    <3>1. \A i \in Jobs : Derived(i, request'[h].read[i])
      BY <2>2, <1>7, FileRests
    <3>2. \A g \in Handlers \ {h} : request'[g] = request[g]
      BY <1>4 DEF Asked
    <3> QED BY <3>1, <3>2, FileRests
  <2> QED BY <1>3, <2>1, <2>2
<1>10. \A i \in Jobs : Fate(i) /\ Descends(i)
  BY <1>2, <1>7, <1>8, <1>9, JobRests, FileRests DEF Descends
<1> QED BY <1>5, <1>6, <1>10 DEF Tables
LEMMA SpawnTables ==
  ASSUME TypeOK, Requesting, Working, NEW h \in Handlers, StartSpawn(h)
  PROVE  Tables
<1>1. PICK j : j = request[h].job
  OBVIOUS
<1>2. request[h].pc = "spawn" /\ request[h] \in Requests
  BY Shapes DEF StartSpawn, TypeOK, Requests
<1>3. request[h].op = "start" /\ j \in Jobs /\ InFlight(h, j) /\ proc[j] = "none"
  <2>1. request[h].op \in {"none", "list", "start", "cancel"}
    BY <1>2 DEF Requests
  <2>2. request[h].op = "start"
    BY <1>2, <2>1 DEF Requesting
  <2> QED BY <1>1, <1>2, <2>2 DEF Requesting, InFlight
<1>4. "reread" \in RequestPcs /\ {"alive", "gone"} \subseteq ProcStates /\ proc \in [Jobs -> ProcStates]
  BY DEF RequestPcs, ProcStates, Running, TypeOK
<1>5. GoesTo(h, "reread") /\ UNCHANGED <<platform, file, worker, child, ended, spent>>
  BY <1>4, ContinueTable DEF StartSpawn
<1>6. /\ proc' \in [Jobs -> ProcStates] /\ proc'[j] = "alive"
      /\ \A i \in Jobs \ {j} : proc'[i] = IF proc[i] = "zombie" THEN "gone" ELSE proc[i]
  BY <1>1, <1>3, <1>4 DEF StartSpawn
<1>7. TypeOK' /\ Tally
  <2>1. TypeOK'
    BY <1>5, <1>6, TypesKeep DEF GoesTo, Keeps, Asked, TypeOK, Workers
  <2> QED BY <1>5, <2>1, TalliesRest
<1>8. Spawned(h, j)
  BY <1>2, <1>3, <1>5, <1>6 DEF Spawned
<1>9. \A i \in Jobs \ {j} : Rests(i)
  BY <1>5, <1>6, Shapes DEF Rests, Runs, Running
<1>10. \A i \in Jobs : Fate(i) /\ Descends(i)
  <2>1. request'[h].pc = "reread" /\ GoesTo(h, request'[h].pc)
    BY <1>5 DEF GoesTo
  <2>2. \A i \in Jobs : Descends(i)
    BY <1>5, <2>1, FileRests, ReadRests DEF Descends
  <2>3. \A i \in Jobs : Fate(i)
    BY <1>5, <1>8, <1>9 DEF Fate
  <2> QED BY <2>2, <2>3
<1>11. \A g \in Handlers : Plea(g)
  BY <1>3, <1>5, <1>8 DEF GoesTo, Keeps, Asked, Plea
<1> QED BY <1>7, <1>10, <1>11 DEF Tables

LEMMA KillTables ==
  ASSUME TypeOK, Requesting, NEW h \in Handlers, CancelKills(h)
  PROVE  Tables
<1>1. PICK j \in Jobs : j = request[h].job
  BY KillTable
<1>2. /\ request[h].pc = "kill" /\ request[h].op = "cancel" /\ GoesTo(h, "cancelled")
      /\ \/ Dies(j) /\ request[h].read[j].worker /\ Runs(j)
         \/ UNCHANGED <<proc, worker>> /\ ~(request[h].read[j].worker /\ Runs(j))
      /\ child' \in [Jobs -> 0..N] /\ child'[j] \in {0, child[j]}
      /\ \A i \in Jobs \ {j} : child'[i] = child[i]
      /\ platform = "nt" /\ Dies(j) /\ Runs(j) /\ request[h].read[j].worker => child'[j] = 0
      /\ UNCHANGED <<platform, file, ended, spent>>
  BY <1>1, KillTable
<1>3. /\ proc' \in [Jobs -> ProcStates] /\ worker' \in [Jobs -> Workers]
      /\ \A i \in Jobs \ {j} : proc'[i] = proc[i] /\ worker'[i] = worker[i]
  BY <1>2, Shapes DEF Dies, Placed
<1>4. TypeOK' /\ Tally
  <2>1. TypeOK'
    BY <1>2, <1>3, TypesKeep DEF GoesTo, Keeps, Asked, TypeOK
  <2> QED BY <1>2, <2>1, TalliesRest
<1>5. Stops(j) \/ Rests(j)
  BY <1>2 DEF Stops, Rests, Dies, Runs
<1>6. \A i \in Jobs : Fate(i)
  BY <1>2, <1>3, <1>5 DEF Fate, Rests, Runs
<1>7. \A i \in Jobs : Descends(i)
  <2>1. \A i \in Jobs, g \in Handlers : Derived(i, request'[g].read[i])
    BY <1>2, ReadRests DEF GoesTo
  <2>2. worker'[j].job \in {worker[j].job, NoFile}
    BY <1>2, NoRequestIs DEF Dies
  <2> QED BY <1>2, <1>3, <2>1, <2>2, FileRests DEF Descends
<1>8. \A g \in Handlers : Plea(g)
  <2>1. Kills(h)
    BY <1>1, <1>2 DEF Kills, Runs, Dies, Running
  <2> QED BY <1>2, <2>1 DEF GoesTo, Keeps, Asked, Plea
<1> QED BY <1>4, <1>6, <1>7, <1>8 DEF Tables

LEMMA ArriveTables ==
  ASSUME TypeOK, NEW h \in Handlers,
         List(h) \/ \E j \in Jobs : Start(h, j) \/ Cancel(h, j)
  PROVE  Tables
<1>1. Listed \in SUBSET Jobs /\ {"judge", "cancelling"} \subseteq RequestPcs
  BY DEF Listed, RequestPcs
<1>2. Comes(h)
  <2>1. CASE List(h)
    <3>1. Arrives(h, "list", NoJob, "judge", Listed)
      BY <1>1, <2>1, ArriveTable DEF List
    <3> QED BY <3>1 DEF Comes
  <2>2. ASSUME NEW j \in Jobs, Start(h, j) PROVE Comes(h)
    <3>1. Arrives(h, "start", j, "judge", Listed)
      BY <1>1, <2>2, ArriveTable DEF Start
    <3> QED BY <2>2, <3>1 DEF Comes, Start
  <2>3. ASSUME NEW j \in Jobs, Cancel(h, j) PROVE Comes(h)
    <3>1. Arrives(h, "cancel", j, "cancelling", {})
      BY <1>1, <2>3, ArriveTable DEF Cancel
    <3> QED BY <2>3, <3>1 DEF Comes, Cancel
  <2> QED BY <2>1, <2>2, <2>3
<1>3. /\ Asked(h) /\ \A i \in Jobs : request'[h].read[i] \in {file[i], NoFile}
      /\ spent' \in [requests: Nat, crashes: Nat, restarts: Nat]
      /\ spent'.crashes = spent.crashes /\ spent'.restarts = spent.restarts
      /\ UNCHANGED <<platform, file, proc, worker, child, ended>>
  BY <1>2 DEF Comes, Arrives
<1>4. TypeOK' /\ Tally
  <2>1. TypeOK'
    BY <1>3, TypesKeep DEF Asked, TypeOK, Workers
  <2> QED BY <1>3, <2>1 DEF Tally
<1>5. \A i \in Jobs : Fate(i) /\ Descends(i)
  <2>1. \A i \in Jobs, g \in Handlers : Derived(i, request'[g].read[i])
    BY <1>3, FileRests DEF Asked
  <2> QED BY <1>3, <2>1, JobRests, FileRests DEF Descends
<1>6. \A g \in Handlers : Plea(g)
  BY <1>2, <1>3 DEF Asked, Plea
<1> QED BY <1>4, <1>5, <1>6 DEF Tables

LEMMA ServerTables ==
  ASSUME TypeOK, Reap \/ ServerRestart
  PROVE  Tables
<1>1. /\ proc \in [Jobs -> ProcStates] /\ request \in [Handlers -> Requests]
      /\ {"gone", "orphan"} \subseteq ProcStates
  BY DEF TypeOK, Requests, ProcStates, Running
<1>2. UNCHANGED <<platform, file, worker, child, ended>>
  BY DEF Reap, ServerRestart
<1>3. /\ proc' \in [Jobs -> ProcStates]
      /\ \A j \in Jobs : /\ proc'[j] \in Running <=> proc[j] \in Running
                         /\ proc'[j] = "none" <=> proc[j] = "none"
  <2>1. CASE Reap
    BY <1>1, <2>1 DEF Reap, Running
  <2>2. CASE ServerRestart
    <3>1. \A j \in Jobs : proc'[j] = IF proc[j] = "zombie" THEN "gone"
                                     ELSE IF proc[j] = "alive" THEN "orphan" ELSE proc[j]
      BY <2>2 DEF ServerRestart
    <3>2. proc' \in [Jobs -> ProcStates]
      BY <1>1, <2>2 DEF ServerRestart
    <3> QED BY <3>1, <3>2 DEF Running
  <2> QED BY <2>1, <2>2
<1>4. \/ UNCHANGED <<request, spent>>
      \/ /\ request' \in [Handlers -> Requests] /\ \A h \in Handlers : request'[h] = NoRequest
         /\ spent' \in [requests: Nat, crashes: Nat, restarts: Nat]
         /\ spent'.crashes = spent.crashes /\ spent'.restarts # 0
  BY NoRequestIs DEF Reap, ServerRestart, TypeOK
<1>5. TypeOK' /\ Tally
  <2>1. TypeOK'
    BY <1>1, <1>2, <1>3, <1>4, TypesKeep DEF TypeOK, Workers
  <2> QED BY <1>2, <1>4, <2>1 DEF Tally, TypeOK
<1>6. \A j \in Jobs : Fate(j)
  BY <1>2, <1>3 DEF Fate, Rests, Runs
<1>7. \A j \in Jobs : Descends(j)
  BY <1>2, <1>4, NoRequestIs, FileRests, ReadRests DEF Descends
<1>8. \A h \in Handlers : Plea(h)
  BY <1>4 DEF Plea, Closes
<1> QED BY <1>5, <1>6, <1>7, <1>8 DEF Tables

LEMMA StepTables ==
  ASSUME TypeOK, Requesting, Working, [Next]_vars
  PROVE  Tables
<1>1. ASSUME NEW j \in Jobs, WorkerStep(j) \/ ChildEnds(j) \/ Raise(j) \/ Crash(j)
      PROVE  Tables
  BY <1>1, WorkerTables, EndTables, ChildTables, RaiseTables
<1>2. ASSUME NEW h \in Handlers, RequestStep(h)
      PROVE  Tables
  BY <1>2, JudgeTables, AnswerTables, DecideTables, SpawnTables, RereadTables, SetPidTables,
     CancelTables, KillTables DEF RequestStep
<1>3. ASSUME NEW h \in Handlers, List(h) \/ \E j \in Jobs : Start(h, j) \/ Cancel(h, j)
      PROVE  Tables
  BY <1>3, ArriveTables
<1>4. CASE UNCHANGED vars
  <2>1. TypeOK' /\ Tally
    BY <1>4, TypesKeep, TalliesRest DEF vars, TypeOK, Workers, Requests
  <2>2. \A j \in Jobs : Fate(j) /\ Descends(j)
    BY <1>4, JobRests, FileRests, ReadRests DEF vars, Descends
  <2> QED BY <1>4, <2>1, <2>2 DEF vars, Tables, Plea
<1> QED BY <1>1, <1>2, <1>3, <1>4, ServerTables DEF Next
------------------------------------------------------------------------------
(* What cannot be undone.                                                  *)

LEMMA FateIs ==
  ASSUME TypeOK, Working, NEW j \in Jobs, Fate(j), TypeOK', Requesting
  PROVE  /\ proc[j] # "none" => proc'[j] # "none"
         /\ Stopped(j) => Stopped(j)' /\ child'[j] \in {0, child[j]}
         /\ Done(j) => Done(j)'
         /\ Live(j)' => Live(j) \/ \E h \in Handlers : Spawned(h, j)
<1>1. /\ worker[j].pc \in WorkerPcs /\ proc[j] \in ProcStates
      /\ ended[j] \subseteq ended'[j] /\ ended'[j] \subseteq 1..N
  BY Shapes DEF Fate, TypeOK
<1>2. CASE Rests(j)
  BY <1>1, <1>2 DEF Rests, Stopped, Done, Live, Runs
<1>3. CASE Works(j)
  <2>1. Live(j) /\ ~Stopped(j) /\ ~Done(j) /\ proc'[j] = proc[j] /\ proc[j] # "none"
    <3>1. Runs(j) /\ worker[j].pc # "exit" /\ proc'[j] = proc[j]
      BY <1>3 DEF Works, Moves
    <3> QED BY <3>1 DEF Live, Runs, Stopped, Done, Running
  <2> QED BY <2>1
<1>4. CASE Stops(j)
  BY <1>1, <1>4 DEF Stops, Stopped, Done, Live, Runs, Running
<1>5. CASE Raises(j)
  BY <1>1, <1>5 DEF Raises, Stopped, Done, Live, Runs, Running
<1>6. CASE \E h \in Handlers : Spawned(h, j)
  <2>1. PICK h \in Handlers : Spawned(h, j)
    BY <1>6
  <2>2. proc[j] = "none" /\ proc'[j] = "alive"
    BY <2>1 DEF Spawned, Requesting
  <2> QED BY <1>6, <2>2 DEF Stopped, Done, Live, Running
<1> QED BY <1>2, <1>3, <1>4, <1>5, <1>6 DEF Fate

\* How the file itself is written.
Rewrites(j) ==
  \/ file'[j] = file[j] \/ Works(j)
  \/ \E h \in Handlers : InFlight(h, j) /\ Grants(h)
  \/ \E h \in Handlers, f \in File :
       Judges(h, j, f) /\ file'[j] = f /\ f.status # request[h].read[j].status
  \/ \E h \in Handlers : /\ InFlight(h, j) /\ request[h].pc = "setPid"
                         /\ file'[j].status # "absent" /\ file'[j].worker
  \/ \E h \in Handlers : /\ request[h].op = "cancel" /\ request[h].job = j
                         /\ file'[j].status # "absent"
                         /\ file'[j].worker = request[h].read[j].worker

LEMMA RewriteTable ==
  ASSUME TypeOK, Requesting, Working, [Next]_vars, NEW j \in Jobs
  PROVE  Rewrites(j)
<1>1. ASSUME NEW i \in Jobs, WorkerStep(i), ~Exit(i) PROVE Rewrites(j)
  <2>1. Runs(i)
    BY <1>1, WorkerTable
  <2>2. PICK p \in WorkerPcs, n \in 1..N + 1, job \in File, f \in File, c \in 0..N :
          WorkerMoves(i, p, n, job, f, c) /\ Moves(i, p, n, job, f, c)
    BY <1>1, WorkerTable
  <2>3. i = j => Works(j)
    BY <2>1, <2>2 DEF WorkerMoves, Placed, Written, Works
  <2>4. i # j => file'[j] = file[j]
    BY <2>2 DEF WorkerMoves, Written
  <2> QED BY <2>3, <2>4 DEF Rewrites
<1>2. ASSUME NEW h \in Handlers, NEW i \in Jobs, Judge(h, i) PROVE Rewrites(j)
  <2>1. PICK f \in File : Judges(h, i, f)
    BY <1>2, JudgeTable
  <2>2. file'[j] = file[j] \/ (i = j /\ file'[j] = f /\ f.status # request[h].read[j].status)
    BY <2>1 DEF Judges, Written
  <2> QED BY <2>1, <2>2 DEF Rewrites
<1>3. ASSUME NEW h \in Handlers, StartDecides(h) PROVE Rewrites(j)
  <2>1. \/ file'[j] = file[j]
        \/ request[h].job = j /\ request[h].op = "start" /\ Grants(h)
    BY <1>3, DecideTable DEF Grants, Written
  <2> QED BY <2>1 DEF Rewrites, InFlight
<1>4. ASSUME NEW h \in Handlers, StartSetPid(h) PROVE Rewrites(j)
  <2>1. \/ file'[j] = file[j]
        \/ /\ request[h].job = j /\ request[h].op = "start" /\ request[h].pc = "setPid"
           /\ file'[j].status # "absent" /\ file'[j].worker
    BY <1>4, SetPidTable DEF Written
  <2> QED BY <2>1 DEF Rewrites, InFlight
<1>5. ASSUME NEW h \in Handlers, CancelBegins(h) \/ CancelEnds(h) PROVE Rewrites(j)
  <2>1. \/ file'[j] = file[j]
        \/ /\ request[h].job = j /\ request[h].op = "cancel"
           /\ file'[j].status # "absent" /\ file'[j].worker = request[h].read[j].worker
    BY <1>5, CancelTable DEF Written
  <2> QED BY <2>1 DEF Rewrites
<1>6. UNCHANGED file => Rewrites(j)
  BY DEF Rewrites
<1>7. ASSUME NEW h \in Handlers, RequestStep(h) PROVE Rewrites(j)
  BY <1>2, <1>3, <1>4, <1>5, <1>6, <1>7 DEF RequestStep, ListAnswer, StartSpawn, StartReread, CancelKills
<1>8. ASSUME NEW h \in Handlers, List(h) \/ \E i \in Jobs : Start(h, i) \/ Cancel(h, i)
      PROVE  Rewrites(j)
  BY <1>6, <1>8 DEF List, Start, Cancel, Arrive
<1>9. ASSUME NEW i \in Jobs, Exit(i) \/ ChildEnds(i) \/ Raise(i) \/ Crash(i) PROVE Rewrites(j)
  BY <1>6, <1>9 DEF Exit, ChildEnds, Raise, Crash
<1> QED BY <1>1, <1>6, <1>7, <1>8, <1>9 DEF Next, Reap, ServerRestart, vars

LEMMA FileStays ==
  ASSUME TypeOK, Requesting, Working, Begun, NEW j \in Jobs, Rewrites(j)
  PROVE  /\ file[j].status # "absent" => file'[j].status # "absent"
         /\ file'[j].status # "absent" =>
              \/ file[j].status # "absent"
              \/ \E h \in Handlers : InFlight(h, j) /\ Grants(h)
<1>1. CASE file'[j] = file[j]
  BY <1>1
<1>2. CASE Works(j)
  <2>1. PICK p \in WorkerPcs, n \in 1..N + 1, job \in File, f \in File, c \in 0..N :
          file'[j] = f /\ Moves(j, p, n, job, f, c)
    BY <1>2 DEF Works
  <2>2. /\ Runs(j) /\ file[j].status # "absent"
        /\ worker[j].pc # "boot" => worker[j].job.status # "absent"
    BY <1>2 DEF Works, Working, Runs, Running
  <2>3. f = file[j] \/ f.status # "absent"
    BY <2>1, <2>2 DEF Moves
  <2> QED BY <2>1, <2>2, <2>3
<1>3. ASSUME NEW h \in Handlers, InFlight(h, j), Grants(h) PROVE file'[j].status # "absent"
  BY <1>3, NoRequestIs DEF Grants, InFlight
<1>4. ASSUME NEW h \in Handlers, NEW f \in File, Judges(h, j, f), file'[j] = f,
             f.status # request[h].read[j].status
      PROVE  file'[j].status # "absent" /\ file[j].status # "absent"
  <2>1. PICK old \in File : old = request[h].read[j]
    BY Shapes
  <2>2. f.status = Corrected(j, old) /\ f.status # old.status /\ old \in Copies(j)
    BY <1>4, <2>1, CopyIs DEF Judges
  <2>3. f.status # "absent" /\ old.status # "absent"
    BY <2>2, CorrectedIs DEF Active
  <2> QED BY <1>4, <2>2, <2>3 DEF Begun
<1>5. ASSUME NEW h \in Handlers, InFlight(h, j), request[h].pc = "setPid"
      PROVE  file[j].status # "absent"
  BY <1>5 DEF Requesting
<1>6. ASSUME NEW h \in Handlers, request[h].op = "cancel", request[h].job = j
      PROVE  file[j].status # "absent"
  BY <1>6 DEF Requesting
<1> QED BY <1>1, <1>2, <1>3, <1>4, <1>5, <1>6 DEF Rewrites
------------------------------------------------------------------------------
\* Where a start that is in flight comes from.
LEMMA PleaOfStart ==
  ASSUME TypeOK, Requesting, NEW h \in Handlers, NEW j \in Jobs, Plea(h), InFlight(h, j)'
  PROVE  \/ /\ Arrives(h, "start", j, "judge", Listed) /\ file[j].status = "absent"
            /\ \A g \in Handlers : request[g].job # j
         \/ InFlight(h, j) /\ request'[h].pc = request[h].pc
         \/ InFlight(h, j) /\ Grants(h) /\ request'[h].pc = "spawn"
         \/ Spawned(h, j) /\ request'[h].pc = "reread"
         \/ InFlight(h, j) /\ Rereads(h) /\ request'[h].pc = "setPid"
<1>1. CASE Comes(h)
  BY <1>1 DEF Comes, Arrives, InFlight
<1>2. CASE Closes(h)
  BY <1>2, NoRequestIs DEF Closes, InFlight
<1>3. CASE \E i \in Jobs, f \in File : Judges(h, i, f)
  BY <1>3 DEF Judges, Keeps, InFlight
<1>4. CASE \E i \in Jobs : Spawned(h, i)
  BY <1>4 DEF Spawned, GoesTo, Keeps, InFlight
<1>5. CASE Grants(h) \/ Rereads(h) \/ MarksIt(h) \/ Kills(h) \/ request'[h] = request[h]
  BY <1>5 DEF Grants, Rereads, MarksIt, Kills, GoesTo, Keeps, InFlight
<1> QED BY <1>1, <1>2, <1>3, <1>4, <1>5 DEF Plea

LEMMA RequestingKept ==
  ASSUME TypeOK, Requesting, Working, Begun, Tables, \A j \in Jobs : Rewrites(j)
  PROVE  Requesting'
<1>1. ASSUME NEW h \in Handlers
      PROVE  /\ request'[h].pc = "idle" <=> request'[h].op = "none"
             /\ request'[h].op = "list" => request'[h].pc = "judge"
             /\ request'[h].op = "start" =>
                  request'[h].pc \in {"judge", "spawn", "reread", "setPid"} /\ request'[h].job \in Jobs
             /\ request'[h].op = "cancel" =>
                  request'[h].pc \in {"cancelling", "kill", "cancelled"} /\ request'[h].job \in Jobs
  <2>1. /\ request[h].pc = "idle" <=> request[h].op = "none"
        /\ request[h].op = "list" => request[h].pc = "judge"
        /\ request[h].op = "start" =>
             request[h].pc \in {"judge", "spawn", "reread", "setPid"} /\ request[h].job \in Jobs
        /\ request[h].op = "cancel" =>
             request[h].pc \in {"cancelling", "kill", "cancelled"} /\ request[h].job \in Jobs
    BY DEF Requesting
  <2>2. Plea(h)
    BY DEF Tables
  <2>3. CASE request'[h] = request[h]
    BY <2>1, <2>3
  <2>4. CASE Closes(h)
    BY <2>4, NoRequestIs DEF Closes
  <2>5. CASE Comes(h)
    BY <2>5 DEF Comes, Arrives
  <2>6. CASE \E j \in Jobs, f \in File : Judges(h, j, f)
    BY <2>1, <2>6 DEF Judges, Keeps
  <2>7. CASE Grants(h) \/ Rereads(h) \/ MarksIt(h) \/ Kills(h)
    BY <2>1, <2>7 DEF Grants, Rereads, MarksIt, Kills, GoesTo, Keeps
  <2>8. CASE \E j \in Jobs : Spawned(h, j)
    BY <2>1, <2>8 DEF Spawned, GoesTo, Keeps, InFlight
  <2> QED BY <2>2, <2>3, <2>4, <2>5, <2>6, <2>7, <2>8 DEF Plea
<1>2. ASSUME NEW h \in Handlers, NEW j \in Jobs, InFlight(h, j)'
      PROVE  /\ request'[h].pc = "judge" => file'[j].status = "absent"
             /\ request'[h].pc \in {"judge", "spawn"} => proc'[j] = "none"
             /\ request'[h].pc # "judge" => file'[j].status # "absent"
             /\ request'[h].pc \in {"reread", "setPid"} => proc'[j] # "none"
  <2>1. /\ InFlight(h, j) =>
             /\ request[h].pc = "judge" => file[j].status = "absent"
             /\ request[h].pc \in {"judge", "spawn"} => proc[j] = "none"
             /\ request[h].pc # "judge" => file[j].status # "absent"
             /\ request[h].pc \in {"reread", "setPid"} => proc[j] # "none"
        /\ \A g \in Handlers : InFlight(g, j) /\ InFlight(h, j) => g = h
    BY DEF Requesting
  <2>2. Fate(j) /\ TypeOK'
    BY DEF Tables
  <2>3. /\ file[j].status # "absent" => file'[j].status # "absent"
        /\ file'[j].status # "absent" =>
             \/ file[j].status # "absent"
             \/ \E g \in Handlers : InFlight(g, j) /\ Grants(g)
        /\ proc[j] # "none" => proc'[j] # "none"
    BY <2>2, FileStays, FateIs
  <2>4. proc[j] = "none" => proc'[j] = "none" \/ \E g \in Handlers : Spawned(g, j)
    BY <2>2 DEF Fate, Rests, Works, Stops, Raises, Runs, Running
  <2>5. CASE /\ Arrives(h, "start", j, "judge", Listed) /\ file[j].status = "absent"
             /\ \A g \in Handlers : request[g].job # j
    <3>1. proc[j] = "none"
      BY <2>5 DEF Working
    <3> QED BY <2>5, <3>1 DEF Arrives
  <2>6. CASE InFlight(h, j) /\ request'[h].pc = request[h].pc
    <3>1. request[h].pc = "judge" => \A g \in Handlers : ~(InFlight(g, j) /\ Grants(g))
      BY <2>1, <2>6 DEF Grants, GoesTo
    <3>2. request[h].pc \in {"judge", "spawn"} => \A g \in Handlers : ~Spawned(g, j)
      BY <2>1, <2>6 DEF Spawned, GoesTo
    <3> QED BY <2>1, <2>3, <2>4, <2>6, <3>1, <3>2
  <2>7. CASE InFlight(h, j) /\ Grants(h) /\ request'[h].pc = "spawn"
    BY <2>1, <2>7, NoRequestIs DEF Grants, InFlight
  <2>8. CASE Spawned(h, j) /\ request'[h].pc = "reread"
    BY <2>1, <2>3, <2>8 DEF Spawned
  <2>9. CASE InFlight(h, j) /\ Rereads(h) /\ request'[h].pc = "setPid"
    BY <2>1, <2>3, <2>9 DEF Rereads
  <2>10. Plea(h)
    BY DEF Tables
  <2> QED BY <1>2, <2>5, <2>6, <2>7, <2>8, <2>9, <2>10, PleaOfStart
<1>3. ASSUME NEW h \in Handlers, NEW j \in Jobs, request'[h].op = "cancel", request'[h].job = j
      PROVE  file'[j].status # "absent"
  <2>1. Plea(h) /\ Rewrites(j)
    BY DEF Tables
  <2>2. \/ request[h].op = "cancel" /\ request[h].job = j
        \/ file[j].status # "absent"
    <3>1. CASE request'[h] = request[h]
      BY <1>3, <3>1
    <3>2. CASE Closes(h)
      BY <1>3, <3>2, NoRequestIs DEF Closes
    <3>3. CASE Comes(h)
      BY <1>3, <3>3 DEF Comes, Arrives
    <3>4. CASE \E i \in Jobs, f \in File : Judges(h, i, f)
      BY <1>3, <3>4 DEF Judges, Keeps
    <3>5. CASE Grants(h) \/ Rereads(h) \/ MarksIt(h) \/ Kills(h)
      BY <1>3, <3>5 DEF Grants, Rereads, MarksIt, Kills, GoesTo, Keeps
    <3>6. CASE \E i \in Jobs : Spawned(h, i)
      BY <1>3, <3>6 DEF Spawned, GoesTo, Keeps, InFlight
    <3> QED BY <2>1, <3>1, <3>2, <3>3, <3>4, <3>5, <3>6 DEF Plea
  <2>3. file[j].status # "absent"
    BY <2>2 DEF Requesting
  <2> QED BY <2>1, <2>3, FileStays
<1>4. ASSUME NEW g \in Handlers, NEW h \in Handlers, NEW j \in Jobs, InFlight(g, j)', InFlight(h, j)'
      PROVE  g = h
  <2>1. ASSUME NEW k \in Handlers, InFlight(k, j)'
        PROVE  \/ InFlight(k, j)
               \/ Asked(k) /\ \A i \in Handlers : request[i].job # j
    <3>1. Plea(k)
      BY DEF Tables
    <3> QED BY <2>1, <3>1, PleaOfStart DEF Arrives, Spawned
  <2>2. InFlight(g, j) /\ InFlight(h, j) => g = h
    BY DEF Requesting
  <2> QED BY <1>4, <2>1, <2>2 DEF Asked, InFlight
<1> QED BY <1>1, <1>2, <1>3, <1>4 DEF Requesting

LEMMA WorkingKept ==
  ASSUME TypeOK, Requesting, Working, Begun, Tables, \A j \in Jobs : Rewrites(j)
  PROVE  Working'
<1> DEFINE Held(p, job, n, c, e) ==
      /\ p # "boot" => job.status # "absent"
      /\ p \notin {"exit", "quit", "failRead", "failWrite"} => \A i \in 1..N : i < n => i \in e
      /\ p \in {"boot", "bootWrite", "check", "announce", "spawn", "append",
                "record", "complete"} => c = 0
      /\ p \in {"announce", "spawn", "note", "wait", "append", "record"} => n <= N
      /\ p = "complete" => n = N + 1
<1> SUFFICES ASSUME NEW j \in Jobs
             PROVE  /\ proc'[j] = "none" => worker'[j] = NewWorker /\ child'[j] = 0
                    /\ proc'[j] # "none" => file'[j].status # "absent"
                    /\ proc'[j] \notin Running => worker'[j] = NewWorker
                    /\ proc'[j] \in Running =>
                         Held(worker'[j].pc, worker'[j].job, worker'[j].index,
                              child'[j], ended'[j])
  BY DEF Working, Runs
<1>1. /\ proc[j] = "none" => worker[j] = NewWorker /\ child[j] = 0
      /\ proc[j] # "none" => file[j].status # "absent"
      /\ ~Runs(j) => worker[j] = NewWorker
      /\ Runs(j) => Held(worker[j].pc, worker[j].job, worker[j].index, child[j], ended[j])
  BY DEF Working
<1>2. Fate(j) /\ TypeOK'
  BY DEF Tables
<1>3. /\ file[j].status # "absent" => file'[j].status # "absent"
      /\ ended[j] \subseteq ended'[j] /\ 0 \in 0..N /\ N \in Nat /\ worker[j].index \in 1..N + 1
      /\ child[j] \in 0..N
  BY <1>2, FileStays, Shapes, WorkflowAssumption DEF Fate
<1>4. CASE Rests(j)
  <2>1. /\ worker'[j] = worker[j] /\ (proc'[j] \in Running <=> Runs(j))
        /\ proc'[j] = "none" <=> proc[j] = "none"
        /\ child'[j] \in {0, child[j]}
    BY <1>4 DEF Rests
  <2>2. Runs(j) => Held(worker'[j].pc, worker'[j].job, worker'[j].index, child'[j], ended'[j])
    BY <1>1, <1>3, <2>1
  <2> QED BY <1>1, <1>3, <2>1, <2>2
<1>5. CASE Works(j)
  <2>1. PICK p \in WorkerPcs, n \in 1..N + 1, job \in File, f \in File, c \in 0..N :
          /\ worker'[j].pc = p /\ worker'[j].index = n /\ worker'[j].job = job
          /\ file'[j] = f /\ child'[j] = c /\ Moves(j, p, n, job, f, c)
    BY <1>5 DEF Works
  <2>2. Runs(j) /\ proc'[j] = proc[j] /\ proc[j] # "none" /\ proc[j] \in Running
    BY <1>5 DEF Works, Runs, Running
  <2>3. file[j].status # "absent"
    BY <1>1, <2>2
  <2>4. Held(p, job, n, c, ended[j])
    BY <1>1, <1>3, <2>1, <2>2, <2>3 DEF Moves
  <2>5. Held(p, job, n, c, ended'[j])
    BY <1>3, <2>4
  <2> QED BY <1>3, <2>1, <2>2, <2>3, <2>5
<1>6. CASE Stops(j)
  BY <1>1, <1>3, <1>6 DEF Stops, Runs, Running
<1>7. CASE Raises(j)
  <2>1. Held(worker'[j].pc, worker'[j].job, worker'[j].index, child'[j], ended'[j])
    BY <1>1, <1>7 DEF Raises
  <2> QED BY <1>1, <1>3, <1>7, <2>1 DEF Raises, Runs, Running
<1>8. ASSUME NEW h \in Handlers, Spawned(h, j)
      PROVE  /\ proc'[j] = "alive" /\ worker'[j] = NewWorker /\ child'[j] = 0
             /\ file'[j].status # "absent"
  <2>1. proc[j] = "none" /\ file[j].status # "absent"
    BY <1>8 DEF Spawned, Requesting
  <2> QED BY <1>1, <1>3, <1>8, <2>1 DEF Spawned
<1>9. Held("boot", NewWorker.job, 1, 0, ended'[j])
  BY <1>3
<1>10. CASE \E h \in Handlers : Spawned(h, j)
  BY <1>8, <1>9, <1>10, NoRequestIs DEF Running
<1> QED BY <1>2, <1>4, <1>5, <1>6, <1>7, <1>10 DEF Fate

LEMMA CopyComes ==
  ASSUME Tables, NEW j \in Jobs, NEW f \in Copies(j)'
  PROVE  Derived(j, f)
<1>1. f = file'[j] \/ f = worker'[j].job \/ \E h \in Handlers : f = request'[h].read[j]
  BY DEF Copies
<1> QED BY <1>1 DEF Tables, Descends

LEMMA BegunKept ==
  ASSUME TypeOK, Requesting, Working, Begun, Tables, \A j \in Jobs : Rewrites(j)
  PROVE  Begun'
<1> SUFFICES ASSUME NEW j \in Jobs, NEW f \in Copies(j)'
             PROVE  /\ f.status # "absent" => file'[j].status # "absent"
                    /\ HasPid(f) => proc'[j] # "none"
  BY DEF Begun, HasPid
<1>1. Derived(j, f) /\ Fate(j) /\ TypeOK'
  BY CopyComes DEF Tables
<1>2. /\ file[j].status # "absent" => file'[j].status # "absent"
      /\ proc[j] # "none" => proc'[j] # "none"
  BY <1>1, FileStays, FateIs
<1>3. \A g \in Copies(j) : /\ g.status # "absent" => file[j].status # "absent"
                           /\ HasPid(g) => proc[j] # "none"
  BY DEF Begun
<1>4. CASE \E g \in Copies(j) : f.status = g.status /\ f.worker = g.worker /\ f.child \in {0, g.child}
  BY <1>2, <1>3, <1>4 DEF HasPid
<1>5. CASE f = NoFile
  BY <1>5, NoRequestIs DEF HasPid
<1>6. CASE f = Queued /\ file'[j] = Queued
  BY <1>6, NoRequestIs DEF HasPid
<1>7. Runs(j) => proc[j] # "none" /\ file[j].status # "absent"
  BY DEF Working, Runs, Running
<1>8. CASE Runs(j)
  BY <1>2, <1>7, <1>8
<1>9. ASSUME NEW g \in Copies(j), Corrects(j, f, g)
      PROVE  g.status # "absent" /\ (HasPid(f) => HasPid(g))
  BY <1>9 DEF Corrects, HasPid, Active
<1>10. ASSUME NEW h \in Handlers, SetsPid(h, j, f)
       PROVE  file[j].status # "absent" /\ proc[j] # "none"
  BY <1>10 DEF SetsPid, Requesting
<1>11. ASSUME NEW h \in Handlers, Marks(h, j, f)
       PROVE  file[j].status # "absent" /\ (HasPid(f) => proc[j] # "none")
  <2>1. request[h].read[j] \in Copies(j)
    BY CopyIs
  <2>2. file[j].status # "absent"
    BY <1>11 DEF Marks, Requesting
  <2> QED BY <1>3, <1>11, <2>1, <2>2 DEF Marks, HasPid
<1> QED BY <1>1, <1>2, <1>3, <1>4, <1>5, <1>6, <1>8, <1>9, <1>10, <1>11 DEF Derived, Begins, Finishes

LEMMA ToldKept ==
  ASSUME TypeOK, Requesting, Working, Told, Tables
  PROVE  Told'
<1> SUFFICES ASSUME NEW j \in Jobs, NEW f \in Copies(j)', f.status = "completed"
             PROVE  Done(j)'
  BY DEF Told
<1>1. Derived(j, f) /\ Fate(j) /\ TypeOK'
  BY CopyComes DEF Tables
<1>2. Done(j) => Done(j)'
  BY <1>1, FateIs
<1>3. \A g \in Copies(j) : g.status = "completed" => Done(j)
  BY DEF Told
<1>4. CASE \E g \in Copies(j) : f.status = g.status
  BY <1>2, <1>3, <1>4
<1>5. f # NoFile /\ f # Queued
  BY NoRequestIs
<1>6. CASE Runs(j) /\ worker[j].pc = "spawn" /\ f.status = worker[j].job.status
  BY <1>4, <1>6, CopyIs
<1>7. ASSUME NEW g \in Copies(j), Corrects(j, f, g)
      PROVE  FALSE
  BY <1>7 DEF Corrects
<1>8. ~Begins(j, f)
  BY DEF Begins
<1>9. CASE Finishes(j, f)
  <2>1. Runs(j) /\ worker[j].pc = "complete" /\ proc'[j] = proc[j] /\ worker'[j].pc = "exit"
    BY <1>9 DEF Finishes
  <2>2. child[j] = 0 /\ \A i \in 1..N : i \in ended[j]
    <3>1. /\ worker[j].index = N + 1 /\ child[j] = 0
          /\ \A i \in 1..N : i < worker[j].index => i \in ended[j]
      BY <2>1 DEF Working
    <3> QED BY <3>1, WorkflowAssumption
  <2>3. ended'[j] = 1..N
    BY <1>1, <2>2, Shapes DEF Fate, TypeOK
  <2>4. child'[j] = 0
    <3>1. CASE Works(j)
      BY <2>1, <2>2, <3>1 DEF Works, Moves
    <3> QED BY <1>1, <2>1, <2>2, <3>1 DEF Fate, Rests, Stops, Raises, Spawned
  <2> QED BY <2>1, <2>3, <2>4 DEF Done, Stopped, Live, Runs, Running
<1>10. ASSUME NEW h \in Handlers, SetsPid(h, j, f) PROVE Done(j)'
  BY <1>4, <1>10, CopyIs DEF SetsPid
<1>11. ASSUME NEW h \in Handlers, Marks(h, j, f) PROVE FALSE
  BY <1>11 DEF Marks
<1> QED BY <1>1, <1>4, <1>5, <1>6, <1>7, <1>8, <1>9, <1>10, <1>11 DEF Derived

LEMMA InvInit == Init => Inv
<1> SUFFICES ASSUME Init PROVE Inv
  OBVIOUS
<1>1. TypeOK
  BY NoRequestIs, WorkflowAssumption DEF Init, TypeOK, Workers, Requests, ProcStates
<1>2. Requesting
  BY NoRequestIs DEF Init, Requesting, InFlight
<1>3. Working
  BY NoRequestIs DEF Init, Working, Runs, Running
<1>4. \A j \in Jobs : \A f \in Copies(j) : f = NoFile
  BY NoRequestIs DEF Init, Copies
<1> QED BY <1>1, <1>2, <1>3, <1>4, NoRequestIs DEF Inv, Begun, Told, HasPid

LEMMA InvStep == Inv /\ [Next]_vars => Inv' /\ Tables /\ \A j \in Jobs : Rewrites(j)
BY StepTables, RewriteTable, RequestingKept, WorkingKept, BegunKept, ToldKept DEF Inv, Tables

LEMMA InvAlways == Spec => []Inv
BY InvInit, InvStep, PTL DEF Spec

\* A job whose file says completed has run each of its commands to a good end, and
\* nothing of it runs any more, whatever the requests, crashes and restarts.
THEOREM CompletedMeansRun == Spec => []CompletedRanAll
<1>1. Inv => CompletedRanAll
  BY CopyIs DEF Inv, Told, CompletedRanAll, Done, Stopped
<1> QED BY <1>1, InvAlways, PTL
------------------------------------------------------------------------------
(* One operator at a time.                                                 *)

LEMMA NobodyServed ==
  ASSUME Serial, InTurn, Cardinality(Serving({"start", "cancel"})) < MaxOperators
  PROVE  \A h \in Handlers : request[h].op \notin {"start", "cancel"}
<1> SUFFICES ASSUME NEW h \in Handlers, request[h].op \in {"start", "cancel"} PROVE FALSE
  OBVIOUS
<1>1. Serving({"start", "cancel"}) = {h}
  BY DEF Serving, InTurn
<1>2. Cardinality({h}) = 1
  BY FS_Singleton
<1> QED BY <1>1, <1>2 DEF Serial

LEMMA InTurnKept ==
  ASSUME TypeOK, Requesting, Serial, InTurn, Tables
  PROVE  InTurn'
<1>1. ASSUME NEW h \in Handlers, request'[h].op \in {"start", "cancel"}
      PROVE  \/ request[h].op = request'[h].op
             \/ /\ Asked(h) /\ request[h].op = "none"
                /\ \A g \in Handlers : request[g].op \notin {"start", "cancel"}
  <2>1. Plea(h)
    BY DEF Tables
  <2>2. CASE Closes(h)
    BY <1>1, <2>2, NoRequestIs DEF Closes
  <2>3. CASE Comes(h)
    <3>1. /\ Asked(h) /\ request[h].pc = "idle"
          /\ Cardinality(Serving({"start", "cancel"})) < MaxOperators
      BY <1>1, <2>3 DEF Comes, Arrives
    <3> QED BY <3>1, NobodyServed DEF Requesting
  <2>4. CASE \E j \in Jobs, f \in File : Judges(h, j, f)
    BY <2>4 DEF Judges, Keeps
  <2>5. CASE Grants(h) \/ Rereads(h) \/ MarksIt(h) \/ Kills(h) \/ request'[h] = request[h]
    BY <2>5 DEF Grants, Rereads, MarksIt, Kills, GoesTo, Keeps
  <2>6. CASE \E j \in Jobs : Spawned(h, j)
    BY <2>6 DEF Spawned, GoesTo, Keeps
  <2> QED BY <2>1, <2>2, <2>3, <2>4, <2>5, <2>6 DEF Plea
<1> SUFFICES ASSUME NEW g \in Handlers, NEW h \in Handlers,
                    request'[g].op \in {"start", "cancel"}, request'[h].op \in {"start", "cancel"}
             PROVE  g = h
  BY DEF InTurn
<1>2. request[g].op = request'[g].op /\ request[h].op = request'[h].op => g = h
  BY DEF InTurn
<1>3. \A k \in Handlers : \A i \in Handlers \ {k} : Asked(k) => request'[i].op = request[i].op
  BY DEF Asked
<1> QED BY <1>1, <1>2, <1>3

\* The files that name their workers.
LEMMA WorkerNamed ==
  ASSUME TypeOK, Requesting, Working, Begun, Pids, NEW j \in Jobs, Rewrites(j)
  PROVE  /\ file[j].worker => file'[j].worker
         /\ \/ file'[j] = file[j] \/ file'[j].worker
            \/ \E h \in Handlers : InFlight(h, j) /\ Grants(h)
<1>1. CASE Works(j)
  <2>1. PICK p \in WorkerPcs, n \in 1..N + 1, job \in File, f \in File, c \in 0..N :
          file'[j] = f /\ Moves(j, p, n, job, f, c)
    BY <1>1 DEF Works
  <2>2. worker[j].pc \notin {"boot", "bootWrite"} => file[j].worker /\ worker[j].job.worker
    BY <1>1 DEF Works, Pids
  <2>3. f = file[j] \/ f.worker
    BY <2>1, <2>2 DEF Moves
  <2> QED BY <2>1, <2>3
<1>2. ASSUME NEW h \in Handlers, InFlight(h, j), Grants(h)
      PROVE  ~file[j].worker
  BY <1>2, CopyIs DEF Grants, Requesting, Begun, HasPid
<1>3. ASSUME NEW h \in Handlers, NEW f \in File, Judges(h, j, f), file'[j] = f,
             f.status # request[h].read[j].status
      PROVE  file'[j].worker
  <2>1. PICK old \in File : old = request[h].read[j]
    BY Shapes
  <2>2. /\ f.status = Corrected(j, old) /\ f.status # old.status /\ f.worker = old.worker
        /\ old \in Copies(j)
    BY <1>3, <2>1, CopyIs DEF Judges
  <2>3. Named(old)
    BY <2>2 DEF Pids
  <2> QED BY <1>3, <2>2, <2>3, CorrectedIs DEF Named, HasPid, Final
<1>4. ASSUME NEW h \in Handlers, request[h].op = "cancel", request[h].job = j
      PROVE  request[h].read[j].worker
  BY <1>4 DEF Pids
<1> QED BY <1>1, <1>2, <1>3, <1>4 DEF Rewrites

LEMMA NamedKept ==
  ASSUME TypeOK, Requesting, Working, Begun, Pids, Tables, NEW j \in Jobs, NEW f \in Copies(j)'
  PROVE  Named(f)
<1>1. Derived(j, f) /\ \A g \in Copies(j) : Named(g)
  BY CopyComes DEF Pids
<1>2. CASE \E g \in Copies(j) : f.status = g.status /\ f.worker = g.worker /\ f.child \in {0, g.child}
  BY <1>1, <1>2 DEF Named
<1>3. Named(NoFile) /\ Named(Queued)
  BY NoRequestIs DEF Named, Final
<1>4. Runs(j) /\ worker[j].pc \notin {"boot", "bootWrite"} => worker[j].job.worker
  BY DEF Pids
<1>5. CASE Runs(j) /\ worker[j].pc = "spawn" /\ f.worker = worker[j].job.worker
  BY <1>4, <1>5 DEF Named
<1>6. CASE Finishes(j, f)
  BY <1>4, <1>6 DEF Finishes, Named
<1>7. ASSUME NEW g \in Copies(j), Corrects(j, f, g)
      PROVE  Named(f)
  BY <1>1, <1>7 DEF Corrects, Named, HasPid, Final
<1>8. ASSUME NEW h \in Handlers, SetsPid(h, j, f) \/ Marks(h, j, f)
      PROVE  Named(f)
  BY <1>8 DEF SetsPid, Marks, Pids, Named
<1> QED BY <1>1, <1>2, <1>3, <1>5, <1>6, <1>7, <1>8 DEF Derived, Begins, Named

LEMMA PidsKept ==
  ASSUME TypeOK, Requesting, Working, Begun, Serial, InTurn, Pids, Tables,
         \A j \in Jobs : Rewrites(j), spent'.restarts = 0
  PROVE  Pids'
<1>1. ASSUME NEW j \in Jobs, file'[j].status # "absent", ~Starting(j)'
      PROVE  file'[j].worker
  <2>1. \/ file'[j] = file[j] \/ file'[j].worker
        \/ \E h \in Handlers : InFlight(h, j) /\ Grants(h)
    BY WorkerNamed
  <2>2. ASSUME NEW h \in Handlers, InFlight(h, j), Grants(h) PROVE FALSE
    <3>1. InFlight(h, j)' /\ request'[h].pc = "spawn"
      BY <2>2 DEF Grants, GoesTo, Keeps, InFlight
    <3> QED BY <1>1, <3>1 DEF Starting
  <2>3. file[j].status # "absent" /\ ~Starting(j) => file[j].worker
    BY DEF Pids
  <2>4. ASSUME NEW h \in Handlers, InFlight(h, j), request[h].pc # "judge"
        PROVE  file'[j].worker
    <3>1. Plea(h) /\ request[h].op = "start" /\ request[h].job = j /\ request[h].pc # "idle"
      BY <2>4 DEF Tables, InFlight, Requesting
    <3>2. CASE request'[h] = request[h] \/ Rereads(h) \/ \E i \in Jobs : Spawned(h, i)
      <4>1. InFlight(h, j)' /\ request'[h].pc # "judge"
        BY <2>4, <3>2 DEF Rereads, Spawned, GoesTo, Keeps, InFlight
      <4> QED BY <1>1, <4>1 DEF Starting
    <3>3. CASE Closes(h)
      BY <2>4, <3>1, <3>3 DEF Closes
    <3>4. ~Comes(h) /\ ~Grants(h) /\ ~MarksIt(h) /\ ~Kills(h)
      BY <2>4, <3>1 DEF Comes, Arrives, Grants, MarksIt, Kills
    <3>5. ~ \E i \in Jobs, f \in File : Judges(h, i, f)
      BY <2>4 DEF Judges
    <3> QED BY <3>1, <3>2, <3>3, <3>4, <3>5 DEF Plea
  <2> QED BY <1>1, <2>1, <2>2, <2>3, <2>4 DEF Starting
<1>2. ASSUME NEW j \in Jobs, proc'[j] \in Running, worker'[j].pc \notin {"boot", "bootWrite"}
      PROVE  file'[j].worker /\ worker'[j].job.worker
  <2>1. /\ file[j].worker => file'[j].worker
        /\ Runs(j) /\ worker[j].pc \notin {"boot", "bootWrite"} =>
             file[j].worker /\ worker[j].job.worker
    BY WorkerNamed DEF Pids
  <2>2. CASE Rests(j) \/ Raises(j)
    BY <1>2, <2>1, <2>2 DEF Rests, Raises
  <2>3. CASE Works(j)
    <3>1. PICK p \in WorkerPcs, n \in 1..N + 1, job \in File, f \in File, c \in 0..N :
            /\ worker'[j].pc = p /\ worker'[j].job = job
            /\ file'[j] = f /\ Moves(j, p, n, job, f, c)
      BY <2>3 DEF Works
    <3>2. Runs(j)
      BY <2>3 DEF Works
    <3>3. f.worker /\ job.worker
      BY <1>2, <2>1, <3>1, <3>2 DEF Moves
    <3> QED BY <3>1, <3>3
  <2>4. ~Stops(j)
    BY <1>2 DEF Stops, Running
  <2>5. \A h \in Handlers : ~Spawned(h, j)
    BY <1>2, NoRequestIs DEF Spawned, Requesting, Working
  <2> QED BY <2>2, <2>3, <2>4, <2>5 DEF Tables, Fate
<1>3. ASSUME NEW j \in Jobs, NEW h \in Handlers, request'[h].op = "cancel", request'[h].job = j
      PROVE  request'[h].read[j].worker
  <2>1. Plea(h)
    BY DEF Tables
  <2>2. request[h].op = "cancel" /\ request[h].job = j =>
          request[h].read[j].worker /\ request[h].pc # "judge"
    BY DEF Pids, Requesting
  <2>3. CASE request'[h] = request[h] \/ Kills(h)
    BY <1>3, <2>2, <2>3 DEF Kills, GoesTo, Keeps
  <2>4. CASE MarksIt(h)
    BY <1>3, <2>2, <2>4 DEF MarksIt, Keeps
  <2>5. CASE Comes(h)
    <3>1. /\ Arrives(h, "cancel", j, "cancelling", {}) /\ file[j].status # "absent"
      BY <1>3, <2>5 DEF Comes, Arrives
    <3>2. ~Starting(j)
      <4>1. Cardinality(Serving({"start", "cancel"})) < MaxOperators
        BY <3>1 DEF Arrives
      <4> QED BY <4>1, NobodyServed DEF Starting, InFlight
    <3>3. request'[h].read[j] = file[j]
      BY <3>1 DEF Arrives
    <3> QED BY <3>1, <3>2, <3>3 DEF Pids
  <2>6. ~Grants(h) /\ ~Rereads(h) /\ ~ \E i \in Jobs : Spawned(h, i)
    BY <1>3 DEF Grants, Rereads, Spawned, GoesTo, Keeps, InFlight
  <2>7. ~ \E i \in Jobs, f \in File : Judges(h, i, f)
    BY <1>3, <2>2 DEF Judges, Keeps
  <2>8. ~Closes(h)
    BY <1>3, NoRequestIs DEF Closes
  <2> QED BY <2>1, <2>3, <2>4, <2>5, <2>6, <2>7, <2>8 DEF Plea
<1>4. \A j \in Jobs : \A f \in Copies(j)' : Named(f)
  BY NamedKept
<1> QED BY <1>1, <1>2, <1>3, <1>4 DEF Pids, Named, Runs

LEMMA LastWordKept ==
  ASSUME TypeOK, Requesting, Working, Begun, Pids, LastWord, Tables
  PROVE  LastWord'
<1>1. ASSUME NEW j \in Jobs
      PROVE  Stopped(j) => Stopped(j)'
  BY FateIs DEF Tables
<1>2. ASSUME NEW j \in Jobs, NEW f \in Copies(j)', f.status \in Final
      PROVE  Stopped(j)'
  <2>1. Derived(j, f) /\ \A g \in Copies(j) : g.status \in Final => Stopped(j)
    BY CopyComes DEF LastWord
  <2>2. CASE \E g \in Copies(j) : f.status = g.status
    BY <1>1, <1>2, <2>1, <2>2
  <2>3. f # NoFile /\ f # Queued /\ ~Begins(j, f)
    BY <1>2, NoRequestIs DEF Final, Begins
  <2>4. CASE f.status = worker[j].job.status
    BY <2>2, <2>4, CopyIs
  <2>5. ASSUME NEW g \in Copies(j), Corrects(j, f, g) PROVE Stopped(j)
    <3>1. HasPid(g) /\ ~WorkerAlive(j, g)
      BY <1>2, <2>5 DEF Corrects, Final
    <3>2. g.worker /\ proc[j] # "none"
      BY <3>1 DEF Pids, Named, HasPid, Begun
    <3> QED BY <3>1, <3>2 DEF WorkerAlive, Stopped, Live
  <2>6. CASE Finishes(j, f)
    BY <2>6 DEF Finishes, Stopped, Live, Runs, Running
  <2>7. ASSUME NEW h \in Handlers, SetsPid(h, j, f) PROVE Stopped(j)'
    BY <1>2, <2>2, <2>7, CopyIs DEF SetsPid, Final
  <2>8. ASSUME NEW h \in Handlers, Marks(h, j, f) PROVE Stopped(j)
    BY <1>2, <2>8 DEF Marks, Final, LastWord
  <2> QED BY <1>1, <2>1, <2>2, <2>3, <2>4, <2>5, <2>6, <2>7, <2>8 DEF Derived
<1>3. ASSUME NEW j \in Jobs, NEW h \in Handlers, request'[h].job = j, request'[h].pc = "cancelled"
      PROVE  Stopped(j)'
  <2>1. Plea(h)
    BY DEF Tables
  <2>2. CASE request'[h] = request[h]
    BY <1>1, <1>3, <2>2 DEF LastWord
  <2>3. CASE Kills(h)
    <3>1. request[h].op = "cancel" /\ request[h].job = j
      BY <1>3, <2>3 DEF Kills, GoesTo, Keeps
    <3>2. request[h].read[j].worker /\ proc[j] # "none"
      BY <3>1, CopyIs DEF Pids, Begun, HasPid
    <3>3. proc'[j] \notin Running /\ proc'[j] # "none"
      <4>1. Fate(j) /\ TypeOK'
        BY DEF Tables
      <4> QED BY <2>3, <3>1, <3>2, <4>1, FateIs DEF Kills
    <3> QED BY <3>3 DEF Stopped, Live
  <2>4. ~Comes(h) /\ ~Closes(h) /\ ~Grants(h) /\ ~Rereads(h) /\ ~MarksIt(h)
    BY <1>3, NoRequestIs DEF Comes, Arrives, Closes, Grants, Rereads, MarksIt, GoesTo, Keeps
  <2>5. /\ ~ \E i \in Jobs, f \in File : Judges(h, i, f)
        /\ ~ \E i \in Jobs : Spawned(h, i)
    BY <1>3 DEF Judges, Spawned, GoesTo
  <2> QED BY <2>1, <2>2, <2>3, <2>4, <2>5 DEF Plea
<1> QED BY <1>2, <1>3 DEF LastWord

LEMMA OneLiveKept ==
  ASSUME TypeOK, Requesting, Working, Begun, InTurn, Pids, LastWord, OneLive, Tables
  PROVE  OneLive'
<1>1. ASSUME NEW j \in Jobs, Live(j)'
      PROVE  Live(j) \/ \E h \in Handlers : Spawned(h, j)
  BY <1>1, FateIs DEF Tables
<1>2. ASSUME NEW j \in Jobs, Live(j)
      PROVE  /\ file[j].status \in Active
             /\ \A f \in Copies(j) : HasPid(f) => WorkerAlive(j, f)
  <2>1. proc[j] \in Running /\ ~Stopped(j)
    BY <1>2 DEF Live, Stopped
  <2>2. file[j].status # "absent" /\ file[j].status \notin Final /\ file[j] \in File
    BY <2>1, CopyIs, Shapes DEF Working, Running, LastWord
  <2>3. \A f \in Copies(j) : HasPid(f) => f.worker
    BY DEF Pids, Named, HasPid
  <2> QED BY <2>1, <2>2, <2>3 DEF File, WorkerAlive
<1>3. ASSUME NEW i \in Jobs, NEW j \in Jobs, Live(i)', Live(j)'
      PROVE  i = j
  <2>1. \A h \in Handlers : \A k \in Jobs : Spawned(h, k) =>
          /\ request[h].op = "start" /\ request[h].job = k /\ \A l \in Jobs : ~Live(l)
    BY DEF Spawned, InFlight, OneLive
  <2>2. Live(i) /\ Live(j) => i = j
    BY DEF OneLive
  <2> QED BY <1>1, <1>3, <2>1, <2>2 DEF InTurn
<1>4. ASSUME NEW h \in Handlers, request'[h].op = "start", request'[h].pc = "judge",
             NEW i \in Jobs, Live(i)'
      PROVE  Known(h, i)'
  <2>1. Plea(h)
    BY DEF Tables
  <2>2. CASE Comes(h)
    <3>1. PICK j \in Jobs : Arrives(h, "start", j, "judge", Listed)
      BY <1>4, <2>2 DEF Comes, Arrives
    <3>2. Live(i)
      BY <1>4, <3>1 DEF Arrives, Live
    <3>3. file[i].status \in Active /\ i \in Listed
      BY <1>2, <3>2 DEF Listed, Active
    <3> QED BY <3>1, <3>3 DEF Arrives, Known
  <2>3. ASSUME request[h].op = "start", request[h].pc = "judge"
        PROVE  Live(i) /\ Known(h, i)
    <3>1. \A g \in Handlers : ~Spawned(g, i)
      BY <2>3 DEF Spawned, InFlight, InTurn
    <3> QED BY <1>1, <1>4, <2>3, <3>1 DEF OneLive
  <2>4. CASE request'[h] = request[h]
    BY <1>4, <2>3, <2>4 DEF Known
  <2>5. ASSUME NEW k \in Jobs, NEW f \in File, Judges(h, k, f)
        PROVE  Known(h, i)'
    <3>1. Live(i) /\ Known(h, i)
      BY <1>4, <2>3, <2>5 DEF Judges, Keeps
    <3>2. CASE request[h].active
      BY <2>5, <3>2 DEF Judges, Known
    <3>3. CASE i # k /\ i \in request[h].todo /\ request[h].read[i].status \in Active
      BY <2>5, <3>3 DEF Judges, Known
    <3>4. CASE i = k /\ request[h].read[i].status \in Active
      <4>1. PICK old \in File : old = request[h].read[i]
        BY Shapes
      <4>2. f.status = Corrected(i, old) /\ old \in Copies(i) /\ old.status \in Active
        BY <2>5, <3>4, <4>1, CopyIs DEF Judges
      <4>3. f.status \in Active
        BY <1>2, <3>1, <4>2, CorrectedIs DEF Active
      <4> QED BY <2>5, <4>3 DEF Judges, Known
    <3> QED BY <3>1, <3>2, <3>3, <3>4 DEF Known
  <2>6. ~Closes(h) /\ ~Grants(h) /\ ~Rereads(h) /\ ~MarksIt(h) /\ ~Kills(h)
    BY <1>4, NoRequestIs DEF Closes, Grants, Rereads, MarksIt, Kills, GoesTo, Keeps
  <2>7. ~ \E j \in Jobs : Spawned(h, j)
    BY <1>4 DEF Spawned, GoesTo
  <2> QED BY <2>1, <2>2, <2>4, <2>5, <2>6, <2>7 DEF Plea
<1>5. ASSUME NEW h \in Handlers, request'[h].op = "start", request'[h].pc = "spawn",
             NEW i \in Jobs, Live(i)'
      PROVE  FALSE
  <2>1. Plea(h)
    BY DEF Tables
  <2>2. CASE Grants(h)
    <3>1. request[h].op = "start" /\ request[h].pc = "judge" /\ ~Known(h, i)
      BY <2>2 DEF Grants, Known
    <3>2. Live(i)
      BY <1>5, <2>2 DEF Grants, Live
    <3> QED BY <3>1, <3>2 DEF OneLive
  <2>3. CASE request'[h] = request[h]
    <3>1. \A g \in Handlers : ~Spawned(g, i)
      BY <1>5, <2>3 DEF Spawned, InFlight, InTurn, GoesTo
    <3> QED BY <1>1, <1>5, <2>3, <3>1 DEF OneLive
  <2>4. ~Closes(h) /\ ~Comes(h) /\ ~Rereads(h) /\ ~MarksIt(h) /\ ~Kills(h)
    BY <1>5, NoRequestIs DEF Closes, Comes, Arrives, Rereads, MarksIt, Kills, GoesTo, Keeps
  <2>5. /\ ~ \E j \in Jobs : Spawned(h, j)
        /\ ~ \E j \in Jobs, f \in File : Judges(h, j, f)
    BY <1>5 DEF Spawned, GoesTo, Judges
  <2> QED BY <2>1, <2>2, <2>3, <2>4, <2>5 DEF Plea
<1> QED BY <1>3, <1>4, <1>5 DEF OneLive

LEMMA AttendedKept ==
  ASSUME TypeOK, Requesting, Working, Attended, Tables
  PROVE  Attended'
<1> SUFFICES ASSUME platform' = "nt", spent'.crashes = 0, NEW j \in Jobs, child'[j] # 0
             PROVE  proc'[j] \in Running /\ worker'[j].pc \in {"note", "wait"}
  BY DEF Attended, Runs
<1>1. platform = "nt" /\ spent.crashes = 0 /\ Fate(j)
  BY DEF Tables, Tally
<1>2. child[j] # 0 => Runs(j) /\ worker[j].pc \in {"note", "wait"}
  BY <1>1 DEF Attended
<1>3. CASE Rests(j)
  BY <1>2, <1>3 DEF Rests
<1>4. CASE Works(j)
  <2>1. PICK p \in WorkerPcs, n \in 1..N + 1, job \in File, f \in File, c \in 0..N :
          worker'[j].pc = p /\ child'[j] = c /\ Moves(j, p, n, job, f, c)
    BY <1>4 DEF Works
  <2>2. Runs(j) /\ proc'[j] = proc[j]
    BY <1>4 DEF Works
  <2> QED BY <1>2, <2>1, <2>2 DEF Moves, Runs
<1>5. ~Stops(j) /\ ~Raises(j)
  BY <1>1, <1>2 DEF Stops, Raises
<1>6. \A h \in Handlers : ~Spawned(h, j)
  BY DEF Spawned, Requesting, Working
<1> QED BY <1>1, <1>3, <1>4, <1>5, <1>6 DEF Fate

LEMMA SteadyAlways == Serial => (Spec => [](Inv /\ Steady))
<1> SUFFICES ASSUME Serial PROVE Spec => [](Inv /\ Steady)
  OBVIOUS
<1>1. Init => Inv /\ Steady
  <2> SUFFICES ASSUME Init PROVE Steady
    BY InvInit
  <2>1. \A j \in Jobs : \A f \in Copies(j) : f = NoFile
    BY NoRequestIs DEF Init, Copies
  <2>2. InTurn
    BY NoRequestIs DEF Init, InTurn
  <2>3. Pids /\ LastWord
    BY <2>1, NoRequestIs DEF Init, Pids, Named, Final, Runs, Running, LastWord
  <2>4. OneLive /\ Attended
    BY NoRequestIs DEF Init, OneLive, Live, Running, Attended
  <2> QED BY <2>2, <2>3, <2>4 DEF Steady
<1>2. Inv /\ Steady /\ [Next]_vars => (Inv /\ Steady)'
  <2> SUFFICES ASSUME Inv, Steady, [Next]_vars PROVE (Inv /\ Steady)'
    OBVIOUS
  <2>1. /\ Inv' /\ Tables /\ \A j \in Jobs : Rewrites(j)
        /\ TypeOK /\ Requesting /\ Working /\ Begun /\ InTurn
    BY InvStep DEF Inv, Steady
  <2>2. InTurn'
    BY <2>1, InTurnKept
  <2>3. ASSUME spent'.restarts = 0 PROVE (Pids /\ LastWord /\ OneLive /\ Attended)'
    <3>1. Pids /\ LastWord /\ OneLive /\ Attended
      BY <2>1, <2>3 DEF Steady, Tables, Tally
    <3> QED BY <2>1, <2>3, <3>1, PidsKept, LastWordKept, OneLiveKept, AttendedKept
  <2> QED BY <2>1, <2>2, <2>3 DEF Steady
<1> QED BY <1>1, <1>2, PTL DEF Spec

\* While one operator's requests follow each other and the server is not restarted,
\* no command of a cancelled job is started any more: cancel_workflow's last write
\* follows a kill that found the worker, and nothing revives it.
THEOREM CancelledStops == Serial => (Spec => CancelStops)
<1> SUFFICES ASSUME Serial PROVE Spec => CancelStops
  OBVIOUS
<1>1. Inv /\ Steady /\ [Next]_vars =>
        [spent.restarts = 0 =>
           \A j \in Jobs : file[j].status = "cancelled" => child'[j] \in {0, child[j]}]_vars
  <2> SUFFICES ASSUME Inv, Steady, [Next]_vars, spent.restarts = 0,
                      NEW j \in Jobs, file[j].status = "cancelled"
               PROVE  child'[j] \in {0, child[j]}
    OBVIOUS
  <2>1. Stopped(j)
    BY CopyIs DEF Steady, LastWord, Final
  <2>2. TypeOK' /\ Fate(j) /\ TypeOK /\ Requesting /\ Working
    BY InvStep DEF Tables, Inv
  <2> QED BY <2>1, <2>2, FateIs
<1> QED BY <1>1, SteadyAlways, PTL DEF Spec, CancelStops

\* As long, no two jobs have a worker that has not written its last status: the
\* start that is granted has judged every job that lives.
THEOREM OneWorkerLives ==
  Serial => (Spec => [](spent.restarts = 0 => \A i, j \in Jobs : Live(i) /\ Live(j) => i = j))
<1> SUFFICES ASSUME Serial
             PROVE  Spec => [](spent.restarts = 0 =>
                                 \A i, j \in Jobs : Live(i) /\ Live(j) => i = j)
  OBVIOUS
<1>1. Inv /\ Steady => (spent.restarts = 0 => \A i, j \in Jobs : Live(i) /\ Live(j) => i = j)
  BY DEF Steady, OneLive
<1> QED BY <1>1, SteadyAlways, PTL

\* On Windows, without a crash, at most one command runs: taskkill takes the
\* command with its worker, and a worker leaves only when its command has ended.
THEOREM OneCommandRuns == Serial => (Spec => []OneExperimentOnNt)
<1> SUFFICES ASSUME Serial PROVE Spec => []OneExperimentOnNt
  OBVIOUS
<1>1. Inv /\ Steady => OneExperimentOnNt
  <2> SUFFICES ASSUME Steady, platform = "nt", spent.crashes = 0, spent.restarts = 0
               PROVE  Cardinality({j \in Jobs : child[j] # 0}) <= 1
    BY DEF OneExperimentOnNt, OneExperiment
  <2>1. \A j \in Jobs : child[j] # 0 => Live(j)
    BY DEF Steady, Attended, Live, Runs
  <2>2. \A i, j \in Jobs : child[i] # 0 /\ child[j] # 0 => i = j
    BY <2>1 DEF Steady, OneLive
  <2>3. CASE {j \in Jobs : child[j] # 0} = {}
    BY <2>3, FS_EmptySet
  <2>4. CASE {j \in Jobs : child[j] # 0} # {}
    <3>1. PICK j \in Jobs : child[j] # 0
      BY <2>4
    <3>2. {i \in Jobs : child[i] # 0} = {j}
      BY <2>2, <3>1
    <3> QED BY <3>2, FS_Singleton
  <2> QED BY <2>3, <2>4
<1> QED BY <1>1, SteadyAlways, PTL
==============================================================================
