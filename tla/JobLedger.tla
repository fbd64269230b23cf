------------------------------ MODULE JobLedger ------------------------------
(***************************************************************************)
(* What batch judgement promises the operator of the console, without its  *)
(* threads, tables and caches: a job owns a fixed set of samples; each is  *)
(* open until it gets its one outcome; a job is closed only when none of   *)
(* its samples is open. The promise binds while the clients keep to one    *)
(* request about a job at a time and to resuming paused jobs only;         *)
(* BatchJobs implements it.                                                *)
(***************************************************************************)
CONSTANTS Md5s, Jobs

VARIABLES
  phase,    \* phase[j]: "none", "open" or "closed"
  outcome,  \* outcome[j][m]: "absent", "open", "completed" or "failed"
  binding   \* the clients have kept their side

ledger == <<phase, outcome, binding>>

Phases == {"none", "open", "closed"}
Outcomes == {"absent", "open", "completed", "failed"}
Final == {"completed", "failed"}

Init ==
  /\ phase = [j \in Jobs |-> "none"]
  /\ outcome = [j \in Jobs |-> [m \in Md5s |-> "absent"]]
  /\ binding = TRUE

Open(j, S) ==
  /\ phase[j] = "none" /\ S # {}
  /\ phase' = [phase EXCEPT ![j] = "open"]
  /\ outcome' = [outcome EXCEPT ![j] = [m \in Md5s |-> IF m \in S THEN "open" ELSE "absent"]]

Settle(j, m, o) ==
  /\ phase[j] = "open" /\ outcome[j][m] = "open"
  /\ outcome' = [outcome EXCEPT ![j][m] = o]
  /\ UNCHANGED phase

Close(j) ==
  /\ phase[j] = "open"
  /\ \A m \in Md5s : outcome[j][m] # "open"
  /\ phase' = [phase EXCEPT ![j] = "closed"]
  /\ UNCHANGED outcome

\* A pause request that was already being served when the job closed takes the
\* job back to "pausing"; its outcomes stay.
Reopen(j) ==
  /\ phase[j] = "closed"
  /\ phase' = [phase EXCEPT ![j] = "open"]
  /\ UNCHANGED outcome

\* A restart that empties the queue tables forgets every job.
Forget == phase' = [j \in Jobs |-> "none"]
          /\ outcome' = [j \in Jobs |-> [m \in Md5s |-> "absent"]]

Keep ==
  \/ \E j \in Jobs, S \in SUBSET Md5s : Open(j, S)
  \/ \E j \in Jobs, m \in Md5s, o \in Final : Settle(j, m, o)
  \/ \E j \in Jobs : Close(j) \/ Reopen(j)
  \/ Forget

\* Once a client has not kept its side, nothing is promised any more.
Next ==
  \/ Keep /\ UNCHANGED binding
  \/ binding' = FALSE

Spec == Init /\ [][Next]_ledger
==============================================================================
