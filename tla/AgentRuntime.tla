----------------------------- MODULE AgentRuntime -----------------------------
(***************************************************************************)
(* AgentRuntime.execute and run_with_retries of                            *)
(* malapp/orchestration/runtime.py: the caller submits the agents to a     *)
(* thread pool and polls their futures; workers run them with retries; an  *)
(* agent whose time since submission is over is cancelled, which stops it  *)
(* only in the queue. Time is the step Elapse. The pool (submit, cancel,   *)
(* shutdown) is the standard library's. Scores, events and latencies are   *)
(* left out, and so are the injected faults: an attempt may just fail.     *)
(***************************************************************************)
EXTENDS Naturals, FiniteSets, Sequences

CONSTANTS Registry, Disabled,     \* the agents, and those that the config disables
          MaxWorkers, MaxRetries  \* of the config

ASSUME RuntimeAssumption ==
  /\ IsFiniteSet(Registry) /\ Disabled \subseteq Registry
  /\ MaxWorkers \in Nat \ {0} /\ MaxRetries \in Nat

VARIABLES
  main,      \* the caller: "submit", "poll", "finished"
  todo,      \* agents not yet submitted
  queue,     \* of the pool
  future,    \* state of each agent's future
  attempt,   \* of run_with_retries
  outcome,   \* what the future returns
  futures,   \* the dict that the poll loop empties
  pass,      \* those left in this pass over it
  elapsed,   \* agents whose timeout is over
  seen,      \* elapsed at the start of the pass (now)
  result     \* results[agent]

runtimeVars == <<main, todo, queue, future, attempt, outcome, futures, pass, elapsed, seen, result>>
pool == <<queue, future, attempt, outcome>>
caller == <<main, todo, futures, pass, seen, result>>
------------------------------------------------------------------------------
Outcomes == {"completed", "failed", "timeout"}
FutureStates == {"none", "queued", "running", "done", "cancelled"}

\* Types; among them: no agent is attempted more often than once and its retries.
RuntimeTypeOK ==
  /\ main \in {"submit", "poll", "finished"}
  /\ todo \subseteq Registry /\ futures \subseteq Registry /\ pass \subseteq futures
  /\ elapsed \subseteq Registry /\ seen \subseteq elapsed
  /\ queue \in Seq(Registry)
  /\ future \in [Registry -> FutureStates]
  /\ attempt \in [Registry -> 0..MaxRetries + 1]
  /\ outcome \in [Registry -> Outcomes \cup {"none"}]
  /\ result \in [Registry -> Outcomes \cup {"none", "skipped"}]

RuntimeInit ==
  /\ main = (IF Registry = {} THEN "poll" ELSE "submit") /\ todo = Registry
  /\ queue = <<>> /\ future = [a \in Registry |-> "none"]
  /\ attempt = [a \in Registry |-> 0] /\ outcome = [a \in Registry |-> "none"]
  /\ futures = {} /\ pass = {} /\ elapsed = {} /\ seen = {}
  /\ result = [a \in Registry |-> "none"]
------------------------------------------------------------------------------
\* The first loop: a disabled agent is skipped, the others are submitted.
Submit(a) ==
  /\ main = "submit" /\ a \in todo
  /\ todo' = todo \ {a}
  /\ IF a \in Disabled
     THEN result' = [result EXCEPT ![a] = "skipped"] /\ UNCHANGED <<queue, future, futures>>
     ELSE /\ queue' = Append(queue, a)
          /\ future' = [future EXCEPT ![a] = "queued"]
          /\ futures' = futures \cup {a}
          /\ UNCHANGED result
  /\ main' = IF todo' = {} THEN "poll" ELSE main
  /\ UNCHANGED <<attempt, outcome, pass, elapsed, seen>>

\* while futures: a pass starts with one reading of the clock, or the loop ends
\* and the pool is shut down without waiting; what is still queued is cancelled.
StartPass ==
  /\ main = "poll" /\ pass = {} /\ futures # {}
  /\ pass' = futures /\ seen' = elapsed
  /\ UNCHANGED <<main, todo, pool, futures, elapsed, result>>

Finish ==
  /\ main = "poll" /\ futures = {}
  /\ main' = "finished"
  /\ future' = [a \in Registry |-> IF future[a] = "queued" THEN "cancelled" ELSE future[a]]
  /\ UNCHANGED <<todo, queue, attempt, outcome, futures, pass, elapsed, seen, result>>

Report(a, status) == result' = [result EXCEPT ![a] = status]
Turn(a) == main = "poll" /\ a \in pass /\ pass' = pass \ {a}

\* One future of the pass: a done one is taken before the clock is looked at.
Take(a) ==
  /\ Turn(a) /\ future[a] = "done"
  /\ Report(a, outcome[a])
  /\ futures' = futures \ {a}
  /\ UNCHANGED <<main, todo, pool, elapsed, seen>>

\* Mutants: only one that is still queued times out; the clock is not looked at.
TimeOut_QueuedOnly(a) ==
  /\ Turn(a) /\ future[a] = "queued" /\ a \in seen
  /\ future' = [future EXCEPT ![a] = "cancelled"]
  /\ Report(a, "timeout")
  /\ futures' = futures \ {a}
  /\ UNCHANGED <<main, todo, queue, attempt, outcome, elapsed, seen>>

TimeOut_AtOnce(a) ==
  /\ Turn(a) /\ future[a] # "done"
  /\ future' = [future EXCEPT ![a] = IF @ = "queued" THEN "cancelled" ELSE @]
  /\ Report(a, "timeout")
  /\ futures' = futures \ {a}
  /\ UNCHANGED <<main, todo, queue, attempt, outcome, elapsed, seen>>

TimeOut(a) ==
  /\ Turn(a) /\ future[a] # "done" /\ a \in seen
  /\ future' = [future EXCEPT ![a] = IF @ = "queued" THEN "cancelled" ELSE @]
  /\ Report(a, "timeout")
  /\ futures' = futures \ {a}
  /\ UNCHANGED <<main, todo, queue, attempt, outcome, elapsed, seen>>

WaitOn(a) ==
  /\ Turn(a) /\ future[a] # "done" /\ a \notin seen
  /\ UNCHANGED <<main, todo, pool, futures, elapsed, seen, result>>
------------------------------------------------------------------------------
\* A worker takes the head of the queue; a cancelled future is dropped there.
Running == {a \in Registry : future[a] = "running"}

Work ==
  /\ queue # <<>> /\ Cardinality(Running) < MaxWorkers
  /\ queue' = Tail(queue)
  /\ LET a == Head(queue) IN
     IF future[a] = "cancelled" THEN UNCHANGED <<future, attempt>>
     ELSE /\ future' = [future EXCEPT ![a] = "running"]
          /\ attempt' = [attempt EXCEPT ![a] = 1]
  /\ UNCHANGED <<outcome, caller, elapsed>>

Return(a, value) ==
  /\ future[a] = "running"
  /\ future' = [future EXCEPT ![a] = "done"]
  /\ outcome' = [outcome EXCEPT ![a] = value]
  /\ UNCHANGED <<queue, attempt, caller, elapsed>>

\* run_with_retries: an attempt that raises is retried until none is left.
Retries == MaxRetries

Retry(a) ==
  /\ future[a] = "running" /\ attempt[a] <= Retries
  /\ attempt' = [attempt EXCEPT ![a] = @ + 1]
  /\ UNCHANGED <<queue, future, outcome, caller, elapsed>>

GiveUp(a) ==
  /\ attempt[a] > Retries
  /\ \E value \in {"failed", "timeout"} : Return(a, value)

Complete(a) == Return(a, "completed")

Elapse(a) ==
  /\ a \in futures \ elapsed
  /\ elapsed' = elapsed \cup {a}
  /\ UNCHANGED <<pool, caller>>

Poll == StartPass \/ Finish \/ \E a \in Registry : Submit(a) \/ Take(a) \/ TimeOut(a) \/ WaitOn(a)
RuntimeNext == Poll \/ Work \/ \E a \in Registry : Retry(a) \/ GiveUp(a) \/ Complete(a) \/ Elapse(a)
RuntimeSpec == RuntimeInit /\ [][RuntimeNext]_runtimeVars

\* The caller's thread runs and time passes; nothing is assumed of the workers:
\* an agent may hang for good.
FairSpec == RuntimeSpec /\ WF_runtimeVars(Poll) /\ \A a \in Registry : WF_runtimeVars(Elapse(a))
------------------------------------------------------------------------------
\* An agent is reported once: a late end of its thread, or its cancellation,
\* never changes the result that the judgement already uses.
ResultIsFinal == [][\A a \in Registry : result[a] # "none" => result'[a] = result[a]]_runtimeVars

\* An agent that is reported as timed out while it waits for a worker never
\* starts afterwards: no work is done for a judgement that has gone on.
NoLateStart == [][\A a \in Registry :
  result[a] = "timeout" /\ future[a] # "running" => future'[a] # "running"]_runtimeVars

\* When execute returns, every agent has its result: the one its thread returned,
\* or a timeout that is not reported before the time was over.
Accounted == main = "finished" => \A a \in Registry :
  \/ a \in Disabled /\ result[a] = "skipped"
  \/ a \notin Disabled /\ result[a] = outcome[a] /\ outcome[a] # "none"
  \/ a \in elapsed /\ result[a] = "timeout"

\* The judgement goes on whatever its agents do, hang for good included.
ExecuteReturns == <>(main = "finished")
==============================================================================
