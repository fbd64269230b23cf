------------------------------- MODULE Promotion -------------------------------
(***************************************************************************)
(* Governance commands (scripts/governance/manage over                     *)
(* malapp/governance/promotion.py) as processes that share the registry    *)
(* file, its lock file and the gate reports. Each command that mutates the *)
(* registry creates the lock file exclusively, loads the registry, applies *)
(* its mutation, replaces the file and removes the lock; a command that    *)
(* evaluates a candidate first replaces the candidate's gate report,       *)
(* outside the lock. A process may crash anywhere and leaves the lock.     *)
(***************************************************************************)
EXTENDS ChampionRegistry

CONSTANTS Procs,
          InitialRegistries,         \* registry files earlier commands left
          MaxCommands, MaxCrashes    \* bounds of the runs

\* ChampionRegistry's `registry` is model-registry.json.
VARIABLES
  lockFile,   \* does model-registry.json.lock exist
  gateFile,   \* gates/<candidate>.json
  gateTmp,    \* gates/<candidate>.json.tmp
  pc,         \* the processes: where each one is,
  request,    \*   what it was asked to do
  copy,       \*   and the registry it has loaded
  spent       \* what the bounds have used

vars == <<registry, lockFile, gateFile, gateTmp, pc, request, copy, spent>>

ASSUME PromotionAssumption ==
  /\ MaxCommands \in Nat /\ MaxCrashes \in Nat
  /\ InitialRegistries \subseteq Registry
------------------------------------------------------------------------------
Pcs == {"idle", "writeTmp", "replace", "acquire", "load", "commit", "release"}
Holding == {"load", "commit", "release"}
NoRequest == [command |-> "rollback", candidate |-> NoCandidate,
              component |-> NoComponent, verdict |-> "none"]

TypeOK ==
  /\ registry \in Registry
  /\ lockFile \in BOOLEAN
  /\ gateFile \in [Candidates -> Verdicts \cup {"none"}]
  /\ gateTmp \in [Candidates -> Verdicts \cup {"none"}]
  /\ pc \in [Procs -> Pcs]
  /\ request \in [Procs -> Request]
  /\ copy \in [Procs -> Registry]
  /\ spent \in [commands: Nat, crashes: Nat]

PInit ==
  /\ registry \in InitialRegistries
  /\ lockFile = FALSE
  /\ gateFile = [c \in Candidates |-> registry.candidates[c].gate]
  /\ gateTmp = [c \in Candidates |-> "none"]
  /\ pc = [p \in Procs |-> "idle"]
  /\ request = [p \in Procs |-> NoRequest]
  /\ copy = [p \in Procs |-> EmptyRegistry]
  /\ spent = [commands |-> 0, crashes |-> 0]

At(p, place) == pc[p] = place
Go(p, place) ==
  /\ pc' = [pc EXCEPT ![p] = place]
  /\ UNCHANGED <<request, copy>>
End(p) ==
  /\ pc' = [pc EXCEPT ![p] = "idle"]
  /\ request' = [request EXCEPT ![p] = NoRequest]
  /\ copy' = [copy EXCEPT ![p] = EmptyRegistry]

\* A command starts; its files have been read and checked. `evaluate` computed
\* its report and goes to write it, the others go for the lock.
Start(p, q) ==
  /\ At(p, "idle")
  /\ spent.commands < MaxCommands
  /\ spent' = [spent EXCEPT !.commands = @ + 1]
  /\ request' = [request EXCEPT ![p] = q]
  /\ pc' = [pc EXCEPT ![p] = IF q.command = "evaluate" THEN "writeTmp" ELSE "acquire"]
  /\ UNCHANGED <<registry, lockFile, gateFile, gateTmp, copy>>

\* _write_json_atomic of the gate report. The temporary file's name is the same
\* for every process.
WriteGateTmp(p) ==
  /\ At(p, "writeTmp")
  /\ gateTmp' = [gateTmp EXCEPT ![request[p].candidate] = request[p].verdict]
  /\ Go(p, "replace")
  /\ UNCHANGED <<registry, lockFile, gateFile, spent>>

\* os.replace raises when another process has already moved the file away.
ReplaceGate(p) ==
  LET c == request[p].candidate IN
  /\ At(p, "replace")
  /\ IF gateTmp[c] # "none"
     THEN /\ gateFile' = [gateFile EXCEPT ![c] = gateTmp[c]]
          /\ gateTmp' = [gateTmp EXCEPT ![c] = "none"]
          /\ Go(p, "acquire")
     ELSE /\ End(p)
          /\ UNCHANGED <<gateFile, gateTmp>>
  /\ UNCHANGED <<registry, lockFile, spent>>

\* Mutant: the lock file is opened without O_EXCL.
Acquire_NotExclusive(p) ==
  /\ At(p, "acquire")
  /\ lockFile' = TRUE
  /\ Go(p, "load")
  /\ UNCHANGED <<registry, gateFile, gateTmp, spent>>

Acquire(p) ==
  /\ At(p, "acquire") /\ ~lockFile
  /\ lockFile' = TRUE
  /\ Go(p, "load")
  /\ UNCHANGED <<registry, gateFile, gateTmp, spent>>

\* _registry_lock gives up after its timeout.
TimeOut(p) ==
  /\ At(p, "acquire") /\ lockFile
  /\ End(p)
  /\ UNCHANGED <<registry, lockFile, gateFile, gateTmp, spent>>

Load(p) ==
  /\ At(p, "load")
  /\ copy' = [copy EXCEPT ![p] = registry]
  /\ pc' = [pc EXCEPT ![p] = "commit"]
  /\ UNCHANGED <<registry, lockFile, gateFile, gateTmp, request, spent>>

\* mutate runs on the loaded copy; the file is replaced unless it raises.
Commit(p) ==
  /\ At(p, "commit")
  /\ registry' = IF Permits(copy[p], request[p])
                 THEN Mutate(copy[p], request[p]) ELSE registry
  /\ copy' = [copy EXCEPT ![p] = EmptyRegistry]
  /\ pc' = [pc EXCEPT ![p] = "release"]
  /\ UNCHANGED <<lockFile, gateFile, gateTmp, request, spent>>

Release(p) ==
  /\ At(p, "release")
  /\ lockFile' = FALSE
  /\ End(p)
  /\ UNCHANGED <<registry, gateFile, gateTmp, spent>>

Crash(p) ==
  /\ ~At(p, "idle") /\ spent.crashes < MaxCrashes
  /\ spent' = [spent EXCEPT !.crashes = @ + 1]
  /\ End(p)
  /\ UNCHANGED <<registry, lockFile, gateFile, gateTmp>>

Step(p) ==
  \/ WriteGateTmp(p) \/ ReplaceGate(p)
  \/ Acquire(p) \/ TimeOut(p) \/ Load(p) \/ Commit(p) \/ Release(p)

PNext == \E p \in Procs :
  \/ Step(p) \/ Crash(p)
  \/ \E q \in MutationRequests : Start(p, q)

PSpec == PInit /\ [][PNext]_vars
------------------------------------------------------------------------------
\* training-promotion-release.md:126: the lock and the atomic replacement make
\* every mutation atomic. Whatever processes start, wait, give up or crash, the
\* registry file moves by one permitted mutation of ChampionRegistry at a time.
Atomically == [][Next]_registry

\* What _locked_mutation needs of the lock: nobody writes the file between a
\* command's load and its write, so no mutation is lost.
NoLostUpdate == \A p \in Procs : At(p, "commit") => copy[p] = registry

==============================================================================
