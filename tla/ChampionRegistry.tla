--------------------------- MODULE ChampionRegistry ---------------------------
(***************************************************************************)
(* The model registry of malapp/governance/promotion.py as its documents   *)
(* describe it: candidates move through gate, shadow run and approval to   *)
(* champion, and every mutation takes effect at once. The `mutate`         *)
(* functions of the code are the operators Permits and Mutate; Promotion   *)
(* runs them under the lock file and implements this module.               *)
(* Artifacts, data sets, digests and time stamps are left out, a gate      *)
(* report is its verdict, and the history keeps the promotions, the only   *)
(* events the code reads back.                                             *)
(***************************************************************************)
EXTENDS Integers, Sequences

CONSTANTS Candidates, Components, NoCandidate, NoComponent

ASSUME RegistryAssumption ==
  NoCandidate \notin Candidates /\ NoComponent \notin Components

VARIABLE registry
------------------------------------------------------------------------------
Verdicts == {"pass", "fail", "blocked"}
Statuses == {"absent", "candidate", "gate_passed", "shadow_passed", "approved",
             "champion", "superseded", "rolled_back", "rejected", "blocked"}
Candidate == [component: Components \cup {NoComponent}, status: Statuses,
              gate: Verdicts \cup {"none"}, shadow: BOOLEAN, approval: BOOLEAN]
Event == [candidate: Candidates, component: Components \cup {NoComponent},
          previous: Candidates \cup {NoCandidate}]
Registry == [candidates: [Candidates -> Candidate],
             champions: [Components -> Candidates \cup {NoCandidate}],
             history: Seq(Event)]

Absent == [component |-> NoComponent, status |-> "absent", gate |-> "none",
           shadow |-> FALSE, approval |-> FALSE]
EmptyRegistry == [candidates |-> [c \in Candidates |-> Absent],
                  champions |-> [k \in Components |-> NoCandidate],
                  history |-> <<>>]

\* What a command line asks for: one shape for the six commands; a field that
\* a command does not use holds the absent value.
Commands == {"register", "evaluate", "shadow", "approve", "promote", "rollback"}
Request == [command: Commands, candidate: Candidates \cup {NoCandidate},
            component: Components \cup {NoComponent}, verdict: Verdicts \cup {"none"}]
MutationRequests ==
  [command: {"register"}, candidate: Candidates, component: Components, verdict: {"none"}]
  \cup [command: {"evaluate"}, candidate: Candidates, component: {NoComponent}, verdict: Verdicts]
  \cup [command: {"shadow", "approve", "promote"}, candidate: Candidates,
        component: {NoComponent}, verdict: {"none"}]
  \cup [command: {"rollback"}, candidate: Candidates \cup {NoCandidate},
        component: Components, verdict: {"none"}]
------------------------------------------------------------------------------
StatusOf(r, c) == r.candidates[c].status

\* _previous_champion: the latest promotion of this champion that had one.
PromotionsOf(r, c, k) ==
  {i \in DOMAIN r.history :
     /\ r.history[i].component = k /\ r.history[i].candidate = c
     /\ r.history[i].previous # NoCandidate}
\* Mutant: whoever was promoted last before is taken.
PreviousChampion_OfAnyone(r, k, c) ==
  IF r.history = <<>> THEN NoCandidate ELSE r.history[Len(r.history)].previous

PreviousChampion(r, k, c) ==
  IF PromotionsOf(r, c, k) = {} THEN NoCandidate
  ELSE LET last == CHOOSE i \in PromotionsOf(r, c, k) :
                     \A j \in PromotionsOf(r, c, k) : j <= i
       IN r.history[last].previous

RollbackTarget(r, q) ==
  IF q.candidate # NoCandidate THEN q.candidate
  ELSE PreviousChampion(r, q.component, r.champions[q.component])

\* Mutant: a rollback to any candidate of the component.
PermitsRollback_AnyCandidate(r, q) ==
  LET current == r.champions[q.component]
      target == RollbackTarget(r, q)
  IN /\ current # NoCandidate
     /\ target # NoCandidate /\ target # current
     /\ r.candidates[target].component = q.component

PermitsRollback(r, q) ==
  LET current == r.champions[q.component]
      target == RollbackTarget(r, q)
  IN /\ current # NoCandidate
     /\ target # NoCandidate /\ target # current
     /\ r.candidates[target].component = q.component
     /\ StatusOf(r, target) \in {"superseded", "rolled_back"}

Evaluable == {"candidate", "gate_passed", "rejected", "blocked"}

\* The guards of the mutate functions; where one fails the code raises.
Permits(r, q) ==
  CASE q.command = "register" -> StatusOf(r, q.candidate) = "absent"
    [] q.command = "evaluate" -> StatusOf(r, q.candidate) \in Evaluable
    [] q.command = "shadow" -> StatusOf(r, q.candidate) = "gate_passed"
    [] q.command = "approve" -> StatusOf(r, q.candidate) = "shadow_passed"
    [] q.command = "promote" -> StatusOf(r, q.candidate) = "approved"
    [] q.command = "rollback" -> PermitsRollback(r, q)

Register(r, q) ==
  [r EXCEPT !.candidates[q.candidate] = [Absent EXCEPT !.component = q.component,
                                                       !.status = "candidate"]]

GateOutcome(verdict) ==
  CASE verdict = "pass" -> "gate_passed"
    [] verdict = "fail" -> "rejected"
    [] verdict = "blocked" -> "blocked"

Evaluate(r, q) ==
  [r EXCEPT !.candidates[q.candidate].gate = q.verdict,
            !.candidates[q.candidate].status = GateOutcome(q.verdict)]

RecordShadow(r, q) ==
  [r EXCEPT !.candidates[q.candidate].shadow = TRUE,
            !.candidates[q.candidate].status = "shadow_passed"]

Approve(r, q) ==
  [r EXCEPT !.candidates[q.candidate].approval = TRUE,
            !.candidates[q.candidate].status = "approved"]

\* c takes the champion's place of component k; the one it replaces gets
\* status `left`.
Crown(r, c, k, left) ==
  [r EXCEPT !.candidates =
     [x \in Candidates |->
        IF x = c THEN [r.candidates[x] EXCEPT !.status = "champion"]
        ELSE IF x = r.champions[k] THEN [r.candidates[x] EXCEPT !.status = left]
        ELSE r.candidates[x]],
            !.champions[k] = c]

\* Mutant: the previous champion keeps its status.
Promote_KeepsPrevious(r, q) ==
  LET k == r.candidates[q.candidate].component
  IN [Crown(r, q.candidate, k, "champion") EXCEPT
        !.history = Append(@, [candidate |-> q.candidate, component |-> k,
                               previous |-> r.champions[k]])]

Promote(r, q) ==
  LET k == r.candidates[q.candidate].component
  IN [Crown(r, q.candidate, k, "superseded") EXCEPT
        !.history = Append(@, [candidate |-> q.candidate, component |-> k,
                               previous |-> r.champions[k]])]

Rollback(r, q) == Crown(r, RollbackTarget(r, q), q.component, "rolled_back")

Mutate(r, q) ==
  CASE q.command = "register" -> Register(r, q)
    [] q.command = "evaluate" -> Evaluate(r, q)
    [] q.command = "shadow" -> RecordShadow(r, q)
    [] q.command = "approve" -> Approve(r, q)
    [] q.command = "promote" -> Promote(r, q)
    [] q.command = "rollback" -> Rollback(r, q)

Init == registry = EmptyRegistry
Next == \E q \in MutationRequests : Permits(registry, q) /\ registry' = Mutate(registry, q)
Spec == Init /\ [][Next]_registry
------------------------------------------------------------------------------
RegistryTypeOK == registry \in Registry

\* A component's champion entry and the statuses agree: exactly the candidate
\* it names has status champion, and it belongs to the component. Promotion and
\* rollback each change two candidates and the entry.
OneChampion == \A c \in Candidates, k \in Components :
  (StatusOf(registry, c) = "champion" /\ registry.candidates[c].component = k)
    <=> registry.champions[k] = c

Governed == {"shadow_passed", "approved", "champion", "superseded", "rolled_back"}

Earned(x) ==
  /\ x.status \in Governed \cup {"gate_passed"} => x.gate = "pass"
  /\ x.status \in Governed => x.shadow
  /\ x.status \in Governed \ {"shadow_passed"} => x.approval

\* docs/governance/training-promotion-release.md:124: the state machine never
\* skips gate, shadow or approval, over re-evaluations and rollbacks.
NothingSkipped == \A c \in Candidates : Earned(registry.candidates[c])

\* training-promotion-release.md:126: while a promoted champion serves, the one
\* it replaced stays a candidate the rollback command accepts.
RollbackTargetKept == \A k \in Components :
  LET current == registry.champions[k] IN
  current # NoCandidate /\ PreviousChampion(registry, k, current) # NoCandidate
    => PermitsRollback(registry, [command |-> "rollback", candidate |-> NoCandidate,
                                  component |-> k, verdict |-> "none"])
==============================================================================
