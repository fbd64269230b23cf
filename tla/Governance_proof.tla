--------------------------- MODULE Governance_proof ---------------------------
(***************************************************************************)
(* The model registry, the commands that share its file, and the releases  *)
(* that are built from it.                                                 *)
(*                                                                         *)
(* ChampionRegistry: the type invariant, OneChampion and NothingSkipped    *)
(* are inductive together, since a promotion or rollback takes the crown   *)
(* from a candidate that OneChampion shows to be the champion and          *)
(* NothingSkipped to have earned it.                                       *)
(*                                                                         *)
(* Promotion: at most one process is between creating and removing the     *)
(* lock file and what it has loaded is still what the file holds, so the   *)
(* file moves by one mutation at a time and the theorems of the registry   *)
(* hold of it.                                                             *)
(*                                                                         *)
(* Release: what a command has read is true of the registry's history for  *)
(* ever (Snapshot), since nobody is promoted twice; what is not, the data  *)
(* set, the audit and the scorecard, the server compares once more.        *)
(***************************************************************************)
EXTENDS Promotion, Release, TLAPS, WellFoundedInduction

Assigned == \A c \in Candidates :
  StatusOf(registry, c) # "absent" => registry.candidates[c].component \in Components

Inv == RegistryTypeOK /\ OneChampion /\ NothingSkipped /\ Assigned
------------------------------------------------------------------------------
\* Replacing one entry that is not the champion's by an earned one that is not
\* a champion's keeps the invariant.
LEMMA OneEntry ==
  ASSUME Inv, NEW c \in Candidates, NEW x \in Candidate,
         StatusOf(registry, c) # "champion", x.status # "champion", Earned(x),
         x.component \in Components,
         registry' = [registry EXCEPT !.candidates = [registry.candidates EXCEPT ![c] = x]]
  PROVE  Inv'
<1>1. /\ registry \in Registry
      /\ registry.candidates \in [Candidates -> Candidate]
  BY DEF Inv, RegistryTypeOK, Registry
<1>2. /\ registry'.candidates = [registry.candidates EXCEPT ![c] = x]
      /\ registry'.champions = registry.champions
  BY <1>1 DEF Registry
<1>3. RegistryTypeOK'
  <2>1. [registry.candidates EXCEPT ![c] = x] \in [Candidates -> Candidate]
    BY <1>1
  <2> QED BY <1>1, <2>1 DEF RegistryTypeOK, Registry
<1>4. OneChampion'
  BY <1>1, <1>2 DEF Inv, OneChampion, StatusOf
<1>5. NothingSkipped'
  BY <1>1, <1>2 DEF Inv, NothingSkipped
<1>6. Assigned'
  BY <1>1, <1>2 DEF Inv, Assigned, StatusOf
<1> QED BY <1>3, <1>4, <1>5, <1>6 DEF Inv

\* Moving the crown of a component to one of its candidates that has earned it
\* keeps the invariant, whatever happens to the history.
LEMMA CrownMoves ==
  ASSUME Inv, NEW c \in Candidates, NEW k \in Components,
         NEW left \in {"superseded", "rolled_back"},
         registry.candidates[c].component = k, StatusOf(registry, c) # "champion",
         registry.candidates[c].gate = "pass",
         registry.candidates[c].shadow, registry.candidates[c].approval,
         registry'.candidates = Crown(registry, c, k, left).candidates,
         registry'.champions = Crown(registry, c, k, left).champions,
         registry' \in Registry
  PROVE  Inv'
<1> DEFINE moved(y) == IF y = c THEN [registry.candidates[y] EXCEPT !.status = "champion"]
                       ELSE IF y = registry.champions[k]
                       THEN [registry.candidates[y] EXCEPT !.status = left]
                       ELSE registry.candidates[y]
<1>1. /\ registry \in Registry
      /\ registry.candidates \in [Candidates -> Candidate]
      /\ registry.champions \in [Components -> Candidates \cup {NoCandidate}]
  BY DEF Inv, RegistryTypeOK, Registry
<1>2. /\ registry'.candidates = [y \in Candidates |-> moved(y)]
      /\ registry'.champions = [registry.champions EXCEPT ![k] = c]
  BY <1>1 DEF Crown, Registry
<1>3. \A y \in Candidates :
        /\ moved(y).component = registry.candidates[y].component
        /\ moved(y).gate = registry.candidates[y].gate
        /\ moved(y).shadow = registry.candidates[y].shadow
        /\ moved(y).approval = registry.candidates[y].approval
        /\ moved(y).status = IF y = c THEN "champion"
                             ELSE IF y = registry.champions[k] THEN left
                             ELSE registry.candidates[y].status
  <2> SUFFICES ASSUME NEW y \in Candidates
               PROVE  /\ moved(y).component = registry.candidates[y].component
                      /\ moved(y).gate = registry.candidates[y].gate
                      /\ moved(y).shadow = registry.candidates[y].shadow
                      /\ moved(y).approval = registry.candidates[y].approval
                      /\ moved(y).status = IF y = c THEN "champion"
                                           ELSE IF y = registry.champions[k] THEN left
                                           ELSE registry.candidates[y].status
    OBVIOUS
  <2>1. registry.candidates[y] \in Candidate
    BY <1>1
  <2> QED BY <2>1 DEF Candidate
<1>4. OneChampion'
  <2> SUFFICES ASSUME NEW y \in Candidates, NEW l \in Components
               PROVE  (registry'.candidates[y].status = "champion"
                         /\ registry'.candidates[y].component = l)
                        <=> registry'.champions[l] = y
    BY DEF OneChampion, StatusOf
  <2>1. (registry.candidates[y].status = "champion" /\ registry.candidates[y].component = l)
          <=> registry.champions[l] = y
    BY DEF Inv, OneChampion, StatusOf
  <2>2. (registry.candidates[y].status = "champion" /\ registry.candidates[y].component = k)
          <=> registry.champions[k] = y
    BY DEF Inv, OneChampion, StatusOf
  <2>3. /\ registry'.candidates[y] = moved(y)
        /\ registry'.champions[l] = IF l = k THEN c ELSE registry.champions[l]
    BY <1>1, <1>2
  <2>4. CASE y = c
    BY <2>1, <2>3, <2>4, <1>3 DEF StatusOf
  <2>5. CASE y # c
    BY <2>1, <2>2, <2>3, <2>5, <1>3
  <2> QED BY <2>4, <2>5
<1>5. NothingSkipped'
  <2> SUFFICES ASSUME NEW y \in Candidates PROVE Earned(registry'.candidates[y])
    BY DEF NothingSkipped
  <2>1. registry'.candidates[y] = moved(y)
    BY <1>2
  <2>2. Earned(registry.candidates[y])
    BY DEF Inv, NothingSkipped
  <2>3. y = registry.champions[k] => registry.candidates[y].status = "champion"
    BY DEF Inv, OneChampion, StatusOf
  <2>4. CASE y = c
    BY <2>1, <2>4, <1>3 DEF Earned
  <2>5. CASE y # c
    BY <2>1, <2>2, <2>3, <2>5, <1>3 DEF Earned, Governed
  <2> QED BY <2>4, <2>5
<1>6. RegistryTypeOK'
  BY DEF RegistryTypeOK
<1>7. Assigned'
  <2> SUFFICES ASSUME NEW y \in Candidates, registry'.candidates[y].status # "absent"
               PROVE  registry'.candidates[y].component \in Components
    BY DEF Assigned, StatusOf
  <2>1. registry'.candidates[y] = moved(y)
    BY <1>2
  <2>2. registry.candidates[y].status # "absent" => registry.candidates[y].component \in Components
    BY DEF Inv, Assigned, StatusOf
  <2>3. y = registry.champions[k] => registry.candidates[y].status = "champion"
    BY DEF Inv, OneChampion, StatusOf
  <2> QED BY <2>1, <2>2, <2>3, <1>3
<1> QED BY <1>4, <1>5, <1>6, <1>7 DEF Inv
------------------------------------------------------------------------------
\* The requests by command, with the types of the fields each one uses.
LEMMA RequestFields ==
  ASSUME NEW q \in MutationRequests
  PROVE  /\ q.command \in Commands
         /\ q.command # "rollback" => q.candidate \in Candidates
         /\ q.command = "rollback" => q.candidate \in Candidates \cup {NoCandidate}
         /\ q.command \in {"register", "rollback"} => q.component \in Components
         /\ q.command = "evaluate" => q.verdict \in Verdicts
BY DEF MutationRequests, Commands

\* A permitted mutation by each of the four commands that change one entry.
LEMMA EntryCommands ==
  ASSUME Inv, NEW q \in MutationRequests, Permits(registry, q),
         q.command \in {"register", "evaluate", "shadow", "approve"},
         registry' = Mutate(registry, q)
  PROVE  Inv'
<1> DEFINE c == q.candidate
           e == registry.candidates[q.candidate]
<1>1. /\ registry \in Registry
      /\ registry.candidates \in [Candidates -> Candidate]
  BY DEF Inv, RegistryTypeOK, Registry
<1>2. c \in Candidates
  BY RequestFields
<1>3. /\ e \in Candidate /\ Earned(e)
      /\ e.status # "absent" => e.component \in Components
  BY <1>1, <1>2 DEF Inv, NothingSkipped, Assigned, StatusOf
<1> DEFINE replaced(x) == [registry EXCEPT !.candidates = [registry.candidates EXCEPT ![c] = x]]
<1>4. CASE q.command = "register"
  <2> DEFINE x == [Absent EXCEPT !.component = q.component, !.status = "candidate"]
  <2>1. x \in Candidate /\ x.status = "candidate" /\ x.component \in Components
    BY RequestFields, <1>4 DEF Absent, Candidate, Statuses
  <2>2. registry' = replaced(x)
    BY <1>1, <1>2, <1>4 DEF Mutate, Register, Registry
  <2>3. StatusOf(registry, c) # "champion"
    BY <1>4 DEF Permits
  <2>4. Earned(x)
    BY <2>1 DEF Earned, Governed
  <2> HIDE DEF x
  <2> QED BY <1>2, <2>1, <2>2, <2>3, <2>4, OneEntry
<1>5. CASE q.command = "evaluate"
  <2> DEFINE x == [[e EXCEPT !.gate = q.verdict] EXCEPT !.status = GateOutcome(q.verdict)]
  <2>1. /\ x \in Candidate
        /\ x.status \in {"gate_passed", "rejected", "blocked"}
        /\ x.component = e.component
        /\ x.status = "gate_passed" => x.gate = "pass"
    BY RequestFields, <1>3, <1>5 DEF Verdicts, GateOutcome, Candidate, Statuses
  <2>2. registry' = replaced(x)
    BY <1>1, <1>2, <1>5 DEF Mutate, Evaluate, Registry
  <2>3. StatusOf(registry, c) # "champion" /\ e.component \in Components
    BY <1>3, <1>5 DEF Permits, Evaluable, StatusOf
  <2>4. Earned(x)
    BY <2>1 DEF Earned, Governed
  <2> HIDE DEF x
  <2> QED BY <1>2, <2>1, <2>2, <2>3, <2>4, OneEntry
<1>6. CASE q.command = "shadow"
  <2> DEFINE x == [[e EXCEPT !.shadow = TRUE] EXCEPT !.status = "shadow_passed"]
  <2>1. /\ x \in Candidate /\ x.status = "shadow_passed" /\ x.shadow
        /\ x.gate = e.gate /\ x.component = e.component
    BY <1>3, <1>6 DEF Candidate, Statuses
  <2>2. registry' = replaced(x)
    BY <1>1, <1>2, <1>6 DEF Mutate, RecordShadow, Registry
  <2>3. StatusOf(registry, c) = "gate_passed" /\ e.status = "gate_passed" /\ e.component \in Components
    BY <1>3, <1>6 DEF Permits, StatusOf
  <2>4. Earned(x)
    BY <2>1, <2>3, <1>3 DEF Earned, Governed
  <2> HIDE DEF x
  <2> QED BY <1>2, <2>1, <2>2, <2>3, <2>4, OneEntry
<1>7. CASE q.command = "approve"
  <2> DEFINE x == [[e EXCEPT !.approval = TRUE] EXCEPT !.status = "approved"]
  <2>1. /\ x \in Candidate /\ x.status = "approved" /\ x.approval
        /\ x.gate = e.gate /\ x.shadow = e.shadow /\ x.component = e.component
    BY <1>3, <1>7 DEF Candidate, Statuses
  <2>2. registry' = replaced(x)
    BY <1>1, <1>2, <1>7 DEF Mutate, Approve, Registry
  <2>3. StatusOf(registry, c) = "shadow_passed" /\ e.status = "shadow_passed" /\ e.component \in Components
    BY <1>3, <1>7 DEF Permits, StatusOf
  <2>4. Earned(x)
    BY <2>1, <2>3, <1>3 DEF Earned, Governed
  <2> HIDE DEF x
  <2> QED BY <1>2, <2>1, <2>2, <2>3, <2>4, OneEntry
<1> QED BY <1>4, <1>5, <1>6, <1>7
------------------------------------------------------------------------------
\* A nonempty set of positions of a sequence has a last one.
LEMMA LastPosition ==
  ASSUME NEW n \in Nat, NEW S, S \subseteq 1..n, S # {}
  PROVE  \E i \in S : \A j \in S : j <= i
<1> DEFINE T == {n - i : i \in S}
<1>1. T \subseteq Nat /\ T # {}
  <2>1. \A i \in S : i \in Int /\ 1 <= i /\ i <= n
    OBVIOUS
  <2>2. T \subseteq Nat
    BY <2>1
  <2>3. PICK i \in S : TRUE
    OBVIOUS
  <2>4. n - i \in T
    BY <2>3
  <2> QED BY <2>2, <2>4
<1>2. PICK x \in T : \A y \in T : ~(<<y, x>> \in OpToRel(<, Nat))
  <2>1. IsWellFoundedOn(OpToRel(<, Nat), Nat)
    BY NatLessThanWellFounded
  <2> HIDE DEF T
  <2> QED BY <1>1, <2>1, WFMin
<1>3. \A y \in T : ~(y < x)
  BY <1>1, <1>2 DEF OpToRel
<1>4. PICK i \in S : x = n - i
  OBVIOUS
<1>5. \A j \in S : j <= i
  BY <1>3, <1>4
<1> QED BY <1>5

\* A permitted rollback names a candidate.
LEMMA TargetIsCandidate ==
  ASSUME Inv, NEW q \in MutationRequests, q.command = "rollback", PermitsRollback(registry, q)
  PROVE  RollbackTarget(registry, q) \in Candidates
<1> DEFINE k == q.component
           c == registry.champions[q.component]
<1>1. registry.history \in Seq(Event)
  BY DEF Inv, RegistryTypeOK, Registry
<1>2. RollbackTarget(registry, q) # NoCandidate
  BY DEF PermitsRollback
<1>3. CASE q.candidate # NoCandidate
  BY <1>3, RequestFields DEF RollbackTarget
<1>4. CASE q.candidate = NoCandidate
  <2> DEFINE S == PromotionsOf(registry, c, k)
  <2>1. RollbackTarget(registry, q) = PreviousChampion(registry, k, c)
    BY <1>4 DEF RollbackTarget
  <2>2. S # {}
    BY <1>2, <2>1 DEF PreviousChampion
  <2>3. S \subseteq 1..Len(registry.history)
    BY <1>1 DEF PromotionsOf
  <2>4. PICK i \in S : \A j \in S : j <= i
    <3>1. Len(registry.history) \in Nat
      BY <1>1
    <3> HIDE DEF S
    <3> QED BY <2>2, <2>3, <3>1, LastPosition
  <2> DEFINE last == CHOOSE x \in S : \A j \in S : j <= x
  <2>5. last \in S
    <3> HIDE DEF S
    <3> QED BY <2>4
  <2>6. RollbackTarget(registry, q) = registry.history[last].previous
    BY <2>1, <2>2 DEF PreviousChampion
  <2>7. registry.history[last] \in Event
    <3> HIDE DEF last, S
    <3> QED BY <1>1, <2>3, <2>5
  <2> HIDE DEF last
  <2> QED BY <1>2, <2>6, <2>7 DEF Event
<1> QED BY <1>3, <1>4

\* Moving a crown keeps the type of candidates and champions.
LEMMA CrownType ==
  ASSUME NEW r \in Registry, NEW c \in Candidates, NEW k \in Components,
         NEW left \in {"superseded", "rolled_back"}
  PROVE  Crown(r, c, k, left) \in Registry
<1>1. /\ r.candidates \in [Candidates -> Candidate]
      /\ r.champions \in [Components -> Candidates \cup {NoCandidate}]
  BY DEF Registry
<1>2. ASSUME NEW y \in Candidates, NEW s \in Statuses
      PROVE  [r.candidates[y] EXCEPT !.status = s] \in Candidate
  BY <1>1 DEF Candidate
<1>3. left \in Statuses /\ "champion" \in Statuses
  BY DEF Statuses
<1>4. [y \in Candidates |->
         IF y = c THEN [r.candidates[y] EXCEPT !.status = "champion"]
         ELSE IF y = r.champions[k] THEN [r.candidates[y] EXCEPT !.status = left]
         ELSE r.candidates[y]] \in [Candidates -> Candidate]
  BY <1>1, <1>2, <1>3
<1>5. [r.champions EXCEPT ![k] = c] \in [Components -> Candidates \cup {NoCandidate}]
  BY <1>1
<1> QED BY <1>4, <1>5 DEF Crown, Registry

\* A permitted promotion or rollback.
LEMMA CrownCommands ==
  ASSUME Inv, NEW q \in MutationRequests, Permits(registry, q),
         q.command \in {"promote", "rollback"}, registry' = Mutate(registry, q)
  PROVE  Inv'
<1>1. /\ registry \in Registry
      /\ registry.candidates \in [Candidates -> Candidate]
      /\ registry.champions \in [Components -> Candidates \cup {NoCandidate}]
      /\ registry.history \in Seq(Event)
  BY DEF Inv, RegistryTypeOK, Registry
<1>2. ASSUME NEW c \in Candidates
      PROVE  registry.candidates[c] \in Candidate /\ Earned(registry.candidates[c])
  BY <1>1 DEF Inv, NothingSkipped
<1>3. CASE q.command = "promote"
  <2> DEFINE c == q.candidate
             k == registry.candidates[q.candidate].component
             event == [candidate |-> c, component |-> k, previous |-> registry.champions[k]]
  <2>1. c \in Candidates /\ registry.candidates[c].status = "approved"
    BY <1>3, RequestFields DEF Permits, StatusOf
  <2>2. k \in Components
    BY <2>1 DEF Inv, Assigned, StatusOf
  <2>3. registry' = [Crown(registry, c, k, "superseded") EXCEPT !.history = Append(@, event)]
    BY <1>3 DEF Mutate, Promote
  <2>4. Crown(registry, c, k, "superseded") \in Registry
    BY <1>1, <2>1, <2>2, CrownType
  <2>5. event \in Event
    BY <1>1, <2>1, <2>2 DEF Event
  <2>6. registry' \in Registry
    <3> DEFINE crowned == Crown(registry, c, k, "superseded")
    <3>1. crowned.history = registry.history
      BY <1>1 DEF Crown, Registry
    <3>2. Append(crowned.history, event) \in Seq(Event)
      BY <1>1, <2>5, <3>1
    <3>3. registry' = [crowned EXCEPT !.history = Append(crowned.history, event)]
      BY <2>3
    <3>4. crowned \in Registry
      BY <2>4
    <3> HIDE DEF crowned, event
    <3> QED BY <3>2, <3>3, <3>4 DEF Registry
  <2>7. /\ registry'.candidates = Crown(registry, c, k, "superseded").candidates
        /\ registry'.champions = Crown(registry, c, k, "superseded").champions
    BY <2>3, <2>4 DEF Registry
  <2>8. /\ registry.candidates[c].gate = "pass"
        /\ registry.candidates[c].shadow /\ registry.candidates[c].approval
    BY <1>2, <2>1 DEF Earned, Governed
  <2> QED BY <2>1, <2>2, <2>6, <2>7, <2>8, CrownMoves DEF StatusOf
<1>4. CASE q.command = "rollback"
  <2> DEFINE c == RollbackTarget(registry, q)
             k == q.component
  <2>1. PermitsRollback(registry, q)
    BY <1>4 DEF Permits
  <2>2. c \in Candidates /\ k \in Components
    BY <1>4, <2>1, TargetIsCandidate, RequestFields
  <2>3. /\ registry.candidates[c].component = k
        /\ registry.candidates[c].status \in {"superseded", "rolled_back"}
    BY <2>1 DEF PermitsRollback, StatusOf
  <2>4. registry' = Crown(registry, c, k, "rolled_back")
    BY <1>4 DEF Mutate, Rollback
  <2>5. registry' \in Registry
    BY <1>1, <2>2, <2>4, CrownType
  <2>6. /\ registry.candidates[c].gate = "pass"
        /\ registry.candidates[c].shadow /\ registry.candidates[c].approval
    BY <1>2, <2>2, <2>3 DEF Earned, Governed
  <2> HIDE DEF c, k
  <2> QED BY <2>2, <2>3, <2>4, <2>5, <2>6, CrownMoves DEF StatusOf
<1> QED BY <1>3, <1>4

LEMMA InvInit == Init => Inv
BY RegistryAssumption DEF Init, Inv, RegistryTypeOK, Registry, EmptyRegistry, Absent, Candidate,
   Statuses, OneChampion, NothingSkipped, Assigned, Earned, Governed, StatusOf

LEMMA InvNext == Inv /\ [Next]_registry => Inv'
<1> SUFFICES ASSUME Inv, [Next]_registry PROVE Inv'
  OBVIOUS
<1>1. CASE UNCHANGED registry
  BY <1>1 DEF Inv, RegistryTypeOK, OneChampion, NothingSkipped, Assigned, StatusOf
<1>2. CASE Next
  <2>1. PICK q \in MutationRequests : Permits(registry, q) /\ registry' = Mutate(registry, q)
    BY <1>2 DEF Next
  <2>2. q.command \in Commands
    BY RequestFields
  <2> QED BY <2>1, <2>2, EntryCommands, CrownCommands DEF Commands
<1> QED BY <1>1, <1>2

\* Over every history of commands a component has exactly the champion its entry
\* names, and no candidate holds a status whose gate, shadow run or approval it
\* lacks, for any candidates and components.
THEOREM Governance == Spec => [](RegistryTypeOK /\ OneChampion /\ NothingSkipped)
<1>1. Inv => RegistryTypeOK /\ OneChampion /\ NothingSkipped
  BY DEF Inv
<1> QED BY InvInit, InvNext, <1>1, PTL DEF Spec------------------------------------------------------------------------------
(* RollbackTargetKept: every promotion in the history names candidates that *)
(* have been champion of its component, and a status that has been          *)
(* champion's only ever moves between the three Served ones.                *)

Served == {"champion", "superseded", "rolled_back"}
ServedFor(r, c, k) == r.candidates[c].component = k /\ r.candidates[c].status \in Served

EventSound(r, e) ==
  /\ ServedFor(r, e.candidate, e.component)
  /\ e.previous # NoCandidate => e.previous # e.candidate /\ ServedFor(r, e.previous, e.component)

HistorySound == \A i \in DOMAIN registry.history : EventSound(registry, registry.history[i])

\* What has served a component has served it after any permitted mutation.
LEMMA ServedForEver ==
  ASSUME Inv, NEW q \in MutationRequests, Permits(registry, q), registry' = Mutate(registry, q),
         NEW c \in Candidates, NEW k, ServedFor(registry, c, k)
  PROVE  ServedFor(registry', c, k)
<1>1. /\ registry \in Registry
      /\ registry.candidates \in [Candidates -> Candidate]
      /\ registry.candidates[c] \in Candidate
  BY DEF Inv, RegistryTypeOK, Registry
<1>2. q.command \in Commands
  BY RequestFields
<1>3. CASE q.command \in {"register", "evaluate", "shadow", "approve"}
  <2>1. registry.candidates[c].status \in Served
    BY DEF ServedFor
  <2>2. CASE q.command = "register"
    <3>1. q.candidate # c
      BY <2>1, <2>2 DEF Permits, StatusOf, Served
    <3> QED BY <1>1, <2>2, <3>1 DEF Mutate, Register, Registry, ServedFor
  <2>3. CASE q.command = "evaluate"
    <3>1. q.candidate # c
      BY <2>1, <2>3 DEF Permits, StatusOf, Served, Evaluable
    <3> QED BY <1>1, <2>3, <3>1 DEF Mutate, Evaluate, Registry, ServedFor
  <2>4. CASE q.command = "shadow"
    <3>1. q.candidate # c
      BY <2>1, <2>4 DEF Permits, StatusOf, Served
    <3> QED BY <1>1, <2>4, <3>1 DEF Mutate, RecordShadow, Registry, ServedFor
  <2>5. CASE q.command = "approve"
    <3>1. q.candidate # c
      BY <2>1, <2>5 DEF Permits, StatusOf, Served
    <3> QED BY <1>1, <2>5, <3>1 DEF Mutate, Approve, Registry, ServedFor
  <2> QED BY <1>3, <2>2, <2>3, <2>4, <2>5
<1>4. ASSUME NEW d, NEW l, NEW left \in {"superseded", "rolled_back"},
             registry'.candidates = Crown(registry, d, l, left).candidates
      PROVE  ServedFor(registry', c, k)
  <2>1. registry'.candidates[c] =
          IF c = d THEN [registry.candidates[c] EXCEPT !.status = "champion"]
          ELSE IF c = registry.champions[l] THEN [registry.candidates[c] EXCEPT !.status = left]
          ELSE registry.candidates[c]
    BY <1>1, <1>4 DEF Crown, Registry
  <2> QED BY <1>1, <2>1 DEF Candidate, ServedFor, Served
<1>5. CASE q.command = "promote"
  <2> DEFINE l == registry.candidates[q.candidate].component
             crowned == Crown(registry, q.candidate, l, "superseded")
  <2>1. crowned.candidates = registry'.candidates
    BY <1>1, <1>5 DEF Mutate, Promote, Crown, Registry
  <2> QED BY <1>4, <2>1
<1>6. CASE q.command = "rollback"
  <2>1. registry' = Crown(registry, RollbackTarget(registry, q), q.component, "rolled_back")
    BY <1>6 DEF Mutate, Rollback
  <2> QED BY <1>4, <2>1
<1> QED BY <1>2, <1>3, <1>5, <1>6 DEF Commands

LEMMA HistoryNext == Inv /\ HistorySound /\ [Next]_registry => HistorySound'
<1> SUFFICES ASSUME Inv, HistorySound, [Next]_registry PROVE HistorySound'
  OBVIOUS
<1>1. CASE UNCHANGED registry
  BY <1>1 DEF HistorySound
<1>2. CASE Next
  <2>1. PICK q \in MutationRequests : Permits(registry, q) /\ registry' = Mutate(registry, q)
    BY <1>2 DEF Next
  <2>2. /\ registry \in Registry /\ registry.history \in Seq(Event)
        /\ registry.candidates \in [Candidates -> Candidate]
        /\ registry.champions \in [Components -> Candidates \cup {NoCandidate}]
    BY DEF Inv, RegistryTypeOK, Registry
  <2>3. ASSUME NEW e \in Event, EventSound(registry, e) PROVE EventSound(registry', e)
    BY <2>1, <2>3, ServedForEver DEF EventSound, Event
  <2>4. ASSUME NEW i \in DOMAIN registry.history
        PROVE  EventSound(registry', registry.history[i])
    BY <2>2, <2>3 DEF HistorySound
  <2>5. CASE q.command # "promote"
    <3>1. q.command \in Commands
      BY RequestFields
    <3>2. registry'.history = registry.history
      BY <2>1, <2>2, <2>5, <3>1 DEF Mutate, Register, Evaluate, RecordShadow, Approve, Rollback,
         Crown, Registry, Commands
    <3> QED BY <2>4, <3>2 DEF HistorySound
  <2>6. CASE q.command = "promote"
    <3> DEFINE c == q.candidate
               k == registry.candidates[q.candidate].component
               event == [candidate |-> c, component |-> k, previous |-> registry.champions[k]]
    <3>1. registry' = [Crown(registry, c, k, "superseded") EXCEPT !.history = Append(@, event)]
      BY <2>1, <2>6 DEF Mutate, Promote
    <3>2. registry'.history = Append(registry.history, event)
      BY <2>2, <3>1 DEF Crown, Registry
    <3>3. registry'.candidates = [x \in Candidates |->
            IF x = c THEN [registry.candidates[x] EXCEPT !.status = "champion"]
            ELSE IF x = registry.champions[k]
            THEN [registry.candidates[x] EXCEPT !.status = "superseded"]
            ELSE registry.candidates[x]]
      BY <2>2, <3>1 DEF Crown, Registry
    <3>4. c \in Candidates /\ registry.candidates[c].status = "approved"
      BY <2>1, <2>6, RequestFields DEF Permits, StatusOf
    <3>5. k \in Components
      BY <3>4 DEF Inv, Assigned, StatusOf
    <3>6. ServedFor(registry', c, k)
      <4>1. registry.candidates[c] \in Candidate
        BY <2>2, <3>4
      <4>2. registry'.candidates[c] = [registry.candidates[c] EXCEPT !.status = "champion"]
        BY <3>3, <3>4
      <4> QED BY <4>1, <4>2 DEF ServedFor, Served, Candidate
    <3>7. ASSUME registry.champions[k] # NoCandidate
          PROVE  registry.champions[k] # c /\ ServedFor(registry', registry.champions[k], k)
      <4> DEFINE p == registry.champions[k]
      <4>1. p \in Candidates
        BY <2>2, <3>5, <3>7
      <4>2. registry.candidates[p].status = "champion" /\ registry.candidates[p].component = k
        BY <4>1, <3>5 DEF Inv, OneChampion, StatusOf
      <4>3. registry.candidates[p] \in Candidate
        BY <2>2, <4>1
      <4>4. p # c
        BY <3>4, <4>2
      <4>5. registry'.candidates[p] = [registry.candidates[p] EXCEPT !.status = "superseded"]
        BY <3>3, <4>1, <4>4
      <4> QED BY <4>2, <4>3, <4>4, <4>5 DEF ServedFor, Served, Candidate
    <3>8. EventSound(registry', event)
      BY <3>6, <3>7 DEF EventSound
    <3> HIDE DEF event
    <3>9. \A i \in DOMAIN registry'.history :
            \/ (i \in DOMAIN registry.history /\ registry'.history[i] = registry.history[i])
            \/ registry'.history[i] = event
      BY <2>2, <3>2
    <3> QED BY <2>4, <3>8, <3>9 DEF HistorySound
  <2> QED BY <2>5, <2>6
<1> QED BY <1>1, <1>2

LEMMA HistoryKeepsTarget == Inv /\ HistorySound => RollbackTargetKept
<1> SUFFICES ASSUME Inv, HistorySound, NEW k \in Components,
                    registry.champions[k] # NoCandidate,
                    PreviousChampion(registry, k, registry.champions[k]) # NoCandidate
             PROVE  PermitsRollback(registry,
                      [command |-> "rollback", candidate |-> NoCandidate,
                       component |-> k, verdict |-> "none"])
  BY DEF RollbackTargetKept
<1> DEFINE c == registry.champions[k]
           S == PromotionsOf(registry, c, k)
           last == CHOOSE x \in S : \A j \in S : j <= x
           q == [command |-> "rollback", candidate |-> NoCandidate,
                 component |-> k, verdict |-> "none"]
<1>1. /\ registry.history \in Seq(Event)
      /\ registry.champions \in [Components -> Candidates \cup {NoCandidate}]
  BY DEF Inv, RegistryTypeOK, Registry
<1>2. S # {} /\ PreviousChampion(registry, k, c) = registry.history[last].previous
  BY DEF PreviousChampion
<1>3. S \subseteq 1..Len(registry.history)
  BY <1>1 DEF PromotionsOf
<1>4. PICK i \in S : \A j \in S : j <= i
  <2>1. Len(registry.history) \in Nat
    BY <1>1
  <2> HIDE DEF S
  <2> QED BY <1>2, <1>3, <2>1, LastPosition
<1>5. last \in S
  <2> HIDE DEF S
  <2> QED BY <1>4
<1> DEFINE e == registry.history[last]
<1>6. /\ e \in Event /\ EventSound(registry, e)
      /\ e.component = k /\ e.candidate = c /\ e.previous # NoCandidate
  <2>1. last \in DOMAIN registry.history
    BY <1>1, <1>3, <1>5
  <2>2. e.component = k /\ e.candidate = c /\ e.previous # NoCandidate
    <3> HIDE DEF last
    <3> QED BY <1>5 DEF PromotionsOf
  <2> HIDE DEF last
  <2> QED BY <1>1, <2>1, <2>2 DEF HistorySound
<1> HIDE DEF last, S
<1>7. /\ e.previous \in Candidates /\ e.previous # c
      /\ registry.candidates[e.previous].component = k
      /\ registry.candidates[e.previous].status \in Served
  BY <1>6 DEF EventSound, ServedFor, Event
<1>8. registry.candidates[e.previous].status # "champion"
  BY <1>7 DEF Inv, OneChampion, StatusOf
<1>9. RollbackTarget(registry, q) = e.previous
  BY <1>2 DEF RollbackTarget
<1> QED BY <1>7, <1>8, <1>9, RegistryAssumption DEF PermitsRollback, StatusOf, Served

\* Whatever promotions and rollbacks came before, a champion that replaced
\* another leaves one that the rollback command accepts.
THEOREM WayBack == Spec => []RollbackTargetKept
<1>1. Init => HistorySound
  BY DEF Init, EmptyRegistry, HistorySound
<1> QED BY InvInit, InvNext, <1>1, HistoryNext, HistoryKeepsTarget, PTL DEF Spec
Shape == DOMAIN pc = Procs /\ DOMAIN request = Procs /\ DOMAIN copy = Procs

Requested == \A p \in Procs : ~At(p, "idle") => request[p] \in MutationRequests

OneHolder ==
  /\ \A p \in Procs : pc[p] \in Holding => lockFile = TRUE
  /\ \A p, q \in Procs : pc[p] \in Holding /\ pc[q] \in Holding => p = q

LockInv == Shape /\ Requested /\ OneHolder /\ NoLostUpdate
------------------------------------------------------------------------------
\* A step of one process that leaves the others alone: what it must show of its
\* own process for the invariant to be kept.
LEMMA OneProcess ==
  ASSUME LockInv, NEW p \in Procs,
         Shape', \A q \in Procs \ {p} : pc'[q] = pc[q] /\ request'[q] = request[q] /\ copy'[q] = copy[q],
         pc'[p] # "idle" => request'[p] \in MutationRequests,
         pc'[p] \in Holding =>
           lockFile' = TRUE /\ (lockFile = FALSE \/ pc[p] \in Holding),
         \/ lockFile' = lockFile
         \/ lockFile' = TRUE
         \/ pc[p] \in Holding,
         registry' = registry \/ pc[p] \in Holding,
         pc'[p] = "commit" => copy'[p] = registry'
  PROVE  LockInv'
<1>3. Requested'
  BY DEF LockInv, Requested, At
<1>4. OneHolder'
  <2>1. ASSUME NEW q \in Procs, pc'[q] \in Holding PROVE lockFile' = TRUE
    <3>1. CASE q = p
      BY <2>1, <3>1
    <3>2. CASE q # p
      <4>1. pc[q] \in Holding
        BY <2>1, <3>2
      <4>2. lockFile = TRUE /\ pc[p] \notin Holding
        BY <3>2, <4>1 DEF LockInv, OneHolder
      <4> QED BY <4>2, Zenon
    <3> QED BY <3>1, <3>2
  <2>2. ASSUME NEW q \in Procs, q # p, pc'[q] \in Holding, pc'[p] \in Holding PROVE FALSE
    BY <2>2 DEF LockInv, OneHolder
  <2>3. ASSUME NEW q \in Procs, NEW x \in Procs, q # p, x # p,
               pc'[q] \in Holding, pc'[x] \in Holding
        PROVE  q = x
    BY <2>3 DEF LockInv, OneHolder
  <2> QED BY <2>1, <2>2, <2>3 DEF OneHolder
<1>5. NoLostUpdate'
  <2> SUFFICES ASSUME NEW q \in Procs, pc'[q] = "commit" PROVE copy'[q] = registry'
    BY DEF NoLostUpdate, At
  <2>1. CASE q = p
    BY <2>1
  <2>2. CASE q # p
    <3>1. pc[q] = "commit" /\ copy'[q] = copy[q] /\ pc[q] \in Holding
      BY <2>2 DEF Holding
    <3>2. copy[q] = registry
      BY <3>1 DEF LockInv, NoLostUpdate, At
    <3>3. pc[p] \notin Holding
      BY <2>2, <3>1 DEF LockInv, OneHolder
    <3> QED BY <3>1, <3>2, <3>3
  <2> QED BY <2>1, <2>2
<1> QED BY <1>3, <1>4, <1>5 DEF LockInv

\* What Go and End do to the processes.
LEMMA GoEffect ==
  ASSUME LockInv, NEW p \in Procs, NEW place, Go(p, place)
  PROVE  /\ Shape' /\ pc'[p] = place /\ request'[p] = request[p] /\ copy'[p] = copy[p]
         /\ \A q \in Procs \ {p} : pc'[q] = pc[q] /\ request'[q] = request[q] /\ copy'[q] = copy[q]
BY DEF Go, LockInv, Shape

LEMMA EndEffect ==
  ASSUME LockInv, NEW p \in Procs, End(p)
  PROVE  /\ Shape' /\ pc'[p] = "idle"
         /\ \A q \in Procs \ {p} : pc'[q] = pc[q] /\ request'[q] = request[q] /\ copy'[q] = copy[q]
BY DEF End, LockInv, Shape

LEMMA LockInit == PInit => LockInv
BY DEF PInit, LockInv, Shape, Requested, OneHolder, NoLostUpdate, At, Holding

LEMMA LockNext == LockInv /\ [PNext]_vars => LockInv'
<1> SUFFICES ASSUME LockInv, [PNext]_vars PROVE LockInv'
  OBVIOUS
<1>1. CASE UNCHANGED vars
  BY <1>1 DEF vars, LockInv, Shape, Requested, OneHolder, NoLostUpdate, At
<1>2. ASSUME NEW p \in Procs, End(p), registry' = registry, lockFile' = lockFile
      PROVE  LockInv'
  <2>1. "idle" \notin Holding
    BY DEF Holding
  <2> QED BY <1>2, <2>1, EndEffect, OneProcess
<1>3. ASSUME NEW p \in Procs, NEW place \in {"replace", "acquire"}, ~At(p, "idle"), Go(p, place),
             registry' = registry, lockFile' = lockFile
      PROVE  LockInv'
  <2>1. place \notin Holding
    BY DEF Holding
  <2>2. request[p] \in MutationRequests
    BY <1>3 DEF LockInv, Requested
  <2> QED BY <1>3, <2>1, <2>2, GoEffect, OneProcess DEF Holding
<1>4. ASSUME NEW p \in Procs, NEW q \in MutationRequests, Start(p, q) PROVE LockInv'
  <2>1. /\ Shape' /\ pc'[p] \in {"writeTmp", "acquire"} /\ request'[p] = q
        /\ \A x \in Procs \ {p} : pc'[x] = pc[x] /\ request'[x] = request[x] /\ copy'[x] = copy[x]
    BY <1>4 DEF Start, LockInv, Shape
  <2>2. registry' = registry /\ lockFile' = lockFile
    BY <1>4 DEF Start
  <2> QED BY <2>1, <2>2, OneProcess DEF Holding
<1>5. ASSUME NEW p \in Procs, WriteGateTmp(p) PROVE LockInv'
  BY <1>3, <1>5 DEF WriteGateTmp, At
<1>6. ASSUME NEW p \in Procs, ReplaceGate(p) PROVE LockInv'
  <2>1. registry' = registry /\ lockFile' = lockFile /\ ~At(p, "idle")
    BY <1>6 DEF ReplaceGate, At
  <2>2. Go(p, "acquire") \/ End(p)
    BY <1>6 DEF ReplaceGate
  <2> QED BY <1>2, <1>3, <2>1, <2>2
<1>7. ASSUME NEW p \in Procs, Acquire(p) PROVE LockInv'
  <2>1. /\ lockFile = FALSE \/ pc[p] \in Holding
        /\ lockFile' = TRUE /\ registry' = registry
    BY <1>7 DEF Acquire, LockInv, OneHolder
  <2>2. request[p] \in MutationRequests
    BY <1>7 DEF Acquire, At, LockInv, Requested
  <2>3. /\ Shape' /\ pc'[p] = "load" /\ request'[p] = request[p]
        /\ \A x \in Procs \ {p} : pc'[x] = pc[x] /\ request'[x] = request[x] /\ copy'[x] = copy[x]
    BY <1>7, GoEffect DEF Acquire
  <2> QED BY <2>1, <2>2, <2>3, OneProcess
<1>8. ASSUME NEW p \in Procs, Load(p) PROVE LockInv'
  <2>1. pc[p] \in Holding /\ lockFile = TRUE /\ request[p] \in MutationRequests
    BY <1>8 DEF Load, At, Holding, LockInv, OneHolder, Requested
  <2>2. /\ Shape' /\ pc'[p] = "commit" /\ request'[p] = request[p] /\ copy'[p] = registry
        /\ \A x \in Procs \ {p} : pc'[x] = pc[x] /\ request'[x] = request[x] /\ copy'[x] = copy[x]
    BY <1>8 DEF Load, LockInv, Shape
  <2>3. registry' = registry /\ lockFile' = lockFile
    BY <1>8 DEF Load
  <2> QED BY <2>1, <2>2, <2>3, OneProcess
<1>9. ASSUME NEW p \in Procs, Commit(p) PROVE LockInv'
  <2>1. pc[p] \in Holding /\ lockFile = TRUE /\ request[p] \in MutationRequests
    BY <1>9 DEF Commit, At, Holding, LockInv, OneHolder, Requested
  <2>2. /\ Shape' /\ pc'[p] = "release" /\ request'[p] = request[p]
        /\ \A x \in Procs \ {p} : pc'[x] = pc[x] /\ request'[x] = request[x] /\ copy'[x] = copy[x]
    BY <1>9 DEF Commit, LockInv, Shape
  <2>3. lockFile' = lockFile
    BY <1>9 DEF Commit
  <2> QED BY <2>1, <2>2, <2>3, OneProcess
<1>10. ASSUME NEW p \in Procs, Release(p) PROVE LockInv'
  <2>1. pc[p] \in Holding /\ "idle" \notin Holding /\ End(p) /\ registry' = registry
    BY <1>10 DEF Release, At, Holding
  <2> QED BY <2>1, EndEffect, OneProcess
<1>11. ASSUME NEW p \in Procs, TimeOut(p) PROVE LockInv'
  BY <1>2, <1>11 DEF TimeOut
<1>12. ASSUME NEW p \in Procs, Crash(p) PROVE LockInv'
  BY <1>2, <1>12 DEF Crash
<1> QED BY <1>1, <1>4, <1>5, <1>6, <1>7, <1>8, <1>9, <1>10, <1>11, <1>12 DEF PNext, Step
------------------------------------------------------------------------------
\* Two commands never interleave between load and write, for any number of
\* processes, commands and crashes.
THEOREM NothingLost == PSpec => []NoLostUpdate
<1>1. LockInv => NoLostUpdate
  BY DEF LockInv
<1> QED BY LockInit, LockNext, <1>1, PTL DEF PSpec

LEMMA StepIsMutation == LockInv /\ [PNext]_vars => [Next]_registry
<1> SUFFICES ASSUME LockInv, PNext, registry' # registry PROVE Next
  BY DEF vars
<1>1. PICK p \in Procs : Commit(p)
  BY DEF PNext, Step, Start, WriteGateTmp, ReplaceGate, Acquire, TimeOut, Load, Release, Crash
<1>2. copy[p] = registry /\ request[p] \in MutationRequests
  BY <1>1 DEF Commit, LockInv, NoLostUpdate, Requested, At
<1>3. Permits(copy[p], request[p]) /\ registry' = Mutate(copy[p], request[p])
  BY <1>1 DEF Commit
<1> QED BY <1>2, <1>3 DEF Next

\* The file moves by one permitted mutation at a time.
THEOREM AtomicMutations == PSpec => Atomically
<1> QED BY LockInit, LockNext, StepIsMutation, PTL DEF PSpec, Atomically

\* From an empty file the processes implement the atomic registry, so its
\* theorems hold of the file.
THEOREM ImplementsRegistry == ASSUME InitialRegistries = {EmptyRegistry} PROVE PSpec => Spec
<1>1. PInit => Init
  BY DEF PInit, Init
<1> QED BY <1>1, LockInit, LockNext, StepIsMutation, PTL DEF PSpec, Spec

\* So whatever processes share the file, and wherever they crash: a component has
\* exactly the champion its entry names, nobody serves without gate, shadow and
\* approval, and a champion that replaced another can be rolled back.
THEOREM FileIsGoverned ==
  ASSUME InitialRegistries = {EmptyRegistry}
  PROVE  PSpec => [](OneChampion /\ NothingSkipped /\ RollbackTargetKept)
<1>1. PSpec => Spec
  BY ImplementsRegistry
<1> QED BY <1>1, Governance, WayBack, PTL
------------------------------------------------------------------------------
(* What a release says of the champion before its own. A candidate is       *)
(* approved at most once in its life, so the history promotes it at most    *)
(* once, and that event is there for whoever has been champion.             *)

Says(r, i, c, k) == r.history[i].candidate = c /\ r.history[i].component = k

PromotedOnce == \A i, j \in DOMAIN registry.history :
  registry.history[i].candidate = registry.history[j].candidate => i = j
Recorded == \A c \in Candidates : StatusOf(registry, c) \in Served =>
  \E i \in DOMAIN registry.history : Says(registry, i, c, registry.candidates[c].component)

RegistryInv == Inv /\ HistorySound /\ PromotedOnce /\ Recorded

\* Nobody comes to serve but by a promotion, and nobody changes its component then.
LEMMA ServedBefore ==
  ASSUME Inv, NEW q \in MutationRequests, Permits(registry, q), registry' = Mutate(registry, q),
         NEW c \in Candidates, StatusOf(registry', c) \in Served
  PROVE  /\ registry'.candidates[c].component = registry.candidates[c].component
         /\ StatusOf(registry, c) \in Served \/ (q.command = "promote" /\ q.candidate = c)
<1>1. /\ registry \in Registry
      /\ registry.candidates \in [Candidates -> Candidate]
      /\ registry.candidates[c] \in Candidate
  BY DEF Inv, RegistryTypeOK, Registry
<1>2. q.command \in Commands
  BY RequestFields
<1>3. CASE q.command = "register"
  <2>1. registry'.candidates = [registry.candidates EXCEPT ![q.candidate] =
          [Absent EXCEPT !.component = q.component, !.status = "candidate"]]
    BY <1>1, <1>3 DEF Mutate, Register, Registry
  <2>2. q.candidate # c
    BY <2>1, <1>1 DEF StatusOf, Served, Absent
  <2> QED BY <1>1, <2>1, <2>2 DEF StatusOf
<1>4. CASE q.command = "evaluate"
  <2>1. registry'.candidates = [registry.candidates EXCEPT ![q.candidate] =
          [registry.candidates[q.candidate] EXCEPT !.gate = q.verdict,
                                                   !.status = GateOutcome(q.verdict)]]
    BY <1>1, <1>4 DEF Mutate, Evaluate, Registry
  <2>2. GateOutcome(q.verdict) \notin Served
    BY <1>4, RequestFields DEF GateOutcome, Served, Verdicts
  <2>3. q.candidate # c
    BY <2>1, <2>2, <1>1 DEF StatusOf, Candidate
  <2> QED BY <1>1, <2>1, <2>3 DEF StatusOf
<1>5. CASE q.command = "shadow"
  <2>1. registry'.candidates = [registry.candidates EXCEPT ![q.candidate] =
          [registry.candidates[q.candidate] EXCEPT !.shadow = TRUE, !.status = "shadow_passed"]]
    BY <1>1, <1>5 DEF Mutate, RecordShadow, Registry
  <2>2. q.candidate # c
    BY <2>1, <1>1 DEF StatusOf, Served, Candidate
  <2> QED BY <1>1, <2>1, <2>2 DEF StatusOf
<1>6. CASE q.command = "approve"
  <2>1. registry'.candidates = [registry.candidates EXCEPT ![q.candidate] =
          [registry.candidates[q.candidate] EXCEPT !.approval = TRUE, !.status = "approved"]]
    BY <1>1, <1>6 DEF Mutate, Approve, Registry
  <2>2. q.candidate # c
    BY <2>1, <1>1 DEF StatusOf, Served, Candidate
  <2> QED BY <1>1, <2>1, <2>2 DEF StatusOf
<1>7. ASSUME NEW d, NEW l, NEW left \in {"superseded", "rolled_back"}, l \in Components,
             registry'.candidates = Crown(registry, d, l, left).candidates
      PROVE  /\ registry'.candidates[c].component = registry.candidates[c].component
             /\ c = d \/ StatusOf(registry, c) \in Served
  <2>1. registry'.candidates[c] =
          IF c = d THEN [registry.candidates[c] EXCEPT !.status = "champion"]
          ELSE IF c = registry.champions[l] THEN [registry.candidates[c] EXCEPT !.status = left]
          ELSE registry.candidates[c]
    BY <1>1, <1>7 DEF Crown, Registry
  <2>2. c = registry.champions[l] => registry.candidates[c].status = "champion"
    BY <1>7 DEF Inv, OneChampion, StatusOf
  <2> QED BY <1>1, <2>1, <2>2 DEF Candidate, StatusOf, Served
<1>8. CASE q.command = "promote"
  <2> DEFINE l == registry.candidates[q.candidate].component
  <2>1. registry'.candidates = Crown(registry, q.candidate, l, "superseded").candidates
    BY <1>1, <1>8 DEF Mutate, Promote, Crown, Registry
  <2>2. l \in Components
    BY <1>8, RequestFields DEF Permits, Inv, Assigned, StatusOf
  <2> QED BY <1>7, <1>8, <2>1, <2>2
<1>9. CASE q.command = "rollback"
  <2>1. /\ registry' = Crown(registry, RollbackTarget(registry, q), q.component, "rolled_back")
        /\ StatusOf(registry, RollbackTarget(registry, q)) \in Served
        /\ q.component \in Components
    BY <1>9, RequestFields DEF Mutate, Rollback, Permits, PermitsRollback, Served
  <2> QED BY <1>7, <2>1
<1> QED BY <1>2, <1>3, <1>4, <1>5, <1>6, <1>8, <1>9 DEF Commands

\* A mutation leaves the history alone, or it is a promotion and adds itself.
LEMMA HistoryGrows ==
  ASSUME Inv, NEW q \in MutationRequests, Permits(registry, q), registry' = Mutate(registry, q)
  PROVE  \/ q.command # "promote" /\ registry'.history = registry.history
         \/ /\ q.command = "promote" /\ q.candidate \in Candidates
            /\ StatusOf(registry, q.candidate) = "approved"
            /\ LET n == Len(registry.history) IN
               /\ n \in Nat /\ DOMAIN registry'.history = 1..(n + 1)
               /\ DOMAIN registry.history = 1..n
               /\ \A i \in 1..n : registry'.history[i] = registry.history[i]
               /\ Says(registry', n + 1, q.candidate, registry.candidates[q.candidate].component)
<1>1. /\ registry \in Registry /\ registry.history \in Seq(Event)
      /\ registry.candidates \in [Candidates -> Candidate]
      /\ registry.champions \in [Components -> Candidates \cup {NoCandidate}]
      /\ q.command \in Commands
  BY RequestFields DEF Inv, RegistryTypeOK, Registry
<1>2. CASE q.command # "promote"
  BY <1>1, <1>2 DEF Mutate, Register, Evaluate, RecordShadow, Approve, Rollback, Crown, Registry,
     Commands
<1>3. CASE q.command = "promote"
  <2> DEFINE c == q.candidate
             k == registry.candidates[q.candidate].component
             event == [candidate |-> c, component |-> k, previous |-> registry.champions[k]]
             n == Len(registry.history)
  <2>1. registry' = [Crown(registry, c, k, "superseded") EXCEPT !.history = Append(@, event)]
    BY <1>3 DEF Mutate, Promote
  <2>2. registry'.history = Append(registry.history, event)
    BY <1>1, <2>1 DEF Crown, Registry
  <2>3. c \in Candidates /\ StatusOf(registry, c) = "approved"
    BY <1>3, RequestFields DEF Permits
  <2>4. event.candidate = c /\ event.component = k
    OBVIOUS
  <2>5. n \in Nat /\ DOMAIN registry.history = 1..n
    BY <1>1
  <2> HIDE DEF event
  <2>6. /\ DOMAIN registry'.history = 1..(n + 1)
        /\ \A i \in 1..n : registry'.history[i] = registry.history[i]
        /\ registry'.history[n + 1] = event
    BY <1>1, <2>2, <2>5
  <2> QED BY <1>3, <2>3, <2>4, <2>5, <2>6 DEF Says
<1> QED BY <1>2, <1>3

\* What the history says it says for ever.
HistoryKept == \A i \in DOMAIN registry.history :
  i \in DOMAIN registry'.history /\ registry'.history[i] = registry.history[i]

LEMMA RegistryStep ==
  ASSUME RegistryInv, NEW q \in MutationRequests, Permits(registry, q),
         registry' = Mutate(registry, q)
  PROVE  RegistryInv' /\ HistoryKept
<1>1. Inv' /\ HistorySound'
  BY InvNext, HistoryNext DEF RegistryInv, Next
<1>2. HistoryKept
  BY HistoryGrows DEF RegistryInv, HistoryKept
<1>3. Recorded'
  <2> SUFFICES ASSUME NEW c \in Candidates, StatusOf(registry', c) \in Served
               PROVE  \E i \in DOMAIN registry'.history :
                        Says(registry', i, c, registry'.candidates[c].component)
    BY DEF Recorded
  <2>1. /\ registry'.candidates[c].component = registry.candidates[c].component
        /\ StatusOf(registry, c) \in Served \/ (q.command = "promote" /\ q.candidate = c)
    BY ServedBefore DEF RegistryInv
  <2>2. CASE StatusOf(registry, c) \in Served
    <3>1. PICK i \in DOMAIN registry.history : Says(registry, i, c, registry.candidates[c].component)
      BY <2>2 DEF RegistryInv, Recorded
    <3> QED BY <1>2, <2>1, <3>1 DEF HistoryKept, Says
  <2>3. CASE q.command = "promote" /\ q.candidate = c
    <3>1. PICK n \in Nat : /\ DOMAIN registry'.history = 1..(n + 1)
                           /\ Says(registry', n + 1, c, registry.candidates[c].component)
      BY <2>3, HistoryGrows DEF RegistryInv
    <3>2. n + 1 \in DOMAIN registry'.history
      BY <3>1
    <3> QED BY <2>1, <3>1, <3>2
  <2> QED BY <2>1, <2>2, <2>3
<1>4. PromotedOnce'
  <2>1. CASE registry'.history = registry.history
    BY <2>1 DEF RegistryInv, PromotedOnce
  <2>2. CASE registry'.history # registry.history
    <3>1. PICK n \in Nat :
            /\ StatusOf(registry, q.candidate) = "approved"
            /\ DOMAIN registry'.history = 1..(n + 1) /\ DOMAIN registry.history = 1..n
            /\ \A i \in 1..n : registry'.history[i] = registry.history[i]
            /\ registry'.history[n + 1].candidate = q.candidate
      BY <2>2, HistoryGrows DEF RegistryInv, Says
    <3>2. ASSUME NEW i \in 1..n PROVE registry.history[i].candidate # q.candidate
      BY <3>1 DEF RegistryInv, HistorySound, EventSound, ServedFor, Served, StatusOf
    <3>3. \A i \in 1..(n + 1) : i \in 1..n \/ i = n + 1
      OBVIOUS
    <3> QED BY <3>1, <3>2, <3>3 DEF RegistryInv, PromotedOnce
  <2> QED BY <2>1, <2>2
<1> QED BY <1>1, <1>2, <1>3, <1>4 DEF RegistryInv

LEMMA RegistryStart == registry = EmptyRegistry => RegistryInv
<1> SUFFICES ASSUME registry = EmptyRegistry PROVE RegistryInv
  OBVIOUS
<1>1. Inv
  BY InvInit DEF Init
<1>2. registry.history = <<>> /\ \A c \in Candidates : StatusOf(registry, c) = "absent"
  BY DEF EmptyRegistry, StatusOf, Absent
<1> QED BY <1>1, <1>2 DEF RegistryInv, HistorySound, PromotedOnce, Recorded, Served

\* The champion before, as the rollback command finds it and as a release does.
PreviousSaid(r, c, k, b) ==
  \E i \in DOMAIN r.history : Says(r, i, c, k) /\ r.history[i].previous = b

LEMMA PreviousFound ==
  ASSUME RegistryInv, NEW c, NEW k, NEW b, PreviousSaid(registry, c, k, b)
  PROVE  /\ PreviousChampion(registry, k, c) = b
         /\ ReleasePrevious(registry, k, c) = b
<1>1. PICK i \in DOMAIN registry.history :
        Says(registry, i, c, k) /\ registry.history[i].previous = b
  BY DEF PreviousSaid
<1>2. \A j \in DOMAIN registry.history : registry.history[j].candidate = c => j = i
  BY <1>1 DEF RegistryInv, PromotedOnce, Says
<1>3. DOMAIN registry.history \subseteq Int
  BY DEF RegistryInv, Inv, RegistryTypeOK, Registry
<1>4. PreviousChampion(registry, k, c) = b
  <2>1. CASE b = NoCandidate
    <3>1. PromotionsOf(registry, c, k) = {}
      BY <1>1, <1>2, <2>1 DEF PromotionsOf
    <3> QED BY <2>1, <3>1 DEF PreviousChampion
  <2>2. CASE b # NoCandidate
    <3>1. PromotionsOf(registry, c, k) = {i}
      BY <1>1, <1>2, <2>2 DEF PromotionsOf, Says
    <3>2. (CHOOSE x \in {i} : \A j \in {i} : j <= x) = i
      BY <1>3
    <3> QED BY <1>1, <3>1, <3>2 DEF PreviousChampion
  <2> QED BY <2>1, <2>2
<1>5. ReleasePrevious(registry, k, c) = b
  <2> DEFINE own == {j \in DOMAIN registry.history :
                       registry.history[j].component = k /\ registry.history[j].candidate = c}
  <2>1. own = {i}
    BY <1>1, <1>2 DEF Says
  <2>2. (CHOOSE x \in {i} : \A j \in {i} : j <= x) = i
    BY <1>3
  <2> QED BY <1>1, <2>1, <2>2 DEF ReleasePrevious
<1> QED BY <1>4, <1>5
------------------------------------------------------------------------------
(* The data set and its audit.                                              *)

LEMMA RowsHaveIds ==
  ASSUME NEW records, NEW n \in DOMAIN RowsOf(records)
  PROVE  RowsOf(records)[n].id # None
<1>1. CASE records # <<>> /\ \A i \in DOMAIN records : Sound(records[i])
  <2>1. RowsOf(records) = [i \in DOMAIN records |-> RowOf(records[i])]
    BY <1>1 DEF RowsOf
  <2>2. n \in DOMAIN records /\ RowsOf(records)[n] = RowOf(records[n])
    BY <2>1
  <2>3. RowOf(records[n]).id = records[n].id
    BY DEF RowOf
  <2> QED BY <1>1, <2>2, <2>3 DEF Sound
<1>2. CASE ~(records # <<>> /\ \A i \in DOMAIN records : Sound(records[i]))
  <2>1. RowsOf(records) = <<>>
    BY <1>2 DEF RowsOf
  <2> QED BY <2>1
<1> QED BY <1>1, <1>2

\* What passes the audit separates the partitions.
LEMMA AuditSeparates ==
  ASSUME NEW rows, NEW required, NEW reserved, Audit(rows, required, reserved) = "pass",
         \A n \in DOMAIN rows : rows[n].id # None
  PROVE  Separate(rows)
<1>1. \A key \in Kinds \cup {"id", "group"} : ~Crosses(rows, key)
  BY DEF Audit
<1>2. ASSUME NEW m \in DOMAIN rows, NEW n \in DOMAIN rows, rows[m].partition # rows[n].partition
      PROVE  /\ rows[m].id # rows[n].id
             /\ \A kind \in Kinds : rows[m][kind] # rows[n][kind] \/ rows[m][kind] = None
  <2>1. ~Crosses(rows, "id")
    BY <1>1
  <2>2. rows[m].id # rows[n].id
    BY <1>2, <2>1 DEF Crosses
  <2>3. ASSUME NEW kind \in Kinds
        PROVE  rows[m][kind] # rows[n][kind] \/ rows[m][kind] = None
    BY <1>1, <1>2, <2>3 DEF Crosses
  <2> QED BY <2>2, <2>3
<1> QED BY <1>2 DEF Separate
------------------------------------------------------------------------------
(* The invariant of Release: shapes of the records, what each command has   *)
(* read, and what the release and the server say.                           *)

FileShape(f) == f = [data |-> f.data, lineage |-> f.lineage, manifest |-> f.manifest,
                     artifact |-> f.artifact, card |-> f.card]
EntryShape(e) == e = [dataset |-> e.dataset, audit |-> e.audit, artifact |-> e.artifact,
                      card |-> e.card]
ReleaseShape(x) ==
  /\ x = [of |-> x.of, champion |-> x.champion, entry |-> x.entry, previous |-> x.previous,
          manifest |-> x.manifest, audit |-> x.audit, card |-> x.card, report |-> x.report]
  /\ EntryShape(x.entry)
WorkShape(w) == w = [at |-> w.at, request |-> w.request, read |-> w.read] /\ ReleaseShape(w.read)

WithIds(manifest) == \A n \in DOMAIN manifest.rows : manifest.rows[n].id # None
OfOneSet(e) == e.artifact.id \in {None, e.dataset.id}

\* A snapshot of a champion: it had earned its place, its artifact is of its data
\* set, and the history has the promotion and the champion it replaced.
Snapshot(r, x) ==
  /\ x.champion.status = "champion" /\ Earned(x.champion)
  /\ OfOneSet(x.entry)
  /\ PreviousSaid(r, x.of, x.champion.component, x.previous)

Releasing == {"releaseClear", "releaseCheck", "releaseGate", "releaseGoverned", "releaseWrite"}
Registering == {"registerClear", "registerCheck", "registerCommit"}

WorkSound(p) ==
  /\ WorkShape(work[p])
  /\ work[p].at \in {"buildLineage", "buildManifest"} => WithIds(work[p].read.manifest)
  /\ work[p].at \in Registering =>
       work[p].request \in MutationRequests /\ work[p].request.command = "register"
  /\ work[p].at = "registerCommit" => OfOneSet(work[p].read.entry)
  /\ work[p].at \in {"evaluateLoad", "evaluateCommit"} => work[p].request \in Candidates
  /\ work[p].at = "evaluateCommit" => work[p].read.report \in Verdicts
  /\ work[p].at = "releaseRead" => work[p].request \in Components
  /\ work[p].at \in Releasing => Snapshot(registry, work[p].read)

ServerSound(x) ==
  /\ Snapshot(registry, x)
  /\ Gate(Base, x.card) = "pass" /\ Separate(x.manifest.rows)
  /\ x.entry.audit = [manifest |-> x.manifest, status |-> "pass"]

FilesSound == FileShape(file) /\ WithIds(file.manifest)
EntriesSound == /\ entry = [c \in Candidates |-> entry[c]]
                /\ \A c \in Candidates : EntryShape(entry[c]) /\ OfOneSet(entry[c])
WorksSound == /\ work = [p \in Processes |-> work[p]]
              /\ \A p \in Processes : WorkSound(p)
ReleaseSound == ReleaseShape(release) /\ (release # NoRelease => Snapshot(registry, release))
ServersSound == server # NoRelease => ServerSound(server)

ReleaseInv ==
  /\ RegistryInv /\ FilesSound /\ EntriesSound /\ WorksSound /\ ReleaseSound /\ ServersSound

LEMMA ReleaseInvMeans == ReleaseInv => ServedIsGoverned
<1> SUFFICES ASSUME ReleaseInv, server # NoRelease
             PROVE  /\ server.champion.status = "champion" /\ Earned(server.champion)
                    /\ Gate(Base, server.card) = "pass"
                    /\ Separate(server.manifest.rows)
                    /\ server.entry.audit = [manifest |-> server.manifest, status |-> "pass"]
                    /\ server.entry.artifact.id \in {None, server.entry.dataset.id}
                    /\ LET k == server.champion.component IN
                       registry.champions[k] = server.of =>
                         server.previous = PreviousChampion(registry, k, server.of)
  BY DEF ServedIsGoverned
<1>1. ServerSound(server)
  BY DEF ReleaseInv, ServersSound
<1>2. server.previous = PreviousChampion(registry, server.champion.component, server.of)
  BY <1>1, PreviousFound DEF ReleaseInv, ServerSound, Snapshot
<1> QED BY <1>1, <1>2 DEF ServerSound, Snapshot, OfOneSet
------------------------------------------------------------------------------
\* A project without candidates; what data set it has was built.
Unused(scene) ==
  /\ scene.registry = EmptyRegistry /\ scene.entry = [c \in Candidates |-> NoEntry]
  /\ FileShape(scene.file) /\ WithIds(scene.file.manifest)

LEMMA NothingReleased == ReleaseShape(NoRelease)
BY DEF ReleaseShape, NoRelease, EntryShape, NoEntry

LEMMA ReleaseInvInit == ASSUME \A scene \in Scenes : Unused(scene) PROVE GInit => ReleaseInv
<1> SUFFICES ASSUME GInit PROVE ReleaseInv
  OBVIOUS
<1>1. PICK scene \in Scenes :
        registry = scene.registry /\ entry = scene.entry /\ file = scene.file
  BY DEF GInit
<1>2. RegistryInv
  BY <1>1, RegistryStart DEF Unused
<1>3. FilesSound
  BY <1>1 DEF Unused, FilesSound
<1>4. EntriesSound
  <2>1. EntryShape(NoEntry) /\ OfOneSet(NoEntry)
    BY DEF EntryShape, OfOneSet, NoEntry, NoArtifact, NoManifest
  <2> QED BY <1>1, <2>1 DEF Unused, EntriesSound
<1>5. WorksSound
  <2>1. work = [p \in Processes |-> NoWork]
    BY DEF GInit
  <2>2. NoWork.at = "idle" /\ WorkShape(NoWork)
    BY NothingReleased DEF NoWork, WorkShape
  <2> QED BY <2>1, <2>2 DEF WorksSound, WorkSound, Registering, Releasing
<1>6. ReleaseSound /\ ServersSound
  BY NothingReleased DEF GInit, ReleaseSound, ServersSound
<1> QED BY <1>2, <1>3, <1>4, <1>5, <1>6 DEF ReleaseInv
------------------------------------------------------------------------------
\* A snapshot stays one: what the history says it says for ever.
LEMMA SnapshotKept ==
  ASSUME NEW x, Snapshot(registry, x), HistoryKept PROVE Snapshot(registry', x)
BY DEF Snapshot, PreviousSaid, HistoryKept, Says

\* A step of one command: what it must show of itself.
LEMMA OneCommand ==
  ASSUME ReleaseInv, NEW p \in Processes, NEW w, work' = [work EXCEPT ![p] = w],
         RegistryInv', HistoryKept, FilesSound', EntriesSound', ReleaseSound',
         WorkSound(p)', UNCHANGED server
  PROVE  ReleaseInv'
<1>1. ASSUME NEW q \in Processes, q # p PROVE WorkSound(q)'
  <2>1. work'[q] = work[q] /\ WorkSound(q)
    BY <1>1 DEF ReleaseInv, WorksSound
  <2> QED BY <2>1, SnapshotKept DEF WorkSound
<1>2. WorksSound'
  <2>1. work = [q \in Processes |-> work[q]]
    BY DEF ReleaseInv, WorksSound
  <2>2. work' = [q \in Processes |-> work'[q]]
    BY <2>1
  <2> QED BY <1>1, <2>2 DEF WorksSound
<1>3. ServersSound'
  BY SnapshotKept DEF ReleaseInv, ServersSound, ServerSound
<1> QED BY <1>2, <1>3 DEF ReleaseInv

\* The files, entries, registry or release that a step leaves alone.
LEMMA LeftAlone ==
  ASSUME ReleaseInv
  PROVE  /\ UNCHANGED registry => RegistryInv' /\ HistoryKept
         /\ UNCHANGED file => FilesSound'
         /\ UNCHANGED entry => EntriesSound'
         /\ UNCHANGED release /\ HistoryKept => ReleaseSound'
<1>1. UNCHANGED registry => RegistryInv' /\ HistoryKept
  BY DEF ReleaseInv, RegistryInv, Inv, RegistryTypeOK, OneChampion, NothingSkipped, Assigned,
         StatusOf, HistorySound, PromotedOnce, Recorded, HistoryKept
<1>2. UNCHANGED file => FilesSound'
  BY DEF ReleaseInv, FilesSound
<1>3. UNCHANGED entry => EntriesSound'
  BY DEF ReleaseInv, EntriesSound
<1>4. UNCHANGED release /\ HistoryKept => ReleaseSound'
  BY SnapshotKept DEF ReleaseInv, ReleaseSound
<1> QED BY <1>1, <1>2, <1>3, <1>4

\* A command that ends, whatever it wrote.
LEMMA Ended ==
  ASSUME ReleaseInv, NEW p \in Processes, Quit(p)
  PROVE  WorkSound(p)'
<1>1. work'[p] = NoWork
  BY DEF Quit, ReleaseInv, WorksSound
<1>2. NoWork.at = "idle" /\ WorkShape(NoWork)
  BY NothingReleased DEF NoWork, WorkShape
<1> QED BY <1>1, <1>2 DEF WorkSound, Registering, Releasing

\* A command that goes on.
LEMMA GoesOn ==
  ASSUME ReleaseInv, NEW p \in Processes, NEW place, NEW read, Proceed(p, place, read),
         ReleaseShape(read)
  PROVE  /\ work'[p].at = place /\ work'[p].request = work[p].request /\ work'[p].read = read
         /\ WorkShape(work'[p]) /\ \E w : work' = [work EXCEPT ![p] = w]
<1> DEFINE w == [[work[p] EXCEPT !.at = place] EXCEPT !.read = read]
<1>1. /\ work = [q \in Processes |-> work[q]] /\ WorkShape(work[p])
      /\ work' = [work EXCEPT ![p] = w]
  BY DEF ReleaseInv, WorksSound, WorkSound, Proceed
<1>2. w = [at |-> place, request |-> work[p].request, read |-> read]
  <2>1. PICK a, b, c : work[p] = [at |-> a, request |-> b, read |-> c]
    BY <1>1 DEF WorkShape
  <2>2. work[p].request = b
    BY <2>1
  <2>3. [work[p] EXCEPT !.at = place] = [at |-> place, request |-> b, read |-> c]
    BY <2>1
  <2>4. w = [[at |-> place, request |-> b, read |-> c] EXCEPT !.read = read]
    BY <2>3
  <2> HIDE DEF w
  <2> QED BY <2>2, <2>4
<1>3. work'[p] = w
  BY <1>1
<1> HIDE DEF w
<1> QED BY <1>1, <1>2, <1>3 DEF WorkShape

LEMMA NoReleaseParts ==
  /\ \A m : LET x == [NoRelease EXCEPT !.manifest = m] IN ReleaseShape(x) /\ x.manifest = m
  /\ \A a : ReleaseShape([NoRelease EXCEPT !.entry.audit = a])
  /\ \A g : LET x == [NoRelease EXCEPT !.report = g] IN ReleaseShape(x) /\ x.report = g
BY DEF NoRelease, ReleaseShape, EntryShape, NoEntry
------------------------------------------------------------------------------
LEMMA StartSound ==
  ASSUME ReleaseInv, NEW p \in Processes, GStart(p)
  PROVE  ReleaseInv'
<1>0. PICK place \in {"buildRead", "trainClear", "registerClear", "evaluateLoad", "releaseRead"} :
        \E asked :
          /\ Launch(p, place, asked)
          /\ place = "registerClear" => asked \in MutationRequests /\ asked.command = "register"
          /\ place = "evaluateLoad" => asked \in Candidates
          /\ place = "releaseRead" => asked \in Components
  BY DEF GStart, TrainStart, BuildStart, RegisterStart, EvaluateStart, ReleaseStart
<1>1. PICK asked :
        /\ Launch(p, place, asked)
        /\ place = "registerClear" => asked \in MutationRequests /\ asked.command = "register"
        /\ place = "evaluateLoad" => asked \in Candidates
        /\ place = "releaseRead" => asked \in Components
  BY <1>0
<1> DEFINE w == [NoWork EXCEPT !.at = place, !.request = asked]
<1>2. work' = [work EXCEPT ![p] = w] /\ UNCHANGED <<registry, entry, file, release, server>>
  BY <1>1 DEF Launch
<1>a. w = [at |-> place, request |-> asked, read |-> NoRelease]
  <2>1. [NoWork EXCEPT !.at = place] = [at |-> place, request |-> None, read |-> NoRelease]
    BY DEF NoWork
  <2>2. w = [[at |-> place, request |-> None, read |-> NoRelease] EXCEPT !.request = asked]
    BY <2>1
  <2> HIDE DEF w
  <2> QED BY <2>2
<1> HIDE DEF w
<1>3. w.at = place /\ w.request = asked /\ w.read = NoRelease /\ WorkShape(w)
  BY <1>a, NothingReleased DEF WorkShape
<1>4. work'[p] = w
  BY <1>2 DEF ReleaseInv, WorksSound
<1>5. WorkSound(p)'
  BY <1>1, <1>3, <1>4 DEF WorkSound, Registering, Releasing
<1> QED BY <1>2, <1>5, LeftAlone, OneCommand

LEMMA BuildSound ==
  ASSUME ReleaseInv, NEW p \in Processes, BuildRead(p) \/ BuildLineage(p) \/ BuildManifest(p)
  PROVE  ReleaseInv'
<1>1. UNCHANGED <<registry, entry, release, server>>
  BY DEF BuildRead, BuildLineage, BuildManifest
<1>2. RegistryInv' /\ HistoryKept /\ EntriesSound' /\ ReleaseSound'
  BY <1>1, LeftAlone
<1>3. WorkSound(p) /\ FileShape(file)
  BY DEF ReleaseInv, WorksSound, FilesSound
<1>q. ASSUME Quit(p), FilesSound' PROVE ReleaseInv'
  BY <1>q, <1>1, <1>2, Ended, OneCommand DEF Quit
<1>4. CASE BuildRead(p)
  <2>1. UNCHANGED file /\ FilesSound'
    BY <1>4, LeftAlone DEF BuildRead
  <2>2. PICK id :
          \/ Quit(p)
          \/ Proceed(p, "buildLineage", [NoRelease EXCEPT !.manifest =
               [data |-> file.data, rows |-> RowsOf(file.data), id |-> id]])
    BY <1>4 DEF BuildRead
  <2> DEFINE m == [data |-> file.data, rows |-> RowsOf(file.data), id |-> id]
  <2>3. CASE Proceed(p, "buildLineage", [NoRelease EXCEPT !.manifest = m])
    <3>1. WithIds(m)
      BY RowsHaveIds DEF WithIds
    <3> HIDE DEF m
    <3>2. ReleaseShape([NoRelease EXCEPT !.manifest = m])
          /\ [NoRelease EXCEPT !.manifest = m].manifest = m
      BY NoReleaseParts
    <3>3. /\ work'[p].at = "buildLineage" /\ work'[p].read.manifest = m /\ WorkShape(work'[p])
          /\ \E w : work' = [work EXCEPT ![p] = w]
      BY <2>3, <3>2, GoesOn
    <3>4. WorkSound(p)'
      BY <3>1, <3>3 DEF WorkSound, Registering, Releasing
    <3> QED BY <1>1, <1>2, <2>1, <3>3, <3>4, OneCommand
  <2> QED BY <2>1, <2>2, <2>3, <1>q
<1>5. CASE BuildLineage(p)
  <2>1. WithIds(work[p].read.manifest) /\ ReleaseShape(work[p].read)
    BY <1>5, <1>3 DEF BuildLineage, InPlace, WorkSound, WorkShape
  <2>2. /\ file' = [file EXCEPT !.lineage = work[p].read.manifest.rows]
        /\ Proceed(p, "buildManifest", work[p].read)
    BY <1>5 DEF BuildLineage, Read
  <2>3. FilesSound'
    BY <1>3, <2>2 DEF ReleaseInv, FilesSound, FileShape
  <2>4. /\ work'[p].at = "buildManifest" /\ work'[p].read = work[p].read /\ WorkShape(work'[p])
        /\ \E w : work' = [work EXCEPT ![p] = w]
    BY <2>1, <2>2, GoesOn
  <2>5. WorkSound(p)'
    BY <2>1, <2>4 DEF WorkSound, Registering, Releasing
  <2> QED BY <1>1, <1>2, <2>3, <2>4, <2>5, OneCommand
<1>6. CASE BuildManifest(p)
  <2>1. WithIds(work[p].read.manifest)
    BY <1>6, <1>3 DEF BuildManifest, InPlace, WorkSound
  <2>2. file' = [file EXCEPT !.manifest = work[p].read.manifest] /\ Quit(p)
    BY <1>6 DEF BuildManifest, Read
  <2>3. FilesSound'
    BY <1>3, <2>1, <2>2 DEF FilesSound, FileShape
  <2> QED BY <2>2, <2>3, <1>q
<1> QED BY <1>4, <1>5, <1>6

LEMMA TrainSound ==
  ASSUME ReleaseInv, NEW p \in Processes, TrainClear(p) \/ TrainWrite(p)
  PROVE  ReleaseInv'
<1>1. UNCHANGED <<registry, entry, release, server>>
  BY DEF TrainClear, TrainWrite
<1>2. RegistryInv' /\ HistoryKept /\ EntriesSound' /\ ReleaseSound'
  BY <1>1, LeftAlone
<1>3. FilesSound'
  <2>1. UNCHANGED file \/ \E a : file' = [file EXCEPT !.artifact = a]
    BY DEF TrainClear, TrainWrite
  <2> QED BY <2>1 DEF ReleaseInv, FilesSound, FileShape
<1>4. CASE Quit(p)
  BY <1>1, <1>2, <1>3, <1>4, Ended, OneCommand DEF Quit
<1>5. CASE Proceed(p, "trainWrite", [NoRelease EXCEPT !.manifest = file.manifest])
  <2>1. ReleaseShape([NoRelease EXCEPT !.manifest = file.manifest])
    BY NoReleaseParts
  <2>2. /\ work'[p].at = "trainWrite" /\ WorkShape(work'[p])
        /\ \E w : work' = [work EXCEPT ![p] = w]
    BY <1>5, <2>1, GoesOn
  <2>3. WorkSound(p)'
    BY <2>2 DEF WorkSound, Registering, Releasing
  <2> QED BY <1>1, <1>2, <1>3, <2>2, <2>3, OneCommand
<1> QED BY <1>4, <1>5 DEF TrainClear, TrainWrite

LEMMA RegisterSound ==
  ASSUME ReleaseInv, NEW p \in Processes,
         RegisterClear(p) \/ RegisterCheck(p) \/ RegisterCommit(p)
  PROVE  ReleaseInv'
<1>1. UNCHANGED <<file, release, server>> /\ FilesSound'
  BY LeftAlone DEF RegisterClear, RegisterCheck, RegisterCommit
<1>2. WorkSound(p) /\ WorkShape(work[p]) /\ ReleaseShape(work[p].read) /\ EntryShape(work[p].read.entry)
  BY DEF ReleaseInv, WorksSound, WorkSound, WorkShape, ReleaseShape
<1>3. work[p].request \in MutationRequests /\ work[p].request.command = "register"
  BY <1>2 DEF WorkSound, RegisterClear, RegisterCheck, RegisterCommit, InPlace, Registering
<1>q. ASSUME Quit(p), RegistryInv', HistoryKept, EntriesSound' PROVE ReleaseInv'
  <2>1. ReleaseSound'
    BY <1>q, <1>1, LeftAlone
  <2> QED BY <1>q, <1>1, <2>1, Ended, OneCommand DEF Quit
<1>n. ASSUME UNCHANGED <<registry, entry>> PROVE RegistryInv' /\ HistoryKept /\ EntriesSound' /\ ReleaseSound'
  BY <1>n, <1>1, LeftAlone
<1>4. CASE RegisterClear(p)
  <2>1. UNCHANGED <<registry, entry>>
    BY <1>4 DEF RegisterClear
  <2>2. CASE Proceed(p, "registerCheck", [NoRelease EXCEPT !.entry.audit = AuditOf(file.manifest)])
    <3>1. ReleaseShape([NoRelease EXCEPT !.entry.audit = AuditOf(file.manifest)])
      BY NoReleaseParts
    <3>2. /\ work'[p].at = "registerCheck" /\ work'[p].request = work[p].request
          /\ WorkShape(work'[p]) /\ \E w : work' = [work EXCEPT ![p] = w]
      BY <2>2, <3>1, GoesOn
    <3>3. WorkSound(p)'
      BY <1>3, <3>2 DEF WorkSound, Registering, Releasing
    <3> QED BY <1>1, <1>n, <2>1, <3>2, <3>3, OneCommand
  <2> QED BY <1>4, <1>n, <1>q, <2>1, <2>2 DEF RegisterClear
<1>5. CASE RegisterCheck(p)
  <2>1. UNCHANGED <<registry, entry>>
    BY <1>5 DEF RegisterCheck
  <2> DEFINE read == [work[p].read EXCEPT !.entry.dataset = file.manifest,
                                          !.entry.artifact = file.artifact]
  <2>2. CASE Proceed(p, "registerCommit", read) /\ file.artifact.id \in {None, file.manifest.id}
    <3>1. PICK a, b, c, d, f, g, h, e1, e2, e3, e4 :
            work[p].read = [of |-> a, champion |-> b, entry |->
                              [dataset |-> e1, audit |-> e2, artifact |-> e3, card |-> e4],
                            previous |-> c, manifest |-> d, audit |-> f, card |-> g, report |-> h]
      BY <1>2 DEF ReleaseShape, EntryShape
    <3>2. read = [of |-> a, champion |-> b, entry |->
                    [dataset |-> file.manifest, audit |-> e2, artifact |-> file.artifact, card |-> e4],
                  previous |-> c, manifest |-> d, audit |-> f, card |-> g, report |-> h]
      <4>1. [[dataset |-> e1, audit |-> e2, artifact |-> e3, card |-> e4]
               EXCEPT !.dataset = file.manifest]
              = [dataset |-> file.manifest, audit |-> e2, artifact |-> e3, card |-> e4]
        OBVIOUS
      <4>2. [[dataset |-> file.manifest, audit |-> e2, artifact |-> e3, card |-> e4]
               EXCEPT !.artifact = file.artifact]
              = [dataset |-> file.manifest, audit |-> e2, artifact |-> file.artifact, card |-> e4]
        OBVIOUS
      <4>3. read = [[work[p].read EXCEPT !.entry.dataset = file.manifest]
                      EXCEPT !.entry.artifact = file.artifact]
        OBVIOUS
      <4>4. [work[p].read EXCEPT !.entry.dataset = file.manifest]
              = [work[p].read EXCEPT !.entry = [dataset |-> file.manifest, audit |-> e2,
                                                artifact |-> e3, card |-> e4]]
        BY <3>1, <4>1
      <4>5. [work[p].read EXCEPT !.entry.dataset = file.manifest]
              = [of |-> a, champion |-> b, entry |->
                   [dataset |-> file.manifest, audit |-> e2, artifact |-> e3, card |-> e4],
                 previous |-> c, manifest |-> d, audit |-> f, card |-> g, report |-> h]
        BY <3>1, <4>4
      <4>6. read = [[of |-> a, champion |-> b, entry |->
                      [dataset |-> file.manifest, audit |-> e2, artifact |-> e3, card |-> e4],
                      previous |-> c, manifest |-> d, audit |-> f, card |-> g, report |-> h]
                     EXCEPT !.entry.artifact = file.artifact]
        BY <4>3, <4>5
      <4> HIDE DEF read
      <4>7. read = [[of |-> a, champion |-> b, entry |->
                      [dataset |-> file.manifest, audit |-> e2, artifact |-> e3, card |-> e4],
                      previous |-> c, manifest |-> d, audit |-> f, card |-> g, report |-> h]
                     EXCEPT !.entry = [dataset |-> file.manifest, audit |-> e2,
                                       artifact |-> file.artifact, card |-> e4]]
        BY <4>2, <4>6
      <4> QED BY <4>7
    <3> HIDE DEF read
    <3>3. ReleaseShape(read) /\ OfOneSet(read.entry)
      BY <2>2, <3>2 DEF ReleaseShape, EntryShape, OfOneSet
    <3>4. /\ work'[p].at = "registerCommit" /\ work'[p].request = work[p].request
          /\ work'[p].read = read
          /\ WorkShape(work'[p]) /\ \E w : work' = [work EXCEPT ![p] = w]
      BY <2>2, <3>3, GoesOn
    <3>5. WorkSound(p)'
      BY <1>3, <3>3, <3>4 DEF WorkSound, Registering, Releasing
    <3> QED BY <1>1, <1>n, <2>1, <3>4, <3>5, OneCommand
  <2> QED BY <1>5, <1>n, <1>q, <2>1, <2>2 DEF RegisterCheck, Read
<1>6. CASE RegisterCommit(p)
  <2>1. OfOneSet(work[p].read.entry)
    BY <1>2, <1>6 DEF WorkSound, RegisterCommit, InPlace
  <2>2. Quit(p)
    BY <1>6 DEF RegisterCommit
  <2>3. CASE Permits(registry, work[p].request)
    <3>1. /\ registry' = Mutate(registry, work[p].request)
          /\ entry' = [entry EXCEPT ![work[p].request.candidate] = work[p].read.entry]
      BY <1>6, <2>3 DEF RegisterCommit, Asked, Read
    <3>2. RegistryInv' /\ HistoryKept
      BY <1>3, <2>3, <3>1, RegistryStep DEF ReleaseInv
    <3>3. EntriesSound'
      BY <1>2, <2>1, <3>1 DEF ReleaseInv, EntriesSound
    <3> QED BY <2>2, <3>2, <3>3, <1>q
  <2>4. CASE ~Permits(registry, work[p].request)
    <3>1. UNCHANGED <<registry, entry>>
      BY <1>6, <2>4 DEF RegisterCommit, Asked
    <3> QED BY <2>2, <3>1, <1>n, <1>q
  <2> QED BY <2>3, <2>4
<1> QED BY <1>4, <1>5, <1>6

LEMMA EvaluateSound ==
  ASSUME ReleaseInv, NEW p \in Processes, EvaluateLoad(p) \/ EvaluateCommit(p)
  PROVE  ReleaseInv'
<1>1. UNCHANGED <<file, release, server>> /\ FilesSound'
  BY LeftAlone DEF EvaluateLoad, EvaluateCommit
<1>2. WorkSound(p) /\ work[p].request \in Candidates
  BY DEF ReleaseInv, WorksSound, WorkSound, EvaluateLoad, EvaluateCommit, InPlace
<1>3. \A card : Gate(Base, card) \in Verdicts
  BY DEF Gate, Verdicts
<1>4. CASE EvaluateLoad(p)
  <2> DEFINE g == Gate(Base, file.card[work[p].request])
  <2>1. UNCHANGED <<registry, entry>>
        /\ Proceed(p, "evaluateCommit", [NoRelease EXCEPT !.report = g])
    BY <1>4 DEF EvaluateLoad, Asked
  <2>2. g \in Verdicts
    BY <1>3
  <2> HIDE DEF g
  <2>3. ReleaseShape([NoRelease EXCEPT !.report = g]) /\ [NoRelease EXCEPT !.report = g].report = g
    BY NoReleaseParts
  <2>4. /\ work'[p].at = "evaluateCommit" /\ work'[p].request = work[p].request
        /\ work'[p].read.report = g
        /\ WorkShape(work'[p]) /\ \E w : work' = [work EXCEPT ![p] = w]
    BY <2>1, <2>3, GoesOn
  <2>5. WorkSound(p)'
    BY <1>2, <2>2, <2>4 DEF WorkSound, Registering, Releasing
  <2>6. RegistryInv' /\ HistoryKept /\ EntriesSound' /\ ReleaseSound'
    BY <2>1, <1>1, LeftAlone
  <2> QED BY <1>1, <2>4, <2>5, <2>6, OneCommand
<1>5. CASE EvaluateCommit(p)
  <2> DEFINE c == work[p].request
             q == [command |-> "evaluate", candidate |-> c, component |-> NoComponent,
                   verdict |-> work[p].read.report]
  <2>1. q \in MutationRequests
    <3>1. work[p].read.report \in Verdicts
      BY <1>2, <1>5 DEF WorkSound, EvaluateCommit, InPlace
    <3> QED BY <1>2, <3>1 DEF MutationRequests
  <2> HIDE DEF q
  <2>2. Quit(p)
    BY <1>5 DEF EvaluateCommit
  <2>3. \/ Permits(registry, q) /\ registry' = Mutate(registry, q)
           /\ entry' = [entry EXCEPT ![c].card = file.card[c]]
        \/ UNCHANGED <<registry, entry>>
    BY <1>5 DEF EvaluateCommit, Asked, Read, q
  <2>4. RegistryInv' /\ HistoryKept
    BY <2>1, <2>3, RegistryStep, LeftAlone DEF ReleaseInv
  <2>5. EntriesSound'
    <3>1. CASE UNCHANGED entry
      BY <3>1, LeftAlone
    <3>2. CASE entry' = [entry EXCEPT ![c].card = file.card[c]]
      <4>1. EntryShape(entry[c]) /\ OfOneSet(entry[c]) /\ entry = [d \in Candidates |-> entry[d]]
            /\ c \in Candidates
        BY <1>2 DEF ReleaseInv, EntriesSound
      <4> DEFINE e == [entry[c] EXCEPT !.card = file.card[c]]
      <4>2. e = [dataset |-> entry[c].dataset, audit |-> entry[c].audit,
                 artifact |-> entry[c].artifact, card |-> file.card[c]]
        <5>1. PICK f, g, h, i : entry[c] = [dataset |-> f, audit |-> g, artifact |-> h, card |-> i]
          BY <4>1 DEF EntryShape
        <5>2. [entry[c] EXCEPT !.card = file.card[c]]
                = [dataset |-> f, audit |-> g, artifact |-> h, card |-> file.card[c]]
          BY <5>1
        <5> QED BY <5>1, <5>2
      <4>3. entry' = [entry EXCEPT ![c] = e]
        BY <3>2
      <4> HIDE DEF e
      <4>4. EntryShape(e) /\ OfOneSet(e)
        BY <4>1, <4>2 DEF EntryShape, OfOneSet
      <4> QED BY <4>1, <4>3, <4>4 DEF ReleaseInv, EntriesSound
    <3> QED BY <2>3, <3>1, <3>2
  <2>6. ReleaseSound'
    BY <1>1, <2>4, LeftAlone
  <2> QED BY <1>1, <2>2, <2>4, <2>5, <2>6, Ended, OneCommand DEF Quit
<1> QED BY <1>4, <1>5

\* What the reads of a release leave of the snapshot.
LEMMA ReadOn ==
  ASSUME NEW x, ReleaseShape(x), NEW a
  PROVE  /\ LET y == [x EXCEPT !.audit = a] IN
            /\ ReleaseShape(y) /\ (Snapshot(registry, x) => Snapshot(registry, y))
         /\ LET y == [x EXCEPT !.report = a] IN
            /\ ReleaseShape(y) /\ (Snapshot(registry, x) => Snapshot(registry, y))
         /\ \A b : LET y == [x EXCEPT !.manifest = a, !.card = b] IN
            /\ ReleaseShape(y) /\ (Snapshot(registry, x) => Snapshot(registry, y))
<1>1. PICK f, g, e, h, i, j, k, l :
        /\ x = [of |-> f, champion |-> g, entry |-> e, previous |-> h,
                manifest |-> i, audit |-> j, card |-> k, report |-> l]
        /\ EntryShape(e)
  BY DEF ReleaseShape
<1>2. [x EXCEPT !.audit = a] = [of |-> f, champion |-> g, entry |-> e, previous |-> h,
                                manifest |-> i, audit |-> a, card |-> k, report |-> l]
  BY <1>1
<1>3. [x EXCEPT !.report = a] = [of |-> f, champion |-> g, entry |-> e, previous |-> h,
                                 manifest |-> i, audit |-> j, card |-> k, report |-> a]
  BY <1>1
<1>4. ASSUME NEW b
      PROVE  [x EXCEPT !.manifest = a, !.card = b]
               = [of |-> f, champion |-> g, entry |-> e, previous |-> h,
                  manifest |-> a, audit |-> j, card |-> b, report |-> l]
  <2>1. [x EXCEPT !.manifest = a] = [of |-> f, champion |-> g, entry |-> e, previous |-> h,
                                     manifest |-> a, audit |-> j, card |-> k, report |-> l]
    BY <1>1
  <2>2. [x EXCEPT !.manifest = a, !.card = b]
          = [[of |-> f, champion |-> g, entry |-> e, previous |-> h,
              manifest |-> a, audit |-> j, card |-> k, report |-> l] EXCEPT !.card = b]
    BY <2>1
  <2> QED BY <2>2
\* Snapshot looks at four fields.
<1>5. ASSUME NEW m, NEW n, NEW c, NEW r
      PROVE  LET y == [of |-> f, champion |-> g, entry |-> e, previous |-> h,
                       manifest |-> m, audit |-> n, card |-> c, report |-> r] IN
             ReleaseShape(y) /\ (Snapshot(registry, x) => Snapshot(registry, y))
  BY <1>1 DEF ReleaseShape, Snapshot
<1>6. LET y == [x EXCEPT !.audit = a] IN
        ReleaseShape(y) /\ (Snapshot(registry, x) => Snapshot(registry, y))
  BY <1>2, <1>5
<1>7. LET y == [x EXCEPT !.report = a] IN
        ReleaseShape(y) /\ (Snapshot(registry, x) => Snapshot(registry, y))
  BY <1>3, <1>5
<1>8. ASSUME NEW b
      PROVE  LET y == [x EXCEPT !.manifest = a, !.card = b] IN
             ReleaseShape(y) /\ (Snapshot(registry, x) => Snapshot(registry, y))
  <2>1. [x EXCEPT !.manifest = a, !.card = b]
          = [of |-> f, champion |-> g, entry |-> e, previous |-> h,
             manifest |-> a, audit |-> j, card |-> b, report |-> l]
    BY <1>4
  <2> QED BY <2>1, <1>5
<1> QED BY <1>6, <1>7, <1>8

LEMMA SnapshotSteps ==
  ASSUME ReleaseInv, NEW p \in Processes,
         \/ ReleaseRead(p) \/ ReleaseClear(p) \/ ReleaseCheck(p)
         \/ ReleaseGate(p) \/ ReleaseGoverned(p) \/ ReleaseWrite(p)
  PROVE  ReleaseInv'
<1>1. UNCHANGED <<registry, entry, file, server>>
  BY DEF ReleaseRead, ReleaseClear, ReleaseCheck, ReleaseGate, ReleaseGoverned, ReleaseWrite
<1>2. RegistryInv' /\ HistoryKept /\ EntriesSound' /\ FilesSound'
  BY <1>1, LeftAlone
<1>3. WorkSound(p) /\ ReleaseShape(work[p].read)
  BY DEF ReleaseInv, WorksSound, WorkSound, WorkShape
<1>q. ASSUME Quit(p), ReleaseSound' PROVE ReleaseInv'
  BY <1>q, <1>1, <1>2, Ended, OneCommand DEF Quit
<1>g. ASSUME NEW place \in Releasing, NEW read, Proceed(p, place, read), ReleaseShape(read),
             Snapshot(registry, read), UNCHANGED release
      PROVE  ReleaseInv'
  <2>1. /\ work'[p].at = place /\ work'[p].read = read /\ WorkShape(work'[p])
        /\ \E w : work' = [work EXCEPT ![p] = w]
    BY <1>g, GoesOn
  <2>2. WorkSound(p)'
    BY <1>g, <1>1, <2>1 DEF WorkSound, Registering, Releasing
  <2>3. ReleaseSound'
    BY <1>g, <1>2, LeftAlone
  <2> QED BY <1>1, <1>2, <2>1, <2>2, <2>3, OneCommand
<1>u. UNCHANGED release => ReleaseSound'
  BY <1>2, LeftAlone
<1>4. CASE ReleaseRead(p)
  <2> DEFINE k == work[p].request
             c == registry.champions[work[p].request]
             read == [NoRelease EXCEPT !.of = c, !.champion = registry.candidates[c],
                        !.entry = entry[c], !.previous = ReleasePrevious(registry, k, c)]
             w == [[[work[p] EXCEPT !.at = "releaseClear"] EXCEPT !.request = c] EXCEPT !.read = read]
  <2>1. CASE /\ c # NoCandidate /\ StatusOf(registry, c) = "champion"
             /\ work' = [work EXCEPT ![p] = w] /\ UNCHANGED release
    <3>1. k \in Components
      BY <1>3, <1>4 DEF WorkSound, ReleaseRead, InPlace
    <3>2. c \in Candidates /\ registry.candidates[c].component = k
      <4>1. c \in Candidates
        BY <2>1, <3>1 DEF ReleaseInv, RegistryInv, Inv, RegistryTypeOK, Registry
      <4> QED BY <3>1, <4>1 DEF ReleaseInv, RegistryInv, Inv, OneChampion
    <3>3. PICK b : PreviousSaid(registry, c, k, b)
      BY <2>1, <3>2 DEF ReleaseInv, RegistryInv, Recorded, Served, PreviousSaid
    <3>4. ReleasePrevious(registry, k, c) = b
      BY <3>3, PreviousFound DEF ReleaseInv
    <3>5. Earned(registry.candidates[c])
      BY <3>2 DEF ReleaseInv, RegistryInv, Inv, NothingSkipped
    <3>6. EntryShape(entry[c]) /\ OfOneSet(entry[c])
      BY <3>2 DEF ReleaseInv, EntriesSound
    <3>7. read = [of |-> c, champion |-> registry.candidates[c], entry |-> entry[c], previous |-> b,
                  manifest |-> NoManifest, audit |-> NoAudit, card |-> None, report |-> None]
      <4> DEFINE Of(x, y, e, z) ==
                   [of |-> x, champion |-> y, entry |-> e, previous |-> z, manifest |-> NoManifest,
                    audit |-> NoAudit, card |-> None, report |-> None]
      <4> PICK x : x = registry.candidates[c]
        OBVIOUS
      <4> PICK e : e = entry[c]
        OBVIOUS
      <4> PICK d : d = c
        OBVIOUS
      <4>1. read = [NoRelease EXCEPT !.of = d, !.champion = x, !.entry = e, !.previous = b]
        BY <3>4
      <4> HIDE DEF c, k, read
      <4>2. [NoRelease EXCEPT !.of = d] = Of(d, Absent, NoEntry, NoCandidate)
        BY DEF NoRelease
      <4>3. read = [Of(d, Absent, NoEntry, NoCandidate)
                      EXCEPT !.champion = x, !.entry = e, !.previous = b]
        BY <4>1, <4>2
      <4>a. [Of(d, Absent, NoEntry, NoCandidate) EXCEPT !.champion = x]
              = Of(d, x, NoEntry, NoCandidate)
        OBVIOUS
      <4>b. [Of(d, x, NoEntry, NoCandidate) EXCEPT !.entry = e] = Of(d, x, e, NoCandidate)
        OBVIOUS
      <4>4. read = [Of(d, x, NoEntry, NoCandidate) EXCEPT !.entry = e, !.previous = b]
        BY <4>3, <4>a
      <4>5. read = [Of(d, x, e, NoCandidate) EXCEPT !.previous = b]
        BY <4>4, <4>b
      <4>6. read = Of(d, x, e, b)
        BY <4>5
      <4> QED BY <4>6
    <3>8. w = [at |-> "releaseClear", request |-> c, read |-> read]
      <4>1. PICK x, y, z : work[p] = [at |-> x, request |-> y, read |-> z]
        BY <1>3 DEF WorkSound, WorkShape
      <4> HIDE DEF read, c
      <4>2. w = [[[[at |-> x, request |-> y, read |-> z] EXCEPT !.at = "releaseClear"]
                  EXCEPT !.request = c] EXCEPT !.read = read]
        BY <4>1
      <4>3. [[at |-> x, request |-> y, read |-> z] EXCEPT !.at = "releaseClear"]
              = [at |-> "releaseClear", request |-> y, read |-> z]
        OBVIOUS
      <4>4. [[at |-> "releaseClear", request |-> y, read |-> z] EXCEPT !.request = c]
              = [at |-> "releaseClear", request |-> c, read |-> z]
        OBVIOUS
      <4>5. [[at |-> "releaseClear", request |-> c, read |-> z] EXCEPT !.read = read]
              = [at |-> "releaseClear", request |-> c, read |-> read]
        OBVIOUS
      <4> HIDE DEF w
      <4> QED BY <4>2, <4>3, <4>4, <4>5
    <3>9. ReleaseShape(read) /\ Snapshot(registry, read)
      <4> HIDE DEF read
      <4> QED BY <2>1, <3>2, <3>3, <3>5, <3>6, <3>7 DEF ReleaseShape, Snapshot, StatusOf
    <3> HIDE DEF w, read
    <3>10. work'[p] = w
      BY <2>1 DEF ReleaseInv, WorksSound
    <3>11. WorkSound(p)'
      BY <3>8, <3>9, <3>10, <1>1 DEF WorkSound, WorkShape, Registering, Releasing
    <3> QED BY <1>1, <1>2, <1>u, <2>1, <3>11, OneCommand
  <2>2. CASE Quit(p) /\ UNCHANGED release
    BY <2>2, <1>q, <1>u
  <2> QED BY <1>4, <2>1, <2>2 DEF ReleaseRead, Asked
<1>5. CASE ~ReleaseRead(p)
  <2>1. Snapshot(registry, work[p].read)
    BY <1>3, <1>5 DEF WorkSound, Releasing, InPlace, ReleaseClear, ReleaseCheck, ReleaseGate,
       ReleaseGoverned, ReleaseWrite
  <2>2. {"releaseCheck", "releaseGate", "releaseGoverned", "releaseWrite"} \subseteq Releasing
    BY DEF Releasing
  <2>3. CASE ReleaseWrite(p)
    <3>1. release' = [work[p].read EXCEPT !.manifest = file.manifest, !.card = file.card[work[p].request]]
          /\ Quit(p)
      BY <2>3 DEF ReleaseWrite, Read, Asked
    <3>2. ReleaseShape(release') /\ Snapshot(registry, release')
      BY <1>3, <2>1, <3>1, ReadOn
    <3> QED BY <1>1, <1>q, <3>1, <3>2 DEF ReleaseSound
  <2>4. CASE ~ReleaseWrite(p)
    <3>1. UNCHANGED release
      BY <1>5, <2>4 DEF ReleaseClear, ReleaseCheck, ReleaseGate, ReleaseGoverned
    <3>2. \/ Quit(p)
          \/ \E place \in Releasing :
               \/ Proceed(p, place, work[p].read)
               \/ \E a : \/ Proceed(p, place, [work[p].read EXCEPT !.audit = a])
                         \/ Proceed(p, place, [work[p].read EXCEPT !.report = a])
      BY <1>5, <2>2, <2>4 DEF ReleaseClear, ReleaseCheck, ReleaseGate, ReleaseGoverned, Read
    <3>3. ASSUME NEW place \in Releasing, Proceed(p, place, work[p].read) PROVE ReleaseInv'
      BY <1>3, <1>g, <2>1, <3>1, <3>3
    <3>4. ASSUME NEW place \in Releasing, NEW a,
                 \/ Proceed(p, place, [work[p].read EXCEPT !.audit = a])
                 \/ Proceed(p, place, [work[p].read EXCEPT !.report = a])
          PROVE  ReleaseInv'
      BY <1>3, <1>g, <2>1, <3>1, <3>4, ReadOn
    <3> QED BY <1>q, <1>u, <3>1, <3>2, <3>3, <3>4
  <2> QED BY <2>3, <2>4
<1> QED BY <1>4, <1>5
------------------------------------------------------------------------------
\* The steps that are not of a command.
LEMMA AloneSteps ==
  ASSUME ReleaseInv,
         (\E q \in MutationRequests : Decide(q)) \/ ServerStart \/ WriteData \/ WriteCard
  PROVE  ReleaseInv'
<1>1. UNCHANGED <<entry, release, work>> /\ EntriesSound'
  BY LeftAlone DEF Decide, ServerStart, WriteData, WriteCard, Writes
<1>2. ASSUME RegistryInv', HistoryKept, FilesSound', ServersSound' PROVE ReleaseInv'
  <2>1. ReleaseSound'
    BY <1>1, <1>2, LeftAlone
  <2>2. WorksSound'
    BY <1>1, <1>2, SnapshotKept DEF ReleaseInv, WorksSound, WorkSound
  <2> QED BY <1>1, <1>2, <2>1, <2>2 DEF ReleaseInv
<1>3. UNCHANGED server /\ HistoryKept => ServersSound'
  BY SnapshotKept DEF ReleaseInv, ServersSound, ServerSound
<1>4. ASSUME NEW q \in MutationRequests, Decide(q) PROVE ReleaseInv'
  <2>1. RegistryInv' /\ HistoryKept
    BY <1>4, RegistryStep DEF ReleaseInv, Decide
  <2>2. FilesSound' /\ UNCHANGED server
    BY <1>4, LeftAlone DEF Decide
  <2> QED BY <1>2, <1>3, <2>1, <2>2
<1>5. CASE WriteData \/ WriteCard
  <2>1. RegistryInv' /\ HistoryKept
    BY <1>5, LeftAlone DEF WriteData, WriteCard, Writes
  <2>2. UNCHANGED server
    BY <1>5 DEF WriteData, WriteCard, Writes
  <2>3. (\E d : file' = [file EXCEPT !.data = d]) \/ (\E c, card : file' = [file EXCEPT !.card[c] = card])
    BY <1>5 DEF WriteData, WriteCard, Writes
  <2>4. FilesSound'
    BY <2>3 DEF ReleaseInv, FilesSound, FileShape
  <2> QED BY <1>2, <1>3, <2>1, <2>2, <2>4
<1>6. CASE ServerStart
  <2>1. /\ UNCHANGED <<registry, file>> /\ server' = release /\ release # NoRelease
        /\ References /\ Cleared /\ AuditOf(file.manifest) = release.audit
        /\ release.audit = release.entry.audit
        /\ Report(Base, release.card) = release.report /\ release.report.status = "pass"
    BY <1>6 DEF ServerStart, Reproduced
  <2>2. RegistryInv' /\ HistoryKept /\ FilesSound'
    BY <2>1, LeftAlone
  <2>3. Snapshot(registry, release)
    BY <2>1 DEF ReleaseInv, ReleaseSound
  <2>4. Gate(Base, release.card) = "pass"
    BY <2>1 DEF Report
  <2>5. file.manifest = release.manifest
    BY <2>1 DEF References
  <2>6. AuditOf(file.manifest).status = "pass"
    BY <2>1 DEF Cleared
  <2>7. Audit(file.manifest.rows, Required, {}) = "pass"
        /\ AuditOf(file.manifest) = [manifest |-> file.manifest, status |-> "pass"]
    BY <2>6 DEF AuditOf
  <2>8. Separate(release.manifest.rows)
    BY <2>5, <2>7, AuditSeparates DEF ReleaseInv, FilesSound, WithIds
  <2>9. ServersSound'
    BY <2>1, <2>3, <2>4, <2>5, <2>7, <2>8 DEF ServersSound, ServerSound
  <2> QED BY <1>2, <2>2, <2>9
<1> QED BY <1>4, <1>5, <1>6

LEMMA ReleaseInvStep == ReleaseInv /\ [GNext]_gVars => ReleaseInv'
<1> SUFFICES ASSUME ReleaseInv, [GNext]_gVars PROVE ReleaseInv'
  OBVIOUS
<1>1. ASSUME NEW p \in Processes, GStep(p) PROVE ReleaseInv'
  BY <1>1, BuildSound, TrainSound, RegisterSound, EvaluateSound, SnapshotSteps DEF GStep
<1>2. CASE UNCHANGED gVars
  <2>1. UNCHANGED <<registry, entry, file, release, work, server>>
    BY <1>2 DEF gVars
  <2>2. RegistryInv' /\ HistoryKept /\ EntriesSound' /\ FilesSound' /\ ReleaseSound'
    BY <2>1, LeftAlone
  <2> QED BY <2>1, <2>2 DEF ReleaseInv, WorksSound, WorkSound, ServersSound, ServerSound
<1> QED BY <1>1, <1>2, StartSound, AloneSteps DEF GNext

\* Whatever is rebuilt, evaluated, promoted, rolled back or released in between, by
\* any number of commands: a server runs only a release whose champion was gated,
\* shadowed and approved, whose scorecard passes, whose data set separates training
\* from test and is the one the champion was cleared with, and which names what a
\* rollback restores.
THEOREM ServedGoverned ==
  ASSUME \A scene \in Scenes : Unused(scene) PROVE GSpec => []ServedIsGoverned
<1> QED BY ReleaseInvInit, ReleaseInvStep, ReleaseInvMeans, PTL DEF GSpec

------------------------------------------------------------------------------
\* The commands move the registry by its permitted mutations alone.
LEMMA CommandIsMutation == ReleaseInv /\ [GNext]_gVars => [Next]_registry
<1> SUFFICES ASSUME ReleaseInv, GNext, registry' # registry PROVE Next
  BY DEF gVars
<1>1. CASE \E q \in MutationRequests : Decide(q)
  BY <1>1 DEF Decide, Next
<1>2. CASE \E p \in Processes : RegisterCommit(p) \/ EvaluateCommit(p)
  <2>1. PICK p \in Processes : RegisterCommit(p) \/ EvaluateCommit(p)
    BY <1>2
  <2>2. WorkSound(p)
    BY DEF ReleaseInv, WorksSound
  <2>3. CASE RegisterCommit(p)
    <3>1. work[p].request \in MutationRequests
      BY <2>2, <2>3 DEF WorkSound, RegisterCommit, InPlace, Registering
    <3>2. Permits(registry, work[p].request) /\ registry' = Mutate(registry, work[p].request)
      BY <2>3 DEF RegisterCommit, Asked
    <3> QED BY <3>1, <3>2 DEF Next
  <2>4. CASE EvaluateCommit(p)
    <3> DEFINE q == [command |-> "evaluate", candidate |-> work[p].request,
                     component |-> NoComponent, verdict |-> work[p].read.report]
    <3>1. work[p].request \in Candidates /\ work[p].read.report \in Verdicts
      BY <2>2, <2>4 DEF WorkSound, EvaluateCommit, InPlace
    <3>2. q \in MutationRequests
      BY <3>1 DEF MutationRequests
    <3>3. Permits(registry, q) /\ registry' = Mutate(registry, q)
      BY <2>4 DEF EvaluateCommit, Asked, Read
    <3> HIDE DEF q
    <3> QED BY <3>2, <3>3 DEF Next
  <2> QED BY <2>1, <2>3, <2>4
<1>3. CASE ServerStart \/ WriteData \/ WriteCard
  BY <1>3 DEF ServerStart, WriteData, WriteCard, Writes
<1>4. CASE \E p \in Processes : GStart(p)
  BY <1>4 DEF GStart, TrainStart, BuildStart, RegisterStart, EvaluateStart, ReleaseStart, Launch
<1>5. CASE \E p \in Processes : GStep(p) /\ ~(RegisterCommit(p) \/ EvaluateCommit(p))
  BY <1>5 DEF GStep, BuildRead, BuildLineage, BuildManifest, TrainClear, TrainWrite, RegisterClear,
     RegisterCheck, EvaluateLoad, ReleaseRead, ReleaseClear, ReleaseCheck, ReleaseGate,
     ReleaseGoverned, ReleaseWrite
<1> QED BY <1>1, <1>2, <1>3, <1>4, <1>5 DEF GNext

\* In a project that starts without candidates the commands around data sets,
\* training, evaluation and release implement the atomic registry.
THEOREM CommandsUseRegistry ==
  ASSUME \A scene \in Scenes : Unused(scene) PROVE GSpec => Spec
<1>1. GInit => Init
  BY DEF GInit, Unused, Init
<1> QED BY <1>1, ReleaseInvInit, ReleaseInvStep, CommandIsMutation, PTL DEF GSpec, Spec
==============================================================================
