---------------------------- MODULE EngineC_proof ----------------------------
(***************************************************************************)
(* What a debate costs, whose word it takes, and what may end as benign,   *)
(* for any settings, voices, faults, samples, parameters and calibrations. *)
(*                                                                         *)
(* A turn asks again and again, and repairs; its ledger is true at its end *)
(* because on the way the requests it has sent are those of this generate  *)
(* and those merged before.  A benign verdict that nobody reviews comes    *)
(* from the blocks that the agents left, so the invariant keeps hold of    *)
(* what they were made of until the verdict is there.                      *)
(***************************************************************************)
EXTENDS EngineC, FiniteSetTheorems, TLAPS

Active == {"none", "queued", "asking", "answered"}

\* A turn, as far as its ledger and its result go.
TurnShape(t) ==
  /\ DOMAIN t = DOMAIN NoTurn
  /\ t.at \in Active \cup {"ended", "raised"}
  /\ t.asked \in Nat /\ t.merged \in Nat /\ t.sent \in Nat
  /\ t.at = "answered" => t.kind \in Kinds
TurnKept(t) ==
  /\ t.at \in Active => t.sent = t.merged + t.asked
  /\ t.at = "ended" /\ t.result.backend \in {"model", "invalid"} => t.reported = t.sent
TurnByModel(t) == setting.noFallback /\ t.at = "ended" => OfTheModel(t.result)

TurnsInv ==
  /\ DOMAIN turn = Models
  /\ \A m \in Models : TurnShape(turn[m]) /\ TurnKept(turn[m]) /\ TurnByModel(turn[m])

\* What the verdict is made of: nothing changes it after the agents ran.
CaseInv ==
  /\ DOMAIN sample = Upstream \cup {"force", "production", "fields"}
  /\ \E s \in Samples : sample.fields = s.fields
  /\ stage # "created" \/ verdict.by = "wec" => inquiry # NoInquiry
  /\ inquiry # NoInquiry =>
       /\ admission # "none"
       /\ evidence = [a \in Agents |-> Evidence(a, sample.fields, inquiry.runs[a])]

EngineInv == TurnsInv /\ RulesOnlyComplete /\ CaseInv /\ NoSilentBenign

(* -------------------------------- numbers ----------------------------- *)

LEMMA MaxOfTwo == ASSUME NEW x \in Int, NEW y \in Int PROVE Max({x, y}) = IF x > y THEN x ELSE y
<1>1. PICK z : z = IF x > y THEN x ELSE y
  OBVIOUS
<1>2. z \in {x, y} /\ \A u \in {x, y} : z >= u
  BY <1>1
<1>3. \A w \in {x, y} : (\A u \in {x, y} : w >= u) => w = z
  BY <1>1
<1> QED
  BY <1>1, <1>2, <1>3 DEF Max

LEMMA MinOfTwo == ASSUME NEW x \in Int, NEW y \in Int PROVE Min({x, y}) = IF x < y THEN x ELSE y
<1>1. PICK z : z = IF x < y THEN x ELSE y
  OBVIOUS
<1>2. z \in {x, y} /\ \A u \in {x, y} : z <= u
  BY <1>1
<1>3. \A w \in {x, y} : (\A u \in {x, y} : w <= u) => w = z
  BY <1>1
<1> QED
  BY <1>1, <1>2, <1>3 DEF Min

\* An agent that completed with all its fields and rates a sample at 80 or more is
\* decisive: its confidence follows from its score.
LEMMA HighScoreIsDecisive ==
  ASSUME NEW s \in Samples, NEW a \in Agents, Missing(a, s.fields) = {},
         ~(Analyze(a, s.fields).score < 80)
  PROVE  Decisive(Strength(Evidence(a, s.fields, "completed")))
<1> DEFINE found == Findings(a, s.fields)
           t == Temper(a)
           b == Analyze(a, s.fields)
<1>1. b \in Block
  BY EngineCAssumption
<1>2. b.score \in 80..100
  BY <1>1 DEF Block
<1>3. PICK count, score, missing :
         b = [score |-> score, usable |-> TRUE, items |-> count, missing |-> missing,
              confidence |-> Max({t.low, Min({t.high, score + t.lift + t.step * count})})]
         /\ missing = Cardinality(Missing(a, s.fields))
  <2>1. HasAny(s.fields, Material(a))
    <3>1. Nothing(Cardinality(Required(a))).score = 0
      BY DEF Nothing
    <3> QED
      BY <1>2, <3>1 DEF Analyze
  <2> QED
    BY <2>1 DEF Analyze
<1>4. b.missing = 0 /\ b.usable
  BY <1>3, FS_EmptySet
<1>5. count \in Nat /\ score \in 80..100 /\ b.score = score
  BY <1>1, <1>2, <1>3 DEF Block
<1>6. /\ t.low \in Nat /\ t.high \in Nat /\ t.lift \in Nat /\ t.step \in Nat
      /\ t.low <= t.high /\ 92 <= t.high /\ t.high <= 96 /\ 16 <= t.lift
  BY DEF Agents, Temper
<1>7. PICK n : n = score + t.lift + t.step * count
  OBVIOUS
<1>8. n \in Int /\ n >= 96
  <2>1. PICK k : k = t.step * count
    OBVIOUS
  <2>2. k \in Nat
    BY <1>5, <1>6, <2>1
  <2> QED
    BY <1>5, <1>6, <1>7, <2>1, <2>2
<1>9. b.confidence = t.high
  <2>1. b.confidence = Max({t.low, Min({t.high, n})})
    BY <1>3, <1>7
  <2>2. Min({t.high, n}) = t.high
    BY <1>6, <1>8, MinOfTwo
  <2>3. Max({t.low, t.high}) = t.high
    BY <1>6, MaxOfTwo
  <2> QED
    BY <2>1, <2>2, <2>3
<1>10. Evidence(a, s.fields, "completed") = b
  BY <1>4 DEF Evidence, Reviewed
<1>11. Strength(b) = (65 * score + 35 * t.high) \div 100
  BY <1>4, <1>5, <1>9 DEF Strength
<1>12. (65 * score + 35 * t.high) \div 100 >= 78
  <2> HIDE DEF t
  <2>1. 65 * score + 35 * t.high \in Int /\ 65 * score + 35 * t.high >= 7800
    BY <1>5, <1>6
  <2> QED
    BY <2>1
<1> QED
  BY <1>10, <1>11, <1>12 DEF Decisive

(* --------------------------------- turns ------------------------------ *)

\* A turn is replaced, the other stays.
LEMMA TurnReplaced ==
  ASSUME TurnsInv, UNCHANGED setting, NEW m \in Models, NEW t, turn' = [turn EXCEPT ![m] = t],
         TurnShape(t), TurnKept(t), TurnByModel(t)
  PROVE  TurnsInv'
<1>1. DOMAIN turn' = Models /\ \A n \in Models : turn'[n] = IF n = m THEN t ELSE turn[n]
  BY DEF TurnsInv
<1>2. \A n \in Models : TurnShape(turn'[n]) /\ TurnKept(turn'[n]) /\ TurnByModel(turn'[n])
  BY <1>1 DEF TurnsInv
<1> QED
  BY <1>1, <1>2 DEF TurnsInv, TurnShape, TurnKept, TurnByModel, OfTheModel

LEMMA TurnFields ==
  /\ DOMAIN NoTurn = {"at", "variant", "try", "repair", "kind", "asked", "merged", "reported",
                      "sent", "given", "result"}
  /\ NoTurn.at = "none" /\ NoTurn.asked = 0 /\ NoTurn.merged = 0 /\ NoTurn.sent = 0
BY DEF NoTurn

\* A turn ends with what it reports, or raises.
LEMMA EndKept ==
  ASSUME TurnsInv, UNCHANGED setting, NEW m \in Models, turn[m].at \in Active,
         NEW backend, NEW voice, NEW reported, End(m, backend, voice, reported),
         backend \in {"model", "invalid"} => reported = turn[m].merged + turn[m].asked,
         setting.noFallback => OfTheModel([backend |-> backend, text |-> turn[m].kind,
                                           score |-> voice.score, confidence |-> voice.confidence])
  PROVE  TurnsInv'
<1> DEFINE r == [backend |-> backend, text |-> turn[m].kind,
                 score |-> voice.score, confidence |-> voice.confidence]
<1>1. PICK t : t = [turn[m] EXCEPT !.at = "ended", !.reported = reported, !.result = r]
  OBVIOUS
<1>2. turn' = [turn EXCEPT ![m] = t]
  BY <1>1 DEF End, TurnsInv
<1>3. /\ DOMAIN t = DOMAIN NoTurn /\ t.at = "ended" /\ t.reported = reported /\ t.result = r
      /\ t.asked = turn[m].asked /\ t.merged = turn[m].merged /\ t.sent = turn[m].sent
  BY <1>1, TurnFields DEF TurnsInv, TurnShape
<1>4. TurnShape(t) /\ TurnKept(t) /\ TurnByModel(t)
  BY <1>3 DEF TurnsInv, TurnShape, TurnKept, TurnByModel
<1> QED
  BY <1>2, <1>4, TurnReplaced

LEMMA RaiseKept ==
  ASSUME TurnsInv, UNCHANGED setting, NEW m \in Models, turn' = [turn EXCEPT ![m].at = "raised"]
  PROVE  TurnsInv'
<1>1. PICK t : t = [turn[m] EXCEPT !.at = "raised"]
  OBVIOUS
<1>2. turn' = [turn EXCEPT ![m] = t]
  BY <1>1 DEF TurnsInv
<1>3. /\ DOMAIN t = DOMAIN NoTurn /\ t.at = "raised"
      /\ t.asked = turn[m].asked /\ t.merged = turn[m].merged /\ t.sent = turn[m].sent
  BY <1>1, TurnFields DEF TurnsInv, TurnShape
<1>4. TurnShape(t) /\ TurnKept(t) /\ TurnByModel(t)
  BY <1>3 DEF TurnsInv, TurnShape, TurnKept, TurnByModel, Active
<1> QED
  BY <1>2, <1>4, TurnReplaced

LEMMA ReplaceKept ==
  ASSUME TurnsInv, UNCHANGED setting, NEW m \in Models, turn[m].at \in Active,
         NEW backend \in {"rule", "fallback", "invalid"}, NEW reported,
         Replace(m, backend, reported),
         backend = "invalid" => reported = turn[m].merged + turn[m].asked
  PROVE  TurnsInv'
<1>1. CASE setting.noFallback
  BY <1>1, RaiseKept DEF Replace
<1>2. CASE ~setting.noFallback
  BY <1>2, EndKept DEF Replace
<1> QED
  BY <1>1, <1>2

\* A request counts in the ledger and in what was sent, whatever becomes of it.
LEMMA SentKept ==
  ASSUME TurnsInv, NEW m \in Models, turn[m].at \in Active
  PROVE  /\ DOMAIN Sent(m) = DOMAIN NoTurn /\ Sent(m).at = turn[m].at
         /\ Sent(m).asked \in Nat /\ Sent(m).merged \in Nat /\ Sent(m).sent \in Nat
         /\ Sent(m).sent = Sent(m).merged + Sent(m).asked
<1>1. TurnShape(turn[m]) /\ turn[m].sent = turn[m].merged + turn[m].asked
  BY DEF TurnsInv, TurnKept
<1>2. /\ DOMAIN Sent(m) = DOMAIN NoTurn /\ Sent(m).at = turn[m].at
      /\ Sent(m).asked = turn[m].asked + 1 /\ Sent(m).merged = turn[m].merged
      /\ Sent(m).sent = turn[m].sent + 1
  BY <1>1, TurnFields DEF Sent, TurnShape
<1> QED
  BY <1>1, <1>2 DEF TurnShape

LEMMA StartStep == ASSUME TurnsInv, NEW m \in Models, Start(m) PROVE TurnsInv'
<1>1. turn[m].at \in Active /\ UNCHANGED setting
  BY DEF Start, Active, record
<1>2. CASE Replace(m, "rule", 0)
  BY <1>1, <1>2, ReplaceKept
<1>3. CASE Replace(m, "fallback", 0)
  BY <1>1, <1>3, ReplaceKept
<1>4. CASE turn' = [turn EXCEPT ![m].at = "asking"]
  <2>1. PICK t : t = [turn[m] EXCEPT !.at = "asking"]
    OBVIOUS
  <2>2. turn' = [turn EXCEPT ![m] = t]
    BY <1>4, <2>1 DEF TurnsInv
  <2>3. /\ DOMAIN t = DOMAIN NoTurn /\ t.at = "asking"
        /\ t.asked = turn[m].asked /\ t.merged = turn[m].merged /\ t.sent = turn[m].sent
    BY <2>1, TurnFields DEF TurnsInv, TurnShape
  <2>4. TurnShape(t) /\ TurnKept(t) /\ TurnByModel(t)
    BY <1>1, <2>3 DEF TurnsInv, TurnShape, TurnKept, TurnByModel, Active
  <2> QED
    BY <1>1, <2>2, <2>4, TurnReplaced
<1> QED
  BY <1>2, <1>3, <1>4 DEF Start

\* What a turn is after a request: asking again, answered, raised or ended by the rules.
LEMMA RequestStep ==
  ASSUME TurnsInv, NEW m \in Models,
         Answer(m) \/ Refused(m) \/ Unreachable(m) \/ Disconnected(m) \/ Broken(m)
  PROVE  TurnsInv'
<1>1. turn[m].at = "asking" /\ turn[m].at \in Active /\ UNCHANGED setting
  BY DEF Answer, Refused, Unreachable, Disconnected, Broken, Http, Request, record, Active
<1>2. /\ DOMAIN Sent(m) = DOMAIN NoTurn /\ Sent(m).at = "asking"
      /\ Sent(m).asked \in Nat /\ Sent(m).merged \in Nat /\ Sent(m).sent \in Nat
      /\ Sent(m).sent = Sent(m).merged + Sent(m).asked
  BY <1>1, SentKept
<1>3. ASSUME NEW t, turn' = [turn EXCEPT ![m] = t], DOMAIN t = DOMAIN NoTurn,
             t.asked = Sent(m).asked, t.merged = Sent(m).merged, t.sent = Sent(m).sent,
             \/ t.at \in {"asking", "raised"}
             \/ t.at = "answered" /\ t.kind \in Kinds
             \/ t.at = "ended" /\ ~setting.noFallback /\ t.result.backend = "fallback"
      PROVE  TurnsInv'
  <2>1. TurnShape(t) /\ TurnKept(t) /\ TurnByModel(t)
    BY <1>2, <1>3 DEF TurnShape, TurnKept, TurnByModel, Active
  <2> QED
    BY <1>1, <1>3, <2>1, TurnReplaced
<1>4. CASE Answer(m)
  <2>1. PICK kind \in Kinds : turn' = [turn EXCEPT ![m] = [Sent(m) EXCEPT !.at = "answered", !.kind = kind]]
    BY <1>4 DEF Answer
  <2>2. PICK t : t = [Sent(m) EXCEPT !.at = "answered", !.kind = kind]
    OBVIOUS
  <2>3. /\ DOMAIN t = DOMAIN NoTurn /\ t.at = "answered" /\ t.kind = kind
        /\ t.asked = Sent(m).asked /\ t.merged = Sent(m).merged /\ t.sent = Sent(m).sent
    BY <1>2, <2>2, TurnFields
  <2> QED
    BY <1>3, <2>1, <2>2, <2>3
<1>5. CASE TryAgain(m)
  <2>1. PICK t : t = [Sent(m) EXCEPT !.try = @ + 1]
    OBVIOUS
  <2>2. /\ DOMAIN t = DOMAIN NoTurn /\ t.at = "asking"
        /\ t.asked = Sent(m).asked /\ t.merged = Sent(m).merged /\ t.sent = Sent(m).sent
    BY <1>2, <2>1, TurnFields
  <2> QED
    BY <1>3, <1>5, <2>1, <2>2 DEF TryAgain
<1>6. CASE NextVariant(m)
  <2>1. PICK v : v = IF Sent(m).variant < setting.variants THEN Sent(m).variant + 1 ELSE 0
    OBVIOUS
  <2>2. PICK t : t = [Sent(m) EXCEPT !.try = 1, !.variant = v]
    OBVIOUS
  <2>3. turn' = [turn EXCEPT ![m] = t]
    BY <1>6, <2>1, <2>2 DEF NextVariant
  <2>4. /\ DOMAIN t = DOMAIN NoTurn /\ t.at = "asking"
        /\ t.asked = Sent(m).asked /\ t.merged = Sent(m).merged /\ t.sent = Sent(m).sent
    BY <1>2, <2>2, TurnFields
  <2> QED
    BY <1>3, <2>3, <2>4
<1>7. CASE GiveUp(m)
  <2> DEFINE r == [backend |-> "fallback", text |-> turn[m].kind, score |-> Rule(m).score,
                   confidence |-> Rule(m).confidence]
  <2>1. CASE setting.noFallback
    <3>1. PICK t : t = [Sent(m) EXCEPT !.at = "raised"]
      OBVIOUS
    <3>2. turn' = [turn EXCEPT ![m] = t]
      BY <1>7, <2>1, <3>1 DEF GiveUp
    <3>3. /\ DOMAIN t = DOMAIN NoTurn /\ t.at = "raised"
          /\ t.asked = Sent(m).asked /\ t.merged = Sent(m).merged /\ t.sent = Sent(m).sent
      BY <1>2, <3>1, TurnFields
    <3> QED
      BY <1>3, <3>2, <3>3
  <2>2. CASE ~setting.noFallback
    <3>1. PICK t : t = [Sent(m) EXCEPT !.at = "ended", !.result = r]
      OBVIOUS
    <3>2. turn' = [turn EXCEPT ![m] = t]
      BY <1>7, <2>2, <3>1 DEF GiveUp
    <3>3. /\ DOMAIN t = DOMAIN NoTurn /\ t.at = "ended"
          /\ t.result.backend = "fallback"
          /\ t.asked = Sent(m).asked /\ t.merged = Sent(m).merged /\ t.sent = Sent(m).sent
      BY <1>2, <3>1, TurnFields
    <3> QED
      BY <1>3, <2>2, <3>2, <3>3
  <2> QED
    BY <2>1, <2>2
<1> QED
  BY <1>4, <1>5, <1>6, <1>7 DEF Refused, Unreachable, Disconnected, Broken, Http

LEMMA DigestStep == ASSUME TurnsInv, NEW m \in Models, Digest(m) PROVE TurnsInv'
<1>1. turn[m].at = "answered" /\ turn[m].at \in Active /\ UNCHANGED setting
  BY DEF Digest, Active, record
<1>2. Merged(turn[m]) = turn[m].merged + turn[m].asked
  BY DEF Merged
<1>3. CASE turn' = [turn EXCEPT ![m] = [turn[m] EXCEPT !.at = "asking", !.repair = @ + 1,
                     !.variant = 1, !.try = 1, !.asked = 0, !.merged = Merged(turn[m])]]
  <2>1. PICK t : t = [turn[m] EXCEPT !.at = "asking", !.repair = @ + 1,
                        !.variant = 1, !.try = 1, !.asked = 0, !.merged = Merged(turn[m])]
    OBVIOUS
  <2>2. turn' = [turn EXCEPT ![m] = t]
    BY <1>3, <2>1
  <2>3. /\ DOMAIN t = DOMAIN NoTurn /\ t.at = "asking"
        /\ t.asked = 0 /\ t.merged = Merged(turn[m]) /\ t.sent = turn[m].sent
    BY <2>1, TurnFields DEF TurnsInv, TurnShape
  <2>4. TurnShape(turn[m]) /\ TurnKept(turn[m])
    BY DEF TurnsInv
  <2>5. TurnShape(t) /\ TurnKept(t) /\ TurnByModel(t)
    BY <1>1, <1>2, <2>3, <2>4 DEF TurnShape, TurnKept, TurnByModel, Active
  <2> QED
    BY <1>1, <2>2, <2>5, TurnReplaced
<1>4. CASE Replace(m, "fallback", 0)
  BY <1>1, <1>4, ReplaceKept
<1>5. CASE Replace(m, "invalid", Merged(turn[m]))
  BY <1>1, <1>2, <1>5, ReplaceKept
<1>6. ASSUME NEW own \in Voices(setting), turn[m].kind \notin Placeholder,
             End(m, "model", Normalized(m, turn[m].kind, own), Merged(turn[m]))
      PROVE  TurnsInv'
  <2>1. PICK voice : voice = Normalized(m, turn[m].kind, own)
    OBVIOUS
  <2>2. turn[m].kind \in Readable \cup Lacking
    BY <1>1, <1>6 DEF TurnsInv, TurnShape, Kinds, Usable, Lacking
  <2>3. turn[m].kind \in Readable => voice = own
    BY <2>1 DEF Normalized
  <2>4. OfTheModel([backend |-> "model", text |-> turn[m].kind,
                    score |-> voice.score, confidence |-> voice.confidence])
    BY <2>2, <2>3 DEF OfTheModel
  <2> QED
    BY <1>1, <1>2, <1>6, <2>1, <2>4, EndKept
<1>7. ~(turn[m].kind \in Placeholder \/ (turn[m].kind = "stubborn" /\ stage = "closing_statement"))
        => turn[m].kind \notin Placeholder
  OBVIOUS
<1> QED
  BY <1>3, <1>4, <1>5, <1>6, <1>7 DEF Digest

\* New turns have sent nothing.
LEMMA SubmitKept ==
  ASSUME NEW phase, NEW given, Submit(phase, given) PROVE TurnsInv'
<1> DEFINE fresh(m) == [NoTurn EXCEPT !.at = "queued", !.given = given[m]]
<1>1. /\ DOMAIN turn' = Models
      /\ \A m \in Models : turn'[m] = IF m \in Speakers(phase) THEN fresh(m) ELSE NoTurn
  BY DEF Submit
<1>2. \A m \in Models : \A t \in {fresh(m), NoTurn} :
         DOMAIN t = DOMAIN NoTurn /\ t.at \in {"queued", "none"}
         /\ t.asked = 0 /\ t.merged = 0 /\ t.sent = 0
  <2> SUFFICES ASSUME NEW m \in Models PROVE
         /\ DOMAIN fresh(m) = DOMAIN NoTurn /\ fresh(m).at = "queued"
         /\ fresh(m).asked = 0 /\ fresh(m).merged = 0 /\ fresh(m).sent = 0
    BY TurnFields
  <2>1. PICK o : o = given[m]
    OBVIOUS
  <2> QED
    BY TurnFields
<1> HIDE DEF fresh
<1>3. \A m \in Models : DOMAIN turn'[m] = DOMAIN NoTurn /\ turn'[m].at \in {"queued", "none"}
         /\ turn'[m].asked = 0 /\ turn'[m].merged = 0 /\ turn'[m].sent = 0
  BY <1>1, <1>2
<1>4. DOMAIN NoTurn = (DOMAIN NoTurn)'
  BY DEF NoTurn
<1> QED
  BY <1>1, <1>3 DEF TurnsInv, TurnShape, TurnKept, TurnByModel, Active

LEMMA DebateStep == ASSUME TurnsInv, DebateNext PROVE TurnsInv'
<1>1. ASSUME NEW m \in Models, TurnStep(m) PROVE TurnsInv'
  BY <1>1, StartStep, RequestStep, DigestStep DEF TurnStep
<1>2. CASE ToAttack \/ ToRebuttal \/ ToClosing
  BY <1>2, SubmitKept DEF ToAttack, ToRebuttal, ToClosing
<1>3. CASE Begin
  <2>1. CASE UNCHANGED <<setting, turn>>
    BY <2>1 DEF TurnsInv, TurnByModel, OfTheModel
  <2> QED
    BY <1>3, <2>1, SubmitKept DEF Begin
<1>4. CASE Fails \/ Conclude
  <2>1. UNCHANGED <<setting, turn>>
    BY <1>4 DEF Fails, Conclude
  <2> QED
    BY <2>1 DEF TurnsInv, TurnByModel, OfTheModel
<1> QED
  BY <1>1, <1>2, <1>3, <1>4 DEF DebateNext, StageStep

\* With the rules disabled, a result that becomes a position is a model's.
LEMMA PositionsKept ==
  ASSUME TurnsInv, RulesOnlyComplete, DebateNext PROVE RulesOnlyComplete'
<1>1. UNCHANGED setting
  <2>1. ASSUME NEW m \in Models, TurnStep(m) PROVE UNCHANGED setting
    BY <2>1 DEF TurnStep, Start, Answer, Refused, Unreachable, Disconnected, Broken, Http, Request,
                Digest, record
  <2>2. StageStep => UNCHANGED setting
    BY DEF StageStep, Begin, Fails, ToAttack, ToRebuttal, ToClosing, Conclude, Submit
  <2> QED
    BY <2>1, <2>2 DEF DebateNext
<1>2. CASE UNCHANGED current
  BY <1>1, <1>2 DEF RulesOnlyComplete, OfTheModel
<1>3. CASE Passed /\ current' = Results
  <2> SUFFICES ASSUME setting.noFallback, NEW m \in Models
               PROVE  current'[m] = NoResult \/ OfTheModel(current'[m])
    BY <1>1 DEF RulesOnlyComplete, OfTheModel
  <2>1. turn[m].at \in {"none", "ended"}
    BY <1>3 DEF Passed, Gathered
  <2>2. current'[m] = IF turn[m].at = "none" THEN current[m] ELSE turn[m].result
    BY <1>3 DEF Results
  <2> QED
    BY <2>1, <2>2 DEF RulesOnlyComplete, TurnsInv, TurnByModel
<1>4. ASSUME NEW m \in Models, TurnStep(m) PROVE UNCHANGED current
  BY <1>4 DEF TurnStep, Start, Answer, Refused, Unreachable, Disconnected, Broken, Http, Request,
              Digest, record
<1>5. StageStep => UNCHANGED current \/ (Passed /\ current' = Results)
  BY DEF StageStep, Begin, Fails, ToAttack, ToRebuttal, ToClosing, Conclude
<1> QED
  BY <1>2, <1>3, <1>4, <1>5 DEF DebateNext

(* ------------------------------- the verdict -------------------------- *)

\* What the debate leaves alone; it has begun after its first step.
LEMMA DebateFrame == ASSUME DebateNext PROVE UNCHANGED evidence
<1>1. ASSUME NEW m \in Models, TurnStep(m) PROVE UNCHANGED evidence
  BY <1>1 DEF TurnStep, Start, Answer, Refused, Unreachable, Disconnected, Broken, Http, Request,
              Digest, record
<1>2. StageStep => UNCHANGED evidence
  BY DEF StageStep, Begin, Fails, ToAttack, ToRebuttal, ToClosing, Conclude, Submit
<1> QED
  BY <1>1, <1>2 DEF DebateNext

\* The decision is benign only if the weighted score is, static analysis did not fail, and
\* without a review only if no component speaks against it.
LEMMA BenignHasNoWitness ==
  ASSUME NEW case, NEW p, NEW status, NEW fields, NEW confidence,
         case.xgb = NoXgb \/ \E x : case.xgb = Xgb(x),
         ApplyDegradation(CollaborativeDecision(case, p),
                          WithUnavailable(Degradation(status), fields), fields, confidence, p).verdict
           = "benign"
  PROVE  /\ status["static_analysis"] # "failed"
         /\ \/ ApplyDegradation(CollaborativeDecision(case, p),
                 WithUnavailable(Degradation(status), fields), fields, confidence, p).review
            \/ /\ case.xgb.verdict \in {"benign", "unavailable"}
               /\ case.arbiterVerdict = "benign"
               /\ ~CredibleEvidence(case)
<1>1. PICK decision : decision = CollaborativeDecision(case, p)
  OBVIOUS
<1>2. PICK degraded : degraded = WithUnavailable(Degradation(status), fields)
  OBVIOUS
<1>3. PICK applied : applied = ApplyDegradation(decision, degraded, fields, confidence, p)
  OBVIOUS
<1>4. degraded.critical <=> "static_analysis" \in {a \in Agents : status[a] = "failed"}
  BY <1>2 DEF WithUnavailable, Degradation
<1>5. /\ DOMAIN decision = {"score", "scores", "weights", "verdict", "reasons", "confidence",
                            "recommended", "review"}
      /\ decision.reasons = ReviewReasons(decision.verdict, case)
      /\ decision.review = (decision.verdict = "suspicious" \/ decision.reasons # {})
  BY <1>1 DEF CollaborativeDecision
<1>6. /\ applied.verdict = IF degraded.critical /\ decision.verdict = "benign" THEN "suspicious"
                           ELSE decision.verdict
      /\ applied.review = (decision.review \/ degraded.critical)
  BY <1>3, <1>5 DEF ApplyDegradation
<1>7. decision.verdict = "benign" /\ ~degraded.critical
  BY <1>1, <1>2, <1>3, <1>6
<1>8. status["static_analysis"] # "failed"
  BY <1>4, <1>7 DEF Agents
<1>9. case.xgb.verdict \in {"unavailable", "benign", "suspicious", "malicious"}
  <2>1. \A x : XgbVerdict(x) \in {"benign", "suspicious", "malicious"}
    BY DEF XgbVerdict
  <2>2. CASE case.xgb = NoXgb
    BY <2>2 DEF NoXgb
  <2>3. ASSUME NEW x, case.xgb = Xgb(x)
        PROVE  case.xgb.verdict \in {"unavailable", "benign", "suspicious", "malicious"}
    <3>1. case.xgb.verdict = XgbVerdict(x)
      BY <2>3 DEF Xgb
    <3> QED
      BY <2>1, <3>1
  <2> QED
    BY <2>2, <2>3
<1>10. ASSUME ~applied.review
       PROVE  /\ case.xgb.verdict \in {"benign", "unavailable"}
              /\ case.arbiterVerdict = "benign" /\ ~CredibleEvidence(case)
  <2>1. ReviewReasons("benign", case) = {}
    BY <1>5, <1>6, <1>7, <1>10
  <2>2. \A r \in {"xgboost_native", "arbiter", "credible_agent_malicious_evidence"} :
          r \notin ReviewReasons("benign", case)
    BY <2>1
  <2> QED
    BY <1>9, <2>2 DEF ReviewReasons
<1> QED
  BY <1>1, <1>2, <1>3, <1>8, <1>10

LEMMA DecideStep ==
  ASSUME CaseInv, Decide PROVE NoSilentBenign'
<1>1. PICK p \in ParamSets, c \in Calibrations, xgb \in {NoXgb} \cup {Xgb(x) : x \in Probabilities} :
       LET score == Calibrated(RawScore, c)
           case == [sample |-> sample, arbiter |-> score, arbiterVerdict |-> VerdictOf(score, c),
                    xgb |-> xgb, blocks |-> evidence,
                    badSignature |-> Value(sample.fields, "signature_status", "none")
                                       \in {"tampered", "missing"}]
           status == [a \in Agents |-> StatusOf(inquiry.runs[a])]
           decided == CollaborativeDecision(case, p)
       IN verdict' = [by |-> "wec", case |-> case, decided |-> decided, status |-> status,
            decision |-> ApplyDegradation(decided,
                           WithUnavailable(Degradation(status), inquiry.unavailable),
                           inquiry.unavailable,
                           BaseConfidence(EvidenceConfidence(evidence), Confidence), p)]
  BY DEF Decide
<1>2. PICK score : score = Calibrated(RawScore, c)
  OBVIOUS
<1>3. PICK case : case = [sample |-> sample, arbiter |-> score, arbiterVerdict |-> VerdictOf(score, c),
                          xgb |-> xgb, blocks |-> evidence,
                          badSignature |-> Value(sample.fields, "signature_status", "none")
                                             \in {"tampered", "missing"}]
  OBVIOUS
<1>4. PICK status : status = [a \in Agents |-> StatusOf(inquiry.runs[a])]
  OBVIOUS
<1>5. PICK confidence : confidence = BaseConfidence(EvidenceConfidence(evidence), Confidence)
  OBVIOUS
<1>6. PICK decision : decision = ApplyDegradation(CollaborativeDecision(case, p),
                           WithUnavailable(Degradation(status), inquiry.unavailable),
                           inquiry.unavailable, confidence, p)
  OBVIOUS
<1>7. verdict' = [by |-> "wec", case |-> case, decided |-> CollaborativeDecision(case, p),
                  status |-> status, decision |-> decision]
  BY <1>1, <1>2, <1>3, <1>4, <1>5, <1>6
<1>8. verdict'.case = case /\ verdict'.status = status /\ verdict'.decision = decision
  BY <1>7
<1>9. UNCHANGED <<sample, inquiry>> /\ inquiry # NoInquiry
  BY DEF Decide, CaseInv
<1>10. case.xgb = NoXgb \/ \E x : case.xgb = Xgb(x)
  BY <1>3
<1> SUFFICES ASSUME decision.verdict = "benign"
             PROVE  /\ status["static_analysis"] # "failed"
                    /\ decision.review \/
                         /\ case.xgb.verdict \in {"benign", "unavailable"}
                         /\ case.arbiterVerdict = "benign"
                         /\ ~case.badSignature
                         /\ \A a \in Agents :
                              inquiry.runs[a] = "completed" /\ Missing(a, sample.fields) = {} =>
                                Analyze(a, sample.fields).score < 80
  BY <1>8, <1>9 DEF NoSilentBenign
<1>11. /\ status["static_analysis"] # "failed"
       /\ \/ decision.review
          \/ /\ case.xgb.verdict \in {"benign", "unavailable"}
             /\ case.arbiterVerdict = "benign" /\ ~CredibleEvidence(case)
  BY <1>6, <1>10, BenignHasNoWitness
<1>12. case.blocks = evidence
  BY <1>3
<1>13. ASSUME ~CredibleEvidence(case), NEW a \in Agents, inquiry.runs[a] = "completed",
              Missing(a, sample.fields) = {}
       PROVE  Analyze(a, sample.fields).score < 80
  <2>1. ~Decisive(Strength(evidence[a]))
    BY <1>12, <1>13 DEF CredibleEvidence
  <2>2. PICK s \in Samples : sample.fields = s.fields
    BY DEF CaseInv
  <2>3. evidence[a] = Evidence(a, s.fields, "completed")
    BY <1>9, <1>13, <2>2 DEF CaseInv
  <2> QED
    BY <1>13, <2>1, <2>2, <2>3, HighScoreIsDecisive
<1>14. ~CredibleEvidence(case) => ~case.badSignature
  BY DEF CredibleEvidence
<1> QED
  BY <1>11, <1>13, <1>14

LEMMA CaseStep ==
  ASSUME CaseInv, NoSilentBenign, [EngineNext]_allVars PROVE CaseInv' /\ NoSilentBenign'
<1>1. CASE Admit
  <2>1. admission = "none" /\ inquiry = NoInquiry /\ stage = "created" /\ verdict.by # "wec"
        /\ UNCHANGED <<inquiry, stage>>
    BY <1>1 DEF Admit, debateVars, CaseInv
  <2>2. verdict'.by # "wec"
    BY <1>1, <2>1 DEF Admit
  <2>3. DOMAIN sample' = DOMAIN sample /\ sample'.fields = sample.fields
    <3>1. UNCHANGED sample \/ sample' = [sample EXCEPT !["engine_a"] = Derive(@), !["engine_b"] = Derive(@)]
      BY <1>1 DEF Admit
    <3> QED
      BY <3>1 DEF CaseInv
  <2> QED
    BY <2>1, <2>2, <2>3 DEF CaseInv, NoSilentBenign
<1>2. CASE RunAgents
  <2>1. /\ inquiry = NoInquiry /\ admission # "none" /\ UNCHANGED <<sample, admission, verdict, stage>>
        /\ evidence' = [a \in Agents |-> Evidence(a, sample.fields, inquiry'.runs[a])]
    BY <1>2 DEF RunAgents, Admits
  <2>2. stage = "created" /\ verdict.by # "wec"
    BY <2>1 DEF CaseInv
  <2>3. UNCHANGED sample.fields
    BY <2>1
  <2> QED
    BY <2>1, <2>2 DEF CaseInv, NoSilentBenign
<1>3. CASE DebateOn
  <2>1. UNCHANGED <<evidence, engineVars>> /\ inquiry # NoInquiry
    BY <1>3, DebateFrame DEF DebateOn
  <2> QED
    BY <2>1 DEF engineVars, CaseInv, NoSilentBenign
<1>4. CASE Decide
  <2>1. UNCHANGED <<sample, admission, inquiry, evidence, stage>> /\ inquiry # NoInquiry
    BY <1>4 DEF Decide, debateVars, CaseInv
  <2>2. CaseInv'
    BY <2>1 DEF CaseInv
  <2> QED
    BY <1>4, <2>2, DecideStep
<1>5. CASE UNCHANGED allVars
  BY <1>5 DEF allVars, debateVars, engineVars, CaseInv, NoSilentBenign
<1> QED
  BY <1>1, <1>2, <1>3, <1>4, <1>5 DEF EngineNext, Ended

LEMMA EngineInvInit == ASSUME EngineInit PROVE EngineInv
<1>1. TurnsInv /\ RulesOnlyComplete
  <2>1. NoResult.backend = "none"
    BY DEF NoResult
  <2>2. DOMAIN turn = Models /\ \A m \in Models : turn[m] = NoTurn /\ current[m] = NoResult
    BY DEF EngineInit, DebateInit
  <2> QED
    BY <2>1, <2>2, TurnFields
       DEF TurnsInv, TurnShape, TurnKept, TurnByModel, RulesOnlyComplete, Active
<1>2. CaseInv /\ NoSilentBenign
  <2>1. NoVerdict.by = "none"
    BY DEF NoVerdict
  <2> QED
    BY <2>1, EngineCAssumption DEF EngineInit, DebateInit, CaseInv, NoSilentBenign
<1> QED
  BY <1>1, <1>2 DEF EngineInv

LEMMA EngineInvStep == ASSUME EngineInv, [EngineNext]_allVars PROVE EngineInv'
<1>1. TurnsInv' /\ RulesOnlyComplete'
  <2>1. CASE DebateOn
    BY <2>1, DebateStep, PositionsKept DEF DebateOn, EngineInv
  <2>2. CASE UNCHANGED <<setting, turn, current>>
    BY <2>2 DEF EngineInv, TurnsInv, TurnByModel, RulesOnlyComplete, OfTheModel
  <2>3. DebateOn \/ UNCHANGED <<setting, turn, current>>
    BY DEF EngineNext, Admit, RunAgents, Decide, Ended, allVars, debateVars
  <2> QED
    BY <2>1, <2>2, <2>3
<1> QED
  BY <1>1, CaseStep DEF EngineInv

LEMMA EngineInvAlways == EngineSpec => []EngineInv
BY EngineInvInit, EngineInvStep, PTL DEF EngineSpec

\* A turn whose text came from a model, or was replaced for its text, reports exactly the
\* requests that were sent for it: retries, variants, the compact request and every repair
\* (debate.py, invoke and merge_generated_metrics).
THEOREM CostsAreKept == EngineSpec => []CostKept
<1>1. EngineInv => CostKept
  BY DEF EngineInv, TurnsInv, TurnKept, CostKept
<1> QED
  BY <1>1, EngineInvAlways, PTL

\* With the rule fallback disabled (llm_rule_fallback_disabled), however the requests fail and
\* the answers come back: no position is under a backend of the rules, one whose reply has a
\* score that can be read has that reply's score and confidence, and a rule's score stands
\* only in place of one that the model's reply lacked (debate.py, Replace and normalize_turn).
THEOREM RulesOnlyCompleteReplies == EngineSpec => []RulesOnlyComplete
BY EngineInvAlways, PTL DEF EngineInv

\* No sample ends as benign without a review while XGBoost, the arbiter, its signature or a
\* complete agent that rated it at 80 or more speaks against it, nor after a failed static
\* analysis (decision.py guarded_verdict, degradation.py).
THEOREM NoBenignInSilence == EngineSpec => []NoSilentBenign
BY EngineInvAlways, PTL DEF EngineInv
================================================================================
