-------------------------------- MODULE Debate --------------------------------
(***************************************************************************)
(* run_debate of malapp/orchestration/debate.py: two models testify,       *)
(* attack, rebut and close in stages, each stage a pool of debate_model_   *)
(* workers threads. A turn (invoke) asks a provider, walks the ladder of   *)
(* payload variants, transport tries and the compact retry of              *)
(* _http_generate, and repairs, completes or replaces what comes back.     *)
(* Prompts and texts are left out: an answer is a kind, a score and a      *)
(* confidence. The legacy full retry is off, as by default.                *)
(***************************************************************************)
EXTENDS Decision

CONSTANTS Settings,      \* the environments and configurations to debate under
          Voices(_),     \* the scores and confidences the models may answer with in one
          MaxFaults      \* bound: requests that fail, answers that are not valid

Models == {"model_a", "model_b"}
Other(m) == IF m = "model_a" THEN "model_b" ELSE "model_a"

\* What the environment, the sample's config and the evaluation mode fix.
Setting ==
  [mode: {"full", "verification", "single_model", "no_debate"},
   backend: [Models -> {"rule", "local_qwen", "openai_compatible"}],
   clash: BOOLEAN,              \* production with the same backend:model twice
   noFallback: BOOLEAN,         \* llm_rule_fallback_disabled
   fits: [Models -> BOOLEAN],   \* the canonical evidence fits the context
   workers: 1..2, minRounds: 1..6, maxRounds: 1..6,
   closing: {"model_a", "model_b", "both"},
   repairs: 0..2,
   variants: Nat \ {0},         \* payload variants of _http_generate, with the tries
   tries: Nat \ {0},            \* of each (MALAPP_MODEL_TRANSPORT_RETRIES) and those
   compactTries: Nat \ {0}]     \* of the compact request after them

ASSUME DebateAssumption ==
  /\ Settings \subseteq Setting
  /\ \A s \in Settings : s.minRounds <= s.maxRounds
  /\ MaxFaults \in Nat

VARIABLES
  setting,    \* the setting of this debate
  stage,      \* its state: a stage, its outcome, or "created"
  evidence,   \* the block of each agent
  round,      \* completed_rounds
  turn,       \* the turn each model takes in the stage
  opening,    \* initial_a, initial_b: the score of each testimony
  current,    \* current_a, current_b: the latest result of each model
  heard,      \* one of the turns recorded is a model's
  spent       \* what the bound has used

record == <<setting, stage, evidence, round, opening, current, heard>>
debateVars == <<setting, stage, evidence, round, turn, opening, current, heard, spent>>
------------------------------------------------------------------------------
\* The numbers, in hundredths, rounded down. The blocks have gone through
\* compact_evidence_for_llm, which drops their status: a block that was insufficient
\* or degraded counts with its score like any other.
Scores(blocks) == {blocks[a].score : a \in Agents}
Average(blocks) == MapThenSumSet(LAMBDA a : blocks[a].score, Agents) \div Cardinality(Agents)

\* fallback_initial, fallback_turn and fallback_closing: model A looks at the weakest
\* block, model B at the strongest; a turn moves towards the opponent, the closing back
\* towards the testimony.
FallbackInitial(m, blocks) ==
  LET focus == IF m = "model_a" THEN Min(Scores(blocks)) ELSE Max(Scores(blocks))
  IN (82 * Average(blocks) + 18 * focus) \div 100
FallbackTurn(own, opponent) == (72 * own + 28 * opponent) \div 100
FallbackClosing(initial, latest) == (35 * initial + 65 * latest) \div 100
FallbackConfidence(score) == 45 + Distance(score, 50) \div 2

\* measure_convergence: the positions are near enough to stop.
ScoreThreshold == 6
ScoresConverge(a, b) == Distance(a, b) <= ScoreThreshold
------------------------------------------------------------------------------
\* arbitrate.
DebateScore(a, b, blocks) ==
  Clip(0, (30 * a + 30 * b + 25 * Max(Scores(blocks)) + 15 * Average(blocks)) \div 100, 100)

\* evidence_only_arbiter, for the two modes of an evaluation that do without a debate.
EvidenceScore(blocks) ==
  LET weight(a) == Max({5, blocks[a].confidence})
  IN MapThenSumSet(LAMBDA a : blocks[a].score * weight(a), Agents)
     \div MapThenSumSet(weight, Agents)
SingleModelScore(a, blocks) == (65 * a + 35 * EvidenceScore(blocks)) \div 100

\* calibrate_score: what exceeds a threshold of the calibration is compressed.
Calibrated(raw, c) ==
  IF raw >= c.malicious THEN c.malicious + (90 * (raw - c.malicious)) \div 100
  ELSE IF raw >= c.suspicious THEN c.suspicious + (95 * (raw - c.suspicious)) \div 100
  ELSE raw
------------------------------------------------------------------------------
\* evidence_probability_score: the confidence of the blocks that may be used, each
\* as much of it as its evidence covers.
Coverage(b) == Max({20, (100 * b.items) \div Max({1, b.items + b.missing})})
EvidenceConfidence(blocks) ==
  MapThenSumSet(LAMBDA a : IF blocks[a].usable
                           THEN (blocks[a].confidence * Coverage(blocks[a])) \div 100 ELSE 0, Agents)
  \div Cardinality(Agents)

\* debate_confidence: that of the two models, unless not one turn is a model's.
DebateConfidence(turns, byModel, a, b) == IF turns /\ ~byModel THEN 0 ELSE (a + b) \div 2

BaseConfidence(sources, llm) == IF llm > 0 THEN (sources + llm) \div 2 ELSE sources
------------------------------------------------------------------------------
\* The kinds of answer: valid; valid but citing evidence there is not; usable, to be
\* completed from the fallback; usable but invalid even when completed; usable once the
\* coercion has found its score, under a Chinese key; text or cut JSON; an object whose
\* score is no number; nothing.
Valid == {"valid", "foreign"}
Readable == Valid \cup {"fixable", "stubborn"}
Coerced == {"aliased"}
Usable == Readable \cup Coerced
Completed == Usable \ {"stubborn"}
Placeholder == {"blank"}
Kinds == Usable \cup {"prose", "scoreless"} \cup Placeholder

Attacks == {"directed_attack", "rebuttal"}
Stages == {"initial_testimony", "closing_statement"} \cup Attacks

\* recover_*_output_from_raw: only for the first answer of a turn, never at the end.
Recovered(kind) ==
  \/ stage = "initial_testimony" /\ kind = "prose"
  \/ stage \in Attacks /\ kind \in {"prose", "scoreless"}
Accepted(t) ==
  \/ t.kind \in Completed
  \/ t.repair = 0 /\ Recovered(t.kind)

\* A result: the backend it is recorded under, the kind of the last text the model gave
\* (raw_text), its score and its confidence.
Result == [backend: {"none", "rule", "fallback", "invalid", "model"}, text: Kinds \cup {"none"},
           score: 0..100, confidence: 0..100]
NoResult == [backend |-> "none", text |-> "none", score |-> 0, confidence |-> 0]

\* A turn: where its thread is, its place in the ladder of requests (variant 0 is
\* the compact request), the repairs asked for, the kind of the last text, the
\* requests of this generate, of those merged before, reported and really sent,
\* the opponent's result it was given, and its own.
Turn == [at: {"none", "queued", "asking", "answered", "ended", "raised"},
         variant: 0..setting.variants, try: Nat, repair: 0..2, kind: Kinds \cup {"none"},
         asked: Nat, merged: Nat, reported: Nat, sent: Nat,
         given: Result, result: Result]
NoTurn == [at |-> "none", variant |-> 1, try |-> 1, repair |-> 0, kind |-> "none",
           asked |-> 0, merged |-> 0, reported |-> 0, sent |-> 0,
           given |-> NoResult, result |-> NoResult]

DebateInit ==
  /\ setting \in Settings
  /\ stage = "created" /\ round = 0 /\ heard = FALSE
  /\ evidence = [a \in Agents |-> [score |-> 0, confidence |-> 0, usable |-> FALSE,
                                  missing |-> 0, items |-> 0]]
  /\ opening = [m \in Models |-> 0]
  /\ turn = [m \in Models |-> NoTurn]
  /\ current = [m \in Models |-> NoResult]
  /\ spent = 0
------------------------------------------------------------------------------
Fault == spent < MaxFaults /\ spent' = spent + 1
Running == {m \in Models : turn[m].at \in {"asking", "answered"}}

\* What the rules say in a turn.
Rule(m) ==
  LET t == turn[m]
      score == CASE stage = "initial_testimony" -> FallbackInitial(m, evidence)
                 [] stage \in Attacks -> FallbackTurn(current[m].score, t.given.score)
                 [] OTHER -> FallbackClosing(opening[m], current[m].score)
  IN [score |-> score, confidence |-> FallbackConfidence(score)]

\* normalize_turn reads the score from the JSON of the last text once more, and
\* falls back to the rule's, whether or not the rules are disabled: it does not ask.
Normalized(m, kind, voice) ==
  IF kind \in Readable THEN voice
  ELSE IF kind \in Coerced THEN [voice EXCEPT !.score = Rule(m).score] ELSE Rule(m)

\* How a turn ends: with the model's answer, with the rule's, with an exception.
End(m, backend, voice, reported) ==
  turn' = [turn EXCEPT ![m].at = "ended", ![m].reported = reported,
    ![m].result = [backend |-> backend, text |-> turn[m].kind,
                   score |-> voice.score, confidence |-> voice.confidence]]

\* The rules' answer instead, unless that is disabled. Mutant: all the same.
Replace_Always(m, backend, reported) == End(m, backend, Rule(m), reported)
Replace(m, backend, reported) ==
  IF setting.noFallback THEN turn' = [turn EXCEPT ![m].at = "raised"]
  ELSE End(m, backend, Rule(m), reported)

\* A thread of the pool takes the next turn, model A's first. The rule backend
\* answers at once; only the testimony's prompt may not be shortened, and raises
\* EvidenceContextOverflow when it does not fit.
Start(m) ==
  /\ turn[m].at = "queued"
  /\ Cardinality(Running) < setting.workers
  /\ m = "model_b" => turn["model_a"].at # "queued"
  /\ IF setting.backend[m] = "rule" THEN Replace(m, "rule", 0)
     ELSE IF stage = "initial_testimony" /\ ~setting.fits[m]
       THEN Replace(m, "fallback", 0)
     ELSE turn' = [turn EXCEPT ![m].at = "asking"]
  /\ UNCHANGED <<record, spent>>
------------------------------------------------------------------------------
\* One request is sent, and its outcome. A request that failed is followed by the
\* same payload again, the next variant, the compact request after the last one,
\* or none.
Sent(m) == [turn[m] EXCEPT !.sent = @ + 1, !.asked = @ + 1]
TryAgain(m) == turn' = [turn EXCEPT ![m] = [Sent(m) EXCEPT !.try = @ + 1]]
NextVariant(m) == turn' = [turn EXCEPT ![m] =
  [Sent(m) EXCEPT !.try = 1, !.variant = IF @ < setting.variants THEN @ + 1 ELSE 0]]
GiveUp(m) ==
  turn' = [turn EXCEPT ![m] =
    IF setting.noFallback THEN [Sent(m) EXCEPT !.at = "raised"]
    ELSE [Sent(m) EXCEPT !.at = "ended",
            !.result = [backend |-> "fallback", text |-> turn[m].kind, score |-> Rule(m).score,
                        confidence |-> Rule(m).confidence]]]

Compact(m) == turn[m].variant = 0
LastTry(m) == turn[m].try = (IF Compact(m) THEN setting.compactTries ELSE setting.tries)
Request(m) == turn[m].at = "asking" /\ UNCHANGED record
Http(m) == Request(m) /\ setting.backend[m] = "openai_compatible" /\ Fault

Answer(m) == Request(m) /\ \E kind \in Kinds :
  /\ turn' = [turn EXCEPT ![m] = [Sent(m) EXCEPT !.at = "answered", !.kind = kind]]
  /\ IF kind = "valid" THEN UNCHANGED spent ELSE Fault

\* HTTP 400, 413 and 422: the server does not take this payload.
Refused(m) == Http(m) /\ IF Compact(m) THEN GiveUp(m) ELSE NextVariant(m)

\* URLError: there is no connection. The compact request is not tried again.
Unreachable(m) == Http(m) /\ IF Compact(m) \/ LastTry(m) THEN GiveUp(m) ELSE TryAgain(m)

\* The connection is closed or times out.
Disconnected(m) == Http(m) /\
  IF ~LastTry(m) THEN TryAgain(m) ELSE IF Compact(m) THEN GiveUp(m) ELSE NextVariant(m)

\* Any other error of the server, of its answer or of the local model.
Broken(m) == Request(m) /\ Fault /\ GiveUp(m)
------------------------------------------------------------------------------
\* invoke after an answer. merge_generated_metrics adds the requests of a repair
\* to those before it. Mutant: the newer response replaces the older one.
Merged_Newest(t) == t.asked
Merged(t) == t.merged + t.asked

\* Up to schema_repair_max_attempts repairs.
MayRepair(t) == t.repair < setting.repairs

\* An answer that is not accepted is repaired; when no repair is left it is
\* completed from the fallback, which raises over a score that is no number. What
\* is blank, or a closing that is still invalid, is replaced.
Digest(m) ==
  LET t == turn[m] IN
  /\ t.at = "answered"
  /\ IF ~Accepted(t) /\ MayRepair(t)
     THEN turn' = [turn EXCEPT ![m] = [t EXCEPT !.at = "asking", !.repair = @ + 1,
                     !.variant = 1, !.try = 1, !.asked = 0, !.merged = Merged(t)]]
     ELSE IF ~Accepted(t) /\ t.kind = "scoreless" THEN Replace(m, "fallback", 0)
     ELSE IF t.kind \in Placeholder \/ (t.kind = "stubborn" /\ stage = "closing_statement")
       THEN Replace(m, "invalid", Merged(t))
     ELSE \E voice \in Voices(setting) :
            End(m, "model", Normalized(m, t.kind, voice), Merged(t))
  /\ UNCHANGED <<record, spent>>
------------------------------------------------------------------------------
\* The models called in a stage, and the turns submitted for it: what a turn is
\* given is fixed when it is submitted.
Speakers(phase) ==
  IF setting.mode = "single_model" THEN {"model_a"}
  ELSE IF phase = "closing_statement" /\ setting.closing # "both" THEN {setting.closing}
  ELSE Models

Submit(phase, given) ==
  /\ stage' = phase
  /\ turn' = [m \in Models |->
       IF m \in Speakers(phase) THEN [NoTurn EXCEPT !.at = "queued", !.given = given[m]]
       ELSE NoTurn]
  /\ UNCHANGED <<setting, evidence, spent>>

Begin ==
  /\ stage = "created"
  /\ IF setting.mode # "no_debate" /\ ~setting.clash
     THEN Submit("initial_testimony", [m \in Models |-> NoResult])
     ELSE /\ stage' = IF setting.mode = "no_debate" THEN "completed" ELSE "failed"
          /\ UNCHANGED <<setting, evidence, turn, spent>>
  /\ UNCHANGED <<round, opening, current, heard>>

\* The with-block of the pool waits for both turns, then the results are read, and
\* those of the testimony checked for references to evidence there is not.
Gathered == stage \in Stages /\ \A m \in Models : turn[m].at \in {"none", "ended", "raised"}

Foreign(m) == stage = "initial_testimony" /\ turn[m].kind = "foreign"
Fails ==
  /\ Gathered
  /\ \E m \in Models : turn[m].at = "raised" \/ Foreign(m)
  /\ stage' = "failed"
  /\ UNCHANGED <<setting, evidence, round, turn, opening, current, heard, spent>>

Passed == Gathered /\ \A m \in Models : turn[m].at # "raised" /\ ~Foreign(m)
Results == [m \in Models |-> IF turn[m].at = "none" THEN current[m] ELSE turn[m].result]
Crossed(results) == [m \in Models |-> results[Other(m)]]

\* append_stage: the turns of the stage go into the report.
Append ==
  /\ heard' = (heard \/ \E m \in Models : turn[m].result.backend = "model")
  /\ opening' = IF stage = "initial_testimony" THEN [m \in Models |-> Results[m].score] ELSE opening

\* measure_convergence: near scores end the rounds once there were minRounds of them.
Converged == round >= setting.minRounds /\ ScoresConverge(Results["model_a"].score, Results["model_b"].score)

\* Mutant: the round is not counted.
ToAttack_Uncounted ==
  /\ Passed /\ setting.mode = "full"
  /\ stage = "initial_testimony" \/ (stage = "rebuttal" /\ round < setting.maxRounds /\ ~Converged)
  /\ Submit("directed_attack", Crossed(Results))
  /\ Append /\ current' = Results /\ UNCHANGED round
ToAttack ==
  /\ Passed /\ setting.mode = "full"
  /\ stage = "initial_testimony" \/ (stage = "rebuttal" /\ round < setting.maxRounds /\ ~Converged)
  /\ Submit("directed_attack", Crossed(Results))
  /\ Append /\ current' = Results /\ round' = round + 1

\* The attacks are what the rebuttals answer; they do not become the positions.
Challenges == Crossed(Results)

ToRebuttal ==
  /\ Passed /\ stage = "directed_attack"
  /\ Submit("rebuttal", Challenges)
  /\ Append /\ UNCHANGED <<current, round>>

\* The arguments may be near as well, which ends the rounds too.
ToClosing ==
  /\ Passed /\ stage = "rebuttal" /\ round >= setting.minRounds
  /\ Submit("closing_statement", Crossed(Results))
  /\ Append /\ current' = Results /\ UNCHANGED round

\* The debate is over: after the closing, or after the testimony of the short modes.
Conclude ==
  /\ Passed
  /\ stage = "closing_statement"
     \/ (stage = "initial_testimony" /\ setting.mode \in {"verification", "single_model"})
  /\ stage' = "completed" /\ Append /\ current' = Results
  /\ UNCHANGED <<setting, evidence, round, turn, spent>>

\* The arbiter's score: of the closing positions and the evidence; of the evidence, and
\* the testimony of model A, in the modes without a debate.
RawScore ==
  CASE setting.mode = "no_debate" -> EvidenceScore(evidence)
    [] setting.mode = "single_model" -> SingleModelScore(current["model_a"].score, evidence)
    [] OTHER -> DebateScore(current["model_a"].score, current["model_b"].score, evidence)

\* What the debate is worth: a model that took no turn has no confidence.
Confidence ==
  DebateConfidence(setting.mode # "no_debate", heard,
                   current["model_a"].confidence, current["model_b"].confidence)

TurnStep(m) ==
  \/ Start(m) \/ Answer(m) \/ Refused(m) \/ Unreachable(m) \/ Disconnected(m) \/ Broken(m)
  \/ Digest(m)
StageStep == Begin \/ Fails \/ ToAttack \/ ToRebuttal \/ ToClosing \/ Conclude
DebateNext == StageStep \/ \E m \in Models : TurnStep(m)
------------------------------------------------------------------------------
Done == stage \in {"completed", "failed"}

\* The ledger of model calls: a turn whose text came from the model, or that was
\* replaced for its text, reports the requests that were sent for it.
CostKept ==
  \A m \in Models : turn[m].at = "ended" /\ turn[m].result.backend \in {"model", "invalid"}
                       => turn[m].reported = turn[m].sent

\* With the fallback disabled no position is the rules' for want of a model's reply: none
\* is under a backend of the rules, a reply whose score can be read has its own score and
\* confidence, and the rule's score stands in a position only in place of one that the
\* model's reply lacked. That exception is in the code: normalize_turn completes prose, and
\* an object without a score, from the fallback and keeps them under the model's backend.
Lacking == Coerced \cup {"prose", "scoreless"}
OfTheModel(own) ==
  /\ own.backend = "model"
  /\ \/ own.text \in Lacking
     \/ /\ own.text \in Readable
        /\ \E voice \in Voices(setting) : own.score = voice.score /\ own.confidence = voice.confidence
RulesOnlyComplete ==
  setting.noFallback => \A m \in Models : current[m] = NoResult \/ OfTheModel(current[m])

\* Every debate that begins ends, whatever raises in a thread.
DebateEnds == stage = "initial_testimony" ~> Done
==============================================================================
