------------------------------- MODULE MCEngineC -------------------------------
EXTENDS EngineC

\* Debates under one pool thread and two, one round and two, with and without the
\* fallback, each shortened mode, and the clash of identities.
Under(mode, a, b, strict, fitsA, pool, last, closing, repairs, tries) ==
  [mode |-> mode, backend |-> [m \in Models |-> IF m = "model_a" THEN a ELSE b],
   clash |-> FALSE, noFallback |-> strict, fits |-> [m \in Models |-> m = "model_b" \/ fitsA],
   workers |-> pool, minRounds |-> 1, maxRounds |-> last, closing |-> closing,
   repairs |-> repairs, variants |-> tries, tries |-> tries, compactTries |-> 1]
NoDebate == Under("no_debate", "rule", "rule", FALSE, TRUE, 1, 1, "both", 0, 1)
MCSettings == {
  Under("full", "openai_compatible", "local_qwen", FALSE, TRUE, 1, 2, "model_b", 1, 2),
  Under("full", "openai_compatible", "openai_compatible", TRUE, TRUE, 2, 1, "both", 1, 2),
  Under("verification", "openai_compatible", "rule", FALSE, FALSE, 2, 1, "both", 2, 2),
  Under("single_model", "openai_compatible", "rule", TRUE, TRUE, 1, 1, "both", 0, 1),
  [Under("full", "rule", "rule", FALSE, TRUE, 1, 1, "both", 0, 1) EXCEPT !.clash = TRUE],
  NoDebate}

\* One voice, but two where they answer without faults and the rules come in.
MCVoices(s) ==
  IF s.tries = 1 THEN {[score |-> 20, confidence |-> 60], [score |-> 95, confidence |-> 90]}
  ELSE {[score |-> 60, confidence |-> 60]}

\* Samples with nothing suspicious, with everything, and with next to nothing known.
Quiet == [signature_status |-> "valid", certificate_fingerprint |-> TRUE, package_name |-> 0,
          sdk_list |-> 1, permissions |-> 1, packer |-> FALSE, iocs |-> 2, domains |-> TRUE,
          app_name |-> 1, impersonation_probability |-> 20, unassessed |-> {"icon_hash"},
          risk_score |-> 4000, version_status |-> TRUE]
Loud == [signature_status |-> "tampered", certificate_fingerprint |-> TRUE, package_name |-> 1,
         sdk_list |-> 4, permissions |-> 4, packer |-> TRUE, iocs |-> 9, domains |-> TRUE,
         control_url |-> TRUE, download_url |-> TRUE, control_mailbox |-> TRUE,
         control_phone |-> TRUE, ips |-> TRUE, threat_intel_records |-> 3,
         fraud_family |-> {"fraud"}, fake_app |-> TRUE, app_name |-> 2, official_pkg |-> "clone",
         official_app_name |-> TRUE, brand_similarity |-> 80, match_score |-> 60,
         icon_similarity |-> 75, combined_similarity |-> 70, harm_type |-> {"theft", "fake"}]
Mixed == [signature_status |-> "other", certificate_fingerprint |-> TRUE, package_name |-> 0,
          sdk_list |-> 0, permissions |-> 9, packer |-> TRUE, fraud_category_big |-> {"fraud"},
          control_url |-> TRUE, tamper_tags |-> TRUE, brand_similarity |-> 60]
Packed == [signature_status |-> "valid", certificate_fingerprint |-> TRUE, package_name |-> 0,
           sdk_list |-> 0, permissions |-> 0, packer |-> FALSE, virus_name |-> {"theft"},
           fraud_family |-> {"theft"}, fraud_category_big |-> {"fraud"}, harm_type |-> {},
           fraud_category_small |-> {"fake"}, risk_score |-> 9000, version_status |-> TRUE, app_name |-> 0]
Unsigned == [signature_status |-> "missing"]

Raw(score, label, confidence) ==
  [score |-> score, label |-> label, confidence |-> confidence, given |-> Fields]
Pair(a, b, force, production, fields) ==
  [engine_a |-> a, engine_b |-> b, force |-> force, production |-> production, fields |-> fields]
Scored(score) == [score |-> score, label |-> "none", confidence |-> 0, given |-> {"score"}]
Unscored == [score |-> 0, label |-> "none", confidence |-> 0, given |-> {}]
MCSamples ==
  {Pair(Raw(9000, "malicious", 9000), Raw(2000, "benign", 80), FALSE, TRUE, fields) :
     fields \in {Quiet, Loud, Mixed}}
  \cup {Pair(Unscored, Scored(101), TRUE, FALSE, fields) : fields \in {Packed, Unsigned, Quiet}}
  \cup {
  Pair(Raw(8000, "malicious", 60), Raw(72, "malicious", 70), FALSE, TRUE, Mixed),
  Pair(Raw(30, "malicious", 90), Raw(4000, "malicious", 95), FALSE, TRUE, Loud),
  Pair(Scored(4000), Scored(35), FALSE, FALSE, Quiet),
  Pair(Scored(4000), Raw(35, "benign", 90), FALSE, TRUE, Quiet)}

Default ==
  [initial |-> [e \in Engines |-> 100], weightMin |-> 35, weightMax |-> 225,
   gain |-> [static_analysis |-> 25, threat_intel |-> 50, impersonation |-> 35,
             business_label |-> 30],
   signatureGain |-> 35, conflictGain |-> 30, evidenceGain |-> 65, disagreementDecay |-> 22,
   missingDecay |-> 12, xgbWeight |-> 35, clearConfidence |-> 80, highRisk |-> 70,
   ambiguityGap |-> 15, malicious |-> 85, suspicious |-> 60]
MCParamSets == {Default,
  [Default EXCEPT !.weightMin = 0, !.initial = [e \in Engines |-> IF e = "engine_c" THEN 0 ELSE 50]],
  [Default EXCEPT !.xgbWeight = 100, !.malicious = 70, !.suspicious = 45]}
MCCalibrations == {[malicious |-> 85, suspicious |-> 60], [malicious |-> 55, suspicious |-> 30]}

\* Every run completed, or one of them did not.
Completed4 == [a \in Agents |-> "completed"]
MCInvestigations(s) ==
  IF s = NoDebate
  THEN {[runs |-> [Completed4 EXCEPT ![a] = run], unavailable |-> n] : a \in Agents, run \in Runs, n \in {0, 2}}
  ELSE {[runs |-> [Completed4 EXCEPT !["static_analysis"] = run], unavailable |-> 0] :
          run \in {"completed", "failed"}}
MCProbabilities == {10, 50, 90}
================================================================================
