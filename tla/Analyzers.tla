------------------------------- MODULE Analyzers -------------------------------
(***************************************************************************)
(* The four analyzers of judgement.py, static_analysis_agent and the       *)
(* others, and what becomes of their evidence blocks on the way to the     *)
(* decision. A sample is a function on the logical fields it has a value   *)
(* for; the value is what the analyzers tell apart: a signature status, a  *)
(* number of risky permissions, the kinds of fraud a text names. The texts *)
(* of the findings are left out. Scores are hundredths.                    *)
(***************************************************************************)
EXTENDS Decision

\* FIELD_ALIASES: the fields an analyzer asks for.
Required(agent) ==
  CASE agent = "static_analysis" ->
         {"signature_status", "certificate_fingerprint", "package_name", "sdk_list",
          "permissions", "packer"}
    [] agent = "threat_intel" ->
         {"control_url", "download_url", "control_mailbox", "control_phone", "domains", "ips",
          "threat_intel_records", "fraud_family"}
    [] agent = "impersonation" ->
         {"fake_app", "app_name", "package_name", "official_app_name", "official_pkg",
          "official_md5", "official_icon", "brand_similarity"}
    [] agent = "business_label" ->
         {"virus_name", "risk_score", "fraud_family", "fraud_category_big",
          "fraud_category_small", "harm_type", "version_status", "app_name"}

\* What the preprocessing adds: the indicators of extract_iocs, and the analysis of
\* the impersonation, with the fields that one found missing.
Analysis == {"impersonation_probability", "match_score", "icon_similarity",
             "combined_similarity", "tamper_tags", "unassessed"}
Material(agent) ==
  Required(agent) \cup (CASE agent = "threat_intel" -> {"iocs"}
                          [] agent = "impersonation" -> Analysis [] OTHER -> {})

\* first_value, has_any_feature.
Given(s, field) == field \in DOMAIN s
Value(s, field, default) == IF Given(s, field) THEN s[field] ELSE default
HasAny(s, fields) == \E field \in fields : Given(s, field)
Missing(agent, s) ==
  (Required(agent) \ DOMAIN s)
  \cup (IF agent = "impersonation" THEN Value(s, "unassessed", {}) ELSE {})

\* A score or a similarity above 1 is a percentage.
Share(raw) == IF raw > 100 THEN raw \div 100 ELSE raw
------------------------------------------------------------------------------
\* make_evidence_item: a finding has a strength and leans to one side; it adds to the
\* risk or lifts it to a level.
Finding(type, strength, leans, risk) ==
  [type |-> type, strength |-> Clip(0, strength, 100), leans |-> leans, risk |-> risk, level |-> 0]
Lifting(type, strength, leans, level) ==
  [type |-> type, strength |-> strength, leans |-> leans, risk |-> 0, level |-> level]
When(condition, finding) == IF condition THEN {finding} ELSE {}

StaticFindings(s) ==
  LET signature == Value(s, "signature_status", "none")
      permissions == Value(s, "permissions", 0)
      sdks == Value(s, "sdk_list", 0)
  IN UNION {
    When(signature = "tampered", Finding("signature_anomaly", 82, "malicious", 36)),
    When(signature = "missing", Finding("signature_missing", 72, "malicious", 28)),
    When(signature = "valid" \/ (signature \notin {"tampered", "missing"}
                                 /\ Given(s, "certificate_fingerprint")),
         Finding("signature_normal", 35, "benign", 2)),
    When(Value(s, "packer", FALSE), Finding("packer_or_obfuscation", 68, "malicious", 18)),
    When(permissions > 0, Finding("permission_risk", Min({90, 35 + 8 * permissions}),
                                  "malicious", Min({24, 6 * permissions}))),
    When(sdks > 0, Finding("sdk_risk", Min({85, 32 + 8 * sdks}), "malicious",
                           Min({18, 5 * sdks})))}

ThreatFindings(s) ==
  LET iocs == Value(s, "iocs", 0)
      records == Value(s, "threat_intel_records", 0)
  IN {Finding(field, 78, "malicious", 24) :
        field \in {x \in {"control_url", "download_url", "control_mailbox", "control_phone"} :
                     Value(s, x, FALSE)}}
     \cup UNION {
       When(iocs > 0, Finding("network_indicator", Min({88, 36 + 5 * iocs}), "malicious",
                              Min({28, (45 * iocs) \div 10}))),
       When(records > 0, Finding("threat_intel_hit", 86, "malicious", Min({32, 12 * records}))),
       When(Given(s, "fraud_family"), Finding("malware_family", 74, "malicious", 20))}

ImpersonationFindings(s) ==
  LET probability == Value(s, "impersonation_probability", 0)
      match == Value(s, "match_score", 0)
      icon == Value(s, "icon_similarity", 0)
      name == Value(s, "combined_similarity", 0)
      likeness == Share(Value(s, "brand_similarity", 0))
      words == Value(s, "app_name", 0) + Value(s, "package_name", 0)
  IN UNION {
    When(Given(s, "impersonation_probability"),
         Lifting("impersonation_probability", probability,
                 IF probability >= 50 THEN "malicious" ELSE "benign", probability)),
    When(Given(s, "match_score"),
         Lifting("official_asset_match", match, IF match >= 55 THEN "malicious" ELSE "context", match)),
    When(icon >= 70, Lifting("visual_similarity", icon, "malicious", 72 + (18 * icon) \div 100)),
    When(name >= 65 \/ Value(s, "tamper_tags", FALSE),
         Lifting("semantic_edit_distance", Max({name, 66}), "malicious", 68 + (16 * name) \div 100)),
    When(Value(s, "fake_app", FALSE), Finding("declared_impersonation", 84, "malicious", 32)),
    When(HasAny(s, {"official_app_name", "official_pkg"}),
         Finding("official_asset_reference", 48, "context", 4)),
    When(Given(s, "brand_similarity"),
         Finding("brand_similarity", likeness, "malicious",
                 IF likeness >= 75 THEN 26 ELSE IF likeness >= 45 THEN 14 ELSE 3)),
    When(words > 0, Finding("name_obfuscation", 52, "malicious", Min({18, 6 * words}))),
    When(Value(s, "official_pkg", "none") = "clone" /\ Given(s, "package_name"),
         Finding("package_edit_distance", 66, "malicious", 16))}

\* The kinds of business the texts name decide the labels.
Named(s) ==
  UNION {Value(s, field, {}) : field \in {"virus_name", "fraud_family", "fraud_category_big",
                                          "fraud_category_small", "harm_type"}}
BusinessFindings(s) ==
  LET fraud == "fraud" \in Named(s)
      theft == "theft" \in Named(s)
      fake == Value(s, "fake_app", FALSE) \/ "fake" \in Named(s)
      score == Share(Value(s, "risk_score", 0))
  IN UNION {
    When(fraud \/ theft \/ fake,
         Finding("business_tags", 74, "malicious",
                 (IF fraud THEN 26 ELSE 0) + (IF theft THEN 22 ELSE 0) + (IF fake THEN 18 ELSE 0))),
    When(HasAny(s, {"fraud_category_big", "fraud_category_small"}),
         Finding("fraud_category", 72, "malicious", 12)),
    When(Given(s, "harm_type"), Finding("harm_category", 68, "malicious", 10)),
    When(Given(s, "fraud_family"), Finding("fraud_family", 76, "malicious", 16)),
    When(Given(s, "risk_score"), Finding("risk_score", score, "malicious", Min({18, (18 * score) \div 100}))),
    When(Given(s, "version_status"), Finding("version_status", 45, "context", 0))}

Findings(agent, s) ==
  CASE agent = "static_analysis" -> StaticFindings(s)
    [] agent = "threat_intel" -> ThreatFindings(s)
    [] agent = "impersonation" -> ImpersonationFindings(s)
    [] agent = "business_label" -> BusinessFindings(s)

\* The risk an analyzer starts from, and the bounds and the slope of its confidence.
Temper(agent) ==
  CASE agent = "static_analysis" -> [base |-> 8, low |-> 35, high |-> 92, lift |-> 18, step |-> 4]
    [] agent = "threat_intel" -> [base |-> 6, low |-> 34, high |-> 94, lift |-> 16, step |-> 3]
    [] agent = "impersonation" -> [base |-> 5, low |-> 32, high |-> 93, lift |-> 18, step |-> 3]
    [] agent = "business_label" -> [base |-> 5, low |-> 32, high |-> 94, lift |-> 16, step |-> 3]
------------------------------------------------------------------------------
\* missing_feature_block: with nothing to go by there is no judgement.
Nothing(missing) ==
  [score |-> 0, confidence |-> 0, usable |-> FALSE, missing |-> missing, items |-> 1]

\* An analyzer without a finding says that there is none. Every finding counts.
Analyze(agent, s) ==
  LET found == Findings(agent, s)
      t == Temper(agent)
      count == Max({1, Cardinality(found)})
      score == Clip(0, Max({t.base} \cup {x.level : x \in found})
                       + MapThenSumSet(LAMBDA x : x.risk, found), 100)
  IN IF ~HasAny(s, Material(agent)) THEN Nothing(Cardinality(Required(agent)))
     ELSE [score |-> score, usable |-> TRUE, items |-> count,
           missing |-> Cardinality(Missing(agent, s)),
           confidence |-> Max({t.low, Min({t.high, score + t.lift + t.step * count})})]

\* ExpertModelProvider.review: the model may explain the facts and cannot change them;
\* a block that lacks a field loses its confidence.
Reviewed(block) ==
  IF block.missing > 0 THEN [block EXCEPT !.confidence = 0, !.usable = FALSE] ELSE block

\* How the run of an agent may end: it completed, its tools failed, it failed itself, or
\* the plan skipped it. Only a completed run is reviewed.
Runs == {"completed", "tools_failed", "failed", "skipped_by_plan"}
StatusOf(run) == IF run = "tools_failed" THEN "failed" ELSE run

\* degraded_result and skipped_by_plan_result: nothing, for a reason of its own.
Degraded == Nothing(1)
SkippedByPlan == Nothing(1)

Evidence(agent, s, run) ==
  CASE run = "completed" -> Reviewed(Analyze(agent, s))
    [] run = "tools_failed" -> Analyze(agent, s)
    [] run = "failed" -> Degraded
    [] run = "skipped_by_plan" -> SkippedByPlan
==============================================================================
