----------------------------- MODULE MCOffline ------------------------------
(***************************************************************************)
(* Small instances of the three programs beside the judging server: the    *)
(* campaigns over the suites, the training of the small models, and the    *)
(* import of samples.  They share no state of their models: a behaviour is *)
(* of one of them.                                                         *)
(*                                                                         *)
(* Campaigns work off suites of one or two rows, seven suites with the     *)
(* actions an operator uses on them; the workbooks of four samples change  *)
(* twice between trainings; four casts of importers write two samples.     *)
(***************************************************************************)
EXTENDS Campaign, TrainingPipeline, SampleImport, TLC

CONSTANTS a, b, c, d

VARIABLE work           \* "campaign", "training" or "import"

Suite(annotated, covered) == [annotated |-> annotated, covered |-> covered]
Pair(actions, rows) == [actions |-> actions, rows |-> rows, thin |-> {},
                        suite |-> Suite(FALSE, FALSE)]
MCRoles ==
    { [Pair({"rag_compare"}, <<a, b>>) EXCEPT !.suite = Suite(TRUE, TRUE)],
      Pair({"model_release", "complete_release"}, <<a, b>>),
      [Pair({"model_release", "gold_compare"}, <<a>>) EXCEPT !.thin = {"model-release"}],
      [Pair({"production_reliability"}, <<a, b>>) EXCEPT !.thin = {"fault-recovery"}],
      [Pair({"agent_ablation", "production_reliability"}, <<a>>) EXCEPT !.thin = {"fault-recovery"}],
      [Pair({"xgb_ablation"}, <<a>>) EXCEPT !.suite = Suite(TRUE, TRUE)],
      [Pair({"debate_ablation"}, <<a>>) EXCEPT !.suite = Suite(TRUE, TRUE)] }

MCApps == {a, b, c, d}
MCSplit == (a :> "train") @@ (b :> "train") @@ (c :> "val") @@ (d :> "val")
Export(number, part, total, listed) ==
    [export |-> number, part |-> part, total |-> total, samples |-> listed]
Rulings(S, label) == [x \in MCApps |-> IF x \in S THEN label ELSE "absent"]
MCWorkbooks ==
    << [malicious |-> {Export(1, 1, 1, {a, c})}, white |-> {Export(1, 1, 1, {b, d})},
        manual |-> Rulings({}, "benign")],
       [malicious |-> {Export(1, 1, 2, {a, b}), Export(1, 2, 2, {c}), Export(2, 1, 2, {a})},
        white |-> {Export(0, 1, 1, {b, d})}, manual |-> Rulings({c, d}, "benign")],
       [malicious |-> {Export(0, 1, 1, {a, d})}, white |-> {Export(3, 2, 2, {b}), Export(2, 1, 1, {d})},
        manual |-> [Rulings({a}, "benign") EXCEPT ![b] = "malicious", ![c] = "unlabelled"]] >>

(* -------------------------------- imports ------------------------------ *)

Rec(m, urgent, label, fields, iocs) ==
    [md5 |-> m, urgent |-> urgent, label |-> label, fields |-> fields, iocs |-> iocs]
Fake == Rec(a, {"fake_app"}, NoLabel, [app_name |-> "shown"], {"mail"})
Traffic == Rec(a, {"fraud_url", "many_iocs"}, NoLabel, [app_name |-> "other", family |-> "loan"], {"host"})
Plain == Rec(b, {}, NoLabel, [app_name |-> "plain"], {})
Ruled == Rec(b, {"conflict_type", "human_label"}, "benign", [human_label |-> "0"], {})
Nameless == Rec(Unnamed, {}, NoLabel, <<>>, {})
Engine(m, score) == [md5 |-> m, detection |-> [score |-> score, type |-> IF score > 60 THEN "black" ELSE "white"]]
Plan(kind, origin, rows) == [kind |-> kind, sheets |-> <<[source |-> origin, rows |-> rows]>>]
Then(plan, origin, rows) == [plan EXCEPT !.sheets = Append(@, [source |-> origin, rows |-> rows])]
Upload(rows) == Plan("upload", "manual_upload", rows)
Workbook == Then(Plan("workbook", "app", <<Fake, Nameless, Traffic, Plain>>), "conflict", <<Ruled>>)
Boot == [kind |-> "boot"]
Pull == Plan("pull", "engine_conflict_auto_pull", <<>>)
MCCasts == {
    [up |-> Upload(<<Fake, Nameless, Traffic, Fake>>), book |-> Workbook, one |-> Plan("ingest", "gateway", <<Plain>>)],
    [boot |-> Boot, book |-> Workbook, up |-> Upload(<<Traffic, Plain>>)],
    [old |-> Plan("engines", "360", <<Engine(a, 90), Engine(b, 50)>>),
     new |-> Plan("engines", "cm", <<Engine(a, 40), Engine(Unnamed, 0), Engine(b, 70)>>), pull |-> Pull, again |-> Pull],
    [list |-> Then(Plan("labels", "bad", <<[md5 |-> a, label |-> "malicious"], [md5 |-> b, label |-> "malicious"]>>),
                   "good", <<[md5 |-> b, label |-> "benign"]>>),
     ask |-> Plan("enrich", "api", <<>>), up |-> Upload(<<Plain, Ruled>>), bad |-> Plan("ingest", "gateway", <<Nameless>>)]}

(* ----------------------------- a behaviour ----------------------------- *)

offlineVars == <<campaignVars, trainVars, importVars, work>>

OfflineInit ==
    /\ work \in {"campaign", "training", "import"}
    /\ CampaignInit /\ PipelineInit /\ ImportInit
    /\ work # "campaign" => role = CHOOSE r \in Roles : TRUE
    /\ work # "import" => cast = CHOOSE x \in Casts : TRUE

OfflineNext ==
    /\ UNCHANGED work
    /\ \/ work = "campaign" /\ CampaignNext /\ UNCHANGED <<trainVars, importVars>>
       \/ work = "training" /\ PipelineNext /\ UNCHANGED <<campaignVars, importVars>>
       \/ work = "import" /\ ImportNext /\ UNCHANGED <<campaignVars, trainVars>>

OfflineSpec == OfflineInit /\ [][OfflineNext]_offlineVars
=============================================================================
