----------------------------- MODULE EvalSuite ------------------------------
(***************************************************************************)
(* Generation of a five-layer evaluation suite                             *)
(* (malapp/evaluation/five_layer.py, generate_five_layer_suite).  It takes *)
(* no lock: it reads its sources once, opens a directory, fills it file by *)
(* file, and makes it the latest suite only at the end.  Everything in     *)
(* between is visible to whoever walks the directories.                    *)
(***************************************************************************)
EXTENDS DataStores

Idle == [pc |-> "idle", release |-> NoRows, gold |-> NoRows, strict |-> {}, trained |-> {}]
Empty == [release |-> NoRows, gold |-> NoRows, rag |-> {}, agent |-> {}, e2e |-> {}, fresh |-> {}]

Doing(g, step) == gen[g].pc = step
Then(g, step) == [gen EXCEPT ![g].pc = step]

\* POST /five-layer/generate or run_five_layer.py: nothing keeps two from running.
GenStart(g) ==
    /\ BeginSuite(g)
    /\ UNCHANGED <<suite, folder, newest>>

TrainingIds == trained
StrictExtension == strict

\* The release rows: validation rows and strict rows that no training source
\* has.  A strict row is gold only with a frozen expert label, which replaces
\* its reference label.
ReleaseRows ==
    [s \in Samples |->
       IF s \in TrainingIds \/ s \notin Base \cup StrictExtension THEN None
       ELSE IF s \notin Base /\ frozen[s] # None THEN frozen[s]
       ELSE RefLabel[s]]

IsOfficial(s) == s \in Base \/ frozen[s] # None
GoldRows == [s \in Samples |-> IF IsOfficial(s) THEN ReleaseRows[s] ELSE None]

GenRead(g) ==
    /\ Doing(g, "read")
    /\ gen' = [gen EXCEPT ![g] = [pc |-> "open", release |-> ReleaseRows,
                                  gold |-> GoldRows, strict |-> StrictExtension \ (TrainingIds \cup Base),
                                  trained |-> TrainingIds]]
    /\ UNCHANGED <<suite, folder, newest>>

\* mkdir with exist_ok=False, then the workflow CSV.  The suite id has the second
\* in it: a generator that opens its directory in the second of another one fails.
GenOpen(g) ==
    /\ Doing(g, "open")
    /\ gen' = Then(g, "layer1")
    /\ folder' = [folder EXCEPT ![g] = Empty]
    /\ newest' = g
    /\ UNCHANGED suite

GenLayer1(g) ==
    /\ Doing(g, "layer1")
    /\ gen' = Then(g, "layer2")
    /\ folder' = [folder EXCEPT ![g].release = gen[g].release, ![g].gold = gen[g].gold]
    /\ newest' = g
    /\ UNCHANGED suite

\* Layer 2 takes the validation rows that give a query.
GenLayer2(g) ==
    /\ Doing(g, "layer2")
    /\ gen' = Then(g, "layers")
    /\ folder' = [folder EXCEPT ![g].rag = Base \cap Queried]
    /\ newest' = g
    /\ UNCHANGED suite

\* Layer 3 takes the validation rows with a report, layer 4 the release rows and
\* as challenges the validation rows outside them; layer 5 is replay only.
AgentRows == Base \cap seen
EndToEndRows(g) == Base \cup Rows(gen[g].release)

GenLayers(g) ==
    /\ Doing(g, "layers")
    /\ gen' = Then(g, "fresh")
    /\ folder' = [folder EXCEPT ![g].agent = AgentRows, ![g].e2e = EndToEndRows(g)]
    /\ newest' = g
    /\ UNCHANGED suite

FreshOf(g) == FreshCandidates(gen[g].trained \cup Base \cup gen[g].strict, FreshSize)

GenFresh(g) ==
    /\ Doing(g, "fresh")
    /\ gen' = Then(g, "publish")
    /\ folder' = [folder EXCEPT ![g].fresh = FreshOf(g)]
    /\ newest' = g
    /\ UNCHANGED suite

\* Manifest and validation report, then latest.json whatever the report says.
GenPublish(g) ==
    /\ Doing(g, "publish")
    /\ gen' = [gen EXCEPT ![g] = Idle]
    /\ suite' = [release |-> folder[g].release, gold |-> folder[g].gold,
                 fresh |-> folder[g].fresh, exists |-> TRUE]
    /\ newest' = g
    /\ UNCHANGED folder

\* An exception or the end of the process: the directory stays as it is.
GenFails(g) ==
    /\ ~Doing(g, "idle")
    /\ gen' = [gen EXCEPT ![g] = Idle]
    /\ UNCHANGED <<suite, folder, newest>>

Generate(g) ==
    \/ GenStart(g)
    \/ /\ \/ GenRead(g) \/ GenOpen(g) \/ GenLayer1(g) \/ GenLayer2(g)
          \/ GenLayers(g) \/ GenFresh(g) \/ GenPublish(g) \/ GenFails(g)
       /\ UNCHANGED started
=============================================================================
