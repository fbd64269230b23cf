------------------------------ MODULE MCRelease ------------------------------
(***************************************************************************)
(* Small instances of the governance: the registry's mutations under the   *)
(* lock file, and the way from a data set to a server.  They share the     *)
(* registry: a behaviour is of one of them, and starts from a registry     *)
(* that earlier commands left.                                             *)
(*                                                                         *)
(* Two candidates of one component.  A data set may be clean or have a     *)
(* family on both sides, behind groups of its own; two scorecards pass     *)
(* with the same numbers in other bytes, one fails.                        *)
(***************************************************************************)
EXTENDS Promotion, Release, TLC

VARIABLE part            \* "promotion" or "release"

CONSTANTS c1, c2, k1, p1, p2, train1, test1, fam, named

MCCandidates == {c1, c2}
MCComponents == {k1}

Record(id, partition, family) ==
    [id |-> id, label |-> "malicious", tier |-> "gold", partition |-> partition, group |-> None,
     certificate |-> None, family |-> family, apk |-> None, derived |-> FALSE]
Clean == <<Record(train1, "train", fam), Record(test1, "test", None)>>
Leaky == <<Record(train1, "train", fam), [Record(test1, "test", fam) EXCEPT !.group = test1]>>
MCContents == {Clean, Leaky}

Card(bytes, recall) ==
    [bytes |-> bytes, benchmark |-> "frozen", total |-> 1, evaluated |-> 1, coverage |-> 1000,
     metrics |-> [m \in Metrics |->
         CASE m = "malicious_recall" -> recall [] m = "structure_success_rate" -> 1000
           [] OTHER -> 0]]
MCBase == Card(1, 900)
MCCards == {Card(2, 950), Card(3, 950), Card(2, 800)}

Manifest(data) == [data |-> data, rows |-> RowsOf(data), id |-> data]
Trained(data) == [id |-> data, data |-> data]
Entry == [dataset |-> Manifest(Clean), audit |-> AuditOf(Manifest(Clean)),
          artifact |-> Trained(Clean), card |-> Card(2, 950)]
Files == [data |-> Clean, lineage |-> RowsOf(Clean), manifest |-> Manifest(Clean),
          artifact |-> Trained(Clean), card |-> [c \in MCCandidates |-> Card(2, 950)]]
Fresh == [data |-> Clean, lineage |-> <<>>, manifest |-> NoManifest,
          artifact |-> [id |-> None, data |-> Clean],
          card |-> [c \in MCCandidates |-> Card(2, 950)]]

InState(status, gate, done) ==
    [component |-> k1, status |-> status, gate |-> gate, shadow |-> done, approval |-> done]
ServingBeside(successor) ==
    [candidates |-> (c1 :> InState("champion", "pass", TRUE) @@ c2 :> successor),
     champions |-> (k1 :> c1),
     history |-> <<[candidate |-> c1, component |-> k1, previous |-> NoCandidate]>>]
Serving == ServingBeside(Absent)
Ready == ServingBeside(InState("approved", "pass", TRUE))
MCRegistries == {EmptyRegistry, ServingBeside(InState("candidate", "none", FALSE)), Ready}

MCScenes ==
    {[registry |-> EmptyRegistry, entry |-> [c \in MCCandidates |-> NoEntry], file |-> Fresh,
      commands |-> 0],
     [registry |-> Serving, entry |-> (c1 :> Entry @@ c2 :> NoEntry), file |-> Files,
      commands |-> 2],
     [registry |-> Ready, entry |-> [c \in MCCandidates |-> Entry], file |-> Files,
      commands |-> 3]}

(* ----------------------------- a behaviour ----------------------------- *)

promotionVars == <<lockFile, gateFile, gateTmp, pc, request, copy, spent>>
releaseVars == <<entry, file, release, work, server, budget>>

NoCommands ==
    /\ lockFile = FALSE /\ gateFile = [c \in Candidates |-> "none"]
    /\ gateTmp = [c \in Candidates |-> "none"]
    /\ pc = [p \in Procs |-> "idle"] /\ request = [p \in Procs |-> NoRequest]
    /\ copy = [p \in Procs |-> EmptyRegistry] /\ spent = [commands |-> 0, crashes |-> 0]

NoWorks ==
    /\ entry = [c \in Candidates |-> NoEntry] /\ file = Fresh /\ release = NoRelease
    /\ work = [p \in Processes |-> NoWork] /\ server = NoRelease
    /\ budget = [commands |-> 0, writes |-> 0]

GovernanceInit ==
    \/ part = "promotion" /\ PInit /\ NoWorks
    \/ part = "release" /\ GInit /\ NoCommands

GovernanceNext ==
    /\ UNCHANGED part
    /\ \/ part = "promotion" /\ PNext /\ UNCHANGED releaseVars
       \/ part = "release" /\ GNext /\ UNCHANGED promotionVars

GovernanceSpec == GovernanceInit /\ [][GovernanceNext]_<<registry, promotionVars, releaseVars, part>>

Symmetry == Permutations(Processes)
=============================================================================
