------------------------------- MODULE Release -------------------------------
(***************************************************************************)
(* From a data set to a server that runs a release: the governance         *)
(* commands (scripts/governance/manage.py over malapp/governance), the     *)
(* XGBoost training that is cleared by them, and the verification at the   *)
(* start of the server.  Each command reads several files and relies on    *)
(* what it has read, while others write them: the data a training database *)
(* is rebuilt from, the manifest, the artifact, and the scorecard, which   *)
(* the evaluation of a candidate writes again whenever it is resumed.      *)
(*                                                                         *)
(* The registry is that of ChampionRegistry, which Promotion implements    *)
(* under the lock; `entry` is the rest of what its file says of a          *)
(* candidate.  A digest is what it is the digest of.  The files that one   *)
(* helper reads and hashes at once are read in one step, and so are those  *)
(* of a verification; a command that is killed takes no further step.      *)
(* When a manifest was written is left out, so that one built again of the *)
(* same rows is the same; so are the partitions' files apart, the runtime  *)
(* snapshot, image digest and search for secrets.  There is one release    *)
(* file.                                                                   *)
(***************************************************************************)
EXTENDS ChampionRegistry, RegressionGate, Lineage

CONSTANTS
    Processes,
    Contents,        \* what the source files of the data set may hold
    Versions,        \* names given with --version; None for a derived one
    Cards,           \* scorecards
    Base,            \* the approved baseline
    Scenes,          \* files and registry, as earlier commands left them
    MaxReads, MaxWrites      \* bounds: commands that read files, files written

VARIABLES
    entry,      \* entry[c]: data set, audit, artifact and scorecard of a candidate
    file,       \* the files but for the registry and the release
    release,    \* release-<version>.json
    work,       \* work[p]: the command of a process and what it has read
    server,     \* the release a running server has verified
    budget       \* what the bounds have used

gVars == <<registry, entry, file, release, work, server, budget>>

ASSUME ReleaseAssumption ==
    /\ Contents # {} /\ Cards # {} /\ Scenes # {}
    /\ MaxReads \in Nat /\ MaxWrites \in Nat

Required == {"train", "test"}
NoManifest == [data |-> <<>>, rows |-> <<>>, id |-> None]
NoAudit == [manifest |-> NoManifest, status |-> "none"]
NoArtifact == [id |-> None, data |-> <<>>]
NoEntry == [dataset |-> NoManifest, audit |-> NoAudit, artifact |-> NoArtifact,
            card |-> None]
NoRelease == [of |-> NoCandidate, champion |-> Absent, entry |-> NoEntry, previous |-> NoCandidate,
              manifest |-> NoManifest, audit |-> NoAudit, card |-> None, report |-> None]
NoWork == [at |-> "idle", request |-> None, read |-> NoRelease]

GInit ==
    /\ \E scene \in Scenes :
           /\ registry = scene.registry /\ entry = scene.entry /\ file = scene.file
           /\ budget = [commands |-> scene.commands, writes |-> 0]
    /\ release = NoRelease
    /\ work = [p \in Processes |-> NoWork]
    /\ server = NoRelease

InPlace(p, place) == work[p].at = place
Quit(p) == work' = [work EXCEPT ![p] = NoWork]
\* The command goes on to a place, with more that it has read.
Proceed(p, place, read) == work' = [work EXCEPT ![p].at = place, ![p].read = read]
Read(p) == work[p].read
Asked(p) == work[p].request

Launch(p, place, request) ==
    /\ InPlace(p, "idle")
    /\ budget.commands < MaxReads
    /\ budget' = [budget EXCEPT !.commands = @ + 1]
    /\ work' = [work EXCEPT ![p] = [NoWork EXCEPT !.at = place, !.request = request]]
    /\ UNCHANGED <<registry, entry, file, release, server>>

(* ------------------------------ data sets ----------------------------- *)

\* validate_dataset_manifest with its sources: every digest is the one recorded.
Valid == file.manifest # NoManifest
         /\ file.lineage = file.manifest.rows /\ file.data = file.manifest.data

\* audit_dataset_manifest; the digest of a report covers that of the manifest.
AuditOf(manifest) == [manifest |-> manifest, status |-> Audit(manifest.rows, Required, {})]

\* require_training_clearance.
Cleared == Valid /\ AuditOf(file.manifest).status = "pass"

\* build_dataset_manifest reads the sources, replaces the lineage and then the manifest.
BuildStart(p, version) == Launch(p, "buildRead", version)

BuildRead(p) ==
    /\ InPlace(p, "buildRead")
    /\ LET rows == RowsOf(file.data)
           id == IF Asked(p) = None THEN file.data ELSE Asked(p)
       IN  IF rows = <<>> THEN Quit(p)
           ELSE Proceed(p, "buildLineage",
                  [NoRelease EXCEPT !.manifest = [data |-> file.data, rows |-> rows, id |-> id]])
    /\ UNCHANGED <<registry, entry, file, release, server, budget>>

BuildLineage(p) ==
    /\ InPlace(p, "buildLineage")
    /\ file' = [file EXCEPT !.lineage = Read(p).manifest.rows]
    /\ Proceed(p, "buildManifest", Read(p))
    /\ UNCHANGED <<registry, entry, release, server, budget>>

BuildManifest(p) ==
    /\ InPlace(p, "buildManifest")
    /\ file' = [file EXCEPT !.manifest = Read(p).manifest]
    /\ Quit(p)
    /\ UNCHANGED <<registry, entry, release, server, budget>>

(* ------------------------------ training ------------------------------ *)

\* train clears the data set first; the artifact manifest it writes at the end names
\* the data set that was cleared and the database as it is by then.
TrainStart(p) == Launch(p, "trainClear", None)

TrainClear(p) ==
    /\ InPlace(p, "trainClear")
    /\ IF Cleared THEN Proceed(p, "trainWrite", [NoRelease EXCEPT !.manifest = file.manifest])
       ELSE Quit(p)
    /\ UNCHANGED <<registry, entry, file, release, server, budget>>

TrainWrite(p) ==
    /\ InPlace(p, "trainWrite")
    /\ file' = [file EXCEPT !.artifact = [id |-> Read(p).manifest.id, data |-> file.data]]
    /\ Quit(p)
    /\ UNCHANGED <<registry, entry, release, server, budget>>

(* ------------------------------ candidates ---------------------------- *)

\* register_candidate: the clearance, then the manifest and the artifact, then the
\* mutation.  An artifact that another program made may declare no data set (None).
RegisterStart(p, q) == q.command = "register" /\ Launch(p, "registerClear", q)

RegisterClear(p) ==
    /\ InPlace(p, "registerClear")
    /\ IF Cleared THEN Proceed(p, "registerCheck", [NoRelease EXCEPT !.entry.audit = AuditOf(file.manifest)])
       ELSE Quit(p)
    /\ UNCHANGED <<registry, entry, file, release, server, budget>>

RegisterCheck(p) ==
    /\ InPlace(p, "registerCheck")
    /\ IF Valid /\ file.artifact # NoArtifact /\ file.artifact.id \in {None, file.manifest.id}
       THEN Proceed(p, "registerCommit", [Read(p) EXCEPT !.entry.dataset = file.manifest,
                                                         !.entry.artifact = file.artifact])
       ELSE Quit(p)
    /\ UNCHANGED <<registry, entry, file, release, server, budget>>

RegisterCommit(p) ==
    /\ InPlace(p, "registerCommit")
    /\ IF Permits(registry, Asked(p))
       THEN /\ registry' = Mutate(registry, Asked(p))
            /\ entry' = [entry EXCEPT ![Asked(p).candidate] = Read(p).entry]
       ELSE UNCHANGED <<registry, entry>>
    /\ Quit(p)
    /\ UNCHANGED <<file, release, server, budget>>

\* evaluate_candidate: the gate is made of the scorecard as it was loaded, what the
\* registry refers to is the one found under the lock.
EvaluateStart(p, c) == Launch(p, "evaluateLoad", c)

EvaluateLoad(p) ==
    /\ InPlace(p, "evaluateLoad")
    /\ Proceed(p, "evaluateCommit", [NoRelease EXCEPT !.report = Gate(Base, file.card[Asked(p)])])
    /\ UNCHANGED <<registry, entry, file, release, server, budget>>

EvaluateCommit(p) ==
    /\ InPlace(p, "evaluateCommit")
    /\ LET c == Asked(p)
           q == [command |-> "evaluate", candidate |-> c, component |-> NoComponent,
                 verdict |-> Read(p).report]
       IN  IF Permits(registry, q)
           THEN /\ registry' = Mutate(registry, q)
                /\ entry' = [entry EXCEPT ![c].card = file.card[c]]
           ELSE UNCHANGED <<registry, entry>>
    /\ Quit(p)
    /\ UNCHANGED <<file, release, server, budget>>

\* shadow, approve, promote and rollback rely on the registry alone.
Decide(q) ==
    /\ q.command \in {"shadow", "approve", "promote", "rollback"}
    /\ Permits(registry, q)
    /\ registry' = Mutate(registry, q)
    /\ UNCHANGED <<entry, file, release, work, server, budget>>

(* ------------------------------- release ------------------------------ *)

\* _previous_champion of release.py: the champion before the latest promotion of this one.
ReleasePrevious(r, k, c) ==
    LET own == {i \in DOMAIN r.history : r.history[i].component = k /\ r.history[i].candidate = c}
    IN  IF own = {} THEN NoCandidate
        ELSE r.history[CHOOSE i \in own : \A j \in own : j <= i].previous

\* build_release_snapshot, in the order of its reads: registry and artifacts,
ReleaseStart(p, k) == Launch(p, "releaseRead", k)

ReleaseRead(p) ==
    /\ InPlace(p, "releaseRead")
    /\ LET c == registry.champions[Asked(p)]
       IN  IF c # NoCandidate /\ StatusOf(registry, c) = "champion" /\ file.artifact = entry[c].artifact
           THEN work' = [work EXCEPT ![p].at = "releaseClear", ![p].request = c,
                  ![p].read = [NoRelease EXCEPT !.of = c, !.champion = registry.candidates[c],
                                 !.entry = entry[c],
                                 !.previous = ReleasePrevious(registry, Asked(p), c)]]
           ELSE Quit(p)
    /\ UNCHANGED <<registry, entry, file, release, server, budget>>

\* clearance,
ReleaseClear(p) ==
    /\ InPlace(p, "releaseClear")
    /\ IF Cleared THEN Proceed(p, "releaseCheck", [Read(p) EXCEPT !.audit = AuditOf(file.manifest)])
       ELSE Quit(p)
    /\ UNCHANGED <<registry, entry, file, release, server, budget>>

\* manifest, which must be the champion's, as must the audit,
ReleaseCheck(p) ==
    /\ InPlace(p, "releaseCheck")
    /\ IF Valid /\ Read(p).entry.dataset = file.manifest /\ Read(p).entry.audit = Read(p).audit
       THEN Proceed(p, "releaseGate", Read(p))
       ELSE Quit(p)
    /\ UNCHANGED <<registry, entry, file, release, server, budget>>

\* scorecards, whose gate must pass,
ReleaseGate(p) ==
    /\ InPlace(p, "releaseGate")
    /\ LET card == file.card[Asked(p)]
       IN  IF Gate(Base, card) = "pass"
           THEN Proceed(p, "releaseGoverned", [Read(p) EXCEPT !.report = Report(Base, card)])
           ELSE Quit(p)
    /\ UNCHANGED <<registry, entry, file, release, server, budget>>

\* the digest of the scorecard, which must be the approved one,
ReleaseGoverned(p) ==
    /\ InPlace(p, "releaseGoverned")
    /\ IF Read(p).entry.card = file.card[Asked(p)] THEN Proceed(p, "releaseWrite", Read(p))
       ELSE Quit(p)
    /\ UNCHANGED <<registry, entry, file, release, server, budget>>

\* and the references, taken again as the snapshot is written.
ReleaseWrite(p) ==
    /\ InPlace(p, "releaseWrite")
    /\ release' = [Read(p) EXCEPT !.manifest = file.manifest, !.card = file.card[Asked(p)]]
    /\ Quit(p)
    /\ UNCHANGED <<registry, entry, file, server, budget>>

(* -------------------------------- server ------------------------------ *)

\* validate_release_snapshot at the start of the server.
References == /\ file.manifest = release.manifest
              /\ file.artifact = release.entry.artifact
              /\ file.card[release.of] = release.card

Reproduced_NotTheGate ==
    /\ References /\ Cleared
    /\ AuditOf(file.manifest) = release.audit /\ release.audit = release.entry.audit

Reproduced ==
    /\ References /\ Cleared
    /\ AuditOf(file.manifest) = release.audit /\ release.audit = release.entry.audit
    /\ Report(Base, release.card) = release.report /\ release.report.status = "pass"

\* The server starts, or starts again.
ServerStart ==
    /\ release # NoRelease
    /\ Reproduced
    /\ server' = release
    /\ UNCHANGED <<registry, entry, file, release, work, budget>>

(* ----------------------------- the others ----------------------------- *)

\* The training database is prepared again, an evaluation writes its scorecard again.
Writes(f) ==
    /\ budget.writes < MaxWrites
    /\ budget' = [budget EXCEPT !.writes = @ + 1]
    /\ file' = f
    /\ UNCHANGED <<registry, entry, release, work, server>>

WriteData == \E data \in Contents \ {file.data} : Writes([file EXCEPT !.data = data])
WriteCard == \E c \in Candidates : \E card \in Cards \ {file.card[c]} :
                 Writes([file EXCEPT !.card[c] = card])

GStep(p) ==
    \/ BuildRead(p) \/ BuildLineage(p) \/ BuildManifest(p)
    \/ TrainClear(p) \/ TrainWrite(p)
    \/ RegisterClear(p) \/ RegisterCheck(p) \/ RegisterCommit(p)
    \/ EvaluateLoad(p) \/ EvaluateCommit(p)
    \/ ReleaseRead(p) \/ ReleaseClear(p) \/ ReleaseCheck(p)
    \/ ReleaseGate(p) \/ ReleaseGoverned(p) \/ ReleaseWrite(p)

GStart(p) ==
    \/ TrainStart(p)
    \/ \E version \in Versions : BuildStart(p, version)
    \/ \E q \in MutationRequests : RegisterStart(p, q)
    \/ \E c \in Candidates : EvaluateStart(p, c)
    \/ \E k \in Components : ReleaseStart(p, k)

GNext ==
    \/ \E p \in Processes : GStart(p) \/ GStep(p)
    \/ \E q \in MutationRequests : Decide(q)
    \/ ServerStart \/ WriteData \/ WriteCard

GSpec == GInit /\ [][GNext]_gVars

(* ------------------------------ properties ---------------------------- *)

\* No identity of a sample is on both sides.
Separate(rows) ==
    \A m, n \in DOMAIN rows :
        rows[m].partition # rows[n].partition =>
            /\ rows[m].id # rows[n].id
            /\ \A kind \in Kinds : rows[m][kind] # rows[n][kind] \/ rows[m][kind] = None

\* Whatever was written at any moment of a registration, an evaluation, a release or
\* between them: a server runs only a release whose champion was gated, shadowed and
\* approved, whose scorecard passes the gate as it is referred to, and whose data set
\* separates training from test, is the one the champion was cleared with and the only
\* one its artifact may declare; while that champion is the component's, the release
\* names what a rollback restores.
ServedIsGoverned ==
    server # NoRelease =>
        /\ server.champion.status = "champion" /\ Earned(server.champion)
        /\ Gate(Base, server.card) = "pass"
        /\ Separate(server.manifest.rows)
        /\ server.entry.audit = [manifest |-> server.manifest, status |-> "pass"]
        /\ server.entry.artifact.id \in {None, server.entry.dataset.id}
        /\ LET k == server.champion.component IN
           registry.champions[k] = server.of =>
               server.previous = PreviousChampion(registry, k, server.of)
=============================================================================
