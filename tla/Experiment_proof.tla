-------------------------- MODULE Experiment_proof --------------------------
(***************************************************************************)
(* What every evaluation run of Experiment keeps to, for every list of     *)
(* rows, suite, choice of settings and options, limit and number of        *)
(* processes that die: the checkpoint never claims a report that is not    *)
(* there (Reported), a sample is judged well once, but for the processes   *)
(* that died (CountsOnce), a result that says completed has the reports of *)
(* its selection (ResultHolds), and all reports of a run-id stand on one   *)
(* corpus and, unless a process died, on one choice of settings and on no  *)
(* document of the samples to be isolated (OneCorpus).                     *)
(*                                                                         *)
(* The checkpoint and the memory of the invocation differ only between a   *)
(* judgement and its save (Books); what is still to be done accounts for   *)
(* the rest of a selection (Ahead); and whoever found settings that fit is *)
(* the only one to write until it ends (Ground).                           *)
(***************************************************************************)
EXTENDS Experiment, TLAPS, WellFoundedInduction

Places == {"idle", "stage", "exclude", "load", "select", "run", "save", "finish"}
Outcomes == {"none", "completed", "failed"}
Configs == [selected: SUBSET Samples, signature: Settings \cup {0}]
OptionSets == [next: BOOLEAN, replay: BOOLEAN, dry: BOOLEAN, stop: BOOLEAN,
               only: SUBSET Samples]
Invocations ==
    [pc: Places, options: OptionSets, settings: Settings \cup {0}, previous: Configs,
     items: [Samples -> Outcomes], selected: SUBSET Samples, todo: SUBSET (DOMAIN Rows),
     failed: BOOLEAN, row: Nat]

\* The types of the files and of the invocation.
Typed ==
    /\ rag \subseteq Samples /\ reported \subseteq Samples
    /\ settings \in Settings
    /\ config \in Configs
    /\ checkpoint \in [Samples -> Outcomes]
    /\ copy \in [exists: BOOLEAN, docs: SUBSET Samples]
    /\ judged \in [Samples -> Nat]
    /\ footings \subseteq Settings \X SUBSET Samples
    /\ proc \in Invocations
    /\ crashes \in Nat
    /\ At("idle") \/ proc.settings \in Settings

\* Memory and checkpoint agree but for the sample whose outcome is to be saved.
Books ==
    /\ proc.pc \in {"select", "run", "finish"} => proc.items = checkpoint
    /\ At("save") =>
          /\ proc.todo # {}
          /\ checkpoint[Current] # "completed" /\ proc.items[Current] # "none"
          /\ \A s \in Samples : s # Current => proc.items[s] = checkpoint[s]

\* What was noted as completed has a report, in memory as in the checkpoint.
Noted ==
    /\ \A s \in Samples : checkpoint[s] = "completed" => s \in reported
    /\ \A s \in Samples : proc.items[s] = "completed" => s \in reported

\* A judgement more than the processes that died is on the books.
Latest == IF At("save") THEN proc.items ELSE checkpoint
Counted ==
    \A s \in Samples :
        judged[s] <= (IF Latest[s] = "completed" THEN 1 ELSE 0) + crashes

\* While nothing failed, a selected sample has a report or is still to be judged.
Ahead ==
    /\ proc.row > 0 => proc.failed
    /\ proc.pc \in {"run", "save", "finish"} => proc.selected \subseteq Ids
    /\ At("run") /\ ~proc.failed =>
          \A s \in proc.selected : s \in reported \/ \E n \in proc.todo : Rows[n] = s
    /\ At("save") /\ ~proc.failed =>
          /\ \A s \in proc.selected : s \in reported \/ \E n \in proc.todo : Rows[n] = s
          /\ proc.items[Current] = "completed"
    /\ At("finish") => proc.failed

\* What the reports of the run-id were made with.
Ground ==
    /\ \A f \in footings : copy.exists /\ f[2] = copy.docs
    /\ At("exclude") => footings = {} /\ copy.exists
    /\ proc.pc \in {"load", "select", "run", "save", "finish"} => copy.exists
    /\ crashes = 0 /\ copy.exists /\ ~At("exclude") => copy.docs \cap Isolated = {}
    /\ crashes = 0 => \A f \in footings : f[1] = config.signature
    /\ proc.pc \in {"stage", "exclude", "load", "select"} => proc.previous = config
    /\ At("select") => Compatible
    /\ proc.pc \in {"run", "save", "finish"} => config.signature = proc.settings

Inv == Typed /\ Books /\ Noted /\ Counted /\ Ahead /\ Ground /\ ResultIsTrue
------------------------------------------------------------------------------
LEMMA RowsAreSamples ==
  /\ DOMAIN Rows \subseteq Nat
  /\ \A n \in DOMAIN Rows : Rows[n] \in Samples
  /\ Ids \subseteq Samples
BY ExperimentAssumption DEF Ids

\* The row whose turn it is is one of those to be done.
LEMMA TurnIsToDo ==
  ASSUME NEW S \in SUBSET (DOMAIN Rows), S # {}
  PROVE  Min(S) \in S
<1>1. S \subseteq Nat
  BY RowsAreSamples
<1>2. PICK x \in S : \A y \in S : ~(<<y, x>> \in OpToRel(<, Nat))
  <2>1. IsWellFoundedOn(OpToRel(<, Nat), Nat)
    BY NatLessThanWellFounded
  <2> QED BY <1>1, <2>1, WFMin
<1>3. \A y \in S : ~(y < x)
  <2> SUFFICES ASSUME NEW y \in S PROVE ~(y < x)
    OBVIOUS
  <2>1. x \in Nat /\ y \in Nat /\ ~(<<y, x>> \in OpToRel(<, Nat))
    BY <1>1, <1>2
  <2> QED BY <2>1 DEF OpToRel
<1>4. x \in Nat /\ \A y \in S : y \in Nat
  BY <1>1
<1>5. \A y \in S : x <= y
  BY <1>3, <1>4
<1> QED BY <1>5 DEF Min

LEMMA CurrentIsARow ==
  ASSUME proc \in Invocations, proc.todo # {}
  PROVE  Turn \in proc.todo /\ Current \in Ids /\ Current \in Samples /\ Current = Rows[Turn]
<1>1. proc.todo \in SUBSET (DOMAIN Rows)
  BY DEF Invocations
<1>2. Turn \in proc.todo
  BY <1>1, TurnIsToDo DEF Turn
<1> QED BY <1>1, <1>2, RowsAreSamples DEF Current, Ids
------------------------------------------------------------------------------
LEMMA InvInit == Init => Inv
<1> SUFFICES ASSUME Init PROVE Inv
  OBVIOUS
<1>1. Resume \in OptionSets
  BY DEF Resume, OptionSets
<1>2. NoItems \in [Samples -> Outcomes] /\ NoConfig \in Configs
  BY DEF NoItems, Outcomes, NoConfig, Configs
<1>3. NoProc \in Invocations /\ NoProc.pc = "idle" /\ NoProc.items = NoItems
      /\ NoProc.row = 0
  BY <1>1, <1>2 DEF NoProc, Invocations, Places
<1>4. Typed
  BY <1>2, <1>3, RowsAreSamples, ExperimentAssumption DEF Init, Typed, NoCopy, At
<1>5. \A s \in Samples : NoItems[s] = "none"
  BY DEF NoItems
<1>6. Books /\ Noted /\ Counted
  BY <1>3, <1>4, <1>5 DEF Books, Noted, Counted, Latest, At, Init, Typed
<1>7. Ahead /\ ResultIsTrue
  BY <1>3 DEF Ahead, Init, At, ResultIsTrue, NoResult
<1>8. Ground
  BY <1>3 DEF Ground, Init, At, NoCopy
<1> QED BY <1>4, <1>6, <1>7, <1>8 DEF Inv

\* An invocation that ends, and one that dies, leaves an idle process.
LEMMA AtRest ==
  /\ NoProc \in Invocations /\ NoProc.pc = "idle" /\ NoProc.row = 0
  /\ \A s \in Samples : NoProc.items[s] = "none"
<1>1. Resume \in OptionSets
  BY DEF Resume, OptionSets
<1>2. NoItems \in [Samples -> Outcomes] /\ NoConfig \in Configs
  BY DEF NoItems, Outcomes, NoConfig, Configs
<1> QED BY <1>1, <1>2 DEF NoProc, Invocations, Places, NoItems
------------------------------------------------------------------------------
\* The operator and the application leave the run alone.
LEMMA Outside == Inv /\ (ChangeSettings \/ \E s \in Samples : ChangeStore(s)) => Inv'
<1> SUFFICES ASSUME Inv, (ChangeSettings \/ \E s \in Samples : ChangeStore(s)) PROVE Inv'
  OBVIOUS
<1> USE DEF Inv
<1>1. UNCHANGED <<config, checkpoint, copy, judged, reported, footings, result, crashes, proc>>
  BY DEF ChangeSettings, ChangeStore, runVars
<1>2. rag' \subseteq Samples /\ settings' \in Settings
  BY DEF ChangeSettings, ChangeStore, Typed
<1>3. Typed'
  BY <1>1, <1>2 DEF Typed, At
<1>4. Books'
  BY <1>1, <1>2 DEF Books, At, Current, Turn
<1>5. Noted'
  BY <1>1, <1>2 DEF Noted
<1>6. Counted'
  BY <1>1, <1>2 DEF Counted, Latest, At
<1>7. Ahead'
  BY <1>1, <1>2 DEF Ahead, At, Current, Turn
<1>8. Ground'
  BY <1>1, <1>2 DEF Ground, At, Compatible
<1>9. ResultIsTrue'
  BY <1>1, <1>2 DEF ResultIsTrue
<1> QED BY <1>3, <1>4, <1>5, <1>6, <1>7, <1>8, <1>9

\* A beginning reads the settings and the configuration.
LEMMA BeginStep == Inv /\ (\E options \in Options : Begin(options)) => Inv'
<1> SUFFICES ASSUME Inv, (\E options \in Options : Begin(options)) PROVE Inv'
  OBVIOUS
<1> USE DEF Inv
<1>1. UNCHANGED <<rag, settings, config, checkpoint, copy, judged, reported, footings, result, crashes>>
  BY DEF Begin, runVars
<1>2. PICK options \in OptionSets : Begin(options)
  BY ExperimentAssumption DEF OptionSets
<1>3. proc' = [NoProc EXCEPT !.pc = "stage", !.options = options,
                             !.settings = settings, !.previous = config]
  BY <1>2 DEF Begin
<1>4. proc.pc = "idle" /\ settings \in Settings /\ config \in Configs
  BY <1>2 DEF Typed, Begin, At
<1>5. proc' \in Invocations
  BY <1>3, <1>4, AtRest DEF Invocations, Places
<1>6. /\ proc'.pc = "stage" /\ proc'.previous = config /\ proc'.items = NoProc.items
      /\ proc'.row = NoProc.row /\ proc'.settings = settings
  BY <1>3, AtRest DEF Invocations
<1>7. Typed'
  BY <1>1, <1>2, <1>3, <1>4, <1>5, <1>6 DEF Typed, At
<1>8. Books'
  BY <1>1, <1>2, <1>3, <1>4, <1>5, <1>6 DEF Books, At
<1>9. Noted'
  BY <1>1, <1>2, <1>3, <1>4, <1>5, <1>6, AtRest DEF Noted
<1>10. Counted'
  BY <1>1, <1>2, <1>3, <1>4, <1>5, <1>6 DEF Counted, Latest, At
<1>11. Ahead'
  BY <1>1, <1>2, <1>3, <1>4, <1>5, <1>6, AtRest DEF Ahead, At
<1>12. Ground'
  BY <1>1, <1>2, <1>3, <1>4, <1>5, <1>6 DEF Ground, At
<1>13. ResultIsTrue'
  BY <1>1, <1>2, <1>3, <1>4, <1>5, <1>6 DEF ResultIsTrue
<1> QED BY <1>7, <1>8, <1>9, <1>10, <1>11, <1>12, <1>13

\* A copy is taken only while there is none, and so no report.
LEMMA StageStep == Inv /\ StageCopy => Inv'
<1> SUFFICES ASSUME Inv, StageCopy PROVE Inv'
  OBVIOUS
<1> USE DEF Inv
<1>1. UNCHANGED <<rag, settings, config, checkpoint, judged, reported, footings, result, crashes>>
  BY DEF StageCopy
<1>2. proc.pc = "stage" /\ proc \in Invocations
  BY DEF StageCopy, At, Typed
<1>3. \/ copy.exists /\ copy' = copy /\ proc' = [proc EXCEPT !.pc = "load"]
      \/ /\ ~copy.exists /\ copy' = [exists |-> TRUE, docs |-> rag]
         /\ proc' = [proc EXCEPT !.pc = "exclude"]
  BY DEF StageCopy, Goto
<1>4. /\ proc' \in Invocations /\ proc'.items = proc.items /\ proc'.previous = proc.previous
      /\ proc'.settings = proc.settings
      /\ proc'.row = proc.row /\ proc'.failed = proc.failed
  BY <1>2, <1>3 DEF Invocations, Places
<1>5. \/ copy.exists /\ copy' = copy /\ proc'.pc = "load"
      \/ /\ ~copy.exists /\ copy'.exists /\ copy'.docs = rag
         /\ proc'.pc = "exclude"
  BY <1>2, <1>3 DEF Invocations
<1>6. /\ rag \in SUBSET Samples
      /\ copy \in [exists: BOOLEAN, docs: SUBSET Samples]
  BY DEF Typed
<1>7. copy' \in [exists: BOOLEAN, docs: SUBSET Samples]
  <2>1. copy' = copy \/ copy' = [exists |-> TRUE, docs |-> rag]
    BY <1>3
  <2>2. [exists |-> TRUE, docs |-> rag]
          \in [exists: BOOLEAN, docs: SUBSET Samples]
    BY <1>6
  <2> QED BY <1>6, <2>1, <2>2
<1>8. Typed'
  BY <1>1, <1>2, <1>3, <1>4, <1>5, <1>6, <1>7 DEF Typed, At
<1>9. Books'
  BY <1>1, <1>2, <1>3, <1>4, <1>5, <1>6, <1>7 DEF Books, At
<1>10. Noted'
  BY <1>1, <1>2, <1>3, <1>4, <1>5, <1>6, <1>7 DEF Noted
<1>11. Counted'
  BY <1>1, <1>2, <1>3, <1>4, <1>5, <1>6, <1>7 DEF Counted, Latest, At
<1>12. Ahead'
  BY <1>1, <1>2, <1>3, <1>4, <1>5, <1>6, <1>7 DEF Ahead, At
<1>13. Ground'
  BY <1>1, <1>2, <1>4, <1>5 DEF Ground, At
<1>14. ResultIsTrue'
  BY <1>1, <1>2, <1>3, <1>4, <1>5, <1>6, <1>7 DEF ResultIsTrue
<1> QED BY <1>8, <1>9, <1>10, <1>11, <1>12, <1>13, <1>14

\* The exclusion leaves no document under evaluation.
LEMMA ExcludeStep == Inv /\ StageExclude => Inv'
<1> SUFFICES ASSUME Inv, StageExclude PROVE Inv'
  OBVIOUS
<1> USE DEF Inv
<1>1. UNCHANGED <<rag, settings, config, checkpoint, judged, reported, footings, result, crashes>>
  BY DEF StageExclude
<1>2. /\ proc.pc = "exclude" /\ proc \in Invocations
      /\ copy \in [exists: BOOLEAN, docs: SUBSET Samples]
  BY DEF StageExclude, At, Typed
<1>3. /\ proc' \in Invocations /\ proc'.pc = "load" /\ proc'.items = proc.items
      /\ proc'.previous = proc.previous /\ proc'.settings = proc.settings
      /\ proc'.row = proc.row /\ proc'.failed = proc.failed
  BY <1>2 DEF StageExclude, Goto, Invocations, Places
<1>4. copy'.exists = copy.exists /\ copy'.docs = copy.docs \ IsolatedBy(proc.options)
  BY <1>2 DEF StageExclude
<1>5. copy' \in [exists: BOOLEAN, docs: SUBSET Samples]
  BY <1>2 DEF StageExclude
<1>5a. Isolated \subseteq IsolatedBy(proc.options)
  BY DEF IsolatedBy
<1>6. Typed'
  BY <1>1, <1>2, <1>3, <1>4, <1>5 DEF Typed, At
<1>7. Books'
  BY <1>1, <1>2, <1>3, <1>4, <1>5 DEF Books, At
<1>8. Noted'
  BY <1>1, <1>2, <1>3, <1>4, <1>5 DEF Noted
<1>9. Counted'
  BY <1>1, <1>2, <1>3, <1>4, <1>5 DEF Counted, Latest, At
<1>10. Ahead'
  BY <1>1, <1>2, <1>3, <1>4, <1>5 DEF Ahead, At
<1>11. Ground'
  BY <1>1, <1>2, <1>3, <1>4, <1>5, <1>5a DEF Ground, At
<1>12. ResultIsTrue'
  BY <1>1, <1>2, <1>3, <1>4, <1>5 DEF ResultIsTrue
<1> QED BY <1>6, <1>7, <1>8, <1>9, <1>10, <1>11, <1>12

\* Only an invocation whose settings fit goes on to select.
LEMMA LoadStep == Inv /\ Load => Inv'
<1> SUFFICES ASSUME Inv, Load PROVE Inv'
  OBVIOUS
<1> USE DEF Inv
<1>1. UNCHANGED <<rag, settings, config, checkpoint, copy, judged, reported, footings, result, crashes>>
  BY DEF Load, runVars
<1>2. proc.pc = "load" /\ proc \in Invocations /\ checkpoint \in [Samples -> Outcomes]
  BY DEF Load, At, Typed
<1>3. \/ /\ Compatible
         /\ proc' = [proc EXCEPT !.pc = "select", !.items = checkpoint]
      \/ proc' = NoProc
  BY DEF Load
<1>4. proc' \in Invocations
  BY <1>2, <1>3, AtRest DEF Invocations, Places
<1>5. Compatible /\ proc' = [proc EXCEPT !.pc = "select", !.items = checkpoint]
        => /\ Compatible /\ proc'.pc = "select" /\ proc'.items = checkpoint
           /\ proc'.previous = proc.previous /\ proc'.settings = proc.settings
           /\ proc'.row = proc.row /\ proc'.failed = proc.failed
  BY <1>2 DEF Invocations
<1>6. proc' = NoProc => proc'.pc = "idle" /\ (\A s \in Samples : proc'.items[s] = "none") /\ proc'.row = 0
  BY AtRest
<1>7. \/ /\ Compatible /\ proc'.pc = "select" /\ proc'.items = checkpoint
         /\ proc'.previous = proc.previous /\ proc'.settings = proc.settings
         /\ proc'.row = proc.row /\ proc'.failed = proc.failed
      \/ proc'.pc = "idle" /\ (\A s \in Samples : proc'.items[s] = "none") /\ proc'.row = 0
  BY <1>3, <1>5, <1>6
<1>8. Typed'
  BY <1>1, <1>2, <1>4, <1>7 DEF Typed, At
<1>9. Books'
  BY <1>1, <1>2, <1>7 DEF Books, At
<1>10. Noted'
  BY <1>1, <1>7 DEF Noted
<1>11. Counted'
  BY <1>1, <1>2, <1>7 DEF Counted, Latest, At
<1>12. Ahead'
  BY <1>1, <1>7 DEF Ahead, At
<1>13. Ground'
  BY <1>1, <1>2, <1>7 DEF Ground, At, Compatible
<1>14. ResultIsTrue'
  BY <1>1 DEF ResultIsTrue
<1> QED BY <1>8, <1>9, <1>10, <1>11, <1>12, <1>13, <1>14

\* A selection notes the settings it is judged with before anything is judged.
LEMMA SelectStep == Inv /\ Select => Inv'
<1> SUFFICES ASSUME Inv, Select PROVE Inv'
  OBVIOUS
<1> USE DEF Inv
<1>1. UNCHANGED <<rag, settings, checkpoint, copy, judged, reported, footings, crashes>>
  BY DEF Select
<1>2. /\ proc.pc = "select" /\ proc \in Invocations
      /\ config \in Configs /\ checkpoint \in [Samples -> Outcomes]
      /\ proc.settings \in Settings
  BY DEF Select, At, Typed
<1>3. PICK sel : sel = Selection
  OBVIOUS
<1>4. PICK ids : ids = {Rows[n] : n \in sel}
  OBVIOUS
<1>5. sel \in SUBSET (DOMAIN Rows) /\ ids \in SUBSET Samples /\ ids \subseteq Ids
  BY <1>3, <1>4, RowsAreSamples DEF Selection, Ids
<1>6. \/ /\ proc' = NoProc /\ config' = config /\ result' = result
      \/ /\ config' = [selected |-> ids, signature |-> proc.settings]
        /\ proc' = NoProc /\ result' = [NoResult EXCEPT !.status = "dry"]
      \/ /\ config' = [selected |-> ids, signature |-> proc.settings]
        /\ proc' = [proc EXCEPT !.pc = "run", !.selected = ids, !.todo = sel]
        /\ result' = result
  BY <1>3, <1>4 DEF Select, Ends
<1>7. config' \in Configs /\ (config' = config \/ config'.signature = proc.settings)
  BY <1>2, <1>5, <1>6 DEF Configs
<1>8. result' = result \/ result'.status = "dry"
  BY <1>6 DEF NoResult
<1>9. proc' = [proc EXCEPT !.pc = "run", !.selected = ids, !.todo = sel]
       => /\ proc' \in Invocations /\ proc'.pc = "run" /\ proc'.items = proc.items
          /\ proc'.selected = ids /\ proc'.todo = sel /\ proc'.row = proc.row
          /\ proc'.failed = proc.failed /\ proc'.settings = proc.settings
  BY <1>2, <1>5 DEF Invocations, Places
<1>10. Typed'
  BY <1>1, <1>2, <1>6, <1>7, <1>9, AtRest DEF Typed, At
<1>11. Books'
  BY <1>1, <1>2, <1>6, <1>9, AtRest DEF Books, At
<1>12. Noted'
  BY <1>1, <1>6, <1>9, AtRest DEF Noted
<1>13. Counted'
  BY <1>1, <1>2, <1>6, <1>9, AtRest DEF Counted, Latest, At
<1>14. Ahead'
  BY <1>1, <1>2, <1>4, <1>5, <1>6, <1>9, AtRest DEF Ahead, At
<1>15. Ground'
  <2>1. crashes = 0 => \A f \in footings : f[1] = proc.settings
    <3> SUFFICES ASSUME crashes = 0, NEW f \in footings PROVE f[1] = proc.settings
      OBVIOUS
    <3>1. f[1] \in Settings
      BY DEF Typed
    <3>2. f[1] = proc.previous.signature /\ proc.previous.signature \in {0, proc.settings}
      BY <1>2 DEF Ground, Compatible, At
    <3> QED BY <3>1, <3>2, ExperimentAssumption
  <2> QED BY <1>1, <1>2, <1>6, <1>7, <1>9, <2>1, AtRest DEF Ground, At
<1>16. ResultIsTrue'
  BY <1>1, <1>8 DEF ResultIsTrue
<1> QED BY <1>10, <1>11, <1>12, <1>13, <1>14, <1>15, <1>16

\* What is skipped has a report.
LEMMA SkipStep == Inv /\ Skip => Inv'
<1> SUFFICES ASSUME Inv, Skip PROVE Inv'
  OBVIOUS
<1> USE DEF Inv
<1>1. UNCHANGED <<rag, settings, config, checkpoint, copy, judged, reported, footings, result, crashes>>
  BY DEF Skip, runVars
<1>2. proc.pc = "run" /\ proc \in Invocations /\ proc.todo # {} /\ proc.items[Current] = "completed"
  BY DEF Skip, Running, MaySkip, At, Typed
<1>3. Turn \in proc.todo /\ Current \in Samples /\ Current = Rows[Turn]
  BY <1>2, CurrentIsARow
<1>4. Current \in reported
  BY <1>2, <1>3 DEF Noted
<1>5. PICK turn \in proc.todo : turn = Turn
  BY <1>3
<1>6. proc' = [proc EXCEPT !.todo = @ \ {turn}]
  BY <1>5 DEF Skip
<1>7. /\ proc' \in Invocations /\ proc'.pc = "run" /\ proc'.items = proc.items
      /\ proc'.selected = proc.selected /\ proc'.todo = proc.todo \ {turn}
      /\ proc'.settings = proc.settings /\ proc'.row = proc.row /\ proc'.failed = proc.failed
  BY <1>2, <1>6 DEF Invocations, Places
<1>8. Typed'
  BY <1>1, <1>2, <1>3, <1>4, <1>5, <1>6, <1>7 DEF Typed, At
<1>9. Books'
  BY <1>1, <1>2, <1>7 DEF Books, At
<1>10. Noted'
  BY <1>1, <1>7 DEF Noted
<1>11. Counted'
  BY <1>1, <1>2, <1>7 DEF Counted, Latest, At
<1>12. Ahead'
  BY <1>1, <1>2, <1>3, <1>4, <1>5, <1>7 DEF Ahead, At
<1>13. Ground'
  BY <1>1, <1>2, <1>7 DEF Ground, At
<1>14. ResultIsTrue'
  BY <1>1 DEF ResultIsTrue
<1> QED BY <1>8, <1>9, <1>10, <1>11, <1>12, <1>13, <1>14

\* The outcome of a judgement is noted in memory first.
LEMMA JudgeStep == Inv /\ (JudgeFails \/ \E s \in Ids : JudgeOk(s)) => Inv'
<1> SUFFICES ASSUME Inv, (JudgeFails \/ \E s \in Ids : JudgeOk(s)) PROVE Inv'
  OBVIOUS
<1> USE DEF Inv
<1>1. UNCHANGED <<rag, settings, config, checkpoint, copy, result, crashes>>
  BY DEF JudgeFails, JudgeOk
<1>2. PICK outcome \in {"completed", "failed"} :
      /\ Judged(outcome)
      /\ \/ outcome = "failed" /\ judged' = judged
         \/ /\ outcome = "completed" /\ Current \in Ids /\ Stored(Current)
            /\ judged' = [judged EXCEPT ![Current] = @ + 1]
      /\ Stored(Current) \/ UNCHANGED <<reported, footings>>
  BY DEF JudgeFails, JudgeOk
<1>3. /\ proc.pc = "run" /\ proc \in Invocations /\ proc.todo # {}
      /\ proc.items[Current] # "completed" /\ judged \in [Samples -> Nat]
      /\ copy.docs \in SUBSET Samples /\ proc.settings \in Settings
      /\ footings \subseteq Settings \X SUBSET Samples
  BY <1>2 DEF Judged, Running, MaySkip, At, Typed
<1>4. Current \in Samples
  BY <1>3, CurrentIsARow
<1>5. PICK now \in Samples : now = Current
  BY <1>4
<1>5a. /\ \/ reported' = reported /\ footings' = footings
          \/ /\ reported' = reported \cup {now}
             /\ footings' = footings \cup {<<proc.settings, copy.docs>>}
       /\ outcome = "completed" => now \in reported'
  BY <1>2, <1>5 DEF Stored
<1>6. proc' = [proc EXCEPT !.pc = "save", !.items[now] = outcome,
                           !.failed = @ \/ outcome = "failed",
                           !.row = IF outcome = "failed" THEN @ + 1 ELSE 0]
  BY <1>2, <1>5 DEF Judged
<1>7. /\ proc'.pc = "save" /\ proc'.items = [proc.items EXCEPT ![now] = outcome]
      /\ proc'.selected = proc.selected /\ proc'.todo = proc.todo /\ proc'.settings = proc.settings
      /\ proc'.failed = (proc.failed \/ outcome = "failed")
      /\ proc'.row = IF outcome = "failed" THEN proc.row + 1 ELSE 0
  BY <1>3, <1>6 DEF Invocations
<1>8. proc' \in Invocations
  <2>1. PICK its \in [Samples -> Outcomes] : its = [proc.items EXCEPT ![now] = outcome]
    BY <1>2, <1>3 DEF Invocations, Outcomes
  <2>2. PICK fl \in BOOLEAN : fl = (proc.failed \/ outcome = "failed")
    OBVIOUS
  <2>3. PICK rw \in Nat : rw = IF outcome = "failed" THEN proc.row + 1 ELSE 0
    BY <1>3 DEF Invocations
  <2>4. proc' = [proc EXCEPT !.pc = "save", !.items = its, !.failed = fl, !.row = rw]
    BY <1>3, <1>6, <2>1, <2>2, <2>3 DEF Invocations
  <2> QED BY <1>3, <2>4 DEF Invocations, Places
<1>9. Current' = now
  BY <1>5, <1>7 DEF Current, Turn
<1>10. Typed'
  <2>1. footings' \subseteq Settings \X SUBSET Samples /\ reported' \subseteq Samples
    BY <1>3, <1>5a DEF Typed
  <2>2. judged' \in [Samples -> Nat]
    BY <1>2, <1>3
  <2> QED BY <1>1, <1>3, <1>7, <1>8, <2>1, <2>2 DEF Typed, At
<1>11. Books'
  BY <1>1, <1>2, <1>3, <1>5, <1>7, <1>9 DEF Books, At, Invocations
<1>12. Noted'
  BY <1>1, <1>2, <1>3, <1>5, <1>7, <1>5a DEF Noted, Invocations
<1>13. Counted'
  <2> SUFFICES ASSUME NEW s \in Samples
               PROVE judged'[s] <= (IF proc'.items[s] = "completed" THEN 1 ELSE 0) + crashes
    BY <1>1, <1>7 DEF Counted, Latest, At
  <2>1. judged[s] <= (IF proc.items[s] = "completed" THEN 1 ELSE 0) + crashes
    BY <1>3 DEF Counted, Latest, Books, At
  <2>2. judged[s] \in Nat /\ crashes \in Nat /\ proc.items \in [Samples -> Outcomes]
    BY <1>3 DEF Typed, Invocations
  <2>3. CASE s = now
    BY <1>2, <1>3, <1>5, <1>7, <2>1, <2>2, <2>3
  <2>4. CASE s # now
    BY <1>2, <1>3, <1>5, <1>7, <2>1, <2>2, <2>4
  <2> QED BY <2>3, <2>4
<1>14. Ahead'
  <2>1. proc.items \in [Samples -> Outcomes] /\ proc.row \in Nat /\ proc.failed \in BOOLEAN
    BY <1>3 DEF Invocations
  <2>2. (proc'.row > 0 => proc'.failed) /\ proc'.selected \subseteq Ids
    <3>1. outcome = "completed" => proc'.row = 0
      BY <1>7
    <3>2. outcome = "failed" => proc'.failed
      BY <1>7
    <3>3. proc.selected \subseteq Ids
      BY <1>3 DEF Ahead
    <3> QED BY <1>2, <1>7, <3>1, <3>2, <3>3
  <2>3. \A s \in Samples : s \in reported => s \in reported'
    BY <1>5a
  <2>4. ~proc'.failed => /\ outcome = "completed" /\ ~proc.failed
                        /\ proc'.items[Current'] = "completed"
    BY <1>2, <1>7, <1>9, <2>1
  <2>5. ~proc'.failed =>
          \A s \in proc.selected : s \in reported' \/ \E n \in proc.todo : Rows[n] = s
    BY <1>3, <2>3, <2>4, RowsAreSamples DEF Ahead, At
  <2> QED BY <1>7, <2>2, <2>4, <2>5 DEF Ahead, At
<1>15. Ground'
  BY <1>1, <1>2, <1>3, <1>7, <1>5a DEF Ground, At
<1>16. ResultIsTrue'
  BY <1>1 DEF ResultIsTrue
<1> QED BY <1>10, <1>11, <1>12, <1>13, <1>14, <1>15, <1>16

\* The save brings the checkpoint to what is in memory.
LEMMA SaveStep == Inv /\ Save => Inv'
<1> SUFFICES ASSUME Inv, Save PROVE Inv'
  OBVIOUS
<1> USE DEF Inv
<1>1. UNCHANGED <<rag, settings, config, copy, judged, reported, footings, result, crashes>>
  BY DEF Save
<1>2. proc.pc = "save" /\ proc \in Invocations /\ checkpoint' = proc.items /\ proc.todo # {}
  BY DEF Save, At, Typed, Books
<1>3. Turn \in proc.todo /\ Current \in Samples /\ Current = Rows[Turn]
  BY <1>2, CurrentIsARow
<1>4. PICK turn \in proc.todo : turn = Turn
  BY <1>3
<1>5. PICK next \in {"finish", "run"} : next = IF proc.row >= MaxRow THEN "finish" ELSE "run"
  OBVIOUS
<1>6. proc' = NoProc \/ proc' = [proc EXCEPT !.todo = @ \ {turn}, !.pc = next]
  BY <1>4, <1>5 DEF Save
<1>7. proc' = [proc EXCEPT !.todo = @ \ {turn}, !.pc = next]
      => /\ proc'.pc = next /\ proc'.items = proc.items /\ proc'.settings = proc.settings
        /\ proc'.selected = proc.selected /\ proc'.todo = proc.todo \ {turn}
        /\ proc'.row = proc.row /\ proc'.failed = proc.failed
  BY <1>2 DEF Invocations
<1>8. proc' \in Invocations
  <2>1. CASE proc' = NoProc
    BY <2>1, AtRest
  <2>2. CASE proc' # NoProc
    <3>1. PICK left \in SUBSET (DOMAIN Rows) : left = proc.todo \ {turn}
      BY <1>2 DEF Invocations
    <3>2. next \in Places
      BY <1>5 DEF Places
    <3>3. proc' = [proc EXCEPT !.todo = left, !.pc = next]
      BY <1>2, <1>6, <2>2, <3>1 DEF Invocations
    <3> QED BY <1>2, <3>2, <3>3 DEF Invocations
  <2> QED BY <2>1, <2>2
<1>9. proc.items \in [Samples -> Outcomes]
  BY <1>2 DEF Invocations
<1>10. Typed'
  BY <1>1, <1>2, <1>6, <1>7, <1>8, <1>9, AtRest DEF Typed, At
<1>11. Books'
  BY <1>2, <1>6, <1>7, AtRest DEF Books, At
<1>12. Noted'
  BY <1>1, <1>2, <1>6, <1>7, AtRest DEF Noted
<1>13. Counted'
  BY <1>1, <1>2, <1>6, <1>7, AtRest DEF Counted, Latest, At
<1>14. Ahead'
  <2>1. CASE proc' = NoProc
    BY <2>1, AtRest DEF Ahead, At
  <2>2. CASE proc' # NoProc
    <3>1. /\ (proc'.row > 0 => proc'.failed) /\ proc'.selected \subseteq Ids
          /\ (next = "finish" => proc'.failed)
      BY <1>2, <1>5, <1>6, <1>7, <2>2, ExperimentAssumption DEF Ahead, Invocations
    <3>2. ~proc.failed => Current \in reported
      BY <1>2, <1>3 DEF Ahead, Noted, At
    <3>3. ~proc.failed =>
            \A s \in proc.selected : s \in reported \/ \E n \in proc.todo \ {turn} : Rows[n] = s
      BY <1>2, <1>3, <1>4, <3>2 DEF Ahead, At
    <3> QED BY <1>1, <1>6, <1>7, <2>2, <3>1, <3>3 DEF Ahead, At
  <2> QED BY <2>1, <2>2
<1>15. Ground'
  BY <1>1, <1>2, <1>6, <1>7, AtRest DEF Ground, At
<1>16. ResultIsTrue'
  BY <1>1 DEF ResultIsTrue
<1> QED BY <1>10, <1>11, <1>12, <1>13, <1>14, <1>15, <1>16

\* The result of a run without a failure has a report for each selected sample.
LEMMA FinishStep == Inv /\ Finish => Inv'
<1> SUFFICES ASSUME Inv, Finish PROVE Inv'
  OBVIOUS
<1> USE DEF Inv
<1>1. UNCHANGED <<rag, settings, config, checkpoint, copy, judged, reported, footings, crashes>>
  BY DEF Finish
<1>2. proc.pc = "finish" \/ (proc.pc = "run" /\ proc.todo = {})
  BY DEF Finish, At
<1>3. proc' = NoProc
  BY DEF Finish, Ends
<1>4. result' = [status |-> Status, ids |-> proc.selected, evaluated |-> Evaluated]
  BY DEF Finish
<1>5. proc.selected \subseteq Ids
  BY <1>2 DEF Ahead
<1>6. Typed'
  BY <1>1, <1>3, AtRest DEF Typed, At
<1>7. Books'
  BY <1>3, AtRest DEF Books, At
<1>8. Noted'
  BY <1>1, <1>3, AtRest DEF Noted
<1>9. Counted'
  BY <1>1, <1>2, <1>3, AtRest DEF Counted, Latest, At
<1>10. Ahead'
  BY <1>3, AtRest DEF Ahead, At
<1>11. Ground'
  BY <1>1, <1>2, <1>3, AtRest DEF Ground, At
<1>12. ResultIsTrue'
  <2> SUFFICES ASSUME result'.status = "completed" PROVE result'.ids \subseteq result'.evaluated
    BY DEF ResultIsTrue
  <2>1. ~proc.failed
    BY <1>4 DEF Status
  <2>2. \A s \in proc.selected : s \in reported
    BY <1>2, <2>1 DEF Ahead, At
  <2> QED BY <1>4, <1>5, <2>2 DEF Evaluated
<1> QED BY <1>6, <1>7, <1>8, <1>9, <1>10, <1>11, <1>12

\* A process that dies loses at most the file it is writing.
LEMMA CrashStep == Inv /\ Crash => Inv'
<1> SUFFICES ASSUME Inv, Crash PROVE Inv'
  OBVIOUS
<1> USE DEF Inv
<1>1. UNCHANGED <<rag, settings, judged, reported, footings, result>>
  BY DEF Crash
<1>2. proc.pc # "idle" /\ proc' = NoProc /\ crashes \in Nat /\ crashes' = crashes + 1
  BY DEF Crash, At, Ends, Typed
<1>3. \/ copy' = copy /\ config' = config /\ checkpoint' = checkpoint
      \/ /\ proc.pc = "stage" /\ ~copy.exists /\ copy' = [NoCopy EXCEPT !.exists = TRUE]
        /\ config' = config /\ checkpoint' = checkpoint
      \/ /\ proc.pc = "select" /\ config' = NoConfig /\ copy' = copy /\ checkpoint' = checkpoint
      \/ /\ proc.pc = "save" /\ checkpoint' = NoItems /\ copy' = copy /\ config' = config
  BY DEF Crash, At
<1>4. copy' = copy \/ copy' = [NoCopy EXCEPT !.exists = TRUE]
  BY <1>3
<1>5. copy' \in [exists: BOOLEAN, docs: SUBSET Samples]
      /\ (copy' = copy \/ (copy'.exists /\ copy'.docs = {}))
  <2>1. NoCopy \in [exists: BOOLEAN, docs: SUBSET Samples] /\ NoCopy.docs = {}
    BY DEF NoCopy
  <2>2. copy \in [exists: BOOLEAN, docs: SUBSET Samples]
    BY DEF Typed
  <2> QED BY <1>4, <2>1, <2>2
<1>6. NoConfig \in Configs /\ NoItems \in [Samples -> Outcomes] /\ \A s \in Samples : NoItems[s] = "none"
  BY DEF NoConfig, Configs, NoItems, Outcomes
<1>7. Typed'
  <2>1. proc' \in Invocations /\ proc'.pc = "idle"
    BY <1>2, AtRest
  <2>2. config' \in Configs /\ checkpoint' \in [Samples -> Outcomes]
    BY <1>3, <1>6 DEF Typed
  <2> QED BY <1>1, <1>2, <1>5, <2>1, <2>2 DEF Typed, At
<1>8. Books'
  BY <1>2, AtRest DEF Books, At
<1>9. Noted'
  BY <1>1, <1>2, <1>3, <1>6, AtRest DEF Noted
<1>10. Counted'
  <2> SUFFICES ASSUME NEW s \in Samples
               PROVE judged'[s] <= (IF checkpoint'[s] = "completed" THEN 1 ELSE 0) + crashes'
    BY <1>2, AtRest DEF Counted, Latest, At
  <2>1. judged[s] \in Nat
    BY DEF Typed
  <2>2. judged[s] <= (IF Latest[s] = "completed" THEN 1 ELSE 0) + crashes
    BY DEF Counted
  <2> QED BY <1>1, <1>2, <2>1, <2>2
<1>11. Ahead'
  BY <1>2, AtRest DEF Ahead, At
<1>12. Ground'
  BY <1>1, <1>2, <1>3, <1>5, AtRest DEF Ground, At
<1>13. ResultIsTrue'
  BY <1>1 DEF ResultIsTrue
<1> QED BY <1>7, <1>8, <1>9, <1>10, <1>11, <1>12, <1>13

LEMMA InvStep == Inv /\ [Next]_vars => Inv'
<1> SUFFICES ASSUME Inv, [Next]_vars PROVE Inv'
  OBVIOUS
<1>1. CASE UNCHANGED vars
  BY <1>1 DEF vars, runVars, Inv, Typed, Books, Noted, Counted, Latest, Ahead, Ground,
              ResultIsTrue, At, Current, Turn, Compatible
<1>2. CASE Next
  BY <1>2, Outside, BeginStep, StageStep, ExcludeStep, LoadStep, SelectStep, SkipStep,
     JudgeStep, SaveStep, FinishStep, CrashStep DEF Next, Step
<1> QED BY <1>1, <1>2

LEMMA InvHolds == Spec => []Inv
BY InvInit, InvStep, PTL DEF Spec

\* No sample is skipped as completed without a report: whatever the options, the
\* failures and the moments at which processes die, the checkpoint of a run-id calls
\* completed only what is in the run's database.
THEOREM Reported == Spec => []CompletedIsReported
<1>1. Inv => CompletedIsReported
  BY DEF Inv, Noted, CompletedIsReported
<1> QED BY <1>1, InvHolds, PTL

\* Over all invocations of a run-id each sample is judged well once, and at most once
\* more for each process that died.
THEOREM CountsOnce == Spec => []JudgedOnce
<1>1. Inv => JudgedOnce
  <2> SUFFICES ASSUME Inv, NEW s \in Samples PROVE judged[s] <= 1 + crashes
    BY DEF JudgedOnce
  <2>1. judged[s] \in Nat /\ crashes \in Nat
    BY DEF Inv, Typed
  <2>2. judged[s] <= (IF Latest[s] = "completed" THEN 1 ELSE 0) + crashes
    BY DEF Inv, Counted
  <2> QED BY <2>1, <2>2
<1> QED BY <1>1, InvHolds, PTL

\* result.json never says completed beside a scorecard that lacks a sample of its
\* selection, also after resuming, replaying or being ended by failures in a row.
THEOREM ResultHolds == Spec => []ResultIsTrue
<1>1. Inv => ResultIsTrue
  BY DEF Inv
<1> QED BY <1>1, InvHolds, PTL

\* All reports of a run-id are made with one corpus, whatever ids its invocations ask
\* for, and as long as no process died with one choice of settings and without a
\* document of a sample of the run's --isolation-sample-id-file.
THEOREM OneCorpus == Spec => []OneFooting
<1>1. Inv => OneFooting
  BY DEF Inv, Ground, OneFooting, At
<1> QED BY <1>1, InvHolds, PTL
=============================================================================
