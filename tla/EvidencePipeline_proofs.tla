----------------------- MODULE EvidencePipeline_proofs -----------------------
(***************************************************************************)
(* The scripts agree with each other about what the reports say, and a     *)
(* validated release was audited on reports of its own, for every tree,    *)
(* every measurement and any number of events.                             *)
(***************************************************************************)
EXTENDS EvidencePipeline, TLAPS

(* For one commit, the reason names freshness exactly when it is fresh.    *)
LEMMA ReasonOfCommit ==
    ASSUME NEW c
    PROVE  ("runtime" \notin WorktreeChanges /\ (c = head \/ "tree" \notin ChangedSince(c)))
           <=> FreshnessReason(c) \in {"matching_head", "ignored_changes_only",
                                       "no_runtime_relevant_changes_since_evidence"}
<1>1. CASE "runtime" \in WorktreeChanges
    BY <1>1 DEF FreshnessReason
<1>2. CASE "runtime" \notin WorktreeChanges /\ c = head
    BY <1>2 DEF FreshnessReason
<1>3. CASE "runtime" \notin WorktreeChanges /\ c # head /\ "tree" \in ChangedSince(c)
    BY <1>3 DEF FreshnessReason
<1>4. CASE "runtime" \notin WorktreeChanges /\ c # head /\ "tree" \notin ChangedSince(c)
    BY <1>4 DEF FreshnessReason
<1> QED
    BY <1>1, <1>2, <1>3, <1>4

(* evidence_fresh_for_head and _freshness_reason never contradict each     *)
(* other, through edits, commits and a rewritten history.                  *)
THEOREM ReasonAlwaysAgrees == Spec => []ReasonAgrees
<1>1. ReasonAgrees
    BY ReasonOfCommit DEF ReasonAgrees, EvidenceFresh
<1> QED
    BY <1>1, PTL

(* What the headless audit requires of the simulated scope is at least     *)
(* what the operational audit requires.                                    *)
LEMMA ScopesAlwaysAgree == ScopesAgree
<1> SUFFICES ASSUME AllPassed(HeadlessCriteria),
                    NEW c \in DOMAIN OperationalCriteria \ HardwareScope
             PROVE  OperationalCriteria[c]
    BY DEF ScopesAgree, HeadlessScopeReady
<1>1. c \in {"docs_build_run", "core_pipeline_3d_sim", "v2_gazebo_stack",
             "core_pipeline_repeatability", "v3_v6_mapping_review", "v5_obstacle",
             "v5_obstacle_bag_replay"}
    BY DEF OperationalCriteria, HardwareScope
<1>2. /\ HeadlessCriteria["core_readiness_no_skip"]
      /\ HeadlessCriteria["v2_gazebo_stack"]
      /\ HeadlessCriteria["v3_v6_mapping_review"]
      /\ HeadlessCriteria["core_pipeline_repeatability"]
      /\ HeadlessCriteria["v5_obstacle"]
      /\ HeadlessCriteria["v5_recorded_obstacle_replay"]
    BY DEF AllPassed, HeadlessCriteria
<1>3. /\ NoSkip
      /\ NoSkip /\ index["v2_lidar_bag"] # {}
      /\ SemanticPassed
      /\ RepeatPassed
      /\ ObstaclePassed
      /\ Passed(Evidence("v5_replay"))
    BY <1>2 DEF HeadlessCriteria
<1>4. ReadinessPassed
    BY <1>3 DEF NoSkip, ReadinessPassed, Passed
<1>5. /\ OperationalCriteria["docs_build_run"]
      /\ OperationalCriteria["core_pipeline_3d_sim"]
      /\ OperationalCriteria["v2_gazebo_stack"]
      /\ OperationalCriteria["core_pipeline_repeatability"]
      /\ OperationalCriteria["v3_v6_mapping_review"]
      /\ OperationalCriteria["v5_obstacle"]
      /\ OperationalCriteria["v5_obstacle_bag_replay"]
    BY <1>3, <1>4 DEF OperationalCriteria
<1> QED
    BY <1>1, <1>5

LEMMA NeverCalledSafe == ~OperationalAudit.safe /\ ~OperationalAudit.achieved
    BY DEF OperationalAudit, SafeToEnable

(* No step but the operational audit writes an operational audit.          *)
LEMMA OperationalStep ==
    ASSUME [Next]_evidenceVars
    PROVE  operational' = operational \/ operational' = {OperationalAudit}
<1>1. CASE RunCheck
    BY <1>1, Zenon DEF RunCheck
<1>2. CASE RunAudit
    BY <1>2, Zenon DEF RunAudit, RunHeadlessAudit, RunOperationalAudit
<1>3. CASE EditFiles \/ Commit \/ StartRelease \/ FinishRelease \/ Interrupt
    BY <1>3, Zenon DEF EditFiles, Commit, StartRelease, FinishRelease, Interrupt
<1>4. CASE ReleaseStep
    BY <1>4, Zenon DEF ReleaseStep, RunHeadlessAudit, RunOperationalAudit
<1>5. CASE UNCHANGED evidenceVars
    BY <1>5 DEF evidenceVars
<1> QED
    BY <1>1, <1>2, <1>3, <1>4, <1>5 DEF Next

(* The audits agree on the simulated scope, and none of them ever calls    *)
(* actuation safe, whatever reports and devices there are.                 *)
THEOREM AuditsAlwaysAgree == Spec => []AuditsAgree
<1>1. Init => NeverSafe
    BY DEF Init, NeverSafe
<1>2. NeverSafe /\ [Next]_evidenceVars => NeverSafe'
    BY OperationalStep, NeverCalledSafe DEF NeverSafe
<1>3. NeverSafe => AuditsAgree
    BY ScopesAlwaysAgree DEF AuditsAgree
<1> QED
    BY <1>1, <1>2, <1>3, PTL DEF Spec

-----------------------------------------------------------------------------
(* A validated release was audited on its own reports.                     *)

AllCurrent(reports) == \A r \in reports : r.current

Audited == {"readiness", Flow, Repeat, "embedded_dry_run"}

IsFiles(files) == files = [k \in Kinds |-> files[k]]

(* A check leaves each kind as it was or with a report of its own, and the *)
(* index as it was or with copies of the newest.                           *)
FreshStep ==
    /\ IsFiles(newest')
    /\ \A k \in Kinds : newest'[k] = newest[k] \/ AllCurrent(newest'[k])
    /\ index' = index \/ index' = [k \in Kinds |-> newest'[k]]

LEMMA AuditedKinds == Audited \subseteq Kinds
    BY DEF Audited, Kinds

LEMMA ReportIsCurrent ==
    ASSUME NEW ok, NEW full, NEW runs
    PROVE  Report(ok, full, runs).current = TRUE
    BY DEF Report

LEMMA WriteReportFresh ==
    ASSUME NEW k \in Kinds, NEW report, report.current = TRUE,
           IsFiles(newest), WriteReport(k, report)
    PROVE  FreshStep /\ AllCurrent(newest'[k])
<1>1. newest' = [newest EXCEPT ![k] = {report}]
    BY DEF WriteReport, Write
<1>2. DOMAIN newest = Kinds
    BY DEF IsFiles
<1>3. \A j \in Kinds : newest'[j] = IF j = k THEN {report} ELSE newest[j]
    BY <1>1, <1>2
<1>4. IsFiles(newest')
    BY <1>1, <1>2 DEF IsFiles
<1>5. AllCurrent({report})
    BY DEF AllCurrent
<1>6. index' = index
    BY DEF WriteReport
<1> QED
    BY <1>3, <1>4, <1>5, <1>6 DEF FreshStep

LEMMA RepeatabilityFresh ==
    ASSUME NEW runs, IsFiles(newest), Repeatability(runs)
    PROVE  /\ FreshStep
           /\ RepeatValid(runs) => AllCurrent(newest'[Repeat])
<1>1. Flow \in Kinds /\ Repeat \in Kinds /\ Flow # Repeat
    BY DEF Flow, Repeat, Kinds
<1>2. CASE runs = << >>
  <2>1. WriteReport(Flow, Report(FALSE, TRUE, << >>))
      BY <1>2 DEF Repeatability
  <2>2. FreshStep
      BY <2>1, <1>1, ReportIsCurrent, WriteReportFresh
  <2>3. ~RepeatValid(runs)
      BY <1>2, EvidenceAssumption DEF RepeatValid, EvidenceAssumption
  <2> QED
      BY <2>2, <2>3
<1>3. CASE runs # << >>
  <2> DEFINE good == Report(TRUE, TRUE, << >>)
             report == Report(RepeatValid(runs), TRUE, runs)
  <2>1. /\ newest' = [[newest EXCEPT ![Flow] = {good}] EXCEPT ![Repeat] = {report}]
        /\ index' = index
      BY <1>3 DEF Repeatability, Write
  <2>2. AllCurrent({good}) /\ AllCurrent({report})
      BY ReportIsCurrent DEF AllCurrent
  <2> HIDE DEF good, report
  <2>3. DOMAIN newest = Kinds
      BY DEF IsFiles
  <2>4. \A j \in Kinds :
           newest'[j] = IF j = Repeat THEN {report} ELSE IF j = Flow THEN {good} ELSE newest[j]
      BY <1>1, <2>1, <2>3
  <2>5. IsFiles(newest')
      BY <2>1, <2>3 DEF IsFiles
  <2> QED
      BY <1>1, <2>1, <2>2, <2>4, <2>5 DEF FreshStep
<1> QED
    BY <1>2, <1>3

LEMMA CoreReadinessFresh ==
    ASSUME NEW ok, NEW skipped, NEW reached, CoreReadiness(ok, skipped, reached)
    PROVE  /\ FreshStep
           /\ AllCurrent(newest'["readiness"])
           /\ index' = [k \in Kinds |-> newest'[k]]
<1> DEFINE report == Report(ok, skipped = {}, << >>)
           ran == {SimChecks[i] : i \in 1 .. reached} \ skipped
           failed == {SimChecks[i] : i \in {reached + 1} \cap DOMAIN SimChecks}
                     \cap (FailureReported \ skipped)
           after == [k \in Kinds |->
                       IF k = "readiness" THEN {report}
                       ELSE IF k = "v3_compare" /\ newest["v3_manifest"] = {} THEN newest[k]
                       ELSE IF k \in ran THEN {Report(TRUE, TRUE, << >>)}
                       ELSE IF k \in failed THEN {Report(FALSE, TRUE, << >>)}
                       ELSE newest[k]]
<1>1. newest' = after /\ index' = GenerateIndex(after)
    BY DEF CoreReadiness
<1>2. AllCurrent({report}) /\ AllCurrent({Report(TRUE, TRUE, << >>)})
      /\ AllCurrent({Report(FALSE, TRUE, << >>)})
  <2>1. report.current = TRUE
      BY DEF Report
  <2> HIDE DEF report
  <2> QED
      BY <2>1, ReportIsCurrent DEF AllCurrent
<1> HIDE DEF report, ran, failed
<1>3. \A k \in Kinds : after[k] \in {newest[k], {report}, {Report(TRUE, TRUE, << >>)},
                                     {Report(FALSE, TRUE, << >>)}}
    OBVIOUS
<1>4. "readiness" \in Kinds /\ after["readiness"] = {report}
    BY DEF Kinds
<1>5. IsFiles(after)
    BY DEF IsFiles
<1> HIDE DEF after
<1>6. index' = [k \in Kinds |-> newest'[k]]
    BY <1>1 DEF GenerateIndex
<1>7. \A k \in Kinds : newest'[k] = newest[k] \/ AllCurrent(newest'[k])
    BY <1>1, <1>2, <1>3, Zenon
<1> QED
    BY <1>1, <1>2, <1>4, <1>5, <1>6, <1>7 DEF FreshStep

(* A script that ends well leaves a report of its own of the kinds that    *)
(* the audit asks the date of.                                             *)
LEMMA ScriptFresh ==
    ASSUME NEW name, NEW ok \in BOOLEAN, IsFiles(newest), Script(name, ok)
    PROVE  /\ FreshStep
           /\ name = "embedded_dry_run" => AllCurrent(newest'["embedded_dry_run"])
           /\ name = Flow => AllCurrent(newest'[Flow])
           /\ name = Repeat /\ ok => AllCurrent(newest'[Repeat])
           /\ name = "core_readiness_report" =>
                 /\ AllCurrent(newest'["readiness"])
                 /\ index' = [k \in Kinds |-> newest'[k]]
<1> USE DEF Flow, Repeat
<1>1. {"bootstrap_doctor", "branch_policy", Flow, "embedded_dry_run"} \subseteq Kinds
    BY DEF Kinds
<1>2. CASE name \in {"bootstrap_doctor", "branch_policy", Flow}
           /\ WriteReport(name, Report(ok, TRUE, << >>))
    BY <1>1, <1>2, ReportIsCurrent, WriteReportFresh
<1>3. CASE name = "embedded_dry_run" /\ \E tests \in BOOLEAN : EmbeddedDryRun(tests, ok)
    BY <1>1, <1>3, ReportIsCurrent, WriteReportFresh DEF EmbeddedDryRun
<1>4. CASE name = Repeat
           /\ \E runs \in {<< >>} \cup Samples : Repeatability(runs) /\ ok = RepeatValid(runs)
    BY <1>4, RepeatabilityFresh
<1>5. CASE name = "core_readiness_report"
           /\ \E skipped \in Skips, reached \in Progress \cup {Len(SimChecks)} :
                 (ok => reached = Len(SimChecks)) /\ CoreReadiness(ok, skipped, reached)
    BY <1>5, CoreReadinessFresh
<1>6. CASE name \in {"documented_commands", "architecture_contracts", "host_policy"}
           /\ UNCHANGED <<newest, link, index>>
    BY <1>6 DEF FreshStep
<1> QED
    BY <1>2, <1>3, <1>4, <1>5, <1>6 DEF Script

(* While a run goes well and makes its own evidence, what its steps have   *)
(* written stays younger than the run, whatever else is run beside it.     *)
RunCurrent ==
    ~run.failed /\ ~run.reused =>
       /\ run.at > 2 => AllCurrent(newest["embedded_dry_run"])
       /\ run.at > 7 => AllCurrent(newest[Flow])
       /\ run.at > 8 => AllCurrent(newest[Repeat])
       /\ run.at > 9 => \A k \in Audited : AllCurrent(newest[k]) /\ AllCurrent(index[k])
       /\ run.at > 10 => \A a \in headless : a.current

(* A failed run has no step left.                                          *)
RunTypeOK ==
    /\ run \in [at : 0 .. 12, failed : BOOLEAN, reused : BOOLEAN]
    /\ run.failed => run.at > 11

OwnEvidence ==
    /\ IsFiles(newest)
    /\ RunTypeOK
    /\ RunCurrent
    /\ ValidatedIsThisRun

(* A step of the scripts keeps what the run has written so far.            *)
LEMMA FreshKeepsRun ==
    ASSUME RunTypeOK, RunCurrent, FreshStep, UNCHANGED <<run, headless>>
    PROVE  RunCurrent'
<1> USE AuditedKinds
<1>1. "embedded_dry_run" \in Kinds /\ Flow \in Kinds /\ Repeat \in Kinds
    BY DEF Kinds, Flow, Repeat
<1>2. \A k \in Kinds : AllCurrent(newest[k]) => AllCurrent(newest'[k])
    BY DEF FreshStep
<1>3. \A k \in Audited : AllCurrent(newest[k]) /\ AllCurrent(index[k])
                           => AllCurrent(newest'[k]) /\ AllCurrent(index'[k])
    BY <1>2 DEF FreshStep
<1> QED
    BY <1>1, <1>2, <1>3 DEF RunCurrent

(* An audit made when the four reports and their copies are young says so. *)
LEMMA AuditIsCurrent ==
    ASSUME \A k \in Audited : AllCurrent(newest[k]) /\ AllCurrent(index[k])
    PROVE  HeadlessAudit.current
<1>1. \A k \in Audited : AllCurrent(Evidence(k))
    BY DEF Evidence
<1>2. \A k \in {"readiness", Flow, Repeat, "embedded_dry_run"} :
          \A r \in Evidence(k) : r.current
    BY <1>1 DEF Audited, AllCurrent
<1> QED
    BY <1>2, Zenon DEF HeadlessAudit

LEMMA AuditKeepsRun ==
    ASSUME RunTypeOK, RunCurrent, RunHeadlessAudit, UNCHANGED <<run, newest, index>>
    PROVE  RunCurrent'
<1> SUFFICES ASSUME ~run.failed, ~run.reused
             PROVE  /\ run.at > 2 => AllCurrent(newest["embedded_dry_run"])
                    /\ run.at > 7 => AllCurrent(newest[Flow])
                    /\ run.at > 8 => AllCurrent(newest[Repeat])
                    /\ run.at > 9 => \A k \in Audited :
                                        AllCurrent(newest[k]) /\ AllCurrent(index[k])
                    /\ run.at > 10 => \A a \in headless' : a.current
    BY DEF RunCurrent, AllCurrent
<1>1. ASSUME run.at > 10
      PROVE  \A a \in headless' : a.current
  <2>1. run.at > 9
      BY <1>1 DEF RunTypeOK
  <2>2. HeadlessAudit.current
      BY <2>1, AuditIsCurrent DEF RunCurrent
  <2> QED
      BY <2>2 DEF RunHeadlessAudit
<1> QED
    BY <1>1 DEF RunCurrent

LEMMA RunUpdated ==
    ASSUME NEW r \in [at : 0 .. 12, failed : BOOLEAN, reused : BOOLEAN],
           NEW at \in 0 .. 12, NEW bad \in BOOLEAN
    PROVE  [r EXCEPT !.at = at, !.failed = bad]
              \in [at : 0 .. 12, failed : BOOLEAN, reused : BOOLEAN]
    BY Zenon

LEMMA StepNames ==
    /\ DOMAIN Steps = 1 .. 11 /\ Len(Steps) = 11
    /\ Steps[2] = "embedded_dry_run" /\ Steps[7] = Flow /\ Steps[8] = Repeat
    /\ Steps[9] = "core_readiness_report"
    /\ \A i \in 1 .. 11 : /\ Steps[i] = "headless_readiness_audit" <=> i = 10
                          /\ Steps[i] = "operational_readiness_audit" <=> i = 11
    BY DEF Steps, Flow, Repeat

(* A step of the release run that is a script.                             *)
LEMMA ScriptStepKeepsRun ==
    ASSUME IsFiles(newest), RunTypeOK, RunCurrent, run.at \in 1 .. 11, NEW ok \in BOOLEAN,
           Script(Steps[run.at], ok),
           run' = [run EXCEPT !.at = IF ok THEN @ + 1 ELSE 12, !.failed = ~ok],
           UNCHANGED headless
    PROVE  RunTypeOK' /\ RunCurrent'
<1>1. CASE ~ok
  <2>1. run' = [run EXCEPT !.at = 12, !.failed = TRUE]
      BY <1>1
  <2>2. run'.failed = TRUE /\ run'.at = 12
      BY <2>1 DEF RunTypeOK
  <2>3. run' \in [at : 0 .. 12, failed : BOOLEAN, reused : BOOLEAN]
    <3>1. 12 \in 0 .. 12 /\ TRUE \in BOOLEAN
        OBVIOUS
    <3> QED
        BY <2>1, <3>1, RunUpdated, Zenon DEF RunTypeOK
  <2> QED
      BY <2>2, <2>3 DEF RunCurrent, RunTypeOK
<1>2. CASE ok
  <2>1. run' = [run EXCEPT !.at = run.at + 1, !.failed = FALSE]
      BY <1>2
  <2>2. ~run.failed
      BY DEF RunTypeOK
  <2>3. run'.at = run.at + 1 /\ run'.reused = run.reused /\ RunTypeOK'
    <3>1. run'.at = run.at + 1 /\ run'.reused = run.reused /\ run'.failed = FALSE
        BY <2>1 DEF RunTypeOK
    <3>2. run' \in [at : 0 .. 12, failed : BOOLEAN, reused : BOOLEAN]
      <4>1. run.at + 1 \in 0 .. 12 /\ FALSE \in BOOLEAN
          OBVIOUS
      <4> QED
          BY <2>1, <4>1, RunUpdated, Zenon DEF RunTypeOK
    <3> QED
        BY <3>1, <3>2 DEF RunTypeOK
  <2>4. /\ FreshStep
        /\ run.at = 2 => AllCurrent(newest'["embedded_dry_run"])
        /\ run.at = 7 => AllCurrent(newest'[Flow])
        /\ run.at = 8 => AllCurrent(newest'[Repeat])
        /\ run.at = 9 => /\ AllCurrent(newest'["readiness"])
                         /\ index' = [k \in Kinds |-> newest'[k]]
      BY <1>2, ScriptFresh, StepNames
  <2>5. SUFFICES ASSUME ~run.reused
                 PROVE  RunCurrent'
      BY <2>3 DEF RunCurrent
  <2>6. \A k \in Kinds : AllCurrent(newest[k]) => AllCurrent(newest'[k])
      BY <2>4 DEF FreshStep
  <2>7. "embedded_dry_run" \in Kinds /\ Flow \in Kinds /\ Repeat \in Kinds
      BY DEF Kinds, Flow, Repeat
  <2>8. run.at \in Int
      OBVIOUS
  <2>9. run.at >= 2 => AllCurrent(newest'["embedded_dry_run"])
    <3>1. run.at > 2 => AllCurrent(newest["embedded_dry_run"])
        BY <2>2, <2>5 DEF RunCurrent
    <3> QED
        BY <3>1, <2>4, <2>6, <2>7, <2>8
  <2>10. run.at >= 7 => AllCurrent(newest'[Flow])
    <3>1. run.at > 7 => AllCurrent(newest[Flow])
        BY <2>2, <2>5 DEF RunCurrent
    <3> QED
        BY <3>1, <2>4, <2>6, <2>7, <2>8
  <2>11. run.at >= 8 => AllCurrent(newest'[Repeat])
    <3>1. run.at > 8 => AllCurrent(newest[Repeat])
        BY <2>2, <2>5 DEF RunCurrent
    <3> QED
        BY <3>1, <2>4, <2>6, <2>7, <2>8
  <2>12. ASSUME run.at = 9
         PROVE  \A k \in Audited : AllCurrent(newest'[k]) /\ AllCurrent(index'[k])
    <3>1. \A k \in Audited : AllCurrent(newest'[k])
        BY <2>4, <2>9, <2>10, <2>11, <2>12 DEF Audited
    <3> QED
        BY <3>1, <2>4, <2>12, AuditedKinds
  <2>13. ASSUME run.at > 9
         PROVE  \A k \in Audited : AllCurrent(newest'[k]) /\ AllCurrent(index'[k])
    <3>1. \A k \in Audited : AllCurrent(newest[k]) /\ AllCurrent(index[k])
        BY <2>2, <2>5, <2>13 DEF RunCurrent
    <3> QED
        BY <3>1, <2>4, <2>6, AuditedKinds DEF FreshStep
  <2>14. run.at # 10 /\ run.at # 11
      BY StepNames DEF Script, Flow, Repeat
  <2> QED
      BY <2>3, <2>8, <2>9, <2>10, <2>11, <2>12, <2>13, <2>14 DEF RunCurrent
<1> QED
    BY <1>1, <1>2

(* A step of the release run that is an audit.                             *)
LEMMA AuditStepKeepsRun ==
    ASSUME RunTypeOK, RunCurrent, run.at \in 1 .. 11,
           \/ Steps[run.at] = "headless_readiness_audit" /\ RunHeadlessAudit
           \/ Steps[run.at] = "operational_readiness_audit" /\ RunOperationalAudit,
           run' = [run EXCEPT !.at = @ + 1], UNCHANGED <<newest, index>>
    PROVE  RunTypeOK' /\ RunCurrent'
<1>1. ~run.failed
    BY DEF RunTypeOK
<1>2. /\ run'.at = run.at + 1 /\ run'.reused = run.reused /\ run'.failed = run.failed
      /\ RunTypeOK'
    BY <1>1 DEF RunTypeOK
<1>3. SUFFICES ASSUME ~run.reused
               PROVE  RunCurrent'
    BY <1>2 DEF RunCurrent
<1>4. /\ run.at > 9
      /\ \A k \in Audited : AllCurrent(newest[k]) /\ AllCurrent(index[k])
    BY <1>1, <1>3, StepNames DEF RunCurrent
<1>5. \A a \in headless' : a.current
  <2>1. CASE RunHeadlessAudit
      BY <2>1, <1>4, AuditIsCurrent DEF RunHeadlessAudit
  <2>2. CASE run.at = 11 /\ RunOperationalAudit
      BY <2>2, <1>1, <1>3 DEF RunCurrent, RunOperationalAudit
  <2> QED
      BY <2>1, <2>2, StepNames
<1>6. /\ AllCurrent(newest["embedded_dry_run"]) /\ AllCurrent(newest[Flow])
      /\ AllCurrent(newest[Repeat])
    BY <1>4 DEF Audited
<1> QED
    BY <1>4, <1>5, <1>6 DEF RunCurrent

(* What validation passes has no failed step.                              *)
LEMMA FinishKeepsValidated ==
    ASSUME RunTypeOK, RunCurrent, FinishRelease
    PROVE  ValidatedIsThisRun'
<1>1. SUFFICES ASSUME StatusReady'
               PROVE  run.reused \/ \A a \in headless : a.current
  <2> DEFINE report == [reused |-> run.reused, current |-> \A a \in headless : a.current]
  <2>1. validated' = {} \/ (StatusReady' /\ validated' = {report})
      BY Zenon DEF FinishRelease
  <2>2. CASE validated' = {}
      BY <2>2 DEF ValidatedIsThisRun
  <2>3. CASE StatusReady' /\ validated' = {report}
    <3>1. run.reused \/ \A a \in headless : a.current
        BY <1>1, <2>3
    <3>2. report.reused \/ report.current
        BY <3>1, Zenon
    <3> QED
        BY <2>3, <3>2, Zenon DEF ValidatedIsThisRun
  <2> QED
      BY <2>1, <2>2, <2>3
<1>2. ~run.failed
  <2>1. release' = {[valid |-> ~run.failed /\ \E a \in headless : a.ready,
                     steps_passed |-> ~run.failed]}
      BY Zenon DEF FinishRelease
  <2>2. PICK r \in release' : r.steps_passed
      BY <1>1, Zenon DEF StatusReady
  <2>3. r = [valid |-> ~run.failed /\ \E a \in headless : a.ready,
             steps_passed |-> ~run.failed]
      BY <2>1, <2>2
  <2>4. r.steps_passed = ~run.failed
      BY <2>3, Zenon
  <2> QED
      BY <2>2, <2>4, Zenon
<1>3. run.at > 10
    BY StepNames DEF FinishRelease
<1> QED
    BY <1>2, <1>3 DEF RunCurrent

(* A run that starts has written nothing; one that reuses what is there    *)
(* makes no claim.                                                         *)
LEMMA StartKeepsRun ==
    ASSUME StartRelease
    PROVE  IsFiles(newest') /\ RunTypeOK' /\ RunCurrent'
<1>1. newest' = Aged(newest)
    BY Zenon DEF StartRelease
<1>2. IsFiles(Aged(newest))
    BY Zenon DEF IsFiles, Aged
<1>3. PICK reuse \in BOOLEAN :
         run' = [at |-> IF reuse THEN 12 ELSE 1, failed |-> FALSE, reused |-> reuse]
  <2>1. Len(Steps) + 1 = 12
      BY StepNames
  <2> QED
      BY <2>1, Zenon DEF StartRelease
<1>4. run'.failed = FALSE /\ run'.reused = reuse
    BY <1>3, Zenon
<1>5. /\ run'.at \in {1, 12} /\ (~reuse => run'.at = 1)
      /\ run' \in [at : 0 .. 12, failed : BOOLEAN, reused : BOOLEAN]
  <2>1. CASE reuse
    <3>1. run' = [at |-> 12, failed |-> FALSE, reused |-> reuse]
        BY <1>3, <2>1
    <3> QED
        BY <3>1, <2>1
  <2>2. CASE ~reuse
    <3>1. run' = [at |-> 1, failed |-> FALSE, reused |-> reuse]
        BY <1>3, <2>2
    <3> QED
        BY <3>1, <2>2
  <2> QED
      BY <2>1, <2>2
<1> QED
    BY <1>1, <1>2, <1>4, <1>5 DEF RunTypeOK, RunCurrent

LEMMA NoRunIsCurrent ==
    ASSUME run' = NoRun
    PROVE  RunTypeOK' /\ RunCurrent'
    BY DEF NoRun, RunTypeOK, RunCurrent

LEMMA CheckFresh ==
    ASSUME IsFiles(newest), RunCheck
    PROVE  FreshStep
<1>1. PICK ok \in BOOLEAN :
         \/ \E name \in {Steps[i] : i \in DOMAIN Steps} : Script(name, ok)
         \/ WriteReport("v5_replay", Report(ok, TRUE, << >>))
         \/ HilPreflight(ok)
         \/ FieldValidation(ok)
    BY Zenon DEF RunCheck
<1>2. {"v5_replay", "hil_preflight", "field_validation"} \subseteq Kinds
    BY DEF Kinds
<1>3. CASE \E name \in {Steps[i] : i \in DOMAIN Steps} : Script(name, ok)
    BY <1>3, ScriptFresh
<1>4. CASE WriteReport("v5_replay", Report(ok, TRUE, << >>))
    BY <1>2, <1>4, ReportIsCurrent, WriteReportFresh
<1>5. CASE HilPreflight(ok)
  <2> DEFINE report == Report(ok /\ NoSkip, TRUE, << >>)
  <2>1. WriteReport("hil_preflight", report)
      BY <1>5 DEF HilPreflight
  <2>2. report.current = TRUE
      BY DEF Report
  <2> HIDE DEF report
  <2> QED
      BY <1>2, <2>1, <2>2, WriteReportFresh
<1>6. CASE FieldValidation(ok)
  <2> DEFINE report == Report(ok /\ Passed(newest["hil_preflight"])
                                 /\ Passed(newest["v5_replay"]), TRUE, << >>)
  <2>1. WriteReport("field_validation", report)
      BY <1>6 DEF FieldValidation
  <2>2. report.current = TRUE
      BY DEF Report
  <2> HIDE DEF report
  <2> QED
      BY <1>2, <2>1, <2>2, WriteReportFresh
<1> QED
    BY <1>1, <1>3, <1>4, <1>5, <1>6

(* Checks run by hand beside a release run, edits, commits, interrupts and *)
(* an index that prefers copies notwithstanding, a release that passed     *)
(* validation and reused nothing was audited on evidence it made itself    *)
(* (run_headless_release_candidate.sh).                                    *)
THEOREM ValidatedAlwaysThisRun == Spec => []ValidatedIsThisRun
<1>1. Init => OwnEvidence
  <2> SUFFICES ASSUME Init PROVE OwnEvidence
      OBVIOUS
  <2>1. IsFiles(newest)
    <3>1. newest = NoCopies \/ \E runs, absent : newest = EarlierRelease(runs, absent)
        BY DEF Init
    <3>2. IsFiles(NoCopies)
        BY Zenon DEF IsFiles, NoCopies
    <3>3. \A runs, absent : IsFiles(EarlierRelease(runs, absent))
        BY Zenon DEF IsFiles, EarlierRelease
    <3> QED
        BY <3>1, <3>2, <3>3
  <2>2. RunTypeOK /\ RunCurrent
    <3>1. run = NoRun
        BY Zenon DEF Init
    <3> QED
        BY <3>1 DEF NoRun, RunTypeOK, RunCurrent
  <2>3. ValidatedIsThisRun
      BY Zenon DEF Init, ValidatedIsThisRun
  <2> QED
      BY <2>1, <2>2, <2>3 DEF OwnEvidence
<1>2. OwnEvidence /\ [Next]_evidenceVars => OwnEvidence'
  <2> SUFFICES ASSUME IsFiles(newest), RunTypeOK, RunCurrent, ValidatedIsThisRun,
                      [Next]_evidenceVars
               PROVE  IsFiles(newest') /\ RunTypeOK' /\ RunCurrent' /\ ValidatedIsThisRun'
      BY Zenon DEF OwnEvidence
  <2>1. CASE RunCheck
    <3>1. FreshStep
        BY <2>1, CheckFresh
    <3>2. UNCHANGED <<run, headless, validated>>
        BY <2>1, Zenon DEF RunCheck
    <3>3. RunCurrent'
        BY <3>1, <3>2, FreshKeepsRun
    <3> QED
        BY <3>1, <3>2, <3>3 DEF FreshStep, RunTypeOK, ValidatedIsThisRun
  <2>2. CASE RunAudit
    <3>1. UNCHANGED <<newest, index, run, validated>>
        BY <2>2, Zenon DEF RunAudit
    <3>2. RunCurrent'
      <4>1. CASE RunHeadlessAudit
          BY <4>1, <3>1, AuditKeepsRun
      <4>2. CASE RunOperationalAudit
          BY <4>2, <3>1 DEF RunOperationalAudit, RunCurrent, AllCurrent
      <4> QED
          BY <2>2, <4>1, <4>2 DEF RunAudit
    <3> QED
        BY <3>1, <3>2 DEF RunTypeOK, ValidatedIsThisRun
  <2>3. CASE EditFiles \/ Commit
    <3>1. UNCHANGED <<newest, index, headless, run, validated>>
        BY <2>3, Zenon DEF EditFiles, Commit
    <3> QED
        BY <3>1 DEF RunTypeOK, RunCurrent, AllCurrent, ValidatedIsThisRun
  <2>4. CASE StartRelease
    <3>1. UNCHANGED validated
        BY <2>4, Zenon DEF StartRelease
    <3> QED
        BY <3>1, <2>4, StartKeepsRun DEF ValidatedIsThisRun
  <2>5. CASE ReleaseStep
    <3>1. run.at \in 1 .. 11 /\ UNCHANGED validated
        BY <2>5, StepNames, Zenon DEF ReleaseStep
    <3>2. CASE \E ok \in BOOLEAN :
                  /\ Script(Steps[run.at], ok)
                  /\ run' = [run EXCEPT !.at = IF ok THEN @ + 1 ELSE 12, !.failed = ~ok]
                  /\ UNCHANGED <<headless, operational>>
      <4>1. FreshStep
          BY <3>2, ScriptFresh
      <4>2. RunTypeOK' /\ RunCurrent'
          BY <3>1, <3>2, ScriptStepKeepsRun, Zenon
      <4> QED
          BY <3>1, <4>1, <4>2 DEF FreshStep, ValidatedIsThisRun
    <3>3. CASE /\ \/ /\ Steps[run.at] = "headless_readiness_audit"
                     /\ RunHeadlessAudit
                  \/ /\ Steps[run.at] = "operational_readiness_audit"
                     /\ RunOperationalAudit
               /\ run' = [run EXCEPT !.at = @ + 1]
               /\ UNCHANGED <<newest, link, index>>
      <4>1. UNCHANGED <<newest, index>>
          BY <3>3, Zenon
      <4>2. RunTypeOK' /\ RunCurrent'
          BY <3>1, <3>3, <4>1, AuditStepKeepsRun, Zenon
      <4> QED
          BY <3>1, <4>1, <4>2 DEF ValidatedIsThisRun
    <3> QED
      <4>1. Len(Steps) + 1 = 12
          BY StepNames
      <4> QED
          BY <2>5, <3>2, <3>3, <4>1, Zenon DEF ReleaseStep
  <2>6. CASE FinishRelease
    <3>1. UNCHANGED newest /\ run' = NoRun
        BY <2>6, Zenon DEF FinishRelease
    <3> QED
        BY <3>1, <2>6, NoRunIsCurrent, FinishKeepsValidated
  <2>7. CASE Interrupt
    <3>1. UNCHANGED <<newest, validated>> /\ run' = NoRun
        BY <2>7, Zenon DEF Interrupt
    <3> QED
        BY <3>1, NoRunIsCurrent DEF ValidatedIsThisRun
  <2>8. CASE UNCHANGED evidenceVars
      BY <2>8 DEF evidenceVars, RunTypeOK, RunCurrent, AllCurrent, ValidatedIsThisRun
  <2> QED
      BY <2>1, <2>2, <2>3, <2>4, <2>5, <2>6, <2>7, <2>8, Zenon DEF Next
<1>3. OwnEvidence => ValidatedIsThisRun
    BY DEF OwnEvidence
<1> QED
    BY <1>1, <1>2, <1>3, PTL DEF Spec
=============================================================================
