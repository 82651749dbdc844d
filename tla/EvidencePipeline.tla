-------------------------- MODULE EvidencePipeline --------------------------
(***************************************************************************)
(* scripts/: the reports that say whether the software is ready.  Checks   *)
(* write timestamped reports, an index copies the newest of each, audits   *)
(* judge the index (or the newest report where the index has none), a      *)
(* release candidate runs eleven steps and validates what they left, and   *)
(* the status summary compares all of it with the work tree.               *)
(*                                                                         *)
(* A file that may be missing is a set of at most one report.  A commit is *)
(* the tree of runtime files and a count of changes to the ignored files.  *)
(***************************************************************************)
EXTENDS Integers, Sequences, FiniteSetsExt

CONSTANTS
    Trees,              \* contents the runtime-relevant files may have
    MaxNotes,           \* bound on commits to ignored paths
    Measures,           \* what one run of the core pipeline may measure
    ExpectedRuns,       \* ARIS_CORE_PIPELINE_REPEAT_RUNS
    Progress,           \* how many of SimChecks a failing readiness run reaches
    MaxEvents           \* bound on what happens to the logs and the work tree

ASSUME EvidenceAssumption ==
    /\ MaxNotes \in Nat /\ MaxEvents \in Nat
    /\ ExpectedRuns \in Nat /\ ExpectedRuns >= 2
    /\ \A m \in Measures : /\ m.error \in Nat /\ m.cmds \in Nat
                           /\ m.clouds \in Nat /\ m.points \in Nat

Repeat == "core_pipeline_repeatability"
Flow == "core_pipeline_flow"

(* The checks of check_core_readiness.sh that leave a report, in order.    *)
SimChecks == <<"v3_manifest", "v3_compare", "v6_review", "v5_obstacle", "v2_lidar_bag">>

Kinds == {SimChecks[i] : i \in DOMAIN SimChecks} \cup
         {"readiness", Flow, Repeat, "embedded_dry_run", "v5_replay",
          "hil_preflight", "field_validation", "bootstrap_doctor", "branch_policy"}

(* Checks that leave a report also when they fail.                         *)
FailureReported == {"v3_compare", "v5_obstacle"}

(* What ARIS_CORE_READINESS_SKIP_V3 and _SKIP_GAZEBO leave out.            *)
Skips == {{}, {"v3_manifest", "v3_compare", "v6_review"}, {"v2_lidar_bag"}}

(* Kinds whose script stops at a failure before it moves the latest_ link. *)
LinkedOnSuccess == {Flow, Repeat, "field_validation", "bootstrap_doctor", "branch_policy"}

(* Links a release report has to resolve.                                  *)
ReleaseEvidence ==
    {"bootstrap_doctor", "embedded_dry_run", Flow, Repeat, "branch_policy", "readiness"}

(* Plausible bug: the index is made before the pipeline runs.              *)
StepsIndexFirst ==
    <<"bootstrap_doctor", "embedded_dry_run", "documented_commands",
      "architecture_contracts", "host_policy", "branch_policy",
      "core_readiness_report", Flow, Repeat, "headless_readiness_audit",
      "operational_readiness_audit">>

Steps == <<"bootstrap_doctor", "embedded_dry_run", "documented_commands",
           "architecture_contracts", "host_policy", "branch_policy", Flow, Repeat,
           "core_readiness_report", "headless_readiness_audit",
           "operational_readiness_audit">>

VARIABLES
    head,               \* the checked out commit
    dirty,              \* what differs from it: "clean", "notes", "runtime"
    newest,             \* the newest report of each kind, by mtime
    link,               \* what latest_<kind> points to
    index,              \* the copies in the newest evidence index
    headless,           \* the newest headless readiness audit
    operational,        \* the newest operational readiness audit
    release,            \* the newest release candidate report
    run,                \* the release run: its next step (0 without one), how it goes
    validated,          \* the release validate_headless_release_candidate passed
    pruned,             \* commits git cannot find any more
    events

evidenceVars == <<head, dirty, newest, link, index, headless, operational,
                  release, run, validated, pruned, events>>

Samples == [1 .. ExpectedRuns -> Measures]

NoCopies == [k \in Kinds |-> {}]

(* A report with the commit it was made at and whether the release run     *)
(* that started last, if any, is younger.                                  *)
Report(ok, full, runs) ==
    [ok |-> ok, full |-> full, runs |-> runs, commit |-> head, current |-> TRUE]

-----------------------------------------------------------------------------
(* summarize_core_pipeline_repeatability.py.  Errors are in millimetres.   *)

(* route_signature: a run may start further on, so the path counts from    *)
(* its first detour node.                                                  *)
Detours == {"detour_a", "detour_b", "detour_c"}

Signature(path) ==
    LET at == {i \in DOMAIN path : path[i] \in Detours}
    IN  IF at = {} THEN path ELSE SubSeq(path, Min(at), Len(path))

EndsWith(long, short) ==
    /\ Len(long) >= Len(short)
    /\ SubSeq(long, Len(long) - Len(short) + 1, Len(long)) = short

(* route_signature_stable: the shortest is a suffix of every other one.    *)
Stable(runs) ==
    LET signatures == [i \in DOMAIN runs |-> Signature(runs[i].path)]
        lengths == {Len(signatures[i]) : i \in DOMAIN runs}
    IN  /\ Len(runs) = ExpectedRuns
        /\ \A i \in DOMAIN runs : runs[i].path # << >>
        /\ \A i \in DOMAIN runs : Len(signatures[i]) = Min(lengths) =>
               /\ Len(signatures[i]) >= 2
               /\ signatures[i][Len(signatures[i])] = "goal"
               /\ \A j \in DOMAIN runs : EndsWith(signatures[j], signatures[i])

Errors(runs) == {runs[i].error : i \in DOMAIN runs}

(* summarize_reports, of runs whose own reports are valid.                 *)
RepeatValid(runs) ==
    /\ Len(runs) = ExpectedRuns
    /\ Max(Errors(runs)) <= 1300
    /\ Max(Errors(runs)) - Min(Errors(runs)) <= 750
    /\ Stable(runs)

-----------------------------------------------------------------------------
(* The two audits.                                                         *)

(* (index or {}).get(kind).report or the newest one.                       *)
Evidence(k) == IF index[k] # {} THEN index[k] ELSE newest[k]

Passed(reports) == \E r \in reports : r.ok

ReadinessPassed == Passed(index["readiness"])

NoSkip == \E r \in index["readiness"] : r.ok /\ r.full

SemanticPassed ==
    /\ Passed(index["v3_manifest"]) /\ Passed(index["v3_compare"])
    /\ Passed(Evidence("v6_review"))

ObstaclePassed == \E r \in Evidence("v5_obstacle") : r.ok /\ r.full

(* Both audits look behind "valid" at the summary of the repeated runs.    *)
RepeatPassed ==
    \E r \in Evidence(Repeat) :
        r.ok /\ Len(r.runs) >= 2 /\ Stable(r.runs) /\ Max(Errors(r.runs)) <= 1300

(* _repeatability_sample_summary, which only the headless audit asks for.  *)
SampleFloor ==
    \E r \in Evidence(Repeat) :
        /\ Len(r.runs) >= 2
        /\ \A i \in DOMAIN r.runs :
               r.runs[i].clouds >= 5 /\ r.runs[i].points >= 2 /\ r.runs[i].cmds >= 20

(* Plausible bug: the headless audit takes a readiness run that skipped    *)
(* Gazebo or the maps for a full one.                                      *)
HeadlessCriteriaSkipped ==
    [core_readiness_no_skip |-> ReadinessPassed,
     v2_gazebo_stack |-> ReadinessPassed /\ index["v2_lidar_bag"] # {},
     v3_v6_mapping_review |-> SemanticPassed,
     core_pipeline_flow |-> Passed(Evidence(Flow)),
     core_pipeline_repeatability |-> RepeatPassed /\ SampleFloor,
     v5_obstacle |-> ObstaclePassed,
     v5_recorded_obstacle_replay |-> Passed(Evidence("v5_replay")),
     embedded_dry_run |-> Passed(Evidence("embedded_dry_run"))]

HeadlessCriteria ==
    [core_readiness_no_skip |-> NoSkip,
     v2_gazebo_stack |-> NoSkip /\ index["v2_lidar_bag"] # {},
     v3_v6_mapping_review |-> SemanticPassed,
     core_pipeline_flow |-> Passed(Evidence(Flow)),
     core_pipeline_repeatability |-> RepeatPassed /\ SampleFloor,
     v5_obstacle |-> ObstaclePassed,
     v5_recorded_obstacle_replay |-> Passed(Evidence("v5_replay")),
     embedded_dry_run |-> Passed(Evidence("embedded_dry_run"))]

OperationalCriteria ==
    [docs_build_run |-> ReadinessPassed,
     core_pipeline_3d_sim |-> NoSkip,
     v2_gazebo_stack |-> NoSkip /\ index["v2_lidar_bag"] # {},
     core_pipeline_repeatability |-> RepeatPassed,
     v3_v6_mapping_review |-> SemanticPassed,
     v5_obstacle |-> ObstaclePassed,
     v5_obstacle_bag_replay |-> Passed(Evidence("v5_replay")),
     hil_preflight |-> Passed(Evidence("hil_preflight")),
     field_validation |-> Passed(newest["field_validation"])]

HardwareScope == {"hil_preflight", "field_validation"}

AllPassed(criteria) == \A c \in DOMAIN criteria : criteria[c]

HeadlessScopeReady ==
    \A c \in DOMAIN OperationalCriteria \ HardwareScope : OperationalCriteria[c]

(* Plausible bug: a preflight that is ready calls actuation safe.          *)
SafeWhenReady(hil) == hil.ok

(* generate_preflight: it never says that actuation is safe to enable.     *)
SafeToEnable(hil) == FALSE

HeadlessAudit ==
    [ready |-> AllPassed(HeadlessCriteria),
     current |-> \A k \in {"readiness", Flow, Repeat, "embedded_dry_run"} :
                     \A r \in Evidence(k) : r.current]

OperationalAudit ==
    LET safe == /\ \E r \in Evidence("hil_preflight") : SafeToEnable(r)
                /\ Passed(newest["field_validation"])
    IN  [headless_scope |-> HeadlessScopeReady,
         safe |-> safe,
         achieved |-> AllPassed(OperationalCriteria) /\ safe]

-----------------------------------------------------------------------------
(* The status summary.                                                     *)

(* The index takes its commit from the newest readiness log.               *)
EvidenceCommits == {r.commit : r \in index["readiness"]}

(* Plausible bug: changes of the work tree are not looked at.              *)
FreshByCommit == \E c \in EvidenceCommits : c.tree = head.tree

(* _changed_since: git diff --name-only; nothing when git fails.           *)
ChangedSince(c) ==
    IF c \in pruned THEN {}
    ELSE {f \in {"tree", "notes"} : c[f] # head[f]}

WorktreeChanges == IF dirty = "clean" THEN {} ELSE {dirty}

(* evidence_fresh_for_head.                                                *)
EvidenceFresh ==
    \E c \in EvidenceCommits :
        "runtime" \notin WorktreeChanges /\ (c = head \/ "tree" \notin ChangedSince(c))

(* _freshness_reason, of the evidence's commit.                            *)
FreshnessReason(c) ==
    IF "runtime" \in WorktreeChanges THEN "runtime_relevant_worktree_changes"
    ELSE IF c = head THEN "matching_head"
    ELSE IF "tree" \in ChangedSince(c) THEN "runtime_relevant_changes_since_evidence"
    ELSE IF "notes" \in ChangedSince(c) \/ "notes" \in WorktreeChanges THEN "ignored_changes_only"
    ELSE "no_runtime_relevant_changes_since_evidence"

(* main: what decides the exit status.                                     *)
StatusReady ==
    /\ \E a \in headless : a.ready
    /\ \E r \in release : r.valid /\ r.steps_passed

(* validate_headless_release_candidate: a good report whose criteria all   *)
(* passed and whose evidence links lead to files.                          *)
Validates ==
    /\ \E r \in release : r.valid /\ r.steps_passed
    /\ \E a \in headless : a.ready
    /\ operational # {}
    /\ \A k \in ReleaseEvidence : link[k] # {}

-----------------------------------------------------------------------------
(* The checks.                                                             *)

(* generate_index: a copy of the newest report of each kind.               *)
GenerateIndex(files) == [k \in Kinds |-> files[k]]

(* The newest reports after one more of kind k, and the links after it.    *)
Write(files, k, report) == [files EXCEPT ![k] = {report}]

Relink(k, report) ==
    IF report.ok \/ k \notin LinkedOnSuccess THEN Write(link, k, report) ELSE link

Spend == events < MaxEvents /\ events' = events + 1

(* A check that writes one report, good or bad, and nothing else.          *)
WriteReport(k, report) ==
    /\ newest' = Write(newest, k, report)
    /\ link' = Relink(k, report)
    /\ UNCHANGED index

(* check_core_pipeline_repeatability.sh: every run writes a flow report;   *)
(* a bad one (no runs here) ends the script before there is a summary.     *)
Repeatability(runs) ==
    IF runs = << >> THEN WriteReport(Flow, Report(FALSE, TRUE, << >>))
    ELSE LET good == Report(TRUE, TRUE, << >>)
             report == Report(RepeatValid(runs), TRUE, runs)
         IN  /\ newest' = Write(Write(newest, Flow, good), Repeat, report)
             /\ link' = [Relink(Repeat, report) EXCEPT ![Flow] = {good}]
             /\ UNCHANGED index

(* run_core_readiness_report.sh: the log carries HEAD; the checks that ran *)
(* leave their reports, two of them also when they fail; the index is made *)
(* whatever the result.  The maps are compared when there is an older one. *)
CoreReadiness(ok, skipped, reached) ==
    LET report == Report(ok, skipped = {}, << >>)
        ran == {SimChecks[i] : i \in 1 .. reached} \ skipped
        failed == {SimChecks[i] : i \in {reached + 1} \cap DOMAIN SimChecks}
                  \cap (FailureReported \ skipped)
        after == [k \in Kinds |->
                    IF k = "readiness" THEN {report}
                    ELSE IF k = "v3_compare" /\ newest["v3_manifest"] = {} THEN newest[k]
                    ELSE IF k \in ran THEN {Report(TRUE, TRUE, << >>)}
                    ELSE IF k \in failed THEN {Report(FALSE, TRUE, << >>)}
                    ELSE newest[k]]
    IN  /\ newest' = after
        /\ index' = GenerateIndex(after)
        /\ link' = Write(link, "readiness", report)

(* check_embedded_dry_run.sh: the braces stand left of ||, where set -e is *)
(* off, so the status is the loopback test's whatever pytest said.         *)
EmbeddedDryRun(tests, loopback) ==
    WriteReport("embedded_dry_run", Report(loopback, tests, << >>))

(* What the script of a name does; ok says whether it exits with 0.        *)
Script(name, ok) ==
    \/ /\ name \in {"bootstrap_doctor", "branch_policy", Flow}
       /\ WriteReport(name, Report(ok, TRUE, << >>))
    \/ /\ name = "embedded_dry_run"
       /\ \E tests \in BOOLEAN : EmbeddedDryRun(tests, ok)
    \/ /\ name = Repeat
       /\ \E runs \in {<< >>} \cup Samples : Repeatability(runs) /\ ok = RepeatValid(runs)
    \/ /\ name = "core_readiness_report"
       /\ \E skipped \in Skips, reached \in Progress \cup {Len(SimChecks)} :
              (ok => reached = Len(SimChecks)) /\ CoreReadiness(ok, skipped, reached)
    \/ /\ name \in {"documented_commands", "architecture_contracts", "host_policy"}
       /\ UNCHANGED <<newest, link, index>>

(* generate_preflight; fit is what it finds of the host and its devices.   *)
HilPreflight(fit) ==
    LET ready == fit /\ NoSkip IN WriteReport("hil_preflight", Report(ready, TRUE, << >>))

(* generate_report; good is what the manifest says of the drive.           *)
FieldValidation(good) ==
    LET valid == good /\ Passed(newest["hil_preflight"]) /\ Passed(newest["v5_replay"])
    IN  WriteReport("field_validation", Report(valid, TRUE, << >>))

-----------------------------------------------------------------------------
NoRun == [at |-> 0, failed |-> FALSE, reused |-> FALSE]

(* Reports of an earlier release that went well, without those absent.     *)
EarlierRelease(runs, absent) ==
    [k \in Kinds |->
        IF k \in absent THEN {}
        ELSE {[Report(TRUE, TRUE, IF k = Repeat THEN runs ELSE << >>)
                  EXCEPT !.current = FALSE]}]

(* Logs that hold nothing, and logs of an earlier good release, with and   *)
(* without a preflight of the hardware.                                    *)
Init ==
    /\ head \in [tree : Trees, notes : {0}]
    /\ dirty = "clean"
    /\ newest \in
          {NoCopies} \cup
          {EarlierRelease(runs, absent) :
             runs \in {s \in Samples : RepeatValid(s)},
             absent \in {{"field_validation"}, {"field_validation", "hil_preflight"}}}
    /\ link = newest /\ index = newest
    /\ headless = {} /\ operational = {} /\ release = {} /\ validated = {}
    /\ run = NoRun
    /\ pruned = {}
    /\ events = 0

(* The operator runs one of the checks by hand, with no release run or     *)
(* beside one.                                                             *)
RunCheck ==
    /\ Spend
    /\ \E ok \in BOOLEAN :
          \/ \E name \in {Steps[i] : i \in DOMAIN Steps} : Script(name, ok)
          \/ WriteReport("v5_replay", Report(ok, TRUE, << >>))
          \/ HilPreflight(ok)
          \/ FieldValidation(ok)
    /\ UNCHANGED <<head, dirty, headless, operational, release, run, validated, pruned>>

RunHeadlessAudit ==
    /\ headless' = {HeadlessAudit}
    /\ UNCHANGED operational

RunOperationalAudit ==
    /\ operational' = {OperationalAudit}
    /\ UNCHANGED headless

RunAudit ==
    /\ Spend
    /\ RunHeadlessAudit \/ RunOperationalAudit
    /\ UNCHANGED <<head, dirty, newest, link, index, release, run, validated, pruned>>

(* The work tree: an edit, its loss, a commit, a history rewritten so that *)
(* git does not know the old commit.                                       *)
EditFiles ==
    /\ dirty' \in {"clean", "notes", "runtime"} \ {dirty}
    /\ UNCHANGED <<head, newest, link, index, headless, operational, release,
                    run, validated, pruned, events>>

Commit ==
    /\ Spend
    /\ head' \in [tree : Trees, notes : 0 .. MaxNotes] \ (pruned \cup {head})
    /\ \/ dirty = "notes" /\ head' = [head EXCEPT !.notes = @ + 1] /\ UNCHANGED pruned
       \/ dirty = "runtime" /\ head'.notes = head.notes /\ pruned' \in {pruned, pruned \cup {head}}
    /\ dirty' = "clean"
    /\ UNCHANGED <<newest, link, index, headless, operational, release, run, validated>>

(* A release run that starts makes all that is there older than itself.    *)
Aged(files) == [k \in Kinds |-> {[r EXCEPT !.current = FALSE] : r \in files[k]}]

(* With ARIS_HEADLESS_RELEASE_REUSE_EXISTING no step runs and all pass.    *)
StartRelease ==
    /\ Spend
    /\ run = NoRun
    /\ newest' = Aged(newest) /\ link' = Aged(link) /\ index' = Aged(index)
    /\ headless' = {[a EXCEPT !.current = FALSE] : a \in headless}
    /\ \E reuse \in BOOLEAN :
          run' = [at |-> IF reuse THEN Len(Steps) + 1 ELSE 1,
                  failed |-> FALSE, reused |-> reuse]
    /\ UNCHANGED <<head, dirty, operational, release, validated, pruned>>

(* run_step: the steps after one that fails are left out; audits pass.     *)
ReleaseStep ==
    /\ run.at \in DOMAIN Steps
    /\ LET name == Steps[run.at]
       IN  \/ /\ \E ok \in BOOLEAN :
                     /\ Script(name, ok)
                     /\ run' = [run EXCEPT !.at = IF ok THEN @ + 1 ELSE Len(Steps) + 1,
                                            !.failed = ~ok]
              /\ UNCHANGED <<headless, operational>>
           \/ /\ \/ name = "headless_readiness_audit" /\ RunHeadlessAudit
                 \/ name = "operational_readiness_audit" /\ RunOperationalAudit
              /\ run' = [run EXCEPT !.at = @ + 1]
              /\ UNCHANGED <<newest, link, index>>
    /\ UNCHANGED <<head, dirty, release, validated, pruned, events>>

(* The report, the final index, the status (which ends the script when it  *)
(* is not ready: set -e) and the validation.                               *)
FinishRelease ==
    /\ run.at = Len(Steps) + 1
    /\ release' = {[valid |-> ~run.failed /\ \E a \in headless : a.ready,
                    steps_passed |-> ~run.failed]}
    /\ index' = GenerateIndex(newest)
    /\ UNCHANGED <<head, dirty, newest, link, headless, operational, pruned, events>>
    /\ validated' = IF StatusReady' /\ Validates'
                    THEN {[reused |-> run.reused,
                           current |-> \A a \in headless : a.current]}
                    ELSE {}
    /\ run' = NoRun

(* Ctrl-C: what the steps wrote stays, and there is no report.             *)
Interrupt ==
    /\ run # NoRun
    /\ run' = NoRun
    /\ UNCHANGED <<head, dirty, newest, link, index, headless, operational,
                    release, validated, pruned, events>>

Next ==
    \/ RunCheck
    \/ RunAudit
    \/ EditFiles
    \/ Commit
    \/ StartRelease
    \/ ReleaseStep
    \/ FinishRelease
    \/ Interrupt

Spec == Init /\ [][Next]_evidenceVars

-----------------------------------------------------------------------------
(* The two audit scripts, written apart from each other, never disagree    *)
(* that the simulated scope is ready: whenever the headless audit would    *)
(* pass, the operational audit's headless scope passes too.                *)
ScopesAgree == AllPassed(HeadlessCriteria) => HeadlessScopeReady

(* Whatever reports are made in whatever order, with the best hardware and *)
(* field results, no operational audit calls real actuation safe or the    *)
(* system ready for practical use.                                         *)
NeverSafe == \A a \in operational : ~a.safe /\ ~a.achieved

(* What the audits say together.                                           *)
AuditsAgree == ScopesAgree /\ NeverSafe

(* The status calls evidence fresh exactly when the reason printed beside  *)
(* it says so, through edits, commits and a rewritten history.             *)
ReasonAgrees ==
    EvidenceFresh <=>
        \E c \in EvidenceCommits :
            FreshnessReason(c) \in {"matching_head", "ignored_changes_only",
                                    "no_runtime_relevant_changes_since_evidence"}

(* A release that was validated, and did not reuse evidence, was audited   *)
(* on readiness, flow, repeatability and embedded reports that were all    *)
(* made after it started, though the audit reads copies in an index.       *)
ValidatedIsThisRun == \A v \in validated : v.reused \/ v.current

(* README.md:228 and the report's own list of checks say that the dry run  *)
(* covers the protocol tests: evidence that passes has passed them.        *)
DryRunMeansTested ==
    AllPassed(HeadlessCriteria) => \A r \in Evidence("embedded_dry_run") : r.full
=============================================================================
