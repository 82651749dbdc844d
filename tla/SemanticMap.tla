---------------------------- MODULE SemanticMap ----------------------------
(***************************************************************************)
(* aris_mapping: the semantic map node, the snapshot it rewrites in place  *)
(* twice a second, and the two scripts that validate a snapshot and        *)
(* compare it with the snapshot of an earlier pass.                        *)
(*                                                                         *)
(* Confidences are percents, traversability is in thousandths.  Labels are *)
(* kept in the order in which they were first seen, as a dict does; JSON   *)
(* sorts them.  A route is a sequence of waypoints: its nodes are numbered *)
(* from one, its edges join each to the next.  The published summary, the  *)
(* counters behind it and the text of a manifest are left out.             *)
(***************************************************************************)
EXTENDS Integers, SequencesExt

CONSTANTS
    Lexical,                \* the labels, in the order in which JSON sorts them
    Base,                   \* traversability_for_label: tenths, by label
    ChangeThreshold,        \* change_threshold, percent
    ConfirmationThreshold,  \* confirmation_threshold, percent
    HighRisk,               \* --high-risk-threshold, thousandths
    Observations,           \* the messages on semantic_observation
    CloudCells,             \* the cells that points of a cloud may lie in
    RouteFiles,             \* what route_file may be when a node starts
    MinMetricCells, MinRouteNodes, MinReviewQueue, MinHighRisk,  \* validation
    MinOverlap,             \* --min-metric-overlap, --min-route-overlap, percent
    MaxDelta,               \* --max-label-changes and the other two limits
    MaxInputs               \* bound: messages per pass

VARIABLES
    phase,              \* "down", "up", or "saving": inside write_text
    hd_map,             \* self.map
    file,               \* what the snapshot file holds, {} when it does not load
    torn,               \* the snapshot file exists and is no JSON
    baseline,           \* the snapshot kept from an earlier pass, {} for none
    inputs,             \* how many messages came in this pass
    saved,              \* history: hd_map as it was when last written in full
    died_saving,        \* history: the node ended inside write_text since then
    seen,               \* history: the input hd_map has taken
    file_seen,          \* history: the input the file has taken
    baseline_seen       \* history: the input the baseline has taken

vars == <<phase, hd_map, file, torn, baseline, inputs, saved, died_saving, seen, file_seen,
          baseline_seen>>

Labels == ToSet(Lexical)
EmptyMap == [metric |-> {}, cells |-> << >>, route |-> << >>, review |-> << >>]

(* SemanticCellState as it is created. *)
NewCell == [occupancy |-> 50, labels |-> << >>, traversability |-> 500, observations |-> 0]

-----------------------------------------------------------------------------
(* Cells and observations.                                                 *)

Confidences(labels) == {labels[i].confidence : i \in DOMAIN labels}

TopConfidence(labels) == IF labels = << >> THEN 0 ELSE Max(Confidences(labels))

(* max() returns the first of several maxima. *)
TopLabel(labels) ==
    IF labels = << >> THEN {}
    ELSE LET best == {i \in DOMAIN labels : labels[i].confidence = TopConfidence(labels)}
         IN  {labels[Min(best)].label}

TraversabilityForLabel(label, confidence) == 5 * (100 - confidence) + Base[label] * confidence

(* Plausible bug: a label takes its latest confidence, not its best one.   *)
WithLabelLatest(labels, label, confidence) ==
    IF \E i \in DOMAIN labels : labels[i].label = label
    THEN [i \in DOMAIN labels |-> IF labels[i].label = label
            THEN [labels[i] EXCEPT !.confidence = confidence] ELSE labels[i]]
    ELSE Append(labels, [label |-> label, confidence |-> confidence])

WithLabel(labels, label, confidence) ==
    IF \E i \in DOMAIN labels : labels[i].label = label
    THEN [i \in DOMAIN labels |-> IF labels[i].label = label
            THEN [labels[i] EXCEPT !.confidence = Max({@, confidence})] ELSE labels[i]]
    ELSE Append(labels, [label |-> label, confidence |-> confidence])

(* _state: looking a cell up creates it. *)
StateOf(cells, cell) == IF cell \in DOMAIN cells THEN cells[cell] ELSE NewCell

(* The cells with one of them in a new state. *)
WithState(cells, cell, state) ==
    [c \in DOMAIN cells \cup {cell} |-> IF c = cell THEN state ELSE cells[c]]

(* mark_occupied, for each of the cells the points of a cloud lie in.      *)
MarkOccupied(m, marked) ==
    [m EXCEPT !.cells = [c \in DOMAIN @ \cup marked |->
                            IF c \in marked THEN [StateOf(@, c) EXCEPT !.occupancy = 75]
                            ELSE @[c]],
              !.metric = @ \cup marked]

(* Plausible bug: a change is a change only when the new label wins.       *)
ChangeDetectedOnWin(labels, obs) ==
    /\ TopLabel(labels) \notin {{}, {obs.label}}
    /\ TopConfidence(labels) >= ConfirmationThreshold
    /\ obs.confidence > TopConfidence(labels)

ChangeDetected(labels, obs) ==
    /\ TopLabel(labels) \notin {{}, {obs.label}}
    /\ TopConfidence(labels) >= ConfirmationThreshold

(* apply_semantic_observation, for a confidence in range: a weak one only  *)
(* asks for a review (and creates its cell), any other is applied at once, *)
(* also when it asks for a review.                                         *)
Apply(m, obs) ==
    LET old == StateOf(m.cells, obs.cell)
        change == ChangeDetected(old.labels, obs)
        weak == obs.confidence < ChangeThreshold
        decision == [cell |-> obs.cell, label |-> obs.label,
                     reason |-> IF weak THEN "low_confidence"
                                ELSE IF change THEN "change_detected" ELSE "applied"]
        reviewed == IF weak \/ change \/ obs.confidence < ConfirmationThreshold
                    THEN Append(m.review, decision) ELSE m.review
        new == [old EXCEPT !.labels = WithLabel(@, obs.label, obs.confidence),
                           !.traversability = TraversabilityForLabel(obs.label, obs.confidence),
                           !.observations = @ + 1]
    IN  IF weak THEN [m EXCEPT !.cells = WithState(@, obs.cell, old), !.review = reviewed]
        ELSE [m EXCEPT !.cells = WithState(@, obs.cell, new), !.review = reviewed,
                       !.metric = @ \cup {obs.cell}]

-----------------------------------------------------------------------------
(* Snapshots.                                                              *)

Rank(label) == CHOOSE i \in DOMAIN Lexical : Lexical[i] = label

(* Plausible bug: the labels are written in the order of the dict.         *)
WrittenUnsorted(labels) == labels

(* dict(sorted(labels.items())). *)
Written(labels) ==
    CHOOSE s \in SetToSeqs(ToSet(labels)) :
       \A i, j \in DOMAIN s : i < j => Rank(s[i].label) < Rank(s[j].label)

WrittenCell(state) == [state EXCEPT !.labels = Written(@)]

ToSnapshot(m) == [m EXCEPT !.cells = [c \in DOMAIN @ |-> WrittenCell(@[c])]]

(* Plausible bug: only cells with a label are restored.                    *)
FromSnapshotLabelled(s) ==
    [s EXCEPT !.cells = [c \in {d \in DOMAIN @ : @[d].labels # << >>} |-> @[c]]]

(* from_snapshot: every field is read back, labels in the written order.   *)
FromSnapshot(s) == s

(* load_route_csv_as_graph: a file has to exist; a map that has a route    *)
(* keeps it, whatever the file holds now, and any other map takes the      *)
(* file's rows, of which there are none ({}) when it cannot be read.       *)
LoadRoute(m, route_file) ==
    {n \in IF m.route # << >> THEN {m} ELSE {[m EXCEPT !.route = r] : r \in route_file.rows} :
       route_file.exists}

Edges(m) == 1 .. Len(m.route) - 1

SemanticCells(s) == {c \in DOMAIN s.cells : s.cells[c].labels # << >>}
HighRiskCells(s) == {c \in DOMAIN s.cells : s.cells[c].traversability >= HighRisk}

(* validate_snapshot. *)
Validate(s) ==
    /\ Cardinality(s.metric) >= MinMetricCells
    /\ SemanticCells(s) # {}
    /\ Len(s.route) >= MinRouteNodes /\ Edges(s) # {}
    /\ Len(s.review) >= MinReviewQueue
    /\ Cardinality(HighRiskCells(s)) >= MinHighRisk

Distance(a, b) == IF a < b THEN b - a ELSE a - b

(* _ratio of what is shared to the baseline, against a minimum in percent. *)
Overlaps(shared, old) == old = {} \/ 100 * Cardinality(shared) >= MinOverlap * Cardinality(old)

(* compare_snapshots: the failures it lists.  Edges are compared by the    *)
(* names of their nodes, which number the rows of a route.                 *)
Compare(old, new) ==
    LET changed == {c \in DOMAIN old.cells \cap DOMAIN new.cells :
                      TopLabel(old.cells[c].labels) # TopLabel(new.cells[c].labels)}
        failed == [
          metric_overlap_ratio |-> ~Overlaps(old.metric \cap new.metric, old.metric),
          route_overlap_ratio |-> ~Overlaps(Edges(old) \cap Edges(new), Edges(old)),
          label_changes |-> Cardinality(changed) > MaxDelta,
          high_risk_delta |-> Distance(Cardinality(HighRiskCells(old)),
                                       Cardinality(HighRiskCells(new))) > MaxDelta,
          review_queue_delta |-> Distance(Len(old.review), Len(new.review)) > MaxDelta]
    IN  {f \in DOMAIN failed : failed[f]}

-----------------------------------------------------------------------------
(* The node, its file, and who reads it.                                   *)

Init ==
    /\ phase = "down" /\ hd_map = EmptyMap
    /\ file = {} /\ torn = FALSE /\ baseline = {}
    /\ inputs = 0
    /\ saved = {} /\ died_saving = FALSE
    /\ seen = {} /\ file_seen = {} /\ baseline_seen = {}

(* __init__: a snapshot is loaded when there is one, then the route.  What *)
(* cannot be loaded (a torn snapshot, a missing or unreadable route)       *)
(* raises, and the node stays down.                                        *)
Start(route_file) ==
    /\ phase = "down" /\ ~torn
    /\ LET loaded == IF file = {} THEN {EmptyMap} ELSE {FromSnapshot(s) : s \in file}
       IN  \E m \in loaded : hd_map' \in LoadRoute(m, route_file)
    /\ phase' = "up"
    /\ seen' = file_seen
    /\ UNCHANGED <<file, torn, baseline, inputs, saved, died_saving, file_seen, baseline_seen>>

OnCloud(cells) ==
    /\ phase = "up" /\ inputs < MaxInputs
    /\ hd_map' = MarkOccupied(hd_map, cells)
    /\ inputs' = inputs + 1
    /\ seen' = seen \cup {[cell |-> c] : c \in cells}
    /\ UNCHANGED <<phase, file, torn, baseline, saved, died_saving, file_seen, baseline_seen>>

(* A message that is no observation, or whose confidence or place is not a *)
(* number in range, is ignored; so only the others are a step.             *)
OnObservation(obs) ==
    /\ phase = "up" /\ inputs < MaxInputs
    /\ hd_map' = Apply(hd_map, obs)
    /\ inputs' = inputs + 1
    /\ seen' = seen \cup {obs}
    /\ UNCHANGED <<phase, file, torn, baseline, saved, died_saving, file_seen, baseline_seen>>

(* _publish_summary calls save_snapshot: write_text empties the file ...   *)
BeginSave ==
    /\ phase = "up"
    /\ phase' = "saving"
    /\ file' = {} /\ torn' = TRUE /\ file_seen' = {}
    /\ UNCHANGED <<hd_map, baseline, inputs, saved, died_saving, seen, baseline_seen>>

(* ... and fills it.                                                       *)
EndSave ==
    /\ phase = "saving"
    /\ phase' = "up"
    /\ file' = {ToSnapshot(hd_map)} /\ torn' = FALSE
    /\ saved' = {hd_map} /\ died_saving' = FALSE /\ file_seen' = seen
    /\ UNCHANGED <<hd_map, baseline, inputs, seen, baseline_seen>>

(* The node ends: it is killed, the disk is full inside write_text, or an  *)
(* observation lies at infinity, whose OverflowError _on_observation does  *)
(* not catch.                                                              *)
Crash ==
    /\ phase # "down"
    /\ phase' = "down"
    /\ hd_map' = EmptyMap /\ seen' = {}
    /\ died_saving' = (died_saving \/ phase = "saving")
    /\ UNCHANGED <<file, torn, baseline, inputs, saved, file_seen, baseline_seen>>

(* The operator validates the snapshot and keeps it to compare with ...    *)
Promote ==
    /\ baseline = {} /\ file # {}
    /\ \A s \in file : Validate(s)
    /\ baseline' = file /\ baseline_seen' = file_seen
    /\ UNCHANGED <<phase, hd_map, file, torn, inputs, saved, died_saving, seen, file_seen>>

(* ... and starts another pass with a snapshot file of its own.            *)
NewPass ==
    /\ phase = "down" /\ (torn \/ file # {})
    /\ file' = {} /\ torn' = FALSE /\ file_seen' = {}
    /\ saved' = {} /\ died_saving' = FALSE
    /\ inputs' = 0
    /\ UNCHANGED <<phase, hd_map, baseline, seen, baseline_seen>>

(* A file that does not load is put away, and the pass goes on.            *)
PutAway ==
    /\ phase = "down" /\ torn
    /\ torn' = FALSE
    /\ UNCHANGED <<phase, hd_map, file, baseline, inputs, saved, died_saving, seen, file_seen,
                   baseline_seen>>

Next ==
    \/ \E route_file \in RouteFiles : Start(route_file)
    \/ \E cells \in (SUBSET CloudCells) \ {{}} : OnCloud(cells)
    \/ \E obs \in Observations : OnObservation(obs)
    \/ BeginSave
    \/ EndSave
    \/ Crash
    \/ Promote
    \/ NewPass
    \/ PutAway

Spec == Init /\ [][Next]_vars

-----------------------------------------------------------------------------
(* Properties.                                                             *)

SeenCells == {o.cell : o \in Observations} \cup CloudCells
Reasons == {"low_confidence", "change_detected", "applied"}

(* Types; a cell with labels is a metric cell.                             *)
MapTypeOK ==
    /\ phase \in {"down", "up", "saving"}
    /\ hd_map.metric \subseteq DOMAIN hd_map.cells
    /\ SemanticCells(hd_map) \subseteq hd_map.metric
    /\ \A c \in DOMAIN hd_map.cells :
         /\ c \in SeenCells
         /\ hd_map.cells[c].traversability \in 0 .. 1000
         /\ hd_map.cells[c].observations \in Nat
    /\ \A i \in DOMAIN hd_map.review : hd_map.review[i].reason \in Reasons

(* What the map knows of a cell is the best confidence of each label among *)
(* the observations that reached it: whatever their order, however often   *)
(* each came, and however often the node was restarted in between.  This   *)
(* is the rule of the code (max, and nothing that ages).  It is not the    *)
(* rule of the docs, by which confidence increases with repeats and        *)
(* decreases when observations get stale (docs/verification_plan.md:85).   *)
Strong(obs) == obs.confidence >= ChangeThreshold

LabelsAreJoin ==
    \A c \in SeenCells :
       ToSet(StateOf(hd_map.cells, c).labels) =
       {[label |-> o.label, confidence |-> o.confidence] :
          o \in {x \in seen \cap Observations : x.cell = c /\ Strong(x) /\
                   \A y \in seen \cap Observations :
                      y.cell = c /\ y.label = x.label => y.confidence <= x.confidence}}

(* The cost of a cell follows its last observation, its label the best     *)
(* one.  They may disagree about a confirmed cell only while the cell is   *)
(* in the review queue, across restarts too.  The docs ask for more, that  *)
(* the review come before the change (docs/verification_plan.md:87); the   *)
(* code applies the change and asks in the same call.                      *)
CostOf(label) == {TraversabilityForLabel(label, c) : c \in ChangeThreshold .. 100}

ConflictIsReviewed ==
    \A c \in DOMAIN hd_map.cells :
       LET state == hd_map.cells[c] IN
       /\ TopConfidence(state.labels) >= ConfirmationThreshold
       /\ \A label \in TopLabel(state.labels) : state.traversability \notin CostOf(label)
       => \E i \in DOMAIN hd_map.review : hd_map.review[i].cell = c

(* What is known of a cell follows from what was observed, by the rule of  *)
(* the code, and where label and cost part ways a person has been asked.   *)
MapKeepsInput == MapTypeOK /\ LabelsAreJoin /\ ConflictIsReviewed

(* A second pass that saw what the first one saw, in any order and with    *)
(* any crashes between, never fails the comparison for its labels or its   *)
(* metric cells; only costs and reviews depend on the order.               *)
RepeatPassAgrees ==
    \A old \in baseline, new \in file :
       baseline_seen = file_seen /\ Len(old.route) = Len(new.route)
          => Compare(old, new) \subseteq {"high_risk_delta", "review_queue_delta"}

(* A node that starts again goes on with exactly the metric cells, costs   *)
(* and reviews it had at its last whole save, and where two labels did not *)
(* tie, with the top label; unless one of the crashes since fell inside    *)
(* write_text.  Then all of the pass is lost, whatever was saved before.   *)
Tied(labels) ==
    \E i, j \in DOMAIN labels :
       i # j /\ labels[i].confidence = labels[j].confidence
            /\ labels[i].confidence = TopConfidence(labels)

Restores(s, m) ==
    /\ m.metric = s.metric /\ m.review = s.review
    /\ DOMAIN m.cells = DOMAIN s.cells
    /\ \A c \in DOMAIN s.cells :
         LET old == s.cells[c]  new == m.cells[c] IN
         /\ [new EXCEPT !.labels = << >>] = [old EXCEPT !.labels = << >>]
         /\ Tied(old.labels) \/ TopLabel(new.labels) = TopLabel(old.labels)

RestartRestores ==
    [][ \A s \in saved : phase = "down" /\ phase' = "up" =>
          Restores(IF died_saving THEN EmptyMap ELSE s, hd_map') ]_vars
=============================================================================
