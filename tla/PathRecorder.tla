---------------------------- MODULE PathRecorder ----------------------------
(***************************************************************************)
(* Teach and repeat: path_recorder_node.py appends one row per waypoint to *)
(* a CSV file that survives it, and load_route_csv of route.py reads that  *)
(* file when a planner starts.  A write may be torn (power, a full disk),  *)
(* and the next run appends behind whatever is there.                      *)
(*                                                                         *)
(* A field remembers the waypoint and the column it was written for.  Its  *)
(* text is a number ("num"), its beginning before ("int") or after         *)
(* ("frac") the decimal point, nothing ("empty"), or no number ("bad").    *)
(* The vehicle moves along a line, in steps of a fraction of the spacing.  *)
(***************************************************************************)
EXTENDS Integers, SequencesExt

CONSTANTS
    Spacing,            \* waypoint_spacing_m, in steps
    Positions,          \* where odometry may place the vehicle
    MaxRows,            \* bound: waypoints recorded
    MaxTears            \* bound: torn writes

VARIABLES
    recording,          \* the recorder runs
    last_xy,            \* self.last_xy, a set of at most one
    recorded_points,    \* self.recorded_points, published as a path
    position,           \* the last odometry of this run, a set of at most one
    header,             \* the first line: "none", "whole" or "broken"
    rows,               \* the lines after it, sequences of fields
    open,               \* the last line has no end
    count,              \* how many waypoints were ever written
    tears               \* history: the waypoints whose row was torn

vars == <<recording, last_xy, recorded_points, position, header, rows, open, count, tears>>

Columns == 1 .. 4
Field(id, column, kind) == [of |-> id, column |-> column, text |-> kind]
Row(id) == [k \in Columns |-> Field(id, k, "num")]

(* The beginnings of a row: k whole fields and some of the next one.       *)
Beginnings(id) ==
    {Append(SubSeq(Row(id), 1, k), Field(id, k + 1, kind)) :
       k \in 0 .. 3, kind \in {"empty", "int", "frac"}}

(* What the end of one text and a whole number make together.              *)
Joined(f, g) ==
    CASE f.text = "empty" -> {Field(g.of, g.column, "num")}
      [] f.text = "int" -> {Field(0, 0, "num"), Field(0, 0, "bad")}
      [] OTHER -> {Field(0, 0, "bad")}

(* Where an appended row goes: on a line of its own, or on the open one.   *)
Appended(old, row) ==
    IF ~open THEN {Append(old, row)}
    ELSE {Append(Front(old), Front(Last(old)) \o <<f>> \o Tail(row)) :
            f \in Joined(Last(Last(old)), Head(row))}

-----------------------------------------------------------------------------
(* load_route_csv.                                                         *)

(* Plausible bug: a field that is missing counts as zero.                  *)
ReadableLenient(row) ==
    \A k \in Columns \cap DOMAIN row : row[k].text \notin {"empty", "bad"}

(* All four columns are there and are numbers; more fields do not matter.  *)
Readable(row) ==
    \A k \in Columns : k \in DOMAIN row /\ row[k].text \notin {"empty", "bad"}

(* One line that is no waypoint refuses the whole file, and so does a      *)
(* header without the four columns, or a file without a waypoint.          *)
Loads == header = "whole" /\ rows # << >> /\ \A i \in DOMAIN rows : Readable(rows[i])

-----------------------------------------------------------------------------
Init ==
    /\ recording = FALSE /\ last_xy = {} /\ recorded_points = << >> /\ position = {}
    /\ header = "none" /\ rows = << >> /\ open = FALSE
    /\ count = 0 /\ tears = {}

(* Plausible bug: the file is opened for writing instead of appending.     *)
PrepareTruncates ==
    /\ ~recording /\ recording' = TRUE
    /\ last_xy' = {} /\ recorded_points' = << >> /\ position' = {}
    /\ header' = "whole" /\ rows' = << >> /\ open' = FALSE
    /\ UNCHANGED <<count, tears>>

(* __init__ and _prepare_route_file: the header is written into an empty   *)
(* file only.                                                              *)
Prepare ==
    /\ ~recording /\ recording' = TRUE
    /\ last_xy' = {} /\ recorded_points' = << >> /\ position' = {}
    /\ header' = IF header = "none" THEN "whole" ELSE header
    /\ UNCHANGED <<rows, open, count, tears>>

(* The header itself may be torn; whatever follows, it stays broken.       *)
PrepareTorn ==
    /\ ~recording /\ header = "none" /\ Cardinality(tears) < MaxTears
    /\ header' = "broken" /\ tears' = tears \cup {0}
    /\ UNCHANGED <<recording, last_xy, recorded_points, position, rows, open, count>>

Within(p, q) == (IF p < q THEN q - p ELSE p - q) < Spacing
Near(p) == \E q \in last_xy : Within(p, q)

(* Plausible bug: the spacing is measured from one message to the next.    *)
LastXyMoved(p) == {p}

LastXy(p) == IF Near(p) THEN last_xy ELSE {p}

(* _on_odom: a pose at least the spacing away is written, then remembered. *)
OnOdom(p) ==
    /\ recording
    /\ Near(p) \/ count < MaxRows
    /\ IF Near(p) THEN UNCHANGED <<recorded_points, rows, open, count>>
       ELSE /\ rows' \in Appended(rows, Row(count + 1))
            /\ open' = FALSE
            /\ count' = count + 1
            /\ recorded_points' = Append(recorded_points, p)
    /\ last_xy' = LastXy(p)
    /\ position' = {p}
    /\ UNCHANGED <<recording, header, tears>>

(* The write is torn: the file ends inside the row, and the node with it.  *)
(* (A second tear on the same line is left out.)                           *)
OnOdomTorn(p) ==
    /\ recording /\ ~Near(p) /\ ~open
    /\ count < MaxRows /\ Cardinality(tears) < MaxTears
    /\ \E row \in Beginnings(count + 1) : rows' = Append(rows, row)
    /\ open' = TRUE
    /\ count' = count + 1 /\ tears' = tears \cup {count + 1}
    /\ recording' = FALSE /\ last_xy' = {} /\ recorded_points' = << >> /\ position' = {}
    /\ UNCHANGED header

Stop ==
    /\ recording /\ recording' = FALSE
    /\ last_xy' = {} /\ recorded_points' = << >> /\ position' = {}
    /\ UNCHANGED <<header, rows, open, count, tears>>

Next ==
    \/ Prepare
    \/ PrepareTorn
    \/ \E p \in Positions : OnOdom(p) \/ OnOdomTorn(p)
    \/ Stop

Spec == Init /\ [][Next]_vars

-----------------------------------------------------------------------------
(* Properties.                                                             *)

(* The position a row gives is the one that was recorded for a waypoint.   *)
Driven(row) ==
    /\ {1, 2} \subseteq DOMAIN row
    /\ row[1].of = row[2].of /\ row[1].of # 0
    /\ row[1].column = 1 /\ row[2].column = 2

(* Two rows share a line: a run went on behind a torn one.                 *)
Continued(row) == \E i, j \in DOMAIN row : row[i].of # row[j].of

(* A route that loads was driven: each of its points was recorded, and     *)
(* each waypoint whose row was written is in it, except on lines where a   *)
(* later run went on behind a torn row, one for each tear.                 *)
LoadedIsDriven ==
    Loads => LET ghosts == {i \in DOMAIN rows : Continued(rows[i])} IN
             /\ Cardinality(ghosts) <= Cardinality(tears)
             /\ \A i \in DOMAIN rows \ ghosts : Driven(rows[i])
             /\ \A id \in 1 .. count \ tears :
                  \E i \in DOMAIN rows :
                     rows[i] = Row(id) \/ (i \in ghosts /\ Last(rows[i]).of = id)

(* However slowly the vehicle creeps, it is never a whole spacing away     *)
(* from the last waypoint it recorded; and waypoints are that far apart.   *)
CreepIsRecorded ==
    /\ \A p \in position : Within(p, Last(recorded_points))
    /\ \A i \in 1 .. Len(recorded_points) - 1 :
         ~Within(recorded_points[i], recorded_points[i + 1])

(* The route file that is taught is the route that is repeated.            *)
RouteIsDriven == LoadedIsDriven /\ CreepIsRecorded
=============================================================================
