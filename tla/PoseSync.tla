------------------------------ MODULE PoseSync ------------------------------
(***************************************************************************)
(* gazebo_pose_sync_node.py: a timer moves the Gazebo entity to where      *)
(* odometry says the vehicle is, by a blocking call of the gz CLI that may *)
(* fail, or time out and still take effect, at once or later.  Gazebo      *)
(* serves the requests it has taken in order.  While the call blocks, no   *)
(* other callback runs, so in_flight is never seen set.                    *)
(*                                                                         *)
(* A pose is a place on a line.                                            *)
(***************************************************************************)
EXTENDS Integers

CONSTANTS
    MinDelta,           \* min_translation_delta_m, min_yaw_delta_rad
    Places              \* where the vehicle may be

VARIABLES
    latest_odom,        \* self.latest_odom, a set of at most one
    last_sent_pose,     \* self.last_sent_pose, a set of at most one
    entity,             \* where the entity is in Gazebo
    pending,            \* a request that timed out and may still take effect
    timed_out           \* history: a call timed out since the last that succeeded

vars == <<latest_odom, last_sent_pose, entity, pending, timed_out>>

Apart(p, q) == IF p < q THEN q - p ELSE p - q

(* Plausible bug: nothing was sent, so there is nothing to differ from.    *)
ShouldSendFirstNever(p) == \E q \in last_sent_pose : Apart(p, q) >= MinDelta

(* should_send_pose. *)
ShouldSend(p) == \A q \in last_sent_pose : Apart(p, q) >= MinDelta

Init ==
    /\ latest_odom = {} /\ last_sent_pose = {}
    /\ entity \in Places
    /\ pending = {} /\ timed_out = FALSE

OnOdom(p) ==
    /\ latest_odom' = {p}
    /\ UNCHANGED <<last_sent_pose, entity, pending, timed_out>>

(* _sync_pose when the call succeeds: what came before it is done as well. *)
SyncPose(p) ==
    /\ ShouldSend(p)
    /\ entity' = p /\ pending' = {}
    /\ last_sent_pose' = {p}
    /\ timed_out' = FALSE
    /\ UNCHANGED latest_odom

(* Plausible bug: the pose is remembered before the call.                  *)
SyncFailsRemembered(p) ==
    /\ ShouldSend(p)
    /\ last_sent_pose' = {p}
    /\ UNCHANGED <<latest_odom, entity, pending, timed_out>>

(* The CLI is missing, or answers with an error: SubprocessError, OSError. *)
SyncFails(p) ==
    /\ ShouldSend(p)
    /\ UNCHANGED vars

(* TimeoutExpired is a SubprocessError too; Gazebo may have the request.   *)
SyncTimesOut(p) ==
    /\ ShouldSend(p)
    /\ pending' = {p} /\ timed_out' = TRUE
    /\ UNCHANGED <<latest_odom, last_sent_pose, entity>>

TakesEffect ==
    /\ pending # {}
    /\ entity' \in pending /\ pending' = {}
    /\ UNCHANGED <<latest_odom, last_sent_pose, timed_out>>

Next ==
    \/ \E p \in Places : OnOdom(p)
    \/ \E p \in latest_odom : SyncPose(p) \/ SyncFails(p) \/ SyncTimesOut(p)
    \/ TakesEffect

Spec == Init /\ [][Next]_vars

-----------------------------------------------------------------------------
(* Properties.                                                             *)

(* The node knows where the entity is, unless a call timed out since the   *)
(* last one that succeeded.                                                *)
LastSentIsTrue == timed_out \/ \A p \in last_sent_pose : entity = p

(* A vehicle that stays where it is gets its entity close to it, for good, *)
(* if Gazebo answers now and then and no call timed out since.             *)
Close == \E p \in latest_odom : Apart(entity, p) < MinDelta
Stays(p) == <>[](latest_odom = {p})
EntityFollows == \A p \in Places : Stays(p) => <>[](Close \/ timed_out)
=============================================================================
