----------------------------- MODULE RosTopics -----------------------------
(***************************************************************************)
(* The ROS 2 topics the nodes talk over, as the nodes use them: every      *)
(* create_publisher and create_subscription of the repository passes the   *)
(* QoS depth 10, which rclpy turns into reliable, volatile, KEEP_LAST(10). *)
(* A reader that falls behind keeps the newest Depth messages and loses    *)
(* the oldest; a reader that joins late gets nothing that was sent before. *)
(*                                                                         *)
(* A topic is a function from its readers to the messages each has not     *)
(* taken yet.                                                              *)
(***************************************************************************)
EXTENDS Naturals, Sequences

CONSTANT Depth          \* KEEP_LAST depth of a reader's queue (10 in the code)

ASSUME DepthAssumption == Depth \in Nat \ {0}

(* The queue q after the middleware hands it the message m. *)
KeepLast(q, m) ==
    IF Len(q) < Depth THEN Append(q, m) ELSE Append(Tail(q), m)

(* The topic after one message is published to every reader. *)
Publish(topic, m) == [r \in DOMAIN topic |-> KeepLast(topic[r], m)]

(* The topic after reader r takes its oldest message. *)
Take(topic, r) == [topic EXCEPT ![r] = Tail(@)]

(* The topic after reader r goes away: what it had not taken is lost. *)
Forget(topic, r) == [topic EXCEPT ![r] = << >>]
=============================================================================
