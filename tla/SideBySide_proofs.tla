------------------------- MODULE SideBySide_proofs -------------------------
(***************************************************************************)
(* What holds of the nodes checked side by side, for every range of speed  *)
(* and steering, every timeout and every set of places: the two vehicles   *)
(* keep their types and implement the promise of Hal, the pose last sent   *)
(* to Gazebo is where the entity is, and a route file that loads is the    *)
(* route that was driven.  Last, what LiDAR localization publishes, for    *)
(* every weight, limit and length of the history, all odometry and all     *)
(* scans.                                                                  *)
(***************************************************************************)
EXTENDS MCSideBySide, Sequences, TLAPS, SequenceTheorems, FiniteSetTheorems,
        WellFoundedInduction

(* The part of TypeOK about levels and time.                               *)
TwistLevels ==
    /\ latest_twist \in -MaxSpeed .. MaxSpeed
    /\ gz_command_age \in 0 .. CommandTimeout + 1
    /\ cmd_vel \in -MaxSpeed .. MaxSpeed

LEMMA TwistTypeParts == Gazebo!TypeOK <=> gz_estop \in BOOLEAN /\ TwistLevels
    BY Zenon DEF Gazebo!TypeOK, TwistLevels

(* cmd_drive_to_twist_values limits the speed in both directions.          *)
LEMMA LimitedInRange ==
    ASSUME MaxSpeed \in Nat, NEW v \in Gazebo!RequestedSpeeds
    PROVE  Gazebo!Limited(v) \in -MaxSpeed .. MaxSpeed
    BY DEF Gazebo!Limited, Gazebo!RequestedSpeeds

(* Every order of commands, ticks and time keeps the twists, in Gazebo as  *)
(* in the node, within the limits.                                         *)
THEOREM GazeboTypeCorrect ==
    ASSUME MaxSpeed \in Nat, CommandTimeout \in Nat
    PROVE  Gazebo!Spec => []Gazebo!TypeOK
<1>1. Gazebo!Init => Gazebo!TypeOK
  <2> SUFFICES ASSUME Gazebo!Init PROVE gz_estop \in BOOLEAN /\ TwistLevels
      BY TwistTypeParts
  <2>1. gz_estop \in BOOLEAN
      BY DEF Gazebo!Init
  <2>2. latest_twist = 0 /\ gz_command_age = CommandTimeout + 1 /\ cmd_vel = 0
      BY Zenon DEF Gazebo!Init
  <2> QED
      BY <2>1, <2>2 DEF TwistLevels
<1>2. Gazebo!TypeOK /\ [Gazebo!Next]_(Gazebo!gazeboVars) => Gazebo!TypeOK'
  <2> SUFFICES ASSUME gz_estop \in BOOLEAN, TwistLevels, [Gazebo!Next]_(Gazebo!gazeboVars)
               PROVE  gz_estop' \in BOOLEAN /\ TwistLevels'
      BY TwistTypeParts, Zenon DEF Gazebo!TypeOK, TwistLevels
  <2>1. ASSUME NEW speed \in Gazebo!RequestedSpeeds, Gazebo!OnCmdDrive(speed)
        PROVE  gz_estop' \in BOOLEAN /\ TwistLevels'
    <3>1. TwistLevels'
        BY <2>1, LimitedInRange DEF TwistLevels, Gazebo!OnCmdDrive
    <3> QED
        BY <2>1, <3>1 DEF Gazebo!OnCmdDrive
  <2>2. CASE Gazebo!Tick
    <3>1. TwistLevels'
        BY <2>2 DEF TwistLevels, Gazebo!Tick
    <3> QED
        BY <2>2, <3>1 DEF Gazebo!Tick
  <2>3. CASE Gazebo!TimePasses
    <3>1. TwistLevels'
        BY <2>3 DEF TwistLevels, Gazebo!TimePasses, Gazebo!Stale
    <3> QED
        BY <2>3, <3>1 DEF Gazebo!TimePasses
  <2>4. CASE Gazebo!EstopPublished
      BY <2>4 DEF TwistLevels, Gazebo!EstopPublished
  <2>5. CASE UNCHANGED Gazebo!gazeboVars
      BY <2>5 DEF TwistLevels, Gazebo!gazeboVars
  <2> QED
      BY <2>1, <2>2, <2>3, <2>4, <2>5 DEF Gazebo!Next
<1> QED
    BY <1>1, <1>2, PTL DEF Gazebo!Spec

(* A tick jumps to its target, and stays when it is there.                 *)
LEMMA JumpIsToward ==
    ASSUME NEW v \in -MaxSpeed .. MaxSpeed, NEW t \in -MaxSpeed .. MaxSpeed, MaxSpeed \in Nat
    PROVE  t \in Gazebo!Commanded!Toward(v, t)
    BY DEF Gazebo!Commanded!Toward

(* What is published to Gazebo moves only toward a command that is not     *)
(* stale, and to zero otherwise (_tick).                                   *)
THEOREM GazeboImplementsHal ==
    ASSUME MaxSpeed \in Nat, CommandTimeout \in Nat
    PROVE  Gazebo!Spec => CommandedSpec
<1>1. Gazebo!Init => Gazebo!Commanded!HalInit
    BY DEF Gazebo!Init, Gazebo!Commanded!HalInit, Gazebo!Command, Gazebo!Stale
<1>2. Gazebo!TypeOK /\ Gazebo!TypeOK' /\ [Gazebo!Next]_(Gazebo!gazeboVars)
        => [Gazebo!Commanded!TakeEstop \/ Gazebo!Commanded!TakeCommand
            \/ Gazebo!Commanded!CommandExpires \/ Gazebo!Commanded!Move]_(Gazebo!Commanded!halVars)
  <2> SUFFICES ASSUME Gazebo!TypeOK, Gazebo!TypeOK', [Gazebo!Next]_(Gazebo!gazeboVars)
               PROVE  [Gazebo!Commanded!TakeEstop \/ Gazebo!Commanded!TakeCommand
                       \/ Gazebo!Commanded!CommandExpires \/ Gazebo!Commanded!Move]_(Gazebo!Commanded!halVars)
      OBVIOUS
  <2>1. ASSUME NEW speed \in Gazebo!RequestedSpeeds, Gazebo!OnCmdDrive(speed)
        PROVE  Gazebo!Commanded!TakeCommand
    <3>1. Gazebo!Command' = {latest_twist'} /\ latest_twist' \in -MaxSpeed .. MaxSpeed
        BY <2>1 DEF Gazebo!TypeOK, Gazebo!OnCmdDrive, Gazebo!Command, Gazebo!Stale
    <3> QED
        BY <2>1, <3>1 DEF Gazebo!OnCmdDrive, Gazebo!Commanded!TakeCommand
  <2>2. CASE Gazebo!Tick
    <3>1. Gazebo!Command' = Gazebo!Command
        BY <2>2 DEF Gazebo!Tick, Gazebo!Command, Gazebo!Stale
    <3>2. PICK t \in Gazebo!Commanded!Targets : cmd_vel' = t /\ t \in -MaxSpeed .. MaxSpeed
        BY <2>2 DEF Gazebo!Tick, Gazebo!TypeOK, Gazebo!Commanded!Targets, Gazebo!Command
    <3>3. cmd_vel' \in Gazebo!Commanded!Toward(cmd_vel, t)
        BY <3>2, JumpIsToward DEF Gazebo!TypeOK
    <3> QED
        BY <3>1, <3>2, <3>3 DEF Gazebo!Commanded!Move
  <2>3. CASE Gazebo!TimePasses
    <3>1. CASE Gazebo!Stale' <=> Gazebo!Stale
        BY <2>3, <3>1 DEF Gazebo!TimePasses, Gazebo!Command, Gazebo!Commanded!halVars
    <3>2. CASE ~(Gazebo!Stale' <=> Gazebo!Stale)
      <4>1. Gazebo!Stale'
          BY <2>3, <3>2 DEF Gazebo!TypeOK, Gazebo!TimePasses, Gazebo!Stale
      <4> QED
          BY <2>3, <4>1 DEF Gazebo!TimePasses, Gazebo!Command, Gazebo!Commanded!CommandExpires
    <3> QED
        BY <3>1, <3>2
  <2>4. CASE Gazebo!EstopPublished
      BY <2>4 DEF Gazebo!EstopPublished, Gazebo!Command, Gazebo!Stale, Gazebo!Commanded!halVars
  <2>5. CASE UNCHANGED Gazebo!gazeboVars
      BY <2>5 DEF Gazebo!gazeboVars, Gazebo!Command, Gazebo!Stale, Gazebo!Commanded!halVars
  <2> QED
      BY <2>1, <2>2, <2>3, <2>4, <2>5 DEF Gazebo!Next
<1> QED
    BY <1>1, <1>2, GazeboTypeCorrect, PTL
    DEF Gazebo!Spec, CommandedSpec, Gazebo!CommandedSpec, Gazebo!Commanded!HalSpec

-----------------------------------------------------------------------------
(* A request can be under way only after a call that timed out.            *)
SentOrLate ==
    /\ pending # {} => timed_out
    /\ LastSentIsTrue

(* Whatever odometry comes, and in whatever order calls succeed, fail,     *)
(* time out and take effect late, last_sent_pose is where the entity is    *)
(* unless a call timed out since the last that succeeded (_sync_pose).     *)
THEOREM LastSentAlwaysTrue == Sync!Spec => []LastSentIsTrue
<1>1. Sync!Init => SentOrLate
    BY DEF Sync!Init, SentOrLate, LastSentIsTrue, Sync!LastSentIsTrue
<1>2. SentOrLate /\ [Sync!Next]_(Sync!vars) => SentOrLate'
  <2> SUFFICES ASSUME SentOrLate, [Sync!Next]_(Sync!vars)
               PROVE  SentOrLate'
      OBVIOUS
  <2> USE DEF SentOrLate, LastSentIsTrue, Sync!LastSentIsTrue
  <2>1. ASSUME NEW p \in Places, Sync!OnOdom(p)
        PROVE  SentOrLate'
      BY <2>1 DEF Sync!OnOdom
  <2>2. ASSUME NEW p \in latest_odom, Sync!SyncPose(p)
        PROVE  SentOrLate'
      BY <2>2 DEF Sync!SyncPose
  <2>3. ASSUME NEW p \in latest_odom, Sync!SyncFails(p)
        PROVE  SentOrLate'
      BY <2>3 DEF Sync!SyncFails, Sync!vars
  <2>4. ASSUME NEW p \in latest_odom, Sync!SyncTimesOut(p)
        PROVE  SentOrLate'
      BY <2>4 DEF Sync!SyncTimesOut
  <2>5. CASE Sync!TakesEffect
      BY <2>5 DEF Sync!TakesEffect
  <2>6. CASE UNCHANGED Sync!vars
      BY <2>6 DEF Sync!vars
  <2> QED
      BY <2>1, <2>2, <2>3, <2>4, <2>5, <2>6 DEF Sync!Next
<1>3. SentOrLate => LastSentIsTrue
    BY DEF SentOrLate
<1> QED
    BY <1>1, <1>2, <1>3, PTL DEF Sync!Spec

-----------------------------------------------------------------------------
(* The route file of the path recorder: its lines.                         *)

Fields == [of : Nat, column : 0 .. 4, text : {"num", "int", "frac", "empty", "bad"}]

LEMMA FieldParts ==
    ASSUME NEW id, NEW k, NEW kind
    PROVE  /\ Recorder!Field(id, k, kind).of = id
           /\ Recorder!Field(id, k, kind).column = k
           /\ Recorder!Field(id, k, kind).text = kind
    BY DEF Recorder!Field

(* What the beginning of a field becomes with a whole number behind it.    *)
LEMMA JoinedFacts ==
    ASSUME NEW f, NEW g, f.text \in {"empty", "int", "frac"},
           NEW h \in Recorder!Joined(f, g)
    PROVE  /\ f.text = "empty" => h = Recorder!Field(g.of, g.column, "num")
           /\ f.text # "empty" =>
                 h = Recorder!Field(0, 0, "num") \/ h = Recorder!Field(0, 0, "bad")
<1>1. CASE f.text = "empty"
    BY <1>1 DEF Recorder!Joined
<1>2. CASE f.text = "int"
    BY <1>2 DEF Recorder!Joined
<1>3. CASE f.text = "frac"
    BY <1>3 DEF Recorder!Joined
<1> QED
    BY <1>1, <1>2, <1>3

LEMMA FieldIsField ==
    ASSUME NEW id \in Nat, NEW k \in 0 .. 4,
           NEW kind \in {"num", "int", "frac", "empty", "bad"}
    PROVE  /\ Recorder!Field(id, k, kind) \in Fields
           /\ Recorder!Field(id, k, kind).of = id
           /\ Recorder!Field(id, k, kind).column = k
           /\ Recorder!Field(id, k, kind).text = kind
    BY DEF Recorder!Field, Fields

LEMMA RowFacts ==
    ASSUME NEW id \in Nat
    PROVE  /\ Recorder!Row(id) \in Seq(Fields) /\ Len(Recorder!Row(id)) = 4
           /\ Recorder!Row(id) # << >>
           /\ DOMAIN Recorder!Row(id) = 1 .. 4
           /\ \A k \in 1 .. 4 : Recorder!Row(id)[k] = Recorder!Field(id, k, "num")
<1>1. \A k \in 1 .. 4 : Recorder!Field(id, k, "num") \in Fields
    BY FieldIsField
<1>2. Recorder!Row(id) = [k \in 1 .. 4 |-> Recorder!Field(id, k, "num")]
    BY DEF Recorder!Row, Recorder!Columns
<1>3. Recorder!Row(id) \in [1 .. 4 -> Fields]
    BY <1>1, <1>2
<1>4. Recorder!Row(id) \in Seq(Fields)
    BY <1>3, SeqDef
<1>5. DOMAIN Recorder!Row(id) = 1 .. 4
    BY <1>2
<1>6. Len(Recorder!Row(id)) = 4
    BY <1>4, <1>5, LenProperties
<1>7. Recorder!Row(id) # << >>
    BY <1>6, EmptySeq
<1> QED
    BY <1>2, <1>4, <1>5, <1>6, <1>7

LEMMA BeginningFacts ==
    ASSUME NEW id \in Nat, NEW b \in Recorder!Beginnings(id)
    PROVE  \E k \in 0 .. 3, kind \in {"empty", "int", "frac"} :
              /\ b \in Seq(Fields) /\ Len(b) = k + 1
              /\ \A j \in 1 .. k : b[j] = Recorder!Field(id, j, "num")
              /\ b[k + 1] = Recorder!Field(id, k + 1, kind)
              /\ Recorder!Front(b) \in Seq(Fields) /\ Len(Recorder!Front(b)) = k
              /\ \A j \in 1 .. k : Recorder!Front(b)[j] = Recorder!Field(id, j, "num")
              /\ Recorder!Last(b) = Recorder!Field(id, k + 1, kind)
<1>1. PICK k \in 0 .. 3, kind \in {"empty", "int", "frac"} :
          b = Append(SubSeq(Recorder!Row(id), 1, k), Recorder!Field(id, k + 1, kind))
    BY DEF Recorder!Beginnings
<1> DEFINE head == SubSeq(Recorder!Row(id), 1, k)
           last == Recorder!Field(id, k + 1, kind)
<1>2. \A j \in 1 .. k : Recorder!Row(id)[j] \in Fields
      /\ Recorder!Row(id)[j] = Recorder!Field(id, j, "num")
  <2> SUFFICES ASSUME NEW j \in 1 .. k
               PROVE  Recorder!Row(id)[j] \in Fields
                      /\ Recorder!Row(id)[j] = Recorder!Field(id, j, "num")
      OBVIOUS
  <2>1. j \in 1 .. 4 /\ j \in 0 .. 4
      OBVIOUS
  <2>2. Recorder!Row(id)[j] = Recorder!Field(id, j, "num")
      BY <2>1, RowFacts
  <2> QED
      BY <2>1, <2>2, FieldIsField
<1>3. /\ head \in Seq(Fields) /\ Len(head) = k
      /\ \A j \in 1 .. k : head[j] = Recorder!Field(id, j, "num")
  <2>1. /\ head \in Seq(Fields)
        /\ Len(head) = IF 1 <= k THEN k - 1 + 1 ELSE 0
        /\ \A i \in 1 .. k - 1 + 1 : head[i] = Recorder!Row(id)[1 + i - 1]
      BY <1>2, SubSeqProperties
  <2> QED
      BY <1>2, <2>1
<1>4. last \in Fields
    BY FieldIsField
<1> HIDE DEF head, last
<1>5. /\ b \in Seq(Fields) /\ Len(b) = k + 1
      /\ \A j \in 1 .. k : b[j] = Recorder!Field(id, j, "num")
      /\ b[k + 1] = last
    BY <1>1, <1>3, <1>4, AppendProperties DEF head, last
<1>6. /\ Recorder!Front(b) \in Seq(Fields) /\ Len(Recorder!Front(b)) = k
      /\ \A j \in 1 .. k : Recorder!Front(b)[j] = Recorder!Field(id, j, "num")
  <2>1. \A j \in 1 .. k : b[j] \in Fields
      BY <1>2, <1>5
  <2>2. Recorder!Front(b) = SubSeq(b, 1, k)
      BY <1>5 DEF Recorder!Front
  <2>3. /\ SubSeq(b, 1, k) \in Seq(Fields)
        /\ Len(SubSeq(b, 1, k)) = IF 1 <= k THEN k - 1 + 1 ELSE 0
        /\ \A i \in 1 .. k - 1 + 1 : SubSeq(b, 1, k)[i] = b[1 + i - 1]
      BY <2>1, SubSeqProperties
  <2> QED
      BY <1>5, <2>2, <2>3
<1>7. Recorder!Last(b) = last
    BY <1>5 DEF Recorder!Last
<1> QED
    BY <1>5, <1>6, <1>7 DEF last

(* A front of k fields, one more, and three.                               *)
Made(r, front, f, rest) == r = (front \o <<f>>) \o rest
MadeOf(r, S, front, k, f, rest) ==
    /\ r \in Seq(S) /\ Len(r) = k + 4
    /\ \A j \in 1 .. k : r[j] = front[j]
    /\ r[k + 1] = f
    /\ \A j \in 1 .. 3 : r[k + 1 + j] = rest[j]

LEMMA ThreeParts ==
    ASSUME NEW S, NEW front \in Seq(S), NEW k \in Nat, Len(front) = k, NEW f \in S,
           NEW rest \in Seq(S), Len(rest) = 3,
           NEW r, Made(r, front, f, rest)
    PROVE  MadeOf(r, S, front, k, f, rest)
<1> DEFINE left == front \o <<f>>
<1>1. <<f>> \in Seq(S) /\ Len(<<f>>) = 1 /\ <<f>>[1] = f
    OBVIOUS
<1>2. /\ left \in Seq(S) /\ Len(left) = k + 1
      /\ \A j \in 1 .. k + 1 : left[j] = IF j <= k THEN front[j] ELSE <<f>>[j - k]
    BY <1>1, ConcatProperties
<1>3. r = left \o rest
    BY DEF Made
<1> HIDE DEF left
<1>4. /\ r \in Seq(S) /\ Len(r) = k + 1 + 3
      /\ \A j \in 1 .. k + 1 + 3 :
                 r[j] = IF j <= k + 1 THEN left[j] ELSE rest[j - (k + 1)]
  <2>0. left \in Seq(S)
      BY <1>2
  <2>1. /\ left \o rest \in Seq(S)
        /\ Len(left \o rest) = Len(left) + Len(rest)
        /\ \A i \in 1 .. Len(left) + Len(rest) : (left \o rest)[i] =
                IF i <= Len(left) THEN left[i] ELSE rest[i - Len(left)]
      BY <2>0, ConcatProperties, Zenon
  <2>2. Len(left) = k + 1 /\ Len(rest) = 3
      BY <1>2
  <2> QED
      BY <1>3, <2>1, <2>2
<1>5. ASSUME NEW j \in 1 .. k PROVE r[j] = front[j]
    BY <1>2, <1>4
<1>6. r[k + 1] = f
  <2>1. left[k + 1] = <<f>>[k + 1 - k] /\ k + 1 - k = 1
      BY <1>2
  <2>2. r[k + 1] = left[k + 1]
      BY <1>4
  <2> QED
      BY <1>1, <2>1, <2>2
<1>7. ASSUME NEW j \in 1 .. 3 PROVE r[k + 1 + j] = rest[j]
  <2>1. k + 1 + j \in 1 .. k + 1 + 3 /\ ~(k + 1 + j <= k + 1) /\ k + 1 + j - (k + 1) = j
      OBVIOUS
  <2> QED
      BY <1>4, <2>1
<1> QED
    BY <1>4, <1>5, <1>6, <1>7 DEF MadeOf

(* Such a line is one that two waypoints share, or the second one's row.   *)
SharedBy(r, old, new, k) ==
    /\ Len(r) = k + 4
    /\ \A j \in 1 .. k : r[j] = Recorder!Field(old, j, "num")
    /\ \A j \in 1 .. 3 : r[k + 1 + j] = Recorder!Field(new, j + 1, "num")
    /\ k = 0 => r[1].of = 0 \/ r[1] = Recorder!Field(new, 1, "num")

LEMMA JoinedShape ==
    ASSUME NEW old \in Nat, NEW new \in Nat, old # new, NEW k \in Nat, k <= 3,
           NEW r \in Seq(Fields), SharedBy(r, old, new, k), new # 0
    PROVE  /\ r # << >> /\ Recorder!Last(r).of = new
           /\ Recorder!Continued(r) \/ r = Recorder!Row(new)
<1> USE DEF SharedBy
<1>1. r # << >> /\ DOMAIN r = 1 .. k + 4 /\ Len(r) \in Nat
    BY LenProperties, EmptySeq
<1>2. r[k + 4] = Recorder!Field(new, 4, "num")
  <2>1. r[k + 1 + 3] = Recorder!Field(new, 3 + 1, "num")
      OBVIOUS
  <2>2. k + 1 + 3 = k + 4 /\ 3 + 1 = 4
      OBVIOUS
  <2> QED
      BY <2>1, <2>2
<1>3. Recorder!Last(r) = Recorder!Field(new, 4, "num")
    BY <1>2 DEF Recorder!Last
<1>4. Recorder!Last(r).of = new /\ r[k + 4].of = new
    BY <1>2, <1>3, FieldParts
<1>5. CASE k = 0 /\ r[1] = Recorder!Field(new, 1, "num")
  <2>1. r[1] = Recorder!Field(new, 1, "num")
      BY <1>5
  <2>2. ASSUME NEW j \in 1 .. 3 PROVE r[j + 1] = Recorder!Field(new, j + 1, "num")
    <3>1. k + 1 + j = j + 1
        BY <1>5
    <3> QED
        BY <3>1
  <2>3. r[2] = Recorder!Field(new, 2, "num") /\ r[3] = Recorder!Field(new, 3, "num")
        /\ r[4] = Recorder!Field(new, 4, "num")
    <3>1. r[1 + 1] = Recorder!Field(new, 1 + 1, "num")
          /\ r[2 + 1] = Recorder!Field(new, 2 + 1, "num")
          /\ r[3 + 1] = Recorder!Field(new, 3 + 1, "num")
        BY <2>2
    <3> QED
        BY <3>1
  <2>4. \A j \in 1 .. 4 : r[j] = Recorder!Row(new)[j]
    <3> SUFFICES ASSUME NEW j \in 1 .. 4 PROVE r[j] = Recorder!Row(new)[j]
        OBVIOUS
    <3>1. Recorder!Row(new)[j] = Recorder!Field(new, j, "num")
        BY RowFacts
    <3>2. j = 1 \/ j = 2 \/ j = 3 \/ j = 4
        OBVIOUS
    <3> QED
        BY <2>1, <2>3, <3>1, <3>2
  <2>5. Len(r) = Len(Recorder!Row(new)) /\ Recorder!Row(new) \in Seq(Fields) /\ Len(r) = 4
      BY <1>5, RowFacts
  <2>6. r = Recorder!Row(new)
      BY <2>4, <2>5, SeqEqual
  <2> QED
      BY <1>1, <1>4, <2>6
<1>6. CASE ~(k = 0 /\ r[1] = Recorder!Field(new, 1, "num"))
  <2>1. r[1].of # new
    <3>1. CASE k = 0
      <4>1. r[1].of = 0
          BY <1>6, <3>1
      <4> QED
          BY <4>1
    <3>2. CASE k > 0
      <4>1. 1 \in 1 .. k
          BY <3>2
      <4>2. r[1] = Recorder!Field(old, 1, "num")
          BY <4>1
      <4> QED
          BY <4>2, FieldParts
    <3> QED
        BY <3>1, <3>2
  <2>2. 1 \in DOMAIN r /\ k + 4 \in DOMAIN r
      BY <1>1
  <2>3. Recorder!Continued(r)
      BY <1>4, <2>1, <2>2 DEF Recorder!Continued
  <2> QED
      BY <1>1, <1>4, <2>3
<1> QED
    BY <1>5, <1>6

(* A row appended to an open line: the line now ends in the waypoint of    *)
(* the row, and either two waypoints share it or nothing of the lost one   *)
(* is left.                                                                *)
Joins(r, b, f, new) == r = Recorder!Front(b) \o <<f>> \o Tail(Recorder!Row(new))

LEMMA JoinedLine ==
    ASSUME NEW old \in Nat, NEW new \in Nat, old # 0, new # 0, old # new,
           NEW b \in Recorder!Beginnings(old),
           NEW f \in Recorder!Joined(Recorder!Last(b), Head(Recorder!Row(new))),
           NEW r, Joins(r, b, f, new)
    PROVE  /\ r \in Seq(Fields) /\ r # << >> /\ Recorder!Last(r).of = new
           /\ Recorder!Continued(r) \/ r = Recorder!Row(new)
<1> DEFINE rest == Tail(Recorder!Row(new))
<1>1. PICK k \in 0 .. 3, kind \in {"empty", "int", "frac"} :
              /\ Recorder!Front(b) \in Seq(Fields) /\ Len(Recorder!Front(b)) = k
              /\ \A j \in 1 .. k : Recorder!Front(b)[j] = Recorder!Field(old, j, "num")
              /\ Recorder!Last(b) = Recorder!Field(old, k + 1, kind)
    BY BeginningFacts
<1>k. k \in Nat /\ k <= 3
    OBVIOUS
<1>2. Head(Recorder!Row(new)) = Recorder!Field(new, 1, "num")
    BY RowFacts
<1>3. /\ f \in Fields
      /\ kind = "empty" => f = Recorder!Field(new, 1, "num")
      /\ kind # "empty" => f.of = 0
  <2>1. Recorder!Last(b).text = kind
      BY <1>1, FieldParts
  <2>2. Head(Recorder!Row(new)).of = new /\ Head(Recorder!Row(new)).column = 1
      BY <1>2, FieldParts
  <2>3. /\ kind = "empty" => f = Recorder!Field(new, 1, "num")
        /\ kind # "empty" =>
              f = Recorder!Field(0, 0, "num") \/ f = Recorder!Field(0, 0, "bad")
      BY <2>1, <2>2, JoinedFacts
  <2>4. Recorder!Field(0, 0, "num").of = 0 /\ Recorder!Field(0, 0, "bad").of = 0
      BY FieldParts
  <2>5. /\ Recorder!Field(new, 1, "num") \in Fields
        /\ Recorder!Field(0, 0, "num") \in Fields
        /\ Recorder!Field(0, 0, "bad") \in Fields
      BY FieldIsField
  <2> QED
      BY <2>3, <2>4, <2>5
<1>4. /\ rest \in Seq(Fields) /\ Len(rest) = 3
      /\ \A j \in 1 .. 3 : rest[j] = Recorder!Field(new, j + 1, "num")
  <2>1. /\ Recorder!Row(new) \in Seq(Fields) /\ Len(Recorder!Row(new)) = 4
        /\ Recorder!Row(new) # << >>
        /\ \A j \in 1 .. 4 : Recorder!Row(new)[j] = Recorder!Field(new, j, "num")
      BY RowFacts
  <2>2. /\ rest \in Seq(Fields) /\ Len(rest) = Len(Recorder!Row(new)) - 1
        /\ \A j \in 1 .. Len(rest) : rest[j] = Recorder!Row(new)[j + 1]
      BY <2>1, HeadTailProperties
  <2> HIDE DEF rest
  <2>3. \A j \in 1 .. 3 : rest[j] = Recorder!Row(new)[j + 1] /\ j + 1 \in 1 .. 4
      BY <2>1, <2>2
  <2>4. \A j \in 1 .. 3 : rest[j] = Recorder!Field(new, j + 1, "num")
      BY <2>1, <2>3
  <2> QED
      BY <2>1, <2>2, <2>4
<1>5. r = (Recorder!Front(b) \o <<f>>) \o rest
    BY DEF Joins
<1> HIDE DEF rest
<1>6. /\ r \in Seq(Fields) /\ Len(r) = k + 4
      /\ \A j \in 1 .. k : r[j] = Recorder!Front(b)[j]
      /\ r[k + 1] = f
      /\ \A j \in 1 .. 3 : r[k + 1 + j] = rest[j]
  <2>1. Recorder!Front(b) \in Seq(Fields) /\ Len(Recorder!Front(b)) = k
      BY <1>1
  <2>2. f \in Fields
      BY <1>3
  <2>3. rest \in Seq(Fields) /\ Len(rest) = 3
      BY <1>4
  <2> DEFINE front == Recorder!Front(b)
  <2>4. Made(r, front, f, rest)
      BY <1>5 DEF Made
  <2> HIDE DEF front
  <2>5. front \in Seq(Fields) /\ Len(front) = k
      BY <2>1 DEF front
  <2>6. MadeOf(r, Fields, front, k, f, rest)
      BY <1>k, <2>2, <2>3, <2>4, <2>5, ThreeParts
  <2> QED
      BY <2>6 DEF front, MadeOf
<1>7. \A j \in 1 .. k : r[j] = Recorder!Field(old, j, "num")
    BY <1>1, <1>6
<1>8. \A j \in 1 .. 3 : r[k + 1 + j] = Recorder!Field(new, j + 1, "num")
    BY <1>4, <1>6
<1>9. k = 0 => r[1].of = 0 \/ r[1] = Recorder!Field(new, 1, "num")
  <2> SUFFICES ASSUME k = 0 PROVE r[1].of = 0 \/ r[1] = Recorder!Field(new, 1, "num")
      OBVIOUS
  <2>1. k + 1 = 1
      OBVIOUS
  <2>2. r[1] = f
      BY <1>6, <2>1
  <2> QED
      BY <1>3, <2>2
<1>10. SharedBy(r, old, new, k) /\ r \in Seq(Fields)
    BY <1>6, <1>7, <1>8, <1>9 DEF SharedBy
<1>11. /\ r # << >> /\ Recorder!Last(r).of = new
       /\ Recorder!Continued(r) \/ r = Recorder!Row(new)
    BY <1>k, <1>10, JoinedShape
<1> QED
    BY <1>10, <1>11

(* No beginning of a row is shared, and one that reads as a waypoint gives *)
(* the position of its row: only its last number may be cut short.         *)
LEMMA BeginningReads ==
    ASSUME NEW id \in Nat, NEW b \in Recorder!Beginnings(id)
    PROVE  /\ b \in Seq(Fields) /\ ~Recorder!Continued(b)
           /\ Recorder!Readable(b) /\ id # 0 => Recorder!Driven(b)
<1>1. PICK k \in 0 .. 3, kind \in {"empty", "int", "frac"} :
              /\ b \in Seq(Fields) /\ Len(b) = k + 1
              /\ \A j \in 1 .. k : b[j] = Recorder!Field(id, j, "num")
              /\ b[k + 1] = Recorder!Field(id, k + 1, kind)
    BY BeginningFacts
<1>2. DOMAIN b = 1 .. k + 1
    BY <1>1, LenProperties
<1>3. ASSUME NEW j \in 1 .. k + 1 PROVE b[j].of = id /\ b[j].column = j
  <2>1. CASE j \in 1 .. k
    <3>1. b[j] = Recorder!Field(id, j, "num")
        BY <1>1, <2>1
    <3> QED
        BY <3>1, FieldParts
  <2>2. CASE j = k + 1
      BY <1>1, <2>2, FieldParts
  <2> QED
      BY <2>1, <2>2
<1>4. ~Recorder!Continued(b)
    BY <1>2, <1>3 DEF Recorder!Continued
<1>5. ASSUME Recorder!Readable(b), id # 0 PROVE Recorder!Driven(b)
  <2>1. 4 \in DOMAIN b
      BY <1>5 DEF Recorder!Readable, Recorder!Columns
  <2>2. 1 \in 1 .. k + 1 /\ 2 \in 1 .. k + 1
      BY <1>2, <2>1
  <2>3. b[1].of = id /\ b[1].column = 1 /\ b[2].of = id /\ b[2].column = 2
      BY <1>3, <2>2
  <2>4. {1, 2} \subseteq DOMAIN b
      BY <1>2, <2>2
  <2> QED
      BY <1>5, <2>3, <2>4 DEF Recorder!Driven
<1> QED
    BY <1>1, <1>4, <1>5

LEMMA RowEnds ==
    ASSUME NEW id \in Nat PROVE Recorder!Last(Recorder!Row(id)).of = id
<1>1. Len(Recorder!Row(id)) = 4 /\ Recorder!Row(id)[4] = Recorder!Field(id, 4, "num")
    BY RowFacts
<1>2. Recorder!Last(Recorder!Row(id)) = Recorder!Field(id, 4, "num")
    BY <1>1 DEF Recorder!Last
<1> QED
    BY <1>2, FieldParts

LEMMA RowReads ==
    ASSUME NEW id \in Nat
    PROVE  ~Recorder!Continued(Recorder!Row(id))
           /\ (id # 0 => Recorder!Driven(Recorder!Row(id)))
<1>1. /\ DOMAIN Recorder!Row(id) = 1 .. 4
      /\ \A k \in 1 .. 4 : Recorder!Row(id)[k] = Recorder!Field(id, k, "num")
    BY RowFacts
<1>2. \A k \in 1 .. 4 : Recorder!Row(id)[k].of = id /\ Recorder!Row(id)[k].column = k
    BY <1>1, FieldParts
<1>3. ~Recorder!Continued(Recorder!Row(id))
    BY <1>1, <1>2 DEF Recorder!Continued
<1>4. Recorder!Row(id)[1].of = id /\ Recorder!Row(id)[1].column = 1
      /\ Recorder!Row(id)[2].of = id /\ Recorder!Row(id)[2].column = 2
    BY <1>2
<1>5. {1, 2} \subseteq DOMAIN Recorder!Row(id)
    BY <1>1
<1> QED
    BY <1>3, <1>4, <1>5 DEF Recorder!Driven

-----------------------------------------------------------------------------
(* The file.                                                               *)

Ghosts(lines) == {i \in DOMAIN lines : Recorder!Continued(lines[i])}

(* A line keeps a waypoint: it is its row, or ends in it.                  *)
Keeps(row, id) == row = Recorder!Row(id)
    \/ (Recorder!Continued(row) /\ Recorder!Last(row).of = id)

KeepsOne(row, n) == Recorder!Continued(row) \/ \E id \in 1 .. n : row = Recorder!Row(id)
KeptIn(lines, id) == \E i \in 1 .. Len(lines) : Keeps(lines[i], id)

(* The lines of a file that ends in a line end: n waypoints were written,  *)
(* of which those in lost may be missing, and at most k lines are shared.  *)
Whole(lines, n, lost, k) ==
    /\ lines \in Seq(Seq(Fields))
    /\ \A i \in 1 .. Len(lines) : KeepsOne(lines[i], n)
    /\ \A id \in (1 .. n) \ lost : KeptIn(lines, id)
    /\ IsFiniteSet(Ghosts(lines)) /\ Cardinality(Ghosts(lines)) <= k

LEMMA GhostsOfAppend ==
    ASSUME NEW g \in Seq(Seq(Fields)), NEW r \in Seq(Fields)
    PROVE  /\ Recorder!Continued(r) => Ghosts(Append(g, r)) = Ghosts(g) \cup {Len(g) + 1}
           /\ ~Recorder!Continued(r) => Ghosts(Append(g, r)) = Ghosts(g)
           /\ Len(g) + 1 \notin Ghosts(g)
<1> DEFINE all == Append(g, r)
<1>1. /\ all \in Seq(Seq(Fields)) /\ Len(all) = Len(g) + 1
      /\ \A i \in 1 .. Len(g) : all[i] = g[i]
      /\ all[Len(g) + 1] = r
    BY AppendProperties
<1> HIDE DEF all
<1>2. /\ DOMAIN all = 1 .. Len(g) + 1 /\ DOMAIN g = 1 .. Len(g) /\ Len(g) \in Nat
    BY <1>1, LenProperties
<1>3. ASSUME NEW i \in 1 .. Len(g) PROVE i \in Ghosts(all) <=> i \in Ghosts(g)
  <2>1. all[i] = g[i] /\ i \in DOMAIN all /\ i \in DOMAIN g
      BY <1>1, <1>2
  <2> QED
      BY <2>1, Zenon DEF Ghosts
<1>4. Len(g) + 1 \in Ghosts(all) <=> Recorder!Continued(r)
  <2>1. all[Len(g) + 1] = r /\ Len(g) + 1 \in DOMAIN all
      BY <1>1, <1>2
  <2> QED
      BY <2>1, Zenon DEF Ghosts
<1>5. Ghosts(all) \subseteq 1 .. Len(g) + 1 /\ Ghosts(g) \subseteq 1 .. Len(g)
    BY <1>2 DEF Ghosts
<1>6. \A i \in 1 .. Len(g) + 1 : i \in 1 .. Len(g) \/ i = Len(g) + 1
    BY <1>2
<1>7. Len(g) + 1 \notin Ghosts(g)
    BY <1>2, <1>5
<1>8. Recorder!Continued(r) => Ghosts(all) = Ghosts(g) \cup {Len(g) + 1}
    BY <1>3, <1>4, <1>5, <1>6
<1>9. ~Recorder!Continued(r) => Ghosts(all) = Ghosts(g)
    BY <1>3, <1>4, <1>5, <1>6, <1>7
<1> QED
    BY <1>7, <1>8, <1>9 DEF all

(* The n-th waypoint goes on the last line.                                *)
LEMMA LineAppended ==
    ASSUME NEW n \in Nat, NEW lost, NEW k \in Int, NEW kk \in Int,
           NEW g, Whole(g, n, lost, k),
           NEW r \in Seq(Fields), Recorder!Last(r).of = n + 1,
           Recorder!Continued(r) \/ r = Recorder!Row(n + 1),
           Recorder!Continued(r) => k + 1 <= kk, k <= kk
    PROVE  Whole(Append(g, r), n + 1, lost, kk)
<1> DEFINE all == Append(g, r)
<1>1. g \in Seq(Seq(Fields)) /\ Len(g) \in Nat
    BY LenProperties DEF Whole
<1>2. /\ all \in Seq(Seq(Fields)) /\ Len(all) = Len(g) + 1
      /\ \A i \in 1 .. Len(g) : all[i] = g[i]
      /\ all[Len(g) + 1] = r
    BY <1>1, AppendProperties
<1>3. /\ Recorder!Continued(r) => Ghosts(all) = Ghosts(g) \cup {Len(g) + 1}
      /\ ~Recorder!Continued(r) => Ghosts(all) = Ghosts(g)
      /\ Len(g) + 1 \notin Ghosts(g)
    BY <1>1, GhostsOfAppend
<1> HIDE DEF all
<1>4. ASSUME NEW i \in 1 .. Len(all) PROVE KeepsOne(all[i], n + 1)
  <2>1. CASE i \in 1 .. Len(g)
    <3>1. KeepsOne(g[i], n) /\ all[i] = g[i]
        BY <1>2, <2>1 DEF Whole
    <3> QED
        BY <3>1 DEF KeepsOne
  <2>2. CASE i = Len(g) + 1
    <3>1. all[i] = r /\ n + 1 \in 1 .. n + 1
        BY <1>2, <2>2
    <3> QED
        BY <3>1, Zenon DEF KeepsOne
  <2> QED
      BY <1>1, <1>2, <2>1, <2>2
<1>5. ASSUME NEW id \in (1 .. n + 1) \ lost PROVE KeptIn(all, id)
  <2>1. CASE id \in 1 .. n
    <3>1. KeptIn(g, id)
        BY <2>1 DEF Whole
    <3>2. PICK i \in 1 .. Len(g) : Keeps(g[i], id)
        BY <3>1 DEF KeptIn
    <3>3. all[i] = g[i] /\ i \in 1 .. Len(all)
        BY <1>1, <1>2
    <3> QED
        BY <3>2, <3>3, Zenon DEF KeptIn
  <2>2. CASE id = n + 1
    <3>1. Keeps(r, id)
        BY <2>2, Zenon DEF Keeps
    <3>2. all[Len(g) + 1] = r /\ Len(g) + 1 \in 1 .. Len(all)
        BY <1>1, <1>2
    <3> QED
        BY <3>1, <3>2, Zenon DEF KeptIn
  <2> QED
      BY <2>1, <2>2
<1>6. /\ IsFiniteSet(Ghosts(g)) /\ Cardinality(Ghosts(g)) <= k
      /\ Cardinality(Ghosts(g)) \in Nat
    BY FS_CardinalityType DEF Whole
<1>7. IsFiniteSet(Ghosts(all)) /\ Cardinality(Ghosts(all)) <= kk
  <2>1. CASE Recorder!Continued(r)
    <3>1. /\ IsFiniteSet(Ghosts(g) \cup {Len(g) + 1})
          /\ Cardinality(Ghosts(g) \cup {Len(g) + 1}) = Cardinality(Ghosts(g)) + 1
        BY <1>3, <1>6, FS_AddElement
    <3>2. Ghosts(all) = Ghosts(g) \cup {Len(g) + 1}
        BY <1>3, <2>1
    <3>3. IsFiniteSet(Ghosts(all))
          /\ Cardinality(Ghosts(all)) = Cardinality(Ghosts(g)) + 1
        BY <3>1, <3>2
    <3>4. k + 1 <= kk
        BY <2>1
    <3> QED
        BY <1>6, <3>3, <3>4
  <2>2. CASE ~Recorder!Continued(r)
      BY <1>3, <1>6, <2>2
  <2> QED
      BY <2>1, <2>2
<1> QED
    BY <1>2, <1>4, <1>5, <1>7 DEF Whole, all

(* More waypoints that may be missing, and more lines that may be shared.  *)
Widens(lost, n, more, m) == lost \subseteq more /\ (1 .. m) \ more \subseteq 1 .. n

LEMMA WholeWeakens ==
    ASSUME NEW g, NEW n \in Nat, NEW m \in Nat, n <= m,
           NEW lost, NEW more, Widens(lost, n, more, m),
           NEW k \in Int, NEW kk \in Int, k <= kk, Whole(g, n, lost, k)
    PROVE  Whole(g, m, more, kk)
<1>1. ASSUME NEW i \in 1 .. Len(g) PROVE KeepsOne(g[i], m)
  <2>1. KeepsOne(g[i], n)
      BY DEF Whole
  <2>2. 1 .. n \subseteq 1 .. m
      OBVIOUS
  <2> QED
      BY <2>1, <2>2, Zenon DEF KeepsOne
<1>2. ASSUME NEW id \in (1 .. m) \ more PROVE KeptIn(g, id)
  <2>1. id \in (1 .. n) \ lost
      BY DEF Widens
  <2> QED
      BY <2>1, Zenon DEF Whole
<1>3. IsFiniteSet(Ghosts(g)) /\ Cardinality(Ghosts(g)) <= kk
  <2>1. /\ IsFiniteSet(Ghosts(g)) /\ Cardinality(Ghosts(g)) <= k
        /\ Cardinality(Ghosts(g)) \in Nat
      BY FS_CardinalityType DEF Whole
  <2> QED
      BY <2>1
<1>4. g \in Seq(Seq(Fields))
    BY DEF Whole
<1> QED
    BY <1>1, <1>2, <1>3, <1>4 DEF Whole

(* The file: whole lines, and behind them the beginning of a lost row.     *)
OpenEnd(lines, n, lost) ==
    \E id \in lost \ {0}, g \in Seq(Seq(Fields)) : \E b \in Recorder!Beginnings(id) :
       lines = Append(g, b) /\ Whole(g, n, lost, Cardinality(lost) - 1)

FileInv ==
    /\ count \in Nat /\ open \in BOOLEAN
    /\ tears \subseteq 0 .. count
    /\ ~open => Whole(rows, count, tears, Cardinality(tears))
    /\ open => OpenEnd(rows, count, tears)

LEMMA TearsAreFinite ==
    ASSUME NEW n \in Nat, NEW lost \in SUBSET (0 .. n)
    PROVE  /\ IsFiniteSet(lost) /\ Cardinality(lost) \in Nat
           /\ IsFiniteSet(lost \cup {n + 1})
           /\ Cardinality(lost \cup {n + 1}) = Cardinality(lost) + 1
           /\ Cardinality(lost) <= Cardinality(lost \cup {0})
           /\ Cardinality(lost \cup {0}) \in Nat
<1>1. IsFiniteSet(0 .. n)
    BY FS_Interval
<1>2. IsFiniteSet(lost)
    BY <1>1, FS_Subset
<1>3. Cardinality(lost) \in Nat
    BY <1>2, FS_CardinalityType
<1>4. n + 1 \notin lost
    OBVIOUS
<1>5. IsFiniteSet(lost \cup {n + 1})
      /\ Cardinality(lost \cup {n + 1}) = Cardinality(lost) + 1
    BY <1>2, <1>4, FS_AddElement
<1>6. /\ IsFiniteSet(lost \cup {0})
      /\ Cardinality(lost \cup {0}) = Cardinality(lost)
            \/ Cardinality(lost \cup {0}) = Cardinality(lost) + 1
  <2>1. CASE 0 \in lost
    <3>1. lost \cup {0} = lost
        BY <2>1
    <3> QED
        BY <1>2, <3>1
  <2>2. CASE 0 \notin lost
      BY <1>2, <2>2, FS_AddElement
  <2> QED
      BY <2>1, <2>2
<1> QED
    BY <1>2, <1>3, <1>5, <1>6

LEMMA FrontAndLast ==
    ASSUME NEW S, NEW g \in Seq(S), NEW b \in S
    PROVE  Recorder!Front(Append(g, b)) = g /\ Recorder!Last(Append(g, b)) = b
<1> DEFINE all == Append(g, b)
<1>1. /\ all \in Seq(S) /\ Len(all) = Len(g) + 1 /\ Len(g) \in Nat
      /\ \A i \in 1 .. Len(g) : all[i] = g[i]
      /\ all[Len(g) + 1] = b
    BY AppendProperties, LenProperties
<1> HIDE DEF all
<1>2. Recorder!Last(all) = b
    BY <1>1 DEF Recorder!Last
<1>3. Recorder!Front(all) = SubSeq(all, 1, Len(g))
    BY <1>1 DEF Recorder!Front
<1>4. \A i \in 1 .. Len(g) : all[i] \in S
    BY <1>1, ElementOfSeq
<1>5. /\ SubSeq(all, 1, Len(g)) \in Seq(S)
      /\ Len(SubSeq(all, 1, Len(g))) = IF 1 <= Len(g) THEN Len(g) - 1 + 1 ELSE 0
      /\ \A i \in 1 .. Len(g) - 1 + 1 : SubSeq(all, 1, Len(g))[i] = all[1 + i - 1]
    BY <1>1, <1>4, SubSeqProperties
<1> DEFINE head == SubSeq(all, 1, Len(g))
<1>6. head \in Seq(S) /\ Len(head) = Len(g)
    BY <1>1, <1>5
<1>7. \A i \in 1 .. Len(g) : head[i] = g[i]
    BY <1>1, <1>5
<1> HIDE DEF head
<1>8. head = g
    BY <1>6, <1>7, SeqEqual
<1> QED
    BY <1>2, <1>3, <1>8 DEF head, all

LEMMA EmptyFile == Whole(<< >>, 0, {}, Cardinality({}))
<1>1. << >> \in Seq(Seq(Fields)) /\ Len(<< >>) = 0
    BY EmptySeq
<1>2. Ghosts(<< >>) = {}
    BY DEF Ghosts
<1>3. IsFiniteSet({}) /\ Cardinality({}) = 0
    BY FS_EmptySet
<1>4. 1 .. 0 = {}
    OBVIOUS
<1>5. IsFiniteSet(Ghosts(<< >>)) /\ Cardinality(Ghosts(<< >>)) <= 0
  <2> SUFFICES IsFiniteSet({}) /\ Cardinality({}) <= 0
      BY <1>2, Zenon
  <2> QED
      BY <1>3
<1>6. \A i \in 1 .. Len(<< >>) : KeepsOne(<< >>[i], 0)
    BY <1>1, <1>4
<1>7. \A id \in (1 .. 0) \ {} : KeptIn(<< >>, id)
    BY <1>4
<1> QED
    BY <1>1, <1>3, <1>5, <1>6, <1>7 DEF Whole

(* What OnOdom appends, behind a line end or behind a lost row.            *)
LEMMA RowAppended ==
    ASSUME FileInv, NEW lines \in Recorder!Appended(rows, Recorder!Row(count + 1))
    PROVE  Whole(lines, count + 1, tears, Cardinality(tears))
<1>1. count \in Nat /\ tears \in SUBSET (0 .. count) /\ count + 1 \in Nat
    BY DEF FileInv
<1>2. Cardinality(tears) \in Nat
    BY <1>1, TearsAreFinite
<1>3. CASE ~open
  <2>1. Whole(rows, count, tears, Cardinality(tears))
      BY <1>3, Zenon DEF FileInv
  <2>2. lines = Append(rows, Recorder!Row(count + 1))
      BY <1>3, Zenon DEF Recorder!Appended
  <2>3. Recorder!Row(count + 1) \in Seq(Fields)
      BY <1>1, RowFacts
  <2>4. Recorder!Last(Recorder!Row(count + 1)).of = count + 1
      BY <1>1, RowEnds
  <2>5. ~Recorder!Continued(Recorder!Row(count + 1))
      BY <1>1, RowReads
  <2>6. Whole(Append(rows, Recorder!Row(count + 1)), count + 1, tears, Cardinality(tears))
      BY <1>1, <1>2, <2>1, <2>3, <2>4, <2>5, LineAppended
  <2> QED
      BY <2>2, <2>6
<1>4. CASE open
  <2>1. OpenEnd(rows, count, tears)
      BY <1>4, Zenon DEF FileInv
  <2>2. PICK id \in tears \ {0}, g \in Seq(Seq(Fields)) :
            \E b \in Recorder!Beginnings(id) :
             rows = Append(g, b) /\ Whole(g, count, tears, Cardinality(tears) - 1)
      BY <2>1, Zenon DEF OpenEnd
  <2>3. PICK b \in Recorder!Beginnings(id) :
             rows = Append(g, b) /\ Whole(g, count, tears, Cardinality(tears) - 1)
      BY <2>2
  <2>4. id \in Nat /\ id # 0 /\ id # count + 1
      BY <1>1
  <2>5. b \in Seq(Fields)
      BY <2>4, BeginningReads
  <2>6. Recorder!Front(rows) = g /\ Recorder!Last(rows) = b
      BY <2>3, <2>5, FrontAndLast
  <2>7. lines \in {Append(Recorder!Front(rows), Recorder!Front(Recorder!Last(rows))
                          \o <<f>> \o Tail(Recorder!Row(count + 1))) :
                      f \in Recorder!Joined(Recorder!Last(Recorder!Last(rows)),
                                            Head(Recorder!Row(count + 1)))}
      BY <1>4, Zenon DEF Recorder!Appended
  <2>8. PICK f \in Recorder!Joined(Recorder!Last(b), Head(Recorder!Row(count + 1))) :
             lines = Append(g,
                 Recorder!Front(b) \o <<f>> \o Tail(Recorder!Row(count + 1)))
      BY <2>6, <2>7
  <2> DEFINE r == Recorder!Front(b) \o <<f>> \o Tail(Recorder!Row(count + 1))
             new == count + 1
  <2>9. lines = Append(g, r) /\ Joins(r, b, f, new)
      BY <2>8 DEF Joins
  <2> HIDE DEF r
  <2>10. /\ r \in Seq(Fields) /\ Recorder!Last(r).of = new
         /\ Recorder!Continued(r) \/ r = Recorder!Row(new)
    <3>1. new \in Nat /\ new # 0
        BY <1>1
    <3> HIDE DEF new
    <3>2. f \in Recorder!Joined(Recorder!Last(b), Head(Recorder!Row(new)))
        BY DEF new
    <3> QED
        BY <2>4, <2>9, <3>1, <3>2, JoinedLine DEF new
  <2>11. Cardinality(tears) - 1 \in Int
         /\ Cardinality(tears) - 1 + 1 <= Cardinality(tears)
         /\ Cardinality(tears) - 1 <= Cardinality(tears)
      BY <1>2
  <2>12. Whole(Append(g, r), count + 1, tears, Cardinality(tears))
      BY <1>1, <1>2, <2>3, <2>10, <2>11, LineAppended
  <2> QED
      BY <2>9, <2>12
<1> QED
    BY <1>3, <1>4

LEMMA FileStarts == Recorder!Init => FileInv
<1> SUFFICES ASSUME Recorder!Init PROVE FileInv
    OBVIOUS
<1>1. count = 0 /\ tears = {} /\ rows = << >>
    BY Zenon DEF Recorder!Init
<1>2. ~open /\ open \in BOOLEAN
    BY Zenon DEF Recorder!Init
<1>3. Whole(rows, count, tears, Cardinality(tears))
    BY <1>1, EmptyFile, Zenon
<1>4. count \in Nat /\ tears \subseteq 0 .. count
    BY <1>1
<1> QED
    BY <1>2, <1>3, <1>4, Zenon DEF FileInv

LEMMA FileKept ==
    ASSUME FileInv, UNCHANGED <<rows, open, count, tears>> PROVE FileInv'
<1>1. rows' = rows /\ count' = count /\ tears' = tears
    OBVIOUS
<1>2. UNCHANGED open
    OBVIOUS
<1>3. ~open' => Whole(rows', count', tears', Cardinality(tears'))
  <2>0. ~open' => ~open
      BY <1>2
  <2>1. ~open' => Whole(rows, count, tears, Cardinality(tears))
      BY <2>0, Zenon DEF FileInv
  <2> QED
      BY <1>1, <2>1, Zenon
<1>4. open' => OpenEnd(rows', count', tears')
  <2>0. open' => open
      BY <1>2
  <2>1. open' => OpenEnd(rows, count, tears)
      BY <2>0, Zenon DEF FileInv
  <2> QED
      BY <1>1, <2>1, Zenon
<1>5. count' \in Nat /\ tears' \subseteq 0 .. count'
    BY <1>1 DEF FileInv
<1>6. open' \in BOOLEAN
    BY <1>2, Zenon DEF FileInv
<1> QED
    BY <1>3, <1>4, <1>5, <1>6, Zenon DEF FileInv

LEMMA FileHeaderTorn ==
    ASSUME FileInv, Recorder!PrepareTorn PROVE FileInv'
<1>1. count \in Nat /\ tears \in SUBSET (0 .. count)
    BY DEF FileInv
<1>2. /\ tears' = tears \cup {0} /\ rows' = rows /\ count' = count
      /\ UNCHANGED open
    BY Zenon DEF Recorder!PrepareTorn
<1> DEFINE more == tears \cup {0}
<1>3. /\ Cardinality(tears) \in Nat /\ Cardinality(more) \in Nat
      /\ Cardinality(tears) <= Cardinality(more)
    BY <1>1, TearsAreFinite
<1>4. Widens(tears, count, more, count) /\ tears \subseteq more
      /\ more \subseteq 0 .. count
      /\ count <= count
    BY <1>1 DEF Widens
<1> HIDE DEF more
<1>5. CASE ~open
  <2>1. Whole(rows, count, tears, Cardinality(tears))
      BY <1>5, Zenon DEF FileInv
  <2>2. Whole(rows, count, more, Cardinality(more))
      BY <1>1, <1>3, <1>4, <2>1, WholeWeakens
  <2>3. Whole(rows', count', tears', Cardinality(tears'))
      BY <1>2, <2>2 DEF more
  <2>4. ~open' /\ open' \in BOOLEAN
      BY <1>2, <1>5, Zenon DEF FileInv
  <2>5. count' \in Nat /\ tears' \subseteq 0 .. count'
      BY <1>1, <1>2
  <2> QED
      BY <2>3, <2>4, <2>5, Zenon DEF FileInv
<1>6. CASE open
  <2>1. PICK id \in tears \ {0}, g \in Seq(Seq(Fields)) :
            \E b \in Recorder!Beginnings(id) :
             rows = Append(g, b) /\ Whole(g, count, tears, Cardinality(tears) - 1)
      BY <1>6, Zenon DEF FileInv, OpenEnd
  <2>2. Whole(g, count, tears, Cardinality(tears) - 1)
      BY <2>1
  <2>3. Cardinality(tears) - 1 \in Int /\ Cardinality(more) - 1 \in Int
        /\ Cardinality(tears) - 1 <= Cardinality(more) - 1
      BY <1>3
  <2>4. Whole(g, count, more, Cardinality(more) - 1)
      BY <1>1, <1>4, <2>2, <2>3, WholeWeakens
  <2>5. id \in more \ {0}
      BY <1>4
  <2>6. OpenEnd(rows, count, more)
      BY <2>1, <2>4, <2>5, Zenon DEF OpenEnd
  <2>7. OpenEnd(rows', count', tears')
      BY <1>2, <2>6 DEF more
  <2>8. open' /\ open' \in BOOLEAN
      BY <1>2, <1>6, Zenon DEF FileInv
  <2>9. count' \in Nat /\ tears' \subseteq 0 .. count'
      BY <1>1, <1>2
  <2> QED
      BY <2>7, <2>8, <2>9, Zenon DEF FileInv
<1> QED
    BY <1>5, <1>6

LEMMA FileAppended ==
    ASSUME FileInv, NEW p, Recorder!OnOdom(p) PROVE FileInv'
<1>1. CASE Recorder!Near(p)
  <2>1. UNCHANGED <<rows, open, count, tears>>
      BY <1>1, Zenon DEF Recorder!OnOdom
  <2> QED
      BY <2>1, FileKept
<1>2. CASE ~Recorder!Near(p)
  <2>1. /\ rows' \in Recorder!Appended(rows, Recorder!Row(count + 1))
        /\ count' = count + 1 /\ tears' = tears
      BY <1>2, Zenon DEF Recorder!OnOdom
  <2>2. ~open' /\ open' \in BOOLEAN
      BY <1>2, Zenon DEF Recorder!OnOdom
  <2>3. Whole(rows', count + 1, tears, Cardinality(tears))
      BY <2>1, RowAppended
  <2>4. Whole(rows', count', tears', Cardinality(tears'))
      BY <2>1, <2>3
  <2>5. count' \in Nat /\ tears' \subseteq 0 .. count'
      BY <2>1 DEF FileInv
  <2> QED
      BY <2>2, <2>4, <2>5, Zenon DEF FileInv
<1> QED
    BY <1>1, <1>2

LEMMA FileTorn ==
    ASSUME FileInv, NEW p, Recorder!OnOdomTorn(p) PROVE FileInv'
<1>1. count \in Nat /\ tears \in SUBSET (0 .. count) /\ count + 1 \in Nat
    BY DEF FileInv
<1> DEFINE more == tears \cup {count + 1}
<1>2. PICK b \in Recorder!Beginnings(count + 1) : rows' = Append(rows, b)
    BY Zenon DEF Recorder!OnOdomTorn
<1>3. count' = count + 1 /\ tears' = more
    BY Zenon DEF Recorder!OnOdomTorn
<1>4. /\ Cardinality(tears) \in Nat
      /\ Cardinality(more) = Cardinality(tears) + 1
    BY <1>1, TearsAreFinite
<1>5. /\ Widens(tears, count, more, count + 1)
      /\ more \subseteq 0 .. count + 1 /\ count + 1 \in more \ {0}
      /\ count <= count + 1
    BY <1>1 DEF Widens
<1> HIDE DEF more
<1>6. Whole(rows, count, tears, Cardinality(tears))
  <2>1. ~open
      BY Zenon DEF Recorder!OnOdomTorn
  <2> QED
      BY <2>1, Zenon DEF FileInv
<1>7. Whole(rows, count + 1, more, Cardinality(more) - 1)
  <2>1. Cardinality(more) - 1 = Cardinality(tears)
      BY <1>4
  <2>2. Cardinality(more) - 1 \in Int /\ Cardinality(tears) <= Cardinality(more) - 1
        /\ Cardinality(tears) \in Int
      BY <1>4
  <2> QED
      BY <1>1, <1>5, <1>6, <2>2, WholeWeakens
<1>8. rows \in Seq(Seq(Fields))
    BY <1>6 DEF Whole
<1>9. OpenEnd(rows', count + 1, more)
    BY <1>2, <1>5, <1>7, <1>8, Zenon DEF OpenEnd
<1>10. OpenEnd(rows', count', tears')
    BY <1>3, <1>9
<1>11. open' /\ open' \in BOOLEAN
    BY Zenon DEF Recorder!OnOdomTorn
<1>12. count' \in Nat /\ tears' \subseteq 0 .. count'
    BY <1>1, <1>3, <1>5
<1> QED
    BY <1>10, <1>11, <1>12, Zenon DEF FileInv

(* A file that loads has driven points only.                               *)
LEMMA WholeIsDriven ==
    ASSUME NEW g, NEW n \in Nat, NEW lost, NEW k, Whole(g, n, lost, k)
    PROVE  \A i \in 1 .. Len(g) : Recorder!Continued(g[i]) \/ Recorder!Driven(g[i])
<1> SUFFICES ASSUME NEW i \in 1 .. Len(g), ~Recorder!Continued(g[i])
             PROVE Recorder!Driven(g[i])
    OBVIOUS
<1>1. KeepsOne(g[i], n)
    BY DEF Whole
<1>2. PICK id \in 1 .. n : g[i] = Recorder!Row(id)
    BY <1>1, Zenon DEF KeepsOne
<1>3. id \in Nat /\ id # 0
    OBVIOUS
<1> QED
    BY <1>2, <1>3, RowReads

(* What Cardinality means does not depend on where it is read.             *)
LEMMA SameCardinality ==
    ASSUME NEW S PROVE Recorder!Cardinality(S) = Cardinality(S)
    BY DEF Recorder!Cardinality, Cardinality

LEMMA FileIsDriven ==
    ASSUME FileInv PROVE Recorder!LoadedIsDriven
<1> SUFFICES ASSUME Recorder!Loads
             PROVE  /\ Cardinality(Ghosts(rows)) <= Cardinality(tears)
                    /\ \A i \in DOMAIN rows \ Ghosts(rows) : Recorder!Driven(rows[i])
                    /\ \A id \in 1 .. count \ tears : \E i \in DOMAIN rows :
                          rows[i] = Recorder!Row(id)
                              \/ (i \in Ghosts(rows) /\ Recorder!Last(rows[i]).of = id)
  <2>1. Recorder!Cardinality(Ghosts(rows)) = Cardinality(Ghosts(rows))
        /\ Recorder!Cardinality(tears) = Cardinality(tears)
      BY SameCardinality
  <2> QED
      BY <2>1, Zenon DEF Recorder!LoadedIsDriven, Ghosts
<1>1. count \in Nat /\ tears \in SUBSET (0 .. count) /\ Cardinality(tears) \in Nat
    BY TearsAreFinite DEF FileInv
<1>2. CASE ~open
  <2>1. Whole(rows, count, tears, Cardinality(tears))
      BY <1>2, Zenon DEF FileInv
  <2>2. Cardinality(Ghosts(rows)) <= Cardinality(tears) /\ DOMAIN rows = 1 .. Len(rows)
      BY <2>1, LenProperties DEF Whole
  <2>3. \A i \in DOMAIN rows \ Ghosts(rows) : Recorder!Driven(rows[i])
      BY <1>1, <2>1, <2>2, WholeIsDriven DEF Ghosts
  <2>4. ASSUME NEW id \in 1 .. count \ tears
        PROVE  \E i \in DOMAIN rows :
                  rows[i] = Recorder!Row(id)
                      \/ (i \in Ghosts(rows) /\ Recorder!Last(rows[i]).of = id)
    <3>1. KeptIn(rows, id)
        BY <2>1, Zenon DEF Whole
    <3>2. PICK i \in DOMAIN rows : Keeps(rows[i], id)
        BY <2>2, <3>1 DEF KeptIn
    <3> QED
        BY <3>2, Zenon DEF Keeps, Ghosts
  <2> QED
      BY <2>2, <2>3, <2>4
<1>3. CASE open
  <2>1. PICK lost \in tears \ {0}, g \in Seq(Seq(Fields)) :
            \E b \in Recorder!Beginnings(lost) :
             rows = Append(g, b) /\ Whole(g, count, tears, Cardinality(tears) - 1)
      BY <1>3, Zenon DEF FileInv, OpenEnd
  <2>2. PICK b \in Recorder!Beginnings(lost) :
             rows = Append(g, b) /\ Whole(g, count, tears, Cardinality(tears) - 1)
      BY <2>1
  <2>3. lost \in Nat /\ lost # 0
      BY <1>1
  <2>4. b \in Seq(Fields) /\ ~Recorder!Continued(b)
        /\ (Recorder!Readable(b) => Recorder!Driven(b))
      BY <2>3, BeginningReads
  <2>5. Ghosts(rows) = Ghosts(g)
      BY <2>2, <2>4, GhostsOfAppend
  <2>6. Cardinality(Ghosts(rows)) <= Cardinality(tears)
    <3>1. /\ IsFiniteSet(Ghosts(g)) /\ Cardinality(Ghosts(g)) <= Cardinality(tears) - 1
          /\ Cardinality(Ghosts(g)) \in Nat
        BY <2>2, FS_CardinalityType DEF Whole
    <3>2. Cardinality(Ghosts(g)) <= Cardinality(tears)
        BY <1>1, <3>1
    <3> QED
        BY <2>5, <3>2
  <2>7. /\ DOMAIN rows = 1 .. Len(g) + 1 /\ Len(g) \in Nat
        /\ \A i \in 1 .. Len(g) : rows[i] = g[i]
        /\ rows[Len(g) + 1] = b
    <3>1. /\ rows \in Seq(Seq(Fields)) /\ Len(rows) = Len(g) + 1
          /\ \A i \in 1 .. Len(g) : rows[i] = g[i]
          /\ rows[Len(g) + 1] = b
        BY <2>2, <2>4, AppendProperties
    <3> QED
        BY <3>1, LenProperties
  <2>8. ASSUME NEW i \in DOMAIN rows \ Ghosts(rows) PROVE Recorder!Driven(rows[i])
    <3>1. CASE i \in 1 .. Len(g)
      <4>1. ~Recorder!Continued(rows[i])
          BY DEF Ghosts
      <4>2. ~Recorder!Continued(g[i])
          BY <2>7, <3>1, <4>1
      <4>3. Recorder!Driven(g[i])
          BY <1>1, <2>2, <3>1, <4>2, WholeIsDriven
      <4> QED
          BY <2>7, <3>1, <4>3
    <3>2. CASE i = Len(g) + 1
      <4>1. Recorder!Readable(rows[i])
          BY DEF Recorder!Loads
      <4> QED
          BY <2>4, <2>7, <3>2, <4>1
    <3> QED
        BY <2>7, <3>1, <3>2
  <2>9. ASSUME NEW id \in 1 .. count \ tears
        PROVE  \E i \in DOMAIN rows :
                  rows[i] = Recorder!Row(id)
                      \/ (i \in Ghosts(rows) /\ Recorder!Last(rows[i]).of = id)
    <3>1. KeptIn(g, id)
        BY <2>2, Zenon DEF Whole
    <3>2. PICK i \in 1 .. Len(g) : Keeps(g[i], id)
        BY <3>1, Zenon DEF KeptIn
    <3>3. rows[i] = g[i] /\ i \in DOMAIN rows
        BY <2>7
    <3>4. Keeps(rows[i], id)
        BY <3>2, <3>3
    <3> QED
        BY <3>3, <3>4, Zenon DEF Keeps, Ghosts
  <2> QED
      BY <2>6, <2>8, <2>9
<1> QED
    BY <1>2, <1>3

-----------------------------------------------------------------------------
(* The points of one run.                                                  *)

(* last_xy is the last point recorded, and the vehicle is near it.         *)
CreepInv ==
    /\ recorded_points \in Seq(Int)
    /\ recorded_points = << >> => last_xy = {} /\ position = {}
    /\ recorded_points # << >> =>
         /\ last_xy = {Recorder!Last(recorded_points)}
         /\ \A p \in position : Recorder!Within(p, Recorder!Last(recorded_points))
    /\ \A i \in 1 .. Len(recorded_points) - 1 :
         ~Recorder!Within(recorded_points[i], recorded_points[i + 1])

LEMMA WithinFacts ==
    ASSUME Spacing \in Nat \ {0}, NEW p \in Int, NEW q \in Int
    PROVE  Recorder!Within(p, p) /\ (Recorder!Within(p, q) <=> Recorder!Within(q, p))
    BY DEF Recorder!Within

LEMMA NewRun ==
    ASSUME last_xy' = {}, recorded_points' = << >>, position' = {}
    PROVE  CreepInv'
<1>1. << >> \in Seq(Int) /\ Len(<< >>) = 0
    BY EmptySeq
<1>2. \A i \in 1 .. Len(<< >>) - 1 : FALSE
    BY <1>1
<1> QED
    BY <1>1, <1>2 DEF CreepInv

(* Measured from the last point recorded, not from the last message.       *)
LEMMA PointFar ==
    ASSUME Spacing \in Nat \ {0}, CreepInv, NEW p \in Int, ~Recorder!Near(p),
           last_xy' = {p}, position' = {p},
           recorded_points' = Append(recorded_points, p)
    PROVE  CreepInv'
<1> DEFINE points == recorded_points
           all == Append(points, p)
<1>1. points \in Seq(Int) /\ Len(points) \in Nat
    BY LenProperties DEF CreepInv
<1>2. /\ all \in Seq(Int) /\ Len(all) = Len(points) + 1
      /\ \A i \in 1 .. Len(points) : all[i] = points[i]
      /\ all[Len(points) + 1] = p
    BY <1>1, AppendProperties
<1>3. points # << >> => ~Recorder!Within(p, Recorder!Last(points))
    BY DEF CreepInv, Recorder!Near
<1>4. points # << >> => Len(points) # 0
    BY <1>1, EmptySeq
<1>5. \A i \in 1 .. Len(points) - 1 : ~Recorder!Within(points[i], points[i + 1])
    BY DEF CreepInv
<1>6. \A i \in 1 .. Len(points) : points[i] \in Int
    BY <1>1, ElementOfSeq
<1>7. recorded_points' = all
    OBVIOUS
<1> HIDE DEF all, points
<1>8. Recorder!Last(all) = p /\ all # << >>
    BY <1>1, <1>2, EmptySeq DEF Recorder!Last
<1>9. Recorder!Last(points) = points[Len(points)]
    BY DEF Recorder!Last
<1>10. ASSUME NEW i \in 1 .. Len(points) PROVE ~Recorder!Within(all[i], all[i + 1])
  <2>1. CASE i = Len(points)
    <3>1. all[i] = Recorder!Last(points) /\ all[i + 1] = p
          /\ Recorder!Last(points) \in Int
        BY <1>2, <1>6, <1>9, <2>1
    <3>2. points # << >>
        BY <1>1, <2>1, EmptySeq
    <3> QED
        BY <1>3, <3>1, <3>2, WithinFacts
  <2>2. CASE i # Len(points)
    <3>1. i \in 1 .. Len(points) - 1 /\ i + 1 \in 1 .. Len(points)
        BY <1>1, <2>2
    <3>2. all[i] = points[i] /\ all[i + 1] = points[i + 1]
        BY <1>2, <3>1
    <3> QED
        BY <1>5, <3>1, <3>2
  <2> QED
      BY <2>1, <2>2
<1>11. \A i \in 1 .. Len(all) - 1 : ~Recorder!Within(all[i], all[i + 1])
    BY <1>1, <1>2, <1>10
<1>12. Recorder!Within(p, p)
    BY WithinFacts
<1> QED
    BY <1>2, <1>7, <1>8, <1>11, <1>12 DEF CreepInv, Recorder!Within

LEMMA PointNear ==
    ASSUME CreepInv, NEW p \in Int, Recorder!Near(p),
           last_xy' = last_xy, position' = {p}, recorded_points' = recorded_points
    PROVE  CreepInv'
<1>1. recorded_points # << >>
    BY DEF CreepInv, Recorder!Near
<1>2. Recorder!Within(p, Recorder!Last(recorded_points))
    BY <1>1 DEF CreepInv, Recorder!Near
<1> QED
    BY <1>1, <1>2 DEF CreepInv, Recorder!Within

(* A route that is taught is the route that is repeated: whatever the      *)
(* vehicle did, wherever a write was lost and however often the recorder   *)
(* was started again, a file that loads holds the points driven, and they  *)
(* are neither too close nor is the vehicle ever too far from the last of  *)
(* them (_on_odom, _prepare_route_file and load_route_csv).                *)
THEOREM RouteAlwaysDriven ==
    ASSUME Spacing \in Nat \ {0}, Positions \subseteq Int
    PROVE  Recorder!Spec => []RouteIsDriven
<1>1. Recorder!Init => FileInv /\ CreepInv
  <2> SUFFICES ASSUME Recorder!Init PROVE CreepInv
      BY FileStarts
  <2>1. << >> \in Seq(Int) /\ Len(<< >>) = 0
      BY EmptySeq
  <2>2. \A i \in 1 .. Len(<< >>) - 1 : FALSE
      BY <2>1
  <2>3. last_xy = {} /\ recorded_points = << >> /\ position = {}
      BY Zenon DEF Recorder!Init
  <2> QED
      BY <2>1, <2>2, <2>3 DEF CreepInv
<1>2. FileInv /\ CreepInv /\ [Recorder!Next]_(Recorder!vars) => FileInv' /\ CreepInv'
  <2> SUFFICES ASSUME FileInv, CreepInv, [Recorder!Next]_(Recorder!vars)
               PROVE  FileInv' /\ CreepInv'
      OBVIOUS
  <2>1. CASE Recorder!Prepare
    <3>1. UNCHANGED <<rows, open, count, tears>>
        BY <2>1 DEF Recorder!Prepare
    <3> QED
        BY <2>1, <3>1, FileKept, NewRun DEF Recorder!Prepare
  <2>2. CASE Recorder!PrepareTorn
    <3>1. UNCHANGED <<last_xy, recorded_points, position>>
        BY <2>2 DEF Recorder!PrepareTorn
    <3>2. CreepInv'
        BY <3>1 DEF CreepInv, Recorder!Within
    <3> QED
        BY <2>2, <3>2, FileHeaderTorn
  <2>3. ASSUME NEW p \in Positions, Recorder!OnOdom(p)
        PROVE  FileInv' /\ CreepInv'
    <3>1. p \in Int
        OBVIOUS
    <3>2. FileInv'
        BY <2>3, FileAppended
    <3>3. CASE Recorder!Near(p)
      <4>1. last_xy' = last_xy /\ position' = {p} /\ recorded_points' = recorded_points
          BY <2>3, <3>3 DEF Recorder!OnOdom, Recorder!LastXy
      <4> QED
          BY <3>1, <3>2, <3>3, <4>1, PointNear
    <3>4. CASE ~Recorder!Near(p)
      <4>1. /\ last_xy' = {p} /\ position' = {p}
            /\ recorded_points' = Append(recorded_points, p)
          BY <2>3, <3>4 DEF Recorder!OnOdom, Recorder!LastXy
      <4> QED
          BY <3>1, <3>2, <3>4, <4>1, PointFar
    <3> QED
        BY <3>3, <3>4
  <2>4. ASSUME NEW p \in Positions, Recorder!OnOdomTorn(p)
        PROVE  FileInv' /\ CreepInv'
    <3>1. last_xy' = {} /\ recorded_points' = << >> /\ position' = {}
        BY <2>4, Zenon DEF Recorder!OnOdomTorn
    <3> QED
        BY <2>4, <3>1, FileTorn, NewRun
  <2>5. CASE Recorder!Stop
    <3>1. UNCHANGED <<rows, open, count, tears>>
        BY <2>5 DEF Recorder!Stop
    <3> QED
        BY <2>5, <3>1, FileKept, NewRun DEF Recorder!Stop
  <2>6. CASE UNCHANGED Recorder!vars
    <3>1. /\ UNCHANGED <<rows, open, count, tears>>
          /\ UNCHANGED <<last_xy, recorded_points, position>>
        BY <2>6 DEF Recorder!vars
    <3>2. CreepInv'
        BY <3>1 DEF CreepInv, Recorder!Within
    <3> QED
        BY <3>1, <3>2, FileKept
  <2> QED
      BY <2>1, <2>2, <2>3, <2>4, <2>5, <2>6 DEF Recorder!Next
<1>3. FileInv /\ CreepInv => Recorder!RouteIsDriven
  <2> SUFFICES ASSUME CreepInv PROVE Recorder!CreepIsRecorded
      BY FileIsDriven DEF Recorder!RouteIsDriven
  <2> QED
      BY DEF CreepInv, Recorder!CreepIsRecorded
<1> QED
    BY <1>1, <1>2, <1>3, PTL DEF Recorder!Spec, RouteIsDriven

-----------------------------------------------------------------------------
USE SimAssumption DEF SimAssumption

(* Approach never leaves the interval between where it starts and where it *)
(* goes.                                                                   *)
LEMMA ApproachBetween ==
    ASSUME NEW v \in Int, NEW t \in Int, NEW u \in Approach(v, t)
    PROVE  u \in Int /\ ((v <= u /\ u <= t) \/ (t <= u /\ u <= v))
    BY DEF Approach

(* The part of TypeOK about levels and time, kept apart from the e-stop.   *)
Levels ==
    /\ target_velocity \in 0 .. MaxSpeed
    /\ target_steering \in -MaxSteer .. MaxSteer
    /\ command_age \in 0 .. CommandTimeout + 1
    /\ velocity \in 0 .. MaxSpeed
    /\ steering \in -MaxSteer .. MaxSteer

LEMMA TypeParts == TypeOK <=> estop \in BOOLEAN /\ Levels
    BY Zenon DEF TypeOK, Levels

LEMMA ActiveInRange ==
    ASSUME Levels
    PROVE  /\ ActiveVelocity \in 0 .. MaxSpeed
           /\ ActiveSteering \in -MaxSteer .. MaxSteer
<1>1. CASE estop
    BY <1>1 DEF ActiveVelocity, ActiveSteering
<1>2. CASE ~estop
    BY <1>2 DEF Levels, ActiveVelocity, ActiveSteering
<1> QED
    BY <1>1, <1>2

(* Every step keeps the types: commands are clamped before they are        *)
(* stored, and the model's step stays between the state and its target.    *)
THEOREM SimTypeCorrect == Spec => []TypeOK
<1>1. Init => TypeOK
  <2> SUFFICES ASSUME Init PROVE TypeOK
      OBVIOUS
  <2>1. estop \in BOOLEAN
      BY DEF Init
  <2>2. /\ target_velocity = 0 /\ target_steering = 0 /\ velocity = 0 /\ steering = 0
        /\ command_age = CommandTimeout + 1
      BY Zenon DEF Init
  <2> QED
      BY <2>1, <2>2, TypeParts DEF Levels
<1>2. TypeOK /\ [Next]_simVars => TypeOK'
  <2> SUFFICES ASSUME estop \in BOOLEAN, Levels, [Next]_simVars
               PROVE  estop' \in BOOLEAN /\ Levels'
      BY TypeParts, Zenon DEF TypeOK, Levels
  <2>1. ASSUME NEW value \in BOOLEAN, OnEstop(value)
        PROVE  estop' \in BOOLEAN /\ Levels'
      BY <2>1 DEF Levels, OnEstop
  <2>2. ASSUME NEW msg \in DriveMessages, OnCmdDrive(msg)
        PROVE  estop' \in BOOLEAN /\ Levels'
    <3>1. Levels'
        BY <2>2 DEF Levels, OnCmdDrive, DriveMessages, AtLeast, AtMost
    <3> QED
        BY <2>2, <3>1 DEF OnCmdDrive
  <2>3. CASE Tick
    <3>1. velocity' \in 0 .. MaxSpeed
        BY <2>3, ActiveInRange, ApproachBetween DEF Levels, Tick
    <3>2. steering' \in -MaxSteer .. MaxSteer
        BY <2>3, ActiveInRange, ApproachBetween DEF Levels, Tick
    <3> QED
        BY <2>3, <3>1, <3>2 DEF Levels, Tick
  <2>4. CASE TimePasses
    <3>1. Levels'
        BY <2>4 DEF Levels, TimePasses, AtMost
    <3> QED
        BY <2>4, <3>1 DEF TimePasses
  <2>5. CASE UNCHANGED simVars
      BY <2>5 DEF Levels, simVars
  <2> QED
      BY <2>1, <2>2, <2>3, <2>4, <2>5 DEF Next
<1> QED
    BY <1>1, <1>2, PTL DEF Spec

(* The speed the simulator drives at is the abstract vehicle's target.     *)
LEMMA SameTarget == Vehicle!Targets = {ActiveVelocity}
    BY DEF ActiveVelocity, Vehicle!Targets

(* Every order of commands, e-stops, ticks and time is a behaviour of the  *)
(* abstract vehicle: the speed moves toward a live command only, and       *)
(* toward zero under an e-stop (VehicleSimNode._active_command).           *)
THEOREM SimImplementsHal == Spec => VehicleSpec
<1>1. Init => Vehicle!HalInit
    BY DEF Init, Vehicle!HalInit, Fresh
<1>2. TypeOK /\ TypeOK' /\ [Next]_simVars
        => [Vehicle!TakeEstop \/ Vehicle!TakeCommand
            \/ Vehicle!CommandExpires \/ Vehicle!Move]_Vehicle!halVars
  <2> SUFFICES ASSUME TypeOK, TypeOK', [Next]_simVars
               PROVE  [Vehicle!TakeEstop \/ Vehicle!TakeCommand
                       \/ Vehicle!CommandExpires \/ Vehicle!Move]_Vehicle!halVars
      OBVIOUS
  <2>1. ASSUME NEW value \in BOOLEAN, OnEstop(value)
        PROVE  Vehicle!TakeEstop
      BY <2>1 DEF TypeOK, OnEstop, Vehicle!TakeEstop, Fresh
  <2>2. ASSUME NEW msg \in DriveMessages, OnCmdDrive(msg)
        PROVE  Vehicle!TakeCommand
    <3>1. Fresh' /\ target_velocity' \in -MaxSpeed .. MaxSpeed
        BY <2>2 DEF TypeOK, OnCmdDrive, Fresh
    <3> QED
        BY <2>2, <3>1 DEF OnCmdDrive, Vehicle!TakeCommand
  <2>3. CASE Tick
    <3>1. ActiveVelocity \in 0 .. MaxSpeed
        BY DEF TypeOK, ActiveVelocity
    <3>2. velocity' \in Vehicle!Toward(velocity, ActiveVelocity)
        BY <2>3, <3>1, ApproachBetween DEF TypeOK, Tick, Vehicle!Toward
    <3> QED
        BY <2>3, <3>2, SameTarget DEF Tick, Fresh, Vehicle!Move
  <2>4. CASE TimePasses
    <3>1. CASE Fresh' \/ ~Fresh
      <4>1. Fresh' = Fresh
          BY <2>4, <3>1 DEF TypeOK, TimePasses, Fresh, AtMost
      <4> QED
          BY <2>4, <4>1 DEF TimePasses, Vehicle!halVars
    <3>2. CASE ~Fresh'
        BY <2>4, <3>2 DEF TimePasses, Vehicle!CommandExpires
    <3> QED
        BY <3>1, <3>2
  <2>5. CASE UNCHANGED simVars
      BY <2>5 DEF simVars, Vehicle!halVars, Fresh
  <2> QED
      BY <2>1, <2>2, <2>3, <2>4, <2>5 DEF Next
<1> QED
    BY <1>1, <1>2, SimTypeCorrect, PTL DEF Spec, VehicleSpec, Vehicle!HalSpec

(* A vehicle that is neither commanded nor stopped keeps the angle of its  *)
(* wheel: the active steering it approaches is the one it has              *)
(* (VehicleSimNode._active_command).                                       *)
THEOREM SimHoldsTheWheel == Spec => HoldsTheWheel
<1> DEFINE Held == steering' # steering => estop \/ command_age < CommandTimeout
<1>1. TypeOK /\ [Next]_simVars => [Held]_simVars
  <2> SUFFICES ASSUME TypeOK, Next, steering' # steering, ~estop, ~(command_age < CommandTimeout)
               PROVE  FALSE
      OBVIOUS
  <2>1. Tick
      BY DEF Next, OnEstop, OnCmdDrive, TimePasses
  <2>2. ActiveSteering = steering
      BY DEF ActiveSteering, Fresh
  <2>3. steering' \in Approach(steering, steering)
      BY <2>1, <2>2 DEF Tick
  <2> QED
      BY <2>3 DEF Approach, TypeOK
<1> QED
    BY <1>1, SimTypeCorrect, PTL DEF Spec, HoldsTheWheel

-----------------------------------------------------------------------------
Poses == [x : Int, y : Int, yaw : 0 .. 3]

(* Stamps and errors are counted from zero; the history holds something.   *)
Parameters ==
    /\ PriorXY \in Nat /\ PriorYaw \in Nat
    /\ MinImprovement \in Int /\ MaxTranslation \in Int /\ MaxYaw \in Int
    /\ MaxMeanError \in Int /\ MinUsedPoints \in Int
    /\ HistorySize \in Nat \ {0}
    /\ \A m \in OdomMessages : m.stamp \in Nat /\ m.pose \in Poses
    /\ \A s \in Scans : /\ s.stamp \in Nat /\ s.error \in Nat /\ s.elsewhere \in Nat
                        /\ s.usable \in Nat

LEMMA MinNat ==
    ASSUME NEW S \in SUBSET Nat, S # {}
    PROVE  Lidar!Min(S) \in S /\ \A y \in S : Lidar!Min(S) <= y
<1> DEFINE Less == OpToRel(<, Nat)
<1>1. IsWellFoundedOn(Less, Nat)
    BY NatLessThanWellFounded
<1>2. \A x, y \in Nat : y < x => <<y, x>> \in Less
    BY DEF OpToRel
<1> HIDE DEF Less
<1>3. PICK x \in S : \A y \in S : ~(<<y, x>> \in Less)
    BY <1>1, WFMin
<1>4. \A y \in S : x <= y
  <2> SUFFICES ASSUME NEW y \in S PROVE x <= y
      OBVIOUS
  <2>1. x \in Nat /\ y \in Nat
      OBVIOUS
  <2>2. ~(y < x)
      BY <1>2, <1>3, <2>1, Zenon
  <2> QED
      BY <2>1, <2>2
<1> QED
    BY <1>4 DEF Lidar!Min

-----------------------------------------------------------------------------
(* The transform.                                                          *)

LEMMA Turns ==
    ASSUME NEW a \in 0 .. 3
    PROVE  /\ Lidar!Cos(a) \in {-1, 0, 1} /\ Lidar!Sin(a) \in {-1, 0, 1}
           /\ (-a) % 4 = IF a = 0 THEN 0 ELSE 4 - a
    BY DEF Lidar!Cos, Lidar!Sin

(* The heading of the transform is the difference of both headings.        *)
LEMMA YawAligns ==
    ASSUME NEW a \in 0 .. 3, NEW b \in 0 .. 3
    PROVE  /\ (a + ((-b) % 4)) % 4 = IF a >= b THEN a - b ELSE a - b + 4
           /\ (((a + ((-b) % 4)) % 4) + b) % 4 = a
    OBVIOUS

(* map_to_odom_from_base_poses: the transform takes the odometry it was    *)
(* computed from to the pose it was computed for.                          *)
LEMMA AlignsBases ==
    ASSUME NEW p \in Poses, NEW o \in Poses
    PROVE  Lidar!TransformPose(Lidar!MapToOdomFromBasePoses(p, o), o) = p
<1> DEFINE i == Lidar!InversePoseTransform(o)
           t == Lidar!TransformPose(p, i)
           b == (-o.yaw) % 4
           y == (p.yaw + b) % 4
<1>1. p.x \in Int /\ p.y \in Int /\ p.yaw \in 0 .. 3 /\ o.x \in Int /\ o.y \in Int
      /\ o.yaw \in 0 .. 3 /\ p = [x |-> p.x, y |-> p.y, yaw |-> p.yaw]
    BY DEF Poses
<1>2. /\ i.x = -(Lidar!Cos(b) * o.x - Lidar!Sin(b) * o.y)
      /\ i.y = -(Lidar!Sin(b) * o.x + Lidar!Cos(b) * o.y)
      /\ i.yaw = b
    BY DEF Lidar!InversePoseTransform
<1>3. /\ t.x = p.x + Lidar!Cos(p.yaw) * i.x - Lidar!Sin(p.yaw) * i.y
      /\ t.y = p.y + Lidar!Sin(p.yaw) * i.x + Lidar!Cos(p.yaw) * i.y
      /\ t.yaw = y
    BY <1>2 DEF Lidar!TransformPose
<1> HIDE DEF i, t
<1>4. (y + o.yaw) % 4 = p.yaw
    BY <1>1, YawAligns
<1>5. /\ t.x + Lidar!Cos(y) * o.x - Lidar!Sin(y) * o.y = p.x
      /\ t.y + Lidar!Sin(y) * o.x + Lidar!Cos(y) * o.y = p.y
  <2>1. /\ b = IF o.yaw = 0 THEN 0 ELSE 4 - o.yaw
        /\ y = IF p.yaw >= o.yaw THEN p.yaw - o.yaw ELSE p.yaw - o.yaw + 4
      BY <1>1, Turns, YawAligns
  <2> HIDE DEF b, y
  <2>2. CASE o.yaw = 0
      BY <1>1, <1>2, <1>3, <2>1, <2>2, SMTT(60) DEF Lidar!Cos, Lidar!Sin
  <2>3. CASE o.yaw = 1
      BY <1>1, <1>2, <1>3, <2>1, <2>3, SMTT(60) DEF Lidar!Cos, Lidar!Sin
  <2>4. CASE o.yaw = 2
      BY <1>1, <1>2, <1>3, <2>1, <2>4, SMTT(60) DEF Lidar!Cos, Lidar!Sin
  <2>5. CASE o.yaw = 3
      BY <1>1, <1>2, <1>3, <2>1, <2>5, SMTT(60) DEF Lidar!Cos, Lidar!Sin
  <2> QED
      BY <1>1, <2>2, <2>3, <2>4, <2>5
<1>6. Lidar!TransformPose(t, o) = [x |-> p.x, y |-> p.y, yaw |-> p.yaw]
    BY <1>3, <1>4, <1>5 DEF Lidar!TransformPose
<1>7. Lidar!MapToOdomFromBasePoses(p, o) = t
    BY DEF Lidar!MapToOdomFromBasePoses, t, i
<1> QED
    BY <1>1, <1>6, <1>7

-----------------------------------------------------------------------------
(* The search and the gate.                                                *)

Offsets == [dx : -1 .. 1, dy : -1 .. 1, dyaw : -2 .. 2]

LEMMA CandidateType ==
    ASSUME NEW k \in 1 .. 45
    PROVE  Lidar!Candidates[k] \in Offsets
<1>1. /\ ((k - 1) \div 15) + 1 \in 1 .. 3
      /\ (((k - 1) \div 5) % 3) + 1 \in 1 .. 3
      /\ ((k - 1) % 5) + 1 \in 1 .. 5
    OBVIOUS
<1>2. \A n \in 1 .. 3 : Lidar!Grid[n] \in -1 .. 1
    BY DEF Lidar!Grid
<1>3. \A n \in 1 .. 5 : Lidar!YawGrid[n] \in -2 .. 2
    BY DEF Lidar!YawGrid
<1> HIDE DEF Lidar!Grid, Lidar!YawGrid
<1>4. Lidar!Candidates[k] = [dx |-> Lidar!Grid[((k - 1) \div 15) + 1],
                       dy |-> Lidar!Grid[(((k - 1) \div 5) % 3) + 1],
                       dyaw |-> Lidar!YawGrid[((k - 1) % 5) + 1]]
    BY DEF Lidar!Candidates
<1> QED
    BY <1>1, <1>2, <1>3, <1>4 DEF Offsets

LEMMA CandidateDomain == DOMAIN Lidar!Candidates = 1 .. 45
    BY DEF Lidar!Candidates

LEMMA ScoreType ==
    ASSUME Parameters, NEW scan \in Scans, NEW c \in Offsets
    PROVE  Lidar!MeanError(scan, c) \in Nat /\ Lidar!Score(scan, c) \in Nat
<1>1. Lidar!MeanError(scan, c) \in Nat
    BY DEF Parameters, Lidar!MeanError
<1>2. c.dx \in -1 .. 1 /\ c.dy \in -1 .. 1 /\ c.dyaw \in -2 .. 2
    BY DEF Offsets
<1>3. /\ c.dx * c.dx + c.dy * c.dy \in 0 .. 2
      /\ c.dyaw * c.dyaw \in 0 .. 4
    BY <1>2
<1>4. /\ PriorXY * (c.dx * c.dx + c.dy * c.dy) \in Nat
      /\ PriorYaw * c.dyaw * c.dyaw \in Nat
  <2>1. \A u \in 0 .. 4 : PriorXY * u \in Nat /\ PriorYaw * u \in Nat
      BY DEF Parameters
  <2>2. PriorYaw * c.dyaw * c.dyaw = PriorYaw * (c.dyaw * c.dyaw)
      BY <1>2 DEF Parameters
  <2> QED
      BY <1>3, <2>1, <2>2
<1> QED
    BY <1>1, <1>4 DEF Lidar!Score

(* The best candidate: one of those whose score is the least.              *)
Best(scan) ==
    LET least == Lidar!Min({Lidar!Score(scan, Lidar!Candidates[k]) :
            k \in DOMAIN Lidar!Candidates})
    IN  Lidar!Candidates[Lidar!Min({k \in DOMAIN Lidar!Candidates :
            Lidar!Score(scan, Lidar!Candidates[k]) = least})]

LEMMA BestIsBest ==
    ASSUME Parameters, NEW scan \in Scans
    PROVE  /\ Best(scan) \in Offsets
           /\ Best(scan) \in Lidar!Range(Lidar!Candidates)
           /\ \A d \in Lidar!Range(Lidar!Candidates) :
                  Lidar!Score(scan, d) >= Lidar!Score(scan, Best(scan))
<1> DEFINE scores == {Lidar!Score(scan, Lidar!Candidates[k]) :
        k \in DOMAIN Lidar!Candidates}
           least == Lidar!Min(scores)
           indices == {k \in DOMAIN Lidar!Candidates :
               Lidar!Score(scan, Lidar!Candidates[k]) = least}
           n == Lidar!Min(indices)
<1>1. \A k \in 1 .. 45 : Lidar!Score(scan, Lidar!Candidates[k]) \in Nat
    BY CandidateType, ScoreType
<1>2. scores \in SUBSET Nat /\ scores # {}
  <2>1. Lidar!Score(scan, Lidar!Candidates[1]) \in scores
      BY CandidateDomain
  <2> QED
      BY <1>1, <2>1, CandidateDomain
<1>3. least \in scores /\ \A y \in scores : least <= y
  <2> HIDE DEF scores
  <2> QED
      BY <1>2, MinNat
<1>4. indices \in SUBSET Nat /\ indices # {}
  <2>1. PICK k \in DOMAIN Lidar!Candidates : Lidar!Score(scan, Lidar!Candidates[k]) = least
      BY <1>3
  <2>2. k \in indices
      BY <2>1
  <2> HIDE DEF least
  <2> QED
      BY <2>2, CandidateDomain
<1>5. n \in indices
  <2> HIDE DEF indices
  <2> QED
      BY <1>4, MinNat
<1>6. n \in 1 .. 45 /\ Lidar!Score(scan, Lidar!Candidates[n]) = least
    BY <1>5, CandidateDomain
<1>7. Best(scan) = Lidar!Candidates[n]
    BY DEF Best
<1> HIDE DEF n
<1>8. \A d \in Lidar!Range(Lidar!Candidates) : d \in {Lidar!Candidates[k] : k \in 1 .. 45}
    BY CandidateDomain DEF Lidar!Range
<1>9. \A d \in Lidar!Range(Lidar!Candidates) :
          Lidar!Score(scan, d) >= Lidar!Score(scan, Lidar!Candidates[n])
  <2> SUFFICES ASSUME NEW k \in 1 .. 45
               PROVE  Lidar!Score(scan, Lidar!Candidates[k])
                          >= Lidar!Score(scan, Lidar!Candidates[n])
      BY <1>8
  <2>1. Lidar!Score(scan, Lidar!Candidates[k]) \in scores
      BY CandidateDomain
  <2>2. least <= Lidar!Score(scan, Lidar!Candidates[k])
      BY <1>3, <2>1
  <2> HIDE DEF least
  <2> QED
      BY <1>1, <1>6, <2>2
<1> QED
    BY <1>6, <1>7, <1>9, CandidateType, CandidateDomain DEF Lidar!Range

(* What a correction is worth, of the pose p published for odometry o.     *)
Earned(scan, o, p) ==
    \/ p = o
    \/ \E c \in Lidar!Range(Lidar!Candidates) :
         /\ p = Lidar!Moved(o, c)
         /\ c.dx * c.dx + c.dy * c.dy <= MaxTranslation /\ Lidar!TurnSize(c.dyaw) <= MaxYaw
         /\ Lidar!MeanError(scan, c) <= MaxMeanError
         /\ Lidar!MeanError(scan, Lidar!Candidates[1]) - Lidar!MeanError(scan, c)
                >= MinImprovement
         /\ \A d \in Lidar!Range(Lidar!Candidates) :
                Lidar!Score(scan, d) >= Lidar!Score(scan, c)

(* The gate measures the correction by the poses before and after it,      *)
(* which is the candidate itself.                                          *)
LEMMA MovedBy ==
    ASSUME NEW o \in Poses, NEW c \in Offsets
    PROVE  /\ Lidar!Moved(o, c) \in Poses
           /\ Lidar!TranslationDelta(Lidar!Moved(o, c), o) = c.dx * c.dx + c.dy * c.dy
           /\ Lidar!TurnSize(Lidar!Moved(o, c).yaw - o.yaw) = Lidar!TurnSize(c.dyaw)
<1>1. /\ o.x \in Int /\ o.y \in Int /\ o.yaw \in 0 .. 3
      /\ c.dx \in -1 .. 1 /\ c.dy \in -1 .. 1 /\ c.dyaw \in -2 .. 2
    BY DEF Poses, Offsets
<1>2. Lidar!Moved(o, c) \in Poses
    BY <1>1 DEF Lidar!Moved, Poses
<1>3. Lidar!TranslationDelta(Lidar!Moved(o, c), o) = c.dx * c.dx + c.dy * c.dy
  <2>1. /\ Lidar!Moved(o, c).x - o.x = c.dx
        /\ Lidar!Moved(o, c).y - o.y = c.dy
      BY <1>1 DEF Lidar!Moved
  <2> QED
      BY <2>1 DEF Lidar!TranslationDelta
<1>4. LET a == Lidar!Moved(o, c).yaw - o.yaw
      IN  a % 4 = c.dyaw % 4 /\ (-a) % 4 = (-c.dyaw) % 4
    BY <1>1 DEF Lidar!Moved
<1> QED
    BY <1>2, <1>3, <1>4 DEF Lidar!TurnSize

LEMMA EvaluateEarns ==
    ASSUME Parameters, NEW scan \in Scans, NEW o \in Poses,
           NEW p, p = Lidar!Evaluate(o, Lidar!MatchScanToMap(scan, o))
    PROVE  p \in Poses /\ Earned(scan, o, p)
<1> DEFINE c == Best(scan)
           stay == Lidar!MeanError(scan, Lidar!Candidates[1])
           m == Lidar!MatchScanToMap(scan, o)
<1>1. /\ c \in Offsets /\ c \in Lidar!Range(Lidar!Candidates)
      /\ \A d \in Lidar!Range(Lidar!Candidates) :
             Lidar!Score(scan, d) >= Lidar!Score(scan, c)
    BY BestIsBest
<1>2. Lidar!MeanError(scan, c) \in Nat /\ stay \in Nat
    BY <1>1, ScoreType, CandidateType
<1>3. m = IF stay - Lidar!MeanError(scan, c) < MinImprovement
          THEN [pose |-> o, mean_error |-> stay, used_points |-> scan.usable]
          ELSE [pose |-> Lidar!Moved(o, c), mean_error |-> Lidar!MeanError(scan, c),
                used_points |-> scan.usable]
    BY DEF Lidar!MatchScanToMap, Best
<1> HIDE DEF c, stay, m
<1>4. CASE p = o
    BY <1>4 DEF Earned
<1>5. CASE p # o
  <2>1. /\ p = m.pose
        /\ m.mean_error <= MaxMeanError
        /\ Lidar!TranslationDelta(m.pose, o) <= MaxTranslation
        /\ Lidar!TurnSize(m.pose.yaw - o.yaw) <= MaxYaw
      BY <1>5 DEF Lidar!Evaluate, m
  <2>2. ~(stay - Lidar!MeanError(scan, c) < MinImprovement)
      BY <1>3, <1>5, <2>1
  <2>3. m.pose = Lidar!Moved(o, c) /\ m.mean_error = Lidar!MeanError(scan, c)
      BY <1>3, <2>2
  <2>4. stay - Lidar!MeanError(scan, c) >= MinImprovement
      BY <1>2, <2>2 DEF Parameters
  <2>5. /\ c.dx * c.dx + c.dy * c.dy <= MaxTranslation
        /\ Lidar!TurnSize(c.dyaw) <= MaxYaw
        /\ Lidar!MeanError(scan, c) <= MaxMeanError
        /\ Lidar!Moved(o, c) \in Poses
      BY <1>1, <2>1, <2>3, MovedBy
  <2>6. p = Lidar!Moved(o, c)
      BY <2>1, <2>3
  <2> QED
      BY <1>1, <2>4, <2>5, <2>6 DEF Earned, stay
<1> QED
    BY <1>4, <1>5

-----------------------------------------------------------------------------
(* The history.                                                            *)

(* The odometry in the history is in the order of its stamps, and what was *)
(* received and is not there any more is older than all of it.             *)
HistoryInv ==
    /\ odom_history \in Seq(OdomMessages)
    /\ \A i \in 1 .. Len(odom_history) : odom_history[i] \in received
    /\ \A i, j \in 1 .. Len(odom_history) :
          i < j => odom_history[i].stamp < odom_history[j].stamp
    /\ received \subseteq OdomMessages
    /\ \A m \in received :
          /\ odom_history # << >>
          /\ \/ \E i \in 1 .. Len(odom_history) : odom_history[i] = m
             \/ m.stamp < odom_history[1].stamp

LEMMA OdomKeepsHistory ==
    ASSUME Parameters, HistoryInv, NEW msg \in OdomMessages,
           \A m \in received : m.stamp < msg.stamp, Lidar!OnOdom(msg)
    PROVE  HistoryInv'
<1> DEFINE all == Append(odom_history, msg)
           n == Len(odom_history)
<1>1. /\ odom_history \in Seq(OdomMessages) /\ n \in Nat
      /\ all \in Seq(OdomMessages) /\ Len(all) = n + 1
      /\ all[n + 1] = msg /\ \A i \in 1 .. n : all[i] = odom_history[i]
    BY DEF HistoryInv
<1>2. \A m \in OdomMessages : m.stamp \in Nat
    BY DEF Parameters
<1>3. received' = received \cup {msg} /\ received' \subseteq OdomMessages
    BY DEF Lidar!OnOdom, HistoryInv
<1>4. \A i \in 1 .. n + 1 : all[i] \in received' /\ all[i] \in OdomMessages
    BY <1>1, <1>3 DEF HistoryInv
<1>5. \A i, j \in 1 .. n + 1 : i < j => all[i].stamp < all[j].stamp
  <2> SUFFICES ASSUME NEW i \in 1 .. n + 1, NEW j \in 1 .. n + 1, i < j
               PROVE  all[i].stamp < all[j].stamp
      OBVIOUS
  <2>1. CASE j \in 1 .. n
      BY <1>1, <2>1 DEF HistoryInv
  <2>2. CASE j = n + 1
    <3>1. i \in 1 .. n
        BY <1>1, <2>2
    <3>2. odom_history[i] \in received
        BY <3>1 DEF HistoryInv
    <3> QED
        BY <1>1, <2>2, <3>1, <3>2
  <2> QED
      BY <1>1, <2>1, <2>2
<1>6. \A m \in received' : \/ \E i \in 1 .. n + 1 : all[i] = m
                           \/ m.stamp < all[1].stamp
  <2> SUFFICES ASSUME NEW m \in received'
               PROVE  \/ \E i \in 1 .. n + 1 : all[i] = m
                      \/ m.stamp < all[1].stamp
      OBVIOUS
  <2>1. CASE m = msg
      BY <1>1, <2>1
  <2>2. CASE m \in received
    <3>1. n > 0
        BY <1>1, <2>2 DEF HistoryInv
    <3>2. 1 \in 1 .. n /\ all[1] = odom_history[1]
        BY <1>1, <3>1
    <3>3. CASE \E i \in 1 .. n : odom_history[i] = m
        BY <1>1, <3>3
    <3>4. CASE m.stamp < odom_history[1].stamp
        BY <3>2, <3>4
    <3> QED
        BY <2>2, <3>3, <3>4 DEF HistoryInv
  <2> QED
      BY <1>3, <2>1, <2>2
<1>7. odom_history' = IF Len(all) > HistorySize THEN Tail(all) ELSE all
    BY DEF Lidar!OnOdom
<1> HIDE DEF all
<1>8. CASE odom_history' = all
  <2>1. all # << >>
      BY <1>1
  <2> QED
      BY <1>1, <1>3, <1>4, <1>5, <1>6, <1>8, <2>1 DEF HistoryInv, n
<1>9. CASE odom_history' = Tail(all) /\ Len(all) > HistorySize
  <2> DEFINE rest == Tail(all)
  <2>1. n + 1 >= 2 /\ HistorySize \in Nat \ {0}
      BY <1>1, <1>9 DEF Parameters
  <2>2. /\ rest \in Seq(OdomMessages) /\ Len(rest) = n
        /\ \A i \in 1 .. n : rest[i] = all[i + 1]
      BY <1>1, <2>1
  <2>3. rest # << >> /\ rest[1] = all[2] /\ 1 \in 1 .. n
      BY <1>1, <2>1, <2>2
  <2> HIDE DEF rest, n
  <2>4. \A i \in 1 .. n : rest[i] \in received'
      BY <1>1, <1>4, <2>2
  <2>5. \A i, j \in 1 .. n : i < j => rest[i].stamp < rest[j].stamp
    <3> SUFFICES ASSUME NEW i \in 1 .. n, NEW j \in 1 .. n, i < j
                 PROVE  rest[i].stamp < rest[j].stamp
        OBVIOUS
    <3>1. i + 1 \in 1 .. n + 1 /\ j + 1 \in 1 .. n + 1 /\ i + 1 < j + 1
        BY <1>1
    <3>2. all[i + 1].stamp < all[j + 1].stamp
        BY <1>5, <3>1
    <3> QED
        BY <2>2, <3>2
  <2>6. \A m \in received' : \/ \E i \in 1 .. n : rest[i] = m
                             \/ m.stamp < rest[1].stamp
    <3> SUFFICES ASSUME NEW m \in received'
                 PROVE  \/ \E i \in 1 .. n : rest[i] = m
                        \/ m.stamp < rest[1].stamp
        OBVIOUS
    <3>1. all[1].stamp < all[2].stamp
        BY <1>1, <1>5, <2>1
    <3>2. all[1].stamp \in Nat /\ all[2].stamp \in Nat /\ m.stamp \in Nat
        BY <1>1, <1>2, <1>3, <1>4, <2>1
    <3>3. CASE m.stamp < all[1].stamp
      <4>1. m.stamp < all[2].stamp
          BY <3>1, <3>2, <3>3
      <4> QED
          BY <2>3, <4>1
    <3>4. CASE \E i \in 1 .. n + 1 : all[i] = m
      <4>1. PICK i \in 1 .. n + 1 : all[i] = m
          BY <3>4
      <4>2. CASE i = 1
          BY <2>3, <3>1, <4>1, <4>2
      <4>3. CASE i # 1
        <5>1. i - 1 \in 1 .. n /\ (i - 1) + 1 = i
            BY <1>1, <4>3
        <5>2. rest[i - 1] = m
            BY <2>2, <4>1, <5>1
        <5> QED
            BY <5>1, <5>2
      <4> QED
          BY <4>2, <4>3
    <3> QED
        BY <1>6, <3>3, <3>4
  <2>7. odom_history' = rest
      BY <1>9 DEF rest
  <2> QED
      BY <1>3, <2>2, <2>3, <2>4, <2>5, <2>6, <2>7 DEF HistoryInv
<1> QED
    BY <1>7, <1>8, <1>9

(* _odom_for_stamp: the history holds a nearest one, and that is taken.    *)
LEMMA NearestTaken ==
    ASSUME Parameters, HistoryInv, odom_history # << >>, NEW stamp \in Nat
    PROVE  \E n \in 1 .. Len(odom_history) :
              /\ Lidar!OdomForStamp(stamp) = odom_history[n]
              /\ \A i \in 1 .. Len(odom_history) :
                    Lidar!Apart(odom_history[i].stamp, stamp)
                        >= Lidar!Apart(odom_history[n].stamp, stamp)
<1> DEFINE gaps == {Lidar!Apart(odom_history[i].stamp, stamp) : i \in DOMAIN odom_history}
           gap == Lidar!Min(gaps)
           indices == {i \in DOMAIN odom_history :
               Lidar!Apart(odom_history[i].stamp, stamp) = gap}
           n == Lidar!Min(indices)
<1>1. /\ DOMAIN odom_history = 1 .. Len(odom_history) /\ Len(odom_history) \in Nat
      /\ 1 \in DOMAIN odom_history
      /\ \A i \in 1 .. Len(odom_history) : odom_history[i].stamp \in Nat
    BY DEF HistoryInv, Parameters
<1>2. \A i \in 1 .. Len(odom_history) : Lidar!Apart(odom_history[i].stamp, stamp) \in Nat
    BY <1>1 DEF Lidar!Apart
<1>3. gaps \in SUBSET Nat /\ gaps # {}
  <2>1. Lidar!Apart(odom_history[1].stamp, stamp) \in gaps
      BY <1>1
  <2> QED
      BY <1>1, <1>2, <2>1
<1>4. gap \in gaps /\ \A y \in gaps : gap <= y
  <2> HIDE DEF gaps
  <2> QED
      BY <1>3, MinNat
<1>5. indices \in SUBSET Nat /\ indices # {}
  <2>1. PICK k \in DOMAIN odom_history : Lidar!Apart(odom_history[k].stamp, stamp) = gap
      BY <1>4
  <2>2. k \in indices
      BY <2>1
  <2> HIDE DEF gap
  <2> QED
      BY <1>1, <2>2
<1>6. n \in indices
  <2> HIDE DEF indices
  <2> QED
      BY <1>5, MinNat
<1>7. n \in 1 .. Len(odom_history) /\ Lidar!Apart(odom_history[n].stamp, stamp) = gap
    BY <1>1, <1>6
<1>8. Lidar!OdomForStamp(stamp) = odom_history[n]
    BY DEF Lidar!OdomForStamp
<1>9. \A i \in 1 .. Len(odom_history) :
         Lidar!Apart(odom_history[i].stamp, stamp)
             >= Lidar!Apart(odom_history[n].stamp, stamp)
  <2> SUFFICES ASSUME NEW i \in 1 .. Len(odom_history)
               PROVE  Lidar!Apart(odom_history[i].stamp, stamp)
                          >= Lidar!Apart(odom_history[n].stamp, stamp)
      OBVIOUS
  <2>1. gap <= Lidar!Apart(odom_history[i].stamp, stamp)
      BY <1>1, <1>4
  <2> HIDE DEF gap, n
  <2> QED
      BY <1>2, <1>7, <2>1
<1> HIDE DEF n
<1> QED
    BY <1>7, <1>8, <1>9

-----------------------------------------------------------------------------
LEMMA ApartType ==
    ASSUME NEW s \in Nat, NEW t \in Nat
    PROVE  Lidar!Apart(s, t) \in Int
    BY DEF Lidar!Apart

(* What is forgotten is further away than the oldest that is kept, for a   *)
(* scan that is no older than that.                                        *)
LEMMA NoneNearer ==
    ASSUME Parameters, HistoryInv, odom_history # << >>, NEW stamp \in Nat,
           stamp >= odom_history[1].stamp, NEW m \in received
    PROVE  Lidar!Apart(m.stamp, stamp) >= Lidar!Apart(Lidar!OdomForStamp(stamp).stamp, stamp)
<1>1. PICK n \in 1 .. Len(odom_history) :
         /\ Lidar!OdomForStamp(stamp) = odom_history[n]
         /\ \A i \in 1 .. Len(odom_history) :
               Lidar!Apart(odom_history[i].stamp, stamp)
                   >= Lidar!Apart(odom_history[n].stamp, stamp)
    BY NearestTaken
<1>2. CASE \E i \in 1 .. Len(odom_history) : odom_history[i] = m
    BY <1>1, <1>2
<1>3. CASE m.stamp < odom_history[1].stamp
  <2>1. 1 \in 1 .. Len(odom_history) /\ Len(odom_history) \in Nat
      BY DEF HistoryInv
  <2>2. /\ m.stamp \in Nat /\ odom_history[1].stamp \in Nat
        /\ odom_history[n].stamp \in Nat
      BY <2>1 DEF HistoryInv, Parameters
  <2>3. Lidar!Apart(odom_history[1].stamp, stamp)
            >= Lidar!Apart(odom_history[n].stamp, stamp)
      BY <1>1, <2>1
  <2>4. Lidar!Apart(m.stamp, stamp) >= Lidar!Apart(odom_history[1].stamp, stamp)
      BY <1>3, <2>2 DEF Lidar!Apart
  <2>5. /\ Lidar!Apart(m.stamp, stamp) \in Int /\ Lidar!Apart(odom_history[1].stamp, stamp) \in Int
        /\ Lidar!Apart(odom_history[n].stamp, stamp) \in Int
      BY <2>2, ApartType
  <2> QED
      BY <1>1, <2>3, <2>4, <2>5
<1> QED
    BY <1>2, <1>3 DEF HistoryInv

LEMMA ScanIsSound ==
    ASSUME Parameters, HistoryInv, NEW scan \in Scans, Lidar!OnScan(scan)
    PROVE  Lidar!CorrectionsAreSound'
<1> DEFINE odom == Lidar!OdomForStamp(scan.stamp)
           pose == Lidar!Evaluate(odom.pose, Lidar!MatchScanToMap(scan, odom.pose))
           f == [stamp |-> scan.stamp, pose |-> pose]
           t == Lidar!MapToOdomFromBasePoses(pose, odom.pose)
           u == [odom |-> odom, scan |-> scan, known |-> received,
                 oldest |-> odom_history[1].stamp]
<1>1. odom_history # << >> /\ filtered' = {f} /\ map_to_odom' = {t} /\ used' = {u}
    BY DEF Lidar!OnScan
<1>2. scan.stamp \in Nat
    BY DEF Parameters
<1>3. odom.pose \in Poses
  <2>1. PICK n \in 1 .. Len(odom_history) : odom = odom_history[n]
      BY <1>1, <1>2, NearestTaken
  <2>2. odom_history[n] \in OdomMessages
      BY DEF HistoryInv
  <2> QED
      BY <2>1, <2>2 DEF Parameters
<1>4. pose \in Poses /\ Earned(scan, odom.pose, pose)
    BY <1>3, EvaluateEarns
<1>5. /\ f.pose = pose
      /\ u.odom = odom /\ u.scan = scan /\ u.known = received
      /\ u.oldest = odom_history[1].stamp
    OBVIOUS
<1>6. scan.stamp >= odom_history[1].stamp =>
         \A m \in received : Lidar!Apart(m.stamp, scan.stamp)
             >= Lidar!Apart(odom.stamp, scan.stamp)
    BY <1>1, <1>2, NoneNearer
<1> HIDE DEF pose, odom, f, u, t
<1>7. Lidar!TransformPose(t, odom.pose) = pose
    BY <1>3, <1>4, AlignsBases DEF t
<1>8. Lidar!TransformAligns'
    BY <1>1, <1>5, <1>7 DEF Lidar!TransformAligns
<1>9. Lidar!CorrectionIsEarned'
    BY <1>1, <1>4, <1>5 DEF Lidar!CorrectionIsEarned, Earned
<1>10. Lidar!NearestOdom'
    BY <1>1, <1>5, <1>6 DEF Lidar!NearestOdom
<1> QED
    BY <1>8, <1>9, <1>10 DEF Lidar!CorrectionsAreSound

(* Whatever odometry and scans come, and however late a scan is: what      *)
(* lidar_localization_node publishes was computed around the odometry      *)
(* nearest to the scan, a correction is within the gate's limits and the   *)
(* best of its candidates, and the transform belongs to the pose.          *)
THEOREM CorrectionsAlwaysSound ==
    ASSUME Parameters PROVE Lidar!Spec => []CorrectionsAreSound
<1>1. Lidar!Init => HistoryInv /\ Lidar!CorrectionsAreSound
  <2> SUFFICES ASSUME Lidar!Init PROVE HistoryInv /\ Lidar!CorrectionsAreSound
      OBVIOUS
  <2>1. HistoryInv
    <3>1. odom_history = << >> /\ received = {}
        BY DEF Lidar!Init
    <3> QED
        BY <3>1 DEF HistoryInv
  <2>2. Lidar!CorrectionsAreSound
      BY DEF Lidar!Init, Lidar!CorrectionsAreSound, Lidar!TransformAligns,
          Lidar!CorrectionIsEarned, Lidar!NearestOdom
  <2> QED
      BY <2>1, <2>2
<1>2. HistoryInv /\ Lidar!CorrectionsAreSound /\ [Lidar!Next]_(Lidar!vars)
        => HistoryInv' /\ Lidar!CorrectionsAreSound'
  <2> SUFFICES ASSUME HistoryInv, Lidar!CorrectionsAreSound, [Lidar!Next]_(Lidar!vars)
               PROVE  HistoryInv' /\ Lidar!CorrectionsAreSound'
      OBVIOUS
  <2>1. ASSUME NEW msg \in OdomMessages, \A m \in received :
                   m.stamp < msg.stamp, Lidar!OnOdom(msg)
        PROVE  HistoryInv' /\ Lidar!CorrectionsAreSound'
    <3>1. HistoryInv'
        BY <2>1, OdomKeepsHistory
    <3>2. Lidar!CorrectionsAreSound'
        BY <2>1 DEF Lidar!OnOdom, Lidar!CorrectionsAreSound, Lidar!TransformAligns,
                    Lidar!CorrectionIsEarned,
                    Lidar!NearestOdom
    <3> QED
        BY <3>1, <3>2
  <2>2. ASSUME NEW scan \in Scans, Lidar!OnScan(scan)
        PROVE  HistoryInv' /\ Lidar!CorrectionsAreSound'
    <3>1. HistoryInv'
        BY <2>2 DEF Lidar!OnScan, HistoryInv
    <3> QED
        BY <2>2, <3>1, ScanIsSound
  <2>3. ASSUME NEW scan \in Scans, Lidar!OnScanUnusable(scan)
        PROVE  HistoryInv' /\ Lidar!CorrectionsAreSound'
      BY <2>3 DEF Lidar!OnScanUnusable, HistoryInv, Lidar!CorrectionsAreSound,
                  Lidar!TransformAligns,
                  Lidar!CorrectionIsEarned, Lidar!NearestOdom
  <2>4. CASE UNCHANGED Lidar!vars
      BY <2>4 DEF Lidar!vars, HistoryInv, Lidar!CorrectionsAreSound, Lidar!TransformAligns,
                  Lidar!CorrectionIsEarned, Lidar!NearestOdom
  <2> QED
      BY <2>1, <2>2, <2>3, <2>4 DEF Lidar!Next
<1> QED
    BY <1>1, <1>2, PTL DEF Lidar!Spec, CorrectionsAreSound
=============================================================================
