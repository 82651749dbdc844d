-------------------------- MODULE DriveLoop_proofs --------------------------
(***************************************************************************)
(* First the bridge by itself, for every depth, timeout, sequence modulus, *)
(* line capacity, set of readers, set of messages and set of faults.       *)
(*                                                                         *)
(* Then the drive loop, for every depth of the queues and every pair of    *)
(* timeouts.  Whatever nodes keep up and whatever the planner's crashes    *)
(* and the operator do, the variables keep their types; until an operator  *)
(* acts, the vehicle heeds the bridge's alarm, and if all nodes keep up,   *)
(* the bridge's watchdog acts first.                                       *)
(***************************************************************************)
EXTENDS DriveLoop, SequenceTheorems, TLAPS

USE DepthAssumption, BridgeAssumption

(* A reader's queue stays typed and bounded when a message is handed to    *)
(* it, and the message handed last is the last one in it.                  *)
LEMMA KeepLastFacts ==
    ASSUME NEW S, NEW q \in Seq(S), NEW m \in S, Len(q) <= Depth
    PROVE  /\ KeepLast(q, m) \in Seq(S)
           /\ Len(KeepLast(q, m)) <= Depth
           /\ KeepLast(q, m) # << >>
           /\ KeepLast(q, m)[Len(KeepLast(q, m))] = m
<1>1. CASE Len(q) < Depth
  BY <1>1 DEF KeepLast
<1>2. CASE ~(Len(q) < Depth)
  <2>1. q # << >> /\ Tail(q) \in Seq(S) /\ Len(Tail(q)) = Len(q) - 1
    BY <1>2
  <2>2. KeepLast(q, m) = Append(Tail(q), m)
    BY <1>2 DEF KeepLast
  <2> QED  BY <2>1, <2>2
<1> QED  BY <1>1, <1>2

(* PublishEstop keeps /estop typed and bounded, records the value, and     *)
(* puts it at the end of every reader's queue when it is a new one.        *)
LEMMA PublishEstopType ==
    ASSUME TypeOK, NEW value \in BOOLEAN, PublishEstop(value)
    PROVE  /\ estop_topic' \in [EstopReaders -> Seq(BOOLEAN)]
           /\ \A r \in EstopReaders : Len(estop_topic'[r]) <= Depth
           /\ last_estop_published' = {value}
<1>1. CASE last_estop_published = {value}
  BY <1>1 DEF PublishEstop, TypeOK
<1>2. CASE last_estop_published # {value}
  <2>1. /\ last_estop_published' = {value}
        /\ estop_topic' = [r \in EstopReaders |-> KeepLast(estop_topic[r], value)]
    BY <1>2 DEF PublishEstop, Publish, TypeOK
  <2>2. \A r \in EstopReaders : /\ KeepLast(estop_topic[r], value) \in Seq(BOOLEAN)
                                 /\ Len(KeepLast(estop_topic[r], value)) <= Depth
    BY KeepLastFacts DEF TypeOK
  <2> QED  BY <2>1, <2>2
<1> QED  BY <1>1, <1>2

(* Taking a message leaves a topic typed and bounded.                      *)
LEMMA TakeType ==
    ASSUME NEW S, NEW R, NEW r \in R, NEW topic \in [R -> Seq(S)],
           \A x \in R : Len(topic[x]) <= Depth, topic[r] # << >>
    PROVE  /\ Take(topic, r) \in [R -> Seq(S)]
           /\ \A x \in R : Len(Take(topic, r)[x]) <= Depth
<1>1. Tail(topic[r]) \in Seq(S) /\ Len(Tail(topic[r])) = Len(topic[r]) - 1
  OBVIOUS
<1> QED  BY <1>1 DEF Take

(* Polling the line leaves the input typed and bounded, the last MCU state *)
(* a report of the MCU, and the node running or dead.                      *)
LEMMA PollType ==
    ASSUME TypeOK, Poll
    PROVE  /\ rx' \in Seq(McuFrames) /\ Len(rx') <= RxCap
           /\ last_mcu_state' \subseteq McuReports
           /\ node' \in {"idle", "dead"}
<1>1. PICK n \in 0 .. Len(rx) : PollAfter(n)
  BY DEF Poll
<1>2. rx \in Seq(McuFrames) /\ Len(rx) \in Nat /\ Len(rx) <= RxCap
  BY DEF TypeOK
<1>3. CASE n = Len(rx)
  BY <1>1, <1>2, <1>3 DEF TypeOK, PollAfter
<1>4. CASE n # Len(rx)
  <2>1. n + 1 \in 1 .. Len(rx) /\ rx[n + 1] \in McuFrames
    BY <1>2, <1>4, ElementOfSeq
  <2>2. rx[n + 1].report \subseteq McuReports
    <3>1. CASE \E r \in McuReports : rx[n + 1] = StateFrame(r)
      BY <3>1 DEF StateFrame
    <3>2. CASE \E k \in {"fault", "corrupt", "badsize"} : rx[n + 1] = OtherFrame(k)
      BY <3>2 DEF OtherFrame
    <3> QED  BY <2>1, <3>1, <3>2 DEF McuFrames
  <2>3. \A i \in n + 2 .. Len(rx) : rx[i] \in McuFrames
    BY <1>2, <2>1, ElementOfSeq
  <2>4. /\ SubSeq(rx, n + 2, Len(rx)) \in Seq(McuFrames)
        /\ Len(SubSeq(rx, n + 2, Len(rx))) <= Len(rx)
    BY <1>2, <2>1, <2>3, SubSeqProperties
  <2>5. rx' = SubSeq(rx, n + 2, Len(rx)) /\ node' \in {"idle", "dead"}
    BY <1>1, <1>4 DEF PollAfter
  <2>6. last_mcu_state' \subseteq McuReports
    BY <1>1, <1>4, <2>2 DEF PollAfter, TypeOK
  <2> QED  BY <1>2, <2>4, <2>5, <2>6
<1> QED  BY <1>3, <1>4

(* A command built from a message of /cmd_drive is a ControlCommand with a *)
(* brake that is never negative.                                           *)
LEMMA ControlType ==
    ASSUME NEW m \in DriveMsgs
    PROVE  ControlOf(m) \in [target_velocity : Int, brake : Nat]
BY DEF ControlOf

(* Every step keeps the types.                                             *)
LEMMA TypeStep == TypeOK /\ [Next]_vars => TypeOK'
<1> SUFFICES ASSUME TypeOK, [Next]_vars
             PROVE  TypeOK'
  OBVIOUS
<1>1. CASE OnCmdDrive
  <2>1. Head(cmd_drive["bridge"]) \in DriveMsgs
    BY <1>1, HeadTailProperties DEF OnCmdDrive, TypeOK
  <2>2. /\ cmd_drive' \in [CmdReaders -> Seq(DriveMsgs)]
        /\ \A r \in CmdReaders : Len(cmd_drive'[r]) <= Depth
    BY <1>1, TakeType DEF OnCmdDrive, TypeOK
  <2>3. last_command' \in [target_velocity : Int, brake : Nat]
    BY <1>1, <2>1, ControlType DEF OnCmdDrive
  <2> QED  BY <1>1, <2>2, <2>3 DEF OnCmdDrive, linkVars, TypeOK
<1>2. CASE ControlTick
  <2>1. NextSequence \in 0 .. SeqMod - 1
    BY DEF NextSequence, TypeOK
  <2> QED  BY <1>2, <2>1 DEF ControlTick, topicVars, watchVars, TypeOK
<1>3. ControlFrame \in Frame
  BY DEF ControlFrame, Frame, TypeOK
<1>4. CASE ControlWritten
  <2>1. tx' \in Seq(Frame) /\ Len(tx') <= TxCap
    BY <1>3, <1>4, AppendProperties DEF ControlWritten, Written, LineFull, TypeOK
  <2>2. /\ rx' \in Seq(McuFrames) /\ Len(rx') <= RxCap
        /\ last_mcu_state' \subseteq McuReports
        /\ node' \in {"idle", "dead"}
    BY <1>4, PollType DEF ControlWritten
  <2>3. /\ estop_topic' \in [EstopReaders -> Seq(BOOLEAN)]
        /\ \A r \in EstopReaders : Len(estop_topic'[r]) <= Depth
        /\ last_estop_published' \in SUBSET BOOLEAN
    <3>1. SafeStopRequired \in BOOLEAN
      BY DEF SafeStopRequired, TimedOut
    <3> QED  BY <1>4, <3>1, PublishEstopType DEF ControlWritten, TypeOK
  <2> QED  BY <1>4, <2>1, <2>2, <2>3 DEF ControlWritten, TypeOK
<1>5. CASE ControlWriteZero
  <2>1. [ControlFrame EXCEPT !.whole = FALSE] \in Frame
    BY <1>3 DEF Frame
  <2>2. tx' \in Seq(Frame) /\ Len(tx') <= TxCap
    <3>1. CASE tx' = tx
      BY <3>1 DEF TypeOK
    <3>2. CASE tx' # tx
      <4>1. tx' = Append(tx, [ControlFrame EXCEPT !.whole = FALSE])
        BY <1>5, <3>2 DEF ControlWriteZero
      <4>2. Len(tx) < TxCap
        BY <1>5, <3>2 DEF ControlWriteZero, LineFull, TypeOK
      <4> QED  BY <2>1, <4>1, <4>2, AppendProperties DEF TypeOK
    <3> QED  BY <3>1, <3>2
  <2>3. /\ estop_topic' \in [EstopReaders -> Seq(BOOLEAN)]
        /\ \A r \in EstopReaders : Len(estop_topic'[r]) <= Depth
        /\ last_estop_published' \in SUBSET BOOLEAN
    BY <1>5, PublishEstopType DEF ControlWriteZero
  <2> QED  BY <1>5, <2>2, <2>3 DEF ControlWriteZero, TypeOK
<1>6. CASE ControlWriteRaises
  BY <1>6 DEF ControlWriteRaises, topicVars, watchVars, linkVars, TypeOK
<1>7. CASE StateTick
  BY <1>7 DEF StateTick, topicVars, watchVars, linkVars, TypeOK
<1>8. ASSUME NEW m \in DriveMsgs, PublishDrive(m)
      PROVE  TypeOK'
  <2>1. cmd_drive' = [r \in CmdReaders |-> KeepLast(cmd_drive[r], m)]
    BY <1>8 DEF PublishDrive, Publish, TypeOK
  <2>2. \A r \in CmdReaders : /\ KeepLast(cmd_drive[r], m) \in Seq(DriveMsgs)
                              /\ Len(KeepLast(cmd_drive[r], m)) <= Depth
    BY KeepLastFacts DEF TypeOK
  <2> QED  BY <1>8, <2>1, <2>2 DEF PublishDrive, watchVars, linkVars, TypeOK
<1>9. CASE SourceStops
  BY <1>9 DEF SourceStops, watchVars, linkVars, TypeOK
<1>10. ASSUME NEW r \in EstopReaders, OnEstop(r)
       PROVE  TypeOK'
  <2>1. Head(estop_topic[r]) \in BOOLEAN
    BY <1>10, HeadTailProperties DEF OnEstop, TypeOK
  <2>2. /\ estop_topic' \in [EstopReaders -> Seq(BOOLEAN)]
        /\ \A x \in EstopReaders : Len(estop_topic'[x]) <= Depth
    BY <1>10, TakeType DEF OnEstop, TypeOK
  <2> QED  BY <1>10, <2>1, <2>2 DEF OnEstop, watchVars, linkVars, TypeOK
<1>11. CASE McuReads
  <2>1. Tail(tx) \in Seq(Frame) /\ Len(Tail(tx)) <= TxCap
    BY <1>11, HeadTailProperties DEF McuReads, TypeOK
  <2> QED  BY <1>11, <2>1 DEF McuReads, topicVars, watchVars, TypeOK
<1>12. ASSUME NEW f \in McuFrames, McuSends(f)
       PROVE  TypeOK'
  <2>1. rx' \in Seq(McuFrames) /\ Len(rx') <= RxCap
    BY <1>12, AppendProperties DEF McuSends, TypeOK
  <2> QED  BY <1>12, <2>1 DEF McuSends, topicVars, watchVars, TypeOK
<1>13. CASE McuStopsReading
  BY <1>13 DEF McuStopsReading, topicVars, watchVars, TypeOK
<1>14. CASE Tick
  BY <1>14 DEF Tick, topicVars, linkVars, TypeOK
<1>15. CASE UNCHANGED vars
  BY <1>15 DEF vars, topicVars, watchVars, linkVars, TypeOK
<1> QED  BY <1>1, <1>2, <1>4, <1>5, <1>6, <1>7, <1>8, <1>9, <1>10, <1>11,
            <1>12, <1>13, <1>14, <1>15 DEF Next, BridgeStep, LineStep

(* The types hold at the start.                                            *)
LEMMA TypeInit == Init => TypeOK
<1> SUFFICES ASSUME Init PROVE TypeOK
  OBVIOUS
<1>1. << >> \in Seq(DriveMsgs) /\ << >> \in Seq(BOOLEAN)
      /\ << >> \in Seq(Frame) /\ << >> \in Seq(McuFrames) /\ Len(<< >>) = 0
  OBVIOUS
<1>2. /\ cmd_drive \in [CmdReaders -> Seq(DriveMsgs)]
      /\ \A r \in CmdReaders : Len(cmd_drive[r]) <= Depth
      /\ estop_topic \in [EstopReaders -> Seq(BOOLEAN)]
      /\ \A r \in EstopReaders : Len(estop_topic[r]) <= Depth
  BY <1>1 DEF Init
<1>3. /\ tx \in Seq(Frame) /\ Len(tx) <= TxCap
      /\ rx \in Seq(McuFrames) /\ Len(rx) <= RxCap
  BY <1>1 DEF Init
<1>4. /\ last_command \in [target_velocity : Int, brake : Nat]
      /\ heartbeat_age \in 0 .. AgeCap
      /\ sequence \in 0 .. SeqMod - 1
  BY DEF Init, ZeroCommand
<1>5. /\ estop_seen \in [EstopReaders -> BOOLEAN]
      /\ last_mcu_state \subseteq McuReports
      /\ last_estop_published \in SUBSET BOOLEAN
  BY DEF Init
<1> QED  BY <1>2, <1>3, <1>4, <1>5 DEF Init, TypeOK

(* The node never leaves its types, and no queue outgrows its bound.       *)
THEOREM TypeCorrect == Spec => []TypeOK
<1> QED  BY TypeInit, TypeStep, PTL DEF Spec

(* Publishing the watchdog's verdict can only say FALSE on a live stream.  *)
LEMMA FreshClear ==
    ASSUME TypeOK, {SafeStopRequired} = {FALSE}
    PROVE  heartbeat_age <= HeartbeatTimeout
<1>1. ~SafeStopRequired
  OBVIOUS
<1> QED  BY <1>1 DEF SafeStopRequired, TimedOut, TypeOK

(* The watchdog answers within a control period whatever the line does.    *)
(* With the types the bound is inductive: time only passes an idle node    *)
(* after its control tick has compared the age with the timeout.           *)
THEOREM WatchdogIsBounded == Spec => []WatchdogBound
<1>1. Init => WatchdogBound
  BY DEF Init, WatchdogBound
<1>2. TypeOK /\ WatchdogBound /\ [Next]_vars => WatchdogBound'
  <2> SUFFICES ASSUME TypeOK, WatchdogBound, [Next]_vars
               PROVE  WatchdogBound'
    OBVIOUS
  <2>1. CASE OnCmdDrive
    BY <2>1 DEF OnCmdDrive, WatchdogBound
  <2>2. CASE ControlTick
    BY <2>2 DEF ControlTick, WatchdogBound
  <2>3. CASE ControlWritten
    <3>1. CASE node' = "dead"
      BY <3>1 DEF WatchdogBound
    <3>2. CASE node' # "dead"
      <4>1. SafeStopRequired \in BOOLEAN
        BY DEF SafeStopRequired, TimedOut
      <4>2. last_estop_published' = {SafeStopRequired}
        BY <2>3, <3>2, <4>1, PublishEstopType DEF ControlWritten
      <4>3. last_estop_published' = {FALSE} => heartbeat_age <= HeartbeatTimeout
        BY <4>2, FreshClear
      <4> QED  BY <2>3, <4>3 DEF ControlWritten, WatchdogBound, TypeOK
    <3> QED  BY <3>1, <3>2
  <2>4. CASE ControlWriteZero
    BY <2>4, PublishEstopType DEF ControlWriteZero, WatchdogBound
  <2>5. CASE ControlWriteRaises
    BY <2>5 DEF ControlWriteRaises, WatchdogBound
  <2>6. CASE Tick
    BY <2>6 DEF Tick, Prompt, WatchdogBound, TypeOK
  <2>7. CASE \/ StateTick \/ SourceStops \/ LineStep
             \/ \E m \in DriveMsgs : PublishDrive(m)
             \/ \E r \in EstopReaders : OnEstop(r)
    <3>1. /\ UNCHANGED <<node, heartbeat_age, last_estop_published, control_due>>
      BY <2>7 DEF StateTick, SourceStops, LineStep, PublishDrive, OnEstop,
                  McuReads, McuStopsReading, McuSends, watchVars
    <3> QED  BY <3>1 DEF WatchdogBound
  <2>8. CASE UNCHANGED vars
    BY <2>8 DEF vars, watchVars, WatchdogBound
  <2> QED  BY <2>1, <2>2, <2>3, <2>4, <2>5, <2>6, <2>7, <2>8 DEF Next, BridgeStep
<1> QED  BY <1>1, <1>2, TypeCorrect, PTL DEF Spec

(* A reader's backlog of /estop, with what it holds when the backlog is    *)
(* empty, always ends with the last published value.                       *)
THEOREM ReadersAlwaysFollow == Spec => []ReadersFollow
<1>1. Init => ReadersFollow
  BY DEF Init, ReadersFollow
<1>2. TypeOK /\ ReadersFollow /\ [Next]_vars => ReadersFollow'
  <2> SUFFICES ASSUME TypeOK, ReadersFollow, [Next]_vars
               PROVE  ReadersFollow'
    OBVIOUS
  <2>1. ASSUME NEW value \in BOOLEAN, PublishEstop(value), estop_seen' = estop_seen
        PROVE  ReadersFollow'
    <3>1. CASE last_estop_published = {value}
      BY <2>1, <3>1 DEF PublishEstop, ReadersFollow
    <3>2. CASE last_estop_published # {value}
      <4>1. estop_topic' = [r \in EstopReaders |-> KeepLast(estop_topic[r], value)]
        BY <2>1, <3>2 DEF PublishEstop, Publish, TypeOK
      <4>2. \A r \in EstopReaders :
                /\ estop_topic'[r] # << >>
                /\ estop_topic'[r][Len(estop_topic'[r])] = value
        BY <4>1, KeepLastFacts DEF TypeOK
      <4>3. last_estop_published' = {value}
        BY <2>1, <3>2 DEF PublishEstop
      <4> QED  BY <4>2, <4>3 DEF ReadersFollow
    <3> QED  BY <3>1, <3>2
  <2>2. CASE ControlWritten
    <3>1. SafeStopRequired \in BOOLEAN
      BY DEF SafeStopRequired, TimedOut
    <3>2. CASE node' = "dead"
      BY <2>2, <3>2 DEF ControlWritten, ReadersFollow
    <3> QED  BY <2>1, <2>2, <3>1, <3>2 DEF ControlWritten
  <2>3. CASE ControlWriteZero
    BY <2>1, <2>3 DEF ControlWriteZero
  <2>4. ASSUME NEW r \in EstopReaders, OnEstop(r)
        PROVE  ReadersFollow'
    <3> DEFINE q == estop_topic[r]
    <3>1. /\ q \in Seq(BOOLEAN) /\ q # << >>
          /\ estop_topic' = [estop_topic EXCEPT ![r] = Tail(q)]
          /\ estop_seen' = [estop_seen EXCEPT ![r] = Head(q)]
          /\ last_estop_published' = last_estop_published
      BY <2>4 DEF OnEstop, Take, watchVars, TypeOK
    <3>2. last_estop_published = {q[Len(q)]}
      BY <3>1 DEF ReadersFollow
    <3>3. \A x \in EstopReaders : x # r =>
              estop_topic'[x] = estop_topic[x] /\ estop_seen'[x] = estop_seen[x]
      BY <3>1 DEF TypeOK
    <3>4. estop_topic'[r] = Tail(q) /\ estop_seen'[r] = q[1]
      BY <3>1 DEF TypeOK
    <3>5. CASE Tail(q) = << >>
      <4>1. Len(q) = 1
        <5>1. Tail(q) \in Seq(BOOLEAN) /\ Len(Tail(q)) = Len(q) - 1
          BY <3>1, HeadTailProperties
        <5>2. Len(Tail(q)) = 0
          BY <3>5, <5>1, EmptySeq
        <5>3. Len(q) \in Nat
          BY <3>1
        <5> QED  BY <5>1, <5>2, <5>3
      <4> QED  BY <3>1, <3>2, <3>3, <3>4, <3>5, <4>1 DEF ReadersFollow
    <3>6. CASE Tail(q) # << >>
      <4>1. Tail(q)[Len(Tail(q))] = q[Len(q)]
        BY <3>1, <3>6, HeadTailProperties
      <4> QED  BY <3>1, <3>2, <3>3, <3>4, <3>6, <4>1 DEF ReadersFollow
    <3> QED  BY <3>5, <3>6
  <2>5. CASE \/ OnCmdDrive \/ ControlTick \/ ControlWriteRaises \/ StateTick
             \/ SourceStops \/ LineStep \/ Tick
             \/ \E m \in DriveMsgs : PublishDrive(m)
    BY <2>5 DEF OnCmdDrive, ControlTick, ControlWriteRaises, StateTick, SourceStops,
                LineStep, McuReads, McuStopsReading, McuSends, Tick, PublishDrive,
                topicVars, watchVars, ReadersFollow
  <2>6. CASE UNCHANGED vars
    BY <2>6 DEF vars, topicVars, watchVars, ReadersFollow
  <2> QED  BY <2>2, <2>3, <2>4, <2>5, <2>6 DEF Next, BridgeStep
<1> QED  BY <1>1, <1>2, TypeCorrect, PTL DEF Spec

(* /estop turns FALSE only in a control tick that handed a whole frame to  *)
(* the transport on a live command stream.                                 *)
THEOREM ClearNeedsWrite == Spec => ClearOnlyAfterWrite
<1> DEFINE Clear == last_estop_published' = {FALSE} /\ last_estop_published # {FALSE}
                    => /\ heartbeat_age <= HeartbeatTimeout
                       /\ tx' # << >>
                       /\ tx'[Len(tx')] = ControlFrame
<1>1. TypeOK /\ [Next]_vars => [Clear]_vars
  <2> SUFFICES ASSUME TypeOK, Next
               PROVE  Clear
    OBVIOUS
  <2>1. CASE ControlWritten
    <3>1. CASE node' = "dead"
      BY <2>1, <3>1 DEF ControlWritten
    <3>2. CASE node' # "dead"
      <4>1. SafeStopRequired \in BOOLEAN
        BY DEF SafeStopRequired, TimedOut
      <4>2. last_estop_published' = {SafeStopRequired}
        BY <2>1, <3>2, <4>1, PublishEstopType DEF ControlWritten
      <4>3. last_estop_published' = {FALSE} => heartbeat_age <= HeartbeatTimeout
        BY <4>2, FreshClear
      <4>4. ControlFrame \in Frame
        BY DEF ControlFrame, Frame, TypeOK
      <4>5. tx' # << >> /\ tx'[Len(tx')] = ControlFrame
        <5>1. tx' = Append(tx, ControlFrame) \/ tx' = <<ControlFrame>>
          BY <2>1 DEF ControlWritten, Written
        <5>2. tx \in Seq(Frame)
          BY DEF TypeOK
        <5>3. CASE tx' = Append(tx, ControlFrame)
          <6>1. /\ Append(tx, ControlFrame) # << >>
                /\ Len(Append(tx, ControlFrame)) = Len(tx) + 1
                /\ Append(tx, ControlFrame)[Len(tx) + 1] = ControlFrame
            BY <4>4, <5>2, AppendProperties
          <6> QED  BY <5>3, <6>1
        <5>4. CASE tx' = <<ControlFrame>>
          <6> HIDE DEF ControlFrame
          <6> QED  BY <5>4
        <5> QED  BY <5>1, <5>3, <5>4
      <4> QED  BY <4>3, <4>5
    <3> QED  BY <3>1, <3>2
  <2>2. CASE ControlWriteZero
    BY <2>2, PublishEstopType DEF ControlWriteZero
  <2>3. CASE \/ OnCmdDrive \/ ControlTick \/ ControlWriteRaises \/ StateTick
             \/ SourceStops \/ LineStep \/ Tick
             \/ \E m \in DriveMsgs : PublishDrive(m)
             \/ \E r \in EstopReaders : OnEstop(r)
    BY <2>3 DEF OnCmdDrive, ControlTick, ControlWriteRaises, StateTick, SourceStops,
                LineStep, McuReads, McuStopsReading, McuSends, Tick, PublishDrive,
                OnEstop, watchVars
  <2> QED  BY <2>1, <2>2, <2>3 DEF Next, BridgeStep
<1> QED  BY <1>1, TypeCorrect, PTL DEF Spec, ClearOnlyAfterWrite

-----------------------------------------------------------------------------
(* The order of the frames on the line.                                    *)

After(k) == (k + 1) % SeqMod

(* A frame that is being written is numbered after the last one on the     *)
(* line; an idle node has used up the number of that one.                  *)
WireInv ==
    /\ \A i \in 1 .. Len(tx) - 1 : tx[i + 1].sequence = After(tx[i].sequence)
    /\ tx # << >> => /\ node = "idle" => sequence = tx[Len(tx)].sequence
                     /\ node = "writing" => sequence = After(tx[Len(tx)].sequence)

LEMMA WireUnchanged ==
    ASSUME WireInv, UNCHANGED <<tx, sequence>>, node' = node \/ node' = "dead"
    PROVE  WireInv'
BY DEF WireInv

(* The MCU takes the oldest frame; those behind it stay neighbours.        *)
LEMMA WireRead ==
    ASSUME TypeOK, WireInv, McuReads
    PROVE  WireInv'
<1>1. tx \in Seq(Frame) /\ tx # << >> /\ tx' = Tail(tx) /\ UNCHANGED <<node, sequence>>
  BY DEF McuReads, TypeOK
<1>2. Len(tx') = Len(tx) - 1 /\ \A i \in 1 .. Len(tx') : tx'[i] = tx[i + 1]
  BY <1>1
<1>3. \A i \in 1 .. Len(tx') - 1 : tx'[i + 1].sequence = After(tx'[i].sequence)
  <2> SUFFICES ASSUME NEW i \in 1 .. Len(tx') - 1
               PROVE  tx'[i + 1].sequence = After(tx'[i].sequence)
    OBVIOUS
  <2>1. i + 1 \in 1 .. Len(tx) - 1 /\ i \in 1 .. Len(tx') /\ i + 1 \in 1 .. Len(tx')
    BY <1>1, <1>2
  <2>2. tx[(i + 1) + 1].sequence = After(tx[i + 1].sequence)
    BY <2>1 DEF WireInv
  <2> QED  BY <1>2, <2>1, <2>2
<1>4. tx' # << >> => tx'[Len(tx')] = tx[Len(tx)]
  <2> SUFFICES ASSUME tx' # << >> PROVE tx'[Len(tx')] = tx[Len(tx)]
    OBVIOUS
  <2>1. Len(tx') \in 1 .. Len(tx') /\ Len(tx') + 1 = Len(tx)
    BY <1>1, <1>2
  <2> QED  BY <1>2, <2>1
<1> QED  BY <1>1, <1>3, <1>4 DEF WireInv

(* The frame that was being written becomes the last one on the line.      *)
LEMMA WireWritten ==
    ASSUME TypeOK, WireInv, node = "writing", tx' = Written(ControlFrame),
           UNCHANGED sequence, node' # "writing"
    PROVE  WireInv'
<1>1. ControlFrame.sequence = sequence
  BY DEF ControlFrame
<1>2. CASE Transport = "serial"
  <2>1. tx \in Seq(Frame) /\ Len(tx) \in Nat /\ tx' = Append(tx, ControlFrame)
    BY <1>2 DEF Written, TypeOK
  <2>2. /\ Len(tx') = Len(tx) + 1
        /\ tx'[Len(tx) + 1] = ControlFrame
        /\ \A i \in 1 .. Len(tx) : tx'[i] = tx[i]
    BY <2>1
  <2>3. \A i \in 1 .. Len(tx') - 1 : tx'[i + 1].sequence = After(tx'[i].sequence)
    <3> SUFFICES ASSUME NEW i \in 1 .. Len(tx)
                 PROVE  tx'[i + 1].sequence = After(tx[i].sequence)
      BY <2>1, <2>2
    <3>1. CASE i = Len(tx)
      <4>1. tx # << >>
        BY <2>1, <3>1
      <4> QED  BY <1>1, <2>2, <3>1, <4>1 DEF WireInv
    <3>2. CASE i # Len(tx)
      <4>1. i \in 1 .. Len(tx) - 1 /\ i + 1 \in 1 .. Len(tx)
        BY <2>1, <3>2
      <4> QED  BY <2>2, <4>1 DEF WireInv
    <3> QED  BY <3>1, <3>2
  <2> QED  BY <1>1, <2>1, <2>2, <2>3 DEF WireInv
<1>3. CASE Transport # "serial"
  <2>1. tx' = <<ControlFrame>>
    BY <1>3 DEF Written
  <2>2. Len(tx') = 1 /\ tx'[1] = ControlFrame
    BY <2>1
  <2> QED  BY <1>1, <2>2 DEF WireInv
<1> QED  BY <1>2, <1>3

(* As long as no write fails, frames are on the line in the order of their *)
(* sequence numbers, across the wrap at SeqMod, whatever the line, the     *)
(* watchdog and the messages do (McuLink.send_control).                    *)
THEOREM WireAlwaysInOrder == Spec => []WireInOrder
<1>1. CASE "zero" \in Faults
  <2>1. WireInOrder
    BY <1>1 DEF WireInOrder
  <2> QED  BY <2>1, PTL
<1>2. CASE "zero" \notin Faults
  <2>1. Init => WireInv
    BY DEF Init, WireInv
  <2>2. TypeOK /\ WireInv /\ [Next]_vars => WireInv'
    <3> SUFFICES ASSUME TypeOK, WireInv, [Next]_vars
                 PROVE  WireInv'
      OBVIOUS
    <3>1. CASE ControlTick
      <4>1. node = "idle" /\ node' = "writing" /\ UNCHANGED tx /\ sequence' = After(sequence)
        BY <3>1 DEF ControlTick, NextSequence, After
      <4> QED  BY <4>1 DEF WireInv
    <3>2. CASE ControlWritten
      <4>1. node' \in {"idle", "dead"}
        BY <3>2, PollType DEF ControlWritten
      <4> QED  BY <3>2, <4>1, WireWritten DEF ControlWritten
    <3>3. CASE McuReads
      BY <3>3, WireRead
    <3>4. CASE ControlWriteZero
      BY <1>2, <3>4 DEF ControlWriteZero
    <3>5. CASE ControlWriteRaises
      BY <3>5, WireUnchanged DEF ControlWriteRaises, linkVars
    <3>6. CASE OnCmdDrive \/ StateTick \/ SourceStops \/ Tick \/ McuStopsReading
      BY <3>6, WireUnchanged DEF OnCmdDrive, StateTick, SourceStops, Tick, McuStopsReading,
                                 linkVars
    <3>7. ASSUME NEW m \in DriveMsgs, PublishDrive(m)
          PROVE  WireInv'
      BY <3>7, WireUnchanged DEF PublishDrive, linkVars
    <3>8. ASSUME NEW r \in EstopReaders, OnEstop(r)
          PROVE  WireInv'
      BY <3>8, WireUnchanged DEF OnEstop, linkVars
    <3>9. ASSUME NEW f \in McuFrames, McuSends(f)
          PROVE  WireInv'
      BY <3>9, WireUnchanged DEF McuSends, linkVars
    <3>10. CASE UNCHANGED vars
      BY <3>10, WireUnchanged DEF vars, linkVars
    <3> QED  BY <3>1, <3>2, <3>3, <3>4, <3>5, <3>6, <3>7, <3>8, <3>9, <3>10
               DEF Next, BridgeStep, LineStep
  <2>3. WireInv => WireInOrder
    BY DEF WireInv, WireInOrder, After
  <2> QED  BY <2>1, <2>2, <2>3, TypeCorrect, PTL DEF Spec
<1> QED  BY <1>1, <1>2

-----------------------------------------------------------------------------
(* What /vehicle/state says of the alarm.                                  *)

(* Without failing writes the alarm is the watchdog's: after the control   *)
(* tick of a period it is TRUE only for a command stream that is too old,  *)
(* or that came back in this very period.                                  *)
AlarmInv ==
    node = "idle" /\ ~control_due /\ last_estop_published = {TRUE} /\ heartbeat_age > 0
        => TimedOut

LEMMA AlarmStep ==
    ASSUME "zero" \notin Faults, TypeOK, AlarmInv, [Next]_vars
    PROVE  AlarmInv'
<1>1. CASE OnCmdDrive
  BY <1>1 DEF OnCmdDrive, AlarmInv
<1>2. CASE ControlTick
  BY <1>2 DEF ControlTick, AlarmInv
<1>3. CASE ControlWritten
  <2>1. SafeStopRequired \in BOOLEAN
    BY DEF SafeStopRequired, TimedOut
  <2>2. CASE node' = "dead"
    BY <2>2 DEF AlarmInv
  <2>3. CASE node' # "dead"
    <3>1. last_estop_published' = {SafeStopRequired}
      BY <1>3, <2>1, <2>3, PublishEstopType DEF ControlWritten
    <3>2. last_estop_published' = {TRUE} => SafeStopRequired
      BY <2>1, <3>1
    <3>3. heartbeat_age' = heartbeat_age
      BY <1>3 DEF ControlWritten
    <3> QED  BY <3>2, <3>3 DEF AlarmInv, SafeStopRequired, TimedOut
  <2> QED  BY <2>2, <2>3
<1>4. CASE ControlWriteZero
  BY <1>4 DEF ControlWriteZero
<1>5. CASE ControlWriteRaises
  BY <1>5 DEF ControlWriteRaises, AlarmInv
<1>6. CASE Tick
  BY <1>6 DEF Tick, AlarmInv
<1>7. CASE \/ StateTick \/ SourceStops \/ LineStep
           \/ \E m \in DriveMsgs : PublishDrive(m)
           \/ \E r \in EstopReaders : OnEstop(r)
  <2>1. UNCHANGED <<node, heartbeat_age, last_estop_published, control_due>>
    BY <1>7 DEF StateTick, SourceStops, LineStep, PublishDrive, OnEstop,
                McuReads, McuStopsReading, McuSends, watchVars
  <2> QED  BY <2>1 DEF AlarmInv, TimedOut
<1>8. CASE UNCHANGED vars
  BY <1>8 DEF vars, watchVars, AlarmInv, TimedOut
<1> QED  BY <1>1, <1>2, <1>3, <1>4, <1>5, <1>6, <1>7, <1>8 DEF Next, BridgeStep

(* Whoever watches /vehicle/state instead of /estop sees the same alarm:   *)
(* the state tick sets estop in every message it sends between the control *)
(* tick that left /estop TRUE and the next command (_state_tick).          *)
THEOREM AlarmAlwaysShown == Spec => AlarmShownInState
<1> DEFINE Shown == vehicle_state' # vehicle_state /\ last_estop_published = {TRUE}
                    /\ ~control_due /\ heartbeat_age > 0 /\ "zero" \notin Faults
                    => \A s \in vehicle_state' : s.estop
<1>1. CASE "zero" \in Faults
  <2>1. [Shown]_vars
    BY <1>1
  <2> QED  BY <2>1, PTL DEF AlarmShownInState
<1>2. CASE "zero" \notin Faults
  <2>1. Init => AlarmInv
    BY DEF Init, AlarmInv
  <2>2. TypeOK /\ AlarmInv /\ [Next]_vars => AlarmInv'
    BY <1>2, AlarmStep
  <2>3. TypeOK /\ AlarmInv /\ [Next]_vars => [Shown]_vars
    <3> SUFFICES ASSUME AlarmInv, Next, vehicle_state' # vehicle_state,
                        last_estop_published = {TRUE}, ~control_due, heartbeat_age > 0
                 PROVE  \A s \in vehicle_state' : s.estop
      OBVIOUS
    <3>1. StateTick
      BY DEF Next, BridgeStep, LineStep, OnCmdDrive, ControlTick, ControlWritten,
             ControlWriteZero, ControlWriteRaises, McuReads, McuStopsReading, McuSends,
             PublishDrive, SourceStops, OnEstop, Tick
    <3>2. SafeStopRequired
      BY <3>1 DEF StateTick, AlarmInv, SafeStopRequired
    <3>3. \A mcu : StateReport(mcu).estop
      BY <3>2 DEF StateReport
    <3>4. \A s \in vehicle_state' : \E mcu : s = StateReport(mcu)
      BY <3>1 DEF StateTick
    <3> QED  BY <3>3, <3>4
  <2> QED  BY <2>1, <2>2, <2>3, TypeCorrect, PTL DEF Spec, AlarmShownInState
<1> QED  BY <1>1, <1>2

-----------------------------------------------------------------------------
USE DepthAssumption, BridgeAssumption, LoopAssumption DEF LoopAssumption

(* What a queue holds after the middleware handed it one more message.     *)
LEMMA KeepLastType ==
    ASSUME NEW S, NEW q \in Seq(S), NEW m \in S
    PROVE  KeepLast(q, m) \in Seq(S)
<1>1. CASE Len(q) < Depth
    BY <1>1 DEF KeepLast
<1>2. CASE ~(Len(q) < Depth)
  <2>1. q # << >>
      BY <1>2
  <2> QED
      BY <1>2, <2>1 DEF KeepLast
<1> QED
    BY <1>1, <1>2

LEMMA PublishType ==
    ASSUME NEW S, NEW R, NEW topic \in [R -> Seq(S)], NEW m \in S
    PROVE  Publish(topic, m) \in [R -> Seq(S)]
<1>1. \A r \in R : KeepLast(topic[r], m) \in Seq(S)
    BY KeepLastType
<1> QED
    BY <1>1 DEF Publish

LEMMA TakeTopicType ==
    ASSUME NEW S, NEW R, NEW topic \in [R -> Seq(S)], NEW r \in R, topic[r] # << >>
    PROVE  /\ Take(topic, r) \in [R -> Seq(S)]
           /\ Head(topic[r]) \in S
    BY DEF Take

LEMMA ForgetType ==
    ASSUME NEW S, NEW R, NEW topic \in [R -> Seq(S)], NEW r \in R
    PROVE  Forget(topic, r) \in [R -> Seq(S)]
    BY DEF Forget

-----------------------------------------------------------------------------
(* What the planner answers on the straight road.                          *)

Here(x) == [x |-> x, y |-> 0, yaw |-> "east"]
Goal == <<[x |-> GoalX, y |-> 0]>>
Answers == [speed : {0, MaxSpeed}, acceleration : {-10, -5, 0}, steering : {0}]

LEMMA PursuitMax ==
    ASSUME NEW a \in Int, NEW b \in Int
    PROVE  Pursuit!Max({a, b}) = IF a >= b THEN a ELSE b
    BY DEF Pursuit!Max

LEMMA PursuitMin ==
    ASSUME NEW a \in Int, NEW b \in Int
    PROVE  Pursuit!Min({a, b}) = IF a <= b THEN a ELSE b
    BY DEF Pursuit!Min

(* The only point of the route is the target, straight ahead or behind.    *)
LEMMA GoalIsTarget ==
    ASSUME NEW x \in Nat
    PROVE  /\ Pursuit!LookaheadPoint(Here(x), Goal) = [x |-> GoalX, y |-> 0]
           /\ Pursuit!LocalX(Here(x), [x |-> GoalX, y |-> 0]) = GoalX - x
           /\ Pursuit!LocalY(Here(x), [x |-> GoalX, y |-> 0]) = 0
<1>1. Goal[1] = [x |-> GoalX, y |-> 0] /\ DOMAIN Goal = {1} /\ Len(Goal) = 1
    BY DEF Goal
<1>2. Pursuit!Ahead(Here(x), Goal) \in {{}, {1}}
    BY <1>1, Zenon DEF Pursuit!Ahead
<1>3. Pursuit!Far(Here(x), Goal) \in {{}, {1}}
    BY <1>2, Zenon DEF Pursuit!Far
<1>4. Pursuit!Min({1}) = 1 /\ Pursuit!Max({1}) = 1
    BY DEF Pursuit!Min, Pursuit!Max
<1>5. Pursuit!LookaheadPoint(Here(x), Goal) = Goal[1]
    BY <1>1, <1>2, <1>3, <1>4, Zenon DEF Pursuit!LookaheadPoint
<1>6. /\ Pursuit!LocalX(Here(x), [x |-> GoalX, y |-> 0]) = GoalX - x
      /\ Pursuit!LocalY(Here(x), [x |-> GoalX, y |-> 0]) = 0
    BY DEF Pursuit!LocalX, Pursuit!LocalY, Pursuit!Cos, Pursuit!Sin, Here
<1> QED
    BY <1>1, <1>5, <1>6

(* It plans full speed or a stop.                                          *)
LEMMA PlanFacts ==
    ASSUME NEW x \in Nat, NEW stop \in BOOLEAN, NEW p, p = Pursuit!Command(Here(x), Goal, stop)
    PROVE  /\ p.steering = 0
           /\ \/ p.velocity = 0 /\ p.brake \in {5, 10}
              \/ p.velocity = 18 /\ p.brake = 0
<1> DEFINE target == Pursuit!LookaheadPoint(Here(x), Goal)
           offset == Pursuit!LocalY(Here(x), target)
<1>1. CASE stop
  <2>1. p = [steering |-> 0, velocity |-> 0, brake |-> 10]
      BY <1>1 DEF Pursuit!Command, Pursuit!FullStop
  <2> QED
      BY <2>1
<1>2. CASE ~stop
  <2>1. Goal # << >>
      BY DEF Goal
  <2>2. offset = 0 /\ Pursuit!LocalX(Here(x), target) = GoalX - x
      BY GoalIsTarget
  <2>3. CASE Pursuit!LocalX(Here(x), target) <= 0
    <3>1. p = [steering |-> 0, velocity |-> 0, brake |-> 5]
        BY <1>2, <2>1, <2>3 DEF Pursuit!Command
    <3> QED
        BY <3>1
  <2>4. CASE ~(Pursuit!LocalX(Here(x), target) <= 0)
    <3>1. p = [steering |-> offset, velocity |-> Pursuit!TurnSpeed(offset), brake |-> 0]
        BY <1>2, <2>1, <2>4 DEF Pursuit!Command
    <3>2. Pursuit!TurnSpeed(offset) = 18
        BY <2>2 DEF Pursuit!TurnSpeed
    <3> QED
        BY <2>2, <3>1, <3>2
  <2> QED
      BY <2>3, <2>4
<1> QED
    BY <1>1, <1>2

(* Braking is folded into the speed; what is left is at most 1.8 m/s.      *)
LEMMA AckermannFacts ==
    ASSUME NEW p, NEW c, c = Pursuit!ToAckermann(p),
           \/ p.velocity = 0 /\ p.brake \in {5, 10}
           \/ p.velocity = 18 /\ p.brake = 0
    PROVE  /\ c.steering = p.steering
           /\ c.speed = 10 * p.velocity
           /\ c.acceleration \in {-10, -5, 0}
<1> DEFINE least == Pursuit!Min({10, p.brake})
           brake == Pursuit!Max({0, least})
<1>1. p.velocity \in Int /\ p.brake \in Int
    OBVIOUS
<1>2. least = p.brake
    BY <1>1, PursuitMin
<1> HIDE DEF least
<1>3. brake = p.brake
    BY <1>1, <1>2, PursuitMax
<1>4. Pursuit!Max({0, p.velocity}) = p.velocity
    BY <1>1, PursuitMax
<1>5. c = [steering |-> p.steering, speed |-> Pursuit!Max({0, p.velocity}) * (10 - brake),
           acceleration |-> -brake]
    BY DEF Pursuit!ToAckermann, least
<1> HIDE DEF brake
<1> QED
    BY <1>3, <1>4, <1>5

(* An answer is full speed or none, straight on.                           *)
LEMMA AnswerFacts ==
    ASSUME NEW x \in 0 .. RoadEnd, estop_seen["planner"] \in BOOLEAN
    PROVE  Answer(x) \in Answers
<1> DEFINE stop == estop_seen["planner"] \/ Pursuit!NearGoal(Here(x), Goal)
           p == Pursuit!Command(Here(x), Goal, stop)
           c == Pursuit!ToAckermann(p)
<1>1. Pursuit!WithDetour(Here(x), Goal, {}) = Goal
    BY DEF Pursuit!WithDetour, Pursuit!Advises
<1>2. Pursuit!ApplyAdvisory(p, {}) = p
    BY DEF Pursuit!ApplyAdvisory, Pursuit!Advises
<1>3. c = Pursuit!DriveCommand(Here(x), Goal, estop_seen["planner"], {})
    BY <1>1, <1>2, Zenon DEF Pursuit!DriveCommand
<1>4. stop \in BOOLEAN
    BY Zenon DEF Pursuit!NearGoal
<1> HIDE DEF stop
<1>5. /\ c.steering = 0
      /\ c.acceleration \in {-10, -5, 0}
      /\ c.speed = 0 \/ c.speed = 180
    BY <1>4, PlanFacts, AckermannFacts
<1>6. Answer(x) = [speed        |-> (c.speed * MaxSpeed) \div 180,
                   acceleration |-> c.acceleration,
                   steering     |-> c.steering]
    BY <1>3, Zenon DEF Answer, Here, Goal
<1> HIDE DEF c
<1>7. \/ (c.speed * MaxSpeed) \div 180 = 0
      \/ (c.speed * MaxSpeed) \div 180 = MaxSpeed
    BY <1>5
<1> QED
    BY <1>5, <1>6, <1>7 DEF Answers

-----------------------------------------------------------------------------
(* What the rest needs to know of the loop: the queues hold what their     *)
(* senders may send, and the vehicle's levels and times keep their ranges. *)
TopicInv ==
    /\ cmd_drive \in [CmdReaders -> Seq(Answers)]
    /\ estop_topic \in [EstopReaders -> Seq(BOOLEAN)]
    /\ estop_seen \in [EstopReaders -> BOOLEAN]
    /\ operator \in {"absent", "pressed", "released"}
    /\ last_estop_published \in SUBSET BOOLEAN

VehicleInv ==
    /\ odom \in Seq(0 .. RoadEnd)
    /\ position \in 0 .. RoadEnd
    /\ velocity \in 0 .. MaxSpeed
    /\ target_velocity \in 0 .. MaxSpeed
    /\ command_age \in 0 .. CommandTimeout + 1

LoopInv == TopicInv /\ VehicleInv

LEMMA PublishEstopKeeps ==
    ASSUME NEW value \in BOOLEAN, TopicInv, PublishEstop(value)
    PROVE  estop_topic' \in [EstopReaders -> Seq(BOOLEAN)]
<1>1. estop_topic \in [EstopReaders -> Seq(BOOLEAN)]
    BY Zenon DEF TopicInv
<1>2. Publish(estop_topic, value) \in [EstopReaders -> Seq(BOOLEAN)]
    BY <1>1, PublishType
<1>3. estop_topic' = estop_topic \/ estop_topic' = Publish(estop_topic, value)
    BY Zenon DEF PublishEstop
<1> QED
    BY <1>1, <1>2, <1>3

(* The callbacks of the bridge take commands and publish /estop.           *)
LEMMA BridgeKeeps ==
    ASSUME LoopInv, Bridge
    PROVE  LoopInv' /\ UNCHANGED <<estop_seen, simVars>>
<1>1. UNCHANGED <<estop_seen, odom, simVars, operator>>
    BY DEF Bridge, OnCmdDrive, ControlTick, ControlWritten, topicVars
<1>2. VehicleInv'
    BY <1>1 DEF LoopInv, VehicleInv, simVars
<1>3. CASE OnCmdDrive
  <2>1. cmd_drive' \in [CmdReaders -> Seq(Answers)]
      BY <1>3, TakeTopicType DEF LoopInv, TopicInv, OnCmdDrive
  <2> QED
      BY <1>1, <1>2, <1>3, <2>1 DEF LoopInv, TopicInv, OnCmdDrive
<1>4. CASE ControlTick
    BY <1>1, <1>2, <1>4 DEF LoopInv, TopicInv, ControlTick, topicVars, watchVars
<1>5. CASE ControlWritten
  <2>1. /\ estop_topic' \in [EstopReaders -> Seq(BOOLEAN)]
        /\ last_estop_published' \in SUBSET BOOLEAN
    <3>1. CASE UNCHANGED <<estop_topic, last_estop_published>>
        BY <3>1 DEF LoopInv, TopicInv
    <3>2. CASE PublishEstop(SafeStopRequired)
      <4>1. SafeStopRequired \in BOOLEAN
          BY DEF SafeStopRequired, TimedOut
      <4>2. estop_topic' \in [EstopReaders -> Seq(BOOLEAN)]
          BY <3>2, <4>1, PublishEstopKeeps DEF LoopInv
      <4> QED
          BY <3>2, <4>1, <4>2 DEF LoopInv, TopicInv, PublishEstop
    <3> QED
        BY <1>5, <3>1, <3>2 DEF ControlWritten
  <2> QED
      BY <1>1, <1>2, <1>5, <2>1 DEF LoopInv, TopicInv, ControlWritten
<1> QED
    BY <1>1, <1>3, <1>4, <1>5 DEF Bridge

(* A reader of /estop keeps the value it took; the other readers nothing.  *)
LEMMA EstopKeeps ==
    ASSUME LoopInv, NEW r \in EstopReaders, ReadsEstop(r)
    PROVE  /\ LoopInv'
           /\ estop_seen' = [estop_seen EXCEPT ![r] = estop_seen'[r]]
           /\ UNCHANGED simVars
<1>1. /\ estop_topic[r] # << >>
      /\ estop_seen' = [estop_seen EXCEPT ![r] = Head(estop_topic[r])]
      /\ estop_topic' = Take(estop_topic, r)
      /\ UNCHANGED <<cmd_drive, last_estop_published, odom, simVars, operator>>
    BY DEF ReadsEstop, OnEstop, watchVars
<1>2. /\ Head(estop_topic[r]) \in BOOLEAN
      /\ estop_topic' \in [EstopReaders -> Seq(BOOLEAN)]
    BY <1>1, TakeTopicType DEF LoopInv, TopicInv
<1>3. /\ estop_seen' \in [EstopReaders -> BOOLEAN]
      /\ estop_seen' = [estop_seen EXCEPT ![r] = estop_seen'[r]]
    BY <1>1, <1>2 DEF LoopInv, TopicInv
<1>4. VehicleInv'
    BY <1>1 DEF LoopInv, VehicleInv, simVars
<1> QED
    BY <1>1, <1>2, <1>3, <1>4 DEF LoopInv, TopicInv

(* The vehicle takes a command: no faster than its fastest level, because  *)
(* the queue holds nothing else.                                           *)
LEMMA CommandKeeps ==
    ASSUME LoopInv, SimCmdDrive
    PROVE  /\ LoopInv'
           /\ command_age' = 0
           /\ UNCHANGED <<estop_seen, velocity>>
<1>1. /\ cmd_drive["vehicle"] # << >>
      /\ cmd_drive' = Take(cmd_drive, "vehicle")
      /\ Sim!OnCmdDrive(Head(cmd_drive["vehicle"]))
      /\ UNCHANGED <<estop_topic, estop_seen, last_estop_published, odom, position, operator>>
    BY DEF SimCmdDrive, bridgeVars, watchVars
<1>2. /\ Head(cmd_drive["vehicle"]) \in Answers
      /\ cmd_drive' \in [CmdReaders -> Seq(Answers)]
    BY <1>1, TakeTopicType DEF LoopInv, TopicInv
<1>3. Head(cmd_drive["vehicle"]).speed \in 0 .. MaxSpeed
    BY <1>2 DEF Answers
<1>4. /\ target_velocity' = Sim!AtLeast(0, Head(cmd_drive["vehicle"]).speed)
      /\ command_age' = 0
      /\ velocity' = velocity
    BY <1>1 DEF Sim!OnCmdDrive
<1>5. target_velocity' \in 0 .. MaxSpeed
    BY <1>3, <1>4 DEF Sim!AtLeast
<1>6. VehicleInv'
    BY <1>1, <1>4, <1>5 DEF LoopInv, VehicleInv
<1> QED
    BY <1>1, <1>2, <1>4, <1>6 DEF LoopInv, TopicInv

(* The low pass stays between the speed and its target.                    *)
LEMMA ApproachInRange ==
    ASSUME NEW v \in 0 .. MaxSpeed, NEW t \in 0 .. MaxSpeed, NEW u \in Sim!Approach(v, t)
    PROVE  u \in 0 .. MaxSpeed /\ (u > v => t > v)
    BY DEF Sim!Approach

(* A tick moves the vehicle and publishes odometry to a running planner.   *)
LEMMA SimTickKeeps ==
    ASSUME LoopInv, SimTick
    PROVE  LoopInv'
<1>1. /\ velocity' \in Sim!Approach(velocity, Sim!ActiveVelocity)
      /\ UNCHANGED <<target_velocity, command_age>>
      /\ UNCHANGED <<vars, operator>>
      /\ position' \in position .. IF velocity' > 0 /\ position < RoadEnd
                                     THEN position + 1 ELSE position
      /\ odom' = IF cmd_source = "alive" THEN KeepLast(odom, position') ELSE odom
    BY DEF SimTick, Sim!Tick
<1>2. Sim!ActiveVelocity \in 0 .. MaxSpeed
    BY DEF LoopInv, VehicleInv, Sim!ActiveVelocity
<1>3. velocity' \in 0 .. MaxSpeed
    BY <1>1, <1>2, ApproachInRange DEF LoopInv, VehicleInv
<1>4. position' \in 0 .. RoadEnd
    BY <1>1 DEF LoopInv, VehicleInv
<1>5. odom' \in Seq(0 .. RoadEnd)
    BY <1>1, <1>4, KeepLastType DEF LoopInv, VehicleInv
<1>6. UNCHANGED <<cmd_drive, estop_topic, estop_seen, last_estop_published, operator>>
    BY <1>1 DEF vars, topicVars, watchVars
<1> QED
    BY <1>1, <1>3, <1>4, <1>5, <1>6 DEF LoopInv, TopicInv, VehicleInv

(* The planner answers odometry, or crashes, or comes back.                *)
LEMMA PlannerKeeps ==
    ASSUME LoopInv, PlannerOdom \/ PlannerCrash \/ PlannerRestart
    PROVE  LoopInv' /\ estop_seen'["vehicle"] = estop_seen["vehicle"] /\ UNCHANGED simVars
<1>1. UNCHANGED <<bridgeVars, simVars, operator>>
    BY DEF PlannerOdom, PlannerCrash, PlannerRestart
<1>2. UNCHANGED <<last_estop_published, operator, position, velocity, target_velocity, command_age>>
    BY <1>1 DEF bridgeVars, watchVars, simVars
<1>3. CASE PlannerOdom
  <2>1. /\ odom # << >>
        /\ cmd_drive' = Publish(cmd_drive, Answer(Head(odom)))
        /\ odom' = Tail(odom)
        /\ UNCHANGED <<estop_topic, estop_seen>>
      BY <1>3 DEF PlannerOdom
  <2>2. Head(odom) \in 0 .. RoadEnd /\ odom' \in Seq(0 .. RoadEnd)
      BY <2>1 DEF LoopInv, VehicleInv
  <2>3. Answer(Head(odom)) \in Answers
      BY <2>2, AnswerFacts DEF LoopInv, TopicInv
  <2>4. cmd_drive' \in [CmdReaders -> Seq(Answers)]
      BY <2>1, <2>3, PublishType DEF LoopInv, TopicInv
  <2> QED
      BY <1>1, <1>2, <2>1, <2>2, <2>4 DEF LoopInv, TopicInv, VehicleInv
<1>4. CASE PlannerCrash
  <2>1. /\ odom' = << >>
        /\ estop_topic' = Forget(estop_topic, "planner")
        /\ UNCHANGED <<cmd_drive, estop_seen>>
      BY <1>4 DEF PlannerCrash
  <2>2. estop_topic' \in [EstopReaders -> Seq(BOOLEAN)]
      BY <2>1, ForgetType DEF LoopInv, TopicInv
  <2> QED
      BY <1>1, <1>2, <2>1, <2>2 DEF LoopInv, TopicInv, VehicleInv
<1>5. CASE PlannerRestart
  <2>1. /\ estop_topic' = Forget(estop_topic, "planner")
        /\ estop_seen' = [estop_seen EXCEPT !["planner"] = FALSE]
        /\ UNCHANGED <<cmd_drive, odom>>
      BY <1>5 DEF PlannerRestart
  <2>2. estop_topic' \in [EstopReaders -> Seq(BOOLEAN)]
      BY <2>1, ForgetType DEF LoopInv, TopicInv
  <2>3. /\ estop_seen' \in [EstopReaders -> BOOLEAN]
        /\ estop_seen'["vehicle"] = estop_seen["vehicle"]
      BY <2>1 DEF LoopInv, TopicInv
  <2> QED
      BY <1>1, <1>2, <2>1, <2>2, <2>3 DEF LoopInv, TopicInv, VehicleInv
<1> QED
    BY <1>3, <1>4, <1>5

LEMMA OperatorKeeps ==
    ASSUME LoopInv, OperatorEstop
    PROVE  LoopInv' /\ UNCHANGED <<estop_seen, simVars>>
<1>1. /\ operator' \in {"absent", "pressed", "released"}
      /\ estop_topic' = Publish(estop_topic, operator' = "pressed")
      /\ UNCHANGED <<cmd_drive, estop_seen, odom, bridgeVars, simVars>>
    BY DEF OperatorEstop
<1>2. (operator' = "pressed") \in BOOLEAN
    OBVIOUS
<1>3. estop_topic' \in [EstopReaders -> Seq(BOOLEAN)]
    BY <1>1, <1>2, PublishType DEF LoopInv, TopicInv
<1>4. VehicleInv'
    BY <1>1 DEF LoopInv, VehicleInv, simVars
<1> QED
    BY <1>1, <1>2, <1>3, <1>4 DEF LoopInv, TopicInv, bridgeVars, watchVars

(* A period passes: the command grows older, and perhaps too old.          *)
LEMMA LoopTickKeeps ==
    ASSUME LoopInv, LoopTick
    PROVE  /\ LoopInv'
           /\ UNCHANGED <<estop_seen, velocity, target_velocity>>
           /\ Sim!Fresh' => Sim!Fresh
<1>1. /\ UNCHANGED <<topicVars, last_estop_published, odom, position, velocity,
                     target_velocity, operator>>
      /\ command_age' = IF command_age > CommandTimeout THEN command_age ELSE command_age + 1
    BY DEF LoopTick, Tick
<1>2. command_age' \in 0 .. CommandTimeout + 1 /\ (Sim!Fresh' => Sim!Fresh)
    BY <1>1 DEF LoopInv, VehicleInv, Sim!Fresh
<1>3. VehicleInv'
    BY <1>1, <1>2 DEF LoopInv, VehicleInv
<1> QED
    BY <1>1, <1>2, <1>3 DEF LoopInv, TopicInv, topicVars

-----------------------------------------------------------------------------
LEMMA InitFacts == LoopInit => LoopInv
<1> SUFFICES ASSUME LoopInit PROVE LoopInv
    OBVIOUS
<1>1. TopicInv
  <2>1. /\ cmd_drive = [r \in CmdReaders |-> << >>]
        /\ estop_topic = [r \in EstopReaders |-> << >>]
        /\ estop_seen = [r \in EstopReaders |-> FALSE]
        /\ operator = "absent" /\ last_estop_published = {}
      BY DEF LoopInit, Init
  <2>2. << >> \in Seq(Answers) /\ << >> \in Seq(BOOLEAN)
      OBVIOUS
  <2>3. /\ cmd_drive \in [CmdReaders -> Seq(Answers)]
        /\ estop_topic \in [EstopReaders -> Seq(BOOLEAN)]
        /\ estop_seen \in [EstopReaders -> BOOLEAN]
      BY <2>1, <2>2
  <2> QED
      BY <2>1, <2>3, Zenon DEF TopicInv
<1>2. VehicleInv
    BY DEF LoopInit, VehicleInv
<1> QED
    BY <1>1, <1>2 DEF LoopInv

LEMMA StepFacts == LoopInv /\ [LoopNext]_loopVars => LoopInv'
<1> SUFFICES ASSUME LoopInv, [LoopNext]_loopVars
             PROVE  LoopInv'
    OBVIOUS
<1>1. CASE UNCHANGED loopVars
  <2>1. UNCHANGED <<cmd_drive, estop_topic, estop_seen, last_estop_published, operator, odom,
                    position, velocity, target_velocity, command_age>>
      BY <1>1 DEF loopVars, vars, topicVars, watchVars, simVars
  <2> QED
      BY <2>1 DEF LoopInv, TopicInv, VehicleInv
<1> QED
    BY <1>1, BridgeKeeps, EstopKeeps, CommandKeeps, SimTickKeeps, PlannerKeeps,
       OperatorKeeps, LoopTickKeeps DEF LoopNext

USE DepthAssumption, BridgeAssumption, LoopAssumption DEF LoopAssumption
-----------------------------------------------------------------------------
(* The types of the loop.  Most of its steps are steps of the bridge's own *)
(* specification; those that are not touch one queue.                      *)

LEMMA AnswersAreMessages == Answers \subseteq DriveMsgs
    BY DEF Answers

LEMMA BridgeSteps ==
    ASSUME LoopInv,
           \/ Bridge \/ LoopTick \/ SimTick \/ PlannerOdom \/ UNCHANGED loopVars
           \/ \E r \in EstopReaders : ReadsEstop(r)
    PROVE  [Next]_vars
<1>1. CASE Bridge
    BY <1>1 DEF Bridge, Next, BridgeStep
<1>2. CASE LoopTick
    BY <1>2 DEF LoopTick, Next
<1>3. CASE SimTick
    BY <1>3 DEF SimTick
<1>4. CASE PlannerOdom
  <2>1. Head(odom) \in 0 .. RoadEnd
      BY <1>4 DEF PlannerOdom, LoopInv, VehicleInv
  <2>2. Answer(Head(odom)) \in DriveMsgs
      BY <2>1, AnswerFacts, AnswersAreMessages DEF LoopInv, TopicInv
  <2>3. PublishDrive(Answer(Head(odom)))
      BY <1>4 DEF PlannerOdom, PublishDrive, bridgeVars
  <2> QED
      BY <2>2, <2>3 DEF Next
<1>5. CASE UNCHANGED loopVars
    BY <1>5 DEF loopVars
<1>6. ASSUME NEW r \in EstopReaders, ReadsEstop(r)
      PROVE  [Next]_vars
    BY <1>6 DEF ReadsEstop, Next
<1> QED
    BY <1>1, <1>2, <1>3, <1>4, <1>5, <1>6

(* A reader that goes away, or takes a message, leaves a topic bounded.    *)
LEMMA ForgetBounded ==
    ASSUME NEW S, NEW R, NEW topic \in [R -> Seq(S)], NEW r \in R,
           \A x \in R : Len(topic[x]) <= Depth
    PROVE  \A x \in R : Len(Forget(topic, r)[x]) <= Depth
    BY DEF Forget

LEMMA OtherSteps ==
    ASSUME TypeOK, LoopInv,
           SimCmdDrive \/ PlannerCrash \/ PlannerRestart \/ OperatorEstop
    PROVE  TypeOK'
<1>1. CASE SimCmdDrive
  <2>1. /\ cmd_drive' \in [CmdReaders -> Seq(DriveMsgs)]
        /\ \A r \in CmdReaders : Len(cmd_drive'[r]) <= Depth
    <3>1. /\ "vehicle" \in CmdReaders
          /\ cmd_drive["vehicle"] # << >>
          /\ cmd_drive' = Take(cmd_drive, "vehicle")
          /\ cmd_drive \in [CmdReaders -> Seq(DriveMsgs)]
          /\ \A r \in CmdReaders : Len(cmd_drive[r]) <= Depth
        BY <1>1 DEF SimCmdDrive, TypeOK
    <3> QED
        BY <3>1, TakeType
  <2> QED
      BY <1>1, <2>1 DEF SimCmdDrive, TypeOK, bridgeVars, watchVars, linkVars
<1>2. CASE PlannerCrash
  <2>1. /\ estop_topic' \in [EstopReaders -> Seq(BOOLEAN)]
        /\ \A r \in EstopReaders : Len(estop_topic'[r]) <= Depth
      BY <1>2, ForgetType, ForgetBounded DEF PlannerCrash, TypeOK
  <2> QED
      BY <1>2, <2>1 DEF PlannerCrash, TypeOK, bridgeVars, watchVars, linkVars
<1>3. CASE PlannerRestart
  <2>1. /\ estop_topic' \in [EstopReaders -> Seq(BOOLEAN)]
        /\ \A r \in EstopReaders : Len(estop_topic'[r]) <= Depth
      BY <1>3, ForgetType, ForgetBounded DEF PlannerRestart, TypeOK
  <2>2. estop_seen' \in [EstopReaders -> BOOLEAN]
      BY <1>3 DEF PlannerRestart, TypeOK
  <2> QED
      BY <1>3, <2>1, <2>2 DEF PlannerRestart, TypeOK, bridgeVars, watchVars, linkVars
<1>4. CASE OperatorEstop
  <2> DEFINE value == operator' = "pressed"
  <2>1. value \in BOOLEAN
      OBVIOUS
  <2>2. estop_topic' = [r \in EstopReaders |-> KeepLast(estop_topic[r], value)]
      BY <1>4 DEF OperatorEstop, Publish, TypeOK
  <2> HIDE DEF value
  <2>3. \A r \in EstopReaders : /\ KeepLast(estop_topic[r], value) \in Seq(BOOLEAN)
                                /\ Len(KeepLast(estop_topic[r], value)) <= Depth
    <3>1. \A r \in EstopReaders : estop_topic[r] \in Seq(BOOLEAN) /\ Len(estop_topic[r]) <= Depth
        BY DEF TypeOK
    <3> QED
        BY <2>1, <3>1, KeepLastFacts
  <2> QED
      BY <1>4, <2>2, <2>3 DEF OperatorEstop, TypeOK, bridgeVars, watchVars, linkVars
<1> QED
    BY <1>1, <1>2, <1>3, <1>4

LEMMA OdomBounded ==
    ASSUME LoopInv, Len(odom) <= Depth, vehicle_due \in BOOLEAN, [LoopNext]_loopVars
    PROVE  Len(odom') <= Depth /\ vehicle_due' \in BOOLEAN
<1>1. odom \in Seq(0 .. RoadEnd) /\ position \in 0 .. RoadEnd
    BY DEF LoopInv, VehicleInv
<1>2. CASE SimTick
  <2>1. vehicle_due' = FALSE
      BY <1>2 DEF SimTick
  <2>2. position' \in 0 .. RoadEnd
      BY <1>1, <1>2 DEF SimTick
  <2>3. odom' \in {odom, KeepLast(odom, position')}
      BY <1>2 DEF SimTick
  <2>4. Len(KeepLast(odom, position')) <= Depth
      BY <1>1, <2>2, KeepLastFacts
  <2> QED
      BY <2>1, <2>3, <2>4
<1>3. CASE PlannerOdom
  <2>1. odom # << >> /\ odom' = Tail(odom) /\ UNCHANGED vehicle_due
      BY <1>3 DEF PlannerOdom, simVars
  <2> QED
      BY <1>1, <2>1
<1>4. CASE PlannerCrash
    BY <1>4 DEF PlannerCrash, simVars
<1>5. CASE LoopTick
    BY <1>5 DEF LoopTick
<1>6. CASE \/ Bridge \/ SimCmdDrive \/ PlannerRestart \/ OperatorEstop \/ UNCHANGED loopVars
           \/ \E r \in EstopReaders : ReadsEstop(r)
    BY <1>6 DEF Bridge, SimCmdDrive, PlannerRestart, OperatorEstop, ReadsEstop, loopVars,
                simVars
<1> QED
    BY <1>2, <1>3, <1>4, <1>5, <1>6 DEF LoopNext

LoopTypes == LoopInv /\ LoopTypeOK

LEMMA LoopTypesInit == LoopInit => LoopTypes
<1> SUFFICES ASSUME LoopInit PROVE LoopTypes
    OBVIOUS
<1>1. TypeOK
    BY TypeInit DEF LoopInit
<1>2. LoopInv
    BY InitFacts
<1>3. Len(odom) <= Depth /\ vehicle_due \in BOOLEAN
  <2>1. odom = << >> /\ Len(<< >>) = 0
      BY DEF LoopInit
  <2>2. Len(odom) <= Depth
      BY <2>1
  <2>3. vehicle_due \in BOOLEAN
      BY Zenon DEF LoopInit
  <2> QED
      BY <2>2, <2>3
<1> QED
    BY <1>1, <1>2, <1>3, Zenon DEF LoopTypes, LoopTypeOK, LoopInv, TopicInv, VehicleInv

LEMMA LoopTypesStep == LoopTypes /\ [LoopNext]_loopVars => LoopTypes'
<1> SUFFICES ASSUME LoopTypes, [LoopNext]_loopVars PROVE LoopTypes'
    OBVIOUS
<1>1. LoopInv'
    BY StepFacts DEF LoopTypes
<1>2. TypeOK'
  <2>1. CASE \/ Bridge \/ LoopTick \/ SimTick \/ PlannerOdom \/ UNCHANGED loopVars
             \/ \E r \in EstopReaders : ReadsEstop(r)
      BY <2>1, BridgeSteps, TypeStep DEF LoopTypes, LoopTypeOK
  <2>2. CASE SimCmdDrive \/ PlannerCrash \/ PlannerRestart \/ OperatorEstop
      BY <2>2, OtherSteps DEF LoopTypes, LoopTypeOK
  <2> QED
      BY <2>1, <2>2, Zenon DEF LoopNext
<1>3. Len(odom') <= Depth /\ vehicle_due' \in BOOLEAN
    BY OdomBounded DEF LoopTypes, LoopTypeOK
<1> QED
    BY <1>1, <1>2, <1>3, Zenon DEF LoopTypes, LoopTypeOK, LoopInv, TopicInv, VehicleInv

(* No queue of the loop outgrows its depth and no value its range, for     *)
(* every depth and set of nodes that keep up; every answer of the planner  *)
(* is one of the messages the bridge is specified for.                     *)
THEOREM LoopTypesCorrect == LoopSpec => []LoopTypeOK
<1> QED
    BY LoopTypesInit, LoopTypesStep, PTL DEF LoopSpec, LoopTypes

-----------------------------------------------------------------------------
(* What nodes that keep up add.  One command at most is under way at any   *)
(* time, the bridge and the vehicle count the age of the same command, and *)
(* until an operator acts, the e-stop the vehicle holds at the start of a  *)
(* period is the verdict of the last one.                                  *)

Punctual == KeepUp = {"bridge", "planner", "vehicle"}

Quiet == odom = << >> /\ \A r \in CmdReaders : cmd_drive[r] = << >>

(* Odometry, the answer to it and the next tick take turns.                *)
RoundInv ==
    /\ vehicle_due => Quiet
    /\ odom # << >> => /\ odom = <<position>>
                       /\ cmd_source = "alive"
                       /\ \A r \in CmdReaders : cmd_drive[r] = << >>
    /\ \A r \in CmdReaders : cmd_drive[r] # << >> =>
          \E m \in Answers : cmd_drive[r] = <<m>>

(* The two clocks of the command stream agree once both have the command.  *)
AgeInv ==
    /\ cmd_drive["vehicle"] # << >> /\ cmd_drive["bridge"] = << >> => heartbeat_age = 0
    /\ cmd_drive["bridge"] # << >> /\ cmd_drive["vehicle"] = << >> => command_age = 0
    /\ Sim!Fresh /\ cmd_drive["bridge"] = << >> /\ cmd_drive["vehicle"] = << >>
       => heartbeat_age = IF command_age <= AgeCap THEN command_age ELSE AgeCap

(* The dry-run bridge never ends, and its verdict is out before time goes  *)
(* on; before its first verdict nothing has happened.                      *)
VerdictInv ==
    /\ node \in {"idle", "writing"} /\ rx = << >>
    /\ last_estop_published \in {{}, {TRUE}, {FALSE}}
    /\ node = "idle" /\ ~control_due /\ heartbeat_age > HeartbeatTimeout
       => last_estop_published # {FALSE}
    /\ node = "idle" /\ ~control_due /\ last_estop_published = {}
       => ~Sim!Fresh /\ ~vehicle_due /\ Quiet

(* ReadersFollow for the vehicle, whose queue nobody drops.                *)
FollowInv ==
    LET q == estop_topic["vehicle"] IN
    operator = "absent" =>
    /\ last_estop_published = {} => q = << >>
    /\ last_estop_published # {} =>
          last_estop_published = IF q # << >> THEN {q[Len(q)]} ELSE {estop_seen["vehicle"]}

(* A vehicle about to tick with a command older than the watchdog allows   *)
(* holds the alarm, and no all-clear is on its way.                        *)
LateInv ==
    operator = "absent" /\ vehicle_due /\ Sim!Fresh /\ command_age > HeartbeatTimeout + 1
        => /\ last_estop_published = {TRUE}
           /\ estop_topic["vehicle"] = << >>
           /\ estop_seen["vehicle"]

Safety == RoundInv /\ AgeInv /\ VerdictInv /\ FollowInv /\ LateInv

(* The variables these speak of.                                           *)
cmdVars == <<cmd_drive, cmd_source, odom, position, target_velocity, command_age, vehicle_due>>
estopVars == <<estop_topic, estop_seen, last_estop_published>>

-----------------------------------------------------------------------------
(* What each step changes of them.                                         *)

LEMMA TakeOne ==
    ASSUME NEW S, NEW R, NEW topic \in [R -> Seq(S)], NEW r \in R, NEW m \in S,
           topic[r] = <<m>>
    PROVE  /\ Take(topic, r)[r] = << >>
           /\ \A x \in R \ {r} : Take(topic, r)[x] = topic[x]
    BY DEF Take

LEMMA PublishToEmpty ==
    ASSUME NEW S, NEW R, NEW topic \in [R -> Seq(S)], NEW m \in S,
           \A r \in R : topic[r] = << >>
    PROVE  \A r \in R : Publish(topic, m)[r] = <<m>>
<1>1. Len(<< >>) < Depth /\ Append(<< >>, m) = <<m>>
    OBVIOUS
<1>2. \A r \in R : KeepLast(topic[r], m) = <<m>>
    BY <1>1 DEF KeepLast
<1> QED
    BY <1>2 DEF Publish

LEMMA BridgeTakes ==
    ASSUME LoopTypes, Safety, Bridge, OnCmdDrive
    PROVE  /\ cmd_drive["bridge"] # << >>
           /\ cmd_drive'["bridge"] = << >> /\ cmd_drive'["vehicle"] = cmd_drive["vehicle"]
           /\ heartbeat_age' = 0 /\ ~vehicle_due
           /\ UNCHANGED <<cmd_source, odom, position, velocity, target_velocity,
                          command_age, vehicle_due, estopVars, node, control_due, rx>>
<1>1. /\ cmd_drive["bridge"] # << >> /\ cmd_drive' = Take(cmd_drive, "bridge")
      /\ heartbeat_age' = 0
      /\ UNCHANGED <<cmd_source, odom, position, velocity, target_velocity,
                     command_age, vehicle_due, estopVars, node, control_due, rx>>
    BY DEF Bridge, OnCmdDrive, simVars, estopVars, linkVars
<1>2. PICK m \in Answers : cmd_drive["bridge"] = <<m>>
    BY <1>1 DEF Safety, RoundInv
<1>3. cmd_drive \in [CmdReaders -> Seq(Answers)]
    BY DEF LoopTypes, LoopInv, TopicInv
<1>4. cmd_drive'["bridge"] = << >> /\ cmd_drive'["vehicle"] = cmd_drive["vehicle"]
    BY <1>1, <1>2, <1>3, TakeOne
<1>5. ~vehicle_due
    BY <1>1 DEF Safety, RoundInv, Quiet
<1> QED
    BY <1>1, <1>4, <1>5

LEMMA ControlBegins ==
    ASSUME Bridge, ControlTick
    PROVE  node' = "writing" /\ UNCHANGED <<cmdVars, velocity, estopVars, heartbeat_age, rx>>
    BY DEF Bridge, ControlTick, simVars, cmdVars, estopVars, topicVars, watchVars

LEMMA ControlEnds ==
    ASSUME LoopTypes, Safety, Bridge, ControlWritten
    PROVE  /\ node' = "idle" /\ rx' = << >>
           /\ PublishEstop(SafeStopRequired)
           /\ UNCHANGED <<cmdVars, velocity, estop_seen, heartbeat_age, control_due>>
<1>1. /\ Poll
      /\ node' # "dead" => PublishEstop(SafeStopRequired)
      /\ UNCHANGED <<cmdVars, velocity, estop_seen, heartbeat_age, control_due>>
    BY DEF Bridge, ControlWritten, simVars, cmdVars
<1>2. rx = << >>
    BY DEF Safety, VerdictInv
<1>3. PICK n \in 0 .. Len(rx) : PollAfter(n)
    BY <1>1 DEF Poll
<1>4. n = Len(rx)
    BY <1>2
<1>5. node' = "idle" /\ rx' = << >>
    BY <1>3, <1>4 DEF PollAfter
<1> QED
    BY <1>1, <1>5

LEMMA VehicleTakes ==
    ASSUME LoopTypes, Safety, SimCmdDrive
    PROVE  /\ cmd_drive["vehicle"] # << >>
           /\ cmd_drive'["vehicle"] = << >> /\ cmd_drive'["bridge"] = cmd_drive["bridge"]
           /\ command_age' = 0 /\ ~vehicle_due
           /\ UNCHANGED <<cmd_source, odom, position, velocity, vehicle_due, estopVars,
                          node, control_due, rx, heartbeat_age>>
<1>1. /\ cmd_drive["vehicle"] # << >> /\ cmd_drive' = Take(cmd_drive, "vehicle")
      /\ Sim!OnCmdDrive(Head(cmd_drive["vehicle"]))
      /\ UNCHANGED <<cmd_source, odom, position, vehicle_due, estopVars,
                     node, control_due, rx, heartbeat_age>>
    BY DEF SimCmdDrive, bridgeVars, estopVars, linkVars, watchVars
<1>2. PICK m \in Answers : cmd_drive["vehicle"] = <<m>>
    BY <1>1 DEF Safety, RoundInv
<1>3. cmd_drive \in [CmdReaders -> Seq(Answers)]
    BY DEF LoopTypes, LoopInv, TopicInv
<1>4. cmd_drive'["vehicle"] = << >> /\ cmd_drive'["bridge"] = cmd_drive["bridge"]
    BY <1>1, <1>2, <1>3, TakeOne
<1>5. ~vehicle_due
    BY <1>1 DEF Safety, RoundInv, Quiet
<1>6. command_age' = 0 /\ velocity' = velocity
    BY <1>1 DEF Sim!OnCmdDrive
<1> QED
    BY <1>1, <1>4, <1>5, <1>6

LEMMA VehicleTicks ==
    ASSUME LoopTypes, Safety, SimTick
    PROVE  /\ vehicle_due /\ ~vehicle_due' /\ Quiet
           /\ odom' = IF cmd_source = "alive" THEN <<position'>> ELSE << >>
           /\ velocity' \in Sim!Approach(velocity, Sim!ActiveVelocity)
           /\ UNCHANGED <<vars, target_velocity, command_age>>
<1>1. /\ velocity' \in Sim!Approach(velocity, Sim!ActiveVelocity)
      /\ odom' = IF cmd_source = "alive" THEN KeepLast(odom, position') ELSE odom
      /\ UNCHANGED <<vars, target_velocity, command_age>>
    BY DEF SimTick, Sim!Tick
<1>2. vehicle_due /\ ~vehicle_due'
    BY Zenon DEF SimTick
<1>3. Quiet
    BY <1>2, Zenon DEF Safety, RoundInv
<1>4. odom = << >>
    BY <1>3 DEF Quiet
<1>5. KeepLast(odom, position') = <<position'>>
    BY <1>4 DEF KeepLast
<1> QED
    BY <1>1, <1>2, <1>3, <1>4, <1>5

LEMMA PlannerAnswers ==
    ASSUME LoopTypes, Safety, PlannerOdom
    PROVE  /\ cmd_source = "alive"
           /\ odom = <<position>> /\ odom' = << >> /\ ~vehicle_due
           /\ \A r \in CmdReaders : cmd_drive[r] = << >> /\ cmd_drive'[r] = <<Answer(position)>>
           /\ Answer(position) \in Answers
           /\ UNCHANGED <<cmd_source, position, velocity, target_velocity, command_age,
                          vehicle_due, estopVars, node, control_due, rx, heartbeat_age>>
<1>1. /\ cmd_source = "alive" /\ odom # << >> /\ odom' = Tail(odom)
      /\ cmd_drive' = Publish(cmd_drive, Answer(Head(odom)))
      /\ UNCHANGED <<cmd_source, position, velocity, target_velocity, command_age,
                     vehicle_due, estopVars, node, control_due, rx, heartbeat_age>>
    BY DEF PlannerOdom, bridgeVars, simVars, estopVars, linkVars, watchVars
<1>2. odom = <<position>> /\ \A r \in CmdReaders : cmd_drive[r] = << >>
    BY <1>1 DEF Safety, RoundInv
<1>3. Head(odom) = position /\ Tail(odom) = << >>
    BY <1>2
<1>4. Answer(position) \in Answers
    BY AnswerFacts DEF LoopTypes, LoopInv, TopicInv, VehicleInv
<1>5. cmd_drive \in [CmdReaders -> Seq(Answers)]
    BY DEF LoopTypes, LoopInv, TopicInv
<1>6. \A r \in CmdReaders : cmd_drive'[r] = <<Answer(position)>>
    BY <1>1, <1>2, <1>3, <1>4, <1>5, PublishToEmpty
<1>7. ~vehicle_due
    BY <1>1 DEF Safety, RoundInv, Quiet
<1> QED
    BY <1>1, <1>2, <1>3, <1>4, <1>6, <1>7

LEMMA PlannerComesAndGoes ==
    ASSUME LoopTypes, Safety, PlannerCrash \/ PlannerRestart
    PROVE  /\ odom' = << >>
           /\ estop_topic'["vehicle"] = estop_topic["vehicle"]
           /\ estop_seen'["vehicle"] = estop_seen["vehicle"]
           /\ UNCHANGED <<cmd_drive, position, velocity, target_velocity, command_age,
                          vehicle_due, last_estop_published, node, control_due, rx,
                          heartbeat_age>>
<1>1. /\ estop_topic \in [EstopReaders -> Seq(BOOLEAN)]
      /\ estop_seen \in [EstopReaders -> BOOLEAN]
    BY DEF LoopTypes, LoopInv, TopicInv
<1>2. CASE PlannerCrash
    BY <1>1, <1>2 DEF PlannerCrash, Forget, bridgeVars, simVars, linkVars, watchVars
<1>3. CASE PlannerRestart
  <2>1. cmd_source = "gone" /\ odom' = odom
      BY <1>3 DEF PlannerRestart
  <2>2. odom = << >>
      BY <2>1 DEF Safety, RoundInv
  <2>4. /\ estop_topic' = Forget(estop_topic, "planner")
        /\ estop_seen' = [estop_seen EXCEPT !["planner"] = FALSE]
        /\ UNCHANGED <<cmd_drive, position, velocity, target_velocity, command_age,
                       vehicle_due, last_estop_published, node, control_due, rx,
                       heartbeat_age>>
      BY <1>3 DEF PlannerRestart, bridgeVars, simVars, linkVars, watchVars
  <2>5. /\ estop_topic'["vehicle"] = estop_topic["vehicle"]
        /\ estop_seen'["vehicle"] = estop_seen["vehicle"]
      BY <1>1, <2>4 DEF Forget
  <2> QED
      BY <2>1, <2>2, <2>4, <2>5
<1> QED
    BY <1>2, <1>3

(* Time passes in a round in which everything was read.                    *)
LEMMA PeriodPasses ==
    ASSUME Punctual, LoopTypes, Safety, LoopTick
    PROVE  /\ ~vehicle_due /\ vehicle_due' /\ control_due' /\ node' = "idle"
           /\ node = "idle" /\ ~control_due
           /\ Quiet
           /\ estop_topic["vehicle"] = << >>
           /\ heartbeat_age' = IF heartbeat_age < AgeCap THEN heartbeat_age + 1 ELSE AgeCap
           /\ command_age' = IF command_age > CommandTimeout THEN command_age
                                                             ELSE command_age + 1
           /\ UNCHANGED <<cmd_drive, cmd_source, odom, position, velocity, target_velocity,
                          estopVars, rx>>
<1>1. ~vehicle_due /\ vehicle_due' /\ control_due'
    BY Zenon DEF LoopTick, Tick
<1>2. /\ heartbeat_age' = IF heartbeat_age < AgeCap THEN heartbeat_age + 1 ELSE AgeCap
      /\ command_age' = IF command_age > CommandTimeout THEN command_age
                                                        ELSE command_age + 1
      /\ UNCHANGED <<node, cmd_drive, cmd_source, odom, position, velocity, target_velocity,
                     estopVars, rx>>
    BY DEF LoopTick, Tick, topicVars, linkVars, estopVars
<1>3. node = "idle" /\ ~control_due
  <2>1. ~LineFull
      BY DEF LineFull
  <2>2. node # "writing"
      BY <2>1 DEF LoopTick, Tick, Prompt
  <2>3. node = "idle"
      BY <2>2 DEF Safety, VerdictInv
  <2>4. ~control_due
      BY <2>3, Zenon DEF LoopTick, Tick, Prompt
  <2> QED
      BY <2>3, <2>4
<1>4. ~Waiting("bridge") /\ ~Waiting("vehicle") /\ ~Waiting("planner")
    BY DEF LoopTick, Punctual
<1>5. /\ cmd_drive["bridge"] = << >> /\ cmd_drive["vehicle"] = << >>
      /\ estop_topic["vehicle"] = << >>
      /\ cmd_source = "alive" => odom = << >>
    BY <1>4 DEF Waiting
<1>6. odom = << >>
    BY <1>5 DEF Safety, RoundInv
<1> QED
    BY <1>1, <1>2, <1>3, <1>5, <1>6 DEF Quiet

LEMMA NothingHappens ==
    ASSUME UNCHANGED loopVars
    PROVE  UNCHANGED <<cmdVars, velocity, estopVars, node, control_due, rx, heartbeat_age>>
    BY DEF loopVars, vars, topicVars, watchVars, linkVars, simVars, cmdVars, estopVars

LEMMA EstopRead ==
    ASSUME LoopTypes, NEW r \in EstopReaders, ReadsEstop(r)
    PROVE  /\ estop_topic[r] # << >>
           /\ estop_topic' = Take(estop_topic, r)
           /\ estop_seen' = [estop_seen EXCEPT ![r] = Head(estop_topic[r])]
           /\ UNCHANGED <<cmdVars, velocity, last_estop_published, node, control_due, rx,
                          heartbeat_age>>
    BY DEF ReadsEstop, OnEstop, watchVars, linkVars, simVars, cmdVars

(* An operator reaches /estop and nothing else, and is absent no more.     *)
LEMMA OperatorReaches ==
    ASSUME OperatorEstop
    PROVE  /\ operator' # "absent"
           /\ UNCHANGED <<cmdVars, velocity, estop_seen, last_estop_published, node,
                          control_due, rx, heartbeat_age>>
<1>1. /\ operator' \in {"pressed", "released"}
      /\ UNCHANGED <<cmd_drive, cmd_source, estop_seen, odom, bridgeVars, simVars>>
    BY DEF OperatorEstop
<1> QED
    BY <1>1 DEF bridgeVars, simVars, watchVars, linkVars, cmdVars

LEMMA OperatorStays ==
    ASSUME [LoopNext]_loopVars, operator' = "absent"
    PROVE  operator = "absent" /\ ~OperatorEstop
<1>1. CASE OperatorEstop
    BY <1>1, OperatorReaches
<1>2. CASE ~OperatorEstop
    BY <1>2 DEF LoopNext, Bridge, ReadsEstop, SimCmdDrive, SimTick, PlannerOdom,
                PlannerCrash, PlannerRestart, LoopTick, loopVars
<1> QED
    BY <1>1, <1>2

(* Only a tick changes the vehicle's speed.                                *)
LEMMA OnlyTicksMove ==
    ASSUME [LoopNext]_loopVars, ~SimTick
    PROVE  velocity' = velocity
<1>1. CASE SimCmdDrive
    BY <1>1 DEF SimCmdDrive, Sim!OnCmdDrive
<1>2. CASE ~SimCmdDrive
    BY <1>2 DEF LoopNext, Bridge, ReadsEstop, PlannerOdom, PlannerCrash, PlannerRestart,
                OperatorEstop, LoopTick, loopVars, simVars
<1> QED
    BY <1>1, <1>2

-----------------------------------------------------------------------------
(* Each part of the invariant is kept by every step.                       *)

LEMMA RoundStep ==
    ASSUME Punctual, LoopTypes, Safety, [LoopNext]_loopVars
    PROVE  RoundInv'
<1>1. CASE Bridge /\ OnCmdDrive
    BY <1>1, BridgeTakes DEF Safety, RoundInv, Quiet
<1>2. CASE \/ (Bridge /\ (ControlTick \/ ControlWritten)) \/ UNCHANGED loopVars
           \/ \E r \in EstopReaders : ReadsEstop(r)
  <2>1. UNCHANGED cmdVars
      BY <1>2, ControlBegins, ControlEnds, NothingHappens, EstopRead
  <2> QED
      BY <2>1 DEF Safety, RoundInv, Quiet, cmdVars
<1>3. CASE SimCmdDrive
    BY <1>3, VehicleTakes DEF Safety, RoundInv, Quiet
<1>4. CASE SimTick
  <2>1. /\ ~vehicle_due' /\ Quiet /\ UNCHANGED <<cmd_drive, cmd_source>>
        /\ odom' = IF cmd_source = "alive" THEN <<position'>> ELSE << >>
      BY <1>4, VehicleTicks DEF vars, topicVars
  <2> QED
      BY <2>1 DEF RoundInv, Quiet
<1>5. CASE PlannerOdom
    BY <1>5, PlannerAnswers DEF RoundInv
<1>6. CASE PlannerCrash \/ PlannerRestart
    BY <1>6, PlannerComesAndGoes DEF Safety, RoundInv, Quiet
<1>7. CASE LoopTick
    BY <1>7, PeriodPasses DEF Safety, RoundInv, Quiet
<1>8. CASE OperatorEstop
    BY <1>8, OperatorReaches DEF Safety, RoundInv, Quiet, cmdVars
<1> QED
    BY <1>1, <1>2, <1>3, <1>4, <1>5, <1>6, <1>7, <1>8 DEF LoopNext, Bridge

LEMMA AgeStep ==
    ASSUME Punctual, LoopTypes, Safety, [LoopNext]_loopVars
    PROVE  AgeInv'
<1>1. CASE Bridge /\ OnCmdDrive
    BY <1>1, BridgeTakes DEF Safety, AgeInv, Sim!Fresh
<1>2. CASE \/ (Bridge /\ (ControlTick \/ ControlWritten)) \/ UNCHANGED loopVars
           \/ \E r \in EstopReaders : ReadsEstop(r)
  <2>1. UNCHANGED <<cmdVars, heartbeat_age>>
      BY <1>2, ControlBegins, ControlEnds, NothingHappens, EstopRead
  <2> QED
      BY <2>1 DEF Safety, AgeInv, Sim!Fresh, cmdVars
<1>3. CASE SimCmdDrive
    BY <1>3, VehicleTakes DEF Safety, AgeInv, Sim!Fresh
<1>4. CASE SimTick
  <2>1. UNCHANGED <<cmd_drive, heartbeat_age, command_age>>
      BY <1>4, VehicleTicks DEF vars, topicVars, watchVars
  <2> QED
      BY <2>1 DEF Safety, AgeInv, Sim!Fresh
<1>5. CASE PlannerOdom
  <2>1. \A r \in CmdReaders : cmd_drive'[r] = <<Answer(position)>>
      BY <1>5, PlannerAnswers
  <2>2. "bridge" \in CmdReaders /\ "vehicle" \in CmdReaders
      OBVIOUS
  <2>3. <<Answer(position)>> # << >>
      OBVIOUS
  <2>4. \A r \in CmdReaders : cmd_drive'[r] # << >>
      BY <2>1, <2>3
  <2>5. cmd_drive'["bridge"] # << >> /\ cmd_drive'["vehicle"] # << >>
      BY <2>2, <2>4
  <2> QED
      BY <2>5 DEF AgeInv
<1>6. CASE PlannerCrash \/ PlannerRestart
  <2>1. UNCHANGED <<cmd_drive, heartbeat_age, command_age>>
      BY <1>6, PlannerComesAndGoes
  <2> QED
      BY <2>1 DEF Safety, AgeInv, Sim!Fresh
<1>7. CASE LoopTick
  <2>1. heartbeat_age \in 0 .. AgeCap /\ command_age \in 0 .. CommandTimeout + 1
      BY DEF LoopTypes, LoopTypeOK, TypeOK
  <2>2. command_age < CommandTimeout => heartbeat_age = IF command_age <= AgeCap THEN command_age ELSE AgeCap
      BY <1>7, PeriodPasses DEF Safety, AgeInv, Quiet, Sim!Fresh
  <2>3. /\ heartbeat_age' = IF heartbeat_age < AgeCap THEN heartbeat_age + 1 ELSE AgeCap
        /\ command_age' = IF command_age > CommandTimeout THEN command_age
                                                          ELSE command_age + 1
      BY <1>7, PeriodPasses
  <2>4. command_age' < CommandTimeout =>
           heartbeat_age' = IF command_age' <= AgeCap THEN command_age' ELSE AgeCap
      BY <2>1, <2>2, <2>3
  <2>5. cmd_drive'["bridge"] = << >> /\ cmd_drive'["vehicle"] = << >>
      BY <1>7, PeriodPasses DEF Quiet
  <2> QED
      BY <2>4, <2>5 DEF AgeInv, Sim!Fresh
<1>8. CASE OperatorEstop
    BY <1>8, OperatorReaches DEF Safety, AgeInv, Sim!Fresh, cmdVars
<1> QED
    BY <1>1, <1>2, <1>3, <1>4, <1>5, <1>6, <1>7, <1>8 DEF LoopNext, Bridge

LEMMA VerdictStep ==
    ASSUME Punctual, LoopTypes, Safety, [LoopNext]_loopVars
    PROVE  VerdictInv'
<1>1. CASE Bridge /\ OnCmdDrive
  <2>1. heartbeat_age' = 0 /\ cmd_drive["bridge"] # << >> /\ ~vehicle_due
      BY <1>1, BridgeTakes
  <2>2. UNCHANGED <<node, control_due, rx, last_estop_published>>
      BY <1>1, BridgeTakes DEF estopVars
  <2>3. ~(node = "idle" /\ ~control_due /\ last_estop_published = {})
      BY <2>1 DEF Safety, VerdictInv, Quiet
  <2>4. ~(heartbeat_age' > HeartbeatTimeout)
      BY <2>1
  <2> QED
      BY <2>2, <2>3, <2>4, Zenon DEF Safety, VerdictInv
<1>2. CASE Bridge /\ ControlTick
    BY <1>2, ControlBegins DEF Safety, VerdictInv, estopVars
<1>3. CASE Bridge /\ ControlWritten
  <2>1. SafeStopRequired \in BOOLEAN
      BY DEF SafeStopRequired, TimedOut
  <2>2. last_estop_published' = {SafeStopRequired}
      BY <1>3, <2>1, ControlEnds, PublishEstopType DEF LoopTypes, LoopTypeOK
  <2>3. last_estop_published' \in {{TRUE}, {FALSE}}
      BY <2>1, <2>2
  <2>4. last_estop_published' = {FALSE} => heartbeat_age <= HeartbeatTimeout
      BY <2>2, FreshClear DEF LoopTypes, LoopTypeOK
  <2>5. node' = "idle" /\ rx' = << >> /\ heartbeat_age' = heartbeat_age
      BY <1>3, ControlEnds
  <2>6. heartbeat_age \in Nat
      BY DEF LoopTypes, LoopTypeOK, TypeOK
  <2>7. heartbeat_age' > HeartbeatTimeout => ~(heartbeat_age <= HeartbeatTimeout)
      BY <2>5, <2>6
  <2>8. heartbeat_age' > HeartbeatTimeout => last_estop_published' # {FALSE}
      BY <2>4, <2>7, Zenon
  <2>9. last_estop_published' \in {{}, {TRUE}, {FALSE}} /\ last_estop_published' # {}
      BY <2>3, Zenon
  <2> QED
      BY <2>5, <2>8, <2>9, Zenon DEF VerdictInv
<1>4. CASE SimCmdDrive
  <2>1. cmd_drive["vehicle"] # << >>
      BY <1>4, VehicleTakes
  <2>2. UNCHANGED <<node, control_due, rx, heartbeat_age, last_estop_published>>
      BY <1>4, VehicleTakes DEF estopVars
  <2>3. ~(node = "idle" /\ ~control_due /\ last_estop_published = {})
      BY <2>1 DEF Safety, VerdictInv, Quiet
  <2> QED
      BY <2>2, <2>3 DEF Safety, VerdictInv
<1>5. CASE SimTick
  <2>1. vehicle_due
      BY <1>5, VehicleTicks
  <2>2. UNCHANGED <<node, control_due, rx, heartbeat_age, last_estop_published>>
      BY <1>5, VehicleTicks DEF vars, linkVars, watchVars
  <2>3. ~(node = "idle" /\ ~control_due /\ last_estop_published = {})
      BY <2>1 DEF Safety, VerdictInv
  <2> QED
      BY <2>2, <2>3 DEF Safety, VerdictInv
<1>6. CASE PlannerOdom
  <2>1. odom # << >>
      BY <1>6 DEF PlannerOdom
  <2>2. UNCHANGED <<node, control_due, rx, heartbeat_age, last_estop_published>>
      BY <1>6, PlannerAnswers DEF estopVars
  <2>3. ~(node = "idle" /\ ~control_due /\ last_estop_published = {})
      BY <2>1 DEF Safety, VerdictInv, Quiet
  <2> QED
      BY <2>2, <2>3 DEF Safety, VerdictInv
<1>7. CASE PlannerCrash \/ PlannerRestart
  <2>1. /\ UNCHANGED <<node, control_due, rx, heartbeat_age, last_estop_published,
                       cmd_drive, command_age, vehicle_due>>
        /\ odom' = << >>
      BY <1>7, PlannerComesAndGoes
  <2> QED
      BY <2>1 DEF Safety, VerdictInv, Quiet, Sim!Fresh
<1>8. CASE LoopTick
  <2>1. /\ node' = "idle" /\ control_due'
        /\ UNCHANGED <<rx, last_estop_published>>
      BY <1>8, PeriodPasses DEF estopVars
  <2> QED
      BY <2>1 DEF Safety, VerdictInv
<1>9. CASE UNCHANGED loopVars \/ \E r \in EstopReaders : ReadsEstop(r)
  <2>1. UNCHANGED <<cmdVars, node, control_due, rx, heartbeat_age, last_estop_published>>
      BY <1>9, NothingHappens, EstopRead DEF estopVars
  <2> QED
      BY <2>1 DEF Safety, VerdictInv, Quiet, Sim!Fresh, cmdVars
<1>10. CASE OperatorEstop
  <2>1. UNCHANGED <<cmdVars, node, control_due, rx, heartbeat_age, last_estop_published>>
      BY <1>10, OperatorReaches
  <2> QED
      BY <2>1 DEF Safety, VerdictInv, Quiet, Sim!Fresh, cmdVars
<1> QED
    BY <1>1, <1>2, <1>3, <1>4, <1>5, <1>6, <1>7, <1>8, <1>9, <1>10 DEF LoopNext, Bridge

(* The vehicle's backlog of /estop, or what it holds, ends with the last   *)
(* verdict, as ReadersAlwaysFollow says of the bridge alone.               *)
LEMMA FollowStep ==
    ASSUME LoopTypes, FollowInv, [LoopNext]_loopVars
    PROVE  FollowInv'
<1> SUFFICES ASSUME operator' = "absent" PROVE FollowInv'
    BY DEF FollowInv
<1>0. operator = "absent" /\ ~OperatorEstop
    BY OperatorStays
<1> DEFINE q == estop_topic["vehicle"]
<1>1. /\ estop_topic \in [EstopReaders -> Seq(BOOLEAN)]
      /\ estop_seen \in [EstopReaders -> BOOLEAN]
      /\ \A r \in EstopReaders : Len(estop_topic[r]) <= Depth
    BY DEF LoopTypes, LoopTypeOK, TypeOK
<1>2. q \in Seq(BOOLEAN) /\ Len(q) <= Depth
    BY <1>1
<1>3. CASE UNCHANGED <<q, estop_seen["vehicle"], last_estop_published>>
    BY <1>0, <1>3 DEF FollowInv
<1>4. CASE Bridge /\ ControlWritten
  <2>1. SafeStopRequired \in BOOLEAN
      BY DEF SafeStopRequired, TimedOut
  <2>2. /\ UNCHANGED estop_seen
        /\ \/ UNCHANGED <<estop_topic, last_estop_published>>
           \/ PublishEstop(SafeStopRequired)
      BY <1>4 DEF ControlWritten
  <2>3. CASE UNCHANGED <<estop_topic, last_estop_published>>
      BY <1>3, <2>2, <2>3
  <2>4. CASE ~UNCHANGED <<estop_topic, last_estop_published>>
    <3>1. /\ last_estop_published' = {SafeStopRequired}
          /\ estop_topic' = Publish(estop_topic, SafeStopRequired)
        BY <2>2, <2>4 DEF PublishEstop
    <3>2. estop_topic'["vehicle"] = KeepLast(q, SafeStopRequired)
        BY <1>1, <3>1 DEF Publish
    <3>3. /\ KeepLast(q, SafeStopRequired) # << >>
          /\ KeepLast(q, SafeStopRequired)[Len(KeepLast(q, SafeStopRequired))] = SafeStopRequired
        BY <1>2, <2>1, KeepLastFacts
    <3> QED
        BY <3>1, <3>2, <3>3 DEF FollowInv
  <2> QED
      BY <2>3, <2>4
<1>5. ASSUME NEW r \in EstopReaders, ReadsEstop(r)
      PROVE  FollowInv'
  <2>1. /\ estop_topic[r] # << >>
        /\ estop_topic' = Take(estop_topic, r)
        /\ estop_seen' = [estop_seen EXCEPT ![r] = Head(estop_topic[r])]
        /\ UNCHANGED last_estop_published
      BY <1>5, EstopRead
  <2>2. CASE r = "planner"
    <3>1. UNCHANGED <<q, estop_seen["vehicle"], last_estop_published>>
        BY <1>1, <2>1, <2>2 DEF Take
    <3> QED
        BY <1>3, <3>1
  <2>3. CASE r = "vehicle"
    <3>1. estop_topic'["vehicle"] = Tail(q) /\ estop_seen'["vehicle"] = q[1] /\ q # << >>
        BY <1>1, <2>1, <2>3 DEF Take
    <3>2. last_estop_published = {q[Len(q)]}
        BY <1>0, <3>1 DEF FollowInv
    <3>3. CASE Tail(q) = << >>
      <4>1. Tail(q) \in Seq(BOOLEAN) /\ Len(Tail(q)) = Len(q) - 1
          BY <1>2, <3>1, HeadTailProperties
      <4>2. Len(Tail(q)) = 0
          BY <3>3, <4>1, EmptySeq
      <4>3. Len(q) = 1
          BY <1>2, <4>1, <4>2
      <4> QED
          BY <2>1, <3>1, <3>2, <3>3, <4>3 DEF FollowInv
    <3>4. CASE Tail(q) # << >>
      <4>1. Tail(q)[Len(Tail(q))] = q[Len(q)]
          BY <1>2, <3>1, <3>4, HeadTailProperties
      <4> QED
          BY <2>1, <3>1, <3>2, <3>4, <4>1 DEF FollowInv
    <3> QED
        BY <3>3, <3>4
  <2> QED
      BY <2>2, <2>3
<1>6. CASE PlannerCrash \/ PlannerRestart
  <2>1. /\ estop_topic' = Forget(estop_topic, "planner")
        /\ estop_seen' \in {estop_seen, [estop_seen EXCEPT !["planner"] = FALSE]}
        /\ UNCHANGED last_estop_published
      BY <1>6 DEF PlannerCrash, PlannerRestart, bridgeVars, watchVars
  <2>2. UNCHANGED <<q, estop_seen["vehicle"]>>
      BY <1>1, <2>1 DEF Forget
  <2> QED
      BY <1>3, <2>1, <2>2
<1>7. CASE (Bridge /\ (OnCmdDrive \/ ControlTick)) \/ UNCHANGED loopVars
  <2>1. UNCHANGED <<estop_topic, estop_seen, last_estop_published>>
      BY <1>7 DEF OnCmdDrive, ControlTick, topicVars, watchVars, loopVars, vars
  <2> QED
      BY <1>3, <2>1
<1>8. CASE SimCmdDrive \/ PlannerOdom \/ LoopTick \/ SimTick
  <2>1. UNCHANGED <<estop_topic, estop_seen, last_estop_published>>
      BY <1>8 DEF SimCmdDrive, PlannerOdom, LoopTick, SimTick, Tick, topicVars, watchVars,
                  vars, bridgeVars
  <2> QED
      BY <1>3, <2>1
<1> QED
    BY <1>0, <1>4, <1>5, <1>6, <1>7, <1>8 DEF LoopNext, Bridge

LEMMA LateStep ==
    ASSUME Punctual, LoopTypes, Safety, [LoopNext]_loopVars
    PROVE  LateInv'
<1> SUFFICES ASSUME operator' = "absent" PROVE LateInv'
    BY DEF LateInv
<1>0. operator = "absent" /\ ~OperatorEstop
    BY OperatorStays
<1>1. /\ heartbeat_age \in 0 .. AgeCap
      /\ command_age \in 0 .. CommandTimeout + 1
    BY DEF LoopTypes, LoopTypeOK, TypeOK
<1>2. CASE LoopTick
  <2>1. /\ command_age' = IF command_age > CommandTimeout THEN command_age
                                                          ELSE command_age + 1
        /\ UNCHANGED estopVars
        /\ estop_topic["vehicle"] = << >>
      BY <1>2, PeriodPasses
  <2>2. Quiet /\ node = "idle" /\ ~control_due
      BY <1>2, PeriodPasses
  <2>3. ASSUME command_age' < CommandTimeout, command_age' > HeartbeatTimeout + 1
        PROVE  last_estop_published = {TRUE} /\ estop_seen["vehicle"]
    <3>1. command_age < CommandTimeout /\ command_age > HeartbeatTimeout
        BY <1>1, <2>1, <2>3
    <3>2. heartbeat_age = IF command_age <= AgeCap THEN command_age ELSE AgeCap
        BY <2>2, <3>1 DEF Safety, AgeInv, Quiet, Sim!Fresh
    <3>3. heartbeat_age > HeartbeatTimeout
        BY <1>1, <3>1, <3>2
    <3>4. last_estop_published # {FALSE}
        BY <2>2, <3>3 DEF Safety, VerdictInv
    <3>5. last_estop_published # {}
        BY <2>2, <3>1 DEF Safety, VerdictInv, Sim!Fresh
    <3>6. last_estop_published = {TRUE}
        BY <3>4, <3>5 DEF Safety, VerdictInv
    <3>7. {TRUE} = {estop_seen["vehicle"]}
        BY <1>0, <2>1, <3>6 DEF Safety, FollowInv
    <3> QED
        BY <3>6, <3>7
  <2> QED
      BY <2>1, <2>3 DEF LateInv, Sim!Fresh, estopVars
<1>3. CASE ~vehicle_due'
    BY <1>3 DEF LateInv
<1>4. CASE vehicle_due /\ UNCHANGED <<estopVars, command_age>>
    BY <1>0, <1>4 DEF Safety, LateInv, Sim!Fresh, estopVars
<1>5. CASE (Bridge /\ (OnCmdDrive \/ ControlTick)) \/ UNCHANGED loopVars \/ PlannerOdom
  <2>1. UNCHANGED <<estopVars, command_age, vehicle_due>>
      BY <1>5, BridgeTakes, ControlBegins, PlannerAnswers, NothingHappens DEF cmdVars
  <2> QED
      BY <1>3, <1>4, <2>1
<1>6. CASE Bridge /\ ControlWritten
  <2>1. /\ UNCHANGED <<estop_seen, command_age, vehicle_due>>
        /\ PublishEstop(SafeStopRequired)
      BY <1>6, ControlEnds DEF cmdVars
  <2>2. ASSUME vehicle_due, command_age < CommandTimeout, command_age > HeartbeatTimeout + 1
        PROVE  UNCHANGED estopVars
    <3>1. last_estop_published = {TRUE} /\ Quiet
        BY <1>0, <2>2 DEF Safety, LateInv, RoundInv, Sim!Fresh
    <3>2. heartbeat_age = IF command_age <= AgeCap THEN command_age ELSE AgeCap
        BY <2>2, <3>1 DEF Safety, AgeInv, Quiet, Sim!Fresh
    <3>3. heartbeat_age > HeartbeatTimeout
        BY <1>1, <2>2, <3>2
    <3>4. SafeStopRequired = TRUE
        BY <3>3, Zenon DEF SafeStopRequired, TimedOut
    <3> QED
        BY <2>1, <3>1, <3>4 DEF PublishEstop, estopVars
  <2> QED
      BY <1>0, <2>1, <2>2 DEF Safety, LateInv, Sim!Fresh, estopVars
<1>7. ASSUME NEW r \in EstopReaders, ReadsEstop(r)
      PROVE  LateInv'
  <2>1. /\ estop_topic[r] # << >>
        /\ estop_topic' = Take(estop_topic, r)
        /\ estop_seen' = [estop_seen EXCEPT ![r] = Head(estop_topic[r])]
        /\ UNCHANGED <<command_age, vehicle_due, last_estop_published>>
      BY <1>7, EstopRead DEF cmdVars
  <2>2. /\ estop_topic \in [EstopReaders -> Seq(BOOLEAN)]
        /\ estop_seen \in [EstopReaders -> BOOLEAN]
      BY DEF LoopTypes, LoopInv, TopicInv
  <2>3. CASE r = "planner"
    <3>1. UNCHANGED <<estop_topic["vehicle"], estop_seen["vehicle"]>>
        BY <2>1, <2>2, <2>3 DEF Take
    <3> QED
        BY <1>0, <2>1, <3>1 DEF Safety, LateInv, Sim!Fresh
  <2>4. CASE r = "vehicle"
      BY <1>0, <2>1, <2>4 DEF Safety, LateInv, Sim!Fresh
  <2> QED
      BY <2>3, <2>4
<1>8. CASE PlannerCrash \/ PlannerRestart
    BY <1>0, <1>8, PlannerComesAndGoes DEF Safety, LateInv, Sim!Fresh
<1>9. CASE SimCmdDrive
    BY <1>3, <1>9, VehicleTakes
<1>10. CASE SimTick
    BY <1>3, <1>10, VehicleTicks
<1> QED
    BY <1>0, <1>2, <1>5, <1>6, <1>7, <1>8, <1>9, <1>10 DEF LoopNext, Bridge

-----------------------------------------------------------------------------
(* What the loop is for.                                                   *)

LEMMA Ranges ==
    ASSUME LoopTypes
    PROVE  /\ velocity \in 0 .. MaxSpeed /\ target_velocity \in 0 .. MaxSpeed
           /\ heartbeat_age \in 0 .. AgeCap /\ command_age \in 0 .. CommandTimeout + 1
    BY DEF LoopTypes, LoopTypeOK, TypeOK

(* A vehicle that gains speed has a live command and no e-stop.            *)
LEMMA GainsNeedCommand ==
    ASSUME LoopTypes, [LoopNext]_loopVars, velocity' > velocity
    PROVE  SimTick /\ Sim!Fresh /\ ~estop_seen["vehicle"]
<1>1. SimTick
    BY OnlyTicksMove, Ranges
<1>2. velocity' \in Sim!Approach(velocity, Sim!ActiveVelocity)
    BY <1>1 DEF SimTick, Sim!Tick
<1>3. Sim!ActiveVelocity \in 0 .. MaxSpeed
    BY Ranges DEF Sim!ActiveVelocity
<1>4. Sim!ActiveVelocity > 0
    BY <1>2, <1>3, ApproachInRange, Ranges
<1> QED
    BY <1>1, <1>4 DEF Sim!ActiveVelocity

(* The watchdog's alarm reaches the vehicle before a stale tick.           *)
LEMMA PromptAlarm ==
    ASSUME LoopTypes, Safety, operator = "absent", vehicle_due, Sim!Fresh,
           ~estop_seen["vehicle"]
    PROVE  heartbeat_age <= HeartbeatTimeout + 1
<1>1. ~(command_age > HeartbeatTimeout + 1)
    BY DEF Safety, LateInv
<1>2. command_age <= HeartbeatTimeout + 1
    BY <1>1, Ranges
<1>3. Quiet
    BY DEF Safety, RoundInv
<1>4. heartbeat_age = IF command_age <= AgeCap THEN command_age ELSE AgeCap
    BY <1>3 DEF Quiet, Safety, AgeInv
<1> QED
    BY <1>2, <1>4, Ranges

LEMMA SafetyInit == LoopInit => Safety
<1> SUFFICES ASSUME LoopInit PROVE Safety
    OBVIOUS
<1>1. /\ odom = << >> /\ command_age = CommandTimeout + 1 /\ cmd_source = "alive"
      /\ cmd_drive = [r \in CmdReaders |-> << >>]
      /\ estop_topic = [r \in EstopReaders |-> << >>]
      /\ node = "idle" /\ rx = << >> /\ last_estop_published = {}
    BY DEF LoopInit, Init
<1>2. ~vehicle_due
    BY Zenon DEF LoopInit
<1>3. ~Sim!Fresh
    BY <1>1 DEF Sim!Fresh
<1>4. Quiet
    BY <1>1 DEF Quiet
<1>5. RoundInv /\ AgeInv /\ FollowInv /\ LateInv
    BY <1>1, <1>2, <1>3, <1>4 DEF RoundInv, AgeInv, FollowInv, LateInv, Quiet
<1>6. VerdictInv
    BY <1>1, <1>2, <1>3, <1>4 DEF VerdictInv
<1> QED
    BY <1>5, <1>6 DEF Safety

Settled == LoopTypes /\ Safety

LEMMA SettledStep == ASSUME Punctual PROVE Settled /\ [LoopNext]_loopVars => Settled'
    BY LoopTypesStep, RoundStep, AgeStep, VerdictStep, FollowStep, LateStep
       DEF Settled, Safety

(* The bridge's watchdog is the first to act, for every pair of timeouts:  *)
(* while nodes keep up and no operator has acted, no vehicle gains speed   *)
(* on a stream of commands that has been silent for longer, however often  *)
(* the planner crashes and restarts.                                       *)
THEOREM WatchdogAlwaysFirst == ASSUME Punctual PROVE LoopSpec => WatchdogStopsFirst
<1>1. LoopInit => Settled
    BY LoopTypesInit, SafetyInit DEF Settled
<1>2. Settled /\ [LoopNext]_loopVars => Settled'
    BY SettledStep
<1>3. Settled /\ [LoopNext]_loopVars
         => [velocity' > velocity /\ operator = "absent"
               => heartbeat_age <= HeartbeatTimeout + 1]_loopVars
  <2> SUFFICES ASSUME Settled, [LoopNext]_loopVars, velocity' > velocity, operator = "absent"
               PROVE  heartbeat_age <= HeartbeatTimeout + 1
      OBVIOUS
  <2>1. SimTick /\ Sim!Fresh /\ ~estop_seen["vehicle"]
      BY GainsNeedCommand DEF Settled
  <2>2. vehicle_due
      BY <2>1, Zenon DEF SimTick
  <2> QED
      BY <2>1, <2>2, PromptAlarm DEF Settled
<1> QED
    BY <1>1, <1>2, <1>3, PTL DEF LoopSpec, WatchdogStopsFirst

(* Late nodes, overflowing queues, planners that crash in an alarm and come *)
(* back without one: until an operator acts, no vehicle that has taken the *)
(* bridge's alarm gains speed before the bridge itself says FALSE, although *)
(* only changes are published and a restarted planner commands full speed. *)
THEOREM AlarmAlwaysOutlives == LoopSpec => AlarmOutlivesPlanner
<1>1. LoopInit => LoopTypes /\ FollowInv
    BY LoopTypesInit, SafetyInit DEF Safety
<1>2. LoopTypes /\ FollowInv /\ [LoopNext]_loopVars => LoopTypes' /\ FollowInv'
    BY LoopTypesStep, FollowStep
<1>3. LoopTypes /\ FollowInv /\ [LoopNext]_loopVars
         => [velocity' > velocity /\ operator = "absent"
               => last_estop_published # {TRUE} \/ estop_topic["vehicle"] # << >>]_loopVars
  <2> SUFFICES ASSUME LoopTypes, FollowInv, [LoopNext]_loopVars,
                      velocity' > velocity, operator = "absent",
                      last_estop_published = {TRUE}, estop_topic["vehicle"] = << >>
               PROVE  FALSE
      OBVIOUS
  <2>1. {TRUE} = {estop_seen["vehicle"]}
      BY DEF FollowInv
  <2> QED
      BY <2>1, GainsNeedCommand
<1> QED
    BY <1>1, <1>2, <1>3, PTL DEF LoopSpec, AlarmOutlivesPlanner
=============================================================================
