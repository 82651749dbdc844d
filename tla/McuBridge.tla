----------------------------- MODULE McuBridge -----------------------------
(***************************************************************************)
(* aris_mcu_bridge: the node that turns /cmd_drive into CMD_CONTROL frames *)
(* for the safety MCU, watches the command stream (HeartbeatMonitor) and   *)
(* raises /estop.  bridge_node.py is one rclpy node on a single-threaded   *)
(* executor, so its callbacks never overlap; what happens around them is   *)
(* time, the serial line and the other nodes.                              *)
(*                                                                         *)
(* Time is counted in control periods (1 / control_rate_hz).  The watchdog *)
(* compares time.monotonic() with last_heartbeat_s; only the difference    *)
(* matters, so the model keeps the difference, saturated at AgeCap.        *)
(***************************************************************************)
EXTENDS RosTopics, Integers, FiniteSets

CONSTANTS
    EstopReaders,       \* the nodes that subscribe to /estop
    CmdReaders,         \* the nodes that subscribe to /cmd_drive, "bridge" is one
    DriveMsgs,          \* the /cmd_drive messages publishers may send
    HeartbeatTimeout,   \* heartbeat_timeout_s, in control periods
    AgeCap,             \* ages from AgeCap on are not told apart
    SeqMod,             \* the sequence field is taken modulo SeqMod (2^32)
    Transport,          \* "dry-run" or "serial"
    TxCap,              \* frames the serial output buffer of the OS holds
    RxCap,              \* bound: frames waiting on the input side
    McuReports,         \* the STATE_REPORT contents the MCU may send
    Faults              \* what may go wrong on the line, see FaultKinds

FaultKinds == {"zero",      \* os.write returns 0: TransportError
               "oserror",   \* os.write raises EIO or ENODEV: OSError
               "full",      \* the MCU may stop reading: BlockingIOError
               "badsize"}   \* a valid frame whose payload has a wrong size

ASSUME BridgeAssumption ==
    /\ "bridge" \in CmdReaders
    /\ \A m \in DriveMsgs : m.speed \in Int /\ m.acceleration \in Int
    /\ HeartbeatTimeout \in Nat
    /\ AgeCap \in Nat /\ AgeCap > HeartbeatTimeout
    /\ SeqMod \in Nat \ {0}
    /\ Transport \in {"dry-run", "serial"}
    /\ TxCap \in Nat \ {0} /\ RxCap \in Nat
    /\ Faults \subseteq FaultKinds

(***************************************************************************)
(* An attribute that may be None is a set of at most one value.            *)
(***************************************************************************)
VARIABLES
    cmd_drive,              \* /cmd_drive: one queue for each reader
    cmd_source,             \* "alive" or "gone": whoever publishes /cmd_drive
    estop_topic,            \* /estop: one queue for each reader
    estop_seen,             \* self.estop of each reader of /estop
    node,                   \* "idle", "writing" (inside write_frame), "dead"
    control_due,            \* the control timer has expired
    last_command,           \* self.last_command
    heartbeat_age,          \* now - monitor.last_heartbeat_s
    last_mcu_state,         \* self.last_mcu_state
    last_estop_published,   \* self.last_estop_published
    sequence,               \* McuLink.sequence
    tx,                     \* frames written and not yet read by the MCU
    rx,                     \* frames from the MCU, not yet read
    line,                   \* "up", or "stuck": the MCU no longer reads
    vehicle_state           \* the last /vehicle/state message

linkVars   == <<sequence, tx, rx, line>>
watchVars  == <<heartbeat_age, last_estop_published>>
topicVars  == <<cmd_drive, cmd_source, estop_topic, estop_seen>>
vars == <<topicVars, node, control_due, last_command, watchVars,
          last_mcu_state, linkVars, vehicle_state>>

(* Plausible bug: the sign of the acceleration is kept.                    *)
ControlOfSigned(m) == [target_velocity |-> m.speed, brake |-> m.acceleration]

(* ControlCommand: a braking acceleration becomes a brake demand. *)
ControlOf(m) == [target_velocity |-> m.speed,
                 brake |-> IF m.acceleration < 0 THEN -m.acceleration ELSE 0]

ZeroCommand == [target_velocity |-> 0, brake |-> 0]

(* What the MCU may put on the line: a state report, a fault report, a     *)
(* frame whose CRC is wrong, a frame whose state payload has a wrong size. *)
StateFrame(r) == [kind |-> "state", report |-> {r}]
OtherFrame(k) == [kind |-> k, report |-> {}]

McuFrames == {StateFrame(r) : r \in McuReports}
             \cup {OtherFrame("fault"), OtherFrame("corrupt")}
             \cup (IF "badsize" \in Faults THEN {OtherFrame("badsize")} ELSE {})

(* Plausible bug: the watchdog fires a period late.                        *)
TimedOutLate == heartbeat_age > HeartbeatTimeout + 1

(* HeartbeatMonitor.timed_out; None counts as an age beyond every timeout. *)
TimedOut == heartbeat_age > HeartbeatTimeout

SafeStopRequired == TimedOut

(* Plausible bugs: the counter is not masked; it saturates.                *)
NextSequenceUnbounded == sequence + 1

NextSequenceSaturated == IF sequence + 1 < SeqMod THEN sequence + 1 ELSE sequence

NextSequence == (sequence + 1) % SeqMod

(* Plausible bugs: only the first value is published; an all-clear is      *)
(* recorded but never published.                                           *)
PublishEstopOnce(value) ==
    IF last_estop_published # {}
    THEN UNCHANGED <<estop_topic, last_estop_published>>
    ELSE /\ last_estop_published' = {value}
         /\ estop_topic' = Publish(estop_topic, value)

PublishEstopAlarms(value) ==
    /\ last_estop_published' = {value}
    /\ estop_topic' = IF value /\ last_estop_published # {TRUE}
                      THEN Publish(estop_topic, TRUE) ELSE estop_topic

(* _publish_estop: only a change of value is published. *)
PublishEstop(value) ==
    IF last_estop_published = {value}
    THEN UNCHANGED <<estop_topic, last_estop_published>>
    ELSE /\ last_estop_published' = {value}
         /\ estop_topic' = Publish(estop_topic, value)

(* The first n frames of q are the broken ones at its head: decode_frame   *)
(* discards them, _pop_frame_from_buffer goes on after a ProtocolError.    *)
BrokenHead(q, n) ==
    /\ \A i \in 1 .. n : q[i].kind = "corrupt"
    /\ n < Len(q) => q[n + 1].kind # "corrupt"

(***************************************************************************)
(* poll_state_report and what _control_tick does with its answer: a state  *)
(* report replaces the last one, any other frame is dropped, and a state   *)
(* report of a wrong size raises ProtocolError, which nothing catches.     *)
(***************************************************************************)
PollAfter(n) ==
    /\ BrokenHead(rx, n)
    /\ IF n = Len(rx)
       THEN /\ rx' = << >>
            /\ node' = "idle"
            /\ UNCHANGED last_mcu_state
       ELSE LET frame == rx[n + 1] IN
            /\ rx' = SubSeq(rx, n + 2, Len(rx))
            /\ node' = IF frame.kind = "badsize" THEN "dead" ELSE "idle"
            /\ last_mcu_state' = IF frame.kind = "state" THEN frame.report
                                                         ELSE last_mcu_state

Poll == \E n \in 0 .. Len(rx) : PollAfter(n)

Init ==
    /\ cmd_drive = [r \in CmdReaders |-> << >>]
    /\ cmd_source = "alive"
    /\ estop_topic = [r \in EstopReaders |-> << >>]
    /\ estop_seen = [r \in EstopReaders |-> FALSE]
    /\ node = "idle"
    /\ control_due = FALSE
    /\ last_command = ZeroCommand
    /\ heartbeat_age = AgeCap
    /\ last_mcu_state = {}
    /\ last_estop_published = {}
    /\ sequence = 0
    /\ tx = << >>
    /\ rx = << >>
    /\ line = "up"
    /\ vehicle_state = {}

-----------------------------------------------------------------------------
(* The callbacks of the node.                                              *)

OnCmdDrive ==
    /\ node = "idle"
    /\ cmd_drive["bridge"] # << >>
    /\ cmd_drive' = Take(cmd_drive, "bridge")
    /\ last_command' = ControlOf(Head(cmd_drive["bridge"]))
    /\ heartbeat_age' = 0
    /\ UNCHANGED <<cmd_source, estop_topic, estop_seen, node, control_due,
                   last_estop_published, last_mcu_state, linkVars, vehicle_state>>

(* Plausible bug: sending a frame counts as a heartbeat.                   *)
ControlTickBeats ==
    /\ node = "idle"
    /\ control_due
    /\ control_due' = FALSE
    /\ heartbeat_age' = 0
    /\ sequence' = NextSequence
    /\ node' = "writing"
    /\ UNCHANGED <<topicVars, last_command, last_estop_published, last_mcu_state,
                   tx, rx, line, vehicle_state>>

(* _control_tick up to the first os.write: the sequence number is spent    *)
(* before anything is on the line.  write_frame then loops until the whole *)
(* frame is accepted, so the node is busy until one of the next actions.   *)
ControlTick ==
    /\ node = "idle"
    /\ control_due
    /\ control_due' = FALSE
    /\ sequence' = NextSequence
    /\ node' = "writing"
    /\ UNCHANGED <<topicVars, last_command, watchVars, last_mcu_state,
                   tx, rx, line, vehicle_state>>

ControlFrame == [whole |-> TRUE, sequence |-> sequence, command |-> last_command]

LineFull == Transport = "serial" /\ Len(tx) >= TxCap

(* What the transport holds after write_frame: the dry-run transport only  *)
(* records frames, and the model keeps the last record.                    *)
Written(frame) == IF Transport = "serial" THEN Append(tx, frame) ELSE <<frame>>

(* The frame is accepted, the line is polled once, the watchdog decides.   *)
ControlWritten ==
    /\ node = "writing"
    /\ ~LineFull
    /\ tx' = Written(ControlFrame)
    /\ Poll
    /\ IF node' = "dead" THEN UNCHANGED <<estop_topic, last_estop_published>>
                         ELSE PublishEstop(SafeStopRequired)
    /\ UNCHANGED <<cmd_drive, cmd_source, estop_seen, control_due, last_command,
                   heartbeat_age, sequence, line, vehicle_state>>

(* Plausible bug: the transport error is logged and the watchdog decides.  *)
ControlWriteZeroLogged ==
    /\ node = "writing"
    /\ Transport = "serial" /\ "zero" \in Faults
    /\ UNCHANGED tx
    /\ node' = "idle"
    /\ PublishEstop(SafeStopRequired)
    /\ UNCHANGED <<cmd_drive, cmd_source, estop_seen, control_due, last_command,
                   heartbeat_age, last_mcu_state, sequence, rx, line, vehicle_state>>

(* os.write returns zero bytes, perhaps after a part of the frame went     *)
(* out: TransportError, which _control_tick answers with /estop.           *)
ControlWriteZero ==
    /\ node = "writing"
    /\ Transport = "serial" /\ "zero" \in Faults
    /\ \/ UNCHANGED tx
       \/ ~LineFull /\ tx' = Append(tx, [ControlFrame EXCEPT !.whole = FALSE])
    /\ node' = "idle"
    /\ PublishEstop(TRUE)
    /\ UNCHANGED <<cmd_drive, cmd_source, estop_seen, control_due, last_command,
                   heartbeat_age, last_mcu_state, sequence, rx, line, vehicle_state>>

(* os.write or os.read raises OSError: only TransportError is caught, so   *)
(* the exception leaves rclpy.spin and main closes the link and ends.      *)
ControlWriteRaises ==
    /\ node = "writing"
    /\ Transport = "serial" /\ "oserror" \in Faults
    /\ node' = "dead"
    /\ UNCHANGED <<topicVars, control_due, last_command, watchVars,
                   last_mcu_state, linkVars, vehicle_state>>

(* Plausible bug: the MCU's flags are passed on without the watchdog.      *)
StateReportMcuOnly(mcu) == mcu

(* _state_tick: the last MCU report however old, or else the last command  *)
(* echoed as if it were measured.                                          *)
StateReport(mcu) ==
    [wheel_speed  |-> mcu.wheel_speed,
     estop        |-> SafeStopRequired \/ mcu.estop,
     heartbeat_ok |-> ~SafeStopRequired /\ mcu.heartbeat_ok]

EchoReport == [wheel_speed |-> last_command.target_velocity,
               estop |-> FALSE, heartbeat_ok |-> TRUE]

StateTick ==
    /\ node = "idle"
    /\ vehicle_state' = IF last_mcu_state = {} THEN {StateReport(EchoReport)}
                        ELSE {StateReport(r) : r \in last_mcu_state}
    /\ UNCHANGED <<topicVars, node, control_due, last_command, watchVars,
                   last_mcu_state, linkVars>>
-----------------------------------------------------------------------------
(* The nodes and the hardware around it.                                   *)

(* A publisher of /cmd_drive (planner or teleop) sends m, or goes away.    *)
PublishDrive(m) ==
    /\ cmd_source = "alive"
    /\ cmd_drive' = Publish(cmd_drive, m)
    /\ UNCHANGED <<cmd_source, estop_topic, estop_seen, node, control_due,
                   last_command, watchVars, last_mcu_state, linkVars, vehicle_state>>

SourceStops ==
    /\ cmd_source = "alive"
    /\ cmd_source' = "gone"
    /\ UNCHANGED <<cmd_drive, estop_topic, estop_seen, node, control_due,
                   last_command, watchVars, last_mcu_state, linkVars, vehicle_state>>

(* _on_estop of a reader: the latest message is all that it keeps.         *)
OnEstop(r) ==
    /\ estop_topic[r] # << >>
    /\ estop_seen' = [estop_seen EXCEPT ![r] = Head(estop_topic[r])]
    /\ estop_topic' = Take(estop_topic, r)
    /\ UNCHANGED <<cmd_drive, cmd_source, node, control_due, last_command,
                   watchVars, last_mcu_state, linkVars, vehicle_state>>

McuReads ==
    /\ Transport = "serial" /\ line = "up"
    /\ tx # << >>
    /\ tx' = Tail(tx)
    /\ UNCHANGED <<topicVars, node, control_due, last_command, watchVars,
                   last_mcu_state, sequence, rx, line, vehicle_state>>

McuSends(f) ==
    /\ Transport = "serial"
    /\ Len(rx) < RxCap
    /\ rx' = Append(rx, f)
    /\ UNCHANGED <<topicVars, node, control_due, last_command, watchVars,
                   last_mcu_state, sequence, tx, line, vehicle_state>>

McuStopsReading ==
    /\ Transport = "serial" /\ "full" \in Faults
    /\ line = "up"
    /\ line' = "stuck"
    /\ UNCHANGED <<topicVars, node, control_due, last_command, watchVars,
                   last_mcu_state, sequence, tx, rx, vehicle_state>>

(***************************************************************************)
(* One control period passes.  A callback takes much less than a period,   *)
(* so time waits for an expired timer of an idle node and for a write that *)
(* the line can accept; and a line that is up drains faster than 50 frames *)
(* of 26 bytes a second fill it.                                           *)
(***************************************************************************)
Prompt ==
    /\ node = "idle" => ~control_due
    /\ node = "writing" => LineFull
    /\ line = "up" => ~LineFull

Tick ==
    /\ Prompt
    /\ heartbeat_age' = IF heartbeat_age < AgeCap THEN heartbeat_age + 1 ELSE AgeCap
    /\ control_due' = TRUE
    /\ UNCHANGED <<topicVars, node, last_command, last_estop_published,
                   last_mcu_state, linkVars, vehicle_state>>

BridgeStep ==
    \/ OnCmdDrive \/ ControlTick \/ ControlWritten \/ ControlWriteZero
    \/ ControlWriteRaises \/ StateTick

LineStep ==
    \/ McuReads \/ McuStopsReading
    \/ \E f \in McuFrames : McuSends(f)

Next ==
    \/ BridgeStep
    \/ LineStep
    \/ \E m \in DriveMsgs : PublishDrive(m)
    \/ SourceStops
    \/ \E r \in EstopReaders : OnEstop(r)
    \/ Tick

(* The executor keeps serving its timers and queues, the middleware        *)
(* delivers, the MCU reads while it can, time goes on.  Strong fairness of *)
(* OnCmdDrive: control ticks disable it, but the executor serves every     *)
(* ready entity of a wait set before it waits again.  Nothing makes a      *)
(* publisher or the MCU send anything.                                     *)
Fairness ==
    /\ SF_vars(OnCmdDrive)
    /\ WF_vars(ControlTick)
    /\ WF_vars(ControlWritten)
    /\ WF_vars(McuReads)
    /\ WF_vars(Tick)
    /\ \A r \in EstopReaders : WF_vars(OnEstop(r))

Spec == Init /\ [][Next]_vars

FairSpec == Spec /\ Fairness

-----------------------------------------------------------------------------
(* Properties.                                                             *)

Frame == [whole : BOOLEAN, sequence : 0 .. SeqMod - 1,
          command : [target_velocity : Int, brake : Nat]]

(* Every variable keeps its type; in particular no queue outgrows the QoS  *)
(* depth or the line's buffer, whatever the order of the callbacks.        *)
TypeOK ==
    /\ cmd_drive \in [CmdReaders -> Seq(DriveMsgs)]
    /\ \A r \in CmdReaders : Len(cmd_drive[r]) <= Depth
    /\ cmd_source \in {"alive", "gone"}
    /\ estop_topic \in [EstopReaders -> Seq(BOOLEAN)]
    /\ \A r \in EstopReaders : Len(estop_topic[r]) <= Depth
    /\ estop_seen \in [EstopReaders -> BOOLEAN]
    /\ node \in {"idle", "writing", "dead"}
    /\ control_due \in BOOLEAN
    /\ last_command \in [target_velocity : Int, brake : Nat]
    /\ heartbeat_age \in 0 .. AgeCap
    /\ last_mcu_state \subseteq McuReports
    /\ last_estop_published \in SUBSET BOOLEAN
    /\ sequence \in 0 .. SeqMod - 1
    /\ tx \in Seq(Frame) /\ Len(tx) <= TxCap
    /\ rx \in Seq(McuFrames) /\ Len(rx) <= RxCap
    /\ line \in {"up", "stuck"}

(* The watchdog reacts within one control period: while the node runs and  *)
(* /estop last said FALSE, the newest command it has seen is no older than *)
(* the timeout, plus the period whose control tick is still to come.       *)
WatchdogBound ==
    node = "idle" /\ last_estop_published = {FALSE}
        => heartbeat_age <= HeartbeatTimeout + (IF control_due THEN 1 ELSE 0)

(* What each reader of /estop has or is about to read ends with the value  *)
(* the bridge last published: publishing only changes and dropping the     *)
(* oldest of a full queue lose no final value.                             *)
ReadersFollow ==
    \A r \in EstopReaders :
        last_estop_published =
            IF estop_topic[r] # << >> THEN {estop_topic[r][Len(estop_topic[r])]}
            ELSE IF last_estop_published = {} THEN {} ELSE {estop_seen[r]}

(* /estop goes to FALSE only in a control tick that has just put a whole   *)
(* frame with the current command on the line, on a live command stream.   *)
ClearOnlyAfterWrite ==
    [][last_estop_published' = {FALSE} /\ last_estop_published # {FALSE}
        => /\ heartbeat_age <= HeartbeatTimeout
           /\ tx' # << >>
           /\ tx'[Len(tx')] = ControlFrame]_vars

(* Frames reach the MCU in the order of their sequence numbers, each one   *)
(* more than the last modulo 2^32, as long as no write fails.              *)
WireInOrder ==
    "zero" \notin Faults =>
        \A i \in 1 .. Len(tx) - 1 :
            tx[i + 1].sequence = (tx[i].sequence + 1) % SeqMod

(* When the publisher of /cmd_drive goes away for good, every reader of    *)
(* /estop ends up holding TRUE and keeps it.                               *)
SilenceIsHeard ==
    [](cmd_source = "gone" => <>[](\A r \in EstopReaders : estop_seen[r]))

(* What the documents ask for: once the stream has been live, an alarm of  *)
(* the watchdog stays until an operator clears it.  The node has no input  *)
(* for an operator's clear, so here the alarm stays for good.              *)
OperatorClears ==
    [](last_estop_published = {FALSE} =>
         [](last_estop_published = {TRUE} => [](last_estop_published = {TRUE})))

(* Once the control tick of a period has run, a /vehicle/state message     *)
(* sent while /estop is TRUE has estop set, as long as no write fails.     *)
AlarmShownInState ==
    [][vehicle_state' # vehicle_state /\ last_estop_published = {TRUE}
       /\ ~control_due /\ heartbeat_age > 0 /\ "zero" \notin Faults
        => \A s \in vehicle_state' : s.estop]_vars

(* A frame written after the command stream was lost orders a stop.        *)
SafeStopOnWire ==
    [][Len(tx') > Len(tx) /\ TimedOut
        => tx'[Len(tx')].command.target_velocity = 0]_vars
=============================================================================
