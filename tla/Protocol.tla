------------------------------ MODULE Protocol ------------------------------
(***************************************************************************)
(* The frames of protocol.py: the two bytes of MAGIC, one byte for the     *)
(* rest of the header (the payload length), one byte of payload and one of *)
(* CRC.                                                                    *)
(***************************************************************************)
EXTENDS Integers, SequencesExt

CONSTANTS
    MaxSent,            \* bound: the frames the MCU sends, numbered from 1
    Payload,            \* the payload byte of each frame
    Crc                 \* the CRC byte of each frame

A == 4
R == 5
Bytes == 0 .. 5
HeaderSize == 3
CrcSize == 1

(* encode_frame. *)
Encode(i) == <<A, R, 1, Payload[i], Crc[i]>>

(* Plausible bug: the CRC is not compared.                                 *)
DecodeUnchecked(raw) ==
    {i \in 1 .. MaxSent : SubSeq(raw, 1, Len(raw) - 1) = SubSeq(Encode(i), 1, 4)}

(* decode_frame: the number of the frame, or nothing for a ProtocolError.  *)
Decode(raw) == {i \in 1 .. MaxSent : raw = Encode(i)}

(* The bytes of the frames from .. to.                                     *)
Stream(from, to) ==
    [p \in 1 .. 5 * (to - from + 1) |-> Encode(from + ((p - 1) \div 5))[1 + ((p - 1) % 5)]]

(* The CRC detects a damage: wherever one byte of the line is changed or   *)
(* lost, what still reads as frame i is where frame i was.                 *)
FrameAt(line, p, i) ==
    /\ p + 4 <= Len(line)
    /\ \A o \in 1 .. 5 : line[p + o - 1] = Encode(i)[o]

DamageIsDetected ==
    \A z, p \in 1 .. 5 * MaxSent, i \in 1 .. MaxSent :
       /\ \A v \in Bytes :
             FrameAt([Stream(1, MaxSent) EXCEPT ![z] = v], p, i) => p = 5 * i - 4
       /\ FrameAt(RemoveAt(Stream(1, MaxSent), z), p, i) => p \in {5 * i - 5, 5 * i - 4}

(* Every frame has a payload and a CRC, which detects a damage of a byte.  *)
ASSUME FrameAssumption ==
    /\ MaxSent \in Nat
    /\ Payload \in [1 .. MaxSent -> Bytes] /\ Crc \in [1 .. MaxSent -> Bytes]
    /\ DamageIsDetected
=============================================================================
