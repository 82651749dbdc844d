---------------------------- MODULE SerialStream ----------------------------
(***************************************************************************)
(* The receiving side of SerialTransport: bytes arrive in chunks of any    *)
(* size, are appended to self._buffer, and every read_frame cuts at most   *)
(* one valid frame out of it, skipping noise and frames that do not        *)
(* decode.  The line may change or lose a byte.                            *)
(***************************************************************************)
EXTENDS Protocol

CONSTANT MaxNoise       \* bound: the bytes the line damages, 0 or 1

VARIABLES
    sent,               \* how many frames the MCU has sent
    wire,               \* bytes on their way, those the OS holds included
    noise,              \* how many bytes were damaged
    hit,                \* history: the frames a byte of which was damaged
    misaligned,         \* history: a length byte was changed, or a byte was lost
    buffer,             \* self._buffer
    delivered,          \* history: the numbers of the frames returned
    magic_cut           \* history: a buffer ending in half a MAGIC was emptied

serialVars == <<sent, wire, noise, hit, misaligned, buffer, delivered, magic_cut>>

MagicAt(b) == {i \in 1 .. Len(b) - 1 : b[i] = A /\ b[i + 1] = R}

Result(frame, rest, again, cut) ==
    [frame |-> frame, rest |-> rest, again |-> again, cut |-> cut]

(* Plausible bug: the frame stays in the buffer.                           *)
CutFrameKeeps(b) ==
    LET start == SubSeq(b, Min(MagicAt(b)), Len(b))
        size == HeaderSize + start[3] + CrcSize
    IN  IF Len(start) < HeaderSize \/ Len(start) < size
        THEN Result({}, start, FALSE, FALSE)
        ELSE Result(Decode(SubSeq(start, 1, size)), start, FALSE, FALSE)

(* Plausible bug: an incomplete frame is dropped with the noise before it. *)
CutFrameImpatient(b) ==
    LET start == SubSeq(b, Min(MagicAt(b)), Len(b))
        size == HeaderSize + start[3] + CrcSize
        frame == Decode(SubSeq(start, 1, size))
    IN  IF Len(start) < HeaderSize \/ Len(start) < size
        THEN Result({}, << >>, FALSE, FALSE)
        ELSE Result(frame, SubSeq(start, size + 1, Len(start)), frame = {}, FALSE)

(* The first frame from the first MAGIC on, of the size its header claims: *)
(* it waits for the rest of the frame, and a frame that does not decode is *)
(* dropped in its whole claimed size.                                      *)
CutFrame(b) ==
    LET start == SubSeq(b, Min(MagicAt(b)), Len(b))
        size == HeaderSize + start[3] + CrcSize
        frame == Decode(SubSeq(start, 1, size))
    IN  IF Len(start) < HeaderSize \/ Len(start) < size
        THEN Result({}, start, FALSE, FALSE)
        ELSE Result(frame, SubSeq(start, size + 1, Len(start)), frame = {}, FALSE)

(* One turn of the loop: a buffer without MAGIC is emptied, even when its  *)
(* last byte is the first half of one.                                     *)
Turn(b) ==
    IF MagicAt(b) = {} THEN Result({}, << >>, FALSE, b # << >> /\ Last(b) = A)
    ELSE CutFrame(b)

(* _pop_frame_from_buffer. *)
PopFrame(b) ==
    LET pop[c \in Seq(Bytes)] == IF Turn(c).again THEN pop[Turn(c).rest] ELSE Turn(c)
    IN  pop[b]

SerialInit ==
    /\ sent = 0
    /\ wire = << >>
    /\ noise = 0
    /\ hit = {}
    /\ misaligned = FALSE
    /\ buffer = << >>
    /\ delivered = << >>
    /\ magic_cut = FALSE

McuSends ==
    /\ sent < MaxSent
    /\ sent' = sent + 1
    /\ wire' = wire \o Encode(sent + 1)
    /\ UNCHANGED <<noise, hit, misaligned, buffer, delivered, magic_cut>>

(* The k-th byte from the end of the wire is changed or lost; before the   *)
(* first damage the end of the wire tells which byte of which frame it is. *)
Damage(k) ==
    /\ noise < MaxNoise /\ k < Len(wire)
    /\ noise' = noise + 1
    /\ LET at == Len(wire) - k IN
       \/ /\ \E v \in Bytes \ {wire[at]} : wire' = [wire EXCEPT ![at] = v]
          /\ misaligned' = (k % 5 = 2)
       \/ /\ wire' = RemoveAt(wire, at)
          /\ misaligned' = TRUE
    /\ hit' = {sent - k \div 5}
    /\ UNCHANGED <<sent, buffer, delivered, magic_cut>>

(* SerialTransport.read_frame: what the OS holds, n bytes of the wire, is  *)
(* appended, then one frame is cut out.                                    *)
ReadFrame(n) ==
    LET result == PopFrame(buffer \o SubSeq(wire, 1, n)) IN
    /\ wire' = SubSeq(wire, n + 1, Len(wire))
    /\ buffer' = result.rest
    /\ delivered' = delivered \o SetToSeq(result.frame)
    /\ magic_cut' = (magic_cut \/ result.cut)
    /\ UNCHANGED <<sent, noise, hit, misaligned>>

SerialNext ==
    \/ McuSends
    \/ \E k \in 0 .. 5 * MaxSent - 1 : Damage(k)
    \/ \E n \in 0 .. Len(wire) : ReadFrame(n)

SerialSpec == SerialInit /\ [][SerialNext]_serialVars
-----------------------------------------------------------------------------
(* Properties.                                                             *)

(* Types, and frames come out in the order in which they went in, none of  *)
(* them twice and none that was not sent.                                  *)
InOrder ==
    /\ wire \in Seq(Bytes) /\ buffer \in Seq(Bytes)
    /\ \A i \in 1 .. Len(delivered) : delivered[i] \in 1 .. sent
    /\ \A i \in 1 .. Len(delivered) - 1 : delivered[i] < delivered[i + 1]

(* On an undamaged line no frame is lost, however the bytes are cut into   *)
(* chunks, as long as no chunk ends between the two bytes of a MAGIC with  *)
(* nothing else in the buffer: the rest of the stream is always exactly    *)
(* the frames that are still to come.                                      *)
CleanLineLossless ==
    noise = 0 /\ ~magic_cut
        => buffer \o wire = Stream(Len(delivered) + 1, sent)

(* A changed byte outside the length costs the frame it is in and nothing  *)
(* else: all the others are delivered by the time the stream is read.      *)
(* (A lost byte, a changed length or half a MAGIC inside a frame may cost  *)
(* the frames behind it too.)                                              *)
HalfMagicInside(i) == Payload[i] = A \/ Crc[i] \in {A, R}

DamageStaysLocal ==
    /\ ~magic_cut /\ ~misaligned /\ wire = << >> /\ buffer = << >>
    /\ \A i \in 1 .. sent : ~HalfMagicInside(i)
    => ToSet(delivered) = 1 .. sent \ hit

(* What the parser owes the bridge, whatever the line and the scheduler do *)
(* to the bytes.                                                           *)
FramesSurvive == InOrder /\ CleanLineLossless /\ DamageStaysLocal
=============================================================================
