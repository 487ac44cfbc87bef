---------- MODULE FrameSync ----------
(***************************************************************************)
(* The receive thread of the FPGA's serial port (uart_client.c,            *)
(* uart_recv_thread).  Two kinds of frames share one byte stream:          *)
(*    status     EB 90, length (2 bytes), data, 55 55                      *)
(*    telemetry  EB 93, source (1), length (1), data, 55 55                *)
(* read() cuts the stream anywhere, noise gets in between, and the thread  *)
(* must find the frames again.  Bytes are numbers; a stream is a sequence  *)
(* of segments the wire carries, so that it is known which bytes the FPGA  *)
(* meant as frames.                                                        *)
(***************************************************************************)
EXTENDS Naturals, Sequences, SequencesExt, FiniteSetsExt

CONSTANTS
    BUF_SIZE,          \* sizeof(frame_buffer)
    READ_SIZE,         \* sizeof(buffer), the most one read() returns
    STATUS_LEN,        \* length field of a status frame
    PayloadLen,        \* fpga_telemetry_payload_len: source -> length, 0 if unknown
    Wires              \* sequences of segments [bytes, frame: is it a frame?, claims:
                       \* does it hold a header that is none?]

HDR    == 235          \* first byte of both headers
STATUS == 144
TELLOG == 147
TAIL   == 85
FPGA_MIN_FRAME_SIZE == 6

(* The bytes of a line.                                                     *)
StreamOf(line) == FlattenSeq([k \in DOMAIN line |-> line[k].bytes])

ASSUME FrameAssumption ==
    /\ BUF_SIZE \in Nat /\ READ_SIZE \in 1..BUF_SIZE /\ STATUS_LEN \in Nat
    /\ PayloadLen \in [0..255 -> 0..255]
    /\ \A line \in Wires : StreamOf(line) \in Seq(0..255)

VARIABLES
    wire,              \* what the FPGA and the noise put on the line
    pos,               \* number of bytes read() has returned so far
    frame_buffer,      \* its first frame_offset bytes
    delivered,         \* frames handed to the callbacks, with the callback
    base, before       \* history: where the buffer was last reset, and how many
                       \* frames had been delivered by then

syncVars == <<wire, pos, frame_buffer, delivered, base, before>>

stream == StreamOf(wire)

SyncInit ==
    /\ wire \in Wires
    /\ pos = 0 /\ frame_buffer = <<>> /\ delivered = <<>> /\ base = 0 /\ before = 0

--------------------
HeaderAt(b, i) == i < Len(b) /\ b[i] = HDR /\ b[i + 1] \in {STATUS, TELLOG}

(* The length a header claims, once its fourth byte is there; 0 when source  *)
(* and length of a telemetry frame do not agree.                            *)
ClaimAt(b, i) ==
    IF b[i + 1] = STATUS
    THEN 6 + b[i + 2] * 256 + b[i + 3]
    ELSE IF PayloadLen[b[i + 2]] # 0 /\ b[i + 3] = PayloadLen[b[i + 2]]
         THEN 6 + b[i + 3] ELSE 0

Plausible(n) == n >= FPGA_MIN_FRAME_SIZE /\ n <= BUF_SIZE

TailAt(b, i, n) == b[i + n - 2] = TAIL /\ b[i + n - 1] = TAIL

(* Which callback gets the frame.                                           *)
Callback(f) ==
    IF f[2] = TELLOG THEN "on_telemetry_log_frame"
    ELSE IF Len(f) = STATUS_LEN + 6 THEN "on_status_received" ELSE "on_data_received"

Deliver(b, i, n) ==
    LET f == SubSeq(b, i, i + n - 1) IN <<[to |-> Callback(f), frame |-> f]>>

(* Slip of KeepFrom: the buffer is dropped whole when it holds no header.    *)
KeepFromNothing(b) == Len(b) + 1

(* No header: drop everything but a trailing byte that may be half a header. *)
KeepFrom(b) == IF Last(b) = HDR THEN Len(b) ELSE Len(b) + 1

(* Slip of Advance: a frame with a wrong tail is dropped whole.             *)
AdvanceWhole(b, i, n) == i + n

(* The inner loop resynchronises byte by byte after a frame with a wrong    *)
(* tail and steps over a good one.                                          *)
Advance(b, i, n) == IF TailAt(b, i, n) THEN i + n ELSE i + 1

(* The inner loop from byte p on: what it delivers, and the first byte that *)
(* it leaves in the buffer; scan is what it does from later bytes on.       *)
ScanFrom(b, scan, p) ==
    LET heads == {i \in p .. Len(b) : HeaderAt(b, i)}
        i     == Min(heads)
        n     == ClaimAt(b, i)
        stop(k)      == [out |-> <<>>, keep |-> k]
        then(out, q) == [out |-> out \o scan[q].out, keep |-> scan[q].keep]
    IN  IF p > Len(b) THEN stop(p)
        ELSE IF heads = {} THEN stop(KeepFrom(b))
        ELSE IF Len(b) - i + 1 < 4 THEN stop(i)
        ELSE IF ~Plausible(n) THEN then(<<>>, i + 1)
        ELSE IF Len(b) - i + 1 < n THEN stop(i)
        ELSE then(IF TailAt(b, i, n) THEN Deliver(b, i, n) ELSE <<>>, Advance(b, i, n))

Scan(b) == LET scan[p \in 1 .. Len(b) + 1] == ScanFrom(b, scan, p) IN scan[1]

(* The new bytes fit behind the ones that are still waiting.                *)
Room(chunk) == Len(frame_buffer) + Len(chunk) <= BUF_SIZE

(* One read(): append (after a reset when the buffer would overflow), find  *)
(* all frames, move what is left to the front.                              *)
Read ==
    \E n \in 1..READ_SIZE :
        LET chunk == SubSeq(stream, pos + 1, pos + n)
            b     == IF Room(chunk) THEN frame_buffer \o chunk ELSE chunk
            s     == Scan(b)
        IN  /\ pos + n <= Len(stream)
            /\ pos' = pos + n
            /\ frame_buffer' = SubSeq(b, s.keep, Len(b))
            /\ delivered' = delivered \o s.out
            /\ IF Room(chunk) THEN UNCHANGED <<base, before>>
                              ELSE base' = pos /\ before' = Len(delivered)
            /\ UNCHANGED wire

SyncNext == Read
SyncSpec == SyncInit /\ [][SyncNext]_syncVars

--------------------
(* Reference: the frames of a stream that lies in memory as a whole.        *)
(* Position by position: a position starts a frame when it is not inside    *)
(* an earlier one and a complete frame starts there; a plausible claim that *)
(* is not yet complete stops the search.                                    *)
FrameAt(s, i) ==
    /\ i + 3 <= Len(s) /\ HeaderAt(s, i) /\ Plausible(ClaimAt(s, i))
    /\ i + ClaimAt(s, i) - 1 <= Len(s) /\ TailAt(s, i, ClaimAt(s, i))

PendingAt(s, i) ==
    /\ HeaderAt(s, i)
    /\ \/ i + 3 > Len(s)
       \/ Plausible(ClaimAt(s, i)) /\ i + ClaimAt(s, i) - 1 > Len(s)

FramesFrom(s, from, i) ==
    IF i > Len(s) \/ PendingAt(s, i) THEN <<>>
    ELSE IF FrameAt(s, i) THEN Deliver(s, i, ClaimAt(s, i)) \o from[i + ClaimAt(s, i)]
    ELSE from[i + 1]

FramesOf(s) == LET from[i \in 1 .. Len(s) + 1] == FramesFrom(s, from, i) IN from[1]

(* Where read() cuts the stream makes no difference: since the last reset   *)
(* of the buffer the callbacks got exactly the frames of the bytes read     *)
(* since then (half headers kept, one byte dropped at a time).              *)
ChunksDoNotMatter ==
    SubSeq(delivered, before + 1, Len(delivered)) = FramesOf(SubSeq(stream, base + 1, pos))

(* A line without false headers loses nothing: every frame the FPGA sent    *)
(* reaches its callback, whatever noise lies between the frames.            *)
GenuineFramesArrive ==
    pos = Len(stream) /\ (\A k \in DOMAIN wire : ~wire[k].claims) =>
        [k \in DOMAIN delivered |-> delivered[k].frame] =
            [k \in 1 .. Len(SelectSeq(wire, LAMBDA g : g.frame)) |->
                SelectSeq(wire, LAMBDA g : g.frame)[k].bytes]

====================
