---------- MODULE Rs422Rx ----------
(***************************************************************************)
(* Receiving on the RS-422 port of the FPGA loader (uart_rs422_client.c,   *)
(* pkfinder.c, on the ring of rBuf.c).  A command is answered by one frame *)
(*    1A CF, length, data, checksum                                        *)
(* read() returns whatever the driver holds, the bytes go into the ring,   *)
(* pkfinderParse looks for frames in it.  The length field has one byte    *)
(* here; PkLenPos and PkLenAdd are the parser's parameters.                *)
(***************************************************************************)
EXTENDS RingBuffer, SequencesExt, FiniteSetsExt

CONSTANTS
    READ_SIZE,          \* sizeof(rd_buf)
    RECV_SIZE,          \* sizeof(received_frame)
    FRAME_BUF_SIZE,     \* size of the caller's buffer
    MIN_SIZE,           \* RS422_HEADER_SIZE + RS422_CHECKSUM_SIZE
    PkLenPos, PkLenAdd,
    Checksum(_),        \* rs422_checksum of the bytes behind the header
    Replies,            \* what the FPGA may send: sequences of segments
                        \* [bytes, frame: is it a valid frame?, claims: is it a
                        \* header that claims more than will come?]
    MaxCalls            \* bound on the number of calls

HEAD == <<26, 207>>

VARIABLES
    wire, kernel,       \* bytes on the line, bytes in the driver
    pc,                 \* where the caller is
    received,           \* the frame handed to the caller, <<>> if none
    ret,                \* what the last call returned
    calls,
    since, reply        \* history: bytes put into the ring since the last discard, and
                        \* the reply to the last command, <<>> if other bytes are about

rxVars == <<wire, kernel, pc, received, ret, calls, since, reply>>
vars   == <<ringVars, rd_buf, rxVars>>

Bytes(segments) == FlattenSeq([k \in DOMAIN segments |-> segments[k].bytes])

ASSUME RxAssumption ==
    /\ Byte \subseteq Nat
    /\ READ_SIZE \in Nat \ {0} /\ MIN_SIZE \in Nat /\ MIN_SIZE > Len(HEAD)
    /\ PkLenPos \in Nat /\ PkLenAdd \in Nat \ {0}
    /\ \A r \in Replies : Bytes(r) \in Seq(Byte)

Init ==
    /\ RingInit
    /\ wire = <<>> /\ kernel = <<>> /\ pc = "idle"
    /\ received = <<>> /\ ret = "none" /\ calls = 0 /\ since = <<>> /\ reply = <<>>

--------------------
(* Slip of Discard: only the driver's buffer is flushed.                    *)
DiscardDriverOnly == kernel' = <<>> /\ since' = <<>> /\ UNCHANGED ringVars

(* uart_rs422_discard_pending: what the driver and the ring still hold goes. *)
Discard == kernel' = <<>> /\ since' = <<>> /\ rBufClear

(* uart_rs422_send_and_wait: discard, send the command, wait for the reply. *)
SendAndWait ==
    /\ pc = "idle" /\ calls < MaxCalls
    /\ Discard
    /\ \E r \in Replies :
        /\ wire' = wire \o Bytes(r)
        /\ reply' = IF wire = <<>> THEN r ELSE <<>>
    /\ pc' = "recv" /\ received' = <<>> /\ calls' = calls + 1
    /\ UNCHANGED <<rd_buf, ret>>

(* uart_rs422_recv_frame by itself, which the interface offers as well.     *)
RecvAgain ==
    /\ pc = "idle" /\ calls < MaxCalls
    /\ pc' = "recv" /\ received' = <<>> /\ calls' = calls + 1 /\ reply' = <<>>
    /\ UNCHANGED <<ringVars, wire, kernel, rd_buf, ret, since>>

(* The command could not be sent.                                           *)
SendFails ==
    /\ pc = "idle" /\ calls < MaxCalls
    /\ Discard
    /\ received' = <<>> /\ calls' = calls + 1 /\ reply' = <<>> /\ ret' = "ERROR_GENERAL"
    /\ UNCHANGED <<wire, pc, rd_buf>>

(* The line delivers bytes to the driver.  What arrives between a read and  *)
(* the return of the call is seen no earlier than what arrives after it.    *)
Arrive ==
    /\ pc \in {"idle", "recv"}
    /\ \E n \in 1 .. Len(wire) :
        /\ kernel' = kernel \o SubSeq(wire, 1, n)
        /\ wire' = SubSeq(wire, n + 1, Len(wire))
    /\ UNCHANGED <<ringVars, rd_buf, pc, received, ret, calls, since, reply>>

(* Nothing comes until the timeout, or select() or read() fails.            *)
RecvFails ==
    /\ pc = "recv"
    /\ pc' = "idle" /\ ret' \in {"ERROR_TIMEOUT", "ERROR_GENERAL"}
    /\ UNCHANGED <<ringVars, wire, kernel, rd_buf, received, calls, since, reply>>

(* read() returns what the driver holds.                                    *)
Read ==
    /\ pc = "recv" /\ kernel # <<>>
    /\ LET n == least(READ_SIZE, Len(kernel)) IN
        /\ rd_buf' = SubSeq(kernel, 1, n)
        /\ kernel' = SubSeq(kernel, n + 1, Len(kernel))
    /\ pc' = "put"
    /\ UNCHANGED <<ringVars, wire, received, ret, calls, since, reply>>

(* What does not fit into the ring is dropped; a full ring is cleared and   *)
(* filled again.                                                            *)
PutRead == rBufPut(rd_buf) /\ since' = since \o SubSeq(rd_buf, 1, put_len')

Put ==
    /\ pc = "put" /\ PutRead
    /\ pc' = IF put_len' = 0 THEN "clear" ELSE "parse"
    /\ UNCHANGED <<wire, kernel, rd_buf, received, ret, calls, reply>>

ClearFull ==
    /\ pc = "clear" /\ rBufClear
    /\ pc' = "put_again"
    /\ UNCHANGED <<wire, kernel, rd_buf, received, ret, calls, since, reply>>

PutAgain ==
    /\ pc = "put_again" /\ PutRead
    /\ pc' = "parse"
    /\ UNCHANGED <<wire, kernel, rd_buf, received, ret, calls, reply>>

--------------------
HeadAt(b, i) == SubSeq(b, i, i + 1) = HEAD

(* rs422_frame_check_and_process                                            *)
CheckFrame(f) ==
    /\ Len(f) >= MIN_SIZE /\ Len(f) <= RECV_SIZE
    /\ Last(f) = Checksum(SubSeq(f, 3, Len(f) - 1))

(* Slip of AfterFrame: the claimed length is believed although the check    *)
(* failed.                                                                  *)
AfterFrameWhole(i, n, good) == i + n

(* Where the search goes on behind a complete frame: after it, or, when the *)
(* check failed, after its header.                                          *)
AfterFrame(i, n, good) == IF good THEN i + n ELSE i + 2

(* One round of the loop of pkfinderParse on the bytes b of the ring, from  *)
(* the byte p on; parse is what the rounds from later bytes on give.        *)
ParseFrom(b, parse, p) ==
    LET heads == {k \in p .. Len(b) - 1 : HeadAt(b, k)}
        i     == Min(heads)
        n     == b[i + PkLenPos] + PkLenAdd
        good  == CheckFrame(SubSeq(b, i, i + n - 1))
        rest  == parse[AfterFrame(i, n, good)]
        stop(k) == [frame |-> <<>>, remove |-> k]
    IN  IF Len(b) - p + 1 < 2 THEN stop(p - 1)
        ELSE IF heads = {} THEN stop(Len(b) - 2)
        ELSE IF i + PkLenPos > Len(b) THEN stop(i - 1)
        ELSE IF i + n - 1 > Len(b) THEN stop(IF n > N THEN i + 1 ELSE i - 1)
        ELSE [frame  |-> IF good /\ rest.frame = <<>> THEN SubSeq(b, i, i + n - 1) ELSE rest.frame,
              remove |-> rest.remove]

(* pkfinderParse: the last frame it found, and how many bytes it removes.   *)
Parse(b) == LET parse[p \in 1 .. Len(b) + 1] == ParseFrom(b, parse, p) IN parse[1]

(* The parser runs once over the ring.  Its status is OK only if it found a *)
(* frame; otherwise the call returns, it does not read on.                  *)
ParseRing ==
    /\ pc = "parse"
    /\ LET p == Parse(rBufGet) IN
        /\ rBufRemove(p.remove)
        /\ IF p.frame # <<>> /\ Len(p.frame) <= FRAME_BUF_SIZE
           THEN received' = p.frame /\ ret' = "SUCCESS"
           ELSE UNCHANGED received /\ ret' = "ERROR_GENERAL"
    /\ pc' = "idle"
    /\ UNCHANGED <<wire, kernel, rd_buf, calls, since, reply>>

Next ==
    \/ SendAndWait \/ SendFails \/ RecvAgain \/ Arrive \/ RecvFails
    \/ Read \/ Put \/ ClearFull \/ PutAgain \/ ParseRing

Spec == Init /\ [][Next]_vars

--------------------
HasPiece(s, t) == \E k \in 0 .. Len(s) - Len(t) : SubSeq(s, k + 1, k + Len(t)) = t

(* Whatever the wire carries and however read() cuts it, a frame handed to  *)
(* the caller passed the check and is a piece of what went into the ring    *)
(* after the last discard: the remains of an earlier exchange are never     *)
(* answers.                                                                 *)
ReturnedIsFresh ==
    received # <<>> =>
        /\ HeadAt(received, 1) /\ Last(received) = Checksum(SubSeq(received, 3, Len(received) - 1))
        /\ HasPiece(since, received)

(* A reply that the driver holds completely when it is read, with           *)
(* nothing else on the line and no header that claims more than comes, is   *)
(* handed over even behind a truncated frame; of two frames the last one.   *)
CleanReplyIsTaken ==
    LET frames == SelectSeq(reply, LAMBDA g : g.frame) IN
    /\ pc = "idle" /\ frames # <<>> /\ rd_buf = Bytes(reply) /\ since = rd_buf
    /\ ~\E k \in DOMAIN reply : reply[k].claims
    /\ Len(Last(frames).bytes) <= FRAME_BUF_SIZE
    => ret = "SUCCESS" /\ received = Last(frames).bytes

(* pkfinder.h: "OK代表正常执行,ERROR代表有严重错误", and recv_frame goes on    *)
(* when no header was found or the frame is incomplete: an unfinished reply *)
(* is no reason to end the call.                                            *)
UnfinishedReplyGoesOn ==
    [][pc = "parse" /\ reply # <<>> /\ IsStrictPrefix(since, Bytes(reply))
        /\ (\E k \in DOMAIN reply : reply[k].frame) /\ Parse(rBufGet).frame = <<>> => pc' = "recv"]_vars
====================
