---------- MODULE RingBuffer ----------
(***************************************************************************)
(* The ring buffer of the RS-422 port (rBuf.c): an array of N bytes with   *)
(* an index for the next byte in and one for the next byte out.  One place *)
(* always stays free, so that equal indices mean an empty ring.            *)
(***************************************************************************)
EXTENDS Integers, Sequences

CONSTANTS
    Byte,
    N               \* pRbuf->len

ASSUME RingAssumption == N \in Nat \ {0} /\ 0 \in Byte

VARIABLES
    buf, inIndex, outIndex,
    put_len,        \* what the last rBufPut returned
    rd_buf          \* the caller's buffer, from which rBufPut copies

ringVars == <<buf, inIndex, outIndex, put_len>>

RingTypeOK ==
    /\ buf \in [0 .. N - 1 -> Byte]
    /\ inIndex \in 0 .. N - 1
    /\ outIndex \in 0 .. N - 1
    /\ put_len \in 0 .. N - 1
    /\ rd_buf \in Seq(Byte)

(* uart_recv_context_init: memset and rBufInit                              *)
RingInit ==
    /\ buf = [k \in 0 .. N - 1 |-> 0] /\ inIndex = 0 /\ outIndex = 0
    /\ put_len = 0 /\ rd_buf = <<>>

rBufNBytes == IF inIndex >= outIndex THEN inIndex - outIndex ELSE inIndex - outIndex + N

(* rBufGet: the byte i places behind the outlet, and all of them.           *)
ByteAt(i) == buf[IF outIndex + i - 1 >= N THEN outIndex + i - 1 - N ELSE outIndex + i - 1]
rBufGet   == [i \in 1..rBufNBytes |-> ByteAt(i)]

least(a, b) == IF a <= b THEN a ELSE b

--------------------
(* rBufPut copies from the inlet on, at most up to the outlet or the end    *)
(* of the array, and in the unwrapped case goes on at the front.            *)
MayWrap == outIndex <= inIndex /\ outIndex # 0

PutFirst(len) ==
    IF outIndex > inIndex THEN least(len, outIndex - inIndex - 1)
    ELSE IF outIndex = 0 THEN least(len, N - inIndex - 1)
    ELSE least(len, N - inIndex)

(* Slip of PutRest: no place is left free behind the bytes that wrapped.    *)
PutRestFilling(len) ==
    IF MayWrap /\ PutFirst(len) < len THEN least(len - PutFirst(len), outIndex) ELSE 0

PutRest(len) ==
    IF MayWrap /\ PutFirst(len) < len THEN least(len - PutFirst(len), outIndex - 1) ELSE 0

(* The length rBufPut returns.                                              *)
PutLen(len) == PutFirst(len) + PutRest(len)

rBufPut(s) ==
    LET first == PutFirst(Len(s))
        rest  == PutRest(Len(s))
    IN  /\ buf' = [k \in 0 .. N - 1 |->
                    IF inIndex <= k /\ k < inIndex + first THEN s[k - inIndex + 1]
                    ELSE IF k < rest THEN s[first + k + 1]
                    ELSE buf[k]]
        /\ inIndex' = IF MayWrap /\ first < Len(s) THEN rest
                      ELSE IF inIndex + first = N THEN 0
                      ELSE inIndex + first
        /\ put_len' = first + rest
        /\ UNCHANGED outIndex

rBufRemove(len) ==
    LET added == outIndex + least(len, rBufNBytes) IN
    /\ outIndex' = IF added >= N THEN added - N ELSE added
    /\ UNCHANGED <<buf, inIndex, put_len>>

rBufClear == inIndex' = 0 /\ outIndex' = 0 /\ UNCHANGED <<buf, put_len>>

RingNext ==
    \/ rd_buf' \in Seq(Byte) /\ UNCHANGED ringVars
    \/ rBufPut(rd_buf) /\ UNCHANGED rd_buf
    \/ (\E len \in Nat : rBufRemove(len)) /\ UNCHANGED rd_buf
    \/ rBufClear /\ UNCHANGED rd_buf

RingSpec == RingInit /\ [][RingNext]_<<ringVars, rd_buf>>

--------------------
Fifo == INSTANCE BoundedFifo
            WITH Capacity <- N - 1, count <- rBufNBytes, items <- rBufGet,
                 offer <- rd_buf, taken <- put_len

(* The ring is a bounded queue: wrapping, the one free place and the two    *)
(* copy loops never lose, repeat or reorder a byte, and rBufPut tells its   *)
(* caller how many bytes it took.                                           *)
RingIsFifo == Fifo!FifoSpec
====================
