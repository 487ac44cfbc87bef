---------- MODULE Rs422RxProofs ----------
(***************************************************************************)
(* The ring buffer implements the bounded queue, for every size of the     *)
(* ring, every set of bytes and chunks of every length; and on it the port *)
(* hands over only frames that passed the check and arrived after the last *)
(* discard, whatever the line carries. On the same port the firmware       *)
(* injector sends each packet from its place in the file, leaves the whole *)
(* file in the FPGA and is gone before its mutexes are.                    *)
(***************************************************************************)
EXTENDS Rs422Rx, FirmwareInjector, WellFoundedInduction, TLAPS

(* Every byte in the ring has a place in the array, and the ring never      *)
(* holds more than N - 1 bytes.                                             *)
LEMMA CountBounds ==
    ASSUME RingTypeOK
    PROVE  /\ rBufNBytes \in Nat
           /\ rBufNBytes <= N - 1
           /\ rBufNBytes = 0 <=> inIndex = outIndex
BY RingAssumption DEF RingTypeOK, rBufNBytes

(* rBufPut takes as many bytes as there are free places.                    *)
LEMMA PutLenLemma ==
    ASSUME RingTypeOK, NEW len \in Nat
    PROVE  /\ PutFirst(len) \in Nat
           /\ PutRest(len) \in Nat
           /\ PutLen(len) = least(len, N - 1 - rBufNBytes)
           /\ PutFirst(len) + PutRest(len) <= len
           /\ inIndex + PutFirst(len) <= N
           /\ PutRest(len) > 0 => PutRest(len) < outIndex /\ outIndex <= inIndex
           /\ MayWrap /\ PutFirst(len) < len => inIndex + PutFirst(len) = N
           /\ ~MayWrap => inIndex + PutFirst(len) < N
BY RingAssumption
DEF RingTypeOK, rBufNBytes, PutFirst, PutRest, PutLen, MayWrap, least

(* The types of the ring are preserved by every operation.                  *)
LEMMA RingTypeStep ==
    ASSUME RingTypeOK, [RingNext]_<<ringVars, rd_buf>>
    PROVE  RingTypeOK'
<1>1. ASSUME NEW s \in Seq(Byte), rBufPut(s), rd_buf' = rd_buf
      PROVE  RingTypeOK'
  <2>1. s \in Seq(Byte) /\ Len(s) \in Nat
    BY <1>1, RingAssumption
  <2>2. /\ PutFirst(Len(s)) \in Nat /\ PutRest(Len(s)) \in Nat
        /\ inIndex + PutFirst(Len(s)) <= N
        /\ PutRest(Len(s)) > 0 => PutRest(Len(s)) < outIndex
        /\ PutFirst(Len(s)) + PutRest(Len(s)) <= Len(s)
        /\ PutLen(Len(s)) = least(Len(s), N - 1 - rBufNBytes)
    BY <2>1, PutLenLemma
  <2>3. buf' \in [0 .. N - 1 -> Byte]
    <3>1. ASSUME NEW k \in 0 .. N - 1
          PROVE  (IF inIndex <= k /\ k < inIndex + PutFirst(Len(s)) THEN s[k - inIndex + 1]
                  ELSE IF k < PutRest(Len(s)) THEN s[PutFirst(Len(s)) + k + 1]
                  ELSE buf[k]) \in Byte
      BY <2>1, <2>2, <3>1, RingAssumption DEF RingTypeOK
    <3>2. QED
      BY <1>1, <3>1 DEF rBufPut
  <2>4. inIndex' \in 0 .. N - 1 /\ outIndex' \in 0 .. N - 1
    <3>1. outIndex' = outIndex
      BY <1>1 DEF rBufPut
    <3>2. MayWrap /\ PutFirst(Len(s)) < Len(s) => PutRest(Len(s)) \in 0 .. N - 1
      BY <2>2, RingAssumption DEF RingTypeOK
    <3>3. inIndex' = IF MayWrap /\ PutFirst(Len(s)) < Len(s) THEN PutRest(Len(s))
                     ELSE IF inIndex + PutFirst(Len(s)) = N THEN 0
                     ELSE inIndex + PutFirst(Len(s))
      BY <1>1 DEF rBufPut
    <3>4. CASE MayWrap /\ PutFirst(Len(s)) < Len(s)
      BY <3>1, <3>2, <3>3, <3>4 DEF RingTypeOK
    <3>5. CASE ~(MayWrap /\ PutFirst(Len(s)) < Len(s))
      <4>1. inIndex' = IF inIndex + PutFirst(Len(s)) = N THEN 0 ELSE inIndex + PutFirst(Len(s))
        BY <3>3, <3>5
      <4>2. QED
        BY <2>2, <3>1, <4>1, RingAssumption DEF RingTypeOK
    <3>6. QED
      BY <3>4, <3>5
  <2>5. rd_buf' \in Seq(Byte)
    BY <1>1 DEF RingTypeOK
  <2>6. put_len' \in 0 .. N - 1
    <3>1. put_len' = PutLen(Len(s))
      BY <1>1 DEF rBufPut, PutLen
    <3>2. QED
      BY <2>1, <2>2, <3>1, CountBounds, RingAssumption DEF least
  <2>7. QED
    BY <2>3, <2>4, <2>5, <2>6 DEF RingTypeOK
<1>2. ASSUME NEW len \in Nat, rBufRemove(len), rd_buf' = rd_buf
      PROVE  RingTypeOK'
  BY <1>2, CountBounds, RingAssumption DEF RingTypeOK, rBufRemove, rBufNBytes, least
<1>3. ASSUME rBufClear, rd_buf' = rd_buf
      PROVE  RingTypeOK'
  BY <1>3, RingAssumption DEF RingTypeOK, rBufClear
<1>4. ASSUME rd_buf' \in Seq(Byte), UNCHANGED ringVars
      PROVE  RingTypeOK'
  BY <1>4 DEF RingTypeOK, ringVars
<1>5. rd_buf \in Seq(Byte)
  BY DEF RingTypeOK
<1>6. QED
  BY <1>1, <1>2, <1>3, <1>4, <1>5 DEF RingNext

(* The indices of the ring (rBuf.c) always lie inside the array.            *)
THEOREM RingTypeTheorem == RingSpec => []RingTypeOK
<1>1. RingInit => RingTypeOK
  BY RingAssumption DEF RingInit, RingTypeOK
<1>2. QED
  BY <1>1, RingTypeStep, PTL DEF RingSpec

--------------------
(* Where the inlet goes when len bytes of a chunk are offered.              *)
LEMMA PutIndex ==
    ASSUME RingTypeOK, NEW s \in Seq(Byte), rBufPut(s)
    PROVE  /\ outIndex' = outIndex
           /\ rBufNBytes' = rBufNBytes + PutLen(Len(s))
<1>1. Len(s) \in Nat
  OBVIOUS
<1>2. /\ outIndex' = outIndex
      /\ inIndex' = IF MayWrap /\ PutFirst(Len(s)) < Len(s) THEN PutRest(Len(s))
                    ELSE IF inIndex + PutFirst(Len(s)) = N THEN 0
                    ELSE inIndex + PutFirst(Len(s))
  BY DEF rBufPut
<1>3. inIndex \in 0 .. N - 1 /\ outIndex \in 0 .. N - 1
  BY DEF RingTypeOK
<1>4. ASSUME NEW len \in Nat,
             inIndex' = IF MayWrap /\ PutFirst(len) < len THEN PutRest(len)
                        ELSE IF inIndex + PutFirst(len) = N THEN 0
                        ELSE inIndex + PutFirst(len)
      PROVE  rBufNBytes' = rBufNBytes + PutLen(len)
  <2>1. CASE outIndex > inIndex
    BY <1>2, <1>3, <1>4, <2>1, RingAssumption
    DEF rBufNBytes, PutFirst, PutRest, PutLen, MayWrap, least
  <2>2. CASE outIndex <= inIndex /\ outIndex = 0
    BY <1>2, <1>3, <1>4, <2>2, RingAssumption
    DEF rBufNBytes, PutFirst, PutRest, PutLen, MayWrap, least
  <2>3. CASE outIndex <= inIndex /\ outIndex # 0
    BY <1>2, <1>3, <1>4, <2>3, RingAssumption
    DEF rBufNBytes, PutFirst, PutRest, PutLen, MayWrap, least
  <2>4. QED
    BY <1>3, <2>1, <2>2, <2>3, RingAssumption
<1>5. QED
  BY <1>1, <1>2, <1>4

(* The bytes that were in the ring stay, and the new ones follow them in    *)
(* the order of the chunk.                                                  *)
LEMMA PutBytes ==
    ASSUME RingTypeOK, NEW s \in Seq(Byte), rBufPut(s),
           NEW i \in 1 .. rBufNBytes + PutLen(Len(s))
    PROVE  ByteAt(i)' = IF i <= rBufNBytes THEN ByteAt(i) ELSE s[i - rBufNBytes]
<1> DEFINE place == IF outIndex + i - 1 >= N THEN outIndex + i - 1 - N ELSE outIndex + i - 1
           first == PutFirst(Len(s))
           rest  == PutRest(Len(s))
<1>1. Len(s) \in Nat
  BY RingAssumption
<1>2. /\ first \in Nat /\ rest \in Nat
      /\ first + rest = least(Len(s), N - 1 - rBufNBytes)
      /\ inIndex + first <= N
      /\ rest > 0 => rest < outIndex /\ outIndex <= inIndex
      /\ rest > 0 => inIndex + first = N
  <2>1. PutRest(Len(s)) > 0 => MayWrap /\ PutFirst(Len(s)) < Len(s)
    BY DEF PutRest
  <2>2. QED
    BY <1>1, <2>1, PutLenLemma DEF PutLen
<1>3. rBufNBytes \in Nat /\ rBufNBytes <= N - 1
  BY CountBounds
<1>4. i \in Nat /\ i >= 1 /\ i <= rBufNBytes + first + rest /\ rBufNBytes + first + rest <= N - 1
  BY <1>1, <1>2, <1>3, RingAssumption DEF PutLen, least
<1>5. place \in 0 .. N - 1
  <2>1. i \in 1 .. N - 1
    <3> HIDE DEF first, rest
    <3>1. QED
      BY <1>2, <1>3, <1>4, RingAssumption
  <2>2. QED
    BY <2>1, RingAssumption DEF RingTypeOK
<1>6. ByteAt(i)' = buf'[place]
  BY PutIndex DEF ByteAt
<1>7. buf'[place] = IF inIndex <= place /\ place < inIndex + first THEN s[place - inIndex + 1]
                    ELSE IF place < rest THEN s[first + place + 1]
                    ELSE buf[place]
  <2> HIDE DEF place
  <2>1. buf' = [k \in 0 .. N - 1 |->
                    IF inIndex <= k /\ k < inIndex + first THEN s[k - inIndex + 1]
                    ELSE IF k < rest THEN s[first + k + 1]
                    ELSE buf[k]]
    BY DEF rBufPut
  <2>2. QED
    BY <2>1, <1>5
<1>8. CASE i <= rBufNBytes
  <2>1. ~(inIndex <= place /\ place < inIndex + first) /\ ~(place < rest)
    <3> HIDE DEF first, rest
    <3>1. QED
      BY <1>2, <1>3, <1>4, <1>8, RingAssumption DEF rBufNBytes, RingTypeOK
  <2>2. ByteAt(i) = buf[place]
    BY DEF ByteAt
  <2>3. QED
    BY <1>6, <1>7, <1>8, <2>1, <2>2
<1>9. CASE ~(i <= rBufNBytes)
  <2>1. CASE i - rBufNBytes <= first
    <3>1. inIndex <= place /\ place < inIndex + first /\ place - inIndex + 1 = i - rBufNBytes
      <4> HIDE DEF first, rest
      <4>1. QED
        BY <1>2, <1>3, <1>4, <1>9, <2>1, RingAssumption DEF rBufNBytes, RingTypeOK
    <3>2. QED
      BY <1>6, <1>7, <1>9, <3>1
  <2>2. CASE ~(i - rBufNBytes <= first)
    <3>1. /\ ~(inIndex <= place /\ place < inIndex + first)
          /\ place < rest /\ first + place + 1 = i - rBufNBytes
      <4> HIDE DEF first, rest
      <4>1. QED
        BY <1>2, <1>3, <1>4, <1>9, <2>2, RingAssumption DEF rBufNBytes, RingTypeOK
    <3>2. QED
      BY <1>6, <1>7, <1>9, <3>1
  <2>3. QED
    BY <2>1, <2>2
<1>10. QED
  BY <1>8, <1>9

(* rBufPut is a put of the queue.                                           *)
LEMMA PutIsFifoPut ==
    ASSUME RingTypeOK, NEW s \in Seq(Byte), rBufPut(s)
    PROVE  Fifo!FifoPut(s)
<1>1. Len(s) \in Nat
  BY RingAssumption
<1>2. rBufNBytes' = rBufNBytes + Fifo!Lesser(Len(s), N - 1 - rBufNBytes)
  BY <1>1, PutIndex, PutLenLemma DEF Fifo!Lesser, least
<1>3. rBufNBytes' = rBufNBytes + PutLen(Len(s))
  BY PutIndex
<1>4. rBufGet' = [i \in 1 .. rBufNBytes + PutLen(Len(s)) |->
                    IF i <= rBufNBytes THEN rBufGet[i] ELSE s[i - rBufNBytes]]
  <2>1. rBufGet' = [i \in 1 .. rBufNBytes + PutLen(Len(s)) |-> ByteAt(i)']
    BY <1>3 DEF rBufGet
  <2>2. ASSUME NEW i \in 1 .. rBufNBytes + PutLen(Len(s))
        PROVE  ByteAt(i)' = IF i <= rBufNBytes THEN rBufGet[i] ELSE s[i - rBufNBytes]
    <3>1. i <= rBufNBytes => rBufGet[i] = ByteAt(i)
      BY <2>2, CountBounds DEF rBufGet
    <3>2. QED
      BY <2>2, <3>1, PutBytes
  <2>3. QED
    BY <2>1, <2>2
<1>5. put_len' = Fifo!Lesser(Len(s), N - 1 - rBufNBytes)
  <2>1. put_len' = PutLen(Len(s))
    BY DEF rBufPut, PutLen
  <2>2. QED
    BY <1>1, <2>1, PutLenLemma DEF Fifo!Lesser, least
<1>6. QED
  BY <1>2, <1>3, <1>4, <1>5 DEF Fifo!FifoPut

(* rBufRemove takes bytes from the outlet.                                  *)
LEMMA RemoveIsFifoRemove ==
    ASSUME RingTypeOK, NEW len \in Nat, rBufRemove(len)
    PROVE  \E k \in 0 .. rBufNBytes : Fifo!FifoRemove(k)
<1> DEFINE k == least(len, rBufNBytes)
<1>1. k \in 0 .. rBufNBytes /\ rBufNBytes \in Nat /\ rBufNBytes <= N - 1
  BY CountBounds DEF least
<1>2. /\ outIndex' = IF outIndex + k >= N THEN outIndex + k - N ELSE outIndex + k
      /\ inIndex' = inIndex /\ buf' = buf
  BY <1>1, RingAssumption DEF rBufRemove, RingTypeOK
<1> HIDE DEF k
<1>3. rBufNBytes' = rBufNBytes - k
  BY <1>1, <1>2, RingAssumption DEF rBufNBytes, RingTypeOK
<1>4. ASSUME NEW i \in 1 .. rBufNBytes - k
      PROVE  ByteAt(i)' = rBufGet[i + k]
  <2>1. i + k \in 1 .. rBufNBytes
    BY <1>1, <1>4
  <2>2. rBufGet[i + k] = ByteAt(i + k)
    BY <2>1 DEF rBufGet
  <2>3. ByteAt(i)' = ByteAt(i + k)
    BY <1>1, <1>2, <1>4, RingAssumption DEF ByteAt, RingTypeOK
  <2>4. QED
    BY <2>2, <2>3
<1>5. rBufGet' = [i \in 1 .. rBufNBytes - k |-> rBufGet[i + k]]
  <2>1. rBufGet' = [i \in 1 .. rBufNBytes - k |-> ByteAt(i)']
    BY <1>3 DEF rBufGet
  <2>2. QED
    BY <2>1, <1>4
<1>6. put_len' = put_len
  BY DEF rBufRemove
<1>7. QED
  BY <1>1, <1>3, <1>5, <1>6 DEF Fifo!FifoRemove

(* rBufClear removes everything.                                            *)
LEMMA ClearIsFifoRemove ==
    ASSUME RingTypeOK, rBufClear
    PROVE  \E k \in 0 .. rBufNBytes : Fifo!FifoRemove(k)
<1>1. rBufNBytes \in Nat
  BY CountBounds
<1>2. rBufNBytes' = 0
  BY RingAssumption DEF rBufClear, rBufNBytes
<1>3. rBufGet' = [i \in 1 .. rBufNBytes - rBufNBytes |-> rBufGet[i + rBufNBytes]]
  <2>1. 1 .. rBufNBytes' = {} /\ 1 .. rBufNBytes - rBufNBytes = {}
    BY <1>1, <1>2
  <2>2. QED
    BY <2>1 DEF rBufGet
<1>4. Fifo!FifoRemove(rBufNBytes)
  BY <1>1, <1>2, <1>3 DEF Fifo!FifoRemove, rBufClear
<1>5. QED
  BY <1>1, <1>4

(* The ring of rBuf.c implements the bounded queue, whatever its size and   *)
(* wherever its indices stand: no byte is lost, repeated or reordered.      *)
THEOREM RingIsFifoTheorem == RingSpec => RingIsFifo
<1>1. RingInit => Fifo!FifoInit
  <2>1. ASSUME RingInit PROVE rBufNBytes = 0
    BY <2>1 DEF RingInit, rBufNBytes
  <2>2. ASSUME RingInit PROVE rBufGet = [i \in 1..0 |-> 0]
    BY <2>1, <2>2 DEF rBufGet
  <2>3. QED
    BY <2>1, <2>2 DEF Fifo!FifoInit, RingInit
<1>2. RingTypeOK /\ [RingNext]_<<ringVars, rd_buf>> => [Fifo!FifoNext]_<<rBufNBytes, rBufGet, put_len>>
  <2>1. SUFFICES ASSUME RingTypeOK, [RingNext]_<<ringVars, rd_buf>>
                 PROVE  [Fifo!FifoNext]_<<rBufNBytes, rBufGet, put_len>>
    OBVIOUS
  <2>2. ASSUME rBufPut(rd_buf) PROVE Fifo!FifoNext
    <3>1. rd_buf \in Seq(Byte)
      BY <2>1 DEF RingTypeOK
    <3>2. QED
      BY <2>1, <2>2, <3>1, PutIsFifoPut DEF Fifo!FifoNext
  <2>3. ASSUME NEW len \in Nat, rBufRemove(len) PROVE Fifo!FifoNext
    BY <2>1, <2>3, RemoveIsFifoRemove DEF Fifo!FifoNext
  <2>4. ASSUME rBufClear PROVE Fifo!FifoNext
    BY <2>1, <2>4, ClearIsFifoRemove DEF Fifo!FifoNext
  <2>5. CASE UNCHANGED ringVars
    BY <2>5 DEF ringVars, rBufNBytes, rBufGet, ByteAt
  <2>6. QED
    BY <2>1, <2>2, <2>3, <2>4, <2>5 DEF RingNext
<1>3. QED
  BY <1>1, <1>2, RingTypeTheorem, PTL DEF RingSpec, RingIsFifo, Fifo!FifoSpec

--------------------
(* Every set of numbers has a least element, and Min finds it.              *)
LEMMA MinIn ==
    ASSUME NEW S \in SUBSET Nat, S # {}
    PROVE  Min(S) \in S /\ \A y \in S : Min(S) <= y
<1> DEFINE R == OpToRel(<, Nat)
<1>1. IsWellFoundedOn(R, Nat)
  BY NatLessThanWellFounded, Zenon
<1> HIDE DEF R
<1>2. PICK x \in S : \A y \in S : ~(<<y, x>> \in R)
  BY <1>1, WFMin
<1>3. \A y \in S : x <= y
  <2> TAKE y \in S
  <2>1. ~(y < x)
    BY <1>2 DEF R, OpToRel
  <2>2. QED
    BY <2>1
<1>4. QED
  BY <1>2, <1>3 DEF Min

(* A piece of a piece of a sequence.                                        *)
LEMMA PieceOfPiece ==
    ASSUME NEW S, NEW s \in Seq(S), NEW i \in Nat, NEW j \in Nat, 1 <= i, j <= Len(s),
           NEW k \in Nat, NEW l \in Nat, 1 <= k, l <= j - i + 1
    PROVE  /\ SubSeq(s, i, j) \in Seq(S)
           /\ i <= j => Len(SubSeq(s, i, j)) = j - i + 1
           /\ SubSeq(SubSeq(s, i, j), k, l) = SubSeq(s, i + k - 1, i + l - 1)
OBVIOUS

--------------------
(* pkfinderParse                                                            *)

(* A frame that the parser may return from the bytes b.                     *)
FrameIn(b, f) ==
    \E i, j \in 1 .. Len(b) : i <= j /\ f = SubSeq(b, i, j) /\ HeadAt(b, i) /\ CheckFrame(f)

Found(b) == [frame : {<<>>} \cup {f \in Seq(Byte) : FrameIn(b, f)}, remove : Nat]

(* The places of the search: the first header from p on, if there is one,   *)
(* and where it goes on behind a complete frame, which is further on.       *)
Heads(b, p)  == {k \in p .. Len(b) - 1 : HeadAt(b, k)}
Claimed(b, i) == b[i + PkLenPos] + PkLenAdd
Whole(b, i)  == SubSeq(b, i, i + Claimed(b, i) - 1)
GoesOn(b, i) == AfterFrame(i, Claimed(b, i), CheckFrame(Whole(b, i)))

(* Where a round of the loop finds a header, and where the next begins.     *)
LEMMA HeadFound ==
    ASSUME NEW b \in Seq(Byte), NEW p \in 1 .. Len(b) + 1, Heads(b, p) # {},
           NEW i, i = Min(Heads(b, p))
    PROVE  /\ i \in p .. Len(b) - 1 /\ HeadAt(b, i)
           /\ i + PkLenPos <= Len(b) => Claimed(b, i) \in Nat \ {0}
           /\ i + PkLenPos <= Len(b) /\ i + Claimed(b, i) - 1 <= Len(b) =>
                 GoesOn(b, i) \in p + 1 .. Len(b) + 1
<1>1. Len(b) \in Nat /\ Heads(b, p) \in SUBSET Nat
  BY DEF Heads
<1>2. i \in Heads(b, p)
  BY <1>1, MinIn
<1>3. i \in p .. Len(b) - 1 /\ HeadAt(b, i)
  BY <1>2 DEF Heads
<1>4. i + PkLenPos <= Len(b) => Claimed(b, i) \in Nat \ {0}
  <2> SUFFICES ASSUME i + PkLenPos <= Len(b) PROVE Claimed(b, i) \in Nat \ {0}
    OBVIOUS
  <2>1. PkLenPos \in Nat /\ PkLenAdd \in Nat \ {0} /\ Byte \subseteq Nat
    BY RxAssumption
  <2>2. i + PkLenPos \in 1 .. Len(b)
    BY <1>1, <1>3, <2>1
  <2>3. b[i + PkLenPos] \in Byte
    BY <2>2
  <2>4. b[i + PkLenPos] \in Nat
    BY <2>1, <2>3
  <2> DEFINE x == b[i + PkLenPos]
  <2> HIDE DEF x
  <2>5. x \in Nat
    BY <2>4 DEF x
  <2>6. x + PkLenAdd \in Nat \ {0}
    BY <2>1, <2>5
  <2>7. QED
    BY <2>6 DEF Claimed, x
<1>5. ASSUME i + PkLenPos <= Len(b), i + Claimed(b, i) - 1 <= Len(b)
      PROVE  GoesOn(b, i) \in p + 1 .. Len(b) + 1
  <2>1. GoesOn(b, i) = i + Claimed(b, i) \/ GoesOn(b, i) = i + 2
    BY DEF GoesOn, AfterFrame
  <2>2. QED
    BY <1>1, <1>3, <1>4, <1>5, <2>1, SMTT(30)
<1>6. QED
  BY <1>3, <1>4, <1>5

(* A round depends only on what later rounds give.                          *)
LEMMA ParseLooksAhead ==
    ASSUME NEW b \in Seq(Byte), NEW p \in 1 .. Len(b) + 1, NEW f, NEW g,
           \A q \in p + 1 .. Len(b) + 1 : f[q] = g[q]
    PROVE  ParseFrom(b, f, p) = ParseFrom(b, g, p)
<1> DEFINE i == Min(Heads(b, p))
<1>1. CASE /\ Heads(b, p) # {} /\ i + PkLenPos <= Len(b)
           /\ i + Claimed(b, i) - 1 <= Len(b)
  <2>1. f[GoesOn(b, i)] = g[GoesOn(b, i)]
    BY <1>1, HeadFound
  <2>2. QED
    BY <2>1 DEF ParseFrom, Heads, Claimed, Whole, GoesOn
<1>2. CASE Heads(b, p) = {}
  BY <1>2 DEF ParseFrom, Heads
<1>3. CASE Heads(b, p) # {} /\ ~(i + PkLenPos <= Len(b))
  <2>1. i + PkLenPos > Len(b)
    BY <1>3, HeadFound, RxAssumption
  <2>2. QED
    BY <1>3, <2>1 DEF ParseFrom, Heads
<1>4. CASE Heads(b, p) # {} /\ i + PkLenPos <= Len(b) /\ ~(i + Claimed(b, i) - 1 <= Len(b))
  <2>1. i + Claimed(b, i) - 1 > Len(b)
    BY <1>4, HeadFound
  <2>2. QED
    BY <1>4, <2>1 DEF ParseFrom, Heads, Claimed
<1>5. QED
  BY <1>1, <1>2, <1>3, <1>4

(* A round returns a checked frame of b or none, if the later ones do.      *)
LEMMA ParseFinds ==
    ASSUME NEW b \in Seq(Byte), NEW p \in 1 .. Len(b) + 1, NEW f,
           \A q \in p + 1 .. Len(b) + 1 : f[q] \in Found(b)
    PROVE  ParseFrom(b, f, p) \in Found(b)
<1> DEFINE i == Min(Heads(b, p))
           stop(k) == [frame |-> <<>>, remove |-> k]
<1>0. Len(b) \in Nat
  OBVIOUS
<1>1. \A k \in Nat : stop(k) \in Found(b)
  BY DEF Found
<1>2. CASE Len(b) - p + 1 < 2
  <2>1. ParseFrom(b, f, p) = stop(p - 1) /\ p - 1 \in Nat
    BY <1>2 DEF ParseFrom
  <2>2. QED
    BY <1>1, <2>1
<1>3. CASE ~(Len(b) - p + 1 < 2) /\ Heads(b, p) = {}
  <2>1. ParseFrom(b, f, p) = stop(Len(b) - 2) /\ Len(b) - 2 \in Nat
    BY <1>0, <1>3 DEF ParseFrom, Heads
  <2>2. QED
    BY <1>1, <2>1
<1>4. CASE ~(Len(b) - p + 1 < 2) /\ Heads(b, p) # {}
  <2>1. /\ i \in p .. Len(b) - 1 /\ HeadAt(b, i)
        /\ i + PkLenPos <= Len(b) => Claimed(b, i) \in Nat \ {0}
        /\ i + PkLenPos <= Len(b) /\ i + Claimed(b, i) - 1 <= Len(b) =>
              GoesOn(b, i) \in p + 1 .. Len(b) + 1
    BY <1>4, HeadFound
  <2>2. CASE ~(i + PkLenPos <= Len(b))
    <3>1. i + PkLenPos > Len(b)
      BY <2>1, <2>2, RxAssumption
    <3>2. ParseFrom(b, f, p) = stop(i - 1)
      BY <1>4, <3>1 DEF ParseFrom, Heads
    <3>3. QED
      BY <1>1, <2>1, <3>2
  <2>3. CASE i + PkLenPos <= Len(b) /\ ~(i + Claimed(b, i) - 1 <= Len(b))
    <3>1. i + Claimed(b, i) - 1 > Len(b) /\ ~(i + PkLenPos > Len(b))
      BY <2>1, <2>3, RxAssumption
    <3>2. ParseFrom(b, f, p) = stop(IF Claimed(b, i) > N THEN i + 1 ELSE i - 1)
      BY <1>4, <3>1 DEF ParseFrom, Heads, Claimed
    <3>3. (IF Claimed(b, i) > N THEN i + 1 ELSE i - 1) \in Nat
      BY <2>1
    <3>4. QED
      BY <1>1, <3>2, <3>3
  <2>4. CASE i + PkLenPos <= Len(b) /\ i + Claimed(b, i) - 1 <= Len(b)
    <3> DEFINE rest == f[GoesOn(b, i)]
               good == CheckFrame(Whole(b, i))
    <3>1. ~(i + PkLenPos > Len(b)) /\ ~(i + Claimed(b, i) - 1 > Len(b))
      BY <2>1, <2>4, RxAssumption, SMTT(30)
    <3>2. ParseFrom(b, f, p) =
            [frame |-> IF good /\ rest.frame = <<>> THEN Whole(b, i) ELSE rest.frame,
             remove |-> rest.remove]
      BY <1>4, <3>1 DEF ParseFrom, Heads, Claimed, Whole, GoesOn
    <3>3. rest \in Found(b)
      BY <2>1, <2>4
    <3>5. good => Whole(b, i) \in {w \in Seq(Byte) : FrameIn(b, w)}
      <4>1. i \in 1 .. Len(b) /\ i + Claimed(b, i) - 1 \in 1 .. Len(b) /\ i <= i + Claimed(b, i) - 1
        BY <2>1, <2>4
      <4>2. Whole(b, i) \in Seq(Byte)
        BY <4>1 DEF Whole
      <4>3. QED
        BY <2>1, <4>1, <4>2 DEF FrameIn, Whole
    <3> HIDE DEF rest, good
    <3>6. QED
      BY <3>2, <3>3, <3>5 DEF Found
  <2>5. QED
    BY <2>2, <2>3, <2>4
<1>5. QED
  BY <1>2, <1>3, <1>4
(* The loop of pkfinderParse is well defined: the recursive function of     *)
(* Parse exists.                                                            *)
LEMMA ParseExists ==
    ASSUME NEW b \in Seq(Byte)
    PROVE  \E f : f = [p \in 1 .. Len(b) + 1 |-> ParseFrom(b, f, p)]
<1> DEFINE n == Len(b) + 1
           Solves(f, k) == \A p \in 1 .. n : p > n - k => f[p] = ParseFrom(b, f, p)
           T == {k \in 0 .. n : \E f \in [1 .. n -> Found(b)] : Solves(f, k)}
           S == (0 .. n) \ T
<1>1. n \in Nat \ {0}
  OBVIOUS
<1>2. 0 \in T
  <2>1. [frame |-> <<>>, remove |-> 0] \in Found(b)
    BY DEF Found
  <2>2. [p \in 1 .. n |-> [frame |-> <<>>, remove |-> 0]] \in [1 .. n -> Found(b)]
    BY <2>1
  <2>3. \A p \in 1 .. n : ~(p > n - 0)
    BY <1>1
  <2>4. \E f \in [1 .. n -> Found(b)] : Solves(f, 0)
    BY <2>2, <2>3
  <2>5. 0 \in 0 .. n
    BY <1>1
  <2>6. QED
    BY <2>4, <2>5
<1>3. ASSUME NEW k \in 0 .. n - 1, k \in T PROVE k + 1 \in T
  <2>1. PICK f \in [1 .. n -> Found(b)] : Solves(f, k)
    BY <1>3
  <2> DEFINE q == n - k
             g == [f EXCEPT ![q] = ParseFrom(b, f, q)]
  <2>2. q \in 1 .. n
    BY <1>1
  <2>3. g \in [1 .. n -> Found(b)]
    <3>1. \A p \in q + 1 .. Len(b) + 1 : f[p] \in Found(b)
      BY <1>1, <2>2
    <3>2. ParseFrom(b, f, q) \in Found(b)
      BY <2>2, <3>1, ParseFinds
    <3>3. QED
      BY <3>2
  <2>4. ASSUME NEW p \in 1 .. n, p > n - (k + 1) PROVE g[p] = ParseFrom(b, g, p)
    <3>1. p >= q
      BY <1>1, <2>4
    <3>2. \A r \in p + 1 .. Len(b) + 1 : g[r] = f[r]
      BY <1>1, <2>2, <3>1
    <3>3. ParseFrom(b, g, p) = ParseFrom(b, f, p)
      BY <3>2, ParseLooksAhead
    <3>4. CASE p = q
      BY <2>2, <3>3, <3>4
    <3>5. CASE p # q
      <4>1. p > n - k /\ g[p] = f[p]
        BY <1>1, <2>2, <3>1, <3>5
      <4>2. QED
        BY <2>1, <3>3, <4>1
    <3>6. QED
      BY <3>4, <3>5
  <2> HIDE DEF g
  <2>5. QED
    BY <1>1, <2>3, <2>4
<1>4. S = {}
  <2> SUFFICES ASSUME S # {} PROVE FALSE
    OBVIOUS
  <2> DEFINE x == Min(S)
  <2>0. S \in SUBSET Nat
    BY <1>1
  <2>1. x \in S /\ \A y \in S : x <= y
    <3> HIDE DEF S
    <3>1. QED
      BY <2>0, MinIn
  <2> HIDE DEF x, T
  <2>2. x \in 1 .. n
    BY <1>1, <1>2, <2>1
  <2>3. x - 1 \in 0 .. n - 1 /\ x - 1 \in T
    BY <1>1, <2>1, <2>2
  <2>4. x - 1 + 1 \in T
    BY <1>3, <2>3
  <2>5. QED
    BY <2>1, <2>2, <2>4
<1>5. n \in T
  <2> HIDE DEF T
  <2>1. QED
    BY <1>1, <1>4
<1>6. PICK f \in [1 .. n -> Found(b)] : Solves(f, n)
  BY <1>5
<1>7. \A p \in 1 .. n : f[p] = ParseFrom(b, f, p)
  BY <1>1, <1>6
<1>8. f = [p \in 1 .. n |-> ParseFrom(b, f, p)]
  BY <1>6, <1>7
<1>9. QED
  BY <1>8

(* Whatever the ring holds, pkfinderParse returns a frame of it that passed *)
(* the check, or none.                                                      *)
LEMMA ParseReturnsFrame ==
    ASSUME NEW b \in Seq(Byte)
    PROVE  Parse(b) \in Found(b)
<1> DEFINE n == Len(b) + 1
           parse == CHOOSE f : f = [p \in 1 .. Len(b) + 1 |-> ParseFrom(b, f, p)]
           S == {k \in 0 .. n - 1 : parse[n - k] \notin Found(b)}
<1>1. n \in Nat \ {0}
  OBVIOUS
<1>2. Parse(b) = parse[1]
  BY DEF Parse
<1>3. parse = [p \in 1 .. Len(b) + 1 |-> ParseFrom(b, parse, p)]
  BY ParseExists
<1> HIDE DEF parse
<1>4. S = {}
  <2> SUFFICES ASSUME S # {} PROVE FALSE
    OBVIOUS
  <2> DEFINE x == Min(S)
  <2>0. S \in SUBSET Nat
    BY <1>1
  <2>1. x \in S /\ \A y \in S : x <= y
    <3> HIDE DEF S
    <3>1. QED
      BY <2>0, MinIn
  <2> HIDE DEF x
  <2>2. \A p \in n - x + 1 .. Len(b) + 1 : parse[p] \in Found(b)
    <3> TAKE p \in n - x + 1 .. Len(b) + 1
    <3>1. n - p \in 0 .. n - 1 /\ n - p < x /\ n - (n - p) = p
      BY <1>1, <2>1
    <3>2. n - p \notin S
      BY <2>1, <3>1
    <3>3. QED
      BY <3>1, <3>2
  <2>3. n - x \in 1 .. Len(b) + 1
    BY <1>1, <2>1
  <2>4. ParseFrom(b, parse, n - x) \in Found(b)
    BY <2>2, <2>3, ParseFinds
  <2>5. parse[n - x] \in Found(b)
    BY <1>3, <2>3, <2>4
  <2>6. QED
    BY <2>1, <2>5
<1>5. n - 1 \in 0 .. n - 1 /\ n - (n - 1) = 1
  BY <1>1
<1>6. n - 1 \notin S
  BY <1>4
<1>7. QED
  BY <1>2, <1>5, <1>6
--------------------
(* The port uses the ring as rBuf.c allows                                  *)

(* What the ring holds is a sequence of bytes.                              *)
LEMMA RingBytes ==
    ASSUME RingTypeOK
    PROVE  rBufGet \in Seq(Byte) /\ Len(rBufGet) = rBufNBytes /\ rBufNBytes \in Nat
<1>1. rBufNBytes \in Nat /\ rBufNBytes <= N - 1
  BY CountBounds
<1>2. ASSUME NEW i \in 1 .. rBufNBytes PROVE ByteAt(i) \in Byte
  <2>1. (IF outIndex + i - 1 >= N THEN outIndex + i - 1 - N ELSE outIndex + i - 1) \in 0 .. N - 1
    BY <1>1, RingAssumption DEF RingTypeOK
  <2>2. QED
    BY <2>1 DEF RingTypeOK, ByteAt
<1>3. rBufGet \in [1 .. rBufNBytes -> Byte]
  BY <1>2 DEF rBufGet
<1>4. QED
  BY <1>1, <1>3

(* The bytes on their way.                                                  *)
LineOK == wire \in Seq(Byte) /\ kernel \in Seq(Byte)

(* Taking a piece off the front of a sequence.                              *)
LEMMA Cut ==
    ASSUME NEW s \in Seq(Byte), NEW n \in 0 .. Len(s)
    PROVE  SubSeq(s, 1, n) \in Seq(Byte) /\ SubSeq(s, n + 1, Len(s)) \in Seq(Byte)
OBVIOUS

(* Every step of the port is one of the ring or leaves it alone.            *)
LEMMA RxStepIsRingStep ==
    ASSUME RingTypeOK, LineOK, [Next]_vars
    PROVE  [RingNext]_<<ringVars, rd_buf>> /\ LineOK'
<1>1. ASSUME Discard, UNCHANGED rd_buf PROVE RingNext
  BY <1>1 DEF Discard, RingNext
<1>2. CASE SendAndWait
  <2>1. RingNext
    BY <1>1, <1>2 DEF SendAndWait
  <2>2. PICK r \in Replies : wire' = wire \o Bytes(r)
    BY <1>2 DEF SendAndWait
  <2>3. Bytes(r) \in Seq(Byte)
    BY RxAssumption
  <2>4. wire' \in Seq(Byte)
    BY <2>2, <2>3 DEF LineOK
  <2>5. kernel' \in Seq(Byte)
    BY <1>2 DEF SendAndWait, Discard
  <2>6. QED
    BY <2>1, <2>4, <2>5 DEF LineOK
<1>3. CASE SendFails
  <2>1. RingNext
    BY <1>1, <1>3 DEF SendFails
  <2>2. wire' = wire /\ kernel' = <<>>
    BY <1>3 DEF SendFails, Discard
  <2>3. QED
    BY <2>1, <2>2 DEF LineOK
<1>4. CASE RecvAgain \/ RecvFails \/ UNCHANGED vars
  <2>1. UNCHANGED <<ringVars, rd_buf, wire, kernel>>
    BY <1>4 DEF RecvAgain, RecvFails, vars, rxVars
  <2>2. QED
    BY <2>1 DEF LineOK
<1>5. CASE Arrive
  <2>1. UNCHANGED <<ringVars, rd_buf>>
    BY <1>5 DEF Arrive
  <2>2. PICK n \in 1 .. Len(wire) : /\ kernel' = kernel \o SubSeq(wire, 1, n)
                                    /\ wire' = SubSeq(wire, n + 1, Len(wire))
    BY <1>5 DEF Arrive
  <2>3. n \in 0 .. Len(wire)
    OBVIOUS
  <2>4. SubSeq(wire, 1, n) \in Seq(Byte) /\ wire' \in Seq(Byte)
    BY <2>2, <2>3, Cut DEF LineOK
  <2>5. kernel' \in Seq(Byte)
    BY <2>2, <2>4 DEF LineOK
  <2>6. QED
    BY <2>1, <2>4, <2>5 DEF LineOK
<1>6. CASE Read
  <2> DEFINE n == least(READ_SIZE, Len(kernel))
  <2>1. n \in 0 .. Len(kernel)
    BY RxAssumption DEF least, LineOK
  <2>2. rd_buf' = SubSeq(kernel, 1, n) /\ kernel' = SubSeq(kernel, n + 1, Len(kernel))
    BY <1>6 DEF Read
  <2> HIDE DEF n
  <2>3. rd_buf' \in Seq(Byte) /\ kernel' \in Seq(Byte)
    BY <2>1, <2>2, Cut DEF LineOK
  <2>4. UNCHANGED <<ringVars, wire>>
    BY <1>6 DEF Read
  <2>5. QED
    BY <2>3, <2>4 DEF LineOK, RingNext
<1>7. CASE Put \/ PutAgain
  BY <1>7 DEF Put, PutAgain, PutRead, LineOK, RingNext
<1>8. CASE ClearFull
  BY <1>8 DEF ClearFull, LineOK, RingNext
<1>9. CASE ParseRing
  <2>1. Parse(rBufGet) \in Found(rBufGet)
    BY RingBytes, ParseReturnsFrame
  <2>2. Parse(rBufGet).remove \in Nat
    BY <2>1 DEF Found
  <2>3. rBufRemove(Parse(rBufGet).remove) /\ UNCHANGED <<rd_buf, wire, kernel>>
    BY <1>9 DEF ParseRing
  <2>4. QED
    BY <2>2, <2>3 DEF LineOK, RingNext
<1>10. QED
  BY <1>2, <1>3, <1>4, <1>5, <1>6, <1>7, <1>8, <1>9 DEF Next

(* The receive path of the port keeps to the operations of rBuf.c, with     *)
(* whatever the line carries.                                               *)
THEOREM RxRefinesRing == Spec => RingSpec
<1>1. Init => RingInit /\ RingTypeOK /\ LineOK
  <2>1. RingInit => RingTypeOK
    BY RingAssumption DEF RingInit, RingTypeOK
  <2>2. QED
    BY <2>1 DEF Init, LineOK
<1>2. QED
  BY <1>1, RxStepIsRingStep, RingTypeStep, PTL DEF Spec, RingSpec

(* Hence the ring is a bounded queue in the port as well.                   *)
THEOREM RxKeepsFifo == Spec => RingIsFifo
BY RxRefinesRing, RingIsFifoTheorem, PTL

--------------------
(* Freshness                                                                *)

(* The ring holds the end of what was put into it since the last discard.   *)
RingIsRecent ==
    /\ since \in Seq(Byte)
    /\ rBufNBytes <= Len(since)
    /\ \A i \in 1 .. rBufNBytes : rBufGet[i] = since[Len(since) - rBufNBytes + i]

(* A frame is handed over by the last step of a call.                       *)
NothingYet == pc # "idle" => received = <<>>

FreshInv == RingIsRecent /\ NothingYet /\ ReturnedIsFresh

(* A frame that the parser returns from the ring is a fresh one.            *)
LEMMA FrameIsFresh ==
    ASSUME RingTypeOK, RingIsRecent, NEW f \in Seq(Byte), FrameIn(rBufGet, f)
    PROVE  /\ HeadAt(f, 1) /\ Last(f) = Checksum(SubSeq(f, 3, Len(f) - 1))
           /\ HasPiece(since, f)
<1> DEFINE b == rBufGet
           off == Len(since) - rBufNBytes
<1>1. b \in Seq(Byte) /\ Len(b) = rBufNBytes /\ rBufNBytes \in Nat
  BY RingBytes
<1>2. since \in Seq(Byte) /\ off \in Nat /\ off + rBufNBytes = Len(since)
  BY <1>1 DEF RingIsRecent
<1>3. \A x \in 1 .. rBufNBytes : b[x] = since[off + x]
  BY DEF RingIsRecent
<1>4. PICK i \in 1 .. Len(b), j \in 1 .. Len(b) :
         i <= j /\ f = SubSeq(b, i, j) /\ HeadAt(b, i) /\ CheckFrame(f)
  BY DEF FrameIn
<1> HIDE DEF b, off
<1>5. Len(f) = j - i + 1 /\ \A x \in 1 .. j - i + 1 : f[x] = b[i + x - 1]
  BY <1>1, <1>4
<1>6. Len(f) >= 3
  <2>1. Len(f) >= MIN_SIZE /\ MIN_SIZE \in Nat /\ MIN_SIZE > 2
    BY <1>4, RxAssumption DEF CheckFrame, HEAD
  <2>2. QED
    BY <1>1, <1>5, <2>1
<1>7. HeadAt(f, 1)
  <2>1. SubSeq(SubSeq(b, i, j), 1, 2) = SubSeq(b, i + 1 - 1, i + 2 - 1)
    BY <1>1, <1>4, <1>5, <1>6, PieceOfPiece
  <2>2. i + 1 - 1 = i /\ i + 2 - 1 = i + 1 /\ 1 + 1 = 2
    OBVIOUS
  <2>3. QED
    BY <1>4, <2>1, <2>2 DEF HeadAt
<1>8. Last(f) = Checksum(SubSeq(f, 3, Len(f) - 1))
  BY <1>4 DEF CheckFrame
<1>9. HasPiece(since, f)
  <2> DEFINE k == off + i - 1
  <2>1. k \in 0 .. Len(since) - Len(f)
    BY <1>1, <1>2, <1>4, <1>5
  <2>2. SubSeq(since, k + 1, k + Len(f)) = f
    <3> DEFINE g == SubSeq(since, k + 1, k + Len(f))
    <3>1. k \in Nat /\ k + Len(f) <= Len(since) /\ Len(f) \in Nat
      BY <1>1, <1>2, <2>1
    <3> HIDE DEF k
    <3>2. g \in Seq(Byte) /\ Len(g) = Len(f) /\ \A x \in 1 .. Len(f) : g[x] = since[k + x]
      BY <1>2, <3>1
    <3>3. ASSUME NEW x \in 1 .. Len(f) PROVE g[x] = f[x]
      <4>1. i + x - 1 \in 1 .. rBufNBytes /\ x \in 1 .. j - i + 1
        BY <1>1, <1>4, <1>5
      <4>2. f[x] = since[off + (i + x - 1)]
        BY <1>3, <1>5, <4>1
      <4>3. off + (i + x - 1) = k + x
        BY <1>2, <3>1 DEF k
      <4>4. QED
        BY <3>2, <4>2, <4>3
    <3> HIDE DEF g
    <3>4. g = f
      BY <3>1, <3>2, <3>3, SMTT(30)
    <3>5. QED
      BY <3>4 DEF g
  <2>3. QED
    BY <2>1, <2>2 DEF HasPiece
<1>10. QED
  BY <1>7, <1>8, <1>9
(* The two parts of a concatenation.                                        *)
LEMMA Appended ==
    ASSUME NEW s \in Seq(Byte), NEW t \in Seq(Byte)
    PROVE  /\ s \o t \in Seq(Byte) /\ Len(s \o t) = Len(s) + Len(t)
           /\ \A x \in 1 .. Len(s) : (s \o t)[x] = s[x]
           /\ \A x \in 1 .. Len(t) : (s \o t)[Len(s) + x] = t[x]
<1>1. s \o t \in Seq(Byte) /\ Len(s \o t) = Len(s) + Len(t) /\ Len(s) \in Nat /\ Len(t) \in Nat
  OBVIOUS
<1>2. \A x \in 1 .. Len(s) + Len(t) : (s \o t)[x] = IF x <= Len(s) THEN s[x] ELSE t[x - Len(s)]
  OBVIOUS
<1>3. ASSUME NEW x \in 1 .. Len(t) PROVE (s \o t)[Len(s) + x] = t[x]
  <2>1. Len(s) + x \in 1 .. Len(s) + Len(t) /\ ~(Len(s) + x <= Len(s)) /\ Len(s) + x - Len(s) = x
    BY <1>1
  <2>2. QED
    BY <1>2, <2>1
<1>4. ASSUME NEW x \in 1 .. Len(s) PROVE (s \o t)[x] = s[x]
  <2>1. x \in 1 .. Len(s) + Len(t) /\ x <= Len(s)
    BY <1>1
  <2>2. QED
    BY <1>2, <2>1
<1>5. QED
  BY <1>1, <1>3, <1>4

(* A put adds to the ring and to the history alike.                         *)
LEMMA PutKeepsRecent ==
    ASSUME RingTypeOK, RingIsRecent, PutRead PROVE RingIsRecent'
<1> DEFINE n    == rBufNBytes
           fits == put_len'
           s    == rd_buf
<1>1. s \in Seq(Byte) /\ n \in Nat /\ n <= N - 1 /\ since \in Seq(Byte) /\ n <= Len(since)
  BY CountBounds DEF RingTypeOK, RingIsRecent
<1>2. Fifo!FifoPut(s)
  BY <1>1, PutIsFifoPut DEF PutRead
<1>3. fits = Fifo!Lesser(Len(s), N - 1 - n) /\ rBufNBytes' = n + fits
      /\ rBufGet' = [i \in 1 .. n + fits |-> IF i <= n THEN rBufGet[i] ELSE s[i - n]]
  BY <1>2 DEF Fifo!FifoPut
<1>4. fits \in 0 .. Len(s)
  BY <1>1, <1>3, RingAssumption DEF Fifo!Lesser
<1>5. since' = since \o SubSeq(s, 1, fits)
  BY DEF PutRead
<1> HIDE DEF n, fits, s
<1>6. /\ since' \in Seq(Byte) /\ Len(since') = Len(since) + fits
      /\ \A x \in 1 .. Len(since) : since'[x] = since[x]
      /\ \A x \in 1 .. fits : since'[Len(since) + x] = s[x]
  <2> DEFINE t == SubSeq(s, 1, fits)
  <2>1. t \in Seq(Byte) /\ Len(t) = fits /\ \A x \in 1 .. fits : t[x] = s[x]
    BY <1>1, <1>4
  <2> HIDE DEF t
  <2>2. since' = since \o t
    BY <1>5 DEF t
  <2>3. /\ since' \in Seq(Byte) /\ Len(since') = Len(since) + Len(t)
        /\ \A x \in 1 .. Len(since) : since'[x] = since[x]
        /\ \A x \in 1 .. Len(t) : since'[Len(since) + x] = t[x]
    BY <1>1, <2>1, <2>2, Appended
  <2>4. QED
    BY <2>1, <2>3
<1>7. ASSUME NEW i \in 1 .. n + fits
      PROVE  rBufGet'[i] = since'[Len(since') - (n + fits) + i]
  <2>1. Len(since') - (n + fits) + i = Len(since) - n + i
    BY <1>1, <1>4, <1>6
  <2>2. CASE i <= n
    <3>1. rBufGet'[i] = rBufGet[i]
      BY <1>3, <2>2
    <3>2. rBufGet[i] = since[Len(since) - n + i]
      BY <1>1, <1>4, <2>2 DEF RingIsRecent, n
    <3>3. Len(since) - n + i \in 1 .. Len(since)
      BY <1>1, <1>4, <2>2
    <3>4. QED
      BY <1>6, <2>1, <3>1, <3>2, <3>3
  <2>3. CASE ~(i <= n)
    <3>1. rBufGet'[i] = s[i - n]
      BY <1>3, <2>3
    <3>2. i - n \in 1 .. fits /\ Len(since) - n + i = Len(since) + (i - n)
      BY <1>1, <1>4, <2>3
    <3>3. QED
      BY <1>6, <2>1, <3>1, <3>2
  <2>4. QED
    BY <2>2, <2>3
<1>8. QED
  BY <1>1, <1>3, <1>4, <1>6, <1>7 DEF RingIsRecent

(* Removing from the ring leaves the end of the history in it.              *)
LEMMA RemoveKeepsRecent ==
    ASSUME RingTypeOK, RingIsRecent, since' = since,
           NEW k \in 0 .. rBufNBytes, Fifo!FifoRemove(k)
    PROVE  RingIsRecent'
<1> DEFINE n == rBufNBytes
<1>1. n \in Nat /\ since \in Seq(Byte) /\ n <= Len(since)
  BY CountBounds DEF RingIsRecent
<1>2. rBufNBytes' = n - k /\ rBufGet' = [i \in 1 .. n - k |-> rBufGet[i + k]]
  BY DEF Fifo!FifoRemove
<1>3. \A x \in 1 .. n : rBufGet[x] = since[Len(since) - n + x]
  BY DEF RingIsRecent
<1> HIDE DEF n
<1>4. k \in 0 .. n
  BY DEF n
<1>5. ASSUME NEW i \in 1 .. n - k
      PROVE  rBufGet'[i] = since[Len(since) - (n - k) + i]
  <2>1. i + k \in 1 .. n /\ Len(since) - n + (i + k) = Len(since) - (n - k) + i
    BY <1>1, <1>4
  <2>2. QED
    BY <1>2, <1>3, <2>1
<1>6. QED
  BY <1>1, <1>2, <1>4, <1>5 DEF RingIsRecent

(* An empty ring holds nothing old.                                         *)
LEMMA ClearIsRecent ==
    ASSUME rBufClear, since' \in Seq(Byte) PROVE RingIsRecent'
<1>1. rBufNBytes' = 0
  BY RingAssumption DEF rBufClear, rBufNBytes
<1>2. Len(since') \in Nat /\ 1 .. 0 = {}
  OBVIOUS
<1>3. QED
  BY <1>1, <1>2 DEF RingIsRecent

(* Every step keeps the invariant.                                          *)
LEMMA FreshStep ==
    ASSUME RingTypeOK, FreshInv, [Next]_vars
    PROVE  FreshInv'
<1>0. RingIsRecent /\ NothingYet /\ ReturnedIsFresh
  BY DEF FreshInv
<1>1. ASSUME received' = <<>>, RingIsRecent' PROVE FreshInv'
  BY <1>1 DEF FreshInv, NothingYet, ReturnedIsFresh
<1>2. CASE SendAndWait \/ SendFails
  <2>1. received' = <<>> /\ rBufClear /\ since' = <<>>
    BY <1>2 DEF SendAndWait, SendFails, Discard
  <2>2. RingIsRecent'
    BY <2>1, ClearIsRecent
  <2>3. QED
    BY <1>1, <2>1, <2>2
<1>3. ASSUME UNCHANGED ringVars, since' = since PROVE RingIsRecent'
  BY <1>0, <1>3 DEF RingIsRecent, ringVars, rBufNBytes, rBufGet, ByteAt
<1>4. CASE RecvAgain
  BY <1>1, <1>3, <1>4 DEF RecvAgain
<1>5. CASE Arrive \/ UNCHANGED vars
  <2>1. UNCHANGED <<ringVars, since, received, pc>>
    BY <1>5 DEF Arrive, vars, rxVars
  <2>2. QED
    BY <1>0, <1>3, <2>1 DEF FreshInv, NothingYet, ReturnedIsFresh
<1>6. CASE RecvFails \/ Read
  <2>1. UNCHANGED <<ringVars, since>> /\ received' = <<>>
    BY <1>0, <1>6 DEF RecvFails, Read, NothingYet
  <2>2. QED
    BY <1>1, <1>3, <2>1
<1>7. CASE Put \/ PutAgain
  <2>1. PutRead /\ received' = <<>>
    BY <1>0, <1>7 DEF Put, PutAgain, NothingYet
  <2>2. QED
    BY <1>0, <1>1, <2>1, PutKeepsRecent
<1>8. CASE ClearFull
  <2>1. rBufClear /\ received' = <<>> /\ since' = since
    BY <1>0, <1>8 DEF ClearFull, NothingYet
  <2>2. since' \in Seq(Byte)
    BY <1>0, <2>1 DEF RingIsRecent
  <2>3. QED
    BY <1>1, <2>1, <2>2, ClearIsRecent
<1>9. CASE ParseRing
  <2> DEFINE p == Parse(rBufGet)
  <2>1. p \in Found(rBufGet)
    BY RingBytes, ParseReturnsFrame
  <2>2. /\ rBufRemove(p.remove) /\ since' = since /\ pc' = "idle"
        /\ received' = p.frame \/ received' = received
    BY <1>9 DEF ParseRing
  <2>3. received = <<>>
    BY <1>0, <1>9 DEF ParseRing, NothingYet
  <2> HIDE DEF p
  <2>4. p.remove \in Nat /\ (p.frame = <<>> \/ (p.frame \in Seq(Byte) /\ FrameIn(rBufGet, p.frame)))
    BY <2>1 DEF Found
  <2>5. RingIsRecent'
    BY <1>0, <2>2, <2>4, RemoveIsFifoRemove, RemoveKeepsRecent
  <2>6. CASE received' = <<>>
    BY <1>1, <2>5, <2>6
  <2>7. CASE received' = p.frame /\ p.frame \in Seq(Byte) /\ FrameIn(rBufGet, p.frame)
    <3>1. /\ HeadAt(received', 1)
          /\ Last(received') = Checksum(SubSeq(received', 3, Len(received') - 1))
          /\ HasPiece(since, received')
      BY <1>0, <2>7, FrameIsFresh
    <3>2. ReturnedIsFresh'
      BY <2>2, <3>1 DEF ReturnedIsFresh, HeadAt, HasPiece
    <3>3. QED
      BY <2>2, <2>5, <3>2 DEF FreshInv, NothingYet
  <2>8. QED
    BY <2>2, <2>3, <2>4, <2>6, <2>7
<1>10. QED
  BY <1>2, <1>4, <1>5, <1>6, <1>7, <1>8, <1>9 DEF Next

(* Whatever the line carries and however it is cut, for every size of ring, *)
(* reads and frames: recv_frame hands over only a frame that passed the     *)
(* check and went into the ring after the last discard.                     *)
THEOREM ReturnedIsFreshTheorem == Spec => []ReturnedIsFresh
<1>1. Init => FreshInv
  <2> SUFFICES ASSUME Init PROVE FreshInv
    OBVIOUS
  <2>1. rBufNBytes = 0 /\ since = <<>> /\ received = <<>>
    BY DEF Init, RingInit, rBufNBytes
  <2>2. RingIsRecent
    BY <2>1 DEF RingIsRecent
  <2>3. QED
    BY <2>1, <2>2 DEF FreshInv, NothingYet, ReturnedIsFresh
<1>2. FreshInv => ReturnedIsFresh
  BY DEF FreshInv
<1>3. Spec => []RingTypeOK
  BY RxRefinesRing, RingTypeTheorem, PTL
<1>4. QED
  BY <1>1, <1>2, <1>3, FreshStep, PTL DEF Spec

--------------------
(* Packets of a segment of a bytes                                          *)
CeilDiv(a, b) == (a + b - 1) \div b

(* What C's integer division rounds down to.                                *)
LEMMA DivFacts ==
    ASSUME NEW a \in Nat, NEW b \in Nat \ {0}
    PROVE  /\ a \div b \in Nat
           /\ (a \div b) * b <= a
           /\ a < (a \div b) * b + b
BY Z3

(* One segment or packet more, or less, in a product.                       *)
LEMMA Times ==
    ASSUME NEW a \in Int, NEW b \in Int
    PROVE  a * b \in Int /\ (a + 1) * b = a * b + b /\ (a - 1) * b = a * b - b
OBVIOUS

(* The rounded-up division counts just enough pieces of b bytes for a       *)
(* bytes.                                                                   *)
LEMMA CeilFacts ==
    ASSUME NEW a \in Nat, NEW b \in Nat \ {0}
    PROVE  /\ CeilDiv(a, b) \in Nat
           /\ CeilDiv(a, b) * b >= a
           /\ CeilDiv(a, b) * b < a + b
<1> DEFINE q == CeilDiv(a, b)
<1>1. a + b - 1 \in Nat
    OBVIOUS
<1>2. q \in Nat /\ q * b <= a + b - 1 /\ a + b - 1 < q * b + b
    BY <1>1, DivFacts DEF CeilDiv
<1>3. q * b \in Nat
    BY <1>2
<1> QED
    BY <1>2, <1>3

(* A later segment starts no earlier.                                       *)
LEMMA Monotone ==
    ASSUME NEW a \in Nat, NEW c \in Nat, NEW b \in Nat, a <= c
    PROVE  a * b <= c * b /\ a * b \in Nat
OBVIOUS

(* The commands of the injection, their frames and the replies.             *)
Commands == {"start", "data", "end", "query", "abort"}
Frames == [cmd : Commands \ {"data"}] \cup
          [cmd : {"data"}, seg : Nat, pkt : Nat, from : Nat, len : Nat]
(* A data frame carries the bytes that belong where its numbers say.        *)
PlacedFrames == {f \in Frames : f.cmd = "data" =>
                    f.from = f.seg * FPGA_SEGMENT_SIZE + f.pkt * FPGA_PACKET_SIZE}
AckCmds == {"start_ack", "data_ack", "end_ack", "reconfig_ack", "abort_ack"}
FpgaReplies == [cmd : AckCmds, result : {"ok", "busy", "bad"}]

(* The counters of the file's layout, of the retries and of the polls.      *)
Counters ==
    /\ file_size \in FileSizes \cup {0}
    /\ current_segment \in 0 .. total_segments
    /\ total_packets_in_segment \in Nat
    /\ current_packet_in_segment \in 0 .. total_packets_in_segment
    /\ retry_count \in 0 .. FPGA_MAX_PACKET_RETRIES /\ bin_pos \in Nat
    /\ polls \in 0 .. MaxPolls + 1 /\ crossed \in Nat

(* The threads and their flags.                                             *)
Flags ==
    /\ state \in States
    /\ in_progress \in BOOLEAN /\ abort_requested \in BOOLEAN /\ mutex_alive \in BOOLEAN
    /\ late \in BOOLEAN
    /\ thread \in {"none", "notify", "loop", "wait", "abort"}
    /\ expected_cmd \in AckCmds \cup {"none"}
    /\ cleanup_pc \in {"no", "wait", "join", "skipped", "destroy", "done"} /\ thread_handle \in {0, 1}

(* The line to the FPGA and back.                                           *)
Line == inbox \in Seq(PlacedFrames) /\ replies \in Seq(FpgaReplies) /\ rbuf \in Seq(FpgaReplies)

(* The types of all variables.                                              *)
InjectorTypes == Counters /\ Flags /\ Line

(* Where in the file the current packet starts.                             *)
Offset == current_segment * FPGA_SEGMENT_SIZE + current_packet_in_segment * FPGA_PACKET_SIZE

(* Where the thread waits tells what it has sent.                           *)
WaitMatches ==
    /\ in_progress <=> thread # "none"
    /\ state # "IDLE" => file_size \in FileSizes
    /\ state = "IDLE" => thread = "none"
    /\ thread = "notify" => state = "PARSING_METADATA"
    /\ thread = "abort" => state \in {"TRANSFER_DATA", "TRANSFER_END"}
    /\ thread = "wait" =>
        /\ expected_cmd # "none"
        /\ expected_cmd = "start_ack" => state = "TRANSFER_START"
        /\ expected_cmd = "data_ack" => state = "TRANSFER_DATA"
        /\ expected_cmd = "end_ack" => state = "TRANSFER_END"
        /\ expected_cmd = "reconfig_ack" => state = "RECONFIG_POLLING"
        /\ expected_cmd = "abort_ack" => state \in {"TRANSFER_DATA", "TRANSFER_END"}
        /\ expected_cmd \in {"start_ack", "reconfig_ack"} => polls <= MaxPolls

(* The file's read position goes with the packet counter.                   *)
Positioned ==
    /\ state \in {"PARSING_METADATA", "TRANSFER_START"} => retry_count = 0 /\ current_segment = 0
    /\ state = "TRANSFER_DATA" =>
        /\ current_packet_in_segment > 0 \/ (thread = "wait" /\ expected_cmd = "data_ack") =>
              /\ current_segment < total_segments
              /\ total_packets_in_segment = CeilDiv(SegmentSize, FPGA_PACKET_SIZE)
        /\ thread = "wait" /\ expected_cmd = "data_ack" =>
              /\ current_packet_in_segment < total_packets_in_segment
              /\ retry_count < FPGA_MAX_PACKET_RETRIES
              /\ \/ current_packet_in_segment + 1 = total_packets_in_segment
                 \/ bin_pos = Offset + FPGA_PACKET_SIZE
        /\ thread = "loop" => retry_count < FPGA_MAX_PACKET_RETRIES
        /\ thread = "loop" /\ retry_count = 0 /\ current_packet_in_segment > 0 =>
              \/ current_packet_in_segment = total_packets_in_segment
              \/ bin_pos = Offset

(* The inductive invariant of the injector.                                 *)
InjectorInv == InjectorTypes /\ WaitMatches /\ Positioned

(* What the cleanup may rely on unless it was overtaken by an activation:   *)
(* no handle, or a finished join, means no thread.                          *)
CleanInv ==
    late \/ /\ thread_handle = 0 => thread = "none"
            /\ cleanup_pc \in {"destroy", "done"} => thread = "none"
            /\ ~mutex_alive => cleanup_pc = "done"

(* A segment that exists lies within the file; all but the last are full    *)
(* and the last ends with the file.                                         *)
LEMMA SegmentFacts ==
    ASSUME file_size \in Nat, current_segment \in Nat, current_segment < total_segments
    PROVE  /\ SegmentSize \in Nat \ {0}
           /\ total_segments \in Nat
           /\ SegmentSize <= FPGA_SEGMENT_SIZE
           /\ current_segment * FPGA_SEGMENT_SIZE \in Nat
           /\ current_segment * FPGA_SEGMENT_SIZE + SegmentSize <= file_size
           /\ current_segment + 1 < total_segments => SegmentSize = FPGA_SEGMENT_SIZE
           /\ current_segment + 1 = total_segments =>
                 current_segment * FPGA_SEGMENT_SIZE + SegmentSize = file_size
<1> DEFINE S == FPGA_SEGMENT_SIZE
           n == total_segments
<1>1. S \in Nat \ {0}
    BY InjectorAssumption
<1>2. n \in Nat /\ n * S >= file_size /\ n * S < file_size + S
    BY <1>1, CeilFacts DEF total_segments, CeilDiv
<1> HIDE DEF n
<1>3. n * S \in Nat /\ (n - 1) * S = n * S - S /\ n - 1 \in Nat
    BY <1>1, <1>2, Times DEF n
<1>4. current_segment <= n - 1
    BY <1>2 DEF n
<1>5. current_segment * S <= (n - 1) * S /\ current_segment * S \in Nat
    BY <1>1, <1>3, <1>4, Monotone
<1>6. CASE current_segment = n - 1
    BY <1>1, <1>2, <1>3, <1>5, <1>6 DEF SegmentSize, n
<1>7. CASE current_segment # n - 1
    <2>1. current_segment + 1 <= n - 1 /\ current_segment + 1 \in Nat
        BY <1>3, <1>4, <1>7
    <2>2. (current_segment + 1) * S <= (n - 1) * S
        BY <1>1, <1>3, <2>1, Monotone
    <2>3. current_segment * S + S <= (n - 1) * S
        BY <1>1, <2>2, Times
    <2>4. SegmentSize = S
        BY <1>7 DEF SegmentSize, n
    <2>5. QED
        BY <1>1, <1>2, <1>3, <1>5, <2>1, <2>3, <2>4 DEF n
<1>8. QED
    BY <1>6, <1>7

(* A packet that exists lies within its segment; all but the last are full  *)
(* and the last ends with the segment.                                      *)
LEMMA PacketFacts ==
    ASSUME SegmentSize \in Nat \ {0}, current_packet_in_segment \in Nat,
           current_packet_in_segment < CeilDiv(SegmentSize, FPGA_PACKET_SIZE)
    PROVE  LET n    == CeilDiv(SegmentSize, FPGA_PACKET_SIZE)
               done == current_packet_in_segment * FPGA_PACKET_SIZE
           IN  /\ n \in Nat
               /\ done \in Nat
               /\ PacketSize(n) \in Nat \ {0}
               /\ done + PacketSize(n) <= SegmentSize
               /\ current_packet_in_segment + 1 < n => PacketSize(n) = FPGA_PACKET_SIZE
               /\ current_packet_in_segment + 1 = n => done + PacketSize(n) = SegmentSize
<1> DEFINE P    == FPGA_PACKET_SIZE
           n    == CeilDiv(SegmentSize, P)
           done == current_packet_in_segment * P
<1>1. P \in Nat \ {0}
    BY InjectorAssumption
<1>2. n \in Nat /\ n * P >= SegmentSize /\ n * P < SegmentSize + P
    BY <1>1, CeilFacts
<1> HIDE DEF n
<1>3. n * P \in Nat /\ (n - 1) * P = n * P - P /\ n - 1 \in Nat
    BY <1>1, <1>2, Times DEF n
<1>4. current_packet_in_segment <= n - 1
    BY <1>2 DEF n
<1>5. done <= (n - 1) * P /\ done \in Nat
    BY <1>1, <1>3, <1>4, Monotone
<1>6. CASE current_packet_in_segment = n - 1
    <2>1. done = n * P - P
        BY <1>3, <1>6
    <2>2. PacketSize(n) = SegmentSize - done
        BY <1>1, <1>2, <1>3, <1>6, <2>1 DEF PacketSize
    <2>3. current_packet_in_segment + 1 = n
        BY <1>2, <1>6
    <2>4. done < SegmentSize /\ done \in Nat
        BY <1>1, <1>2, <1>3, <1>5, <2>1
    <2>5. PacketSize(n) \in Nat \ {0} /\ done + PacketSize(n) = SegmentSize
        <3> HIDE DEF done
        <3> QED
            BY <2>2, <2>4
    <2>6. QED
        <3>1. n \in Nat
            BY <1>2
        <3>2. /\ done + PacketSize(n) <= SegmentSize
              /\ current_packet_in_segment + 1 < n => PacketSize(n) = P
            BY <2>3, <2>5, <3>1
        <3> QED
            BY <2>4, <2>5, <3>1, <3>2 DEF n
<1>7. CASE current_packet_in_segment # n - 1
    <2>1. current_packet_in_segment + 1 <= n - 1 /\ current_packet_in_segment + 1 \in Nat
        BY <1>3, <1>4, <1>7
    <2>2. (current_packet_in_segment + 1) * P <= (n - 1) * P
        BY <1>1, <1>3, <2>1, Monotone
    <2>3. done + P <= (n - 1) * P
        BY <1>1, <2>2, Times
    <2>4. PacketSize(n) = P
        BY <1>7 DEF PacketSize
    <2>5. QED
        BY <1>1, <1>2, <1>3, <1>5, <2>1, <2>3, <2>4 DEF n
<1>8. QED
    BY <1>6, <1>7


(* What the provers need to know of the constants.                          *)
LEMMA InjectorConstants ==
    /\ FPGA_SEGMENT_SIZE \in Nat \ {0} /\ FPGA_PACKET_SIZE \in Nat \ {0}
    /\ FPGA_MAX_PACKET_RETRIES \in Nat \ {0}
    /\ FileSizes \cup {0} \subseteq Nat /\ MaxPolls \in Nat
BY InjectorAssumption

(* The injector starts in its invariant.                                    *)
LEMMA InjectorInitInv == InjectorInit => InjectorInv
<1> SUFFICES ASSUME InjectorInit PROVE InjectorInv
    OBVIOUS
<1>1. total_segments \in Nat
    BY CeilFacts, InjectorConstants DEF InjectorInit, total_segments, CeilDiv
<1>2. InjectorTypes
    <2>1. inbox \in Seq(PlacedFrames) /\ replies \in Seq(FpgaReplies) /\ rbuf \in Seq(FpgaReplies)
        BY DEF InjectorInit
    <2>2. 0 \in 0 .. total_segments /\ 0 \in 0 .. FPGA_MAX_PACKET_RETRIES /\ 0 \in 0 .. MaxPolls + 1
        BY <1>1, InjectorConstants
    <2>3. 0 \in 0 .. 0 /\ 0 \in Nat
        OBVIOUS
    <2>4. QED
        BY <2>1, <2>2, <2>3, Zenon DEF InjectorInit, InjectorTypes, Counters, Flags, Line, States
<1>3. WaitMatches /\ Positioned
    BY DEF InjectorInit, WaitMatches, Positioned
<1>4. QED
    BY <1>2, <1>3 DEF InjectorInv

(* handle_transfer_data in its three cases: the transfer is over, the next  *)
(* segment, the next packet.  The file is always read where the packet's    *)
(* numbers say.                                                             *)
PacketsInSegment == CeilDiv(SegmentSize, FPGA_PACKET_SIZE)
DataFrame == [cmd |-> "data", seg |-> current_segment, pkt |-> current_packet_in_segment,
              from |-> Offset, len |-> PacketSize(PacketsInSegment)]

TransferOver ==
    /\ current_segment >= total_segments
    /\ Enter("TRANSFER_END") /\ UNCHANGED <<taskVars, wireVars, expected_cmd>>
NextSegment ==
    /\ current_segment < total_segments /\ current_packet_in_segment >= PacketsInSegment
    /\ total_packets_in_segment' = PacketsInSegment
    /\ current_segment' = current_segment + 1
    /\ current_packet_in_segment' = 0 /\ retry_count' = 0
    /\ UNCHANGED <<state, thread, bin_pos, wireVars, expected_cmd>>
NextPacket ==
    /\ current_segment < total_segments /\ current_packet_in_segment < PacketsInSegment
    /\ total_packets_in_segment' = PacketsInSegment
    /\ bin_pos' = Offset + PacketSize(PacketsInSegment)
    /\ Transact(DataFrame)
    /\ UNCHANGED <<state, current_segment, current_packet_in_segment, retry_count>>

(* The counters are numbers, and the position they stand for lies within    *)
(* the file.                                                                *)
LEMMA LayoutFacts ==
    ASSUME InjectorInv
    PROVE  /\ file_size \in Nat /\ total_segments \in Nat /\ current_segment \in Nat
           /\ current_segment <= total_segments
           /\ current_packet_in_segment \in Nat /\ total_packets_in_segment \in Nat
           /\ retry_count \in Nat /\ bin_pos \in Nat /\ polls \in Nat
           /\ current_segment * FPGA_SEGMENT_SIZE \in Nat
           /\ current_packet_in_segment * FPGA_PACKET_SIZE \in Nat
           /\ Offset \in Nat
           /\ current_segment < total_segments =>
                 SegmentSize \in Nat \ {0} /\ PacketsInSegment \in Nat
<1> USE InjectorConstants
<1>1. file_size \in Nat
    BY DEF InjectorInv, InjectorTypes, Counters
<1>2. total_segments \in Nat
    BY <1>1, CeilFacts DEF total_segments, CeilDiv
<1>3. /\ current_segment \in Nat /\ current_segment <= total_segments
      /\ current_packet_in_segment \in Nat /\ total_packets_in_segment \in Nat
      /\ retry_count \in Nat /\ bin_pos \in Nat /\ polls \in Nat
    BY <1>2 DEF InjectorInv, InjectorTypes, Counters
<1>4. /\ current_segment * FPGA_SEGMENT_SIZE \in Nat
      /\ current_packet_in_segment * FPGA_PACKET_SIZE \in Nat
    BY <1>3, Monotone
<1>5. Offset \in Nat
    BY <1>4 DEF Offset
<1>6. current_segment < total_segments => SegmentSize \in Nat \ {0} /\ PacketsInSegment \in Nat
    BY <1>1, <1>3, SegmentFacts, CeilFacts DEF PacketsInSegment
<1>7. QED
    BY <1>1, <1>2, <1>3, <1>4, <1>5, <1>6

(* The branches of do_send_data: no segment is left, a new segment begins   *)
(* or the next packet of this one goes; whichever it is, the bytes sent are *)
(* those of Offset.                                                         *)
LEMMA SendDataCases ==
    ASSUME InjectorInv, SendData
    PROVE  /\ state = "TRANSFER_DATA" /\ thread = "loop" /\ ~abort_requested
           /\ UNCHANGED <<in_progress, abort_requested, file_size, polls, injections, late, cleanVars>>
           /\ TransferOver \/ NextSegment \/ NextPacket
<1> USE InjectorConstants, LayoutFacts
<1> DEFINE n   == IF current_packet_in_segment = 0 THEN PacketsInSegment
                  ELSE total_packets_in_segment
           pos == IF retry_count > 0 THEN Offset
                  ELSE IF current_packet_in_segment = 0
                       THEN current_segment * FPGA_SEGMENT_SIZE ELSE bin_pos
<1>1. /\ state = "TRANSFER_DATA" /\ thread = "loop" /\ ~abort_requested
      /\ UNCHANGED <<in_progress, abort_requested, file_size, polls, injections, late, cleanVars>>
    BY DEF SendData, At
<1>2. CASE current_segment >= total_segments
    BY <1>1, <1>2 DEF SendData, TransferOver
<1>3. CASE current_segment < total_segments
    <2>1. ~(current_segment >= total_segments)
        BY <1>3
    <2>2. n = PacketsInSegment
        BY <1>1 DEF InjectorInv, Positioned, PacketsInSegment
    <2>3. /\ total_packets_in_segment' = n
          /\ IF current_packet_in_segment >= n
             THEN /\ current_segment' = current_segment + 1
                  /\ current_packet_in_segment' = 0 /\ retry_count' = 0
                  /\ UNCHANGED <<state, thread, bin_pos, wireVars, expected_cmd>>
             ELSE /\ bin_pos' = pos + PacketSize(n)
                  /\ Transact([cmd |-> "data", seg |-> current_segment,
                               pkt |-> current_packet_in_segment,
                               from |-> pos, len |-> PacketSize(n)])
                  /\ UNCHANGED <<state, current_segment, current_packet_in_segment, retry_count>>
        BY <2>1 DEF SendData, PacketsInSegment, CeilDiv, Offset
    <2>4. CASE current_packet_in_segment >= n
        BY <1>1, <1>3, <2>2, <2>3, <2>4 DEF NextSegment
    <2>5. CASE current_packet_in_segment < n
        <3>1. ~(current_packet_in_segment >= n)
            BY <1>3, <2>2, <2>5
        <3>2. pos = Offset
            <4>1. current_packet_in_segment = 0 => Offset = current_segment * FPGA_SEGMENT_SIZE
                BY DEF Offset
            <4>2. current_packet_in_segment > 0 /\ retry_count = 0 => bin_pos = Offset
                BY <1>1, <1>3, <2>5 DEF InjectorInv, Positioned
            <4>3. QED
                BY <4>1, <4>2
        <3> HIDE DEF n, pos
        <3>3. QED
            BY <1>1, <1>3, <2>2, <2>3, <2>5, <3>1, <3>2 DEF NextPacket, DataFrame
    <2>6. QED
        BY <1>3, <2>2, <2>4, <2>5
<1>4. QED
    BY <1>2, <1>3

(* Every step keeps the thread's place and the state machine together.      *)
LEMMA MatchStep == InjectorInv /\ [InjectorNext]_injectorVars => WaitMatches'
<1> SUFFICES ASSUME InjectorInv, [InjectorNext]_injectorVars PROVE WaitMatches'
    OBVIOUS
<1> USE InjectorConstants DEF InjectorInv, WaitMatches, ReplyCmd, taskVars, wireVars, cleanVars
<1>1. CASE Start
    BY <1>1 DEF Start
<1>2. CASE NotifyPre \/ ParseMetadata \/ ReadFails \/ SendReconfig \/ ThreadExit
    BY <1>2 DEF NotifyPre, ParseMetadata, ReadFails, SendReconfig, ThreadExit, At, Enter
<1>3. CASE SendStart \/ SendEnd \/ SendQuery
    BY <1>3 DEF SendStart, SendEnd, SendQuery, At, Enter, Transact
<1>4. CASE SendData
    BY <1>4 DEF SendData, At, Enter, Transact
<1>5. CASE SendAbort
    BY <1>5 DEF SendAbort, Enter
<1>6. CASE RecvReply \/ RecvTimeout
    <2>1. PICK o : After(o)
        BY <1>6 DEF RecvReply, RecvTimeout
    <2>2. UNCHANGED <<in_progress, file_size, expected_cmd>> /\ thread = "wait"
        BY <1>6 DEF RecvReply, RecvTimeout
    <2>3. QED
        BY <2>1, <2>2 DEF After, AfterStart, AfterData, AfterEnd, AfterQuery, GiveUp, Enter,
                          PollAgain
<1>7. CASE FpgaHandle \/ ReplyArrives \/ Cleanup \/ UNCHANGED injectorVars
    BY <1>7 DEF FpgaHandle, ReplyArrives, Cleanup, CleanupBegin, CleanupPoll, CleanupJoin, CleanupDestroy,
                injectorVars
<1>8. QED
    BY <1>1, <1>2, <1>3, <1>4, <1>5, <1>6, <1>7 DEF InjectorNext, ThreadStep


(* What a reply, or its absence, does to the counters.                      *)
LEMMA PositionedStep == InjectorInv /\ [InjectorNext]_injectorVars => Positioned'
<1> SUFFICES ASSUME InjectorInv, [InjectorNext]_injectorVars PROVE Positioned'
    OBVIOUS
<1> USE InjectorConstants
<1> DEFINE S == current_segment * FPGA_SEGMENT_SIZE
           P == current_packet_in_segment * FPGA_PACKET_SIZE
<1> USE LayoutFacts
<1>1. CASE UNCHANGED <<state, file_size, taskVars>> /\ (thread' = thread \/ thread' = "none")
           /\ expected_cmd' = expected_cmd
    BY <1>1 DEF InjectorInv, Positioned, SegmentSize, total_segments, Offset, taskVars
<1>2. CASE state' # "TRANSFER_DATA" /\ UNCHANGED <<current_segment, retry_count>>
           /\ (state' \in {"PARSING_METADATA", "TRANSFER_START"} =>
                  state \in {"PARSING_METADATA", "TRANSFER_START"})
    BY <1>2 DEF InjectorInv, Positioned
<1>3. CASE Start
    BY <1>3 DEF Start, Positioned
<1>4. CASE SendData
    <2>1. state = "TRANSFER_DATA" /\ thread = "loop" /\ file_size' = file_size
        BY <1>4, SendDataCases
    <2>2. CASE TransferOver
        BY <1>2, <2>2 DEF TransferOver, Enter, taskVars
    <2>3. CASE NextSegment
        BY <2>1, <2>3 DEF NextSegment, Positioned
    <2>4. CASE NextPacket
        <3> DEFINE n == PacketsInSegment
        <3>1. /\ total_packets_in_segment' = n /\ bin_pos' = Offset + PacketSize(n)
              /\ current_segment < total_segments /\ current_packet_in_segment < n
              /\ thread' = "wait" /\ expected_cmd' = "data_ack"
              /\ UNCHANGED <<state, current_segment, current_packet_in_segment, retry_count>>
            BY <2>4 DEF NextPacket, Transact, DataFrame, ReplyCmd
        <3>2. current_packet_in_segment + 1 < n => PacketSize(n) = FPGA_PACKET_SIZE
            BY <3>1, PacketFacts DEF PacketsInSegment
        <3>3. SegmentSize' = SegmentSize /\ total_segments' = total_segments /\ Offset' = Offset
            BY <2>1, <3>1 DEF SegmentSize, total_segments, Offset
        <3>4. retry_count < FPGA_MAX_PACKET_RETRIES
            BY <2>1 DEF InjectorInv, Positioned
        <3> HIDE DEF n
        <3>5. n \in Nat
            BY <3>1 DEF n
        <3>6. current_packet_in_segment + 1 = n \/ bin_pos' = Offset + FPGA_PACKET_SIZE
            BY <3>1, <3>2, <3>5
        <3>7. QED
            BY <2>1, <3>1, <3>3, <3>4, <3>6 DEF Positioned, n, PacketsInSegment
    <2>5. QED
        BY <1>4, <2>2, <2>3, <2>4, SendDataCases
<1>5. CASE RecvReply \/ RecvTimeout
    <2>1. PICK o : After(o)
        BY <1>5 DEF RecvReply, RecvTimeout
    <2>2. UNCHANGED <<file_size, expected_cmd>> /\ thread = "wait"
        BY <1>5 DEF RecvReply, RecvTimeout
    <2>3. CASE expected_cmd = "data_ack"
        <3>1. state = "TRANSFER_DATA"
            BY <2>2, <2>3 DEF InjectorInv, WaitMatches
        <3>2. AfterData(o)
            BY <2>1, <2>3 DEF After
        <3>3. UNCHANGED <<state, current_segment, total_packets_in_segment, bin_pos>>
            BY <3>2 DEF AfterData
        <3>4. SegmentSize' = SegmentSize /\ total_segments' = total_segments
            BY <2>2, <3>3 DEF SegmentSize, total_segments
        <3>5. /\ current_segment < total_segments
              /\ total_packets_in_segment = CeilDiv(SegmentSize, FPGA_PACKET_SIZE)
              /\ current_packet_in_segment < total_packets_in_segment
              /\ \/ current_packet_in_segment + 1 = total_packets_in_segment
                 \/ bin_pos = S + P + FPGA_PACKET_SIZE
            BY <2>2, <2>3, <3>1 DEF InjectorInv, Positioned, Offset
        <3>6. CASE o = "ok"
            <4>1. /\ current_packet_in_segment' = current_packet_in_segment + 1
                  /\ retry_count' = 0 /\ thread' = "loop"
                BY <3>2, <3>6 DEF AfterData
            <4>2. Offset' = S + P + FPGA_PACKET_SIZE
                <5>1. (current_packet_in_segment + 1) * FPGA_PACKET_SIZE = P + FPGA_PACKET_SIZE
                    BY Times
                <5>2. QED
                    BY <3>3, <4>1, <5>1 DEF Offset
            <4>3. QED
                BY <3>1, <3>3, <3>4, <3>5, <4>1, <4>2 DEF Positioned
        <3>7. CASE o # "ok"
            <4>1. /\ retry_count' = retry_count + 1 /\ UNCHANGED current_packet_in_segment
                  /\ thread' = IF retry_count + 1 >= FPGA_MAX_PACKET_RETRIES
                               THEN "abort" ELSE "loop"
                BY <3>2, <3>7 DEF AfterData
            <4>2. QED
                BY <3>1, <3>3, <3>4, <3>5, <4>1 DEF Positioned
        <3>8. QED
            BY <3>6, <3>7
    <2>4. CASE expected_cmd # "data_ack"
        <3>1. CASE state' = "TRANSFER_DATA" /\ state # "TRANSFER_DATA"
            <4>1. /\ current_segment' = 0 /\ current_packet_in_segment' = 0 /\ retry_count' = 0
                  /\ thread' = "loop"
                BY <2>1, <2>4, <3>1 DEF After, AfterStart, AfterEnd, AfterQuery, GiveUp, Enter,
                                        PollAgain
            <4>2. QED
                BY <3>1, <4>1 DEF Positioned
        <3>2. CASE state' # "TRANSFER_DATA"
            <4>1. UNCHANGED <<current_segment, retry_count>> /\ state' \in {state, "FAILED",
                        "RECONFIG_START", "COMPLETED"}
                BY <2>1, <2>4, <3>2 DEF After, AfterStart, AfterEnd, AfterQuery, GiveUp, Enter,
                                        PollAgain, taskVars
            <4>2. QED
                BY <1>2, <3>2, <4>1
        <3>3. CASE state = "TRANSFER_DATA" /\ state' = "TRANSFER_DATA"
            <4>1. expected_cmd = "abort_ack"
                BY <2>2, <2>4, <3>3 DEF InjectorInv, WaitMatches, InjectorTypes, Flags, AckCmds
            <4>2. QED
                BY <2>1, <2>4, <3>3, <4>1 DEF After, GiveUp, Enter
        <3>4. QED
            BY <3>1, <3>2, <3>3
    <2>5. QED
        BY <2>3, <2>4
<1>6. CASE NotifyPre \/ ParseMetadata \/ ReadFails \/ SendReconfig
    BY <1>2, <1>6 DEF NotifyPre, ParseMetadata, ReadFails, SendReconfig, At, Enter, taskVars,
                      InjectorInv, WaitMatches
<1>7. CASE SendStart \/ SendEnd \/ SendQuery
    BY <1>2, <1>7 DEF SendStart, SendEnd, SendQuery, At, Enter, taskVars
<1>8. CASE SendAbort
    <2>1. /\ UNCHANGED <<file_size, taskVars>> /\ thread = "abort"
          /\ \/ state' = "FAILED"
             \/ UNCHANGED state /\ thread' = "wait" /\ expected_cmd' = "abort_ack"
        BY <1>8 DEF SendAbort, Enter, ReplyCmd
    <2>2. QED
        BY <1>2, <2>1 DEF InjectorInv, WaitMatches, Positioned, taskVars, SegmentSize, total_segments
<1>9. CASE ThreadExit \/ FpgaHandle \/ ReplyArrives \/ Cleanup \/ UNCHANGED injectorVars
    BY <1>1, <1>9 DEF ThreadExit, FpgaHandle, ReplyArrives, Cleanup, CleanupBegin, CleanupPoll,
                      CleanupJoin, CleanupDestroy, injectorVars
<1>10. QED
    BY <1>3, <1>4, <1>5, <1>6, <1>7, <1>8, <1>9 DEF InjectorNext, ThreadStep

(* A sequence keeps the type of its elements when one is sent or taken.     *)
LEMMA SeqKept ==
    ASSUME NEW E, NEW q \in Seq(E)
    PROVE  /\ \A e \in E : Append(q, e) \in Seq(E) /\ q \o <<e, e>> \in Seq(E)
           /\ q # <<>> => Tail(q) \in Seq(E) /\ Head(q) \in E /\ Last(q) \in E
           /\ <<>> \in Seq(E)
<1>1. \A e \in E : Append(q, e) \in Seq(E) /\ <<e, e>> \in Seq(E)
    OBVIOUS
<1>2. \A e \in E : q \o <<e, e>> \in Seq(E)
    BY <1>1
<1>3. q # <<>> => Tail(q) \in Seq(E) /\ Head(q) \in E /\ Last(q) \in E
    BY DEF Last
<1>4. QED
    BY <1>1, <1>2, <1>3

(* Sequences of at most two frames: a command sent, or answered twice.      *)
LEMMA OneOrTwo ==
    ASSUME NEW E, NEW e \in E
    PROVE  /\ <<e>> \in Seq(E) /\ <<e, e>> \in Seq(E) /\ <<>> \in Seq(E)
           /\ Len(<<e>>) = 1 /\ Append(<<>>, e) = <<e>> /\ <<>> \o <<e, e>> = <<e, e>>
OBVIOUS

(* A frame put on a line makes it one longer.                               *)
LEMMA AppendLen ==
    ASSUME NEW E, NEW q \in Seq(E), NEW e \in E
    PROVE  Append(q, e) \in Seq(E) /\ Len(Append(q, e)) = Len(q) + 1 /\ Len(q) \in Nat
OBVIOUS

(* Every step keeps the counters in their ranges.                           *)
LEMMA CountersStep == InjectorInv /\ [InjectorNext]_injectorVars => Counters'
<1> SUFFICES ASSUME InjectorInv, [InjectorNext]_injectorVars PROVE Counters'
    OBVIOUS
<1> USE InjectorConstants
<1>a. Counters
    BY DEF InjectorInv, InjectorTypes
<1>b. \A n \in Nat : (n + FPGA_SEGMENT_SIZE - 1) \div FPGA_SEGMENT_SIZE \in Nat
    BY CeilFacts DEF CeilDiv
<1>c. file_size \in Nat /\ total_segments \in Nat
    BY <1>a, <1>b DEF Counters, total_segments
<1>0. crossed' \in Nat
    <2>1. CASE SendStart \/ SendEnd \/ SendQuery \/ SendAbort
        BY <1>a, <2>1 DEF SendStart, SendEnd, SendQuery, SendAbort, Transact, Crossing, Counters,
                          wireVars
    <2>2. CASE SendData
        BY <1>a, <2>2, SendDataCases
            DEF TransferOver, NextSegment, NextPacket, Transact, Crossing, Counters, wireVars
    <2>3. CASE Start \/ NotifyPre \/ ParseMetadata \/ ReadFails \/ SendReconfig \/ ThreadExit
               \/ RecvReply \/ RecvTimeout
        BY <1>a, <2>3 DEF Start, NotifyPre, ParseMetadata, ReadFails, SendReconfig, ThreadExit,
                          RecvReply, RecvTimeout, Counters, wireVars
    <2>4. CASE FpgaHandle \/ ReplyArrives \/ Cleanup \/ UNCHANGED injectorVars
        BY <1>a, <2>4 DEF FpgaHandle, ReplyArrives, Cleanup, CleanupBegin, CleanupPoll,
                          CleanupJoin, CleanupDestroy, injectorVars, Counters, wireVars
    <2>5. QED
        BY <2>1, <2>2, <2>3, <2>4 DEF InjectorNext, ThreadStep
<1>1. CASE UNCHANGED <<file_size, taskVars>> /\ polls' \in {polls, 0}
    <2>1. total_segments' = total_segments
        BY <1>1 DEF total_segments
    <2>2. polls' \in 0 .. MaxPolls + 1
        BY <1>1, <1>a DEF Counters
    <2>3. QED
        BY <1>0, <1>1, <1>a, <2>1, <2>2 DEF Counters, taskVars
<1>2. CASE Start
    <2>1. file_size' \in FileSizes /\ current_segment' = 0 /\ retry_count' = 0
          /\ UNCHANGED <<current_packet_in_segment, total_packets_in_segment, bin_pos, polls>>
        BY <1>2 DEF Start
    <2>2. total_segments' \in Nat
        BY <1>b, <2>1 DEF total_segments
    <2>3. QED
        BY <1>0, <1>a, <2>1, <2>2 DEF Counters
<1>3. CASE SendData
    <2>1. UNCHANGED <<file_size, polls>>
        BY <1>3, SendDataCases
    <2>2. total_segments' = total_segments
        BY <2>1 DEF total_segments
    <2>3. CASE TransferOver
        BY <1>1, <2>1, <2>3 DEF TransferOver
    <2>4. CASE NextSegment
        <3>1. current_segment + 1 \in 0 .. total_segments /\ PacketsInSegment \in Nat
            BY <2>4, LayoutFacts DEF NextSegment
        <3>2. QED
            BY <1>0, <1>a, <2>1, <2>2, <2>4, <3>1 DEF Counters, NextSegment
    <2>5. CASE NextPacket
        <3>1. /\ PacketsInSegment \in Nat
              /\ current_packet_in_segment \in 0 .. PacketsInSegment
              /\ PacketSize(PacketsInSegment) \in Nat
            BY <2>5, LayoutFacts, PacketFacts DEF NextPacket, PacketsInSegment
        <3>2. bin_pos' \in Nat
            BY <2>5, <3>1, LayoutFacts DEF NextPacket
        <3>3. QED
            BY <1>0, <1>a, <2>1, <2>2, <2>5, <3>1, <3>2 DEF Counters, NextPacket
    <2>6. QED
        BY <1>3, <2>3, <2>4, <2>5, SendDataCases
<1>4. CASE RecvReply \/ RecvTimeout
    <2>1. PICK o : After(o)
        BY <1>4 DEF RecvReply, RecvTimeout
    <2>2. UNCHANGED <<file_size, expected_cmd>> /\ thread = "wait"
        BY <1>4 DEF RecvReply, RecvTimeout
    <2>3. total_segments' = total_segments
        BY <2>2 DEF total_segments
    <2>4. CASE expected_cmd = "data_ack"
        <3>1. AfterData(o)
            BY <2>1, <2>4 DEF After
        <3>2. /\ current_packet_in_segment < total_packets_in_segment
              /\ retry_count < FPGA_MAX_PACKET_RETRIES
            BY <2>2, <2>4 DEF InjectorInv, Positioned, WaitMatches
        <3>3. QED
            BY <1>0, <1>a, <2>2, <2>3, <3>1, <3>2 DEF AfterData, Counters
    <2>5. CASE expected_cmd # "data_ack"
        <3>1. CASE AfterStart(o) /\ expected_cmd = "start_ack"
            <4>1. polls <= MaxPolls
                BY <2>2, <3>1 DEF InjectorInv, WaitMatches
            <4>2. QED
                BY <1>0, <1>a, <1>c, <2>2, <2>3, <3>1, <4>1 DEF AfterStart, Counters, PollAgain, GiveUp, taskVars
        <3>2. CASE AfterQuery(o) /\ expected_cmd = "reconfig_ack"
            <4>1. polls <= MaxPolls
                BY <2>2, <3>2 DEF InjectorInv, WaitMatches
            <4>2. QED
                BY <1>0, <1>a, <1>c, <2>2, <2>3, <3>2, <4>1 DEF AfterQuery, Counters, PollAgain, GiveUp, taskVars
        <3>3. CASE AfterEnd(o) \/ GiveUp
            BY <1>1, <2>2, <3>3 DEF AfterEnd, GiveUp
        <3>4. QED
            BY <2>1, <2>5, <3>1, <3>2, <3>3 DEF After
    <2>6. QED
        BY <2>4, <2>5
<1>5. CASE NotifyPre \/ ParseMetadata \/ ReadFails \/ SendReconfig \/ ThreadExit \/ SendStart
           \/ SendEnd \/ SendQuery \/ SendAbort
    BY <1>1, <1>5 DEF NotifyPre, ParseMetadata, ReadFails, SendReconfig, ThreadExit, SendStart,
                      SendEnd, SendQuery, SendAbort
<1>6. CASE FpgaHandle \/ ReplyArrives \/ Cleanup \/ UNCHANGED injectorVars
    BY <1>1, <1>6 DEF FpgaHandle, ReplyArrives, Cleanup, CleanupBegin, CleanupPoll, CleanupJoin, CleanupDestroy,
                      injectorVars
<1>7. QED
    BY <1>2, <1>3, <1>4, <1>5, <1>6 DEF InjectorNext, ThreadStep

(* Every step keeps the flags and the thread's place in their types.        *)
LEMMA FlagsStep == InjectorInv /\ [InjectorNext]_injectorVars => Flags'
<1> SUFFICES ASSUME InjectorInv, [InjectorNext]_injectorVars PROVE Flags'
    OBVIOUS
<1> USE DEF InjectorInv, InjectorTypes, Flags, States, AckCmds, ReplyCmd, cleanVars, Enter, At
<1>0. CASE Start
    BY <1>0, ZenonT(60) DEF Start
<1>1. CASE NotifyPre \/ ParseMetadata \/ ReadFails \/ SendReconfig \/ ThreadExit
    <2>1. CASE NotifyPre \/ ParseMetadata \/ ReadFails \/ SendReconfig
        BY <2>1 DEF NotifyPre, ParseMetadata, ReadFails, SendReconfig
    <2>2. CASE ThreadExit
        BY <2>2, ZenonT(60) DEF ThreadExit
    <2>3. QED
        BY <1>1, <2>1, <2>2
<1>2. CASE SendStart \/ SendEnd \/ SendQuery
    BY <1>2 DEF SendStart, SendEnd, SendQuery, Transact
<1>3. CASE SendData
    BY <1>3, SendDataCases DEF TransferOver, NextSegment, NextPacket, Transact, DataFrame
<1>4. CASE SendAbort
    BY <1>4 DEF SendAbort
<1>5. CASE RecvReply \/ RecvTimeout
    <2>1. PICK o : After(o)
        BY <1>5 DEF RecvReply, RecvTimeout
    <2>2. UNCHANGED <<in_progress, abort_requested, expected_cmd, late, cleanVars>>
        BY <1>5 DEF RecvReply, RecvTimeout
    <2>3. QED
        BY <2>1, <2>2 DEF After, AfterStart, AfterData, AfterEnd, AfterQuery, GiveUp, PollAgain
<1>6. CASE Cleanup
    BY <1>6, ZenonT(60) DEF Cleanup, CleanupBegin, CleanupPoll, CleanupJoin, CleanupDestroy
<1>7. CASE FpgaHandle \/ ReplyArrives \/ UNCHANGED injectorVars
    BY <1>7 DEF FpgaHandle, ReplyArrives, injectorVars
<1>8. QED
    BY <1>0, <1>1, <1>2, <1>3, <1>4, <1>5, <1>6, <1>7 DEF InjectorNext, ThreadStep

(* The frame of the current packet is a frame in place.                     *)
LEMMA DataFramePlaced ==
    ASSUME InjectorInv, current_segment < total_segments,
           current_packet_in_segment < PacketsInSegment
    PROVE  DataFrame \in PlacedFrames
<1>1. PacketSize(PacketsInSegment) \in Nat
    BY LayoutFacts, PacketFacts DEF PacketsInSegment
<1>2. DataFrame \in [cmd : {"data"}, seg : Nat, pkt : Nat, from : Nat, len : Nat]
    BY <1>1, LayoutFacts DEF DataFrame
<1>3. DataFrame.from = DataFrame.seg * FPGA_SEGMENT_SIZE + DataFrame.pkt * FPGA_PACKET_SIZE
    BY DEF DataFrame, Offset
<1>4. QED
    BY <1>2, <1>3 DEF PlacedFrames, Frames

(* A transaction begins.                                                    *)
LEMMA TransactLine ==
    ASSUME Line, NEW f \in PlacedFrames, Transact(f) PROVE Line'
<1>1. Append(inbox, f) \in Seq(PlacedFrames) /\ inbox \in Seq(PlacedFrames)
    BY SeqKept DEF Line
<1>2. inbox' \in Seq(PlacedFrames)
    BY <1>1 DEF Transact
<1>3. rbuf' = <<>> /\ replies' = replies
    BY DEF Transact
<1>4. QED
    BY <1>2, <1>3 DEF Line

(* Every step puts only well-placed frames on the line, and only replies    *)
(* come back.                                                               *)
LEMMA LineStep == InjectorInv /\ [InjectorNext]_injectorVars => Line'
<1> SUFFICES ASSUME InjectorInv, [InjectorNext]_injectorVars PROVE Line'
    OBVIOUS
<1>a. Line
    BY DEF InjectorInv, InjectorTypes
<1>b. [cmd |-> "start"] \in PlacedFrames /\ [cmd |-> "end"] \in PlacedFrames
      /\ [cmd |-> "query"] \in PlacedFrames /\ [cmd |-> "abort"] \in PlacedFrames
    BY DEF PlacedFrames, Frames, Commands
<1>1. CASE UNCHANGED wireVars
    BY <1>1, <1>a DEF Line, wireVars
<1>2. CASE SendStart \/ SendEnd \/ SendQuery
    BY <1>1, <1>2, <1>a, <1>b, TransactLine DEF SendStart, SendEnd, SendQuery
<1>3. CASE SendData
    <2>1. CASE NextPacket
        BY <1>a, <2>1, DataFramePlaced, TransactLine DEF NextPacket
    <2>2. QED
        BY <1>1, <1>3, <2>1, SendDataCases DEF TransferOver, NextSegment, wireVars
<1>4. CASE SendAbort
    BY <1>1, <1>4, <1>a, <1>b, SeqKept DEF SendAbort, Line
<1>5. CASE RecvReply
    BY <1>5, <1>a DEF RecvReply, Line
<1>6. CASE FpgaHandle
    <2>1. Head(inbox) \in PlacedFrames /\ Tail(inbox) \in Seq(PlacedFrames)
        BY <1>6, <1>a, SeqKept DEF FpgaHandle, Line
    <2>2. Head(inbox).cmd \in Commands
        BY <2>1 DEF PlacedFrames, Frames, Commands
    <2>3. \A c \in Commands, r \in {"ok", "busy", "bad"} : [cmd |-> ReplyCmd[c], result |-> r] \in FpgaReplies
        BY DEF Commands, ReplyCmd, FpgaReplies, AckCmds
    <2>4. replies' \in Seq(FpgaReplies)
        <3>1. PICK r \in {"ok", "busy", "bad"} :
                 replies' \in {replies, Append(replies, [cmd |-> ReplyCmd[Head(inbox).cmd], result |-> r])}
            BY <1>6 DEF FpgaHandle
        <3>2. [cmd |-> ReplyCmd[Head(inbox).cmd], result |-> r] \in FpgaReplies
            BY <2>2, <2>3
        <3>3. QED
            BY <1>a, <3>1, <3>2, SMTT(30) DEF Line
    <2>5. QED
        BY <1>6, <1>a, <2>1, <2>4 DEF FpgaHandle, Line
<1>7. CASE ReplyArrives
    BY <1>7, <1>a, SeqKept DEF ReplyArrives, Line
<1>0. CASE Start
    BY <1>0, <1>a DEF Start, Line
<1>8. CASE NotifyPre \/ ParseMetadata \/ ReadFails \/ SendReconfig \/ ThreadExit
           \/ RecvTimeout \/ Cleanup \/ UNCHANGED injectorVars
    BY <1>1, <1>8 DEF NotifyPre, ParseMetadata, ReadFails, SendReconfig, ThreadExit,
            RecvTimeout, Cleanup, CleanupBegin, CleanupPoll, CleanupJoin, CleanupDestroy, injectorVars, wireVars
<1>9. QED
    BY <1>0, <1>2, <1>3, <1>4, <1>5, <1>6, <1>7, <1>8 DEF InjectorNext, ThreadStep

(* The injector's invariant holds in every reachable state: the counters,   *)
(* the read position of the file and the thread's place go together.        *)
THEOREM InjectorInvTheorem == InjectorSpec => []InjectorInv
<1>1. InjectorInv /\ [InjectorNext]_injectorVars => InjectorInv'
    BY MatchStep, PositionedStep, CountersStep, FlagsStep, LineStep DEF InjectorInv, InjectorTypes
<1>2. QED
    BY <1>1, InjectorInitInv, PTL DEF InjectorSpec

(* The injector's type invariant, for every file size, segment and packet   *)
(* size.                                                                    *)
THEOREM InjectorTypeTheorem == InjectorSpec => []InjectorTypeOK
<1>1. InjectorInv => InjectorTypeOK
    BY DEF InjectorInv, InjectorTypes, Counters, Flags, InjectorTypeOK
<1>2. QED
    BY <1>1, InjectorInvTheorem, PTL

(* Every packet on its way to the FPGA carries the bytes of the file that   *)
(* its segment and packet numbers promise, retries and their fseek included *)
(* (do_send_data).                                                          *)
THEOREM DataInPlaceTheorem == InjectorSpec => []DataInPlace
<1>1. InjectorInv => DataInPlace
    <2> SUFFICES ASSUME InjectorInv, NEW i \in 1 .. Len(inbox), inbox[i].cmd = "data"
                 PROVE  inbox[i].from = inbox[i].seg * FPGA_SEGMENT_SIZE
                                            + inbox[i].pkt * FPGA_PACKET_SIZE
        BY DEF DataInPlace
    <2>1. inbox[i] \in PlacedFrames
        BY DEF InjectorInv, InjectorTypes, Line
    <2>2. QED
        BY <2>1 DEF PlacedFrames
<1>2. QED
    BY <1>1, InjectorInvTheorem, PTL

--------------------
(* Every step keeps the cleanup's promise; an injection that starts once    *)
(* fpga_firmware_injection_cleanup has begun is marked late.                *)
LEMMA CleanStep ==
    InjectorInv /\ CleanInv /\ [InjectorNext]_injectorVars => CleanInv'
<1> SUFFICES ASSUME InjectorInv, CleanInv, [InjectorNext]_injectorVars
             PROVE  CleanInv'
    OBVIOUS
<1> USE DEF CleanInv, cleanVars
<1>1. CASE Start
    <2>1. late \/ cleanup_pc # "no" => late'
        BY <1>1 DEF Start
    <2>2. UNCHANGED <<cleanup_pc, mutex_alive>> /\ thread = "none"
        BY <1>1 DEF Start, InjectorInv, WaitMatches
    <2>3. thread_handle' = 1 \/ UNCHANGED <<thread, thread_handle>>
        BY <1>1 DEF Start
    <2>4. QED
        BY <2>1, <2>2, <2>3
<1>2. CASE ThreadStep
    <2>1. UNCHANGED <<cleanVars, late>>
        BY <1>2, SendDataCases DEF ThreadStep, NotifyPre, ParseMetadata, ReadFails, SendReconfig,
            ThreadExit, SendStart, SendEnd, SendQuery, SendAbort, RecvReply, RecvTimeout
    <2>2. thread # "none"
        BY <1>2, SendDataCases DEF ThreadStep, NotifyPre, ParseMetadata, ReadFails, SendReconfig,
            ThreadExit, SendStart, SendEnd, SendQuery, SendAbort, RecvReply, RecvTimeout, At
    <2>3. QED
        BY <2>1, <2>2
<1>3. CASE Cleanup
    BY <1>3 DEF Cleanup, CleanupBegin, CleanupPoll, CleanupJoin, CleanupDestroy
<1>4. CASE FpgaHandle \/ ReplyArrives \/ UNCHANGED injectorVars
    BY <1>4 DEF FpgaHandle, ReplyArrives, injectorVars
<1>5. QED
    BY <1>1, <1>2, <1>3, <1>4 DEF InjectorNext

(* fpga_firmware_injection_cleanup destroys the mutex only when no          *)
(* injection thread is left, or one was started behind its back.            *)
THEOREM CleanupSafeTheorem == InjectorSpec => []CleanupSafe
<1>1. InjectorInit => CleanInv
    BY DEF InjectorInit, CleanInv
<1>2. CleanInv => CleanupSafe
    BY DEF CleanInv, CleanupSafe
<1>3. QED
    BY <1>1, <1>2, CleanStep, InjectorInvTheorem, PTL DEF InjectorSpec

--------------------
(* Bytes 0 .. n - 1 of the file, each in its place                          *)
Diag(n) == {<<k, k>> : k \in 0 .. n - 1}

InTransfer == {"TRANSFER_DATA", "TRANSFER_END", "RECONFIG_START", "RECONFIG_POLLING", "COMPLETED"}

OwnFrames  == {f \in PlacedFrames : ReplyCmd[f.cmd] = expected_cmd}
OwnReplies == {r \in FpgaReplies : r.cmd = expected_cmd}
InFile     == {f \in PlacedFrames : /\ f.cmd # "start"
                                    /\ f.cmd = "data" => f.from + f.len <= file_size}
NotOk      == {r \in FpgaReplies : r.result # "ok"}

(* While the thread waits only its own command and that command's replies   *)
(* are under way, and no second one.                                        *)
Serial ==
    thread = "wait" =>
        /\ inbox \in Seq(OwnFrames)
        /\ replies \in Seq(OwnReplies) /\ rbuf \in Seq(OwnReplies)
        /\ expected_cmd # "abort_ack" => Len(inbox) + Len(replies) + Len(rbuf) <= 1

(* The bytes that have been acknowledged                                    *)
Progress ==
    IF current_segment >= total_segments THEN file_size
    ELSE IF current_packet_in_segment >= PacketsInSegment
         THEN current_segment * FPGA_SEGMENT_SIZE + SegmentSize
         ELSE Offset

Unanswered == replies \in Seq(NotOk) /\ rbuf \in Seq(NotOk)

WithinFile ==
    state \in InTransfer => fpga_got \subseteq Diag(file_size) /\ inbox \in Seq(InFile)
HasProgress ==
    /\ state = "TRANSFER_DATA" => Diag(Progress) \subseteq fpga_got
    /\ state \in InTransfer \ {"TRANSFER_DATA"} => Diag(file_size) \subseteq fpga_got
AnswerCovers ==
    /\ thread = "wait" /\ expected_cmd = "start_ack" => Unanswered \/ fpga_got = {}
    /\ thread = "wait" /\ expected_cmd = "data_ack" =>
          /\ inbox \in Seq({DataFrame})
          /\ Unanswered \/ Diag(Offset + PacketSize(PacketsInSegment)) \subseteq fpga_got

DeliveryInv == Serial /\ WithinFile /\ HasProgress /\ AnswerCovers

(* What the FPGA does with the command it takes.                            *)
FpgaReply(r) == [cmd |-> ReplyCmd[Head(inbox).cmd], result |-> r]

(* What the FPGA does with one command: it takes it, perhaps keeps the      *)
(* bytes, and perhaps answers, with ok only if it kept them.                *)
LEMMA FpgaCases ==
    ASSUME InjectorInv, FpgaHandle
    PROVE  /\ inbox # <<>> /\ inbox' = Tail(inbox) /\ Head(inbox) \in PlacedFrames
           /\ UNCHANGED <<state, file_size, taskVars, thread, expected_cmd, rbuf>>
           /\ \E r \in {"ok", "busy", "bad"} :
                /\ FpgaReply(r) \in FpgaReplies
                /\ replies' = replies \/ replies' = Append(replies, FpgaReply(r))
                /\ Head(inbox).cmd = "data" /\ r = "ok" =>
                      fpga_got' = fpga_got \cup BytesOf(Head(inbox))
                /\ Head(inbox).cmd = "start" /\ r = "ok" => fpga_got' = {}
                /\ Head(inbox).cmd \notin {"data", "start"} \/ r # "ok" => fpga_got' = fpga_got
<1>1. /\ inbox # <<>> /\ inbox' = Tail(inbox)
      /\ UNCHANGED <<state, file_size, taskVars, thread, expected_cmd, rbuf>>
    BY Zenon DEF FpgaHandle
<1>2. Head(inbox) \in PlacedFrames
    BY <1>1, SeqKept DEF InjectorInv, InjectorTypes, Line
<1>3. Head(inbox).cmd \in Commands
    BY <1>2 DEF PlacedFrames, Frames, Commands
<1>4. PICK r \in {"ok", "busy", "bad"} :
          /\ replies' \in {replies, Append(replies, FpgaReply(r))}
          /\ fpga_got' = CASE Head(inbox).cmd = "data" /\ r = "ok" -> fpga_got \cup BytesOf(Head(inbox))
                           [] Head(inbox).cmd = "start" /\ r = "ok" -> {}
                           [] OTHER -> fpga_got
    BY Zenon DEF FpgaHandle, FpgaReply
<1>5. FpgaReply(r) \in FpgaReplies
    BY <1>3 DEF FpgaReply, FpgaReplies, AckCmds, Commands, ReplyCmd
<1>6. /\ Head(inbox).cmd = "data" /\ r = "ok" => fpga_got' = fpga_got \cup BytesOf(Head(inbox))
      /\ Head(inbox).cmd = "start" /\ r = "ok" => fpga_got' = {}
      /\ Head(inbox).cmd \notin {"data", "start"} \/ r # "ok" => fpga_got' = fpga_got
    BY <1>4
<1>7. QED
    BY <1>1, <1>2, <1>4, <1>5, <1>6

(* Every step of the thread after a reply leaves the wait.                  *)
LEMMA RecvLeavesWait == ASSUME RecvReply \/ RecvTimeout PROVE thread = "wait" /\ thread' # "wait"
<1>1. PICK o : After(o)
    BY DEF RecvReply, RecvTimeout
<1>2. QED
    BY <1>1 DEF RecvReply, RecvTimeout, After, AfterStart, AfterData, AfterEnd, AfterQuery,
                GiveUp, Enter, PollAgain

(* A command sent when nothing is under way is the only one under way.      *)
LEMMA TransactSerial ==
    ASSUME crossed' = 0, crossed \in Nat, NEW f \in PlacedFrames, Transact(f)
    PROVE  /\ inbox = <<>> /\ replies = <<>> /\ rbuf' = <<>> /\ replies' = <<>>
           /\ inbox' = <<>> \/ inbox' = <<f>>
           /\ thread' = "wait" /\ expected_cmd' = ReplyCmd[f.cmd] /\ fpga_got' = fpga_got
           /\ Serial'
<1>1. /\ inbox = <<>> /\ replies = <<>> /\ rbuf' = <<>> /\ replies' = <<>>
      /\ inbox' \in {inbox, Append(inbox, f)}
      /\ thread' = "wait" /\ expected_cmd' = ReplyCmd[f.cmd] /\ fpga_got' = fpga_got
    BY DEF Transact, Crossing
<1>2. inbox' = <<>> \/ inbox' = <<f>>
    BY <1>1
<1>3. f \in OwnFrames'
    BY <1>1 DEF OwnFrames
<1>4. inbox' \in Seq(OwnFrames') /\ Len(inbox') <= 1 /\ Len(inbox') \in Nat
    <2>1. <<f>> \in Seq(OwnFrames') /\ Len(<<f>>) = 1 /\ <<>> \in Seq(OwnFrames')
        BY <1>3, OneOrTwo
    <2>2. Len(<<>>) = 0
        OBVIOUS
    <2>3. CASE inbox' = <<>>
        BY <2>1, <2>2, <2>3
    <2>4. CASE inbox' = <<f>>
        <3>1. inbox' \in Seq(OwnFrames') /\ Len(inbox') = 1
            BY <2>1, <2>4, Zenon
        <3>2. QED
            BY <3>1
    <2>5. QED
        BY <1>2, <2>3, <2>4
<1>5. Len(replies') = 0 /\ Len(rbuf') = 0 /\ replies' \in Seq(OwnReplies') /\ rbuf' \in Seq(OwnReplies')
    BY <1>1
<1>6. QED
    BY <1>1, <1>2, <1>4, <1>5 DEF Serial

(* Every step keeps a single command, and replies to it alone, under way.   *)
LEMMA SerialStep ==
    ASSUME crossed' = 0, InjectorInv, Serial, [InjectorNext]_injectorVars PROVE Serial'
<1>a. crossed \in Nat
    BY DEF InjectorInv, InjectorTypes, Counters
<1>b. [cmd |-> "start"] \in PlacedFrames /\ [cmd |-> "end"] \in PlacedFrames
      /\ [cmd |-> "query"] \in PlacedFrames /\ [cmd |-> "abort"] \in PlacedFrames
    BY DEF PlacedFrames, Frames, Commands
<1>1. CASE thread' # "wait"
    BY <1>1 DEF Serial
<1>2. CASE UNCHANGED <<wireVars, thread, expected_cmd>>
    BY <1>2 DEF Serial, wireVars, OwnFrames, OwnReplies
<1>3. CASE SendStart \/ SendEnd \/ SendQuery
    BY <1>1, <1>3, <1>a, <1>b, TransactSerial DEF SendStart, SendEnd, SendQuery, Enter
<1>4. CASE SendData
    BY <1>1, <1>2, <1>4, <1>a, SendDataCases, DataFramePlaced, TransactSerial
        DEF TransferOver, NextSegment, NextPacket, Enter
<1>5. CASE SendAbort
    <2> DEFINE a == [cmd |-> "abort"]
    <2>1. CASE thread' = "wait"
        <3>1. /\ inbox = <<>> /\ replies = <<>> /\ rbuf' = <<>> /\ replies' = <<>>
              /\ inbox' \in {inbox, Append(inbox, a), inbox \o <<a, a>>}
              /\ expected_cmd' = "abort_ack"
            BY <1>5, <1>a, <2>1 DEF SendAbort, Crossing, Enter, ReplyCmd
        <3>2. a \in OwnFrames'
            BY <1>b, <3>1 DEF OwnFrames, ReplyCmd
        <3> HIDE DEF a
        <3>3. inbox' \in Seq(OwnFrames')
            BY <3>1, <3>2, OneOrTwo
        <3>4. QED
            BY <3>1, <3>3 DEF Serial
    <2>2. QED
        BY <1>1, <2>1
<1>6. CASE FpgaHandle /\ thread = "wait"
    <2>1. PICK r \in {"ok", "busy", "bad"} :
             /\ FpgaReply(r) \in FpgaReplies
             /\ replies' = replies \/ replies' = Append(replies, FpgaReply(r))
        BY <1>6, FpgaCases
    <2>2. /\ inbox # <<>> /\ inbox' = Tail(inbox)
          /\ UNCHANGED <<thread, expected_cmd, rbuf>>
        BY <1>6, FpgaCases
    <2>3. OwnFrames' = OwnFrames /\ OwnReplies' = OwnReplies
        BY <2>2 DEF OwnFrames, OwnReplies
    <2>4. inbox \in Seq(OwnFrames) /\ replies \in Seq(OwnReplies) /\ rbuf \in Seq(OwnReplies)
        BY <1>6 DEF Serial
    <2>5. Head(inbox) \in OwnFrames /\ inbox' \in Seq(OwnFrames) /\ Len(inbox') = Len(inbox) - 1
        BY <2>2, <2>4
    <2>6. FpgaReply(r) \in OwnReplies
        BY <2>1, <2>5 DEF FpgaReply, OwnFrames, OwnReplies
    <2>7. replies' \in Seq(OwnReplies) /\ Len(replies') <= Len(replies) + 1
        <3>1. /\ Append(replies, FpgaReply(r)) \in Seq(OwnReplies)
              /\ Len(Append(replies, FpgaReply(r))) = Len(replies) + 1 /\ Len(replies) \in Nat
            BY <2>4, <2>6, AppendLen
        <3>2. QED
            BY <2>1, <2>4, <3>1
    <2>8. QED
        BY <1>6, <2>2, <2>3, <2>4, <2>5, <2>7 DEF Serial
<1>7. CASE ReplyArrives /\ thread = "wait"
    <2>1. /\ replies # <<>> /\ rbuf' = Append(rbuf, Head(replies)) /\ replies' = Tail(replies)
          /\ UNCHANGED <<thread, expected_cmd, inbox>>
        BY <1>7 DEF ReplyArrives
    <2>2. OwnFrames' = OwnFrames /\ OwnReplies' = OwnReplies
        BY <2>1 DEF OwnFrames, OwnReplies
    <2>3. inbox \in Seq(OwnFrames) /\ replies \in Seq(OwnReplies) /\ rbuf \in Seq(OwnReplies)
        BY <1>7 DEF Serial
    <2>4. Head(replies) \in OwnReplies /\ replies' \in Seq(OwnReplies)
          /\ Len(replies') = Len(replies) - 1
        BY <2>1, <2>3
    <2>5. rbuf' \in Seq(OwnReplies) /\ Len(rbuf') = Len(rbuf) + 1
        BY <2>1, <2>3, <2>4
    <2>6. QED
        BY <1>7, <2>1, <2>2, <2>3, <2>4, <2>5 DEF Serial
<1>8. CASE (FpgaHandle \/ ReplyArrives) /\ thread # "wait"
    BY <1>1, <1>8, FpgaCases DEF ReplyArrives
<1>9. CASE RecvReply \/ RecvTimeout
    BY <1>1, <1>9, RecvLeavesWait
<1>0. CASE Start
    BY <1>0, <1>1 DEF Start, InjectorInv, WaitMatches
<1>10. CASE NotifyPre \/ ParseMetadata \/ ReadFails \/ SendReconfig \/ ThreadExit
    BY <1>1, <1>10 DEF NotifyPre, ParseMetadata, ReadFails, SendReconfig, ThreadExit, Enter
<1>11. CASE Cleanup \/ UNCHANGED injectorVars
    BY <1>2, <1>11 DEF Cleanup, CleanupBegin, CleanupPoll, CleanupJoin, CleanupDestroy, injectorVars
<1>12. QED
    BY <1>0, <1>3, <1>4, <1>5, <1>6, <1>7, <1>8, <1>9, <1>10, <1>11 DEF InjectorNext, ThreadStep

--------------------
(* A byte in its place has the same position in the file and in the FPGA.   *)
LEMMA DiagMember == ASSUME NEW n, NEW b \in Diag(n) PROVE \E k \in 0 .. n - 1 : b = <<k, k>>
BY Zenon DEF Diag

(* A longer prefix of the file contains a shorter one.                      *)
LEMMA DiagGrows == ASSUME NEW m \in Int, NEW n \in Int, m <= n PROVE Diag(m) \subseteq Diag(n)
BY DEF Diag

(* An accepted packet adds its piece of the file.                           *)
LEMMA DiagPacket ==
    ASSUME NEW f \in PlacedFrames, f.cmd = "data"
    PROVE  /\ f.from \in Nat /\ f.len \in Nat
           /\ \A n \in Nat : f.from + f.len <= n => BytesOf(f) \subseteq Diag(n)
           /\ Diag(f.from + f.len) \subseteq Diag(f.from) \cup BytesOf(f)
<1>1. f \in [cmd : {"data"}, seg : Nat, pkt : Nat, from : Nat, len : Nat]
    BY DEF PlacedFrames, Frames
<1>2. f.from = f.seg * FPGA_SEGMENT_SIZE + f.pkt * FPGA_PACKET_SIZE
    BY DEF PlacedFrames
<1> DEFINE a == f.from
           l == f.len
<1>3. a \in Nat /\ l \in Nat
    BY <1>1
<1>4. BytesOf(f) = {<<a + k, a + k>> : k \in 0 .. l - 1}
    BY <1>2 DEF BytesOf
<1> HIDE DEF a, l
<1>5. \A n \in Nat : a + l <= n => BytesOf(f) \subseteq Diag(n)
    <2> SUFFICES ASSUME NEW n \in Nat, a + l <= n, NEW k \in 0 .. l - 1
                 PROVE  <<a + k, a + k>> \in Diag(n)
        BY <1>4
    <2>1. a + k \in 0 .. n - 1
        BY <1>3
    <2>2. QED
        BY <2>1 DEF Diag
<1>6. Diag(a + l) \subseteq Diag(a) \cup BytesOf(f)
    <2> SUFFICES ASSUME NEW b \in Diag(a + l) PROVE b \in Diag(a) \cup BytesOf(f)
        OBVIOUS
    <2>a. PICK n \in Nat : n = a + l
        BY <1>3
    <2>b. PICK j \in 0 .. n - 1 : b = <<j, j>>
        BY <2>a, DiagMember
    <2>1. CASE j < a
        <3>1. j \in 0 .. a - 1
            BY <1>3, <2>1, <2>b
        <3>2. QED
            BY <2>b, <3>1 DEF Diag
    <2>2. CASE j >= a
        <3>1. j - a \in 0 .. l - 1 /\ a + (j - a) = j
            BY <1>3, <2>2, <2>a, <2>b
        <3>2. QED
            BY <1>4, <2>b, <3>1
    <2>3. QED
        BY <1>3, <2>1, <2>2, <2>b
<1>7. QED
    BY <1>3, <1>5, <1>6 DEF a, l

(* The layout depends on the file and the counters only.                    *)
LEMMA LayoutKept ==
    ASSUME UNCHANGED <<file_size, current_segment, current_packet_in_segment>>
    PROVE  /\ total_segments' = total_segments /\ SegmentSize' = SegmentSize
           /\ PacketsInSegment' = PacketsInSegment /\ Offset' = Offset
           /\ PacketSize(PacketsInSegment)' = PacketSize(PacketsInSegment)
           /\ DataFrame' = DataFrame /\ Progress' = Progress /\ InFile' = InFile
<1>1. total_segments' = total_segments /\ Offset' = Offset /\ InFile' = InFile
    BY DEF total_segments, Offset, InFile
<1>2. SegmentSize' = SegmentSize
    BY <1>1 DEF SegmentSize
<1>3. PacketsInSegment' = PacketsInSegment
    BY <1>2 DEF PacketsInSegment
<1>4. PacketSize(PacketsInSegment)' = PacketSize(PacketsInSegment)
    BY <1>2, <1>3 DEF PacketSize
<1>5. DataFrame' = DataFrame
    BY <1>1, <1>4 DEF DataFrame
<1>6. Progress' = Progress
    BY <1>1, <1>2, <1>3 DEF Progress
<1>7. QED
    BY <1>1, <1>2, <1>3, <1>4, <1>5, <1>6

(* The end of a packet is the beginning of the next, and the end of the     *)
(* last one is the end of the segment.                                      *)
LEMMA PacketEnd ==
    ASSUME InjectorInv, current_segment < total_segments,
           current_packet_in_segment < PacketsInSegment
    PROVE  LET end == Offset + PacketSize(PacketsInSegment) IN
           /\ end \in Nat
           /\ end <= current_segment * FPGA_SEGMENT_SIZE + SegmentSize
           /\ end <= file_size
           /\ current_packet_in_segment + 1 < PacketsInSegment =>
                 end = current_segment * FPGA_SEGMENT_SIZE
                           + (current_packet_in_segment + 1) * FPGA_PACKET_SIZE
           /\ current_packet_in_segment + 1 >= PacketsInSegment =>
                 end = current_segment * FPGA_SEGMENT_SIZE + SegmentSize
           /\ Progress = Offset
<1> DEFINE S == current_segment * FPGA_SEGMENT_SIZE
           P == current_packet_in_segment * FPGA_PACKET_SIZE
           n == PacketsInSegment
           l == PacketSize(n)
<1>1. /\ S \in Nat /\ P \in Nat /\ n \in Nat /\ current_packet_in_segment \in Nat
      /\ file_size \in Nat /\ SegmentSize \in Nat /\ Offset = S + P
      /\ FPGA_PACKET_SIZE \in Nat
    BY LayoutFacts, InjectorConstants DEF Offset
<1>2. /\ l \in Nat /\ P + l <= SegmentSize
      /\ current_packet_in_segment + 1 < n => l = FPGA_PACKET_SIZE
      /\ current_packet_in_segment + 1 = n => P + l = SegmentSize
    BY LayoutFacts, PacketFacts DEF PacketsInSegment
<1>3. S + SegmentSize <= file_size
    BY LayoutFacts, SegmentFacts
<1>4. (current_packet_in_segment + 1) * FPGA_PACKET_SIZE = P + FPGA_PACKET_SIZE
    BY <1>1, Times
<1>5. Progress = Offset
    BY <1>1, LayoutFacts DEF Progress
<1> HIDE DEF S, P, n, l
<1>6. /\ S + P + l \in Nat /\ S + P + l <= S + SegmentSize /\ S + P + l <= file_size
      /\ current_packet_in_segment + 1 < n => S + P + l = S + (P + FPGA_PACKET_SIZE)
      /\ current_packet_in_segment + 1 >= n => S + P + l = S + SegmentSize
    <2>1. current_packet_in_segment < n
        BY DEF n
    <2>2. QED
        BY <1>1, <1>2, <1>3, <2>1
<1>7. QED
    BY <1>1, <1>4, <1>5, <1>6 DEF S, P, n, l

(* A step that leaves the line and the counters alone keeps the invariant   *)
(* unless it begins to wait or ends the transfer of data.                   *)
LEMMA QuietKeeps ==
    ASSUME DeliveryInv, UNCHANGED <<file_size, taskVars, inbox, fpga_got>>, thread' # "wait",
           state' \in InTransfer => state \in InTransfer /\ (state = "TRANSFER_DATA" <=> state' = "TRANSFER_DATA")
    PROVE  WithinFile' /\ HasProgress' /\ AnswerCovers'
<1>1. Progress' = Progress /\ InFile' = InFile
    BY LayoutKept DEF taskVars
<1>2. WithinFile'
    BY <1>1 DEF DeliveryInv, WithinFile
<1>3. HasProgress'
    BY <1>1 DEF DeliveryInv, HasProgress, InTransfer
<1>4. AnswerCovers'
    BY DEF AnswerCovers
<1>5. QED
    BY <1>2, <1>3, <1>4

(* The commands other than data.                                            *)
LEMMA OtherTransact ==
    ASSUME crossed' = 0, crossed \in Nat, DeliveryInv, NEW c \in {"start", "end", "query"},
           state = "TRANSFER_START" <=> c = "start",
           Transact([cmd |-> c]), UNCHANGED <<state, file_size, taskVars>>
    PROVE  WithinFile' /\ HasProgress' /\ AnswerCovers'
<1> DEFINE f == [cmd |-> c]
<1>1. f \in PlacedFrames /\ (c # "start" => f \in InFile')
    BY DEF PlacedFrames, Frames, Commands, InFile
<1>2. /\ inbox' = <<>> \/ inbox' = <<f>>
      /\ thread' = "wait" /\ expected_cmd' = ReplyCmd[c] /\ fpga_got' = fpga_got
      /\ rbuf' = <<>> /\ replies' = <<>>
    BY <1>1, TransactSerial
<1>3. Progress' = Progress
    BY LayoutKept DEF taskVars
<1>4. WithinFile'
    <2> SUFFICES ASSUME state' \in InTransfer PROVE WithinFile'
        BY DEF WithinFile
    <2>1. c # "start"
        BY DEF InTransfer
    <2>2. <<f>> \in Seq(InFile') /\ <<>> \in Seq(InFile')
        BY <1>1, <2>1, OneOrTwo
    <2> HIDE DEF f
    <2>3. inbox' \in Seq(InFile')
        BY <1>2, <2>2, Zenon
    <2>4. QED
        BY <1>2, <2>3 DEF WithinFile, DeliveryInv
<1>5. HasProgress'
    BY <1>2, <1>3 DEF HasProgress, DeliveryInv
<1>6. AnswerCovers'
    <2>1. expected_cmd' # "data_ack"
        BY <1>2 DEF ReplyCmd
    <2>2. Unanswered'
        BY <1>2 DEF Unanswered
    <2>3. QED
        BY <2>1, <2>2 DEF AnswerCovers
<1>7. QED
    BY <1>4, <1>5, <1>6

(* Sending a packet keeps what the FPGA holds within the file and ahead of  *)
(* the progress counters.                                                   *)
LEMMA SendDataDelivers ==
    ASSUME crossed' = 0, InjectorInv, DeliveryInv, SendData
    PROVE  WithinFile' /\ HasProgress' /\ AnswerCovers'
<1>1. state = "TRANSFER_DATA" /\ thread = "loop" /\ file_size' = file_size
    BY SendDataCases
<1>2. /\ fpga_got \subseteq Diag(file_size) /\ inbox \in Seq(InFile)
      /\ Diag(Progress) \subseteq fpga_got
    BY <1>1 DEF DeliveryInv, WithinFile, HasProgress, InTransfer
<1>3. InFile' = InFile
    BY <1>1 DEF InFile
<1>4. CASE TransferOver
    <2>1. /\ state' = "TRANSFER_END" /\ thread' = "loop" /\ UNCHANGED <<inbox, fpga_got>>
          /\ Progress = file_size
        BY <1>4 DEF TransferOver, Enter, wireVars, Progress
    <2>2. QED
        BY <1>1, <1>2, <1>3, <2>1 DEF WithinFile, HasProgress, AnswerCovers, InTransfer
<1>5. CASE NextSegment
    <2>1. /\ current_segment < total_segments /\ current_packet_in_segment >= PacketsInSegment
          /\ current_segment' = current_segment + 1 /\ current_packet_in_segment' = 0
          /\ UNCHANGED <<state, thread, inbox, fpga_got>>
        BY <1>5 DEF NextSegment, wireVars
    <2>2. Progress = current_segment * FPGA_SEGMENT_SIZE + SegmentSize
        BY <2>1, LayoutFacts DEF Progress
    <2>3. total_segments' = total_segments
        BY <1>1 DEF total_segments
    <2>4. Diag(Progress') \subseteq fpga_got
        <3>1. CASE current_segment + 1 = total_segments
            <4>1. Progress' = file_size /\ Progress = file_size
                BY <1>1, <2>1, <2>2, <2>3, <3>1, LayoutFacts, SegmentFacts DEF Progress
            <4>2. QED
                BY <1>2, <4>1
        <3>2. CASE current_segment + 1 < total_segments
            <4>1. Offset' = Progress
                <5>1. SegmentSize = FPGA_SEGMENT_SIZE
                    BY <3>2, LayoutFacts, SegmentFacts
                <5>2. (current_segment + 1) * FPGA_SEGMENT_SIZE =
                         current_segment * FPGA_SEGMENT_SIZE + FPGA_SEGMENT_SIZE
                    BY LayoutFacts, InjectorConstants, Times
                <5>3. 0 * FPGA_PACKET_SIZE = 0
                    BY InjectorConstants
                <5>4. Offset' = (current_segment + 1) * FPGA_SEGMENT_SIZE
                    BY <2>1, <5>2, <5>3, LayoutFacts, InjectorConstants DEF Offset
                <5>5. QED
                    BY <2>2, <5>1, <5>2, <5>4
            <4>2. ~(current_segment' >= total_segments')
                BY <2>1, <2>3, <3>2, LayoutFacts
            <4>3. PacketsInSegment' \in Nat /\ ~(0 >= PacketsInSegment')
                <5>1. SegmentSize' \in Nat \ {0}
                    <6>1. CASE current_segment + 1 = total_segments - 1
                        <7>1. current_segment' * FPGA_SEGMENT_SIZE < file_size
                              /\ current_segment' * FPGA_SEGMENT_SIZE \in Nat
                            <8>1. total_segments * FPGA_SEGMENT_SIZE < file_size + FPGA_SEGMENT_SIZE
                                BY LayoutFacts, InjectorConstants, CeilFacts DEF total_segments, CeilDiv
                            <8>2. (total_segments - 1) * FPGA_SEGMENT_SIZE
                                     = total_segments * FPGA_SEGMENT_SIZE - FPGA_SEGMENT_SIZE
                                BY LayoutFacts, InjectorConstants, Times
                            <8>3. current_segment' = total_segments - 1
                                BY <2>1, <6>1
                            <8>4. total_segments * FPGA_SEGMENT_SIZE \in Int /\ file_size \in Int
                                  /\ FPGA_SEGMENT_SIZE \in Int
                                BY LayoutFacts, InjectorConstants, Times
                            <8>5. current_segment' * FPGA_SEGMENT_SIZE \in Nat
                                BY <2>1, LayoutFacts, InjectorConstants, Monotone
                            <8>6. QED
                                BY <8>1, <8>2, <8>3, <8>4, <8>5
                        <7>2. SegmentSize' = file_size - current_segment' * FPGA_SEGMENT_SIZE
                            BY <1>1, <2>1, <2>3, <6>1 DEF SegmentSize
                        <7>3. QED
                            BY <7>1, <7>2, LayoutFacts
                    <6>2. CASE current_segment + 1 # total_segments - 1
                        BY <2>1, <2>3, <6>2, InjectorConstants DEF SegmentSize
                    <6>3. QED
                        BY <6>1, <6>2
                <5>2. \A a \in Nat \ {0} : CeilDiv(a, FPGA_PACKET_SIZE) \in Nat \ {0}
                    <6> SUFFICES ASSUME NEW a \in Nat \ {0}
                                 PROVE  CeilDiv(a, FPGA_PACKET_SIZE) \in Nat \ {0}
                        OBVIOUS
                    <6>1. CeilDiv(a, FPGA_PACKET_SIZE) \in Nat
                          /\ CeilDiv(a, FPGA_PACKET_SIZE) * FPGA_PACKET_SIZE >= a
                        BY CeilFacts, InjectorConstants
                    <6>2. 0 * FPGA_PACKET_SIZE = 0
                        BY InjectorConstants
                    <6>3. QED
                        BY <6>1, <6>2
                <5>3. QED
                    BY <5>1, <5>2 DEF PacketsInSegment
            <4>4. Progress' = Offset'
                BY <2>1, <4>2, <4>3 DEF Progress
            <4>5. QED
                BY <1>2, <4>1, <4>4
        <3>3. QED
            BY <2>1, <3>1, <3>2, LayoutFacts
    <2>5. QED
        BY <1>1, <1>2, <1>3, <2>1, <2>4 DEF WithinFile, HasProgress, AnswerCovers, InTransfer
<1>6. CASE NextPacket
    <2>1. /\ current_segment < total_segments /\ current_packet_in_segment < PacketsInSegment
          /\ UNCHANGED <<state, current_segment, current_packet_in_segment>>
          /\ Transact(DataFrame)
        BY <1>6 DEF NextPacket
    <2>2. DataFrame \in PlacedFrames
        BY <2>1, DataFramePlaced
    <2>3. /\ inbox' = <<>> \/ inbox' = <<DataFrame>>
          /\ expected_cmd' = "data_ack" /\ fpga_got' = fpga_got
          /\ rbuf' = <<>> /\ replies' = <<>>
        <3>1. crossed \in Nat
            BY DEF InjectorInv, InjectorTypes, Counters
        <3>2. QED
            BY <2>1, <2>2, <3>1, TransactSerial DEF DataFrame, ReplyCmd
    <2>4. DataFrame' = DataFrame /\ Progress' = Progress
        BY <1>1, <2>1, LayoutKept
    <2>5. DataFrame \in InFile
        <3>1. Offset + PacketSize(PacketsInSegment) <= file_size
            BY <2>1, PacketEnd
        <3>2. DataFrame.cmd = "data" /\ DataFrame.from + DataFrame.len <= file_size
            BY <3>1 DEF DataFrame
        <3>3. QED
            BY <2>2, <3>2 DEF InFile
    <2>6. inbox' \in Seq(InFile) /\ inbox' \in Seq({DataFrame})
        <3>1. /\ <<DataFrame>> \in Seq(InFile) /\ <<>> \in Seq(InFile)
              /\ <<DataFrame>> \in Seq({DataFrame}) /\ <<>> \in Seq({DataFrame})
            BY <2>5, OneOrTwo
        <3>2. QED
            BY <2>3, <3>1, Zenon
    <2>7. Unanswered'
        BY <2>3 DEF Unanswered
    <2>8. WithinFile'
        BY <1>1, <1>2, <1>3, <2>3, <2>6 DEF WithinFile
    <2>9. HasProgress'
        BY <1>1, <1>2, <2>1, <2>3, <2>4 DEF HasProgress, InTransfer
    <2>10. AnswerCovers'
        BY <2>3, <2>4, <2>6, <2>7 DEF AnswerCovers
    <2>11. QED
        BY <2>8, <2>9, <2>10
<1>7. QED
    BY <1>4, <1>5, <1>6, SendDataCases

(* Only a reply that says so counts as success, and then nothing else of    *)
(* this command is under way.                                               *)
LEMMA OkIsAnswered ==
    ASSUME InjectorInv, DeliveryInv, RecvReply \/ RecvTimeout
    PROVE  \E o : /\ After(o)
                  /\ o = "ok" => /\ ~Unanswered
                                 /\ expected_cmd # "abort_ack" => inbox = <<>>
<1>1. CASE RecvTimeout
    BY <1>1 DEF RecvTimeout
<1>2. CASE RecvReply
    <2> DEFINE o == Outcome(Last(rbuf))
    <2>1. After(o) /\ rbuf # <<>> /\ thread = "wait"
        BY <1>2 DEF RecvReply
    <2>2. ASSUME o = "ok" PROVE ~Unanswered
        <3>1. Last(rbuf).result = "ok"
            BY <2>2 DEF Outcome
        <3>2. ASSUME rbuf \in Seq(NotOk) PROVE Last(rbuf) \in NotOk
            BY <2>1, <3>2, SeqKept
        <3>3. QED
            BY <3>1, <3>2 DEF Unanswered, NotOk
    <2>3. ASSUME expected_cmd # "abort_ack" PROVE inbox = <<>>
        <3>1. /\ inbox \in Seq(OwnFrames) /\ replies \in Seq(OwnReplies) /\ rbuf \in Seq(OwnReplies)
              /\ Len(inbox) + Len(replies) + Len(rbuf) <= 1
            BY <2>1, <2>3 DEF DeliveryInv, Serial
        <3>2. Len(rbuf) > 0 /\ Len(rbuf) \in Nat /\ Len(replies) \in Nat /\ Len(inbox) \in Nat
            BY <2>1, <3>1
        <3>3. Len(inbox) = 0
            BY <3>1, <3>2
        <3>4. QED
            BY <3>1, <3>3
    <2>4. QED
        BY <2>1, <2>2, <2>3
<1>3. QED
    BY <1>1, <1>2

(* A reply taken, or none, moves the counters only past bytes that the FPGA *)
(* holds.                                                                   *)
LEMMA RecvDelivers ==
    ASSUME InjectorInv, DeliveryInv, RecvReply \/ RecvTimeout
    PROVE  WithinFile' /\ HasProgress' /\ AnswerCovers'
<1>1. PICK o : After(o) /\ (o = "ok" => ~Unanswered /\ (expected_cmd # "abort_ack" => inbox = <<>>))
    BY OkIsAnswered
<1>2. UNCHANGED <<file_size, expected_cmd, inbox, fpga_got>> /\ thread = "wait" /\ thread' # "wait"
    BY RecvLeavesWait DEF RecvReply, RecvTimeout, wireVars
<1>3. AnswerCovers'
    BY <1>2 DEF AnswerCovers
<1>4. InFile' = InFile
    BY <1>2 DEF InFile
<1>5. CASE expected_cmd = "data_ack" /\ o = "ok"
    <2>1. state = "TRANSFER_DATA"
        BY <1>2, <1>5 DEF InjectorInv, WaitMatches
    <2>2. /\ current_packet_in_segment' = current_packet_in_segment + 1
          /\ UNCHANGED <<state, current_segment>>
        BY <1>1, <1>5 DEF After, AfterData
    <2>3. /\ current_segment < total_segments
          /\ current_packet_in_segment < PacketsInSegment
        BY <1>2, <1>5, <2>1 DEF InjectorInv, Positioned, PacketsInSegment
    <2>4. Diag(Offset + PacketSize(PacketsInSegment)) \subseteq fpga_got
        BY <1>1, <1>2, <1>5 DEF DeliveryInv, AnswerCovers
    <2>5. total_segments' = total_segments /\ SegmentSize' = SegmentSize
          /\ PacketsInSegment' = PacketsInSegment
        BY <1>2, <2>2 DEF total_segments, SegmentSize, PacketsInSegment
    <2>6. Offset' = current_segment * FPGA_SEGMENT_SIZE
                        + (current_packet_in_segment + 1) * FPGA_PACKET_SIZE
        BY <2>2 DEF Offset
    <2>7. Progress' = Offset + PacketSize(PacketsInSegment)
        <3>1. ~(current_segment' >= total_segments')
            BY <2>2, <2>3, <2>5, LayoutFacts
        <3>2. CASE current_packet_in_segment + 1 < PacketsInSegment
            <4>1. Progress' = Offset'
                BY <2>2, <2>3, <2>5, <3>1, <3>2, LayoutFacts DEF Progress
            <4>2. QED
                BY <2>3, <2>6, <3>2, <4>1, PacketEnd
        <3>3. CASE current_packet_in_segment + 1 >= PacketsInSegment
            <4>1. Progress' = current_segment * FPGA_SEGMENT_SIZE + SegmentSize
                BY <2>2, <2>3, <2>5, <3>1, <3>3, LayoutFacts DEF Progress
            <4>2. QED
                BY <2>3, <3>3, <4>1, PacketEnd
        <3>4. QED
            BY <2>3, <3>2, <3>3, LayoutFacts
    <2>8. HasProgress'
        BY <1>2, <2>1, <2>2, <2>4, <2>7 DEF HasProgress
    <2>9. WithinFile'
        BY <1>2, <1>4, <2>1, <2>2 DEF DeliveryInv, WithinFile, InTransfer
    <2>10. QED
        BY <1>3, <2>8, <2>9
<1>6. CASE expected_cmd = "start_ack" /\ state' = "TRANSFER_DATA"
    <2>1. state = "TRANSFER_START"
        BY <1>2, <1>6 DEF InjectorInv, WaitMatches
    <2>2. o = "ok" /\ current_segment' = 0 /\ current_packet_in_segment' = 0
        BY <1>1, <1>6, <2>1 DEF After, AfterStart, PollAgain, GiveUp, Enter
    <2>3. fpga_got = {} /\ inbox = <<>>
        BY <1>1, <1>2, <1>6, <2>2 DEF DeliveryInv, AnswerCovers
    <2>4. WithinFile'
        BY <1>2, <2>3 DEF WithinFile
    <2>5. Diag(Progress') = {}
        <3>1. Progress' = 0
            <4>1. 0 * FPGA_SEGMENT_SIZE = 0 /\ 0 * FPGA_PACKET_SIZE = 0
                BY InjectorConstants
            <4>2. Offset' = 0
                BY <2>2, <4>1 DEF Offset
            <4>3. file_size \in FileSizes /\ file_size \in Nat \ {0}
                BY <2>1, InjectorAssumption DEF InjectorInv, WaitMatches
            <4>4. total_segments' = total_segments
                BY <1>2 DEF total_segments
            <4>5. total_segments > 0
                <5>1. total_segments * FPGA_SEGMENT_SIZE >= file_size
                    BY <4>3, InjectorConstants, CeilFacts DEF total_segments, CeilDiv
                <5>2. QED
                    BY <4>1, <4>3, <5>1, LayoutFacts
            <4>6. SegmentSize' \in Nat \ {0}
                BY <1>2, <2>2, <4>1, <4>3, <4>4, InjectorConstants DEF SegmentSize
            <4>7. PacketsInSegment' \in Nat /\ PacketsInSegment' * FPGA_PACKET_SIZE >= SegmentSize'
                BY <4>6, InjectorConstants, CeilFacts DEF PacketsInSegment
            <4>8. PacketsInSegment' > 0
                BY <4>1, <4>6, <4>7
            <4>9. ~(0 >= total_segments') /\ ~(0 >= PacketsInSegment')
                BY <4>4, <4>5, <4>7, <4>8, LayoutFacts
            <4>10. QED
                BY <2>2, <4>2, <4>9 DEF Progress
        <3>2. QED
            BY <3>1 DEF Diag
    <2>6. HasProgress'
        BY <1>6, <2>5 DEF HasProgress
    <2>7. QED
        BY <1>3, <2>4, <2>6
<1>7. CASE ~(expected_cmd = "data_ack" /\ o = "ok")
           /\ ~(expected_cmd = "start_ack" /\ state' = "TRANSFER_DATA")
    <2>1. /\ UNCHANGED <<current_segment, current_packet_in_segment>>
          /\ state' \in InTransfer =>
                state \in InTransfer /\ (state = "TRANSFER_DATA" <=> state' = "TRANSFER_DATA")
        <3>1. CASE expected_cmd = "data_ack"
            BY <1>1, <1>7, <3>1 DEF After, AfterData
        <3>2. CASE expected_cmd = "start_ack"
            <4>1. state = "TRANSFER_START"
                BY <1>2, <3>2 DEF InjectorInv, WaitMatches
            <4>2. QED
                BY <1>1, <1>7, <3>2, <4>1 DEF After, AfterStart, PollAgain, GiveUp, Enter, taskVars, InTransfer
        <3>3. CASE expected_cmd \in {"end_ack", "reconfig_ack", "abort_ack"}
            <4>1. /\ expected_cmd = "end_ack" => state = "TRANSFER_END"
                  /\ expected_cmd = "reconfig_ack" => state = "RECONFIG_POLLING"
                BY <1>2 DEF InjectorInv, WaitMatches
            <4>2. QED
                BY <1>1, <3>3, <4>1 DEF After, AfterEnd, AfterQuery, PollAgain, GiveUp, Enter, taskVars, InTransfer
        <3>4. QED
            BY <1>1, <3>1, <3>2, <3>3 DEF After
    <2>2. Progress' = Progress
        BY <1>2, <2>1, LayoutKept
    <2>3. WithinFile' /\ HasProgress'
        BY <1>2, <1>4, <2>1, <2>2 DEF DeliveryInv, WithinFile, HasProgress, InTransfer
    <2>4. QED
        BY <1>3, <2>3
<1>8. QED
    BY <1>5, <1>6, <1>7

(* A command the FPGA handles adds only bytes of the file, and an ok stands *)
(* for bytes it holds.                                                      *)
LEMMA FpgaDelivers ==
    ASSUME InjectorInv, DeliveryInv, FpgaHandle
    PROVE  WithinFile' /\ HasProgress' /\ AnswerCovers'
<1> DEFINE f == Head(inbox)
<1>1. /\ inbox # <<>> /\ inbox' = Tail(inbox) /\ f \in PlacedFrames
      /\ UNCHANGED <<state, file_size, taskVars, thread, expected_cmd, rbuf>>
    BY FpgaCases
<1>2. PICK r \in {"ok", "busy", "bad"} :
         /\ FpgaReply(r) \in FpgaReplies
         /\ replies' = replies \/ replies' = Append(replies, FpgaReply(r))
         /\ f.cmd = "data" /\ r = "ok" => fpga_got' = fpga_got \cup BytesOf(f)
         /\ f.cmd = "start" /\ r = "ok" => fpga_got' = {}
         /\ f.cmd \notin {"data", "start"} \/ r # "ok" => fpga_got' = fpga_got
    BY FpgaCases
<1>3. /\ Progress' = Progress /\ InFile' = InFile /\ DataFrame' = DataFrame /\ Offset' = Offset
      /\ PacketSize(PacketsInSegment)' = PacketSize(PacketsInSegment)
    BY <1>1, LayoutKept DEF taskVars
<1>4. r # "ok" /\ Unanswered => Unanswered'
    <2> SUFFICES ASSUME r # "ok", Unanswered PROVE Unanswered'
        OBVIOUS
    <2>1. FpgaReply(r) \in NotOk
        BY <1>2 DEF NotOk, FpgaReply
    <2>2. Append(replies, FpgaReply(r)) \in Seq(NotOk) /\ replies \in Seq(NotOk) /\ rbuf \in Seq(NotOk)
        BY <2>1, AppendLen DEF Unanswered
    <2>3. QED
        BY <1>1, <1>2, <2>2 DEF Unanswered
<1>5. state \in InTransfer =>
         /\ inbox' \in Seq(InFile) /\ f \in InFile
         /\ fpga_got \subseteq fpga_got' /\ fpga_got' \subseteq Diag(file_size)
    <2> SUFFICES ASSUME state \in InTransfer
                 PROVE  /\ inbox' \in Seq(InFile) /\ f \in InFile
                        /\ fpga_got \subseteq fpga_got' /\ fpga_got' \subseteq Diag(file_size)
        OBVIOUS
    <2>1. fpga_got \subseteq Diag(file_size) /\ inbox \in Seq(InFile)
        BY DEF DeliveryInv, WithinFile
    <2>2. inbox' \in Seq(InFile) /\ f \in InFile
        BY <1>1, <2>1, SeqKept
    <2>3. f.cmd # "start" /\ (f.cmd = "data" => f.from + f.len <= file_size)
        BY <2>2 DEF InFile
    <2>4. CASE f.cmd = "data" /\ r = "ok"
        <3>1. BytesOf(f) \subseteq Diag(file_size)
            BY <1>1, <2>3, <2>4, DiagPacket, LayoutFacts
        <3> HIDE DEF f
        <3>2. QED
            BY <1>2, <2>1, <2>2, <2>4, <3>1
    <2>5. CASE ~(f.cmd = "data" /\ r = "ok")
        <3>1. fpga_got' = fpga_got
            BY <1>2, <2>3, <2>5
        <3>2. QED
            BY <2>1, <2>2, <3>1
    <2>6. QED
        BY <2>4, <2>5
<1>6. WithinFile' /\ HasProgress'
    BY <1>1, <1>3, <1>5 DEF DeliveryInv, WithinFile, HasProgress, InTransfer
<1>7. AnswerCovers'
    <2>1. ASSUME thread = "wait", expected_cmd = "start_ack" PROVE Unanswered' \/ fpga_got' = {}
        <3>1. f.cmd = "start"
            <4>1. f \in OwnFrames
                BY <1>1, <2>1, SeqKept DEF DeliveryInv, Serial
            <4>2. f.cmd \in Commands
                BY <1>1 DEF PlacedFrames, Frames, Commands
            <4>3. QED
                BY <2>1, <4>1, <4>2 DEF OwnFrames, ReplyCmd, Commands
        <3>2. Unanswered \/ fpga_got = {}
            BY <2>1 DEF DeliveryInv, AnswerCovers
        <3>3. QED
            BY <1>2, <1>4, <3>1, <3>2
    <2>2. ASSUME thread = "wait", expected_cmd = "data_ack"
          PROVE  /\ inbox' \in Seq({DataFrame})
                 /\ Unanswered' \/ Diag(Offset + PacketSize(PacketsInSegment)) \subseteq fpga_got'
        <3>1. state = "TRANSFER_DATA" /\ state \in InTransfer
            BY <2>2 DEF InjectorInv, WaitMatches, InTransfer
        <3>2. inbox \in Seq({DataFrame})
            BY <2>2 DEF DeliveryInv, AnswerCovers
        <3>3. f = DataFrame /\ inbox' \in Seq({DataFrame})
            BY <1>1, <3>2, SeqKept
        <3>4. /\ current_segment < total_segments
              /\ current_packet_in_segment < PacketsInSegment
            BY <2>2, <3>1 DEF InjectorInv, Positioned, PacketsInSegment
        <3>5. CASE r = "ok"
            <4>1. f.cmd = "data" /\ f.from = Offset /\ f.len = PacketSize(PacketsInSegment)
                BY <3>3 DEF DataFrame
            <4>2. Diag(Offset + PacketSize(PacketsInSegment)) \subseteq Diag(Offset) \cup BytesOf(f)
                BY <1>1, <4>1, DiagPacket
            <4>3. Diag(Offset) \subseteq fpga_got
                BY <3>1, <3>4, PacketEnd DEF DeliveryInv, HasProgress
            <4>4. fpga_got' = fpga_got \cup BytesOf(f)
                BY <1>2, <3>5, <4>1
            <4> HIDE DEF f
            <4>5. QED
                BY <3>3, <4>2, <4>3, <4>4
        <3>6. CASE r # "ok"
            <4>1. Unanswered \/ Diag(Offset + PacketSize(PacketsInSegment)) \subseteq fpga_got
                BY <2>2 DEF DeliveryInv, AnswerCovers
            <4>2. QED
                BY <1>4, <1>5, <3>1, <3>3, <3>6, <4>1
        <3>7. QED
            BY <3>5, <3>6
    <2>3. QED
        BY <1>1, <1>3, <2>1, <2>2 DEF AnswerCovers
<1>8. QED
    BY <1>6, <1>7

(* A reply that arrives changes nothing of what the FPGA holds.             *)
LEMMA ArrivalDelivers ==
    ASSUME InjectorInv, DeliveryInv, ReplyArrives
    PROVE  WithinFile' /\ HasProgress' /\ AnswerCovers'
<1>1. /\ replies # <<>> /\ rbuf' = Append(rbuf, Head(replies)) /\ replies' = Tail(replies)
      /\ UNCHANGED <<state, file_size, taskVars, thread, expected_cmd, inbox, fpga_got>>
    BY DEF ReplyArrives
<1>2. /\ Progress' = Progress /\ InFile' = InFile /\ DataFrame' = DataFrame /\ Offset' = Offset
      /\ PacketSize(PacketsInSegment)' = PacketSize(PacketsInSegment)
    BY <1>1, LayoutKept DEF taskVars
<1>3. WithinFile' /\ HasProgress'
    BY <1>1, <1>2 DEF DeliveryInv, WithinFile, HasProgress
<1>4. ASSUME Unanswered PROVE Unanswered'
    <2>1. Head(replies) \in NotOk /\ replies' \in Seq(NotOk)
        BY <1>1, <1>4, SeqKept DEF Unanswered
    <2>2. rbuf' \in Seq(NotOk)
        BY <1>1, <1>4, <2>1, AppendLen DEF Unanswered
    <2>3. QED
        BY <2>1, <2>2 DEF Unanswered
<1>5. AnswerCovers'
    BY <1>1, <1>2, <1>4 DEF DeliveryInv, AnswerCovers
<1>6. QED
    BY <1>3, <1>5

(* An abort command leaves the FPGA's bytes alone.                          *)
LEMMA AbortDelivers ==
    ASSUME InjectorInv, DeliveryInv, SendAbort
    PROVE  WithinFile' /\ HasProgress' /\ AnswerCovers'
<1> DEFINE a == [cmd |-> "abort"]
<1>1. UNCHANGED <<file_size, taskVars, fpga_got>>
    BY DEF SendAbort, wireVars
<1>2. Progress' = Progress /\ InFile' = InFile
    BY <1>1, LayoutKept DEF taskVars
<1>3. CASE state' = "FAILED"
    <2>1. thread' = "loop" \/ expected_cmd' = "abort_ack"
        BY DEF SendAbort, Enter, ReplyCmd
    <2>2. QED
        BY <1>3, <2>1 DEF WithinFile, HasProgress, AnswerCovers, InTransfer
<1>4. CASE state' # "FAILED"
    <2>1. /\ state' = state /\ expected_cmd' = "abort_ack"
          /\ inbox' \in {inbox, Append(inbox, a), inbox \o <<a, a>>}
        BY <1>4 DEF SendAbort, Enter, ReplyCmd
    <2>2. a \in InFile
        BY DEF InFile, PlacedFrames, Frames, Commands
    <2> HIDE DEF a
    <2>3. ASSUME inbox \in Seq(InFile) PROVE inbox' \in Seq(InFile)
        BY <2>1, <2>2, <2>3, SeqKept
    <2>4. QED
        BY <1>1, <1>2, <2>1, <2>3 DEF DeliveryInv, WithinFile, HasProgress, AnswerCovers
<1>5. QED
    BY <1>3, <1>4

(* Every step but the start of an injection that has met no earlier command *)
(* keeps the FPGA's bytes a prefix of the file that covers the progress     *)
(* reported.                                                                *)
LEMMA DeliveryKept ==
    ASSUME crossed' = 0, InjectorInv, DeliveryInv, [InjectorNext]_injectorVars
    PROVE  DeliveryInv'
<1>a. crossed \in Nat
    BY DEF InjectorInv, InjectorTypes, Counters
<1>1. Serial'
    BY SerialStep DEF DeliveryInv
<1> SUFFICES WithinFile' /\ HasProgress' /\ AnswerCovers'
    BY <1>1 DEF DeliveryInv
<1>2. CASE Start
    BY <1>2 DEF Start, InjectorInv, WaitMatches, WithinFile, HasProgress, AnswerCovers, InTransfer
<1>3. CASE NotifyPre \/ ParseMetadata \/ ReadFails \/ SendReconfig \/ ThreadExit
    <2>1. UNCHANGED <<file_size, taskVars, inbox, fpga_got>> /\ thread' # "wait"
        BY <1>3 DEF NotifyPre, ParseMetadata, ReadFails, SendReconfig, ThreadExit, Enter, wireVars
    <2>2. state' \in InTransfer =>
             state \in InTransfer /\ (state = "TRANSFER_DATA" <=> state' = "TRANSFER_DATA")
        BY <1>3 DEF NotifyPre, ParseMetadata, ReadFails, SendReconfig, ThreadExit, Enter, At,
                    InTransfer
    <2>3. QED
        BY <2>1, <2>2, QuietKeeps
<1>4. CASE SendStart
    <2>1. CASE Enter("FAILED") /\ UNCHANGED <<wireVars, expected_cmd>>
        BY <2>1 DEF Enter, WithinFile, HasProgress, AnswerCovers, InTransfer
    <2>2. CASE Transact([cmd |-> "start"]) /\ UNCHANGED state
        BY <1>4, <1>a, <2>2, OtherTransact DEF SendStart
    <2>3. QED
        BY <1>4, <2>1, <2>2 DEF SendStart
<1>5. CASE SendEnd
    BY <1>5, <1>a, OtherTransact DEF SendEnd, At
<1>6. CASE SendQuery
    <2>1. CASE Enter("FAILED") /\ UNCHANGED <<wireVars, expected_cmd>>
        BY <2>1 DEF Enter, WithinFile, HasProgress, AnswerCovers, InTransfer
    <2>2. CASE Transact([cmd |-> "query"]) /\ UNCHANGED state
        BY <1>6, <1>a, <2>2, OtherTransact DEF SendQuery, At
    <2>3. QED
        BY <1>6, <2>1, <2>2 DEF SendQuery
<1>7. CASE SendData
    BY <1>7, SendDataDelivers
<1>8. CASE RecvReply \/ RecvTimeout
    BY <1>8, RecvDelivers
<1>9. CASE SendAbort
    BY <1>9, AbortDelivers
<1>10. CASE FpgaHandle
    BY <1>10, FpgaDelivers
<1>11. CASE ReplyArrives
    BY <1>11, ArrivalDelivers
<1>12. CASE Cleanup \/ UNCHANGED injectorVars
    <2>1. UNCHANGED <<state, file_size, taskVars, thread, expected_cmd, wireVars>>
        BY <1>12 DEF Cleanup, CleanupBegin, CleanupPoll, CleanupJoin, CleanupDestroy, injectorVars
    <2>2. /\ Progress' = Progress /\ InFile' = InFile /\ DataFrame' = DataFrame /\ Offset' = Offset
          /\ PacketSize(PacketsInSegment)' = PacketSize(PacketsInSegment)
        BY <2>1, LayoutKept DEF taskVars
    <2>3. Unanswered' <=> Unanswered
        BY <2>1 DEF Unanswered, wireVars
    <2>4. QED
        BY <2>1, <2>2, <2>3 DEF DeliveryInv, WithinFile, HasProgress, AnswerCovers, wireVars
<1>13. QED
    BY <1>2, <1>3, <1>4, <1>5, <1>6, <1>7, <1>8, <1>9, <1>10, <1>11, <1>12
        DEF InjectorNext, ThreadStep

(* Only the start of an injection forgets that commands have crossed.       *)
LEMMA CrossedKept ==
    ASSUME InjectorInv, [InjectorNext]_injectorVars, ~Start, crossed' = 0 PROVE crossed = 0
<1>a. crossed \in Nat
    BY DEF InjectorInv, InjectorTypes, Counters
<1>1. ASSUME NEW f, Transact(f) PROVE crossed = 0
    BY <1>1, <1>a DEF Transact, Crossing
<1>2. CASE UNCHANGED crossed
    BY <1>2
<1>3. CASE SendStart \/ SendEnd \/ SendQuery
    BY <1>1, <1>3 DEF SendStart, SendEnd, SendQuery, wireVars
<1>4. CASE SendData
    BY <1>1, <1>2, <1>4, SendDataCases DEF TransferOver, NextSegment, NextPacket, wireVars
<1>5. CASE SendAbort
    BY <1>5, <1>a DEF SendAbort, Crossing, wireVars
<1>6. CASE NotifyPre \/ ParseMetadata \/ ReadFails \/ SendReconfig \/ ThreadExit \/ RecvReply
           \/ RecvTimeout
    BY <1>6 DEF NotifyPre, ParseMetadata, ReadFails, SendReconfig, ThreadExit, RecvReply,
                RecvTimeout, wireVars
<1>7. CASE FpgaHandle \/ ReplyArrives \/ Cleanup \/ UNCHANGED injectorVars
    BY <1>7 DEF FpgaHandle, ReplyArrives, Cleanup, CleanupBegin, CleanupPoll, CleanupJoin,
                CleanupDestroy, injectorVars, wireVars
<1>8. QED
    BY <1>3, <1>4, <1>5, <1>6, <1>7 DEF InjectorNext, ThreadStep

(* An injection whose commands met no earlier one has its bytes in the FPGA,*)
(* whatever an injection before it left on the line.                        *)
UncrossedDelivers == crossed = 0 => DeliveryInv

(* Every step keeps that.                                                   *)
LEMMA DeliveryStep ==
    InjectorInv /\ UncrossedDelivers /\ [InjectorNext]_injectorVars => UncrossedDelivers'
<1> SUFFICES ASSUME InjectorInv, UncrossedDelivers, [InjectorNext]_injectorVars, crossed' = 0
             PROVE  DeliveryInv'
    BY DEF UncrossedDelivers
<1>1. CASE Start
    <2>1. thread' # "wait" /\ state' = "PARSING_METADATA"
        BY <1>1 DEF Start, InjectorInv, WaitMatches
    <2>2. QED
        BY <2>1 DEF DeliveryInv, Serial, WithinFile, HasProgress, AnswerCovers, InTransfer
<1>2. CASE ~Start
    BY <1>2, CrossedKept, DeliveryKept DEF UncrossedDelivers
<1>3. QED
    BY <1>1, <1>2

(* An injection past its data phase has left the whole file in the FPGA and *)
(* nothing else, unless one of its commands met an earlier one, or its      *)
(* reply, on the line.                                                      *)
THEOREM EverythingDeliveredTheorem == InjectorSpec => []EverythingDelivered
<1>1. InjectorInit => UncrossedDelivers
    BY DEF InjectorInit, UncrossedDelivers, DeliveryInv, Serial, WithinFile, HasProgress,
           AnswerCovers, InTransfer
<1>2. InjectorInv /\ UncrossedDelivers => EverythingDelivered
    BY DEF InjectorInv, InjectorTypes, Counters, UncrossedDelivers, DeliveryInv, WithinFile,
           HasProgress, EverythingDelivered, InTransfer, Diag
<1>3. QED
    BY <1>1, <1>2, DeliveryStep, InjectorInvTheorem, PTL DEF InjectorSpec

====
