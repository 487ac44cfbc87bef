---------- MODULE BbuMessagesProofs ----------
(***************************************************************************)
(* Proofs about the reassembly of CPRI messages (CpriStream) and about the *)
(* handlers that answer them (BbuMessages), for every set of messages and  *)
(* of configuration files and every size of header, buffer and read; and   *)
(* about the log upload and the telemetry log it packs (LogUpload), for    *)
(* every size and number of log files and every set of requests.           *)
(***************************************************************************)
EXTENDS BbuMessages, LogUpload, TLAPS

(* Lengths and positions of sent messages are numbers.                      *)
LEMMA SentFacts ==
    ASSUME StreamTypeOK, NEW i \in 1..Len(sent)
    PROVE  /\ sent[i].msg \in Messages /\ sent[i].start \in Nat
           /\ sent[i].msg.len \in Nat /\ sent[i].msg.len >= CPRI_HEADER_LEN
           /\ sent[i].msg.len > 0
<1>1. sent[i] \in Sent
    BY DEF StreamTypeOK
<1>2. QED
    BY <1>1, StreamAssumption DEF Sent

(* Ends of messages are numbers, and the last one is the end of the stream. *)
LEMMA EndFacts ==
    ASSUME StreamTypeOK, Contiguous
    PROVE  /\ Len(sent) \in Nat /\ Total \in Nat
           /\ \A i \in 0..Len(sent) : End(i) \in Nat /\ End(i) <= Total
           /\ \A i \in 0..(Len(sent) - 1) : sent[i + 1].start = End(i)
<1>1. Len(sent) \in Nat
    BY DEF StreamTypeOK
<1>2. \A i \in 0..Len(sent) : End(i) \in Nat
    BY <1>1, SentFacts DEF End
<1>3. Total \in Nat
    BY <1>1, <1>2 DEF Total
<1>4. ASSUME NEW i \in 0..Len(sent) PROVE End(i) <= Total
    <2>1. CASE i = 0
        BY <2>1, <1>3 DEF End
    <2>2. CASE i = Len(sent)
        BY <2>2, <1>3 DEF Total
    <2>3. CASE i \in 1..Len(sent) /\ i < Len(sent)
        <3>1. Len(sent) \in 1..Len(sent)
            BY <1>1, <2>3
        <3>2. sent[i].start + sent[i].msg.len <= sent[Len(sent)].start
            BY <2>3, <3>1 DEF Contiguous
        <3>3. QED
            BY <2>3, <3>1, <3>2, SentFacts DEF Total, End
    <2>4. QED
        BY <1>1, <2>1, <2>2, <2>3
<1>5. ASSUME NEW i \in 0..(Len(sent) - 1) PROVE sent[i + 1].start = End(i)
    <2>1. i + 1 \in 1..Len(sent) /\ (i + 1) - 1 = i
        BY <1>1
    <2>2. CASE i = 0
        BY <1>1, <2>1, <2>2 DEF Contiguous, End
    <2>3. CASE i > 0
        BY <2>1, <2>3 DEF Contiguous, End
    <2>4. QED
        BY <2>2, <2>3
<1>6. QED
    BY <1>1, <1>2, <1>3, <1>4, <1>5

(* At most one message starts at a position.                                *)
LEMMA StartsDiffer ==
    ASSUME StreamTypeOK, Contiguous,
           NEW i \in 1..Len(sent), NEW j \in 1..Len(sent), sent[i].start = sent[j].start
    PROVE  i = j
<1>1. ASSUME NEW a \in 1..Len(sent), NEW b \in 1..Len(sent), a < b
      PROVE  sent[a].start # sent[b].start
    <2>1. sent[a].start + sent[a].msg.len <= sent[b].start
        BY <1>1 DEF Contiguous
    <2>2. /\ sent[a].start \in Nat /\ sent[b].start \in Nat
          /\ sent[a].msg.len \in Nat /\ sent[a].msg.len > 0
        BY SentFacts
    <2>3. QED
        BY <2>1, <2>2
<1>2. QED
    BY <1>1 DEF StreamTypeOK

(* In an undamaged stream the header in the buffer is that of the next      *)
(* message, if there is one.                                                *)
LEMMA NextAtBase ==
    ASSUME StreamInv, ~lost
    PROVE  /\ handled < Len(sent) => AtBase = {handled + 1}
           /\ handled = Len(sent) => g_recv_offset = 0
<1> USE DEF StreamInv
<1>0. /\ handled \in Nat /\ taken \in Nat /\ g_recv_offset \in Nat /\ Len(sent) \in Nat
      /\ handled <= Len(sent) /\ Base = End(handled) /\ taken <= Total
    BY EndFacts DEF StreamTypeOK, MessagesDelivered
<1>1. ASSUME handled < Len(sent) PROVE AtBase = {handled + 1}
    <2>1. handled \in 0..(Len(sent) - 1) /\ handled + 1 \in 1..Len(sent)
        BY <1>0, <1>1
    <2>2. sent[handled + 1].start = Base
        BY <1>0, <2>1, EndFacts
    <2>3. \A j \in 1..Len(sent) : sent[j].start = Base => j = handled + 1
        BY <2>1, <2>2, StartsDiffer
    <2>4. QED
        BY <2>1, <2>2, <2>3 DEF AtBase
<1>2. ASSUME handled = Len(sent) PROVE g_recv_offset = 0
    BY <1>0, <1>2, EndFacts DEF Base, Total
<1>3. QED
    BY <1>1, <1>2

--------------------
(* Sending appends a message at the end of the stream.                      *)
LEMMA SendStep ==
    ASSUME StreamInv, NEW m \in Messages, BbuSend(m) PROVE StreamInv'
<1> USE DEF StreamInv
<1>0. /\ Len(sent) \in Nat /\ Total \in Nat /\ sent \in Seq(Sent)
      /\ handled \in Nat /\ taken \in Nat /\ g_recv_offset \in 0..BUFFER_SIZE
      /\ BUFFER_SIZE \in Nat
    BY EndFacts, StreamAssumption DEF StreamTypeOK
<1>1. [msg |-> m, start |-> Total] \in Sent
    BY <1>0 DEF Sent
<1>2. /\ sent' \in Seq(Sent) /\ Len(sent') = Len(sent) + 1
      /\ \A i \in 1..Len(sent) : sent'[i] = sent[i]
      /\ sent'[Len(sent) + 1] = [msg |-> m, start |-> Total]
    BY <1>0, <1>1 DEF BbuSend
<1>3. UNCHANGED <<taken, g_recv_offset, rx_pc, handled, last, lost>>
    BY DEF BbuSend
<1>4. StreamTypeOK'
    BY <1>2, <1>3 DEF StreamTypeOK
<1>5. m.len \in Nat /\ m.len >= CPRI_HEADER_LEN /\ m.len > 0
    BY StreamAssumption
<1>6. \A i \in 0..Len(sent) : End(i)' = End(i)
    <2> SUFFICES ASSUME NEW i \in 0..Len(sent) PROVE End(i)' = End(i)
        OBVIOUS
    <2>1. CASE i = 0
        BY <2>1 DEF End
    <2>2. CASE i \in 1..Len(sent)
        BY <1>2, <2>2 DEF End
    <2>3. QED
        BY <1>0, <2>1, <2>2
<1>7. Total' = Total + m.len
    BY <1>0, <1>2 DEF Total, End
<1>8. Contiguous'
    <2>1. sent'[1].start = 0
        <3>1. CASE Len(sent) = 0
            BY <1>2, <3>1 DEF Total, End
        <3>2. CASE Len(sent) > 0
            BY <1>0, <1>2, <3>2 DEF Contiguous
        <3>3. QED
            BY <1>0, <3>1, <3>2
    <2>2. ASSUME NEW i \in 1..(Len(sent) + 1), i > 1
          PROVE sent'[i].start = sent'[i - 1].start + sent'[i - 1].msg.len
        <3>1. CASE i <= Len(sent)
            <4>1. i \in 1..Len(sent) /\ i - 1 \in 1..Len(sent)
                BY <1>0, <2>2, <3>1
            <4>2. QED
                BY <1>2, <2>2, <4>1 DEF Contiguous
        <3>2. CASE i = Len(sent) + 1
            <4>1. i - 1 = Len(sent) /\ Len(sent) \in 1..Len(sent) /\ Len(sent) # 0
                BY <1>0, <2>2, <3>2
            <4>2. sent'[i].start = Total
                BY <1>2, <3>2
            <4>3. sent'[i - 1] = sent[Len(sent)]
                BY <1>2, <4>1
            <4>4. QED
                BY <4>1, <4>2, <4>3 DEF Total, End
        <3>3. QED
            BY <1>0, <3>1, <3>2
    <2>3. ASSUME NEW i \in 1..(Len(sent) + 1), NEW j \in 1..(Len(sent) + 1), i < j
          PROVE sent'[i].start + sent'[i].msg.len <= sent'[j].start
        <3>0. i \in 1..Len(sent) /\ sent'[i] = sent[i]
            BY <1>0, <1>2, <2>3
        <3>1. CASE j <= Len(sent)
            <4>1. j \in 1..Len(sent) /\ sent'[j] = sent[j]
                BY <1>0, <1>2, <3>1
            <4>2. sent[i].start + sent[i].msg.len <= sent[j].start
                BY <2>3, <3>0, <4>1 DEF Contiguous
            <4>3. QED
                BY <3>0, <4>1, <4>2
        <3>2. CASE j = Len(sent) + 1
            <4>1. sent'[j].start = Total
                BY <1>2, <3>2
            <4>2. End(i) <= Total /\ End(i) = sent[i].start + sent[i].msg.len
                BY <1>0, <3>0, EndFacts DEF End
            <4>3. QED
                BY <3>0, <4>1, <4>2
        <3>3. QED
            BY <1>0, <3>1, <3>2
    <2>4. QED
        BY <1>2, <2>1, <2>2, <2>3 DEF Contiguous
<1>9. MessagesDelivered'
    <2> SUFFICES ASSUME ~lost PROVE
           /\ handled <= Len(sent')
           /\ Base' = End(handled)'
           /\ handled > 0 => last = sent'[handled].msg
           /\ rx_pc = "recv" /\ handled < Len(sent') => taken < End(handled + 1)'
        BY <1>3 DEF MessagesDelivered
    <2>1. /\ handled \in 0..Len(sent) /\ Base = End(handled)
          /\ handled > 0 => last = sent[handled].msg
        BY <1>0 DEF MessagesDelivered
    <2>2. Base' = Base
        BY <1>3 DEF Base
    <2>3. handled > 0 => handled \in 1..Len(sent)
        BY <1>0, <2>1
    <2>4. ASSUME rx_pc = "recv", handled < Len(sent') PROVE taken < End(handled + 1)'
        <3>1. CASE handled < Len(sent)
            <4>1. handled + 1 \in 0..Len(sent)
                BY <1>0, <3>1
            <4>2. End(handled + 1)' = End(handled + 1)
                BY <1>3, <1>6, <4>1 DEF End
            <4>3. taken < End(handled + 1)
                BY <2>4, <3>1 DEF MessagesDelivered
            <4>4. QED
                BY <4>2, <4>3
        <3>2. CASE handled = Len(sent)
            <4>1. End(handled + 1)' = Total'
                BY <1>2, <1>3, <3>2 DEF Total
            <4>2. QED
                BY <1>0, <1>5, <1>7, <4>1
        <3>3. QED
            BY <1>0, <2>1, <3>1, <3>2
    <2>5. QED
        BY <1>0, <1>2, <1>3, <1>6, <2>1, <2>2, <2>3, <2>4
<1>10. QED
    BY <1>0, <1>3, <1>4, <1>5, <1>7, <1>8, <1>9

(* Receiving bytes moves the end of the buffer, or loses it.                *)
LEMMA RecvStep ==
    ASSUME StreamInv, NEW n \in 1..RECV_SIZE, TcpRecv(n) PROVE StreamInv'
<1> USE DEF StreamInv
<1>0. /\ taken \in Nat /\ g_recv_offset \in 0..BUFFER_SIZE /\ BUFFER_SIZE \in Nat /\ n \in Nat
      /\ Total \in Nat /\ taken + n <= Total
    BY EndFacts, StreamAssumption DEF StreamTypeOK, TcpRecv
<1>1. UNCHANGED <<sent, handled, last>> /\ taken' = taken + n
    BY DEF TcpRecv
<1>2. StreamTypeOK'
    <2>1. g_recv_offset' \in 0..BUFFER_SIZE
        BY <1>0 DEF TcpRecv, Overflows
    <2>2. rx_pc' \in {"recv", "parse"} /\ lost' \in BOOLEAN
        BY DEF StreamTypeOK, TcpRecv
    <2>3. QED
        BY <1>0, <1>1, <2>1, <2>2 DEF StreamTypeOK
<1>3. Contiguous'
    BY <1>1 DEF Contiguous
<1>4. Total' = Total
    BY <1>1 DEF Total, End
<1>5. MessagesDelivered'
    <2> SUFFICES ASSUME ~lost' PROVE MessagesDelivered'
        BY DEF MessagesDelivered
    <2>1. /\ g_recv_offset' = g_recv_offset + n /\ rx_pc' = "parse" /\ ~lost
        BY DEF TcpRecv
    <2>2. Base' = Base
        BY <1>0, <1>1, <2>1 DEF Base
    <2>3. QED
        BY <1>1, <2>1, <2>2 DEF MessagesDelivered, End
<1>6. QED
    BY <1>0, <1>1, <1>2, <1>3, <1>4, <1>5

(* Going back to recv() leaves no complete message behind.                  *)
LEMMA WaitStep ==
    ASSUME StreamInv, ParseWait PROVE StreamInv'
<1> USE DEF StreamInv
<1>1. UNCHANGED <<sent, taken, g_recv_offset, handled, last, lost>> /\ rx_pc' = "recv"
    BY DEF ParseWait
<1>2. StreamTypeOK' /\ Contiguous' /\ (taken <= Total)'
    BY <1>1 DEF StreamTypeOK, Contiguous, Total, End
<1>3. MessagesDelivered'
    <2> SUFFICES ASSUME ~lost, handled < Len(sent) PROVE taken < End(handled + 1)
        BY <1>1 DEF MessagesDelivered, Base, End
    <2>0. /\ handled \in Nat /\ taken \in Nat /\ g_recv_offset \in Nat /\ Len(sent) \in Nat
          /\ CPRI_HEADER_LEN \in Nat
        BY EndFacts, StreamAssumption DEF StreamTypeOK
    <2>1. handled + 1 \in 1..Len(sent) /\ handled \in 0..(Len(sent) - 1)
        BY <2>0
    <2>2. AtBase = {handled + 1}
        BY NextAtBase
    <2>3. Claims = {sent[handled + 1].msg.len}
        BY <2>2 DEF Claims
    <2>4. g_recv_offset < sent[handled + 1].msg.len
        BY <2>0, <2>1, <2>3, SentFacts DEF ParseWait
    <2>5. sent[handled + 1].start = Base
        BY <2>0, <2>1, EndFacts DEF MessagesDelivered
    <2>6. QED
        BY <2>0, <2>1, <2>4, <2>5, SentFacts DEF End, Base
<1>4. QED
    BY <1>2, <1>3

(* A complete message is the next one, and the buffer moves on to its end.  *)
LEMMA TakeStep ==
    ASSUME StreamInv, NEW m, TakeMessage(m) PROVE StreamInv'
<1> USE DEF StreamInv
<1>1. UNCHANGED <<sent, taken, rx_pc, lost>> /\ handled' = handled + 1 /\ last' = m /\ rx_pc = "parse"
    BY DEF TakeMessage
<1>2. PICK c \in Claims : /\ Plausible(c) /\ c <= g_recv_offset
                          /\ g_recv_offset' = g_recv_offset - c
    BY DEF TakeMessage
<1>3. /\ handled \in Nat /\ taken \in Nat /\ g_recv_offset \in 0..BUFFER_SIZE /\ Len(sent) \in Nat
      /\ CPRI_HEADER_LEN \in Nat \ {0} /\ BUFFER_SIZE \in Nat
    BY EndFacts, StreamAssumption DEF StreamTypeOK
<1>4. c \in Nat
    <2>1. CASE AtBase = {}
        BY <1>2, <1>3, <2>1 DEF Claims
    <2>2. CASE AtBase # {}
        BY <1>2, <2>2, SentFacts DEF Claims, AtBase
    <2>3. QED
        BY <2>1, <2>2
<1>5. StreamTypeOK'
    BY <1>1, <1>2, <1>3, <1>4 DEF StreamTypeOK
<1>6. Contiguous' /\ (taken <= Total)'
    BY <1>1 DEF Contiguous, Total, End
<1>7. MessagesDelivered'
    <2> SUFFICES ASSUME ~lost PROVE /\ handled + 1 <= Len(sent)
                                    /\ Base' = End(handled + 1)
                                    /\ m = sent[handled + 1].msg
        BY <1>1 DEF MessagesDelivered, End
    <2>1. handled < Len(sent)
        <3>1. g_recv_offset # 0
            BY <1>3 DEF TakeMessage
        <3>2. QED
            BY <1>3, <3>1, NextAtBase DEF MessagesDelivered
    <2>2. AtBase = {handled + 1}
        BY <2>1, NextAtBase
    <2>3. c = sent[handled + 1].msg.len /\ m = sent[handled + 1].msg
        BY <1>2, <2>2 DEF Claims, TakeMessage
    <2>4. handled + 1 \in 1..Len(sent) /\ handled \in 0..(Len(sent) - 1)
        BY <1>3, <2>1
    <2>5. sent[handled + 1].start = Base
        BY <2>4, EndFacts DEF MessagesDelivered
    <2>6. Base' = Base + c
        BY <1>1, <1>2, <1>3, <1>4 DEF Base
    <2>7. QED
        BY <1>3, <2>1, <2>3, <2>4, <2>5, <2>6 DEF End
<1>8. QED
    BY <1>5, <1>6, <1>7

(* The invariant of the stream holds in every reachable state.              *)
THEOREM StreamInvTheorem == StreamSpec => []StreamInv
<1>1. StreamInit => StreamInv
    <2> SUFFICES ASSUME StreamInit PROVE StreamInv
        OBVIOUS
    <2>1. sent = <<>> /\ sent \in Seq(Sent) /\ Len(sent) = 0
        BY DEF StreamInit
    <2>2. StreamTypeOK
        <3>1. 0 \in 0..BUFFER_SIZE /\ 0 \in Nat
            BY StreamAssumption
        <3>2. QED
            BY <2>1, <3>1, Zenon DEF StreamInit, StreamTypeOK
    <2>3. Contiguous
        BY <2>1 DEF Contiguous
    <2>4. taken <= Total /\ MessagesDelivered
        BY <2>1 DEF StreamInit, MessagesDelivered, Total, End, Base
    <2>5. QED
        BY <2>2, <2>3, <2>4 DEF StreamInv
<1>2. StreamInv /\ [StreamNext]_streamVars => StreamInv'
    <2> SUFFICES ASSUME StreamInv, [StreamNext]_streamVars PROVE StreamInv'
        OBVIOUS
    <2>1. CASE \E m \in Messages : BbuSend(m)
        BY <2>1, SendStep
    <2>2. CASE \E n \in 1..RECV_SIZE : TcpRecv(n)
        BY <2>2, RecvStep
    <2>3. CASE ParseWait
        BY <2>3, WaitStep
    <2>4. CASE ParseInvalid
        BY <2>4, StreamAssumption
           DEF ParseInvalid, StreamInv, StreamTypeOK, Contiguous, MessagesDelivered, Total, End
    <2>5. CASE \E m \in Messages \cup {Garbage} : TakeMessage(m)
        BY <2>5, TakeStep
    <2>6. CASE Disconnect
        <3>1. sent' = <<>> /\ sent' \in Seq(Sent) /\ Len(sent') = 0
            BY <2>6 DEF Disconnect
        <3>2. StreamTypeOK'
            <4>1. 0 \in 0..BUFFER_SIZE /\ 0 \in Nat
                BY StreamAssumption
            <4>2. rx_pc' = "recv"
                BY <2>6 DEF Disconnect
            <4>3. QED
                BY <2>6, <3>1, <4>1, <4>2, Zenon DEF Disconnect, StreamTypeOK
        <3>3. Contiguous'
            BY <3>1 DEF Contiguous
        <3>4. (taken <= Total)' /\ MessagesDelivered'
            BY <2>6, <3>1 DEF Disconnect, MessagesDelivered, Total, End, Base
        <3>5. QED
            BY <3>2, <3>3, <3>4 DEF StreamInv
    <2>7. CASE UNCHANGED streamVars
        BY <2>7 DEF streamVars, StreamInv, StreamTypeOK, Contiguous, MessagesDelivered, Total,
                    End, Base
    <2>8. QED
        BY <2>1, <2>2, <2>3, <2>4, <2>5, <2>6, <2>7 DEF StreamNext
<1>3. QED
    BY <1>1, <1>2, PTL DEF StreamSpec

(* on_tcp_data_received dispatches exactly the BBU's messages, in order and *)
(* each as soon as it is complete, however the network cuts the stream and  *)
(* however often the connection is replaced.                                *)
THEOREM MessagesDeliveredTheorem == StreamSpec => []MessagesDelivered
<1>1. StreamInv => MessagesDelivered
    BY DEF StreamInv
<1>2. QED
    BY <1>1, StreamInvTheorem, PTL

(* Bytes are thrown away only when the BBU is more than BUFFER_SIZE ahead.  *)
THEOREM LossNeedsBacklogTheorem == StreamSpec => LossNeedsBacklog
<1>1. StreamInv /\ [StreamNext]_streamVars =>
          [~lost /\ lost' => Total - End(handled) > BUFFER_SIZE]_streamVars
    <2> SUFFICES ASSUME StreamInv, StreamNext, ~lost, lost'
                 PROVE  Total - End(handled) > BUFFER_SIZE
        OBVIOUS
    <2> USE DEF StreamInv
    <2>0. /\ handled \in Nat /\ taken \in Nat /\ g_recv_offset \in Nat /\ Len(sent) \in Nat
          /\ Total \in Nat /\ BUFFER_SIZE \in Nat /\ taken <= Total /\ handled <= Len(sent)
          /\ Base = End(handled)
        BY EndFacts, StreamAssumption DEF StreamTypeOK, MessagesDelivered
    <2>1. ASSUME NEW n \in 1..RECV_SIZE, TcpRecv(n) PROVE Total - End(handled) > BUFFER_SIZE
        <3>1. g_recv_offset + n > BUFFER_SIZE /\ taken + n <= Total
            BY <2>1 DEF TcpRecv, Overflows
        <3>2. QED
            BY <2>0, <3>1, StreamAssumption DEF Base
    <2>2. CASE ParseInvalid
        <3>1. g_recv_offset # 0
            BY <2>2, StreamAssumption DEF ParseInvalid
        <3>2. handled < Len(sent)
            BY <2>0, <3>1, NextAtBase
        <3>3. handled + 1 \in 1..Len(sent) /\ handled \in 0..(Len(sent) - 1)
              /\ handled + 1 \in 0..Len(sent)
            BY <2>0, <3>2
        <3>4. sent[handled + 1].msg.len > BUFFER_SIZE
            <4>1. AtBase = {handled + 1}
                BY <3>2, NextAtBase
            <4>2. \E c \in {sent[handled + 1].msg.len} : ~Plausible(c)
                BY <2>2, <4>1 DEF ParseInvalid, Claims
            <4>3. QED
                BY <2>0, <3>3, <4>2, SentFacts, StreamAssumption DEF Plausible
        <3>5. End(handled + 1) = End(handled) + sent[handled + 1].msg.len
            BY <2>0, <3>3, EndFacts DEF End
        <3>6. QED
            BY <2>0, <3>3, <3>4, <3>5, EndFacts, SentFacts
    <2>3. QED
        BY <2>1, <2>2 DEF StreamNext, BbuSend, ParseWait, TakeMessage, Disconnect
<1>2. QED
    BY <1>1, StreamInvTheorem, PTL DEF StreamSpec, LossNeedsBacklog

--------------------
(* The handlers                                                             *)

(* What a handler, or the rule that drops a message, does to the stream is  *)
(* to take that message out of it.                                          *)
LEMMA HandleTakes ==
    ASSUME NEW m, Handle(m) PROVE TakeMessage(m) /\ last' = m /\ conf' = conf
<1>1. TakeMessage(m) /\ conf' = conf
    BY DEF Handle, HandleSetup, HandleHeartbeat, HandOn, HandleStatusQuery, HandleParamQuery,
           HandleParamConfig, HandleAlarmQuery, HandleLoopback, HandleReset,
           HandleTransparent, HandleCalib, Drop, Dispatch
<1>2. QED
    BY <1>1 DEF TakeMessage

(* Whatever the handlers do, the stream under them is CpriStream's: telemetry, *)
(* handlers, restarts and lost connections are its steps or leave it alone.   *)
THEOREM MessagesRefineStream == Spec => StreamSpec
<1>1. Init => StreamInit
    BY DEF Init
<1>2. [Next]_vars => [StreamNext]_streamVars
    <2> SUFFICES ASSUME [Next]_vars PROVE [StreamNext]_streamVars
        OBVIOUS
    <2>1. CASE Receive
        BY <2>1 DEF Receive, StreamNext
    <2>2. CASE \E m \in Messages \cup {Garbage} : Handle(m)
        BY <2>2, HandleTakes DEF StreamNext
    <2>3. CASE LoseConnection \/ Restart
        BY <2>3 DEF LoseConnection, Restart, StreamNext
    <2>4. FpgaStatus \/ UNCHANGED vars => UNCHANGED streamVars
        BY DEF FpgaStatus, vars
    <2>5. QED
        BY <2>1, <2>2, <2>3, <2>4 DEF Next
<1>3. QED
    BY <1>1, <1>2, PTL DEF Spec, StreamSpec

(* The program that handles, refuses and answers messages still dispatches  *)
(* exactly the BBU's messages in order, and throws bytes away only when the *)
(* BBU is more than a buffer ahead.                                         *)
THEOREM HandlersKeepStream == Spec => []MessagesDelivered /\ LossNeedsBacklog
BY MessagesRefineStream, MessagesDeliveredTheorem, LossNeedsBacklogTheorem, PTL

(* Of a configuration message, the elements whose value is stored and those *)
(* confirmed agree on the period, whichever commands to the FPGA failed.    *)
LEMMA SamePeriod ==
    ASSUME NEW m, NEW old, NEW sys \in SUBSET Good(m), "period" \notin Items(m, sys)
    PROVE  LastPeriod(m, Stored(m), old) =
           LastPeriod(m, sys \cup {i \in Good(m) : m.ies[i].item = "period"}, old)
<1> DEFINE done == sys \cup {i \in Good(m) : m.ies[i].item = "period"}
<1>1. \A i \in sys : m.ies[i].item # "period"
    BY DEF Items
<1>2. {i \in Stored(m) : m.ies[i].item = "period"} = {i \in done : m.ies[i].item = "period"}
    BY <1>1 DEF Stored
<1>3. QED
    BY <1>2 DEF LastPeriod

(* The inductive invariant: the period in use is the one confirmed.         *)
PeriodInv == g_cpu_stat_period = confirmed /\ QueryReportsConfirmed

(* A query for the statistics period is answered with the value confirmed   *)
(* last (param_query.c, param_config.c).                                    *)
THEOREM QueryReportsConfirmedTheorem == Spec => []QueryReportsConfirmed
<1>1. Init => PeriodInv
    BY DEF Init, PeriodInv, QueryReportsConfirmed, NoAnswer
<1>2. PeriodInv /\ [Next]_vars => PeriodInv'
    <2> SUFFICES ASSUME PeriodInv, [Next]_vars PROVE PeriodInv'
        OBVIOUS
    <2> USE DEF PeriodInv
    <2>1. CASE UNCHANGED <<g_cpu_stat_period, confirmed, last, answer>>
        BY <2>1 DEF QueryReportsConfirmed
    <2>2. CASE Receive
        BY <2>1, <2>2 DEF Receive, BbuSend, TcpRecv, ParseWait, ParseInvalid, handlerVars
    <2>3. ASSUME NEW m, Handle(m) PROVE PeriodInv'
        <3>0. last' = m
            BY <2>3, HandleTakes
        <3>1. CASE HandleParamConfig(m)
            <4>1. PICK sys \in SUBSET Good(m) :
                     /\ "period" \notin Items(m, sys)
                     /\ g_cpu_stat_period' = LastPeriod(m, Stored(m), g_cpu_stat_period)
                     /\ confirmed' = LastPeriod(m,
                            sys \cup {i \in Good(m) : m.ies[i].item = "period"}, confirmed)
                BY <3>1 DEF HandleParamConfig, Outcomes
            <4>2. m.id = "param_config"
                BY <3>1 DEF HandleParamConfig, Dispatch
            <4>3. QED
                BY <3>0, <4>1, <4>2, SamePeriod DEF QueryReportsConfirmed
        <3>2. CASE HandleParamQuery(m)
            <4>1. UNCHANGED <<g_cpu_stat_period, confirmed>>
                BY <3>2 DEF HandleParamQuery
            <4>2. \/ answer'.results = {}
                  \/ answer'.results = {<<i, ParamValue(i)>> : i \in Items(m, Good(m))}
                BY <3>2 DEF HandleParamQuery, NoAnswer, Answer
            <4>3. QED
                BY <4>1, <4>2 DEF QueryReportsConfirmed, ParamValue
        <3>3. CASE Drop(m)
            BY <3>3 DEF Drop, NoAnswer, QueryReportsConfirmed
        <3>4. CASE \/ HandleSetup(m) \/ HandleHeartbeat(m) \/ HandOn(m)
                   \/ HandleStatusQuery(m) \/ HandleAlarmQuery(m) \/ HandleLoopback(m)
                   \/ HandleReset(m) \/ HandleTransparent(m) \/ HandleCalib(m)
            <4>1. m.id # "param_query" /\ UNCHANGED <<g_cpu_stat_period, confirmed>>
                BY <3>4 DEF HandleSetup, HandleHeartbeat, HandOn, HandleStatusQuery,
                       HandleAlarmQuery, HandleLoopback, HandleReset, HandleTransparent,
                       HandleCalib, Dispatch
            <4>2. QED
                BY <3>0, <4>1 DEF QueryReportsConfirmed
        <3>5. QED
            BY <2>3, <3>1, <3>2, <3>3, <3>4 DEF Handle
    <2>4. CASE LoseConnection \/ Restart
        BY <2>4 DEF LoseConnection, Restart, NoAnswer, QueryReportsConfirmed
    <2>5. CASE FpgaStatus \/ UNCHANGED vars
        BY <2>1, <2>5 DEF FpgaStatus, vars, streamVars, handlerVars
    <2>6. QED
        BY <2>2, <2>3, <2>4, <2>5 DEF Next
<1>3. PeriodInv => QueryReportsConfirmed
    BY DEF PeriodInv
<1>4. QED
    BY <1>1, <1>2, <1>3, PTL DEF Spec

(* A configuration, a loopback or a calibration is answered with success    *)
(* exactly when its command took effect, whichever writes to the FPGA fail. *)
THEOREM AnswerTruthfulTheorem == Spec => []AnswerTruthful
<1>1. Init => AnswerTruthful
    BY DEF Init, AnswerTruthful, NoAnswer
<1>2. AnswerTruthful /\ [Next]_vars => AnswerTruthful'
    <2> SUFFICES ASSUME AnswerTruthful, [Next]_vars PROVE AnswerTruthful'
        OBVIOUS
    <2>1. CASE UNCHANGED <<last, answer, effects>>
        BY <2>1 DEF AnswerTruthful
    <2>2. CASE answer' = NoAnswer
        BY <2>2 DEF AnswerTruthful, NoAnswer
    <2>3. CASE Receive
        BY <2>1, <2>3 DEF Receive, BbuSend, TcpRecv, ParseWait, ParseInvalid, handlerVars
    <2>4. ASSUME NEW m, Handle(m) PROVE AnswerTruthful'
        <3>0. last' = m
            BY <2>4, HandleTakes
        <3>1. CASE HandleParamConfig(m)
            <4>1. PICK sys \in Outcomes(m) :
                     LET done == sys \cup {i \in Good(m) : m.ies[i].item = "period"}
                     IN  /\ effects' = Items(m, done)
                         /\ answer' = Answer({<<item, ConfigResult(m, item, done)>> :
                                 item \in Items(m, Parsed(m)) \cap {"time", "period", "mode"}})
                BY <3>1 DEF HandleParamConfig
            <4> DEFINE done == sys \cup {i \in Good(m) : m.ies[i].item = "period"}
            <4>2. m.id = "param_config"
                BY <3>1 DEF HandleParamConfig, Dispatch
            <4>3. ASSUME NEW r \in answer'.results
                  PROVE  (r[2] = "success") <=> r[1] \in effects'
                <5>1. PICK item : r = <<item, ConfigResult(m, item, done)>>
                    BY <4>1, <4>3 DEF Answer
                <5>2. item \in effects' <=> \E i \in done : m.ies[i].item = item
                    BY <4>1 DEF Items
                <5>3. QED
                    BY <5>1, <5>2 DEF ConfigResult
            <4>4. QED
                BY <3>0, <4>2, <4>3 DEF AnswerTruthful
        <3>2. CASE HandleLoopback(m)
            <4>1. PICK done \in FirstOutcomes(m) :
                     /\ effects' = Items(m, done)
                     /\ \/ answer' = NoAnswer
                        \/ answer' = Answer({<<"loopback", IF done # {} THEN "success"
                                                           ELSE "failure">>})
                BY <3>2 DEF HandleLoopback
            <4>2. m.id = "loopback" /\ (done # {} <=> \E e \in effects' : TRUE)
                BY <3>2, <4>1 DEF HandleLoopback, Dispatch, Items
            <4>3. CASE answer' = Answer({<<"loopback", IF done # {} THEN "success"
                                                       ELSE "failure">>})
                <5>1. \A r \in answer'.results : (r[2] = "success") <=> done # {}
                    BY <4>3 DEF Answer
                <5>2. QED
                    BY <3>0, <4>2, <5>1 DEF AnswerTruthful
            <4>4. QED
                BY <2>2, <4>1, <4>3
        <3>3. CASE HandleCalib(m)
            <4>1. m.id = "calib"
                BY <3>3 DEF HandleCalib, Dispatch
            <4>2. CASE effects' = {"calib"} /\ answer' = Answer({<<"calib", "success">>})
                BY <3>0, <4>1, <4>2 DEF AnswerTruthful, Answer
            <4>3. CASE effects' = {} /\ answer' = Answer({<<"calib", "failure">>})
                BY <3>0, <4>1, <4>3 DEF AnswerTruthful, Answer
            <4>4. QED
                BY <2>2, <3>3, <4>2, <4>3 DEF HandleCalib
        <3>4. CASE Drop(m)
            BY <2>2, <3>4 DEF Drop
        <3>5. CASE \/ HandleSetup(m) \/ HandleHeartbeat(m) \/ HandOn(m)
                   \/ HandleStatusQuery(m) \/ HandleParamQuery(m) \/ HandleAlarmQuery(m)
                   \/ HandleReset(m) \/ HandleTransparent(m)
            <4>1. m.id \notin {"param_config", "loopback", "calib"}
                BY <3>5 DEF HandleSetup, HandleHeartbeat, HandOn, HandleStatusQuery,
                       HandleParamQuery, HandleAlarmQuery, HandleReset, HandleTransparent,
                       Dispatch
            <4>2. QED
                BY <3>0, <4>1 DEF AnswerTruthful
        <3>6. QED
            BY <2>4, <3>1, <3>2, <3>3, <3>4, <3>5 DEF Handle
    <2>5. CASE LoseConnection \/ Restart
        BY <2>2, <2>5 DEF LoseConnection, Restart
    <2>6. CASE FpgaStatus \/ UNCHANGED vars
        BY <2>1, <2>6 DEF FpgaStatus, vars, streamVars, handlerVars
    <2>7. QED
        BY <2>3, <2>4, <2>5, <2>6 DEF Next
<1>3. QED
    BY <1>1, <1>2, PTL DEF Spec

--------------------
(* How far main() has come with the shutdown decides which threads may      *)
(* still be there, and what they have left behind.                          *)
Order ==
    /\ main \in {"run", "join_poll", "join_writer", "telemetry_destroyed",
                 "upload_destroyed", "tcp_destroyed"}
    /\ main # "run" => stopping
    /\ main \in {"join_writer", "telemetry_destroyed", "upload_destroyed", "tcp_destroyed"} =>
            poll = "exited"
    /\ main \in {"telemetry_destroyed", "upload_destroyed", "tcp_destroyed"} => writer = "exited"
    /\ writer = "exited" => stopping /\ queue = <<>>
    /\ main \in {"upload_destroyed", "tcp_destroyed"} => g_upload_stopping
    /\ main = "tcp_destroyed" => recv.at = "idle"

(* Every step of the telemetry log keeps that order.                        *)
LEMMA TelOrder ==
    ASSUME Order, TelNext, UNCHANGED upVars
    PROVE  Order'
<1>a. UNCHANGED <<g_upload_stopping, recv>>
    BY DEF upVars
<1>1. CASE PollSend
    BY <1>1, <1>a DEF PollSend, Order, queueVars
<1>2. CASE PollSent
    BY <1>2, <1>a DEF PollSent, Order, queueVars
<1>3. CASE PollExit
    BY <1>3, <1>a DEF PollExit, Order, queueVars
<1>4. CASE OnFrame
    BY <1>4, <1>a DEF OnFrame, Order, Signal
<1>5. CASE WriterSleep
    BY <1>5, <1>a DEF WriterSleep, Order, queueVars, pollVars
<1>6. CASE WriterExit
    BY <1>6, <1>a DEF WriterExit, Order, queueVars, pollVars
<1>7. CASE WriterTake
    BY <1>7, <1>a DEF WriterTake, Order, pollVars
<1>8. CASE WriterLock
    BY <1>8, <1>a DEF WriterLock, Order, queueVars, pollVars
<1>9. CASE WriterBegin
    BY <1>9, <1>a DEF WriterBegin, Order, queueVars, pollVars
<1>10. CASE WriterEnd
    BY <1>10, <1>a DEF WriterEnd, Written, Buffered, Order, queueVars, pollVars
<1>11. CASE WriterAgain
    BY <1>11, <1>a DEF WriterAgain, Order, queueVars, pollVars
<1>12. CASE DestroyStop
    BY <1>12, <1>a DEF DestroyStop, Signal, Order, pollVars
<1>13. CASE JoinPoll \/ JoinWriter
    BY <1>13, <1>a DEF JoinPoll, JoinWriter, Order, queueVars, pollVars
<1>14. QED
    BY <1>1, <1>2, <1>3, <1>4, <1>5, <1>6, <1>7, <1>8, <1>9, <1>10, <1>11, <1>12, <1>13
       DEF TelNext

(* So does every step of the upload.                                        *)
LEMMA OrderStep ==
    ASSUME Order, [LogNext]_logVars
    PROVE  Order'
<1> USE DEF telVars
<1>1. ASSUME UNCHANGED logVars PROVE Order'
    BY <1>1 DEF Order, logVars, upVars
<1>2. CASE CreateThread \/ CreateFails \/ ReportFailed
    BY <1>2 DEF Order, CreateThread, CreateFails, ReportFailed
<1>3. CASE Shutdown
    BY <1>3 DEF Order, Shutdown, UploadDestroy, TcpDestroy, queueVars, pollVars, upVars
<1>4. ASSUME NEW s \in Serials, Request(s) PROVE Order'
    BY <1>4 DEF Order, Request, RejectBusy, RejectInvalid, Reject, AcceptRequest, CanReceive
<1>5. ASSUME NEW s \in Serials, UploadThread(s) PROVE Order'
  <2>1. UNCHANGED <<main, stopping, poll, writer, queue, g_upload_stopping, recv>>
    BY <1>5 DEF UploadThread, CopyText, StatTelemetry, TelemetrySnapshot, PackAndUpload, CheckStopping,
                SendResult, ReopenGate, upRest, queueVars, pollVars
  <2>2. QED
    BY <2>1 DEF Order
<1>6. QED
    BY <1>1, <1>2, <1>3, <1>4, <1>5, TelOrder DEF LogNext

(* Nothing is torn down under a thread: when main() goes on to TCP and the  *)
(* UART, the poll thread and the writer have been joined, every frame that  *)
(* was queued has been handed to the file, and the upload thread, which     *)
(* nobody joins, has been told not to send.                                 *)
THEOREM ThreadsGoneFirstTheorem == LogSpec => []ThreadsGoneFirst
<1>1. LogInit => Order
    BY DEF LogInit, TelInit, UpInit, Order
<1>2. Order /\ [LogNext]_logVars => Order'
    BY OrderStep
<1>3. Order => ThreadsGoneFirst
    BY DEF Order, ThreadsGoneFirst, InHand
<1>4. QED
    BY <1>1, <1>2, <1>3, PTL DEF LogSpec

--------------------
(* The files, the queue and everything on the way between them hold numbers *)
(* of frames; the backups and the counters keep their types.                *)
TelTypes ==
    /\ queue \in Seq(Nat) /\ accepted \in Seq(Nat)
    /\ file \in Seq(Nat) /\ cache \in Seq(Nat) /\ slot \in Nat
    /\ backups \in [Backups -> Seq(Nat)]
    /\ bytes \in Nat /\ failures \in Nat

UploadMsgs ==
    {Ack(s, r) : s \in Serials, r \in {"ACCEPT", "REJECT"}} \cup
    {Result(s, r) : s \in Serials, r \in {"SUCCESS", "FILE_NOT_EXIST", "FAILED"}}

UploadTypes ==
    /\ recv \in [at : {"idle", "create", "failed"}, serial : Serials \cup {NoTask}]
    /\ recv.at # "idle" => recv.serial \in Serials /\ task \in Serials
    /\ thread \in [Serials -> {"none", "stat", "snapshot", "copy", "pack", "send", "sending", "reopen",
                               "exited"}]
    /\ \A s \in Serials : thread[s] # "none" => task \in Serials
    /\ result \in [Serials -> {"SUCCESS", "FILE_NOT_EXIST", "FAILED"}]
    /\ snapshot \in [Serials -> Seq(Nat)]
    /\ to_bbu \in Seq(UploadMsgs)

(* There is at least one backup file, whatever the configuration says.      *)
LEMMA BackupsCounted == NumBackups \in Nat \ {0}
BY TelAssumption DEF NumBackups

(* Operations on sequences of frames yield sequences of frames.             *)
LEMMA FrameSeqs ==
    ASSUME NEW q \in Seq(Nat)
    PROVE  /\ <<>> \in Seq(Nat) /\ Front(q) \in Seq(Nat) /\ Len(q) \in Nat
           /\ \A k \in Nat : Append(q, k) \in Seq(Nat)
           /\ \A r \in Seq(Nat) : q \o r \in Seq(Nat)
           /\ q # <<>> => Head(q) \in Nat /\ Tail(q) \in Seq(Nat)
<1>1. Front(q) \in Seq(Nat)
    BY DEF Front
<1>2. QED
    BY <1>1

(* A rotation moves whole files.                                            *)
LEMMA RotateTypes ==
    ASSUME TelTypes, NEW f \in Seq(Nat), NEW k, NEW a \in BOOLEAN, NEW c \in BOOLEAN, Rotate(f, k, a, c)
    PROVE  /\ file' \in Seq(Nat) /\ cache' \in Seq(Nat) /\ bytes' \in Nat
           /\ backups' \in [Backups -> Seq(Nat)]
<1>2. /\ backups' = Shifted(f, k, a) /\ file' = (IF a THEN <<>> ELSE f)
      /\ cache' = <<>> /\ bytes' = 0
    BY DEF Rotate
<1>3. <<>> \in Seq(Nat)
    OBVIOUS
<1>4. \A b \in Backups : b # 1 => b - 1 \in Backups
    BY TelAssumption DEF Backups, NumBackups
<1>5. Shifted(f, k, a) \in [Backups -> Seq(Nat)]
    BY <1>3, <1>4 DEF Shifted, TelTypes
<1>6. QED
    BY <1>2, <1>3, <1>5

(* A rotation after n failures leaves a natural number of failures behind.  *)
LEMMA RotateFailures ==
    ASSUME TelTypes, NEW f, NEW n \in Nat, RotateAnyhow(f, n)
    PROVE  /\ \E k \in Stuck, a, c \in BOOLEAN : Rotate(f, k, a, c)
           /\ failures' \in Nat /\ failures + n <= failures'
<1>1. PICK k \in Stuck, a \in BOOLEAN, c \in BOOLEAN :
        /\ Failing(n + Cost(k = 0 \/ g_tel_max_backups = 0) + Cost(a) + Cost(c)) /\ Rotate(f, k, a, c)
    BY DEF RotateAnyhow
<1>2. failures' = failures + (n + Cost(k = 0 \/ g_tel_max_backups = 0) + Cost(a) + Cost(c))
    BY <1>1 DEF Failing
<1>3. /\ Cost(k = 0 \/ g_tel_max_backups = 0) \in Nat /\ Cost(a) \in Nat /\ Cost(c) \in Nat
      /\ failures \in Nat
    BY DEF Cost, TelTypes
<1>4. QED
    BY <1>1, <1>2, <1>3

(* The same rotation keeps the types of the files.                          *)
LEMMA AnyhowTypes ==
    ASSUME TelTypes, NEW f \in Seq(Nat), NEW n \in Nat, RotateAnyhow(f, n)
    PROVE  /\ file' \in Seq(Nat) /\ cache' \in Seq(Nat) /\ bytes' \in Nat
           /\ backups' \in [Backups -> Seq(Nat)] /\ failures' \in Nat
BY RotateFailures, RotateTypes

(* The log starts from what earlier runs left behind.                       *)
LEMMA TelTypesInit ==
    ASSUME TelInit
    PROVE  TelTypes
<1>1. PICK log \in OldLogs :
        LET full    == g_tel_max_size - 1
            old     == [j \in Backups |-> IF j > log[1] THEN <<>>
                            ELSE [k \in 1..full |-> (log[1] - j) * full + k]]
            current == [k \in 1..log[2] |-> log[1] * full + k]
        IN
        /\ accepted = [k \in 1 .. log[1] * full + log[2] |-> k]
        /\ IF log[2] >= g_tel_max_size
           THEN /\ file = <<>> /\ bytes = 0
                /\ backups = [j \in Backups |-> IF j = 1 THEN current ELSE old[j - 1]]
           ELSE file = current /\ bytes = log[2] /\ backups = old
        /\ cache = <<>> /\ queue = <<>> /\ slot = Torn /\ failures = 0
    BY DEF TelInit
<1> DEFINE full    == g_tel_max_size - 1
           old     == [j \in Backups |-> IF j > log[1] THEN <<>>
                            ELSE [k \in 1..full |-> (log[1] - j) * full + k]]
           current == [k \in 1..log[2] |-> log[1] * full + k]
<1>2. full \in Nat /\ log[1] \in Nat /\ log[2] \in Nat
    BY TelAssumption
<1> HIDE DEF full
<1>3. \A a, b, k \in Nat : a * b + k \in Nat
    OBVIOUS
<1>4. accepted \in Seq(Nat)
  <2>1. log[1] * full + log[2] \in Nat
    BY <1>2, <1>3
  <2>2. accepted = [k \in 1 .. log[1] * full + log[2] |-> k]
    BY <1>1 DEF full
  <2> HIDE DEF full
  <2>3. \A n \in Nat : [k \in 1..n |-> k] \in Seq(Nat)
    OBVIOUS
  <2>4. QED
    BY <2>1, <2>2, <2>3
<1>5. current \in Seq(Nat)
  <2>1. \A k \in 1..log[2] : log[1] * full + k \in Nat
    BY <1>2, <1>3
  <2>2. \A n \in Nat : (\A k \in 1..n : log[1] * full + k \in Nat)
                        => [k \in 1..n |-> log[1] * full + k] \in Seq(Nat)
    OBVIOUS
  <2>3. QED
    BY <1>2, <2>1, <2>2
<1>6. old \in [Backups -> Seq(Nat)]
  <2>1. ASSUME NEW j \in Backups, ~(j > log[1])
        PROVE  [k \in 1..full |-> (log[1] - j) * full + k] \in Seq(Nat)
    <3>1. log[1] - j \in Nat
        BY <1>2, <2>1, TelAssumption DEF Backups, NumBackups
    <3>2. \A k \in 1..full : (log[1] - j) * full + k \in Nat
        BY <3>1, <1>2, <1>3
    <3>3. QED
        BY <1>2, <3>2
  <2>2. <<>> \in Seq(Nat)
    OBVIOUS
  <2>3. QED
    BY <2>1, <2>2
<1>7. /\ \/ /\ file = <<>> /\ bytes = 0
            /\ backups = [j \in Backups |-> IF j = 1 THEN current ELSE old[j - 1]]
         \/ file = current /\ bytes = log[2] /\ backups = old
      /\ cache = <<>> /\ queue = <<>> /\ slot = 0 /\ failures = 0
    BY <1>1 DEF full, Torn
<1> HIDE DEF current, old
<1>8. \A k \in Backups : k # 1 => k - 1 \in Backups
    BY TelAssumption DEF Backups, NumBackups
<1>9. [j \in Backups |-> IF j = 1 THEN current ELSE old[j - 1]] \in [Backups -> Seq(Nat)]
    BY <1>5, <1>6, <1>8
<1>10. <<>> \in Seq(Nat) /\ 0 \in Nat
    OBVIOUS
<1>11. QED
    BY <1>2, <1>4, <1>5, <1>6, <1>7, <1>9, <1>10 DEF TelTypes

(* Every step of the telemetry log keeps the types.                         *)
LEMMA TelTypesStep ==
    ASSUME TelTypes, TelNext
    PROVE  TelTypes'
<1> USE DEF queueVars, fileVars
<1>a. /\ queue \in Seq(Nat) /\ accepted \in Seq(Nat)
      /\ file \in Seq(Nat) /\ cache \in Seq(Nat) /\ slot \in Nat
      /\ backups \in [Backups -> Seq(Nat)]
      /\ bytes \in Nat /\ failures \in Nat
    BY DEF TelTypes
<1>b. Fails \/ Works => failures' \in Nat
    BY <1>a DEF Fails, Failing, Works
<1>1. CASE PollSend \/ PollSent \/ PollExit
    BY <1>1 DEF TelTypes, PollSend, PollSent, PollExit
<1>2. CASE OnFrame
  <2>1. UNCHANGED <<fileVars, slot, failures>>
    BY <1>2 DEF OnFrame
  <2>2. \/ UNCHANGED <<queue, accepted>>
        \/ queue' = Append(queue, Len(accepted) + 1) /\ accepted' = Append(accepted, Len(accepted) + 1)
    BY <1>2 DEF OnFrame
  <2>3. Len(accepted) + 1 \in Nat
    BY <1>a
  <2>4. queue' \in Seq(Nat) /\ accepted' \in Seq(Nat)
    BY <1>a, <2>2, <2>3, FrameSeqs
  <2>5. QED
    BY <2>1, <2>4 DEF TelTypes
<1>3. CASE WriterSleep \/ WriterExit
    BY <1>3 DEF TelTypes, WriterSleep, WriterExit
<1>4. CASE WriterTake
  <2>1. slot' = Head(queue) /\ queue' = Tail(queue) /\ queue # <<>> /\ UNCHANGED <<fileVars, accepted, failures>>
    BY <1>4 DEF WriterTake
  <2>2. slot' \in Nat /\ queue' \in Seq(Nat)
    BY <1>a, <2>1, FrameSeqs
  <2>3. QED
    BY <2>1, <2>2 DEF TelTypes
<1>5. CASE WriterLock
  <2>1. UNCHANGED <<queueVars, slot>>
    BY <1>5 DEF WriterLock
  <2>2. \/ UNCHANGED fileVars /\ Works
        \/ \E f \in {file \o cache, file}, n \in {0, 1} : RotateAnyhow(f, n)
    BY <1>5 DEF WriterLock
  <2>3. file \o cache \in Seq(Nat)
    BY <1>a, FrameSeqs
  <2>4. /\ file' \in Seq(Nat) /\ cache' \in Seq(Nat) /\ bytes' \in Nat
        /\ backups' \in [Backups -> Seq(Nat)] /\ failures' \in Nat
    BY <1>a, <1>b, <2>2, <2>3, AnyhowTypes
  <2>5. QED
    BY <1>a, <2>1, <2>4 DEF TelTypes
<1>6. CASE WriterBegin
  <2>1. file' = Append(file, 0) \/ UNCHANGED file
    BY <1>6 DEF WriterBegin, Torn
  <2>2. UNCHANGED <<queueVars, slot, cache, backups, bytes, failures>>
    BY <1>6 DEF WriterBegin
  <2>3. file' \in Seq(Nat)
    BY <1>a, <2>1, FrameSeqs
  <2>4. QED
    BY <2>2, <2>3 DEF TelTypes
<1>7. CASE WriterEnd
  <2>1. UNCHANGED <<queueVars, slot>>
    BY <1>7 DEF WriterEnd
  <2>2. \/ /\ file' = Front(file) \o Append(cache, slot) /\ cache' = <<>> /\ bytes' = bytes + 1
           /\ backups' = backups /\ Works
        \/ /\ file' = Front(file) /\ cache' = Append(cache, slot) /\ bytes' = bytes + 1
           /\ backups' = backups /\ Fails
        \/ \E f \in {file, Front(file) \o Append(cache, 0)} : RotateAnyhow(f, 1)
    BY <1>7 DEF WriterEnd, Written, Buffered, Torn
  <2>3. /\ Front(file) \in Seq(Nat) /\ <<>> \in Seq(Nat) /\ bytes + 1 \in Nat
        /\ Append(cache, slot) \in Seq(Nat) /\ Append(cache, 0) \in Seq(Nat)
    BY <1>a, FrameSeqs
  <2>4. Front(file) \o Append(cache, slot) \in Seq(Nat) /\ Front(file) \o Append(cache, 0) \in Seq(Nat)
    BY <2>3, FrameSeqs
  <2>5. /\ file' \in Seq(Nat) /\ cache' \in Seq(Nat) /\ bytes' \in Nat
        /\ backups' \in [Backups -> Seq(Nat)] /\ failures' \in Nat
    BY <1>a, <1>b, <2>2, <2>3, <2>4, AnyhowTypes
  <2>6. QED
    BY <1>a, <2>1, <2>5 DEF TelTypes
<1>8. CASE WriterAgain
  <2>1. UNCHANGED <<queueVars, slot, backups>> /\ (Fails \/ Works)
    BY <1>8 DEF WriterAgain
  <2>2. /\ file' = Append(file, slot) \/ file' = Append(file, 0) \/ file' = file
        /\ cache' = cache \/ cache' = Append(cache, slot)
        /\ bytes' \in {bytes, bytes + 1}
    BY <1>8 DEF WriterAgain, Torn
  <2>3. /\ Append(file, slot) \in Seq(Nat) /\ Append(file, 0) \in Seq(Nat) /\ bytes + 1 \in Nat
        /\ Append(cache, slot) \in Seq(Nat)
    BY <1>a, FrameSeqs
  <2>4. file' \in Seq(Nat) /\ cache' \in Seq(Nat) /\ bytes' \in Nat
    BY <1>a, <2>2, <2>3
  <2>5. QED
    BY <1>a, <1>b, <2>1, <2>4 DEF TelTypes
<1>9. CASE DestroyStop \/ JoinPoll
    BY <1>9 DEF TelTypes, DestroyStop, JoinPoll
<1>10. CASE JoinWriter
  <2>1. file' = file \o cache /\ cache' = <<>> /\ UNCHANGED <<queueVars, slot, backups, bytes, failures>>
    BY <1>10 DEF JoinWriter
  <2>2. file' \in Seq(Nat) /\ cache' \in Seq(Nat)
    BY <1>a, <2>1, FrameSeqs
  <2>3. QED
    BY <2>1, <2>2 DEF TelTypes
<1>11. QED
    BY <1>1, <1>2, <1>3, <1>4, <1>5, <1>6, <1>7, <1>8, <1>9, <1>10 DEF TelNext

(* What the snapshot does: it flushes the file or not, and copies it as it  *)
(* is then or not.                                                          *)
LEMMA SnapshotCases ==
    ASSUME NEW s \in Serials, TelemetrySnapshot(s)
    PROVE  /\ thread[s] = "copy" /\ thread' = [thread EXCEPT ![s] = "pack"] /\ ~file_locked
           /\ UNCHANGED <<queue, dropped, stopping, accepted, writer, slot, backups, bytes, open, main,
                          result, g_upload_in_progress, g_upload_stopping, task, recv, uploaded,
                          to_bbu, poll>>
           /\ (file' = file /\ cache' = cache) \/ (file' = file \o cache /\ cache' = <<>>)
           /\ snapshot' = snapshot \/ snapshot' = [snapshot EXCEPT ![s] = file']
           /\ \E n \in {0, 1, 2} : failures' = failures + n \/ failures' = failures
<1>1. /\ thread[s] = "copy" /\ thread' = [thread EXCEPT ![s] = "pack"] /\ ~file_locked
      /\ UNCHANGED <<queue, dropped, stopping, accepted, writer, slot, backups, bytes, open, main,
                     result, g_upload_in_progress, g_upload_stopping, task, recv, uploaded,
                     to_bbu, poll>>
    BY DEF TelemetrySnapshot, Go, queueVars, pollVars, upRest
<1>2. CASE ~open /\ UNCHANGED <<file, cache, snapshot, failures>>
    BY <1>1, <1>2
<1>3. ASSUME NEW a \in BOOLEAN, NEW b \in BOOLEAN,
             /\ Failing(Cost(a) + Cost(b))
             /\ file' = IF a THEN file \o cache ELSE file
             /\ cache' = IF a THEN <<>> ELSE cache
             /\ snapshot' = IF b THEN [snapshot EXCEPT ![s] = file'] ELSE snapshot
      PROVE  /\ (file' = file /\ cache' = cache) \/ (file' = file \o cache /\ cache' = <<>>)
             /\ snapshot' = snapshot \/ snapshot' = [snapshot EXCEPT ![s] = file']
             /\ \E n \in {0, 1, 2} : failures' = failures + n \/ failures' = failures
  <2>1. Cost(a) + Cost(b) \in {0, 1, 2} /\ failures' = failures + (Cost(a) + Cost(b))
    BY <1>3 DEF Failing, Cost
  <2>2. QED
    BY <1>3, <2>1
<1>4. QED
    BY <1>1, <1>2, <1>3 DEF TelemetrySnapshot

(* The types of both parts are kept by every step.                          *)
LEMMA LogTypesStep ==
    ASSUME TelTypes, UploadTypes, [LogNext]_logVars
    PROVE  TelTypes' /\ UploadTypes'
<1>a. /\ recv \in [at : {"idle", "create", "failed"}, serial : Serials \cup {NoTask}]
      /\ recv.at # "idle" => recv.serial \in Serials /\ task \in Serials
      /\ thread \in [Serials -> {"none", "stat", "snapshot", "copy", "pack", "send", "sending", "reopen",
                                 "exited"}]
      /\ \A s \in Serials : thread[s] # "none" => task \in Serials
      /\ result \in [Serials -> {"SUCCESS", "FILE_NOT_EXIST", "FAILED"}]
      /\ snapshot \in [Serials -> Seq(Nat)]
      /\ to_bbu \in Seq(UploadMsgs)
    BY DEF UploadTypes
<1>b. /\ \A s \in Serials, r \in {"ACCEPT", "REJECT"} : Append(to_bbu, Ack(s, r)) \in Seq(UploadMsgs)
      /\ \A s \in Serials, r \in {"SUCCESS", "FILE_NOT_EXIST", "FAILED"} :
            Append(to_bbu, Result(s, r)) \in Seq(UploadMsgs)
  <2>1. /\ \A s \in Serials, r \in {"ACCEPT", "REJECT"} : Ack(s, r) \in UploadMsgs
        /\ \A s \in Serials, r \in {"SUCCESS", "FILE_NOT_EXIST", "FAILED"} : Result(s, r) \in UploadMsgs
    BY DEF UploadMsgs
  <2>2. \A m \in UploadMsgs : Append(to_bbu, m) \in Seq(UploadMsgs)
    BY <1>a
  <2>3. QED
    BY <2>1, <2>2
<1>c. UNCHANGED telVars => TelTypes'
    BY DEF TelTypes, telVars
<1>d. UNCHANGED upVars => UploadTypes'
    BY DEF UploadTypes, upVars
<1>1. CASE TelNext /\ UNCHANGED upVars
    BY <1>1, <1>d, TelTypesStep
<1>2. CASE CreateThread \/ CreateFails \/ ReportFailed
  <2>1. UNCHANGED <<telVars, result, snapshot, task>>
    BY <1>2 DEF CreateThread, CreateFails, ReportFailed
  <2>2. recv.at # "idle" /\ \E a \in {"idle", "failed"} : recv' = [recv EXCEPT !.at = a]
    BY <1>2 DEF CreateThread, CreateFails, ReportFailed
  <2>3. \/ to_bbu' = to_bbu /\ thread' = [thread EXCEPT ![recv.serial] = "stat"]
        \/ to_bbu' = to_bbu /\ thread' = thread
        \/ to_bbu' = Append(to_bbu, Result(recv.serial, "FAILED")) /\ thread' = thread
    BY <1>2 DEF CreateThread, CreateFails, ReportFailed
  <2>4. recv' \in [at : {"idle", "create", "failed"}, serial : Serials \cup {NoTask}] /\ recv'.serial = recv.serial
    BY <1>a, <2>2
  <2>5. to_bbu' \in Seq(UploadMsgs)
    BY <1>a, <1>b, <2>2, <2>3
  <2>6. /\ thread' \in [Serials -> {"none", "stat", "snapshot", "copy", "pack", "send", "sending", "reopen",
                                 "exited"}]
        /\ task' \in Serials
    BY <1>a, <2>1, <2>2, <2>3
  <2>7. QED
    BY <1>a, <1>c, <2>1, <2>2, <2>4, <2>5, <2>6 DEF UploadTypes
<1>3. CASE Shutdown
    BY <1>3 DEF Shutdown, UploadDestroy, TcpDestroy, queueVars, fileVars, upVars, TelTypes, UploadTypes
<1>4. ASSUME NEW s \in Serials, Request(s) PROVE TelTypes' /\ UploadTypes'
  <2>1. UNCHANGED <<telVars, thread, result, snapshot>>
    BY <1>4 DEF Request, RejectBusy, RejectInvalid, Reject, AcceptRequest
  <2>2. recv' = recv \/ recv' = [at |-> "create", serial |-> s]
    BY <1>4 DEF Request, RejectBusy, RejectInvalid, Reject, AcceptRequest
  <2>3. \E r \in {"ACCEPT", "REJECT"} : to_bbu' = Append(to_bbu, Ack(s, r))
    BY <1>4 DEF Request, RejectBusy, RejectInvalid, Reject, AcceptRequest
  <2>4. /\ recv' \in [at : {"idle", "create", "failed"}, serial : Serials \cup {NoTask}]
        /\ recv'.at # "idle" => recv'.serial \in Serials /\ task' \in Serials
        /\ \A t \in Serials : thread'[t] # "none" => task' \in Serials
    BY <1>a, <1>4, <2>1, <2>2
       DEF Request, RejectBusy, RejectInvalid, Reject, AcceptRequest, CanReceive
  <2>5. to_bbu' \in Seq(UploadMsgs)
    BY <1>b, <2>3
  <2>6. QED
    BY <1>a, <1>c, <2>1, <2>4, <2>5 DEF UploadTypes
<1>5. ASSUME NEW s \in Serials, UploadThread(s) PROVE TelTypes' /\ UploadTypes'
  <2>1. CASE TelemetrySnapshot(s)
    <3>1. /\ thread[s] = "copy" /\ thread' = [thread EXCEPT ![s] = "pack"]
          /\ UNCHANGED <<queue, accepted, slot, backups, bytes, result, task, recv, to_bbu>>
          /\ (file' = file /\ cache' = cache) \/ (file' = file \o cache /\ cache' = <<>>)
          /\ snapshot' = snapshot \/ snapshot' = [snapshot EXCEPT ![s] = file']
          /\ \E n \in {0, 1, 2} : failures' = failures + n \/ failures' = failures
        BY <2>1, SnapshotCases
    <3>2. file \o cache \in Seq(Nat) /\ <<>> \in Seq(Nat)
        BY FrameSeqs DEF TelTypes
    <3>3. file' \in Seq(Nat) /\ cache' \in Seq(Nat) /\ failures' \in Nat
      <4>1. failures' \in Nat
        BY <3>1 DEF TelTypes
      <4>2. file \in Seq(Nat) /\ cache \in Seq(Nat)
        BY DEF TelTypes
      <4>3. QED
        BY <3>1, <3>2, <4>1, <4>2, Zenon
    <3>4. TelTypes'
        BY <3>1, <3>3 DEF TelTypes
    <3>5. snapshot' \in [Serials -> Seq(Nat)]
        BY <1>a, <3>1, <3>3
    <3>6. /\ thread' \in [Serials -> {"none", "stat", "snapshot", "copy", "pack", "send", "sending",
                                      "reopen", "exited"}]
          /\ task' \in Serials
        BY <1>a, <3>1
    <3>7. QED
        BY <1>a, <3>1, <3>4, <3>5, <3>6 DEF UploadTypes
  <2>2. CASE ~TelemetrySnapshot(s)
    <3>1. UNCHANGED <<telVars, snapshot, recv>>
        BY <1>5, <2>2 DEF UploadThread, CopyText, StatTelemetry, PackAndUpload, CheckStopping, SendResult, ReopenGate, upRest
    <3>2. \E to \in {"snapshot", "copy", "pack", "send", "sending", "reopen", "exited"} : thread' = [thread EXCEPT ![s] = to]
        BY <1>5, <2>2 DEF UploadThread, CopyText, StatTelemetry, PackAndUpload, CheckStopping, SendResult, ReopenGate, Go
    <3>3. result' = result \/ \E r \in {"FILE_NOT_EXIST", "FAILED"} : result' = [result EXCEPT ![s] = r]
        BY <1>5, <2>2 DEF UploadThread, CopyText, StatTelemetry, PackAndUpload, CheckStopping, SendResult, ReopenGate, GiveUp
    <3>4. thread[s] # "none" /\ task' = task
        BY <1>5, <2>2 DEF UploadThread, CopyText, StatTelemetry, PackAndUpload, CheckStopping, SendResult, ReopenGate, Go, upRest
    <3>5. to_bbu' = to_bbu \/ to_bbu' = Append(to_bbu, Result(task, result[s]))
        BY <1>5, <2>2
           DEF UploadThread, CopyText, StatTelemetry, PackAndUpload, CheckStopping, SendResult, ReopenGate, upRest
    <3>6. to_bbu' \in Seq(UploadMsgs) /\ task \in Serials
        BY <1>a, <1>b, <3>4, <3>5
    <3>7. /\ thread' \in [Serials -> {"none", "stat", "snapshot", "copy", "pack", "send", "sending",
                                      "reopen", "exited"}]
          /\ result' \in [Serials -> {"SUCCESS", "FILE_NOT_EXIST", "FAILED"}]
        BY <1>a, <3>2, <3>3, ZenonT(60)
    <3>8. QED
        BY <1>a, <1>c, <3>1, <3>4, <3>6, <3>7 DEF UploadTypes
  <2>3. QED
    BY <2>1, <2>2
<1>6. CASE UNCHANGED logVars
    BY <1>6, <1>c, <1>d DEF logVars
<1>7. QED
    BY <1>1, <1>2, <1>3, <1>4, <1>5, <1>6 DEF LogNext

--------------------
(* A request has been accepted; its result has been sent; its thread is     *)
(* under way.                                                               *)
Accepted(s) == \E i \in 1..Len(to_bbu) : to_bbu[i] = Ack(s, "ACCEPT")
Answered(s) == \E i \in 1..Len(to_bbu) : to_bbu[i].msg = "result" /\ to_bbu[i].serial = s
Active(s)   == thread[s] \notin {"none", "exited"}
Creating(s) == recv.at # "idle" /\ recv.serial = s

(* The gate lets one request at a time through: the request that is being   *)
(* handed over, or the one whose thread is under way, is the one in the     *)
(* global task, and no other is under way.                                  *)
Gate ==
    /\ ~g_upload_in_progress => recv.at # "create" /\ \A s \in Serials : ~Active(s)
    /\ recv.at # "idle" =>
        /\ task = recv.serial /\ thread[task] = "none" /\ Accepted(task) /\ ~Answered(task)
        /\ \A s \in Serials : ~Active(s)
    /\ \A s \in Serials : Active(s) => task = s
    /\ \A s \in Serials : thread[s] # "none" => Accepted(s)

(* An answered request is no longer served.                                 *)
Over == \A s \in Serials : Answered(s) => thread[s] \in {"none", "reopen", "exited"}

(* What a result that has been sent says is true.                           *)
Truthful ==
    \A i \in 1..Len(to_bbu) : to_bbu[i].msg = "result" =>
        /\ \E j \in 1..(i - 1) : to_bbu[j] = Ack(to_bbu[i].serial, "ACCEPT")
        /\ \A j \in 1..Len(to_bbu) :
                to_bbu[j].msg = "result" /\ to_bbu[j].serial = to_bbu[i].serial => j = i
        /\ to_bbu[i].result = "SUCCESS" =>
                [path |-> to_bbu[i].serial, content |-> snapshot[to_bbu[i].serial]] \in uploaded

(* What a thread is about to report is true.                                *)
Honest ==
    \A s \in Serials : thread[s] \in {"send", "sending"} /\ result[s] = "SUCCESS" =>
        [path |-> s, content |-> snapshot[s]] \in uploaded

(* No accepted request is forgotten.                                        *)
Remembered ==
    \A s \in Serials : Accepted(s) =>
        \/ Answered(s) \/ Creating(s) \/ g_upload_stopping
        \/ thread[s] \in {"stat", "snapshot", "copy", "pack", "send", "sending"}

UploadInv == Order /\ TelTypes /\ UploadTypes /\ Gate /\ Over /\ Truthful /\ Honest /\ Remembered

(* What has been said stays said, and a message says one thing.             *)
LEMMA MailKept ==
    ASSUME to_bbu' = to_bbu, NEW s
    PROVE  Accepted(s)' = Accepted(s) /\ Answered(s)' = Answered(s)
BY DEF Accepted, Answered

(* What a message on its way to the BBU looks like: an acknowledgement with *)
(* its verdict or a result with its outcome, for one of the serials.        *)
LEMMA MailFields ==
    ASSUME UploadTypes, NEW i \in 1..Len(to_bbu)
    PROVE  /\ to_bbu[i].serial \in Serials
           /\ \/ to_bbu[i].msg = "ack" /\ to_bbu[i].result \in {"ACCEPT", "REJECT"}
              \/ to_bbu[i].msg = "result" /\ to_bbu[i].result \in {"SUCCESS", "FILE_NOT_EXIST", "FAILED"}
           /\ to_bbu[i] = [msg |-> to_bbu[i].msg, serial |-> to_bbu[i].serial, result |-> to_bbu[i].result]
<1>1. to_bbu[i] \in UploadMsgs
    BY DEF UploadTypes
<1>2. QED
    BY <1>1 DEF UploadMsgs, Ack, Result

(* A message sent goes to the end of the mail: it is the only one that can  *)
(* newly accept or answer a request.                                        *)
LEMMA MailAdded ==
    ASSUME UploadTypes, NEW m, to_bbu' = Append(to_bbu, m), NEW s
    PROVE  /\ Accepted(s)' <=> Accepted(s) \/ m = Ack(s, "ACCEPT")
           /\ Answered(s)' <=> Answered(s) \/ (m.msg = "result" /\ m.serial = s)
           /\ Len(to_bbu') = Len(to_bbu) + 1 /\ to_bbu'[Len(to_bbu) + 1] = m
           /\ \A i \in 1..Len(to_bbu) : to_bbu'[i] = to_bbu[i]
           /\ Len(to_bbu) \in Nat
<1>1. to_bbu \in Seq(UploadMsgs)
    BY DEF UploadTypes
<1>2. /\ Len(to_bbu') = Len(to_bbu) + 1 /\ to_bbu'[Len(to_bbu) + 1] = m
      /\ \A i \in 1..Len(to_bbu) : to_bbu'[i] = to_bbu[i]
      /\ Len(to_bbu) \in Nat
    BY <1>1
<1>3. 1..(Len(to_bbu) + 1) = 1..Len(to_bbu) \cup {Len(to_bbu) + 1}
    BY <1>2
<1>4. QED
    BY <1>2, <1>3 DEF Accepted, Answered

(* A request that has not been named before is neither accepted nor under   *)
(* way.                                                                     *)
LEMMA NewRequest ==
    ASSUME UploadTypes, Gate, NEW s \in Serials, New(s)
    PROVE  ~Accepted(s) /\ ~Answered(s) /\ thread[s] = "none"
<1>1. \A i \in 1..Len(to_bbu) : to_bbu[i].serial # s
  <2>1. DOMAIN to_bbu = 1..Len(to_bbu)
    BY DEF UploadTypes
  <2>2. QED
    BY <2>1 DEF New, Used
<1>2. ~Accepted(s) /\ ~Answered(s)
    BY <1>1 DEF Accepted, Answered, Ack
<1>3. QED
    BY <1>2 DEF Gate

(* Truthful results stay truthful when no result is added: the package and  *)
(* the snapshot they speak of are not touched any more.                     *)
LEMMA TruthKept ==
    ASSUME UploadTypes, Over, Truthful, uploaded \subseteq uploaded',
           \A s \in Serials : thread[s] # "copy" => snapshot'[s] = snapshot[s],
           to_bbu' = to_bbu \/ \E s \in Serials, r \in {"ACCEPT", "REJECT"} : to_bbu' = Append(to_bbu, Ack(s, r))
    PROVE  Truthful'
<1>1. /\ Len(to_bbu) \in Nat
      /\ \A i \in 1..Len(to_bbu) : i \in 1..Len(to_bbu') /\ to_bbu'[i] = to_bbu[i]
      /\ \A i \in 1..Len(to_bbu') : to_bbu'[i].msg = "result" => i \in 1..Len(to_bbu)
  <2>1. CASE to_bbu' = to_bbu
    BY <2>1 DEF UploadTypes
  <2>2. ASSUME NEW s \in Serials, NEW r \in {"ACCEPT", "REJECT"}, to_bbu' = Append(to_bbu, Ack(s, r))
        PROVE <1>1!:
    <3>1. /\ Len(to_bbu') = Len(to_bbu) + 1 /\ to_bbu'[Len(to_bbu) + 1] = Ack(s, r)
          /\ \A i \in 1..Len(to_bbu) : to_bbu'[i] = to_bbu[i]
          /\ Len(to_bbu) \in Nat
        BY <2>2, MailAdded
    <3>2. Ack(s, r).msg # "result"
        BY DEF Ack
    <3>3. QED
        BY <3>1, <3>2
  <2>3. QED
    BY <2>1, <2>2
<1>2. \A i \in 1..Len(to_bbu) : to_bbu[i].msg = "result" =>
            snapshot'[to_bbu[i].serial] = snapshot[to_bbu[i].serial]
  <2>1. SUFFICES ASSUME NEW i \in 1..Len(to_bbu), to_bbu[i].msg = "result"
                 PROVE  snapshot'[to_bbu[i].serial] = snapshot[to_bbu[i].serial]
    OBVIOUS
  <2>2. to_bbu[i].serial \in Serials /\ Answered(to_bbu[i].serial)
    BY <2>1, MailFields DEF Answered
  <2>3. QED
    BY <2>2 DEF Over
<1>3. SUFFICES ASSUME NEW i \in 1..Len(to_bbu'), to_bbu'[i].msg = "result"
               PROVE  /\ \E j \in 1..(i - 1) : to_bbu'[j] = Ack(to_bbu'[i].serial, "ACCEPT")
                      /\ \A j \in 1..Len(to_bbu') :
                            to_bbu'[j].msg = "result" /\ to_bbu'[j].serial = to_bbu'[i].serial => j = i
                      /\ to_bbu'[i].result = "SUCCESS" =>
                            [path |-> to_bbu'[i].serial, content |-> snapshot'[to_bbu'[i].serial]] \in uploaded'
    BY DEF Truthful, Ack
<1>4. i \in 1..Len(to_bbu) /\ to_bbu'[i] = to_bbu[i] /\ to_bbu[i].msg = "result"
    BY <1>1, <1>3
<1>5. PICK j \in 1..(i - 1) : to_bbu[j] = Ack(to_bbu[i].serial, "ACCEPT")
    BY <1>4 DEF Truthful
<1>6. j \in 1..Len(to_bbu) /\ to_bbu'[j] = to_bbu[j]
    BY <1>1, <1>4, <1>5
<1>7. \A k \in 1..Len(to_bbu') : to_bbu'[k].msg = "result" /\ to_bbu'[k].serial = to_bbu'[i].serial => k = i
    BY <1>1, <1>4 DEF Truthful
<1>8. to_bbu'[i].result = "SUCCESS" =>
            [path |-> to_bbu'[i].serial, content |-> snapshot'[to_bbu'[i].serial]] \in uploaded'
    BY <1>2, <1>4 DEF Truthful
<1>9. QED
    BY <1>4, <1>5, <1>6, <1>7, <1>8

(* A result may be added for a request that was accepted, that has none     *)
(* yet, and whose package is where the result says.                         *)
LEMMA TruthAdded ==
    ASSUME UploadTypes, Truthful, NEW s \in Serials, NEW r,
           Accepted(s), ~Answered(s), UNCHANGED <<uploaded, snapshot>>,
           r = "SUCCESS" => [path |-> s, content |-> snapshot[s]] \in uploaded,
           to_bbu' = Append(to_bbu, Result(s, r))
    PROVE  Truthful'
<1> DEFINE n == Len(to_bbu)
<1>1. /\ Len(to_bbu') = n + 1 /\ to_bbu'[n + 1] = Result(s, r) /\ n \in Nat
      /\ \A i \in 1..n : to_bbu'[i] = to_bbu[i]
    BY MailAdded
<1>2. /\ Result(s, r).msg = "result" /\ Result(s, r).serial = s /\ Result(s, r).result = r
    BY DEF Result
<1>3. PICK a \in 1..n : to_bbu[a] = Ack(s, "ACCEPT")
    BY DEF Accepted
<1>4. \A i \in 1..n : to_bbu[i].msg = "result" => to_bbu[i].serial # s
    BY DEF Answered
<1>5. SUFFICES ASSUME NEW i \in 1..Len(to_bbu'), to_bbu'[i].msg = "result"
               PROVE  /\ \E j \in 1..(i - 1) : to_bbu'[j] = Ack(to_bbu'[i].serial, "ACCEPT")
                      /\ \A j \in 1..Len(to_bbu') :
                            to_bbu'[j].msg = "result" /\ to_bbu'[j].serial = to_bbu'[i].serial => j = i
                      /\ to_bbu'[i].result = "SUCCESS" =>
                            [path |-> to_bbu'[i].serial, content |-> snapshot'[to_bbu'[i].serial]] \in uploaded'
    BY DEF Truthful, Ack
<1> HIDE DEF n
<1>6. CASE i = n + 1
    BY <1>1, <1>2, <1>3, <1>4, <1>6
<1>7. CASE i \in 1..n
  <2>1. to_bbu'[i] = to_bbu[i] /\ to_bbu[i].msg = "result" /\ to_bbu[i].serial # s
    BY <1>1, <1>4, <1>5, <1>7
  <2>2. PICK j \in 1..(i - 1) : to_bbu[j] = Ack(to_bbu[i].serial, "ACCEPT")
    BY <1>7, <2>1 DEF Truthful, n
  <2>3. j \in 1..n /\ to_bbu'[j] = to_bbu[j]
    BY <1>1, <1>7, <2>2
  <2>4. \A k \in 1..Len(to_bbu') : to_bbu'[k].msg = "result" /\ to_bbu'[k].serial = to_bbu'[i].serial => k = i
    <3>1. \A k \in 1..n : to_bbu[k].msg = "result" /\ to_bbu[k].serial = to_bbu[i].serial => k = i
        BY <1>7, <2>1 DEF Truthful, n
    <3>2. \A k \in 1..Len(to_bbu') : k \in 1..n \/ k = n + 1
        BY <1>1
    <3>3. QED
        BY <1>1, <1>2, <2>1, <3>1, <3>2
  <2>5. to_bbu'[i].result = "SUCCESS" =>
            [path |-> to_bbu'[i].serial, content |-> snapshot'[to_bbu'[i].serial]] \in uploaded'
    BY <1>7, <2>1 DEF Truthful, n
  <2>6. QED
    BY <2>1, <2>2, <2>3, <2>4, <2>5
<1>8. QED
    BY <1>1, <1>5, <1>6, <1>7

(* The receive thread takes a request, or refuses it.                       *)
LEMMA RequestStep ==
    ASSUME UploadInv, NEW s \in Serials, Request(s)
    PROVE  Gate' /\ Over' /\ Truthful' /\ Honest' /\ Remembered'
<1> USE DEF UploadInv
<1>1. recv.at = "idle" /\ New(s) /\ UNCHANGED <<thread, result, snapshot, uploaded, g_upload_stopping>>
    BY DEF Request, RejectBusy, RejectInvalid, Reject, AcceptRequest, CanReceive
<1>2. ~Accepted(s) /\ ~Answered(s) /\ thread[s] = "none"
    BY <1>1, NewRequest
<1>3. \/ /\ to_bbu' = Append(to_bbu, Ack(s, "REJECT"))
         /\ UNCHANGED <<g_upload_in_progress, task, recv>>
      \/ /\ to_bbu' = Append(to_bbu, Ack(s, "ACCEPT")) /\ ~g_upload_in_progress
         /\ g_upload_in_progress' = TRUE /\ task' = s /\ recv' = [at |-> "create", serial |-> s]
    BY DEF Request, RejectBusy, RejectInvalid, Reject, AcceptRequest
<1>4. Truthful'
    BY <1>1, <1>3, TruthKept
<1>5. Honest'
    BY <1>1 DEF Honest
<1>6. CASE /\ to_bbu' = Append(to_bbu, Ack(s, "REJECT"))
           /\ UNCHANGED <<g_upload_in_progress, task, recv>>
  <2>1. \A t : (Accepted(t)' <=> Accepted(t)) /\ (Answered(t)' <=> Answered(t))
    BY <1>6, MailAdded DEF Ack
  <2>2. QED
    BY <1>1, <1>4, <1>5, <1>6, <2>1 DEF Gate, Over, Remembered, Active, Creating
<1>7. CASE /\ to_bbu' = Append(to_bbu, Ack(s, "ACCEPT")) /\ ~g_upload_in_progress
           /\ g_upload_in_progress' = TRUE /\ task' = s /\ recv' = [at |-> "create", serial |-> s]
  <2>1. \A t : (Accepted(t)' <=> Accepted(t) \/ t = s) /\ (Answered(t)' <=> Answered(t))
    BY <1>7, MailAdded DEF Ack
  <2>2. recv'.at = "create" /\ recv'.serial = s /\ \A t \in Serials : ~Active(t)
    BY <1>7 DEF Gate
  <2>3. Gate'
    BY <1>1, <1>2, <1>7, <2>1, <2>2 DEF Gate, Active
  <2>4. Over'
    BY <1>1, <2>1 DEF Over
  <2>5. Remembered'
    BY <1>1, <2>1, <2>2 DEF Remembered, Creating
  <2>6. QED
    BY <1>4, <1>5, <2>3, <2>4, <2>5
<1>8. QED
    BY <1>3, <1>6, <1>7

(* pthread_create works, or fails: then the gate opens and the request is   *)
(* answered.                                                                *)
LEMMA CreateStep ==
    ASSUME UploadInv, CreateThread \/ CreateFails \/ ReportFailed
    PROVE  Gate' /\ Over' /\ Truthful' /\ Honest' /\ Remembered'
<1> USE DEF UploadInv
<1>1. /\ recv.at # "idle" /\ UNCHANGED <<task, result, snapshot, uploaded, g_upload_stopping>>
    BY DEF CreateThread, CreateFails, ReportFailed
<1>2. /\ task \in Serials /\ recv.serial = task /\ thread[task] = "none" /\ Accepted(task) /\ ~Answered(task)
      /\ \A t \in Serials : ~Active(t)
    BY <1>1 DEF Gate, UploadTypes
<1>3. CASE CreateThread
  <2>1. /\ to_bbu' = to_bbu /\ thread' = [thread EXCEPT ![task] = "stat"]
        /\ g_upload_in_progress' = g_upload_in_progress /\ recv.at = "create" /\ recv'.at = "idle"
    BY <1>2, <1>3 DEF CreateThread, UploadTypes
  <2>2. \A t : Accepted(t)' = Accepted(t) /\ Answered(t)' = Answered(t)
    BY <2>1, MailKept
  <2>3. \A t \in Serials : thread'[t] = IF t = task THEN "stat" ELSE thread[t]
    BY <2>1 DEF UploadTypes
  <2>4. Truthful'
    BY <1>1, <2>1, TruthKept
  <2>5. Gate'
    BY <1>1, <1>2, <2>1, <2>2, <2>3 DEF Gate, Active
  <2>6. Over' /\ Honest'
    BY <1>1, <1>2, <2>2, <2>3 DEF Over, Honest
  <2>7. Remembered'
    BY <1>1, <1>2, <2>2, <2>3 DEF Remembered, Creating
  <2>8. QED
    BY <2>4, <2>5, <2>6, <2>7
<1>4. CASE CreateFails
  <2>1. /\ to_bbu' = to_bbu /\ thread' = thread /\ recv'.at = "failed" /\ recv'.serial = task
        /\ g_upload_in_progress' = FALSE
    BY <1>2, <1>4 DEF CreateFails, UploadTypes
  <2>2. \A t : Accepted(t)' = Accepted(t) /\ Answered(t)' = Answered(t)
    BY <2>1, MailKept
  <2>3. Truthful'
    BY <1>1, <2>1, TruthKept
  <2>4. Gate'
    BY <1>1, <1>2, <2>1, <2>2 DEF Gate, Active
  <2>5. Over' /\ Honest'
    BY <1>1, <1>2, <2>1, <2>2 DEF Over, Honest
  <2>6. Remembered'
    BY <1>1, <1>2, <2>1, <2>2 DEF Remembered, Creating
  <2>7. QED
    BY <2>3, <2>4, <2>5, <2>6
<1>5. CASE ReportFailed
  <2>1. /\ to_bbu' = Append(to_bbu, Result(task, "FAILED")) /\ thread' = thread
        /\ g_upload_in_progress' = g_upload_in_progress /\ recv.at = "failed" /\ recv'.at = "idle"
    BY <1>2, <1>5 DEF ReportFailed, UploadTypes
  <2>2. \A t : (Accepted(t)' <=> Accepted(t)) /\ (Answered(t)' <=> Answered(t) \/ t = task)
    BY <2>1, MailAdded DEF Result, Ack
  <2>3. Truthful'
    BY <1>1, <1>2, <2>1, TruthAdded
  <2>4. Gate'
    BY <1>1, <1>2, <2>1, <2>2 DEF Gate, Active
  <2>5. Over' /\ Honest'
    BY <1>1, <1>2, <2>1, <2>2 DEF Over, Honest
  <2>6. Remembered'
    BY <1>1, <1>2, <2>1, <2>2 DEF Remembered, Creating
  <2>7. QED
    BY <2>3, <2>4, <2>5, <2>6
<1>6. QED
    BY <1>3, <1>4, <1>5

(* The upload thread of one request, up to its end.                         *)
LEMMA ThreadStep ==
    ASSUME UploadInv, NEW s \in Serials, UploadThread(s)
    PROVE  Gate' /\ Over' /\ Truthful' /\ Honest' /\ Remembered'
<1> USE DEF UploadInv
<1>1. /\ UNCHANGED <<task, recv, g_upload_stopping>> /\ uploaded \subseteq uploaded'
      /\ \A t \in Serials : thread[t] # "copy" => snapshot'[t] = snapshot[t]
      /\ thread[s] \in {"stat", "snapshot", "copy", "pack", "send", "sending", "reopen"}
  <2>1. CASE TelemetrySnapshot(s)
    BY <2>1, SnapshotCases DEF UploadTypes
  <2>2. CASE ~TelemetrySnapshot(s)
    BY <2>2 DEF UploadThread, CopyText, StatTelemetry, PackAndUpload, FtpUpload, CheckStopping, SendResult, ReopenGate,
                upRest, Go
  <2>3. QED
    BY <2>1, <2>2
<1>2. /\ task = s /\ recv.at = "idle" /\ g_upload_in_progress /\ Accepted(s)
      /\ \A t \in Serials : t # s => ~Active(t)
      /\ thread[s] # "reopen" => ~Answered(s)
  <2>1. Active(s)
    BY <1>1 DEF Active
  <2>2. task = s /\ Accepted(s) /\ \A t \in Serials : t # s => ~Active(t)
    BY <1>1, <2>1 DEF Gate
  <2>3. recv.at = "idle" /\ g_upload_in_progress
    BY <2>1 DEF Gate, UploadTypes
  <2>4. thread[s] # "reopen" => ~Answered(s)
    BY <1>1 DEF Over
  <2>5. QED
    BY <2>2, <2>3, <2>4
<1>3. CASE SendResult(s)
  <2>1. /\ thread[s] = "sending" /\ thread' = [thread EXCEPT ![s] = "reopen"]
        /\ to_bbu' = IF main = "tcp_destroyed" THEN to_bbu ELSE Append(to_bbu, Result(s, result[s]))
        /\ UNCHANGED <<result, snapshot, g_upload_in_progress, uploaded>>
    BY <1>2, <1>3 DEF SendResult, Go
  <2>2. \A t \in Serials : thread'[t] = IF t = s THEN "reopen" ELSE thread[t]
    BY <2>1 DEF UploadTypes
  <2>3. CASE main = "tcp_destroyed"
    <3>1. \A t : Accepted(t)' = Accepted(t) /\ Answered(t)' = Answered(t)
        BY <2>1, <2>3, MailKept
    <3>2. Truthful'
        BY <1>1, <2>1, <2>3, TruthKept
    <3>3. g_upload_stopping
        BY <2>3 DEF Order
    <3>4. Gate' /\ Over' /\ Honest'
        BY <1>1, <1>2, <2>1, <2>2, <3>1 DEF Gate, Over, Honest, Active
    <3>5. Remembered'
        BY <1>1, <3>3 DEF Remembered
    <3>6. QED
        BY <3>2, <3>4, <3>5
  <2>4. CASE main # "tcp_destroyed"
    <3>1. \A t : (Accepted(t)' <=> Accepted(t)) /\ (Answered(t)' <=> Answered(t) \/ t = s)
        BY <2>1, <2>4, MailAdded DEF Result, Ack
    <3>2. Truthful'
      <4>1. result[s] = "SUCCESS" => [path |-> s, content |-> snapshot[s]] \in uploaded
        BY <2>1 DEF Honest
      <4>2. QED
        BY <1>1, <1>2, <2>1, <2>4, <4>1, TruthAdded
    <3>3. Gate' /\ Over' /\ Honest'
        BY <1>1, <1>2, <2>1, <2>2, <3>1 DEF Gate, Over, Honest, Active
    <3>4. Remembered'
        BY <1>1, <1>2, <2>1, <2>2, <3>1 DEF Remembered, Creating
    <3>5. QED
        BY <3>2, <3>3, <3>4
  <2>5. QED
    BY <2>3, <2>4
<1>4. CASE ~SendResult(s)
  <2>1. to_bbu' = to_bbu
    BY <1>4, SnapshotCases
       DEF UploadThread, CopyText, StatTelemetry, PackAndUpload, CheckStopping, ReopenGate, upRest
  <2>2. \A t : Accepted(t)' = Accepted(t) /\ Answered(t)' = Answered(t)
    BY <2>1, MailKept
  <2>3. Truthful'
    BY <1>1, <2>1, TruthKept
  <2>4. CASE CopyText(s)
    <3>1. /\ thread[s] = "stat" /\ UNCHANGED <<g_upload_in_progress, snapshot, uploaded>>
          /\ \/ thread' = [thread EXCEPT ![s] = "snapshot"] /\ result' = result
             \/ \E r \in {"FILE_NOT_EXIST", "FAILED"} :
                    thread' = [thread EXCEPT ![s] = "send"] /\ result' = [result EXCEPT ![s] = r]
        BY <2>4 DEF CopyText, Go, GiveUp, upRest
    <3>2. /\ \A t \in Serials : t # s => thread'[t] = thread[t] /\ result'[t] = result[t]
          /\ \/ thread'[s] = "snapshot"
             \/ thread'[s] = "send" /\ result'[s] # "SUCCESS"
        BY <3>1 DEF UploadTypes
    <3>3. QED
        BY <1>1, <1>2, <2>2, <2>3, <3>1, <3>2 DEF Gate, Over, Honest, Remembered, Active, Creating
  <2>5. CASE TelemetrySnapshot(s)
    <3>1. /\ thread[s] = "copy" /\ thread' = [thread EXCEPT ![s] = "pack"]
          /\ UNCHANGED <<g_upload_in_progress, uploaded, result>>
        BY <2>5, SnapshotCases
    <3>2. \A t \in Serials : thread'[t] = IF t = s THEN "pack" ELSE thread[t]
        BY <3>1 DEF UploadTypes
    <3>3. QED
        BY <1>1, <1>2, <2>2, <2>3, <3>1, <3>2 DEF Gate, Over, Honest, Remembered, Active, Creating
  <2>6. CASE PackAndUpload(s)
    <3>1. /\ thread[s] = "pack" /\ thread' = [thread EXCEPT ![s] = "send"]
          /\ UNCHANGED <<g_upload_in_progress, snapshot>>
          /\ \/ uploaded' = uploaded \cup {[path |-> s, content |-> snapshot[s]]} /\ result' = result
             \/ result' = [result EXCEPT ![s] = "FAILED"] /\ uploaded' = uploaded
        BY <1>2, <2>6 DEF PackAndUpload, Go, GiveUp, FtpUpload
    <3>2. /\ \A t \in Serials : thread'[t] = IF t = s THEN "send" ELSE thread[t]
          /\ \A t \in Serials : t # s => result'[t] = result[t]
          /\ result'[s] = "SUCCESS" => [path |-> s, content |-> snapshot[s]] \in uploaded'
        BY <3>1 DEF UploadTypes
    <3>3. Honest'
        BY <1>1, <3>1, <3>2 DEF Honest
    <3>4. QED
        BY <1>1, <1>2, <2>2, <2>3, <3>1, <3>2, <3>3 DEF Gate, Over, Remembered, Active, Creating
  <2>7. CASE CheckStopping(s)
    <3>1. /\ thread[s] = "send" /\ UNCHANGED <<g_upload_in_progress, snapshot, result, uploaded>>
          /\ \/ thread' = [thread EXCEPT ![s] = "sending"]
             \/ thread' = [thread EXCEPT ![s] = "reopen"] /\ g_upload_stopping
        BY <2>7 DEF CheckStopping, Go, upRest
    <3>2. /\ \A t \in Serials : t # s => thread'[t] = thread[t]
          /\ thread'[s] = "sending" \/ (thread'[s] = "reopen" /\ g_upload_stopping)
        BY <3>1 DEF UploadTypes
    <3>3. QED
        BY <1>1, <1>2, <2>2, <2>3, <3>1, <3>2 DEF Gate, Over, Honest, Remembered, Active, Creating
  <2>8. CASE ReopenGate(s)
    <3>1. /\ thread[s] = "reopen" /\ thread' = [thread EXCEPT ![s] = "exited"]
          /\ g_upload_in_progress' = FALSE /\ UNCHANGED <<snapshot, result, uploaded>>
        BY <2>8 DEF ReopenGate, Go
    <3>2. \A t \in Serials : thread'[t] = IF t = s THEN "exited" ELSE thread[t]
        BY <3>1 DEF UploadTypes
    <3>3. QED
        BY <1>1, <1>2, <2>2, <2>3, <3>1, <3>2 DEF Gate, Over, Honest, Remembered, Active, Creating
  <2>9. CASE StatTelemetry(s)
    <3>1. /\ thread[s] = "snapshot" /\ UNCHANGED <<g_upload_in_progress, uploaded, result, snapshot>>
          /\ \E to \in {"copy", "pack"} : thread' = [thread EXCEPT ![s] = to]
        BY <2>9 DEF StatTelemetry, Go, upRest
    <3>2. thread'[s] \in {"copy", "pack"} /\ \A t \in Serials : t # s => thread'[t] = thread[t]
        BY <3>1 DEF UploadTypes
    <3>3. QED
        BY <1>1, <1>2, <2>2, <2>3, <3>1, <3>2 DEF Gate, Over, Honest, Remembered, Active, Creating
  <2>10. QED
    BY <1>4, <2>4, <2>5, <2>6, <2>7, <2>8, <2>9 DEF UploadThread
<1>5. QED
    BY <1>3, <1>4

(* The inductive invariant of the upload.                                   *)
THEOREM UploadInvTheorem == LogSpec => []UploadInv
<1>1. LogInit => UploadInv
  <2> SUFFICES ASSUME LogInit PROVE UploadInv
    OBVIOUS
  <2>1. TelTypes
    BY TelTypesInit DEF LogInit
  <2>2. to_bbu = <<>> /\ <<>> \in Seq(UploadMsgs) /\ Len(to_bbu) = 0
    BY DEF LogInit, UpInit
  <2>3. NoSnap \in Seq(Nat)
    BY DEF NoSnap, Torn
  <2>4. UploadTypes
    BY <2>2, <2>3 DEF LogInit, UpInit, UploadTypes
  <2>5. Order
    BY DEF LogInit, TelInit, UpInit, Order
  <2>6. \A s : ~Accepted(s) /\ ~Answered(s)
    BY <2>2 DEF Accepted, Answered
  <2>7. Gate /\ Over /\ Truthful /\ Honest /\ Remembered
    BY <2>2, <2>6 DEF LogInit, UpInit, Gate, Over, Truthful, Honest, Remembered, Active
  <2>8. QED
    BY <2>1, <2>4, <2>5, <2>7 DEF UploadInv
<1>2. UploadInv /\ [LogNext]_logVars => UploadInv'
  <2> SUFFICES ASSUME UploadInv, [LogNext]_logVars PROVE UploadInv'
    OBVIOUS
  <2>1. Order' /\ TelTypes' /\ UploadTypes'
    BY OrderStep, LogTypesStep DEF UploadInv
  <2>2. ASSUME UNCHANGED <<recv, thread, result, snapshot, uploaded, to_bbu, task, g_upload_in_progress>>,
               g_upload_stopping => g_upload_stopping'
        PROVE  Gate' /\ Over' /\ Truthful' /\ Honest' /\ Remembered'
    BY <2>2 DEF UploadInv, Gate, Over, Truthful, Honest, Remembered, Active, Creating, Accepted, Answered, Ack
  <2>3. CASE Shutdown
    BY <2>1, <2>2, <2>3 DEF Shutdown, UploadDestroy, TcpDestroy, upVars, UploadInv
  <2>4. CASE UNCHANGED upVars
    BY <2>1, <2>2, <2>4 DEF upVars, UploadInv
  <2>5. QED
    BY <2>1, <2>3, <2>4, RequestStep, CreateStep, ThreadStep DEF LogNext, logVars, UploadInv
<1>3. QED
    BY <1>1, <1>2, PTL DEF LogSpec

(* One global task serves all requests and still every result is true: it   *)
(* follows the acceptance of that request, there is one of it, and success  *)
(* means that the package of this very request lies under its path.  The    *)
(* gate opens only behind a result, unless the program goes down.           *)
THEOREM ResultsTruthfulTheorem == LogSpec => []ResultsTruthful
<1>1. UploadInv => ResultsTruthful
  <2> SUFFICES ASSUME UploadInv PROVE ResultsTruthful
    OBVIOUS
  <2>1. to_bbu \in Seq(UploadMsgs) /\ DOMAIN to_bbu = 1..Len(to_bbu) /\ Len(to_bbu) \in Nat
    BY DEF UploadInv, UploadTypes
  <2>2. ASSUME NEW i \in DOMAIN to_bbu, to_bbu[i].msg = "result"
        PROVE  /\ Ack(to_bbu[i].serial, "ACCEPT") \in Range(SubSeq(to_bbu, 1, i - 1))
               /\ \A j \in DOMAIN to_bbu : to_bbu[j].msg = "result" /\ to_bbu[j].serial = to_bbu[i].serial => j = i
               /\ to_bbu[i].result = "SUCCESS" =>
                    [path |-> to_bbu[i].serial, content |-> snapshot[to_bbu[i].serial]] \in uploaded
    <3>1. PICK j \in 1..(i - 1) : to_bbu[j] = Ack(to_bbu[i].serial, "ACCEPT")
        BY <2>1, <2>2 DEF UploadInv, Truthful
    <3>2. j \in DOMAIN SubSeq(to_bbu, 1, i - 1) /\ SubSeq(to_bbu, 1, i - 1)[j] = to_bbu[j]
        BY <2>1, <2>2
    <3>3. QED
        BY <2>1, <2>2, <3>1, <3>2 DEF UploadInv, Truthful, Range
  <2>3. ASSUME ~g_upload_in_progress, ~g_upload_stopping, NEW s \in Serials,
               Ack(s, "ACCEPT") \in Range(to_bbu), ~(recv.at = "failed" /\ recv.serial = s)
        PROVE  \E r \in {"SUCCESS", "FILE_NOT_EXIST", "FAILED"} : Result(s, r) \in Range(to_bbu)
    <3>1. Accepted(s)
        BY <2>1, <2>3 DEF Range, Accepted
    <3>2. ~Creating(s) /\ ~Active(s)
      <4>1. recv.at \in {"idle", "create", "failed"}
        BY DEF UploadInv, UploadTypes
      <4>2. recv.at # "create" /\ ~Active(s)
        BY <2>3 DEF UploadInv, Gate
      <4>3. QED
        BY <2>3, <4>1, <4>2 DEF Creating
    <3>3. Answered(s)
        BY <2>3, <3>1, <3>2 DEF UploadInv, Remembered, Creating, Active
    <3>4. PICK i \in 1..Len(to_bbu) : to_bbu[i].msg = "result" /\ to_bbu[i].serial = s
        BY <3>3 DEF Answered
    <3>5. /\ to_bbu[i].result \in {"SUCCESS", "FILE_NOT_EXIST", "FAILED"}
          /\ to_bbu[i] = Result(s, to_bbu[i].result)
        BY <3>4, MailFields DEF UploadInv, Result
    <3>6. to_bbu[i] \in Range(to_bbu)
        BY <2>1 DEF Range
    <3>7. QED
        BY <3>5, <3>6
  <2>4. QED
    BY <2>2, <2>3 DEF ResultsTruthful
<1>2. QED
    BY <1>1, UploadInvTheorem, PTL

--------------------
(* The frames of a file, leaving torn ends aside, rise; those of one file   *)
(* come before those of another; none is newer than frame n.                *)
Rising(q)    == \A i, j \in 1..Len(q) : i < j /\ q[i] # Torn /\ q[j] # Torn => q[i] < q[j]
Before(p, q) == \A i \in 1..Len(p), j \in 1..Len(q) : p[i] # Torn /\ q[j] # Torn => p[i] < q[j]
Below(q, n)  == \A i \in 1..Len(q) : q[i] <= n

(* The newest frame that the writer has finished with.                      *)
Busy == writer \in {"have", "locked", "writing", "again"}
Done == Len(accepted) - Len(queue) - (IF Busy THEN 1 ELSE 0)

(* The queue holds the newest frames, the writer the one before them.       *)
Numbered ==
    /\ Done \in Nat
    /\ \A i \in 1..Len(queue) : queue[i] = Len(accepted) - Len(queue) + i
    /\ Busy => slot = Done + 1

(* The files bk, fl and ca are in order and hold nothing newer than n.      *)
SortedFiles(bk, fl, ca, n) ==
    /\ Rising(fl) /\ Rising(ca) /\ Before(fl, ca) /\ Below(fl, n) /\ Below(ca, n)
    /\ \A b \in Backups : /\ Rising(bk[b]) /\ Below(bk[b], n)
                          /\ Before(bk[b], fl) /\ Before(bk[b], ca)
    /\ \A b, c \in Backups : b < c => Before(bk[c], bk[b])

OrderInv ==
    /\ Numbered /\ SortedFiles(backups, file, cache, Done)
    /\ writer = "again" => cache = <<>>

(* The files bk and fl are whole: no frame is missing between the oldest    *)
(* one and frame n, and if older ones are gone the backups are full.        *)
WholeFiles(bk, fl, n) ==
    /\ \A b \in Backups : \A i \in 1..Len(bk[b]) : bk[b][i] # Torn
    /\ \A b, c \in Backups : c < b /\ bk[b] # <<>> => Len(bk[c]) >= g_tel_max_size - 1
    /\ Len(fl) <= n /\ \A i \in 1..Len(fl) : fl[i] = n - Len(fl) + i
    /\ \E oldest \in 1..(n + 1) :
        /\ \A f \in 1..n : f >= oldest <=>
                (\/ \E i \in 1..Len(fl) : fl[i] = f
                 \/ \E b \in Backups : \E i \in 1..Len(bk[b]) : bk[b][i] = f)
        /\ oldest > 1 => \A b \in Backups : Len(bk[b]) >= g_tel_max_size - 1

(* The file without the frame that is being written.                        *)
Solid == IF writer = "writing" THEN Front(file) ELSE file

WholeInv ==
    failures = 0 =>
        /\ cache = <<>> /\ writer # "again" /\ (writer # "exited" => open)
        /\ writer = "writing" => file = Append(Solid, Torn)
        /\ bytes = Len(Solid)
        /\ WholeFiles(backups, Solid, Done)
        /\ SnapshotWhole

(* The first n - 1 of n elements; an element more; two files joined.        *)
LEMMA FrontFacts ==
    ASSUME NEW q \in Seq(Nat)
    PROVE  /\ Len(Front(q)) \in Nat /\ Len(Front(q)) <= Len(q)
           /\ \A i \in 1..Len(Front(q)) : i \in 1..Len(q) /\ Front(q)[i] = q[i]
           /\ q # <<>> => Len(Front(q)) = Len(q) - 1
           /\ \A k \in Nat : Front(Append(q, k)) = q
<1>1. q = <<>> => Len(Front(q)) = 0 /\ Len(q) = 0
    BY DEF Front
<1>2. q # <<>> => /\ Len(q) >= 1 /\ Len(Front(q)) = Len(q) - 1
                 /\ \A i \in 1..(Len(q) - 1) : i \in 1..Len(q) /\ Front(q)[i] = q[i]
  <2>1. q # <<>> => Len(q) \in Nat /\ Len(q) >= 1
    OBVIOUS
  <2>2. q # <<>> => Len(SubSeq(q, 1, Len(q) - 1)) = Len(q) - 1
    <3>1. ASSUME NEW m \in Nat, m < Len(q) PROVE Len(SubSeq(q, 1, m)) = m
        BY <3>1
    <3>2. q # <<>> => Len(q) - 1 \in Nat /\ Len(q) - 1 < Len(q)
        BY <2>1
    <3>3. QED
        BY <3>1, <3>2
  <2>3. q # <<>> => \A i \in 1..(Len(q) - 1) : SubSeq(q, 1, Len(q) - 1)[i] = q[i]
    BY <2>1
  <2>4. q # <<>> => \A i \in 1..(Len(q) - 1) : i \in 1..Len(q)
    BY <2>1
  <2>5. QED
    BY <2>1, <2>2, <2>3, <2>4 DEF Front
<1>3. \A k \in Nat : Front(Append(q, k)) = q
    BY DEF Front
<1>4. Len(q) \in Nat
    OBVIOUS
<1>5. QED
    BY <1>1, <1>2, <1>3, <1>4

(* Appending a frame leaves the earlier ones at their places.               *)
LEMMA AppendFacts ==
    ASSUME NEW q \in Seq(Nat), NEW k
    PROVE  /\ Len(q) \in Nat /\ Len(Append(q, k)) = Len(q) + 1
           /\ Append(q, k)[Len(q) + 1] = k
           /\ \A i \in 1..Len(q) : Append(q, k)[i] = q[i]
OBVIOUS

(* The places of the frames when the stdio buffer is flushed behind the     *)
(* file.                                                                    *)
LEMMA JoinFacts ==
    ASSUME NEW p \in Seq(Nat), NEW q \in Seq(Nat)
    PROVE  /\ Len(p) \in Nat /\ Len(q) \in Nat /\ Len(p \o q) = Len(p) + Len(q)
           /\ \A i \in 1..Len(p) : (p \o q)[i] = p[i]
           /\ \A i \in 1..(Len(p) + Len(q)) : i > Len(p) => i - Len(p) \in 1..Len(q) /\ (p \o q)[i] = q[i - Len(p)]
           /\ q = <<>> => p \o q = p
OBVIOUS

(* Numbers in files are numbers.                                            *)
LEMMA ElemNat == ASSUME NEW q \in Seq(Nat) PROVE \A i \in 1..Len(q) : q[i] \in Nat
OBVIOUS

(* A file stays in order when its torn end is cut off, ...                  *)
LEMMA FrontOrder ==
    ASSUME NEW q \in Seq(Nat), NEW r \in Seq(Nat), NEW n
    PROVE  /\ Rising(q) => Rising(Front(q))
           /\ Below(q, n) => Below(Front(q), n)
           /\ Before(q, r) => Before(Front(q), r)
           /\ Before(r, q) => Before(r, Front(q))
BY FrontFacts DEF Rising, Below, Before

(* ... when a torn end or a frame newer than all others is added ...        *)
LEMMA AppendOrder ==
    ASSUME NEW q \in Seq(Nat), NEW r \in Seq(Nat), NEW n \in Nat, NEW k \in Nat, k = Torn \/ k = n + 1,
           Below(q, n), Below(r, n)
    PROVE  /\ Rising(q) => Rising(Append(q, k))
           /\ Before(r, q) => Before(r, Append(q, k))
           /\ k = Torn => Below(Append(q, k), n)
           /\ Below(Append(q, k), n + 1)
<1> DEFINE a == Append(q, k)
<1>1. /\ Len(q) \in Nat /\ Len(a) = Len(q) + 1 /\ a[Len(q) + 1] = k
      /\ \A i \in 1..Len(q) : a[i] = q[i]
    BY AppendFacts
<1>2. /\ \A i \in 1..Len(q) : q[i] \in Nat /\ q[i] <= n
      /\ \A i \in 1..Len(r) : r[i] \in Nat /\ r[i] <= n
    BY ElemNat DEF Below
<1>3. \A i \in 1..Len(a) : i \in 1..Len(q) \/ (i = Len(q) + 1 /\ a[i] = k)
    BY <1>1
<1> HIDE DEF a
<1>4. Rising(q) => Rising(a)
  <2>1. SUFFICES ASSUME Rising(q), NEW i \in 1..Len(a), NEW j \in 1..Len(a), i < j, a[i] # Torn, a[j] # Torn
                 PROVE  a[i] < a[j]
    BY DEF Rising
  <2>2. i \in 1..Len(q) /\ a[i] = q[i]
    BY <1>1, <1>3, <2>1
  <2>3. CASE j \in 1..Len(q)
    BY <1>1, <2>1, <2>2, <2>3 DEF Rising
  <2>4. CASE a[j] = k
    BY <1>2, <2>1, <2>2, <2>4 DEF Torn
  <2>5. QED
    BY <1>3, <2>3, <2>4
<1>5. Before(r, q) => Before(r, a)
  <2>1. SUFFICES ASSUME Before(r, q), NEW i \in 1..Len(r), NEW j \in 1..Len(a), r[i] # Torn, a[j] # Torn
                 PROVE  r[i] < a[j]
    BY DEF Before
  <2>2. CASE j \in 1..Len(q)
    BY <1>1, <2>1, <2>2 DEF Before
  <2>3. CASE a[j] = k
    BY <1>2, <2>1, <2>3 DEF Torn
  <2>4. QED
    BY <1>3, <2>2, <2>3
<1>6. (k = Torn => Below(a, n)) /\ Below(a, n + 1)
  <2>1. \A i \in 1..Len(a) : a[i] <= n + 1 /\ (k = Torn => a[i] <= n)
    <3>1. SUFFICES ASSUME NEW i \in 1..Len(a) PROVE a[i] <= n + 1 /\ (k = Torn => a[i] <= n)
        OBVIOUS
    <3>2. CASE i \in 1..Len(q)
      <4>1. a[i] = q[i] /\ q[i] \in Nat /\ q[i] <= n
        BY <1>1, <1>2, <3>2
      <4>2. QED
        BY <4>1
    <3>3. CASE a[i] = k
        BY <3>3 DEF Torn
    <3>4. QED
        BY <1>3, <3>2, <3>3
  <2>2. QED
    BY <2>1 DEF Below
<1>7. QED
    BY <1>4, <1>5, <1>6 DEF a

(* ... and when two files in order are joined.                              *)
LEMMA JoinOrder ==
    ASSUME NEW p \in Seq(Nat), NEW q \in Seq(Nat), NEW r \in Seq(Nat), NEW n
    PROVE  /\ Rising(p) /\ Rising(q) /\ Before(p, q) => Rising(p \o q)
           /\ Before(r, p) /\ Before(r, q) => Before(r, p \o q)
           /\ Below(p, n) /\ Below(q, n) => Below(p \o q, n)
<1> DEFINE a == p \o q
<1>1. /\ Len(p) \in Nat /\ Len(q) \in Nat /\ Len(a) = Len(p) + Len(q)
      /\ \A i \in 1..Len(p) : a[i] = p[i]
      /\ \A i \in 1..Len(a) : i > Len(p) => i - Len(p) \in 1..Len(q) /\ a[i] = q[i - Len(p)]
    BY JoinFacts
<1>2. \A i \in 1..Len(a) : i \in 1..Len(p) \/ i > Len(p)
    BY <1>1
<1> HIDE DEF a
<1>3. Rising(p) /\ Rising(q) /\ Before(p, q) => Rising(a)
  <2>1. SUFFICES ASSUME Rising(p), Rising(q), Before(p, q), NEW i \in 1..Len(a), NEW j \in 1..Len(a),
                        i < j, a[i] # Torn, a[j] # Torn
                 PROVE  a[i] < a[j]
    BY DEF Rising
  <2>2. CASE i > Len(p)
    <3>1. j > Len(p) /\ i - Len(p) < j - Len(p)
        BY <1>1, <2>1, <2>2
    <3>2. i - Len(p) \in 1..Len(q) /\ a[i] = q[i - Len(p)] /\ j - Len(p) \in 1..Len(q) /\ a[j] = q[j - Len(p)]
        BY <1>1, <2>2, <3>1
    <3>3. QED
        BY <2>1, <3>1, <3>2 DEF Rising
  <2>3. CASE i \in 1..Len(p) /\ j \in 1..Len(p)
    BY <1>1, <2>1, <2>3 DEF Rising
  <2>4. CASE i \in 1..Len(p) /\ j > Len(p)
    BY <1>1, <2>1, <2>4 DEF Before
  <2>5. QED
    BY <1>2, <2>2, <2>3, <2>4
<1>4. Before(r, p) /\ Before(r, q) => Before(r, a)
    BY <1>1, <1>2 DEF Before
<1>5. Below(p, n) /\ Below(q, n) => Below(a, n)
    BY <1>1, <1>2 DEF Below
<1>6. QED
    BY <1>3, <1>4, <1>5 DEF a

(* Nothing is out of order in an empty file.                                *)
LEMMA EmptyOrder ==
    ASSUME NEW r \in Seq(Nat), NEW n
    PROVE  /\ <<>> \in Seq(Nat) /\ Len(<<>>) = 0
           /\ Rising(<<>>) /\ Before(r, <<>>) /\ Before(<<>>, r) /\ Below(<<>>, n)
BY DEF Rising, Before, Below

(* Frames numbered up to n are numbered up to n + 1.                        *)
LEMMA BelowMore ==
    ASSUME NEW q \in Seq(Nat), NEW n \in Nat, Below(q, n)
    PROVE  Below(q, n + 1)
BY ElemNat DEF Below

--------------------
(* Flushing the stdio buffer into the file, or losing it, keeps the order.  *)
LEMMA FlushSorted ==
    ASSUME NEW bk \in [Backups -> Seq(Nat)], NEW fl \in Seq(Nat), NEW ca \in Seq(Nat), NEW n,
           SortedFiles(bk, fl, ca, n)
    PROVE  SortedFiles(bk, fl \o ca, <<>>, n) /\ SortedFiles(bk, fl, <<>>, n)
<1>1. /\ Rising(fl) /\ Rising(ca) /\ Before(fl, ca) /\ Below(fl, n) /\ Below(ca, n)
      /\ \A b \in Backups : /\ Rising(bk[b]) /\ Below(bk[b], n)
                            /\ Before(bk[b], fl) /\ Before(bk[b], ca)
      /\ \A b, c \in Backups : b < c => Before(bk[c], bk[b])
    BY DEF SortedFiles
<1>2. fl \o ca \in Seq(Nat) /\ <<>> \in Seq(Nat)
    BY FrameSeqs
<1>3. /\ Rising(fl \o ca) /\ Below(fl \o ca, n)
      /\ Rising(<<>>) /\ Below(<<>>, n) /\ Before(fl \o ca, <<>>) /\ Before(fl, <<>>)
    BY <1>1, <1>2, JoinOrder, EmptyOrder
<1>4. \A b \in Backups : Before(bk[b], fl \o ca) /\ Before(bk[b], <<>>)
  <2>1. SUFFICES ASSUME NEW b \in Backups PROVE Before(bk[b], fl \o ca) /\ Before(bk[b], <<>>)
    OBVIOUS
  <2>2. bk[b] \in Seq(Nat)
    OBVIOUS
  <2>3. QED
    BY <1>1, <2>2, JoinOrder, EmptyOrder
<1>5. QED
    BY <1>1, <1>3, <1>4 DEF SortedFiles

(* Renaming the files from the oldest to the newest keeps the order, also   *)
(* when backup k stays where it is.                                         *)
LEMMA ShiftSorted ==
    ASSUME NEW bk \in [Backups -> Seq(Nat)], NEW fl \in Seq(Nat), NEW n, NEW k \in Nat, NEW renamed \in BOOLEAN,
           SortedFiles(bk, fl, <<>>, n),
           NEW nb, nb = [b \in Backups |->
                            IF b = 1 /\ renamed THEN fl
                            ELSE IF b = k /\ (b = 1 \/ bk[b - 1] = <<>>) THEN bk[b]
                            ELSE IF b = 1 \/ b = k + 1 THEN <<>>
                            ELSE bk[b - 1]]
    PROVE  SortedFiles(nb, IF renamed THEN <<>> ELSE fl, <<>>, n)
<1>1. /\ Rising(fl) /\ Below(fl, n)
      /\ \A b \in Backups : Rising(bk[b]) /\ Below(bk[b], n) /\ Before(bk[b], fl)
      /\ \A b, c \in Backups : b < c => Before(bk[c], bk[b])
    BY DEF SortedFiles
<1>2. \A b \in Backups : b \in Int /\ b >= 1 /\ (b # 1 => b > 1 /\ b - 1 \in Backups)
    BY TelAssumption DEF Backups, NumBackups
<1>3. \A b \in Backups : bk[b] \in Seq(Nat)
    OBVIOUS
<1>4. \A r \in Seq(Nat) : Rising(<<>>) /\ Before(r, <<>>) /\ Before(<<>>, r) /\ Below(<<>>, n) /\ <<>> \in Seq(Nat)
    BY EmptyOrder
<1> DEFINE nf == IF renamed THEN <<>> ELSE fl
<1>5. \A b \in Backups : \/ b = 1 /\ renamed /\ nb[b] = fl
                         \/ b = k /\ nb[b] = bk[b]
                         \/ nb[b] = <<>>
                         \/ b > 1 /\ b # k + 1 /\ b - 1 \in Backups /\ nb[b] = bk[b - 1]
    BY <1>2
<1>6. /\ Rising(nf) /\ Below(nf, n) /\ nf \in Seq(Nat)
    BY <1>1, <1>4
<1>7. \A b \in Backups : Rising(nb[b]) /\ Below(nb[b], n) /\ Before(nb[b], nf) /\ nb[b] \in Seq(Nat)
  <2>1. SUFFICES ASSUME NEW b \in Backups
                 PROVE Rising(nb[b]) /\ Below(nb[b], n) /\ Before(nb[b], nf) /\ nb[b] \in Seq(Nat)
    OBVIOUS
  <2>2. CASE b = 1 /\ renamed /\ nb[b] = fl
    BY <1>1, <1>4, <2>2
  <2>3. CASE nb[b] = <<>>
    BY <1>4, <1>6, <2>3
  <2>4. ASSUME NEW c \in Backups, nb[b] = bk[c]
        PROVE  Rising(nb[b]) /\ Below(nb[b], n) /\ Before(nb[b], nf) /\ nb[b] \in Seq(Nat)
    <3>1. Rising(bk[c]) /\ Below(bk[c], n) /\ Before(bk[c], fl) /\ bk[c] \in Seq(Nat)
        BY <1>1, <1>3
    <3>2. QED
        BY <1>4, <2>4, <3>1
  <2>5. QED
    BY <1>5, <2>2, <2>3, <2>4
<1>8. \A b, c \in Backups : b < c => Before(nb[c], nb[b])
  <2>1. SUFFICES ASSUME NEW b \in Backups, NEW c \in Backups, b < c PROVE Before(nb[c], nb[b])
    OBVIOUS
  <2>2. c # 1 /\ b \in Int /\ c \in Int
    <3>1. b \in Int /\ c \in Int /\ b >= 1
        BY <1>2
    <3>2. QED
        BY <2>1, <3>1
  <2>3. CASE nb[c] = <<>> \/ nb[b] = <<>>
    BY <1>4, <1>7, <2>3
  <2>4. ASSUME NEW d \in Backups, nb[c] = bk[d], (c = k /\ d = c) \/ (c # k + 1 /\ d = c - 1)
        PROVE  Before(nb[c], nb[b])
    <3>1. CASE nb[b] = fl
        BY <1>1, <2>4, <3>1
    <3>2. ASSUME NEW e \in Backups, nb[b] = bk[e], (b = k /\ e = b) \/ (b # k + 1 /\ e = b - 1)
          PROVE  Before(nb[c], nb[b])
      <4>1. e < d
        <5>1. b \in Int /\ c \in Int /\ k \in Int /\ b < c
            BY <2>1, <2>2
        <5>2. \A x, y, u, v, w \in Int :
                x < y /\ ((y = w /\ v = y) \/ (y # w + 1 /\ v = y - 1))
                      /\ ((x = w /\ u = x) \/ (x # w + 1 /\ u = x - 1)) => u < v
            OBVIOUS
        <5>3. d \in Int /\ e \in Int
            BY <1>2
        <5>4. QED
            BY <2>4, <3>2, <5>1, <5>2, <5>3
      <4>2. QED
        BY <1>1, <2>4, <3>2, <4>1
    <3>3. QED
        BY <1>5, <2>3, <3>1, <3>2
  <2>5. QED
    BY <1>5, <2>2, <2>3, <2>4
<1>9. \A b \in Backups : Before(nb[b], <<>>)
    BY <1>4, <1>7
<1>10. QED
    BY <1>4, <1>6, <1>7, <1>8, <1>9 DEF SortedFiles

(* So does a rotation, whatever steps of it fail.                           *)
LEMMA RotateSorted ==
    ASSUME TelTypes, NEW n, NEW f \in Seq(Nat), SortedFiles(backups, f, <<>>, n),
           NEW m \in Nat, RotateAnyhow(f, m)
    PROVE  SortedFiles(backups', file', cache', n) /\ cache' = <<>>
<1>1. PICK k \in Stuck, a \in BOOLEAN, c \in BOOLEAN : Rotate(f, k, a, c)
    BY DEF RotateAnyhow
<1>2. backups' = Shifted(f, k, a) /\ file' = (IF a THEN <<>> ELSE f) /\ cache' = <<>>
    BY <1>1 DEF Rotate
<1>3. backups \in [Backups -> Seq(Nat)] /\ k \in Nat
    BY TelAssumption DEF TelTypes, Stuck, Backups, NumBackups
<1>4. backups' = [b \in Backups |->
                    IF b = 1 /\ a THEN f
                    ELSE IF b = k /\ (b = 1 \/ backups[b - 1] = <<>>) THEN backups[b]
                    ELSE IF b = 1 \/ b = k + 1 THEN <<>>
                    ELSE backups[b - 1]]
    BY <1>2 DEF Shifted
<1>5. SortedFiles(backups', IF a THEN <<>> ELSE f, <<>>, n)
    BY <1>3, <1>4, ShiftSorted
<1>6. QED
    BY <1>2, <1>5

(* A step that moves no frame.                                              *)
LEMMA QuietOrder ==
    ASSUME OrderInv, UNCHANGED <<queue, accepted, slot, backups, file, cache>>, Busy' <=> Busy,
           writer' = "again" => writer = "again"
    PROVE  OrderInv' /\ Done' = Done
<1>1. Done' = Done
    BY DEF Done
<1>2. Numbered'
    BY <1>1 DEF OrderInv, Numbered
<1>3. SortedFiles(backups, file, cache, Done)'
    BY <1>1 DEF OrderInv, SortedFiles, Rising, Before, Below, Torn, Backups
<1>4. QED
    BY <1>1, <1>2, <1>3 DEF OrderInv

(* Files that are kept or rotated while the writer has its frame in hand.   *)
LEMMA HeldOrder ==
    ASSUME OrderInv, UNCHANGED <<queue, accepted, slot>>, Busy, Busy',
           SortedFiles(backups', file', cache', Done), writer' = "again" => cache' = <<>>
    PROVE  OrderInv' /\ Done' = Done
<1>1. Done' = Done
    BY DEF Done
<1>2. Numbered'
    BY <1>1 DEF OrderInv, Numbered
<1>3. SortedFiles(backups, file, cache, Done)'
    BY <1>1 DEF SortedFiles, Rising, Before, Below, Torn, Backups
<1>4. QED
    BY <1>1, <1>2, <1>3 DEF OrderInv

(* The frame in hand is done with: it is in the file or in its buffer, or   *)
(* given up.                                                                *)
LEMMA FinishedOrder ==
    ASSUME TelTypes, OrderInv, UNCHANGED <<queue, accepted, slot>>, Busy, writer' = "wait",
           SortedFiles(backups', file', cache', Done + 1)
    PROVE  OrderInv' /\ Done' = Done + 1
<1>1. ~Busy' /\ Done \in Nat
    BY DEF Busy, OrderInv, Numbered
<1>2. Len(accepted) \in Nat /\ Len(queue) \in Nat
    BY DEF TelTypes
<1>3. Done' = Done + 1
    BY <1>1, <1>2 DEF Done
<1>4. Numbered'
    BY <1>1, <1>3 DEF OrderInv, Numbered
<1>5. SortedFiles(backups, file, cache, Done)'
    BY <1>3 DEF SortedFiles, Rising, Before, Below, Torn, Backups
<1>6. QED
    BY <1>3, <1>4, <1>5 DEF OrderInv

(* Older frames only: a bound may be raised.                                *)
LEMMA SortedMore ==
    ASSUME NEW bk \in [Backups -> Seq(Nat)], NEW fl \in Seq(Nat), NEW ca \in Seq(Nat), NEW n \in Nat,
           SortedFiles(bk, fl, ca, n)
    PROVE  SortedFiles(bk, fl, ca, n + 1)
<1>1. \A b \in Backups : bk[b] \in Seq(Nat)
    OBVIOUS
<1>2. QED
    BY <1>1, BelowMore DEF SortedFiles

(* A frame comes in, if the queue has room, as the newest of all.           *)
LEMMA FrameOrder ==
    ASSUME TelTypes, OrderInv, OnFrame
    PROVE  OrderInv' /\ Done' = Done
<1>1. UNCHANGED <<backups, file, cache, slot>>
    BY DEF OnFrame, fileVars
<1>2. (Busy' <=> Busy) /\ (writer' = "again" <=> writer = "again")
    BY DEF OnFrame, Signal, Busy
<1>3. CASE UNCHANGED <<queue, accepted>>
    BY <1>1, <1>2, <1>3, QuietOrder
<1>4. CASE queue' = Append(queue, Len(accepted) + 1) /\ accepted' = Append(accepted, Len(accepted) + 1)
  <2>1. /\ Len(queue) \in Nat /\ Len(accepted) \in Nat
        /\ Len(queue') = Len(queue) + 1 /\ Len(accepted') = Len(accepted) + 1
        /\ queue'[Len(queue) + 1] = Len(accepted) + 1
        /\ \A i \in 1..Len(queue) : queue'[i] = queue[i]
    BY <1>4, AppendFacts DEF TelTypes
  <2>2. Done' = Done
    BY <1>2, <2>1 DEF Done
  <2>3. \A i \in 1..Len(queue') : queue'[i] = Len(accepted') - Len(queue') + i
    <3>1. SUFFICES ASSUME NEW i \in 1..Len(queue') PROVE queue'[i] = Len(accepted') - Len(queue') + i
        OBVIOUS
    <3>2. CASE i \in 1..Len(queue)
      <4>1. queue[i] = Len(accepted) - Len(queue) + i
        BY <3>2 DEF OrderInv, Numbered
      <4>2. QED
        BY <2>1, <3>2, <4>1
    <3>3. CASE i = Len(queue) + 1
        BY <2>1, <3>3
    <3>4. QED
        BY <2>1, <3>2, <3>3
  <2>4. Numbered'
    BY <1>1, <1>2, <2>2, <2>3 DEF OrderInv, Numbered
  <2>5. SortedFiles(backups, file, cache, Done)'
    BY <1>1, <2>2 DEF OrderInv, SortedFiles, Rising, Before, Below, Torn, Backups
  <2>6. QED
    BY <1>1, <1>2, <2>2, <2>4, <2>5 DEF OrderInv
<1>5. QED
    BY <1>3, <1>4 DEF OnFrame

(* The writer takes the oldest frame of the queue.                          *)
LEMMA TakeOrder ==
    ASSUME TelTypes, OrderInv, WriterTake
    PROVE  OrderInv' /\ Done' = Done
<1>1. /\ queue # <<>> /\ slot' = Head(queue) /\ queue' = Tail(queue) /\ writer = "wait" /\ writer' = "have"
      /\ UNCHANGED <<backups, file, cache, accepted>>
    BY DEF WriterTake, fileVars
<1>2. /\ Len(queue) \in Nat /\ Len(queue) >= 1 /\ Len(accepted) \in Nat
      /\ Len(queue') = Len(queue) - 1 /\ slot' = queue[1]
      /\ \A i \in 1..Len(queue') : i + 1 \in 1..Len(queue) /\ queue'[i] = queue[i + 1]
    BY <1>1 DEF TelTypes
<1>3. ~Busy /\ Busy'
    BY <1>1 DEF Busy
<1>4. Done' = Done /\ Done = Len(accepted) - Len(queue) /\ Done \in Nat
    BY <1>1, <1>2, <1>3 DEF Done, OrderInv, Numbered
<1>5. \A i \in 1..Len(queue) : queue[i] = Len(accepted) - Len(queue) + i
    BY DEF OrderInv, Numbered
<1>6. slot' = Done + 1
    BY <1>2, <1>4, <1>5
<1>7. \A i \in 1..Len(queue') : queue'[i] = Len(accepted') - Len(queue') + i
    BY <1>1, <1>2, <1>5
<1>8. Numbered'
    BY <1>4, <1>6, <1>7 DEF Numbered
<1>9. SortedFiles(backups, file, cache, Done)'
    BY <1>1, <1>4 DEF OrderInv, SortedFiles, Rising, Before, Below, Torn, Backups
<1>10. QED
    BY <1>1, <1>4, <1>8, <1>9 DEF OrderInv

(* What is in the files, as types.                                          *)
LEMMA FileTypes ==
    ASSUME TelTypes, OrderInv
    PROVE  /\ backups \in [Backups -> Seq(Nat)] /\ file \in Seq(Nat) /\ cache \in Seq(Nat)
           /\ slot \in Nat /\ Done \in Nat /\ \A b \in Backups : backups[b] \in Seq(Nat)
           /\ Front(file) \in Seq(Nat) /\ <<>> \in Seq(Nat)
BY FrameSeqs DEF TelTypes, OrderInv, Numbered

(* The writer locks the file, rotates it if it has no room and begins to    *)
(* write.                                                                   *)
LEMMA BeginOrder ==
    ASSUME TelTypes, OrderInv, WriterLock \/ WriterBegin
    PROVE  OrderInv'
<1>0. OrderInv => SortedFiles(backups, file, cache, Done)
    BY DEF OrderInv
<1>1. CASE WriterLock
  <2>1. UNCHANGED <<queue, accepted, slot>> /\ writer = "have" /\ writer' = "locked"
    BY <1>1 DEF WriterLock, queueVars
  <2>2. UNCHANGED <<backups, file, cache>> \/ \E f \in {file \o cache, file}, m \in {0, 1} : RotateAnyhow(f, m)
    BY <1>1 DEF WriterLock, fileVars
  <2>3. SortedFiles(backups', file', cache', Done)
    <3>1. /\ SortedFiles(backups, file \o cache, <<>>, Done) /\ SortedFiles(backups, file, <<>>, Done)
          /\ file \o cache \in Seq(Nat) /\ file \in Seq(Nat)
        BY <1>0, FileTypes, FlushSorted, FrameSeqs
    <3>2. CASE UNCHANGED <<backups, file, cache>>
        BY <1>0, <3>2
    <3>3. ASSUME NEW f \in {file \o cache, file}, NEW m \in {0, 1}, RotateAnyhow(f, m)
          PROVE  SortedFiles(backups', file', cache', Done)
        BY <3>1, <3>3, RotateSorted
    <3>4. QED
        BY <2>2, <3>2, <3>3
  <2>4. QED
    BY <2>1, <2>3, HeldOrder DEF Busy
<1>2. CASE WriterBegin
  <2>1. UNCHANGED <<queue, accepted, slot, cache, backups>> /\ writer = "locked"
    BY <1>2 DEF WriterBegin, queueVars
  <2>2. \/ writer' = "writing" /\ file' = Append(file, Torn)
        \/ writer' = "wait" /\ file' = file
    BY <1>2 DEF WriterBegin
  <2>3. CASE writer' = "wait" /\ file' = file
    <3>1. SortedFiles(backups, file, cache, Done + 1)
        BY <1>0, FileTypes, SortedMore
    <3>2. QED
        BY <2>1, <2>3, <3>1, FinishedOrder DEF Busy
  <2>4. CASE writer' = "writing" /\ file' = Append(file, Torn)
    <3>1. Torn \in Nat
        BY DEF Torn
    <3>2. /\ Rising(file) /\ Below(file, Done) /\ Below(cache, Done) /\ Before(file, cache) /\ Rising(cache)
          /\ \A b \in Backups : Rising(backups[b]) /\ Below(backups[b], Done) /\ Before(backups[b], file)
                                /\ Before(backups[b], cache)
          /\ \A b, c \in Backups : b < c => Before(backups[c], backups[b])
        BY <1>0 DEF SortedFiles
    <3>3. Rising(file') /\ Below(file', Done)
        BY <2>4, <3>1, <3>2, FileTypes, AppendOrder
    <3>4. \A b \in Backups : Before(backups[b], file')
        BY <2>4, <3>1, <3>2, FileTypes, AppendOrder
    <3>5. Before(file', cache)
      <4>1. /\ Len(file') = Len(file) + 1 /\ file'[Len(file) + 1] = Torn /\ Len(file) \in Nat
            /\ \A i \in 1..Len(file) : file'[i] = file[i]
        BY <2>4, FileTypes, AppendFacts
      <4>2. \A i \in 1..Len(file') : i \in 1..Len(file) \/ file'[i] = Torn
        BY <4>1
      <4>3. QED
        BY <3>2, <4>1, <4>2 DEF Before
    <3>6. SortedFiles(backups', file', cache', Done)
        BY <2>1, <3>2, <3>3, <3>4, <3>5 DEF SortedFiles
    <3>7. QED
        BY <2>1, <2>4, <3>6, HeldOrder DEF Busy
  <2>5. QED
    BY <2>2, <2>3, <2>4
<1>3. QED
    BY <1>1, <1>2

(* The frame reaches the file or its buffer, or a part of it does and the   *)
(* file is rotated.                                                         *)
LEMMA EndOrder ==
    ASSUME TelTypes, OrderInv, WriterEnd
    PROVE  OrderInv'
<1>0. /\ Rising(file) /\ Below(file, Done) /\ Below(cache, Done) /\ Before(file, cache) /\ Rising(cache)
      /\ \A b \in Backups : Rising(backups[b]) /\ Below(backups[b], Done) /\ Before(backups[b], file)
                            /\ Before(backups[b], cache)
      /\ \A b, c \in Backups : b < c => Before(backups[c], backups[b])
    BY DEF OrderInv, SortedFiles
<1>1. UNCHANGED <<queue, accepted, slot>> /\ writer = "writing" /\ Busy
    BY DEF WriterEnd, queueVars, Busy
<1>2. slot = Done + 1
    BY <1>1 DEF OrderInv, Numbered
<1> DEFINE g == Append(cache, slot)
           h == Front(file)
<1>3. /\ g \in Seq(Nat) /\ h \in Seq(Nat) /\ Rising(g) /\ Before(h, g) /\ Below(g, Done + 1)
      /\ Rising(h) /\ Below(h, Done) /\ Below(h, Done + 1)
  <2>1. g \in Seq(Nat) /\ h \in Seq(Nat)
    BY FileTypes, FrameSeqs
  <2>2. Rising(h) /\ Below(h, Done) /\ Before(h, cache)
    BY <1>0, FileTypes, FrontOrder
  <2>3. Below(h, Done + 1)
    BY <2>1, <2>2, FileTypes, BelowMore
  <2>4. Rising(g) /\ Before(h, g) /\ Below(g, Done + 1)
    BY <1>0, <1>2, <2>1, <2>2, FileTypes, AppendOrder
  <2>5. QED
    BY <2>1, <2>2, <2>3, <2>4
<1>4. \A b \in Backups : Before(backups[b], h) /\ Before(backups[b], g) /\ Below(backups[b], Done + 1)
  <2>1. SUFFICES ASSUME NEW b \in Backups
                 PROVE  Before(backups[b], h) /\ Before(backups[b], g) /\ Below(backups[b], Done + 1)
    OBVIOUS
  <2>2. backups[b] \in Seq(Nat)
    BY FileTypes
  <2>3. QED
    BY <1>0, <1>2, <2>2, FileTypes, FrontOrder, AppendOrder, BelowMore
<1> HIDE DEF g, h
<1>5. SortedFiles(backups, h, g, Done + 1)
    BY <1>0, <1>3, <1>4 DEF SortedFiles
<1>6. CASE Written
  <2>1. file' = h \o g /\ cache' = <<>> /\ backups' = backups /\ writer' = "wait"
    BY <1>6 DEF Written, g, h
  <2>2. SortedFiles(backups, h \o g, <<>>, Done + 1)
    BY <1>3, <1>5, FileTypes, FlushSorted
  <2>3. QED
    BY <1>1, <2>1, <2>2, FinishedOrder
<1>7. CASE Buffered
  <2>1. file' = h /\ cache' = g /\ backups' = backups /\ writer' = "wait"
    BY <1>7 DEF Buffered, g, h
  <2>2. QED
    BY <1>1, <1>5, <2>1, FinishedOrder
<1>8. ASSUME NEW f \in {file, h \o Append(cache, Torn)}, RotateAnyhow(f, 1), writer' \in {"again", "wait"}
      PROVE  OrderInv'
  <2>0. f \in Seq(Nat) /\ SortedFiles(backups, f, <<>>, Done)
    <3>1. file \in Seq(Nat) /\ SortedFiles(backups, file, <<>>, Done)
        BY FileTypes, FlushSorted DEF OrderInv
    <3>2. Torn \in Nat /\ Append(cache, Torn) \in Seq(Nat)
        BY FileTypes, FrameSeqs DEF Torn
    <3>3. /\ Rising(Append(cache, Torn)) /\ Below(Append(cache, Torn), Done) /\ Before(h, Append(cache, Torn))
        BY <1>0, <1>3, <1>5, <3>2, FileTypes, FrontOrder, AppendOrder DEF h
    <3>4. \A b \in Backups : Before(backups[b], Append(cache, Torn))
        BY <1>0, <3>2, FileTypes, AppendOrder
    <3>5. SortedFiles(backups, h, Append(cache, Torn), Done)
        BY <1>0, <1>3, <1>4, <3>3, <3>4 DEF SortedFiles
    <3>6. h \o Append(cache, Torn) \in Seq(Nat) /\ SortedFiles(backups, h \o Append(cache, Torn), <<>>, Done)
        BY <1>3, <3>2, <3>5, FileTypes, FlushSorted, FrameSeqs
    <3>7. QED
        BY <1>8, <3>1, <3>6
  <2>1. SortedFiles(backups', file', cache', Done) /\ cache' = <<>>
    BY <1>8, <2>0, RotateSorted
  <2>2. CASE writer' = "again"
    BY <1>1, <2>1, <2>2, HeldOrder DEF Busy
  <2>3. CASE writer' = "wait"
    <3>1. backups' \in [Backups -> Seq(Nat)] /\ file' \in Seq(Nat) /\ cache' \in Seq(Nat)
        BY <1>8, <2>0, AnyhowTypes
    <3>2. SortedFiles(backups', file', cache', Done + 1)
        BY <2>1, <3>1, FileTypes, SortedMore
    <3>3. QED
        BY <1>1, <2>3, <3>2, FinishedOrder
  <2>4. QED
    BY <1>8, <2>2, <2>3
<1>9. QED
    BY <1>6, <1>7, <1>8 DEF WriterEnd, h

(* The second attempt.                                                      *)
LEMMA AgainOrder ==
    ASSUME TelTypes, OrderInv, WriterAgain
    PROVE  OrderInv'
<1>0. /\ Rising(file) /\ Below(file, Done) /\ cache = <<>>
      /\ \A b \in Backups : Rising(backups[b]) /\ Below(backups[b], Done) /\ Before(backups[b], file)
      /\ \A b, c \in Backups : b < c => Before(backups[c], backups[b])
    BY DEF OrderInv, SortedFiles, WriterAgain
<1>1. UNCHANGED <<queue, accepted, slot, backups>> /\ Busy /\ writer' = "wait"
    BY DEF WriterAgain, queueVars, Busy
<1>2. slot = Done + 1 /\ Torn \in Nat
    BY <1>1 DEF OrderInv, Numbered, Torn
<1>a. CASE file' = file /\ cache' = Append(cache, slot)
  <2>1. /\ Append(cache, slot) \in Seq(Nat) /\ Rising(cache) /\ Before(file, cache) /\ Below(cache, Done)
        /\ \A b \in Backups : Before(backups[b], cache)
    BY FileTypes, FrameSeqs DEF OrderInv, SortedFiles
  <2>2. /\ Rising(Append(cache, slot)) /\ Before(file, Append(cache, slot))
        /\ Below(Append(cache, slot), Done + 1) /\ Below(file, Done + 1)
    BY <1>0, <1>2, <2>1, FileTypes, AppendOrder, BelowMore
  <2>3. \A b \in Backups : Before(backups[b], Append(cache, slot)) /\ Below(backups[b], Done + 1)
    BY <1>0, <1>2, <2>1, FileTypes, AppendOrder, BelowMore
  <2>4. SortedFiles(backups, file, Append(cache, slot), Done + 1)
    BY <1>0, <2>2, <2>3 DEF SortedFiles
  <2>5. QED
    BY <1>1, <1>a, <2>4, FinishedOrder
<1>b. SUFFICES ASSUME \E k \in {Torn, slot} : file' = Append(file, k), cache' = cache
               PROVE  OrderInv'
    BY <1>a DEF WriterAgain
<1>3. PICK k \in Nat : file' = Append(file, k) /\ (k = Torn \/ k = Done + 1)
    BY <1>2, <1>b, FileTypes
<1>4. file' \in Seq(Nat) /\ Rising(file') /\ Below(file', Done + 1)
    BY <1>0, <1>3, FileTypes, AppendOrder, FrameSeqs
<1>5. \A b \in Backups : Before(backups[b], file') /\ Below(backups[b], Done + 1) /\ Before(backups[b], <<>>)
  <2>1. SUFFICES ASSUME NEW b \in Backups
                 PROVE  Before(backups[b], file') /\ Below(backups[b], Done + 1) /\ Before(backups[b], <<>>)
    OBVIOUS
  <2>2. backups[b] \in Seq(Nat)
    BY FileTypes
  <2>3. QED
    BY <1>0, <1>3, <2>2, FileTypes, AppendOrder, BelowMore, EmptyOrder
<1>6. Rising(<<>>) /\ Below(<<>>, Done + 1) /\ Before(file', <<>>)
    BY <1>4, EmptyOrder
<1>7. SortedFiles(backups, file', <<>>, Done + 1)
    BY <1>0, <1>4, <1>5, <1>6 DEF SortedFiles
<1>8. QED
    BY <1>0, <1>1, <1>b, <1>7, FinishedOrder

(* Frames keep their order in every step.                                   *)
LEMMA OrderInvStep ==
    ASSUME TelTypes, OrderInv, [LogNext]_logVars
    PROVE  OrderInv'
<1>1. ASSUME UNCHANGED <<queue, accepted, slot, backups>>, file' = file \o cache, cache' = <<>>,
             UNCHANGED writer
      PROVE  OrderInv'
  <2>1. Done' = Done
    BY <1>1 DEF Done, Busy
  <2>2. Numbered'
    BY <1>1, <2>1 DEF OrderInv, Numbered, Busy
  <2>3. SortedFiles(backups', file', cache', Done')
    BY <1>1, <2>1, FileTypes, FlushSorted DEF OrderInv
  <2>4. SortedFiles(backups, file, cache, Done)'
    BY <2>3 DEF SortedFiles, Rising, Before, Below, Torn, Backups
  <2>5. QED
    BY <1>1, <2>2, <2>4 DEF OrderInv
<1>2. ASSUME UNCHANGED <<queue, accepted, slot, backups, file, cache>>, Busy' <=> Busy,
             writer' = "again" => writer = "again"
      PROVE  OrderInv'
    BY <1>2, QuietOrder
<1>3. CASE TelNext
  <2>1. CASE PollSend \/ PollSent \/ PollExit \/ WriterSleep \/ WriterExit \/ DestroyStop \/ JoinPoll
    BY <1>2, <2>1 DEF PollSend, PollSent, PollExit, WriterSleep, WriterExit, DestroyStop, JoinPoll, Signal,
                      queueVars, fileVars, Busy
  <2>2. CASE JoinWriter
    BY <1>1, <2>2 DEF JoinWriter, queueVars
  <2>3. QED
    BY <1>3, <2>1, <2>2, FrameOrder, TakeOrder, BeginOrder, EndOrder, AgainOrder DEF TelNext
<1>4. ASSUME NEW s \in Serials, TelemetrySnapshot(s) PROVE OrderInv'
  <2>1. UNCHANGED <<queue, accepted, slot, backups, writer>>
    BY <1>4, SnapshotCases
  <2>2. UNCHANGED <<file, cache>> \/ (file' = file \o cache /\ cache' = <<>>)
    BY <1>4, SnapshotCases
  <2>3. QED
    BY <1>1, <1>2, <2>1, <2>2 DEF Busy
<1>5. CASE UNCHANGED telVars
    BY <1>2, <1>5 DEF telVars, Busy
<1>6. CASE Shutdown
    BY <1>2, <1>6 DEF Shutdown, UploadDestroy, TcpDestroy, queueVars, fileVars, Busy
<1>7. UNCHANGED telVars \/ TelNext \/ Shutdown \/ \E s \in Serials : TelemetrySnapshot(s)
  <2>1. CreateThread \/ CreateFails \/ ReportFailed => UNCHANGED telVars
    BY DEF CreateThread, CreateFails, ReportFailed
  <2>2. \A s \in Serials : Request(s) => UNCHANGED telVars
    BY DEF Request, RejectBusy, RejectInvalid, Reject, AcceptRequest
  <2>3. \A s \in Serials : UploadThread(s) /\ ~TelemetrySnapshot(s) => UNCHANGED telVars
    BY DEF UploadThread, CopyText, StatTelemetry, PackAndUpload, CheckStopping, SendResult, ReopenGate
  <2>4. UNCHANGED logVars => UNCHANGED telVars
    BY DEF logVars
  <2>5. QED
    BY <2>1, <2>2, <2>3, <2>4 DEF LogNext
<1>8. QED
    BY <1>3, <1>4, <1>5, <1>6, <1>7

--------------------
(* Rotating a file that is full leaves the log whole; what leaves it is the *)
(* oldest backup, which holds the oldest frames.                            *)
LEMMA ShiftWhole ==
    ASSUME NEW bk \in [Backups -> Seq(Nat)], NEW fl \in Seq(Nat), NEW n \in Nat,
           SortedFiles(bk, fl, <<>>, n), WholeFiles(bk, fl, n), Len(fl) >= g_tel_max_size - 1,
           NEW nb, nb = [b \in Backups |-> IF b = 1 THEN fl ELSE bk[b - 1]]
    PROVE  WholeFiles(nb, <<>>, n)
<1> DEFINE N == NumBackups
           In(f)  == \/ \E i \in 1..Len(fl) : fl[i] = f
                     \/ \E b \in Backups : \E i \in 1..Len(bk[b]) : bk[b][i] = f
           New1(f) == \E b \in Backups : \E i \in 1..Len(nb[b]) : nb[b][i] = f
<1>0. /\ N \in Backups /\ 1 \in Backups /\ g_tel_max_size - 1 \in Nat /\ g_tel_max_size - 1 >= 1
      /\ \A b \in Backups : b \in Int /\ b >= 1 /\ b <= N /\ (b # 1 => b - 1 \in Backups /\ b - 1 < N)
                            /\ (b # N => b + 1 \in Backups)
    BY TelAssumption, BackupsCounted DEF Backups
<1>1. /\ nb[1] = fl /\ \A b \in Backups : b # 1 => nb[b] = bk[b - 1]
      /\ \A b \in Backups : b # N => nb[b + 1] = bk[b]
  <2>1. nb[1] = fl /\ \A b \in Backups : b # 1 => nb[b] = bk[b - 1]
    BY <1>0
  <2>2. \A b \in Backups : b # N => b + 1 \in Backups /\ b + 1 # 1 /\ (b + 1) - 1 = b
    BY <1>0
  <2>3. QED
    BY <2>1, <2>2
<1>2. /\ \A b \in Backups : \A i \in 1..Len(bk[b]) : bk[b][i] # Torn
      /\ \A b, c \in Backups : c < b /\ bk[b] # <<>> => Len(bk[c]) >= g_tel_max_size - 1
      /\ Len(fl) <= n /\ \A i \in 1..Len(fl) : fl[i] = n - Len(fl) + i
    BY DEF WholeFiles
<1>3. PICK oldest \in 1..(n + 1) :
        /\ \A f \in 1..n : f >= oldest <=> In(f)
        /\ oldest > 1 => \A b \in Backups : Len(bk[b]) >= g_tel_max_size - 1
    BY DEF WholeFiles
<1>4. /\ \A b \in Backups : Rising(bk[b]) /\ Below(bk[b], n) /\ Before(bk[b], fl) /\ bk[b] \in Seq(Nat)
      /\ \A b, c \in Backups : b < c => Before(bk[c], bk[b])
    BY DEF SortedFiles
<1>5. Len(fl) \in Nat /\ \A i \in 1..Len(fl) : fl[i] # Torn /\ fl[i] \in Nat
    BY <1>2 DEF Torn
<1> HIDE DEF In, New1
<1>6. \A b \in Backups : \A i \in 1..Len(nb[b]) : nb[b][i] # Torn
  <2>1. SUFFICES ASSUME NEW b \in Backups PROVE \A i \in 1..Len(nb[b]) : nb[b][i] # Torn
    OBVIOUS
  <2>2. CASE b = 1
    BY <1>1, <1>5, <2>2
  <2>3. CASE b # 1
    BY <1>0, <1>1, <1>2, <2>3
  <2>4. QED
    BY <2>2, <2>3
<1>7. \A b, c \in Backups : c < b /\ nb[b] # <<>> => Len(nb[c]) >= g_tel_max_size - 1
  <2>1. SUFFICES ASSUME NEW b \in Backups, NEW c \in Backups, c < b, nb[b] # <<>>
                 PROVE  Len(nb[c]) >= g_tel_max_size - 1
    OBVIOUS
  <2>2. b # 1 /\ b \in Int /\ c \in Int /\ c >= 1
    BY <2>1, TelAssumption, BackupsCounted DEF Backups
  <2>3. CASE c = 1
    BY <1>1, <2>3
  <2>4. CASE c # 1
    <3>1. b - 1 \in Backups /\ c - 1 \in Backups /\ c - 1 < b - 1 /\ nb[b] = bk[b - 1] /\ nb[c] = bk[c - 1]
        BY <1>0, <1>1, <2>1, <2>2, <2>4
    <3>2. QED
        BY <1>2, <2>1, <3>1
  <2>5. QED
    BY <2>3, <2>4
<1>8. \E o \in 1..(n + 1) :
        /\ \A f \in 1..n : f >= o <=> New1(f)
        /\ o > 1 => \A b \in Backups : Len(nb[b]) >= g_tel_max_size - 1
  <2>1. CASE bk[N] = <<>>
    <3>1. oldest = 1
        BY <1>0, <1>3, <2>1
    <3>2. \A f \in 1..n : In(f) => New1(f)
      <4>1. SUFFICES ASSUME NEW f \in 1..n, In(f) PROVE New1(f)
        OBVIOUS
      <4>2. CASE \E i \in 1..Len(fl) : fl[i] = f
        BY <1>0, <1>1, <4>2 DEF New1
      <4>3. ASSUME NEW b \in Backups, NEW i \in 1..Len(bk[b]), bk[b][i] = f PROVE New1(f)
        <5>1. b # N
            BY <2>1, <4>3
        <5>2. b + 1 \in Backups /\ nb[b + 1] = bk[b]
            BY <1>0, <1>1, <5>1
        <5>3. QED
            BY <4>3, <5>2 DEF New1
      <4>4. QED
        BY <4>1, <4>2, <4>3 DEF In
    <3>3. \A f \in 1..n : f >= 1 <=> New1(f)
        BY <1>3, <3>1, <3>2
    <3>4. 1 \in 1..(n + 1) /\ ~(1 > 1)
        OBVIOUS
    <3>5. QED
        BY <3>3, <3>4
  <2>2. CASE bk[N] # <<>>
    <3> DEFINE z == Len(bk[N])
               m == bk[N][z]
    <3>1. z \in Nat /\ z >= 1 /\ z \in 1..Len(bk[N]) /\ m \in Nat
        BY <1>0, <1>4, <2>2
    <3>2. m \in 1..n /\ m # Torn
        BY <1>0, <1>2, <1>4, <3>1 DEF Below, Torn
    <3> HIDE DEF z, m
    <3>3. m >= oldest
      <4>1. In(m)
        BY <1>0, <3>1 DEF In, m
      <4>2. QED
        BY <1>3, <3>2, <4>1
    <3>4. \A i \in 1..Len(bk[N]) : bk[N][i] <= m
      <4>1. SUFFICES ASSUME NEW i \in 1..Len(bk[N]) PROVE bk[N][i] <= m
        OBVIOUS
      <4>2. CASE i = z
        BY <3>2, <4>2 DEF m
      <4>3. CASE i < z
        <5>1. bk[N][i] # Torn /\ Rising(bk[N]) /\ bk[N][i] \in Nat
            BY <1>0, <1>2, <1>4, SMTT(30)
        <5>2. bk[N][i] < m
            BY <3>1, <3>2, <4>3, <5>1 DEF Rising, m, z
        <5>3. QED
            BY <3>2, <5>1, <5>2
      <4>4. QED
        BY <3>1, <4>2, <4>3 DEF z
    <3>5. \A f \in 1..n : f >= m + 1 => New1(f)
      <4>1. SUFFICES ASSUME NEW f \in 1..n, f >= m + 1 PROVE New1(f)
        OBVIOUS
      <4>2. In(f)
        BY <1>3, <3>2, <3>3, <4>1
      <4>3. CASE \E i \in 1..Len(fl) : fl[i] = f
        BY <1>0, <1>1, <4>3 DEF New1
      <4>4. ASSUME NEW b \in Backups, NEW i \in 1..Len(bk[b]), bk[b][i] = f PROVE New1(f)
        <5>1. b # N
          <6>1. SUFFICES ASSUME b = N PROVE FALSE
            OBVIOUS
          <6>2. f <= m
            BY <3>4, <4>4, <6>1
          <6>3. QED
            BY <3>2, <4>1, <6>2
        <5>2. b + 1 \in Backups /\ nb[b + 1] = bk[b]
            BY <1>0, <1>1, <5>1
        <5>3. QED
            BY <4>4, <5>2 DEF New1
      <4>5. QED
        BY <4>2, <4>3, <4>4 DEF In
    <3>6. \A f \in 1..n : New1(f) => f >= m + 1
      <4>1. SUFFICES ASSUME NEW f \in 1..n, NEW b \in Backups, NEW i \in 1..Len(nb[b]), nb[b][i] = f
                     PROVE  f > m
        <5>1. \A f \in 1..n : f > m => f >= m + 1
            BY <3>2
        <5>2. QED
            BY <5>1 DEF New1
      <4>2. nb[b][i] # Torn
        BY <1>6
      <4>3. Before(bk[N], nb[b])
        <5>1. CASE b = 1
            BY <1>0, <1>1, <1>4, <5>1
        <5>2. CASE b # 1
          <6>1. b - 1 \in Backups /\ b - 1 < N /\ nb[b] = bk[b - 1]
            BY <1>0, <1>1, <5>2
          <6>2. QED
            BY <1>0, <1>4, <6>1
        <5>3. QED
            BY <5>1, <5>2
      <4>4. QED
        BY <3>1, <3>2, <4>1, <4>2, <4>3 DEF Before, m
    <3>7. \A b \in Backups : Len(nb[b]) >= g_tel_max_size - 1
      <4>1. SUFFICES ASSUME NEW b \in Backups PROVE Len(nb[b]) >= g_tel_max_size - 1
        OBVIOUS
      <4>2. CASE b = 1
        BY <1>1, <4>2
      <4>3. CASE b # 1
        <5>1. b - 1 \in Backups /\ b - 1 < N /\ nb[b] = bk[b - 1]
            BY <1>0, <1>1, <4>3
        <5>2. QED
            BY <1>0, <1>2, <2>2, <5>1
      <4>4. QED
        BY <4>2, <4>3
    <3>8. m + 1 \in 1..(n + 1)
        BY <3>2
    <3>9. QED
        BY <3>5, <3>6, <3>7, <3>8
  <2>3. QED
    BY <2>1, <2>2
<1>9. Len(<<>>) = 0 /\ 1..Len(<<>>) = {}
    OBVIOUS
<1>10. Len(<<>>) <= n /\ \A i \in 1..Len(<<>>) : <<>>[i] = n - Len(<<>>) + i
    BY <1>9
<1>11. \A f : New1(f) <=> (\/ \E i \in 1..Len(<<>>) : <<>>[i] = f
                          \/ \E b \in Backups : \E i \in 1..Len(nb[b]) : nb[b][i] = f)
    BY <1>9 DEF New1
<1>12. QED
    BY <1>6, <1>7, <1>8, <1>10, <1>11 DEF WholeFiles

(* Whole files of F frames: where they begin, and which one a frame is in.  *)
LEMMA FilePosition ==
    ASSUME NEW F \in Nat \ {0}
    PROVE  /\ \A a, b \in Nat : a * F \in Nat /\ (a < b => a * F + F <= b * F)
           /\ \A L \in Nat : \A f \in 1..(L * F) : \E q \in 0..(L - 1) : \E k \in 1..F : f = q * F + k
<1>1. \A a, b \in Nat : a * F \in Nat /\ (a < b => a * F + F <= b * F)
  <2>1. SUFFICES ASSUME NEW a \in Nat, NEW b \in Nat PROVE a * F \in Nat /\ (a < b => a * F + F <= b * F)
    OBVIOUS
  <2>2. a * F \in Nat /\ b * F \in Nat
    OBVIOUS
  <2>3. (a + 1) * F = a * F + F
    OBVIOUS
  <2>4. ASSUME a < b PROVE (a + 1) * F <= b * F
    <3>1. b - (a + 1) \in Nat
        BY <2>4
    <3>2. \A d \in Nat : d * F >= 0
        OBVIOUS
    <3>3. b * F = (a + 1) * F + (b - (a + 1)) * F
        OBVIOUS
    <3>4. QED
        BY <3>1, <3>2, <3>3
  <2>5. QED
    BY <2>2, <2>3, <2>4
<1>2. ASSUME NEW L \in Nat, NEW f \in 1..(L * F)
      PROVE  \E q \in 0..(L - 1) : \E k \in 1..F : f = q * F + k
  <2> DEFINE q == (f - 1) \div F
  <2>1. L * F \in Nat /\ f \in Nat /\ f >= 1 /\ f <= L * F
    BY <1>1, <1>2
  <2>2. \A n \in Nat : n \div F \in Nat /\ (n \div F) * F <= n /\ n < (n \div F) * F + F
    BY Z3
  <2>3. q \in Nat /\ q * F <= f - 1 /\ f - 1 < q * F + F
    BY <2>1, <2>2
  <2> HIDE DEF q
  <2>4. q * F \in Nat
    BY <1>1, <2>3
  <2>5. f - q * F \in 1..F /\ f = q * F + (f - q * F)
    BY <2>1, <2>3, <2>4
  <2>6. q < L
    <3>1. SUFFICES ASSUME L <= q PROVE FALSE
        BY <2>3
    <3>2. L * F <= q * F
      <4>1. CASE L = q
        BY <2>4, <4>1
      <4>2. CASE L < q
        BY <1>1, <2>1, <2>3, <2>4, <4>2
      <4>3. QED
        BY <2>3, <3>1, <4>1, <4>2
    <3>3. QED
        BY <2>1, <2>3, <2>4, <3>2
  <2>7. q \in 0..(L - 1)
    BY <2>3, <2>6
  <2>8. QED
    BY <2>5, <2>7
<1>3. QED
    BY <1>1, <1>2

(* Files of F frames each, of which the one named q begins behind frame     *)
(* P[q], and a current file behind them are in order and whole.             *)
LEMMA PlacedWhole ==
    ASSUME NEW L \in Nat, L <= NumBackups, NEW c \in Nat, NEW F \in Nat \ {0},
           F = g_tel_max_size - 1, NEW P \in [0..L -> Nat],
           \A a, b \in 0..L : a < b => P[a] + F <= P[b],
           \A f \in 1..P[L] : \E q \in 0..(L - 1) : \E k \in 1..F : f = P[q] + k,
           NEW old \in [Backups -> Seq(Nat)], NEW current \in Seq(Nat),
           \A j \in Backups : j > L => Len(old[j]) = 0,
           \A j \in Backups : j <= L => Len(old[j]) = F /\ \A k \in 1..F : old[j][k] = P[L - j] + k,
           Len(current) = c, \A k \in 1..c : current[k] = P[L] + k
    PROVE  SortedFiles(old, current, <<>>, P[L] + c) /\ WholeFiles(old, current, P[L] + c)
<1> DEFINE X == P[L]
           n == X + c
<1>0. /\ X \in Nat /\ n \in Nat /\ L \in 0..L
      /\ \A j \in Backups : j \in Int /\ j >= 1 /\ (j <= L => L - j \in 0..L /\ L - j < L)
    BY TelAssumption, BackupsCounted DEF Backups
<1>a. \A j \in Backups : j <= L => P[L - j] + F <= X /\ P[L - j] \in Nat
    BY <1>0
<1>b. \A k \in 1..c : current[k] = X + k
    OBVIOUS
<1> HIDE DEF X
<1>1. \A j \in Backups : \A k \in 1..Len(old[j]) :
            /\ j <= L /\ k \in 1..F /\ L - j \in 0..L
            /\ old[j][k] = P[L - j] + k /\ P[L - j] \in Nat /\ P[L - j] + F <= X
  <2>1. SUFFICES ASSUME NEW j \in Backups, NEW k \in 1..Len(old[j])
                 PROVE  /\ j <= L /\ k \in 1..F /\ L - j \in 0..L
                        /\ old[j][k] = P[L - j] + k /\ P[L - j] \in Nat /\ P[L - j] + F <= X
    OBVIOUS
  <2>2. j <= L
    <3>1. SUFFICES ASSUME j > L PROVE FALSE
        BY <1>0
    <3>2. QED
        BY <3>1
  <2>3. k \in 1..F /\ old[j][k] = P[L - j] + k
    BY <2>2
  <2>4. L - j \in 0..L /\ L - j < L
    BY <1>0, <2>2
  <2>5. QED
    BY <1>a, <2>2, <2>3, <2>4
<1>2. \A j \in Backups : \A k \in 1..Len(old[j]) : old[j][k] <= X /\ old[j][k] \in Nat /\ old[j][k] > 0
  <2>1. SUFFICES ASSUME NEW j \in Backups, NEW k \in 1..Len(old[j])
                 PROVE  old[j][k] <= X /\ old[j][k] \in Nat /\ old[j][k] > 0
    OBVIOUS
  <2> DEFINE y == P[L - j]
  <2>2. k \in 1..F /\ old[j][k] = y + k /\ y \in Nat /\ y + F <= X
    BY <1>1
  <2> HIDE DEF y
  <2>3. y + k <= X /\ y + k \in Nat /\ y + k > 0
    BY <1>0, <2>2
  <2>4. QED
    BY <2>2, <2>3
<1>3. \A j \in Backups : Rising(old[j])
  <2>1. SUFFICES ASSUME NEW j \in Backups, NEW i \in 1..Len(old[j]), NEW k \in 1..Len(old[j]), i < k
                 PROVE  old[j][i] < old[j][k]
    BY DEF Rising
  <2>2. old[j][i] = P[L - j] + i /\ old[j][k] = P[L - j] + k /\ P[L - j] \in Nat /\ i \in 1..F /\ k \in 1..F
    BY <1>1
  <2>3. QED
    BY <2>1, <2>2
<1>4. \A j \in Backups : Below(old[j], n) /\ Before(old[j], current)
  <2>1. SUFFICES ASSUME NEW j \in Backups PROVE Below(old[j], n) /\ Before(old[j], current)
    OBVIOUS
  <2>2. \A k \in 1..Len(old[j]) : old[j][k] <= n
    <3>1. SUFFICES ASSUME NEW k \in 1..Len(old[j]) PROVE old[j][k] <= n
        OBVIOUS
    <3>2. old[j][k] <= X /\ old[j][k] \in Nat
        BY <1>2
    <3>3. QED
        BY <1>0, <3>2, SMTT(30)
  <2>3. \A i \in 1..Len(old[j]), k \in 1..Len(current) : old[j][i] < current[k]
    <3>1. SUFFICES ASSUME NEW i \in 1..Len(old[j]), NEW k \in 1..Len(current) PROVE old[j][i] < current[k]
        OBVIOUS
    <3>2. old[j][i] <= X /\ old[j][i] \in Nat
        BY <1>2
    <3>3. k \in 1..c /\ current[k] = X + k
        BY <1>b
    <3>4. X < X + k /\ X + k \in Nat
        BY <1>0, <3>3
    <3>5. \A u, v \in Nat : u <= X /\ X < v => u < v
        BY <1>0
    <3>6. old[j][i] < X + k
        BY <3>2, <3>4, <3>5
    <3>7. QED
        BY <3>3, <3>6, Zenon
  <2>4. QED
    BY <2>2, <2>3 DEF Below, Before
<1>5. Rising(current) /\ Below(current, n)
  <2>1. \A k \in 1..Len(current) : k \in 1..c /\ current[k] = X + k
    BY <1>b
  <2>2. \A i, k \in 1..Len(current) : i < k => current[i] < current[k]
    BY <1>0, <2>1
  <2>3. \A k \in 1..Len(current) : current[k] <= n
    BY <1>0, <2>1
  <2>4. QED
    BY <2>2, <2>3 DEF Rising, Below
<1>6. \A b, j \in Backups : b < j => Before(old[j], old[b])
  <2>1. SUFFICES ASSUME NEW b \in Backups, NEW j \in Backups, b < j,
                        NEW i \in 1..Len(old[j]), NEW k \in 1..Len(old[b])
                 PROVE  old[j][i] < old[b][k]
    BY DEF Before
  <2>2. i \in 1..F /\ old[j][i] = P[L - j] + i /\ P[L - j] \in Nat /\ L - j \in 0..L
    BY <1>1
  <2>3. k \in 1..F /\ old[b][k] = P[L - b] + k /\ P[L - b] \in Nat /\ L - b \in 0..L
    BY <1>1
  <2>4. L - j < L - b
    BY <1>0, <2>1
  <2>5. P[L - j] + F <= P[L - b]
    BY <2>2, <2>3, <2>4
  <2>6. QED
    BY <2>2, <2>3, <2>5, SMTT(30)
<1>7. SortedFiles(old, current, <<>>, n)
  <2>1. Rising(<<>>) /\ Below(<<>>, n) /\ Before(current, <<>>) /\ \A j \in Backups : Before(old[j], <<>>)
    BY EmptyOrder
  <2>2. QED
    BY <1>3, <1>4, <1>5, <1>6, <2>1 DEF SortedFiles
<1>8. WholeFiles(old, current, n)
  <2>1. \A b \in Backups : \A i \in 1..Len(old[b]) : old[b][i] # Torn
    <3>1. SUFFICES ASSUME NEW b \in Backups, NEW i \in 1..Len(old[b]) PROVE old[b][i] # 0
        BY DEF Torn
    <3>2. QED
        BY <1>2
  <2>2. \A b, j \in Backups : j < b /\ old[b] # <<>> => Len(old[j]) >= g_tel_max_size - 1
    <3>1. SUFFICES ASSUME NEW b \in Backups, NEW j \in Backups, j < b, old[b] # <<>>
                   PROVE  Len(old[j]) >= F
        OBVIOUS
    <3>2. b <= L
      <4>1. Len(old[b]) # 0 /\ old[b] \in Seq(Nat)
        BY <3>1
      <4>2. ~(b > L)
        BY <4>1
      <4>3. QED
        BY <1>0, <4>2
    <3>3. j <= L
        BY <1>0, <3>1, <3>2
    <3>4. QED
        BY <3>3
  <2>3. Len(current) <= n /\ \A i \in 1..Len(current) : current[i] = n - Len(current) + i
    BY <1>0, <1>b
  <2>4. ASSUME NEW f \in 1..n
        PROVE  \/ \E i \in 1..Len(current) : current[i] = f
               \/ \E b \in Backups : \E i \in 1..Len(old[b]) : old[b][i] = f
    <3>1. CASE f > X
      <4>1. f - X \in 1..Len(current) /\ X + (f - X) = f
        BY <1>0, <3>1
      <4>2. current[f - X] = f
        BY <1>b, <4>1
      <4>3. QED
        BY <4>1, <4>2
    <3>2. CASE f <= X
      <4>1. f \in 1..P[L]
        BY <1>0, <3>2 DEF X
      <4>2. PICK q \in 0..(L - 1), k \in 1..F : f = P[q] + k
        BY <4>1
      <4>3. L - q \in Backups /\ L - q <= L /\ L - (L - q) = q
        BY TelAssumption, BackupsCounted, <4>2 DEF Backups
      <4>4. k \in 1..Len(old[L - q]) /\ old[L - q][k] = P[q] + k
        <5>1. Len(old[L - q]) = F /\ old[L - q][k] = P[L - (L - q)] + k
            BY <4>3
        <5>2. QED
            BY <4>3, <5>1
      <4>5. QED
        BY <4>2, <4>3, <4>4
    <3>3. QED
        BY <1>0, <3>1, <3>2
  <2>5. 1 \in 1..(n + 1) /\ ~(1 > 1) /\ \A f \in 1..n : f >= 1
    BY <1>0
  <2>6. QED
    BY <2>1, <2>2, <2>3, <2>4, <2>5 DEF WholeFiles
<1>9. QED
    BY <1>7, <1>8 DEF X

(* What earlier runs may have left behind, L backups of F frames and a file *)
(* of c frames, is in order and whole.                                      *)
OldBackups(L, F) ==
    [j \in Backups |-> IF j > L THEN <<>> ELSE [k \in 1..F |-> (L - j) * F + k]]

OldFile(L, F, c) == [k \in 1..c |-> L * F + k]

(* The files a start of the process may find, the L newest backups full and *)
(* c frames in the current file, are in order and without a gap.            *)
LEMMA OldWhole ==
    ASSUME NEW L \in 0..NumBackups, NEW c \in Nat, NEW F, F = g_tel_max_size - 1,
           NEW old, old = OldBackups(L, F), NEW current, current = OldFile(L, F, c)
    PROVE  /\ old \in [Backups -> Seq(Nat)] /\ current \in Seq(Nat) /\ Len(current) = c
           /\ L * F + c \in Nat
           /\ SortedFiles(old, current, <<>>, L * F + c) /\ WholeFiles(old, current, L * F + c)
<1>0. /\ F \in Nat \ {0} /\ L \in Nat /\ L <= NumBackups
      /\ \A j \in Backups : j \in Int /\ j >= 1 /\ (j <= L => L - j \in 0..L)
    BY TelAssumption, BackupsCounted DEF Backups
<1> DEFINE P == [a \in 0..L |-> a * F]
<1>1. P \in [0..L -> Nat] /\ \A a, b \in 0..L : a < b => P[a] + F <= P[b]
  <2>1. \A a \in 0..L : a \in Nat
    BY <1>0
  <2>2. QED
    BY <1>0, <2>1, FilePosition
<1>2. P[L] = L * F
    BY <1>0
<1>3. \A f \in 1..P[L] : \E q \in 0..(L - 1) : \E k \in 1..F : f = P[q] + k
  <2>1. \A f \in 1..(L * F) : \E q \in 0..(L - 1) : \E k \in 1..F : f = q * F + k
    BY <1>0, FilePosition
  <2>2. \A q \in 0..(L - 1) : P[q] = q * F
    BY <1>0
  <2>3. QED
    BY <1>2, <2>1, <2>2
<1>4. ASSUME NEW m \in Nat, NEW a \in Nat, NEW r, r = [k \in 1..m |-> a + k]
      PROVE  r \in Seq(Nat) /\ Len(r) = m /\ \A k \in 1..m : r[k] = a + k
    BY <1>4
<1>5. \A j \in Backups : j <= L => old[j] = [k \in 1..F |-> P[L - j] + k] /\ P[L - j] \in Nat
  <2>1. SUFFICES ASSUME NEW j \in Backups, j <= L
                 PROVE  old[j] = [k \in 1..F |-> P[L - j] + k] /\ P[L - j] \in Nat
    OBVIOUS
  <2>2. L - j \in 0..L /\ ~(j > L)
    BY <1>0, <2>1
  <2>3. P[L - j] = (L - j) * F /\ P[L - j] \in Nat
    BY <1>1, <2>2
  <2>4. old[j] = [k \in 1..F |-> (L - j) * F + k]
    BY <2>2 DEF OldBackups
  <2>5. QED
    BY <2>3, <2>4, ZenonT(60)
<1>6. current = [k \in 1..c |-> P[L] + k] /\ P[L] \in Nat
    BY <1>0, <1>1, <1>2 DEF OldFile
<1>7. \A j \in Backups : j > L => old[j] = <<>>
    BY <1>0 DEF OldBackups
<1>8. old = [j \in Backups |-> old[j]]
    BY DEF OldBackups
<1> HIDE DEF P
<1>9. /\ \A j \in Backups : j <= L => /\ old[j] \in Seq(Nat) /\ Len(old[j]) = F
                                     /\ \A k \in 1..F : old[j][k] = P[L - j] + k
      /\ current \in Seq(Nat) /\ Len(current) = c /\ \A k \in 1..c : current[k] = P[L] + k
  <2>1. F \in Nat /\ c \in Nat
    BY <1>0
  <2>2. current \in Seq(Nat) /\ Len(current) = c /\ \A k \in 1..c : current[k] = P[L] + k
    BY <1>4, <1>6, <2>1
  <2>3. ASSUME NEW j \in Backups, j <= L
        PROVE  old[j] \in Seq(Nat) /\ Len(old[j]) = F /\ \A k \in 1..F : old[j][k] = P[L - j] + k
    <3> DEFINE y == P[L - j]
    <3>1. old[j] = [k \in 1..F |-> y + k] /\ y \in Nat
        BY <1>5, <2>3, Zenon
    <3> HIDE DEF y
    <3>2. old[j] \in Seq(Nat) /\ Len(old[j]) = F /\ \A k \in 1..F : old[j][k] = y + k
      <4>1. F \in Nat /\ y \in Nat /\ old[j] = [k \in 1..F |-> y + k]
        BY <2>1, <3>1
      <4>2. QED
        BY <4>1, <1>4
    <3>3. QED
        BY <3>2 DEF y
  <2>4. QED
    BY <2>2, <2>3, Zenon
<1>10. \A j \in Backups : j > L => old[j] \in Seq(Nat) /\ Len(old[j]) = 0
  <2>1. <<>> \in Seq(Nat) /\ Len(<<>>) = 0
    OBVIOUS
  <2>2. QED
    BY <1>7, <2>1, Zenon
<1>11. old \in [Backups -> Seq(Nat)]
  <2>1. \A j \in Backups : j <= L \/ j > L
    BY <1>0
  <2>2. \A j \in Backups : old[j] \in Seq(Nat)
    BY <1>9, <1>10, <2>1, Zenon
  <2>3. QED
    BY <1>8, <2>2, Zenon
<1>12. SortedFiles(old, current, <<>>, P[L] + c) /\ WholeFiles(old, current, P[L] + c)
  <2>1. L \in Nat /\ L <= NumBackups /\ F \in Nat \ {0} /\ F = g_tel_max_size - 1
    BY <1>0
  <2>2. \A j \in Backups : j > L => Len(old[j]) = 0
    BY <1>10, Zenon
  <2>3. \A j \in Backups : j <= L => Len(old[j]) = F /\ \A k \in 1..F : old[j][k] = P[L - j] + k
    BY <1>9, Zenon
  <2>4. current \in Seq(Nat) /\ Len(current) = c /\ \A k \in 1..c : current[k] = P[L] + k
    BY <1>9, Zenon
  <2>5. P \in [0..L -> Nat] /\ \A a, b \in 0..L : a < b => P[a] + F <= P[b]
    BY <1>1
  <2>6. QED
    BY <1>3, <1>11, <2>1, <2>2, <2>3, <2>4, <2>5, PlacedWhole, ZenonT(120)
<1>13. P[L] + c \in Nat
    BY <1>6
<1>14. QED
    BY <1>2, <1>9, <1>11, <1>12, <1>13, Zenon

(* The next frame keeps the log whole.                                      *)
LEMMA GrowWhole ==
    ASSUME NEW bk \in [Backups -> Seq(Nat)], NEW fl \in Seq(Nat), NEW n \in Nat, WholeFiles(bk, fl, n)
    PROVE  WholeFiles(bk, Append(fl, n + 1), n + 1)
<1> DEFINE g == Append(fl, n + 1)
           In(f)  == \/ \E i \in 1..Len(fl) : fl[i] = f
                     \/ \E b \in Backups : \E i \in 1..Len(bk[b]) : bk[b][i] = f
           Now(f) == \/ \E i \in 1..Len(g) : g[i] = f
                     \/ \E b \in Backups : \E i \in 1..Len(bk[b]) : bk[b][i] = f
<1>1. /\ Len(fl) \in Nat /\ Len(g) = Len(fl) + 1 /\ g[Len(fl) + 1] = n + 1
      /\ \A i \in 1..Len(fl) : g[i] = fl[i]
    BY AppendFacts
<1>2. /\ \A b \in Backups : \A i \in 1..Len(bk[b]) : bk[b][i] # Torn
      /\ \A b, c \in Backups : c < b /\ bk[b] # <<>> => Len(bk[c]) >= g_tel_max_size - 1
      /\ Len(fl) <= n /\ \A i \in 1..Len(fl) : fl[i] = n - Len(fl) + i
    BY DEF WholeFiles
<1>3. PICK oldest \in 1..(n + 1) :
        /\ \A f \in 1..n : f >= oldest <=> In(f)
        /\ oldest > 1 => \A b \in Backups : Len(bk[b]) >= g_tel_max_size - 1
    BY DEF WholeFiles
<1> HIDE DEF g
<1>4. \A i \in 1..Len(g) : i \in 1..Len(fl) \/ i = Len(fl) + 1
    BY <1>1
<1>5. Len(g) <= n + 1 /\ \A i \in 1..Len(g) : g[i] = (n + 1) - Len(g) + i
  <2>1. ASSUME NEW i \in 1..Len(g) PROVE g[i] = (n + 1) - Len(g) + i
    <3>1. CASE i \in 1..Len(fl)
      <4>1. g[i] = n - Len(fl) + i
        BY <1>1, <1>2, <3>1
      <4>2. QED
        BY <1>1, <3>1, <4>1
    <3>2. CASE i = Len(fl) + 1
        BY <1>1, <3>2
    <3>3. QED
        BY <1>4, <3>1, <3>2
  <2>2. QED
    BY <1>1, <1>2, <2>1
<1>6. \A f \in 1..n : In(f) <=> Now(f)
  <2>1. SUFFICES ASSUME NEW f \in 1..n
                 PROVE  (\E i \in 1..Len(fl) : fl[i] = f) <=> (\E i \in 1..Len(g) : g[i] = f)
    OBVIOUS
  <2>2. \A i \in 1..Len(fl) : i \in 1..Len(g)
    BY <1>1
  <2>3. f # n + 1
    OBVIOUS
  <2>4. QED
    BY <1>1, <1>4, <2>2, <2>3
<1>7. Now(n + 1)
  <2>1. Len(fl) + 1 \in 1..Len(g)
    BY <1>1
  <2>2. QED
    BY <1>1, <2>1
<1> HIDE DEF In, Now
<1>8. \A f \in 1..(n + 1) : f >= oldest <=> Now(f)
  <2>1. SUFFICES ASSUME NEW f \in 1..(n + 1) PROVE f >= oldest <=> Now(f)
    OBVIOUS
  <2>2. CASE f \in 1..n
    BY <1>3, <1>6, <2>2
  <2>3. CASE f = n + 1
    BY <1>3, <1>7, <2>3
  <2>4. QED
    BY <2>2, <2>3
<1>9. oldest \in 1..((n + 1) + 1)
    BY <1>3
<1>10. QED
    BY <1>2, <1>3, <1>5, <1>8, <1>9 DEF WholeFiles, Now, g

(* A step that moves no frame.                                              *)
LEMMA QuietWhole ==
    ASSUME WholeInv, failures' = failures, UNCHANGED <<backups, file, cache, bytes, snapshot>>,
           Done' = Done, writer' = "writing" <=> writer = "writing",
           writer' = "again" => writer = "again", writer' # "exited" => writer # "exited" /\ open' = open
    PROVE  WholeInv'
<1>1. Solid' = Solid
    BY DEF Solid
<1>2. WholeFiles(backups, Solid, Done) => WholeFiles(backups, Solid, Done)'
    BY <1>1 DEF WholeFiles, Torn, Backups
<1>3. SnapshotWhole => SnapshotWhole'
    BY DEF SnapshotWhole, NoSnap, Torn
<1>4. QED
    BY <1>1, <1>2, <1>3 DEF WholeInv

(* A rotation in which nothing fails moves every file on by one.            *)
LEMMA CleanRotation ==
    ASSUME TelTypes, NEW f, NEW n \in Nat, failures = 0, failures' = 0, RotateAnyhow(f, n)
    PROVE  /\ n = 0 /\ backups' = [b \in Backups |-> IF b = 1 THEN f ELSE backups[b - 1]]
           /\ file' = <<>> /\ cache' = <<>> /\ bytes' = 0 /\ open' = TRUE
<1>1. PICK k \in Stuck, a \in BOOLEAN, c \in BOOLEAN :
        /\ Failing(n + Cost(k = 0 \/ g_tel_max_backups = 0) + Cost(a) + Cost(c)) /\ Rotate(f, k, a, c)
    BY DEF RotateAnyhow
<1>2. /\ Cost(k = 0 \/ g_tel_max_backups = 0) \in Nat /\ Cost(a) \in Nat /\ Cost(c) \in Nat
    BY DEF Cost
<1>3. failures' = failures + (n + Cost(k = 0 \/ g_tel_max_backups = 0) + Cost(a) + Cost(c))
    BY <1>1 DEF Failing
<1>4. n = 0 /\ Cost(k = 0 \/ g_tel_max_backups = 0) = 0 /\ Cost(a) = 0 /\ Cost(c) = 0
    BY <1>2, <1>3
<1>5. a = TRUE /\ c = TRUE /\ (k = 0 \/ g_tel_max_backups = 0)
    BY <1>4 DEF Cost
<1>6. /\ backups' = Shifted(f, k, TRUE)
      /\ file' = <<>> /\ cache' = <<>> /\ bytes' = 0 /\ open' = TRUE
    BY <1>1, <1>5 DEF Rotate
<1>7. Shifted(f, k, TRUE) = [b \in Backups |-> IF b = 1 THEN f ELSE backups[b - 1]]
  <2>1. CASE k = 0
    <3>1. \A b \in Backups : (b # k /\ b # k + 1) \/ b = 1
        BY <2>1, TelAssumption DEF Backups, NumBackups
    <3>2. QED
        BY <3>1 DEF Shifted
  <2>2. CASE g_tel_max_backups = 0
    <3>1. \A b \in Backups : b = 1
        BY <2>2 DEF Backups, NumBackups
    <3>2. QED
        BY <3>1 DEF Shifted
  <2>3. QED
    BY <1>5, <2>1, <2>2
<1>8. QED
    BY <1>4, <1>6, <1>7

(* The writer keeps the log whole.                                          *)
LEMMA WriterWhole ==
    ASSUME TelTypes, OrderInv, WholeInv, OrderInv', WriterLock \/ WriterBegin \/ WriterEnd \/ WriterAgain,
           UNCHANGED snapshot
    PROVE  WholeInv'
<1>1. SUFFICES ASSUME failures' = 0 PROVE WholeInv'
    BY DEF WholeInv
<1>2. failures = 0 /\ ~Fails /\ failures' = failures /\ \A f : ~RotateAnyhow(f, 1)
  <2>1. Fails \/ Works \/ \E f, n : n \in {0, 1} /\ RotateAnyhow(f, n)
    BY DEF WriterLock, WriterBegin, WriterEnd, Written, Buffered, WriterAgain, Works
  <2>2. \A f, n : n \in {0, 1} /\ RotateAnyhow(f, n) => failures + n <= failures'
    BY RotateFailures
  <2>3. QED
    BY <1>1, <2>1, <2>2 DEF Fails, Failing, Works, TelTypes
<1>3. /\ cache = <<>> /\ writer # "again" /\ (writer # "exited" => open)
      /\ writer = "writing" => file = Append(Solid, Torn)
      /\ bytes = Len(Solid) /\ WholeFiles(backups, Solid, Done) /\ SnapshotWhole
    BY <1>2 DEF WholeInv
<1>4. SnapshotWhole'
    BY <1>2, <1>3 DEF SnapshotWhole, NoSnap, Torn
<1>5. ASSUME cache' = <<>>, writer' \notin {"again", "exited"}, open', bytes' = Len(Solid'),
             writer' = "writing" => file' = Append(Solid', Torn),
             WholeFiles(backups', Solid', Done')
      PROVE  WholeInv'
  <2>1. WholeFiles(backups, Solid, Done)'
    BY <1>5 DEF WholeFiles, Torn, Backups
  <2>2. QED
    BY <1>4, <1>5, <2>1 DEF WholeInv
<1>6. CASE WriterLock
  <2>1. UNCHANGED <<queue, accepted, slot>> /\ writer = "have" /\ writer' = "locked"
    BY <1>6 DEF WriterLock, queueVars
  <2>2. Solid = file /\ Solid' = file' /\ Done' = Done /\ open
    BY <1>3, <2>1 DEF Solid, Done, Busy
  <2>3. \/ UNCHANGED <<backups, file, cache, bytes, open>>
        \/ RotateAnyhow(file \o cache, 0) /\ bytes + 1 >= g_tel_max_size
    BY <1>2, <1>6 DEF WriterLock, fileVars
  <2>4. CASE UNCHANGED <<backups, file, cache, bytes, open>>
    BY <1>3, <1>5, <2>1, <2>2, <2>4
  <2>5. CASE RotateAnyhow(file \o cache, 0) /\ bytes + 1 >= g_tel_max_size
    <3>1. file \o cache = file /\ <<>> \in Seq(Nat)
        BY <1>3, FileTypes, JoinFacts
    <3>2. /\ backups' = [b \in Backups |-> IF b = 1 THEN file ELSE backups[b - 1]]
          /\ file' = <<>> /\ cache' = <<>> /\ bytes' = 0 /\ open'
        BY <1>2, <2>5, <3>1, CleanRotation
    <3>3. Len(file) >= g_tel_max_size - 1
        BY <1>3, <2>2, <2>5, TelAssumption, FileTypes, AppendFacts
    <3>4. SortedFiles(backups, file, <<>>, Done)
        BY <1>3 DEF OrderInv
    <3>5. WholeFiles(backups', <<>>, Done)
        BY <1>3, <2>2, <3>2, <3>3, <3>4, FileTypes, ShiftWhole
    <3>6. Len(<<>>) = 0
        OBVIOUS
    <3>7. QED
        BY <1>5, <2>1, <2>2, <3>2, <3>5, <3>6
  <2>6. QED
    BY <2>3, <2>4, <2>5
<1>7. CASE WriterBegin
  <2>1. /\ UNCHANGED <<queue, accepted, slot, cache, backups, bytes, open>> /\ writer = "locked" /\ open
        /\ writer' = "writing" /\ file' = Append(file, Torn)
    BY <1>3, <1>7 DEF WriterBegin, queueVars
  <2>2. Solid' = file /\ Solid = file /\ Done' = Done
    BY <2>1, FileTypes, FrontFacts DEF Solid, Done, Busy, Torn
  <2>3. QED
    BY <1>3, <1>5, <2>1, <2>2
<1>8. CASE WriterEnd
  <2>1. Written /\ writer = "writing" /\ UNCHANGED <<queue, accepted, slot>>
    <3>1. Written \/ Fails \/ \E f : RotateAnyhow(f, 1)
        BY <1>8 DEF WriterEnd, Buffered
    <3>2. QED
        BY <1>2, <1>8, <3>1 DEF WriterEnd, queueVars
  <2>2. writer' = "wait" /\ open' = open /\ open /\ bytes' = bytes + 1 /\ cache' = <<>> /\ backups' = backups
    BY <1>3, <2>1 DEF Written
  <2>3. slot = Done + 1 /\ Done' = Done + 1 /\ Done \in Nat
    <3>1. Busy /\ ~Busy'
        BY <2>1, <2>2 DEF Busy
    <3>2. Len(accepted) \in Nat /\ Len(queue) \in Nat
        BY DEF TelTypes
    <3>3. QED
        BY <2>1, <3>1, <3>2 DEF Done, OrderInv, Numbered
  <2>4. Solid = Front(file) /\ Solid \in Seq(Nat) /\ Solid' = file'
    BY <2>1, <2>2, FileTypes DEF Solid
  <2>5. file' = Append(Solid, Done + 1)
    <3>1. file' = Solid \o Append(<<>>, Done + 1)
        BY <1>3, <2>1, <2>3, <2>4 DEF Written
    <3>2. \A q \in Seq(Nat), k \in Nat : q \o Append(<<>>, k) = Append(q, k)
        OBVIOUS
    <3>3. QED
        BY <2>3, <2>4, <3>1, <3>2
  <2>6. WholeFiles(backups, Append(Solid, Done + 1), Done + 1)
    BY <1>3, <2>3, <2>4, FileTypes, GrowWhole
  <2>7. Len(file') = Len(Solid) + 1
    BY <2>4, <2>5, AppendFacts
  <2>8. QED
    BY <1>3, <1>5, <2>2, <2>3, <2>4, <2>5, <2>6, <2>7
<1>9. CASE WriterAgain
    BY <1>3, <1>9 DEF WriterAgain
<1>10. QED
    BY <1>6, <1>7, <1>8, <1>9

(* The snapshot copies a file that is whole, and leaves it so.              *)
LEMMA SnapshotStep ==
    ASSUME TelTypes, UploadTypes, OrderInv, WholeInv, NEW s \in Serials, TelemetrySnapshot(s)
    PROVE  WholeInv'
<1>1. SUFFICES ASSUME failures' = 0 PROVE WholeInv'
    BY DEF WholeInv
<1>2. UNCHANGED <<queue, accepted, writer, slot, backups, bytes, open>>
    BY SnapshotCases
<1>3. /\ ~file_locked
      /\ (file' = file /\ cache' = cache) \/ (file' = file \o cache /\ cache' = <<>>)
      /\ snapshot' = snapshot \/ snapshot' = [snapshot EXCEPT ![s] = file']
    BY SnapshotCases
<1>4. failures = 0 /\ failures' = failures
    BY <1>1, SnapshotCases DEF TelTypes
<1>5. Done' = Done
    BY <1>2 DEF Done, Busy
<1>6. /\ cache = <<>> /\ writer # "again" /\ (writer # "exited" => open)
      /\ bytes = Len(Solid) /\ WholeFiles(backups, Solid, Done) /\ SnapshotWhole
    BY <1>4 DEF WholeInv
<1>a. file' = file /\ cache' = cache /\ writer # "writing" /\ Solid = file /\ Solid' = file
    BY <1>2, <1>3, <1>6, FileTypes, JoinFacts DEF file_locked, Solid
<1>b. CASE snapshot' = snapshot
    BY <1>2, <1>4, <1>5, <1>a, <1>b, QuietWhole
<1>7. CASE snapshot' = [snapshot EXCEPT ![s] = file']
  <2>3. Len(file) <= Done /\ \A i \in 1..Len(file) : file[i] = Done - Len(file) + i
    BY <1>6, <1>a DEF WholeFiles
  <2>4. Len(file) \in Nat /\ DOMAIN file = 1..Len(file) /\ Done \in Nat
    BY FileTypes
  <2>5. \A i \in DOMAIN file : file[i] = file[1] + i - 1 /\ file[i] # Torn
    BY <2>3, <2>4 DEF Torn
  <2>6. \A t \in Serials : snapshot'[t] = IF t = s THEN file ELSE snapshot[t]
    BY <1>7, <1>a DEF UploadTypes
  <2>7. SnapshotWhole'
    <3>1. SUFFICES ASSUME NEW t \in Serials, snapshot'[t] # NoSnap
                   PROVE  \A i \in DOMAIN snapshot'[t] :
                            snapshot'[t][i] = snapshot'[t][1] + i - 1 /\ snapshot'[t][i] # Torn
        BY DEF SnapshotWhole, NoSnap, Torn
    <3>2. CASE t = s
        BY <2>5, <2>6, <3>2
    <3>3. CASE t # s
        BY <1>4, <1>6, <2>6, <3>1, <3>3 DEF SnapshotWhole
    <3>4. QED
        BY <3>2, <3>3
  <2>8. WholeFiles(backups, Solid, Done)'
    <3>1. backups' = backups /\ Solid' = Solid /\ Done' = Done /\ WholeFiles(backups, Solid, Done)
        BY <1>2, <1>5, <1>6, <1>a
    <3>2. QED
        BY ONLY <3>1 DEF WholeFiles, Torn, Backups
  <2>9. QED
    BY <1>2, <1>6, <1>a, <2>7, <2>8 DEF WholeInv
<1>8. QED
    BY <1>3, <1>b, <1>7

(* At the start the log is what earlier runs left behind.                   *)
LEMMA StartWhole ==
    ASSUME LogInit
    PROVE  OrderInv /\ WholeInv
<1>1. PICK log \in OldLogs :
        LET full    == g_tel_max_size - 1
            old     == [j \in Backups |-> IF j > log[1] THEN <<>>
                            ELSE [k \in 1..full |-> (log[1] - j) * full + k]]
            current == [k \in 1..log[2] |-> log[1] * full + k]
        IN
        /\ accepted = [k \in 1 .. log[1] * full + log[2] |-> k]
        /\ IF log[2] >= g_tel_max_size
           THEN /\ file = <<>> /\ bytes = 0
                /\ backups = [j \in Backups |-> IF j = 1 THEN current ELSE old[j - 1]]
           ELSE file = current /\ bytes = log[2] /\ backups = old
    BY DEF LogInit, TelInit
<1> DEFINE F       == g_tel_max_size - 1
           L       == log[1]
           c       == log[2]
           old     == OldBackups(L, F)
           current == OldFile(L, F, c)
           n       == L * F + c
<1>2. /\ cache = <<>> /\ open /\ queue = <<>> /\ writer = "wait"
      /\ snapshot = [s \in Serials |-> NoSnap]
    BY DEF LogInit, TelInit, UpInit
<1>3. L \in 0..NumBackups /\ c \in Nat
    BY TelAssumption
<1>4. /\ accepted = [k \in 1..n |-> k]
      /\ \/ /\ c >= g_tel_max_size /\ file = <<>> /\ bytes = 0
            /\ backups = [j \in Backups |-> IF j = 1 THEN current ELSE old[j - 1]]
         \/ file = current /\ bytes = c /\ backups = old
    BY <1>1 DEF OldBackups, OldFile
<1>5. /\ old \in [Backups -> Seq(Nat)] /\ current \in Seq(Nat) /\ Len(current) = c /\ n \in Nat
      /\ SortedFiles(old, current, <<>>, n) /\ WholeFiles(old, current, n)
  <2>1. F = g_tel_max_size - 1 /\ old = OldBackups(L, F) /\ current = OldFile(L, F, c) /\ n = L * F + c
    OBVIOUS
  <2> HIDE DEF L, c, old, current, n, F
  <2>2. QED
    BY <1>3, <2>1, OldWhole, ZenonT(40)
<1> HIDE DEF L, c, old, current, n
<1>6. SortedFiles(backups, file, <<>>, n) /\ WholeFiles(backups, file, n) /\ bytes = Len(file)
  <2>1. CASE file = current /\ bytes = c /\ backups = old
    BY <1>5, <2>1
  <2>2. CASE /\ c >= g_tel_max_size /\ file = <<>> /\ bytes = 0
             /\ backups = [j \in Backups |-> IF j = 1 THEN current ELSE old[j - 1]]
    <3>1. Len(current) >= g_tel_max_size - 1 /\ Len(<<>>) = 0
        BY <1>3, <1>5, <2>2, TelAssumption
    <3>2. WholeFiles(backups, <<>>, n)
        BY <1>5, <2>2, <3>1, ShiftWhole
    <3>a. \A j \in Backups : ~(j = 0) /\ (j = 1 \/ ~(j = 1 \/ j = 0 + 1))
        BY DEF Backups
    <3>3. backups = [b \in Backups |->
                        IF b = 1 /\ TRUE THEN current
                        ELSE IF b = 0 /\ (b = 1 \/ old[b - 1] = <<>>) THEN old[b]
                        ELSE IF b = 1 \/ b = 0 + 1 THEN <<>>
                        ELSE old[b - 1]]
        BY <2>2, <3>a
    <3>4. SortedFiles(backups, IF TRUE THEN <<>> ELSE current, <<>>, n)
      <4>1. 0 \in Nat /\ TRUE \in BOOLEAN
        OBVIOUS
      <4>2. QED
        BY <1>5, <3>3, <4>1, ShiftSorted, ZenonT(30)
    <3>5. QED
        BY <2>2, <3>1, <3>2, <3>4
  <2>3. QED
    BY <1>4, <2>1, <2>2
<1>7. Len(accepted) = n /\ Len(queue) = 0
    BY <1>2, <1>4, <1>5
<1>8. Done = n /\ ~Busy
    BY <1>2, <1>5, <1>7 DEF Done, Busy
<1>9. OrderInv
  <2>1. Numbered
    BY <1>5, <1>7, <1>8 DEF Numbered
  <2>2. QED
    BY <1>2, <1>6, <1>8, <2>1 DEF OrderInv
<1>10. Solid = file
    BY <1>2 DEF Solid
<1>11. SnapshotWhole
    BY <1>2 DEF SnapshotWhole
<1>12. WholeInv
    BY <1>2, <1>6, <1>8, <1>10, <1>11 DEF WholeInv
<1>13. QED
    BY <1>9, <1>12

(* Every step keeps the log whole while no file operation fails.            *)
LEMMA WholeStep ==
    ASSUME TelTypes, UploadTypes, OrderInv, WholeInv, OrderInv', [LogNext]_logVars
    PROVE  WholeInv'
<1>1. CASE TelNext /\ UNCHANGED upVars
  <2>0. UNCHANGED snapshot
    BY <1>1 DEF upVars
  <2>1. CASE PollSend \/ PollSent \/ PollExit \/ WriterSleep \/ WriterExit \/ DestroyStop \/ JoinPoll
    <3>1. /\ UNCHANGED <<queue, accepted, backups, file, cache, bytes, open, failures>> /\ (Busy' <=> Busy)
          /\ (writer' = "writing" <=> writer = "writing") /\ (writer' = "again" => writer = "again")
          /\ (writer' # "exited" => writer # "exited")
        BY <2>1 DEF PollSend, PollSent, PollExit, WriterSleep, WriterExit, DestroyStop, JoinPoll, Signal,
                    queueVars, fileVars, Busy
    <3>2. Done' = Done
        BY <3>1 DEF Done
    <3>3. QED
        BY <2>0, <3>1, <3>2, QuietWhole
  <2>2. CASE OnFrame \/ WriterTake
    <3>1. Done' = Done
        BY <2>2, FrameOrder, TakeOrder
    <3>2. /\ UNCHANGED <<backups, file, cache, bytes, open, failures>>
          /\ (writer' = "writing" <=> writer = "writing") /\ (writer' = "again" => writer = "again")
          /\ (writer' # "exited" => writer # "exited")
        BY <2>2 DEF OnFrame, WriterTake, Signal, fileVars
    <3>3. QED
        BY <2>0, <3>1, <3>2, QuietWhole
  <2>3. CASE JoinWriter
    <3>1. /\ UNCHANGED <<queue, accepted, backups, bytes, failures, writer>> /\ writer = "exited"
          /\ file' = file \o cache /\ cache' = <<>>
        BY <2>3 DEF JoinWriter, queueVars
    <3>2. Done' = Done
        BY <3>1 DEF Done, Busy
    <3>3. SUFFICES ASSUME failures = 0 PROVE WholeInv'
        BY <3>1 DEF WholeInv
    <3>4. cache = <<>>
        BY <3>3 DEF WholeInv
    <3>5. file' = file /\ cache' = cache
        BY <3>1, <3>4, FileTypes, JoinFacts
    <3>6. QED
        BY <2>0, <3>1, <3>2, <3>5, QuietWhole
  <2>4. QED
    BY <1>1, <2>0, <2>1, <2>2, <2>3, WriterWhole DEF TelNext
<1>2. ASSUME UNCHANGED <<telVars, snapshot>> PROVE WholeInv'
    BY <1>2, QuietWhole DEF telVars, Done, Busy
<1>3. CASE Shutdown
  <2>1. /\ UNCHANGED <<queue, accepted, backups, file, cache, bytes, open, failures, snapshot, writer>>
    BY <1>3 DEF Shutdown, UploadDestroy, TcpDestroy, queueVars, fileVars, upVars
  <2>2. Done' = Done
    BY <2>1 DEF Done, Busy
  <2>3. QED
    BY <2>1, <2>2, QuietWhole
<1>4. CreateThread \/ CreateFails \/ ReportFailed => UNCHANGED <<telVars, snapshot>>
    BY DEF CreateThread, CreateFails, ReportFailed
<1>5. \A s \in Serials : Request(s) => UNCHANGED <<telVars, snapshot>>
    BY DEF Request, RejectBusy, RejectInvalid, Reject, AcceptRequest
<1>6. \A s \in Serials : UploadThread(s) /\ ~TelemetrySnapshot(s) => UNCHANGED <<telVars, snapshot>>
    BY DEF UploadThread, CopyText, StatTelemetry, PackAndUpload, CheckStopping, SendResult, ReopenGate
<1>7. UNCHANGED logVars => UNCHANGED <<telVars, snapshot>>
    BY DEF logVars, upVars
<1>8. QED
    BY <1>1, <1>2, <1>3, <1>4, <1>5, <1>6, <1>7, SnapshotStep DEF LogNext

(* The inductive invariant of the telemetry log.                            *)
LogInv == OrderInv /\ WholeInv

(* In every reachable state the frames are in order on disk and, while no   *)
(* file operation has failed, none is missing between the oldest and the    *)
(* newest (write_frame_to_file and rotate_if_needed).                       *)
THEOREM LogInvTheorem == LogSpec => []LogInv
<1>1. LogInit => LogInv
    BY StartWhole DEF LogInv
<1>2. UploadInv /\ LogInv /\ [LogNext]_logVars => LogInv'
    BY OrderInvStep, WholeStep DEF UploadInv, LogInv
<1>3. QED
    BY <1>1, <1>2, UploadInvTheorem, PTL DEF LogSpec

(* A package never holds a torn frame or a gap while no file operation      *)
(* fails, although the writer goes on while the upload thread copies.       *)
THEOREM SnapshotWholeTheorem == LogSpec => []SnapshotWhole
<1>1. LogInv => SnapshotWhole
    BY DEF LogInv, WholeInv, SnapshotWhole
<1>2. QED
    BY <1>1, LogInvTheorem, PTL

(* The pieces of the log, one by one.                                       *)
LEMMA PieceCases ==
    ASSUME NEW k \in Pieces
    PROVE  \/ k \in Backups /\ NumBackups + 1 - k \in Backups
              /\ Piece(k) = backups[NumBackups + 1 - k]
           \/ k = NumBackups + 1 /\ Piece(k) = file
           \/ k = NumBackups + 2 /\ Piece(k) = cache
           \/ k = NumBackups + 3 /\ Piece(k) = InHand
           \/ k = NumBackups + 4 /\ Piece(k) = queue
<1>1. CASE k \in Backups
    BY <1>1, TelAssumption, BackupsCounted DEF Piece, Backups
<1>2. CASE k \notin Backups
  <2>1. k - NumBackups \in 1..4 /\ Piece(k) = <<file, cache, InHand, queue>>[k - NumBackups]
    BY <1>2, TelAssumption, BackupsCounted DEF Pieces, Piece, Backups
  <2>2. QED
    BY <2>1, BackupsCounted DEF Pieces
<1>3. QED
    BY <1>1, <1>2

(* A frame is kept where it is in a piece.                                  *)
LEMMA KeptMember ==
    ASSUME NEW f
    PROVE  f \in Kept <=> f # Torn /\ \E k \in Pieces : \E i \in DOMAIN Piece(k) : Piece(k)[i] = f
<1>1. f \in Kept <=> f # Torn /\ \E k \in Pieces : f \in Range(Piece(k))
    BY DEF Kept
<1>2. \A k \in Pieces : f \in Range(Piece(k)) <=> \E i \in DOMAIN Piece(k) : Piece(k)[i] = f
    BY DEF Range
<1>3. QED
    BY <1>1, <1>2, Zenon

(* Frames are in order across the pieces, none is in two places, and while  *)
(* nothing fails the log is whole.                                          *)
LEMMA LogInvKeepsFrames ==
    ASSUME TelTypes, LogInv
    PROVE  LogKeepsFrames
<1> DEFINE N == NumBackups
<1>0. /\ N \in Nat /\ N >= 1 /\ Done \in Nat /\ Len(accepted) \in Nat /\ Len(queue) \in Nat
      /\ \A b \in Backups : b \in Int /\ b >= 1 /\ b <= N /\ backups[b] \in Seq(Nat)
      /\ \A k \in Pieces : k \in Int
    BY TelAssumption, BackupsCounted, FileTypes DEF TelTypes, LogInv, Backups, Pieces
<1>1. /\ Rising(file) /\ Rising(cache) /\ Before(file, cache) /\ Below(file, Done) /\ Below(cache, Done)
      /\ \A b \in Backups : /\ Rising(backups[b]) /\ Below(backups[b], Done)
                            /\ Before(backups[b], file) /\ Before(backups[b], cache)
      /\ \A b, c \in Backups : b < c => Before(backups[c], backups[b])
    BY DEF LogInv, OrderInv, SortedFiles
<1>2. /\ \A i \in 1..Len(queue) : queue[i] = Len(accepted) - Len(queue) + i
      /\ Busy => slot = Done + 1 /\ Done = Len(accepted) - Len(queue) - 1
      /\ ~Busy => Done = Len(accepted) - Len(queue)
    BY <1>0 DEF LogInv, OrderInv, Numbered, Done
<1>3. /\ Busy => Len(InHand) = 1 /\ InHand[1] = Done + 1
      /\ ~Busy => Len(InHand) = 0
  <2>1. CASE Busy
    BY <1>0, <1>2, <2>1, FileTypes DEF InHand, Busy, LogInv
  <2>2. CASE ~Busy
    BY <2>2 DEF InHand, Busy
  <2>3. QED
    BY <2>1, <2>2
<1>3a. Len(InHand) \in Nat /\ \A i \in 1..Len(InHand) : Busy /\ i = 1 /\ InHand[i] = Done + 1
  <2>1. CASE Busy
    BY <1>3, <2>1
  <2>2. CASE ~Busy
    BY <1>3, <2>2
  <2>3. QED
    BY <2>1, <2>2
<1>4. Rising(queue) /\ Rising(InHand) /\ Before(InHand, queue)
  <2>1. Rising(queue)
    BY <1>0, <1>2 DEF Rising
  <2>2. Rising(InHand)
    BY <1>3a DEF Rising
  <2>3. Before(InHand, queue)
    BY <1>0, <1>2, <1>3a DEF Before
  <2>4. QED
    BY <2>1, <2>2, <2>3
<1>5. ASSUME NEW q \in Seq(Nat), Below(q, Done) PROVE Before(q, InHand) /\ Before(q, queue)
  <2>1. \A i \in 1..Len(q) : q[i] \in Nat /\ q[i] <= Done
    BY <1>5, ElemNat DEF Below
  <2>2. \A j \in 1..Len(InHand) : InHand[j] = Done + 1
    BY <1>3a
  <2>3. \A j \in 1..Len(queue) : queue[j] \in Int /\ queue[j] > Done
    BY <1>0, <1>2
  <2>4. \A i \in 1..Len(q), j \in 1..Len(InHand) : q[i] < InHand[j]
    BY <1>0, <2>1, <2>2
  <2>5. \A i \in 1..Len(q), j \in 1..Len(queue) : q[i] < queue[j]
    BY <1>0, <2>1, <2>3
  <2>6. QED
    BY <2>4, <2>5 DEF Before
<1>6. /\ file \in Seq(Nat) /\ cache \in Seq(Nat) /\ queue \in Seq(Nat) /\ InHand \in Seq(Nat)
  <2>1. InHand \in Seq(Nat)
    BY FileTypes DEF InHand, LogInv
  <2>2. QED
    BY <2>1 DEF TelTypes
<1>7. \A k \in Pieces : Rising(Piece(k)) /\ DOMAIN Piece(k) = 1..Len(Piece(k))
  <2>1. SUFFICES ASSUME NEW k \in Pieces PROVE Rising(Piece(k)) /\ Piece(k) \in Seq(Nat)
    OBVIOUS
  <2>2. QED
    BY <1>0, <1>1, <1>4, <1>6, PieceCases
<1>8. \A k, l \in Pieces : k < l => Before(Piece(k), Piece(l))
  <2>1. SUFFICES ASSUME NEW k \in Pieces, NEW l \in Pieces, k < l PROVE Before(Piece(k), Piece(l))
    OBVIOUS
  <2>2. CASE l \in Backups
    <3>1. k \in Backups
        BY <1>0, <2>1, <2>2 DEF Pieces, Backups
    <3>2. /\ Piece(k) = backups[N + 1 - k] /\ Piece(l) = backups[N + 1 - l]
          /\ N + 1 - k \in Backups /\ N + 1 - l \in Backups /\ N + 1 - l < N + 1 - k
        BY <1>0, <2>1, <2>2, <3>1, PieceCases, SMTT(30)
    <3>3. QED
        BY <1>1, <3>2
  <2>3. CASE l \notin Backups /\ k \in Backups
    <3>1. Piece(k) = backups[N + 1 - k] /\ N + 1 - k \in Backups
        BY <1>0, <2>3, PieceCases
    <3>2. Piece(l) \in {file, cache, InHand, queue}
        BY <2>3, PieceCases
    <3>3. QED
        BY <1>0, <1>1, <1>5, <3>1, <3>2
  <2>4. CASE l \notin Backups /\ k \notin Backups
    <3>1. \/ Piece(k) = file /\ Piece(l) \in {cache, InHand, queue}
          \/ Piece(k) = cache /\ Piece(l) \in {InHand, queue}
          \/ Piece(k) = InHand /\ Piece(l) = queue
        BY <1>0, <2>1, <2>4, PieceCases
    <3>2. QED
        BY <1>1, <1>4, <1>5, <1>6, <3>1
  <2>5. QED
    BY <1>0, <2>1, <2>2, <2>3, <2>4
<1>9. \A k, l \in Pieces : \A i \in DOMAIN Piece(k), j \in DOMAIN Piece(l) :
            /\ k < l \/ (k = l /\ i < j)
            /\ Piece(k)[i] # Torn /\ Piece(l)[j] # Torn
            => Piece(k)[i] < Piece(l)[j]
    BY <1>7, <1>8 DEF Rising, Before
<1>10. ASSUME failures = 0
       PROVE  \E oldest \in 1..(Len(accepted) + 1) :
                /\ Kept = oldest..Len(accepted)
                /\ oldest > 1 => \A b \in Backups : Len(backups[b]) >= g_tel_max_size - 1
  <2>1. /\ cache = <<>> /\ (writer = "writing" => file = Append(Solid, Torn))
        /\ WholeFiles(backups, Solid, Done) /\ Solid \in Seq(Nat)
    BY <1>10, FileTypes DEF LogInv, WholeInv, Solid
  <2> DEFINE OnFile(f) == \/ \E i \in 1..Len(Solid) : Solid[i] = f
                          \/ \E b \in Backups : \E i \in 1..Len(backups[b]) : backups[b][i] = f
  <2>2. PICK oldest \in 1..(Done + 1) :
            /\ \A f \in 1..Done : f >= oldest <=> OnFile(f)
            /\ oldest > 1 => \A b \in Backups : Len(backups[b]) >= g_tel_max_size - 1
    BY <2>1 DEF WholeFiles
  <2>3. \A f \in Nat : f # Torn =>
            ((\E i \in 1..Len(Solid) : Solid[i] = f) <=> (\E i \in 1..Len(file) : file[i] = f))
    <3>1. CASE writer # "writing"
        BY <3>1 DEF Solid
    <3>2. CASE writer = "writing"
      <4>1. /\ Len(Solid) \in Nat /\ Len(file) = Len(Solid) + 1 /\ file[Len(Solid) + 1] = Torn
            /\ \A i \in 1..Len(Solid) : file[i] = Solid[i]
        BY <2>1, <3>2, AppendFacts
      <4>2. \A i \in 1..Len(file) : i \in 1..Len(Solid) \/ i = Len(Solid) + 1
        BY <4>1
      <4>3. \A i \in 1..Len(Solid) : i \in 1..Len(file)
        BY <4>1
      <4>4. QED
        BY <4>1, <4>2, <4>3
    <3>3. QED
        BY <3>1, <3>2
  <2>4. Kept \subseteq oldest..Len(accepted)
    <3>1. SUFFICES ASSUME NEW k \in Pieces, NEW i \in 1..Len(Piece(k)), Piece(k)[i] # Torn
                   PROVE  Piece(k)[i] \in oldest..Len(accepted)
        BY <1>7, KeptMember
    <3>2. CASE Piece(k) = InHand
        BY <1>0, <1>2, <1>3a, <2>2, <3>1, <3>2
    <3>3. CASE Piece(k) = queue
        BY <1>0, <1>2, <2>2, <3>1, <3>3
    <3>4. CASE Piece(k) = cache
        BY <2>1, <3>1, <3>4
    <3>5. CASE Piece(k) = file
      <4>1. file[i] \in Nat /\ file[i] # Torn /\ file[i] <= Done
        BY <1>1, <1>6, <3>1, <3>5 DEF Below
      <4>2. OnFile(file[i])
        BY <2>3, <3>1, <3>5, <4>1
      <4>3. file[i] \in 1..Done
        BY <1>0, <4>1 DEF Torn
      <4>4. file[i] >= oldest
        BY <2>2, <4>2, <4>3
      <4>5. QED
        BY <1>0, <1>2, <2>2, <3>5, <4>3, <4>4
    <3>6. ASSUME NEW b \in Backups, Piece(k) = backups[b] PROVE Piece(k)[i] \in oldest..Len(accepted)
      <4>1. backups[b][i] \in Nat /\ backups[b][i] # Torn /\ backups[b][i] <= Done
        BY <1>0, <1>1, <3>1, <3>6, SMTT(30) DEF Below
      <4>2. OnFile(backups[b][i])
        BY <3>1, <3>6
      <4>3. backups[b][i] \in 1..Done
        BY <1>0, <4>1, SMTT(30) DEF Torn
      <4>4. backups[b][i] >= oldest
        BY <2>2, <4>2, <4>3
      <4>5. QED
        BY <1>0, <1>2, <2>2, <3>6, <4>3, <4>4, SMTT(30)
    <3>7. QED
        BY <3>2, <3>3, <3>4, <3>5, <3>6, PieceCases
  <2>5. /\ \A b \in Backups : N + 1 - b \in Pieces /\ Piece(N + 1 - b) = backups[b]
        /\ N + 1 \in Pieces /\ Piece(N + 1) = file
        /\ N + 3 \in Pieces /\ Piece(N + 3) = InHand
        /\ N + 4 \in Pieces /\ Piece(N + 4) = queue
    <3>1. ASSUME NEW b \in Backups PROVE N + 1 - b \in Pieces /\ Piece(N + 1 - b) = backups[b]
      <4>1. N + 1 - b \in Backups /\ N + 1 - b \in Pieces /\ N + 1 - (N + 1 - b) = b
        BY <1>0 DEF Backups, Pieces
      <4>2. QED
        BY <4>1 DEF Piece
    <3>2. /\ N + 1 \in Pieces /\ N + 3 \in Pieces /\ N + 4 \in Pieces
          /\ N + 1 \notin Backups /\ N + 3 \notin Backups /\ N + 4 \notin Backups
          /\ (N + 1) - N = 1 /\ (N + 3) - N = 3 /\ (N + 4) - N = 4
        BY <1>0 DEF Backups, Pieces
    <3>3. QED
        BY <3>1, <3>2 DEF Piece
  <2>6. oldest..Len(accepted) \subseteq Kept
    <3>1. SUFFICES ASSUME NEW f \in oldest..Len(accepted)
                   PROVE  \E k \in Pieces : \E i \in 1..Len(Piece(k)) : Piece(k)[i] = f
      <4>1. \A g \in oldest..Len(accepted) : g # Torn
        BY <2>2 DEF Torn
      <4>2. QED
        BY <1>7, <4>1, KeptMember
    <3>2. f \in Nat /\ f >= 1
        BY <1>0, <2>2
    <3>3. CASE f <= Done
      <4>1. OnFile(f)
        BY <1>0, <2>2, <3>2, <3>3
      <4>2. CASE \E i \in 1..Len(Solid) : Solid[i] = f
        <5>1. \E i \in 1..Len(file) : file[i] = f
            BY <2>3, <3>2, <4>2 DEF Torn
        <5>2. QED
            BY <2>5, <5>1
      <4>3. ASSUME NEW b \in Backups, NEW i \in 1..Len(backups[b]), backups[b][i] = f
            PROVE  \E k \in Pieces : \E j \in 1..Len(Piece(k)) : Piece(k)[j] = f
            BY <2>5, <4>3
      <4>4. QED
        BY <4>1, <4>2, <4>3
    <3>4. CASE f > Len(accepted) - Len(queue)
      <4>1. f - (Len(accepted) - Len(queue)) \in 1..Len(queue)
        BY <1>0, <3>1, <3>2, <3>4
      <4>2. queue[f - (Len(accepted) - Len(queue))] = f
        BY <1>0, <1>2, <3>2, <4>1
      <4>3. QED
        BY <2>5, <4>1, <4>2
    <3>5. CASE f > Done /\ f <= Len(accepted) - Len(queue)
      <4>1. Busy /\ f = Done + 1
        BY <1>0, <1>2, <3>2, <3>5
      <4>2. 1 \in 1..Len(InHand) /\ InHand[1] = f
        BY <1>3, <4>1
      <4>3. QED
        BY <2>5, <4>2
    <3>6. QED
        BY <1>0, <3>2, <3>3, <3>4, <3>5
  <2>7. Kept = oldest..Len(accepted)
    BY <2>4, <2>6
  <2>8. oldest \in 1..(Len(accepted) + 1)
    BY <1>0, <1>2, <2>2
  <2>9. QED
    BY <2>2, <2>7, <2>8
<1>11. QED
    BY <1>9, <1>10 DEF LogKeepsFrames

(* Frames are never reordered or written twice, whatever fails; and while   *)
(* no file operation fails, none is lost but with the oldest of the full    *)
(* backups.                                                                 *)
THEOREM LogKeepsFramesTheorem == LogSpec => []LogKeepsFrames
<1>1. UploadInv /\ LogInv => LogKeepsFrames
    BY LogInvKeepsFrames DEF UploadInv
<1>2. QED
    BY <1>1, UploadInvTheorem, LogInvTheorem, PTL

====
