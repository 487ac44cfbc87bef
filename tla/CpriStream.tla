---------- MODULE CpriStream ----------
(***************************************************************************)
(* How CPRI messages are cut out of the TCP byte stream: tcp_recv_thread   *)
(* (tcp_client.c) reads at most RECV_SIZE bytes at a time and hands them   *)
(* to on_tcp_data_received (main.c), which collects them in g_recv_buffer  *)
(* and takes out each message whose length field says that it is complete. *)
(*                                                                         *)
(* Bytes are positions of the connection's stream.  The buffer holds the   *)
(* g_recv_offset bytes before position taken, so its first byte is at      *)
(* Base.  A header read at the start of a message yields that message's    *)
(* length; read anywhere else it yields any number.                        *)
(***************************************************************************)
EXTENDS Integers, Sequences

CONSTANTS
    Messages,         \* what the BBU sends: records with their total length in len
    Garbage,          \* what is cut out of the stream at a wrong place
    CPRI_HEADER_LEN,
    BUFFER_SIZE,      \* sizeof(g_recv_buffer)
    RECV_SIZE,        \* sizeof(buffer) of tcp_recv_thread
    MaxMsgs           \* bound on messages per connection

ASSUME StreamAssumption ==
    /\ CPRI_HEADER_LEN \in Nat \ {0}
    /\ BUFFER_SIZE \in Nat /\ RECV_SIZE \in Nat \ {0}
    /\ RECV_SIZE <= BUFFER_SIZE
    /\ \A m \in Messages : m.len \in Nat /\ m.len >= CPRI_HEADER_LEN
    /\ MaxMsgs \in Nat

VARIABLES
    sent,             \* messages of this connection, each with its first position
    taken,            \* bytes recv() has returned
    g_recv_offset,
    rx_pc,            \* "recv": blocked in recv(); "parse": in the while loop of main.c
    handled,          \* history: messages dispatched on this connection
    last,             \* history: the message dispatched last
    lost              \* history: the buffer was thrown away on this connection

streamVars == <<sent, taken, g_recv_offset, rx_pc, handled, last, lost>>

Sent == [msg : Messages, start : Nat]

(* Types of the stream's state.                                             *)
StreamTypeOK ==
    /\ sent \in Seq(Sent)
    /\ taken \in Nat
    /\ g_recv_offset \in 0..BUFFER_SIZE
    /\ rx_pc \in {"recv", "parse"}
    /\ handled \in Nat
    /\ lost \in BOOLEAN

StreamInit ==
    /\ sent = <<>> /\ taken = 0
    /\ g_recv_offset = 0 /\ rx_pc = "recv"
    /\ handled = 0 /\ last = Garbage /\ lost = FALSE

(* First position after the i-th message.                                   *)
End(i) == IF i = 0 THEN 0 ELSE sent[i].start + sent[i].msg.len

Total == End(Len(sent))
Base  == taken - g_recv_offset

--------------------
(* The BBU sends a message.                                                 *)
BbuSend(m) ==
    /\ Len(sent) < MaxMsgs
    /\ sent' = Append(sent, [msg |-> m, start |-> Total])
    /\ UNCHANGED <<taken, g_recv_offset, rx_pc, handled, last, lost>>

(* Slip of Overflows: a chunk that fits exactly is refused.                 *)
OverflowsEarly(n) == g_recv_offset + n >= BUFFER_SIZE

(* The test before the memcpy                                               *)
Overflows(n) == g_recv_offset + n > BUFFER_SIZE

(* recv() returns n bytes, wherever the network cut them; they are appended *)
(* or, when they do not fit, thrown away together with the buffer.          *)
TcpRecv(n) ==
    /\ rx_pc = "recv"
    /\ taken + n <= Total
    /\ taken' = taken + n
    /\ IF Overflows(n)
       THEN g_recv_offset' = 0 /\ lost' = TRUE /\ UNCHANGED rx_pc
       ELSE g_recv_offset' = g_recv_offset + n /\ rx_pc' = "parse" /\ UNCHANGED lost
    /\ UNCHANGED <<sent, handled, last>>

(* The messages whose header is at the start of the buffer.                 *)
AtBase == {i \in 1..Len(sent) : sent[i].start = Base}

(* What the length field of the header at the start of the buffer may say.  *)
Claims == IF AtBase = {} THEN 0..(BUFFER_SIZE + 1) ELSE {sent[i].msg.len : i \in AtBase}

Plausible(c) == c >= CPRI_HEADER_LEN /\ c <= BUFFER_SIZE

(* No complete header, or no complete message: wait for more bytes.         *)
ParseWait ==
    /\ rx_pc = "parse"
    /\ \/ g_recv_offset < CPRI_HEADER_LEN
       \/ \E c \in Claims : Plausible(c) /\ g_recv_offset < c
    /\ rx_pc' = "recv"
    /\ UNCHANGED <<sent, taken, g_recv_offset, handled, last, lost>>

(* A length no message can have: throw the buffer away.                     *)
ParseInvalid ==
    /\ rx_pc = "parse" /\ g_recv_offset >= CPRI_HEADER_LEN
    /\ \E c \in Claims : ~Plausible(c)
    /\ g_recv_offset' = 0 /\ lost' = TRUE
    /\ rx_pc' = "recv"
    /\ UNCHANGED <<sent, taken, handled, last>>

(* A complete message is decoded and m is dispatched; its bytes leave the   *)
(* buffer.  The payload's slot of the pool is taken and given back within   *)
(* this step, and only this thread decodes, so decoding always succeeds.    *)
TakeMessage(m) ==
    /\ rx_pc = "parse" /\ g_recv_offset >= CPRI_HEADER_LEN
    /\ m \in IF AtBase = {} THEN {Garbage} ELSE {sent[i].msg : i \in AtBase}
    /\ \E c \in Claims :
          /\ Plausible(c) /\ c <= g_recv_offset
          /\ g_recv_offset' = g_recv_offset - c
    /\ handled' = handled + 1 /\ last' = m
    /\ UNCHANGED <<sent, taken, rx_pc, lost>>

(* Slip of Disconnect: the rest of the old connection stays in the buffer.  *)
DisconnectKeepsRest ==
    /\ rx_pc = "recv"
    /\ sent' = <<>> /\ taken' = 0
    /\ handled' = 0 /\ last' = Garbage /\ lost' = FALSE
    /\ UNCHANGED <<g_recv_offset, rx_pc>>

(* The connection ends, on_tcp_disconnected clears the buffer, and the next *)
(* receive thread starts on a new connection.                               *)
Disconnect ==
    /\ rx_pc = "recv"
    /\ sent' = <<>> /\ taken' = 0
    /\ g_recv_offset' = 0
    /\ handled' = 0 /\ last' = Garbage /\ lost' = FALSE
    /\ UNCHANGED rx_pc

StreamNext ==
    \/ \E m \in Messages : BbuSend(m)
    \/ \E n \in 1..RECV_SIZE : TcpRecv(n)
    \/ ParseWait \/ ParseInvalid
    \/ \E m \in Messages \cup {Garbage} : TakeMessage(m)
    \/ Disconnect

StreamSpec == StreamInit /\ [][StreamNext]_streamVars

--------------------
(* Unless the buffer was thrown away, the messages dispatched are the first *)
(* ones of this connection, in order, and none that was received completely *)
(* is left when the thread goes back to recv() (main.c, 粘包/半包处理).       *)
MessagesDelivered ==
    ~lost => /\ handled <= Len(sent)
             /\ Base = End(handled)
             /\ handled > 0 => last = sent[handled].msg
             /\ rx_pc = "recv" /\ handled < Len(sent) => taken < End(handled + 1)

(* The buffer is thrown away only when the BBU is more than a whole buffer  *)
(* ahead of the messages dispatched.                                        *)
LossNeedsBacklog ==
    [][~lost /\ lost' => Total - End(handled) > BUFFER_SIZE]_streamVars

(* Strengthening: messages follow each other without gap or overlap.        *)
Contiguous ==
    /\ sent # <<>> => sent[1].start = 0
    /\ \A i \in 1..Len(sent) : i > 1 => sent[i].start = sent[i - 1].start + sent[i - 1].msg.len
    /\ \A i, j \in 1..Len(sent) : i < j => sent[i].start + sent[i].msg.len <= sent[j].start

(* The inductive invariant of the stream.                                   *)
StreamInv == StreamTypeOK /\ Contiguous /\ taken <= Total /\ MessagesDelivered

(* main.c, lines 134 and 149: messages stuck together or cut in two are     *)
(* handled, so no message that fits the buffer is lost.                     *)
NothingThrownAway == (\A m \in Messages : m.len <= BUFFER_SIZE) => ~lost
====================
