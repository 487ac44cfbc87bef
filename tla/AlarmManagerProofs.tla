---------- MODULE AlarmManagerProofs ----------
(***************************************************************************)
(* Proofs about the alarm manager, for every set of alarms and every size  *)
(* of the table; and, in the second part, about the frames that the receive*)
(* thread of the FPGA's port finds in the byte stream, for every line and  *)
(* every size of its buffers.                                              *)
(***************************************************************************)
EXTENDS AlarmManager, FrameSync, Integers, FiniteSetTheorems, WellFoundedInduction, TLAPS

LiveRecords == [active : {TRUE}, alarm : Alarms, reported : BOOLEAN]
Pending     == [pc : {"trigger", "send", "mark", "clear", "send_clear", "scan"},
                alarm : Alarms, slot : 0 .. MAX_ALARM_RECORDS + 1]

Types ==
    /\ records \in [Slots -> {NoRecord} \cup LiveRecords]
    /\ tcp_connected \in BOOLEAN /\ peer \in BOOLEAN
    /\ bbu \subseteq Alarms /\ lost \subseteq Alarms
    /\ overtaken \subseteq {"status", "alarm"}
    /\ sent \in [Slots -> BOOLEAN]
    /\ call \in [Callers -> {Idle} \cup Pending]
    /\ recv_pc \in {"run", "set_false", "trigger", "leave", "done"}
    /\ reconn_pc \in {"poll", "set_true", "clear", "join"}

(* A call that sends or marks is about a slot of the table, and the scan    *)
(* ends behind it.                                                          *)
SlotsOK == \A t \in Callers :
    /\ call[t].pc \in {"send", "mark"} => call[t].slot \in Slots
    /\ call[t].pc = "scan" => call[t].slot \in 1 .. MAX_ALARM_RECORDS + 1

(* No alarm is in the table twice.                                          *)
Unique == \A i, j \in Slots :
    records[i].active /\ records[j].active /\ records[i].alarm = records[j].alarm => i = j

(* Which thread makes which calls about which alarms.                       *)
Who ==
    /\ call[Uart] # Idle => call[Uart].pc # "scan" /\ call[Uart].alarm \in FpgaAlarms
    /\ call[Recv] # Idle => /\ call[Recv].pc \in {"trigger", "send", "mark"}
                            /\ \/ call[Recv].alarm = TcpAlarm
                               \/ call[Recv].alarm \in CommandAlarms /\ recv_pc = "run"
    /\ call[Reconn] # Idle => \/ call[Reconn].pc \in {"scan", "send", "mark"}
                              \/ /\ call[Reconn].pc \in {"clear", "send_clear"}
                                 /\ call[Reconn].alarm = TcpAlarm

(* The reconnect thread waits for the old receiver only before it creates   *)
(* the new one; what the old one does late is noted.                        *)
Turns ==
    /\ reconn_pc # "poll" => recv_pc # "run"
    /\ recv_pc = "done" => call[Recv] = Idle
    /\ call[Reconn] # Idle => reconn_pc \in {"clear", "join"}
    /\ call[Reconn].pc \in {"clear", "send_clear"} => reconn_pc = "join"
    /\ reconn_pc = "join" /\ recv_pc # "done" => LateAlarm
    /\ reconn_pc \in {"clear", "join"} \/ recv_pc = "run" => tcp_connected \/ LateStatus

(* 1160, which the old receiver may raise while its CLEARED is on its way.  *)
Crossed(a) == LateAlarm /\ a = TcpAlarm

(* An alarm whose CLEARED is on its way is not in the table.                *)
ClearedIsGone == \A t \in Callers :
    call[t].pc = "send_clear" /\ ~Crossed(call[t].alarm) =>
        \A i \in Slots : ~Holds(i, call[t].alarm)

(* Only telemetry clears an alarm while the reconnect thread sends it.      *)
StillThere ==
    call[Reconn].pc \in {"send", "mark"} /\ call[Reconn].alarm \notin FpgaAlarms =>
        Holds(call[Reconn].slot, call[Reconn].alarm)

TableInv == Types /\ Unique /\ SlotsOK

TurnInv == Who /\ Turns /\ ClearedIsGone /\ StillThere

(* A thread is about to send ACTIVE for this alarm.                         *)
Sending(calls, a) == \E t \in Callers : calls[t].pc = "send" /\ calls[t].alarm = a

(* The alarm in slot i has been sent since it is there, or will be.         *)
Told(i) ==
    \/ Sending(call, records[i].alarm)
    \/ sent[i] /\ (records[i].alarm \in bbu \cup lost \/ Crossed(records[i].alarm))

(* An old receiver's late status makes the telemetry's alarms unsure.       *)
Unsure(a) == LateStatus /\ a \in FpgaAlarms

(* Slot i is still before the reconnect thread's scan.                      *)
Ahead(i) ==
    \/ call[Reconn].pc = "scan" /\ call[Reconn].slot <= i
    \/ call[Reconn].pc \in {"send", "mark"} /\ call[Reconn].slot < i

ReportInv ==
    /\ \A t \in Callers : call[t].pc = "mark" /\ ~Unsure(call[t].alarm) =>
          \A i \in Slots : Holds(i, call[t].alarm) => Told(i)
    /\ \A i \in Slots : records[i].active /\ ~Unsure(records[i].alarm) =>
          /\ records[i].reported => Told(i)
          /\ tcp_connected => Told(i) \/ (~records[i].reported /\ Ahead(i))

--------------------
(* Operators                                                                *)

(* The first slot of a set of slots is one of them.                         *)
LEMMA FirstIn == ASSUME NEW S \in SUBSET Slots, S # {} PROVE First(S) \in S
<1> DEFINE R == OpToRel(<, Nat)
<1>0. S \in SUBSET Nat
    BY AlarmAssumption DEF Slots
<1>1. IsWellFoundedOn(R, Nat)
    BY NatLessThanWellFounded, Zenon
<1> HIDE DEF R
<1>2. PICK x \in S : \A y \in S : ~(<<y, x>> \in R)
    BY <1>0, <1>1, WFMin
<1>3. \A y \in S : x <= y
    <2> TAKE y \in S
    <2>1. x \in Nat /\ y \in Nat
        BY <1>0
    <2>2. ~(y < x)
        BY <1>2, <2>1 DEF R, OpToRel
    <2>3. QED
        BY <2>1, <2>2
<1>4. QED
    BY <1>2, <1>3 DEF First

(* The three threads are three.                                             *)
LEMMA ThreeCallers == Uart # Recv /\ Uart # Reconn /\ Recv # Reconn
<1>1. ASSUME NEW a, NEW b, Callers = {a, b} PROVE FALSE
    <2>1. IsFiniteSet({a}) /\ Cardinality({a}) = 1
        BY FS_Singleton
    <2>2. IsFiniteSet({a} \cup {b}) /\ Cardinality({a} \cup {b}) \in {1, 2}
        BY <2>1, FS_AddElement
    <2>3. {a, b} = {a} \cup {b}
        OBVIOUS
    <2>4. QED
        BY <1>1, <2>2, <2>3, AlarmAssumption
<1>2. Uart # Recv
    <2>1. SUFFICES ASSUME Uart = Recv PROVE Callers = {Uart, Reconn}
        BY <1>1
    <2>2. QED
        BY <2>1 DEF Callers
<1>3. Uart # Reconn
    <2>1. SUFFICES ASSUME Uart = Reconn PROVE Callers = {Uart, Recv}
        BY <1>1
    <2>2. QED
        BY <2>1 DEF Callers
<1>4. Recv # Reconn
    <2>1. SUFFICES ASSUME Recv = Reconn PROVE Callers = {Uart, Recv}
        BY <1>1
    <2>2. QED
        BY <2>1 DEF Callers
<1>5. QED
    BY <1>2, <1>3, <1>4

(* A set of at most one slot has at most one element.                       *)
LEMMA AtMostOne ==
    ASSUME NEW S, \A s, t \in S : s = t PROVE Cardinality(S) <= 1
<1>1. CASE S = {}
    BY <1>1, FS_EmptySet
<1>2. CASE S # {}
    <2>1. PICK x \in S : TRUE
        BY <1>2
    <2>2. S = {x}
        BY <2>1
    <2>3. IsFiniteSet({x}) /\ Cardinality({x}) = 1
        BY FS_Singleton
    <2>4. QED
        BY <2>2, <2>3
<1>3. QED
    BY <1>1, <1>2

(* What a call record is.                                                   *)
LEMMA CallFacts ==
    /\ Idle.pc = "idle"
    /\ \A pc \in {"trigger", "send", "mark", "clear", "send_clear", "scan"}, a \in Alarms,
          i \in 0 .. MAX_ALARM_RECORDS + 1 :
          /\ Call(pc, a, i) \in Pending /\ Call(pc, a, i) # Idle
          /\ Call(pc, a, i).pc = pc /\ Call(pc, a, i).alarm = a /\ Call(pc, a, i).slot = i
    /\ \A c \in {Idle} \cup Pending : c = Idle <=> c.pc = "idle"
<1>1. Idle.pc = "idle"
    BY DEF Idle
<1>2. \A c \in Pending : c.pc # "idle"
    BY DEF Pending
<1>3. \A pc, a, i : Call(pc, a, i).pc = pc /\ Call(pc, a, i).alarm = a /\ Call(pc, a, i).slot = i
    BY DEF Call
<1>4. \A pc \in {"trigger", "send", "mark", "clear", "send_clear", "scan"}, a \in Alarms,
         i \in 0 .. MAX_ALARM_RECORDS + 1 : Call(pc, a, i) \in Pending
    BY DEF Call, Pending
<1>5. QED
    BY <1>1, <1>2, <1>3, <1>4

(* A record in use names an alarm; a free one is free.                      *)
LEMMA RecordFacts ==
    /\ ~NoRecord.active
    /\ \A r \in {NoRecord} \cup LiveRecords :
          r.active => r \in LiveRecords /\ r.alarm \in Alarms /\ r.reported \in BOOLEAN
<1>1. ~NoRecord.active
    BY DEF NoRecord
<1>2. QED
    BY <1>1 DEF LiveRecords

(* One thread's call changes; the others' stay.                             *)
LEMMA CallUpdate ==
    ASSUME NEW C, NEW D, NEW f \in [C -> D], NEW t \in C, NEW c \in D
    PROVE  /\ [f EXCEPT ![t] = c] \in [C -> D]
           /\ [f EXCEPT ![t] = c][t] = c
           /\ \A u \in C \ {t} : [f EXCEPT ![t] = c][u] = f[u]
OBVIOUS

--------------------
(* The steps of a call, and what each is to the rest of the proof           *)

(* The call of thread t becomes c.                                          *)
NewCall(t, c) == /\ call'[t] = c /\ c \in {Idle} \cup Pending
                 /\ \A u \in Callers \ {t} : call'[u] = call[u]
                 /\ call' \in [Callers -> {Idle} \cup Pending]

(* alarm_trigger either does nothing or fills a free slot.                  *)
LEMMA TriggerCases ==
    ASSUME Types, NEW t \in Callers, TriggerRecord(t)
    PROVE  /\ call[t].pc = "trigger" /\ call[t].alarm \in Alarms
           /\ \/ NewCall(t, Idle) /\ UNCHANGED records
              \/ \E i \in Slots : \E c :
                    /\ ~records[i].active
                    /\ \A j \in Slots : ~Holds(j, call[t].alarm)
                    /\ records' = [records EXCEPT ![i] =
                          [active |-> TRUE, alarm |-> call[t].alarm, reported |-> FALSE]]
                    /\ c = IF tcp_connected THEN Call("send", call[t].alarm, i) ELSE Idle
                    /\ NewCall(t, c)
<1>1. call[t].pc = "trigger"
    BY DEF TriggerRecord
<1>2. call[t] \in Pending
    BY <1>1, CallFacts DEF Types
<1>3. call[t].alarm \in Alarms
    BY <1>2 DEF Pending
<1> DEFINE a == call[t].alarm
           i == First(FreeSlots)
           c == IF tcp_connected THEN Call("send", a, i) ELSE Idle
<1>4. CASE a \in Active \/ FreeSlots = {}
    <2>1. call' = [call EXCEPT ![t] = Idle] /\ UNCHANGED records
        BY <1>4 DEF TriggerRecord
    <2>2. QED
        BY <1>1, <1>3, <2>1, CallUpdate DEF NewCall, Types
<1>5. CASE ~(a \in Active \/ FreeSlots = {})
    <2>1. /\ records' = [records EXCEPT ![i] =
                            [active |-> TRUE, alarm |-> a, reported |-> FALSE]]
          /\ call' = [call EXCEPT ![t] = c]
        BY <1>5 DEF TriggerRecord
    <2>2. i \in FreeSlots
        BY <1>5, FirstIn DEF FreeSlots
    <2>3. i \in Slots /\ ~records[i].active /\ i \in 0 .. MAX_ALARM_RECORDS + 1
        BY <2>2, AlarmAssumption DEF FreeSlots, Slots
    <2>4. \A j \in Slots : ~Holds(j, a)
        BY <1>3, <1>5 DEF Active, SlotsOf
    <2> HIDE DEF i
    <2>5. c \in {Idle} \cup Pending
        BY <1>3, <2>3, CallFacts
    <2>6. NewCall(t, c)
        <3> HIDE DEF c
        <3>1. QED
            BY <2>1, <2>5, CallUpdate DEF NewCall, Types
    <2>7. QED
        BY <1>1, <1>3, <2>1, <2>3, <2>4, <2>6
<1>6. QED
    BY <1>4, <1>5

(* alarm_clear either does nothing or frees the alarm's slot.               *)
LEMMA ClearCases ==
    ASSUME Types, NEW t \in Callers, ClearRecord(t)
    PROVE  /\ call[t].pc = "clear" /\ call[t].alarm \in Alarms
           /\ \/ NewCall(t, Idle) /\ UNCHANGED <<records, history>>
              \/ \E i \in Slots : \E c :
                    /\ Holds(i, call[t].alarm)
                    /\ records' = [records EXCEPT ![i] = NoRecord]
                    /\ sent' = [sent EXCEPT ![i] = FALSE] /\ lost' = lost \ {call[t].alarm}
                    /\ c = IF tcp_connected THEN Call("send_clear", call[t].alarm, 0) ELSE Idle
                    /\ NewCall(t, c)
<1>1. call[t].pc = "clear"
    BY DEF ClearRecord
<1>2. call[t] \in Pending
    BY <1>1, CallFacts DEF Types
<1>3. call[t].alarm \in Alarms
    BY <1>2 DEF Pending
<1> DEFINE a == call[t].alarm
           i == First(SlotsOf(a))
           c == IF tcp_connected THEN Call("send_clear", a, 0) ELSE Idle
<1>4. CASE a \notin Active
    <2>1. call' = [call EXCEPT ![t] = Idle] /\ UNCHANGED <<records, history>>
        BY <1>4 DEF ClearRecord
    <2>2. QED
        BY <1>1, <1>3, <2>1, CallUpdate DEF NewCall, Types
<1>5. CASE a \in Active
    <2>1. /\ records' = [records EXCEPT ![i] = NoRecord] /\ call' = [call EXCEPT ![t] = c]
          /\ sent' = [sent EXCEPT ![i] = FALSE] /\ lost' = lost \ {a}
        BY <1>5 DEF ClearRecord
    <2>2. i \in SlotsOf(a)
        BY <1>5, FirstIn DEF SlotsOf, Active
    <2>3. i \in Slots /\ Holds(i, a) /\ 0 \in 0 .. MAX_ALARM_RECORDS + 1
        BY <2>2, AlarmAssumption DEF SlotsOf, Slots
    <2> HIDE DEF i
    <2>5. c \in {Idle} \cup Pending
        BY <1>3, <2>3, CallFacts
    <2>6. NewCall(t, c)
        <3> HIDE DEF c
        <3>1. QED
            BY <2>1, <2>5, CallUpdate DEF NewCall, Types
    <2>7. QED
        BY <1>1, <1>3, <2>1, <2>3, <2>6
<1>6. QED
    BY <1>4, <1>5

(* Marking: the slot, if it still holds the alarm, and on to the next one.  *)
LEMMA MarkCases ==
    ASSUME Types, SlotsOK, NEW t \in Callers, MarkReported(t)
    PROVE  /\ call[t].pc = "mark" /\ call[t].alarm \in Alarms /\ call[t].slot \in Slots
           /\ records' = IF Holds(call[t].slot, call[t].alarm)
                         THEN [records EXCEPT ![call[t].slot].reported = TRUE] ELSE records
           /\ NewCall(t, IF t = Reconn THEN Call("scan", TcpAlarm, call[t].slot + 1) ELSE Idle)
<1>1. call[t].pc = "mark"
    BY DEF MarkReported
<1>2. call[t] \in Pending /\ call[t].slot \in Slots
    BY <1>1, CallFacts DEF Types, SlotsOK
<1>3. call[t].alarm \in Alarms /\ call[t].slot + 1 \in 0 .. MAX_ALARM_RECORDS + 1
    BY <1>2, AlarmAssumption DEF Pending, Slots
<1> DEFINE c == IF t = Reconn THEN Call("scan", TcpAlarm, call[t].slot + 1) ELSE Idle
<1>4. call' = [call EXCEPT ![t] = c]
    BY DEF MarkReported
<1>5. c \in {Idle} \cup Pending
    BY <1>3, CallFacts DEF Alarms
<1>6. NewCall(t, c)
    <2> HIDE DEF c
    <2>1. QED
        BY <1>4, <1>5, CallUpdate DEF NewCall, Types
<1>7. QED
    BY <1>1, <1>2, <1>3, <1>6 DEF MarkReported

(* Sending ACTIVE, whether it arrives or not.                               *)
LEMMA SendCases ==
    ASSUME Types, SlotsOK, NEW t \in Callers, SendActive(t)
    PROVE  /\ call[t].pc = "send" /\ call[t].alarm \in Alarms /\ call[t].slot \in Slots
           /\ NewCall(t, Call("mark", call[t].alarm, call[t].slot))
           /\ UNCHANGED records
           /\ bbu \subseteq bbu' /\ bbu' \subseteq bbu \cup {call[t].alarm}
           /\ bbu \cup lost \subseteq bbu' \cup lost' /\ lost' \subseteq lost \cup {call[t].alarm}
           /\ call[t].alarm \in Active => call[t].alarm \in bbu' \cup lost'
           /\ sent' = [i \in Slots |-> sent[i] \/ Holds(i, call[t].alarm)]
<1>1. call[t].pc = "send"
    BY DEF SendActive
<1>2. call[t] \in Pending /\ call[t].slot \in Slots
    BY <1>1, CallFacts DEF Types, SlotsOK
<1>3. call[t].alarm \in Alarms /\ call[t].slot \in 0 .. MAX_ALARM_RECORDS + 1
    BY <1>2 DEF Pending
<1> DEFINE c == Call("mark", call[t].alarm, call[t].slot)
<1>4. call' = [call EXCEPT ![t].pc = "mark"]
    BY DEF SendActive
<1>5. c \in Pending
    BY <1>3, CallFacts
<1>6. call' = [call EXCEPT ![t] = c]
    <2>1. [call[t] EXCEPT !.pc = "mark"] = c
        BY <1>2 DEF Call, Pending
    <2>2. QED
        BY <1>4, <2>1
<1>7. NewCall(t, c)
    <2> HIDE DEF c
    <2>1. QED
        BY <1>5, <1>6, CallUpdate DEF NewCall, Types
<1>8. QED
    BY <1>1, <1>2, <1>3, <1>7 DEF SendActive, mgrVars

(* Sending CLEARED.                                                         *)
LEMMA ClearedCases ==
    ASSUME Types, NEW t \in Callers, SendCleared(t)
    PROVE  /\ call[t].pc = "send_clear" /\ call[t].alarm \in Alarms
           /\ NewCall(t, Idle)
           /\ UNCHANGED <<records, history>>
           /\ bbu \ {call[t].alarm} \subseteq bbu' /\ bbu' \subseteq bbu
<1>1. call[t].pc = "send_clear"
    BY DEF SendCleared
<1>2. call[t] \in Pending
    BY <1>1, CallFacts DEF Types
<1>3. NewCall(t, Idle)
    BY CallUpdate DEF SendCleared, NewCall, Types
<1>4. QED
    BY <1>1, <1>2, <1>3 DEF SendCleared, mgrVars, Pending

(* The scan ends, sends the slot it has come to, or goes on.                *)
LEMMA ScanCases ==
    ASSUME Types, SlotsOK, ScanPending
    PROVE  /\ call[Reconn].pc = "scan" /\ call[Reconn].slot \in 1 .. MAX_ALARM_RECORDS + 1
           /\ UNCHANGED <<records, bbu, history>>
           /\ \/ call[Reconn].slot = MAX_ALARM_RECORDS + 1 /\ NewCall(Reconn, Idle)
              \/ \E i \in Slots :
                    /\ i = call[Reconn].slot
                    /\ \/ /\ records[i].active /\ ~records[i].reported
                          /\ records[i].alarm \in Alarms
                          /\ NewCall(Reconn, Call("send", records[i].alarm, i))
                       \/ /\ ~(records[i].active /\ ~records[i].reported)
                          /\ NewCall(Reconn, Call("scan", TcpAlarm, i + 1))
<1> DEFINE i == call[Reconn].slot
<1>0. Reconn \in Callers
    BY DEF Callers
<1>1. call[Reconn].pc = "scan" /\ UNCHANGED <<records, bbu, history>>
    BY DEF ScanPending, mgrVars
<1>2. i \in 1 .. MAX_ALARM_RECORDS + 1
    BY <1>0, <1>1 DEF SlotsOK
<1>3. CASE i > MAX_ALARM_RECORDS
    <2>1. call' = [call EXCEPT ![Reconn] = Idle]
        BY <1>3 DEF ScanPending
    <2>2. NewCall(Reconn, Idle)
        BY <1>0, <2>1, CallUpdate DEF NewCall, Types
    <2>3. QED
        BY <1>1, <1>2, <1>3, <2>2, AlarmAssumption
<1>4. CASE ~(i > MAX_ALARM_RECORDS)
    <2>1. i \in Slots /\ i \in 0 .. MAX_ALARM_RECORDS + 1 /\ i + 1 \in 0 .. MAX_ALARM_RECORDS + 1
        BY <1>2, <1>4, AlarmAssumption DEF Slots
    <2>2. CASE records[i].active /\ ~records[i].reported
        <3>1. records[i].alarm \in Alarms
            BY <2>1, <2>2, RecordFacts DEF Types
        <3> DEFINE c == Call("send", records[i].alarm, i)
        <3>2. c \in {Idle} \cup Pending
            BY <2>1, <3>1, CallFacts
        <3>3. call' = [call EXCEPT ![Reconn] = c]
            BY <1>4, <2>2 DEF ScanPending
        <3> HIDE DEF c
        <3>4. NewCall(Reconn, c)
            BY <1>0, <3>2, <3>3, CallUpdate DEF NewCall, Types
        <3>5. QED
            BY <1>1, <1>2, <2>1, <2>2, <3>1, <3>4 DEF c
    <2>3. CASE ~(records[i].active /\ ~records[i].reported)
        <3> DEFINE c == Call("scan", TcpAlarm, i + 1)
        <3>2. c \in {Idle} \cup Pending
            BY <2>1, CallFacts DEF Alarms
        <3>3. call' = [call EXCEPT ![Reconn] = c]
            BY <1>4, <2>3 DEF ScanPending
        <3> HIDE DEF c
        <3>4. NewCall(Reconn, c)
            BY <1>0, <3>2, <3>3, CallUpdate DEF NewCall, Types
        <3>5. QED
            BY <1>1, <1>2, <2>1, <2>3, <3>4 DEF c
    <2>4. QED
        BY <2>2, <2>3
<1>5. QED
    BY <1>3, <1>4

(* An edge begins a call, anything else begins none.                        *)
LEMMA EdgeCases ==
    ASSUME Types, NEW t \in Callers, NEW a \in Alarms, NEW condition \in BOOLEAN,
           CheckEdge(t, a, condition)
    PROVE  /\ call[t] = Idle
           /\ \/ NewCall(t, Idle)
              \/ condition /\ NewCall(t, Call("trigger", a, 0))
              \/ ~condition /\ NewCall(t, Call("clear", a, 0))
<1> DEFINE c == CASE condition /\ ~state_tracker[a] -> Call("trigger", a, 0)
                  [] ~condition /\ state_tracker[a] -> Call("clear", a, 0)
                  [] OTHER -> Idle
<1>1. call[t] = Idle /\ call' = [call EXCEPT ![t] = c]
    BY DEF CheckEdge
<1>2. 0 \in 0 .. MAX_ALARM_RECORDS + 1
    BY AlarmAssumption
<1>3. /\ Call("trigger", a, 0) \in Pending
      /\ Call("clear", a, 0) \in Pending
    BY <1>2, CallFacts
<1>4. \/ c = Idle
      \/ condition /\ c = Call("trigger", a, 0)
      \/ ~condition /\ c = Call("clear", a, 0)
    OBVIOUS
<1> HIDE DEF c
<1>5. NewCall(t, c)
    BY <1>1, <1>3, <1>4, CallUpdate DEF NewCall, Types
<1>6. QED
    BY <1>1, <1>4, <1>5

(* The steps that begin a call: telemetry, failed commands, a lost and a    *)
(* restored connection.                                                     *)
Begin(t, c) ==
    /\ call[t] = Idle /\ NewCall(t, c)
    /\ UNCHANGED <<records, peer, bbu, history>>
    /\ \/ /\ t = Uart /\ (c = Idle \/ (c.pc \in {"trigger", "clear"} /\ c.alarm \in FpgaAlarms))
          /\ UNCHANGED <<tcp_connected, recv_pc, reconn_pc, overtaken>>
       \/ /\ t = Recv /\ recv_pc = "run" /\ c.pc = "trigger" /\ c.alarm \in CommandAlarms
          /\ UNCHANGED <<tcp_connected, recv_pc, reconn_pc, overtaken>>
       \/ /\ t = Recv /\ recv_pc = "trigger" /\ recv_pc' = "leave"
          /\ (c = Idle \/ (c.pc = "trigger" /\ c.alarm = TcpAlarm))
          /\ UNCHANGED <<tcp_connected, reconn_pc, overtaken>>
       \/ /\ t = Reconn /\ reconn_pc = "clear" /\ reconn_pc' = "join"
          /\ (c = Idle \/ (c.pc = "clear" /\ c.alarm = TcpAlarm))
          /\ overtaken' = overtaken \cup (IF recv_pc # "done" THEN {"alarm"} ELSE {})
          /\ UNCHANGED <<tcp_connected, recv_pc>>

(* They are of that form.                                                   *)
LEMMA BeginCases ==
    ASSUME Types, \/ \E a \in FpgaAlarms : UartCheck(a)
                  \/ \E a \in CommandAlarms : CommandFails(a)
                  \/ RecvTrigger \/ ClearTcpDisconnect
    PROVE  \E t \in Callers : \E c : Begin(t, c) /\ c.pc \in {"idle", "trigger", "clear"}
<1>0. /\ Uart \in Callers /\ Recv \in Callers /\ Reconn \in Callers
      /\ 0 \in 0 .. MAX_ALARM_RECORDS + 1
      /\ FpgaAlarms \subseteq Alarms /\ CommandAlarms \subseteq Alarms /\ TcpAlarm \in Alarms
    BY AlarmAssumption DEF Callers, Alarms
<1>1. \A a \in Alarms : /\ Call("trigger", a, 0) \in Pending /\ Call("trigger", a, 0) # Idle
                        /\ Call("trigger", a, 0).pc = "trigger" /\ Call("trigger", a, 0).alarm = a
                        /\ Call("clear", a, 0).pc = "clear" /\ Call("clear", a, 0).alarm = a
    BY <1>0, CallFacts
<1>2. Idle.pc = "idle"
    BY CallFacts
<1>3. ASSUME NEW a \in FpgaAlarms, UartCheck(a)
      PROVE  \E c : Begin(Uart, c) /\ c.pc \in {"idle", "trigger", "clear"}
    <2>1. PICK condition \in BOOLEAN : CheckEdge(Uart, a, condition)
        BY <1>3 DEF UartCheck
    <2>2. /\ call[Uart] = Idle
          /\ \E c \in {Idle, Call("trigger", a, 0), Call("clear", a, 0)} : NewCall(Uart, c)
        BY <1>0, <2>1, EdgeCases
    <2>3. PICK c \in {Idle, Call("trigger", a, 0), Call("clear", a, 0)} : NewCall(Uart, c)
        BY <2>2
    <2>4. \/ c = Idle /\ c.pc = "idle"
          \/ c.pc \in {"trigger", "clear"} /\ c.alarm \in FpgaAlarms
        BY <1>0, <1>1, <1>2
    <2>5. Begin(Uart, c)
        BY <1>3, <2>2, <2>3, <2>4 DEF UartCheck, Begin
    <2>6. QED
        BY <2>4, <2>5
<1>4. ASSUME NEW a \in CommandAlarms, CommandFails(a)
      PROVE  \E c : Begin(Recv, c) /\ c.pc \in {"idle", "trigger", "clear"}
    <2>1. NewCall(Recv, Call("trigger", a, 0))
        BY <1>0, <1>1, <1>4, CallUpdate DEF CommandFails, NewCall, Types
    <2>2. QED
        BY <1>0, <1>1, <1>4, <2>1 DEF CommandFails, Begin, mgrVars
<1>5. CASE RecvTrigger
    <2>1. /\ call[Recv] = Idle
          /\ \E c \in {Idle, Call("trigger", TcpAlarm, 0)} : NewCall(Recv, c)
        BY <1>0, <1>5, EdgeCases DEF RecvTrigger
    <2>2. PICK c \in {Idle, Call("trigger", TcpAlarm, 0)} : NewCall(Recv, c)
        BY <2>1
    <2>3. \/ c = Idle /\ c.pc = "idle"
          \/ c.pc = "trigger" /\ c.alarm = TcpAlarm
        BY <1>0, <1>1, <1>2
    <2>4. Begin(Recv, c)
        BY <1>5, <2>1, <2>2, <2>3 DEF RecvTrigger, Begin
    <2>5. QED
        BY <1>0, <2>3, <2>4
<1>6. CASE ClearTcpDisconnect
    <2>1. /\ call[Reconn] = Idle
          /\ \E c \in {Idle, Call("clear", TcpAlarm, 0)} : NewCall(Reconn, c)
        BY <1>0, <1>6, EdgeCases DEF ClearTcpDisconnect
    <2>2. PICK c \in {Idle, Call("clear", TcpAlarm, 0)} : NewCall(Reconn, c)
        BY <2>1
    <2>3. \/ c = Idle /\ c.pc = "idle"
          \/ c.pc = "clear" /\ c.alarm = TcpAlarm
        BY <1>0, <1>1, <1>2
    <2>4. Begin(Reconn, c)
        BY <1>6, <2>1, <2>2, <2>3 DEF ClearTcpDisconnect, Begin
    <2>5. QED
        BY <1>0, <2>3, <2>4
<1>7. QED
    BY <1>0, <1>3, <1>4, <1>5, <1>6

(* The connection is reported: a scan begins, or nothing.                   *)
LEMMA SetTrueCases ==
    ASSUME Types, SetTrue
    PROVE  /\ reconn_pc = "set_true" /\ reconn_pc' = "clear" /\ tcp_connected'
           /\ tcp_connected' \in BOOLEAN
           /\ UNCHANGED <<records, recv_pc, peer, bbu, history, overtaken>>
           /\ \/ tcp_connected /\ UNCHANGED call
              \/ ~tcp_connected /\ NewCall(Reconn, Call("scan", TcpAlarm, 1))
<1>1. Reconn \in Callers /\ TcpAlarm \in Alarms /\ 1 \in 0 .. MAX_ALARM_RECORDS + 1
    BY AlarmAssumption DEF Callers, Alarms
<1>2. Call("scan", TcpAlarm, 1) \in Pending
    BY <1>1, CallFacts
<1>3. ~tcp_connected => NewCall(Reconn, Call("scan", TcpAlarm, 1))
    BY <1>1, <1>2, CallUpdate DEF SetTrue, NewCall, Types
<1>4. tcp_connected' \in BOOLEAN
    BY DEF SetTrue
<1>5. QED
    BY <1>3, <1>4 DEF SetTrue, Types

(* Steps that leave the table, the calls and the BBU alone.                 *)
Rest == \/ RecvNotices \/ RecvSetFalse \/ RecvLeaves \/ Connect \/ JoinAndCreate \/ Break
        \/ UNCHANGED vars

(* What a step of the specification is.                                     *)
LEMMA NextCases ==
    ASSUME Types, [Next]_vars
    PROVE  \/ \E t \in Callers : \/ TriggerRecord(t) \/ SendActive(t) \/ MarkReported(t)
                                 \/ ClearRecord(t) \/ SendCleared(t)
           \/ ScanPending
           \/ \E t \in Callers : \E c : Begin(t, c) /\ c.pc \in {"idle", "trigger", "clear"}
           \/ SetTrue
           \/ Rest
<1>1. Uart \in Callers /\ Recv \in Callers /\ Reconn \in Callers
    BY DEF Callers
<1>2. QED
    BY <1>1, BeginCases DEF Next, RecvStep, ReconnStep, InCall, Rest

--------------------
(* The table                                                                *)

(* Filling a free slot with an alarm that is not in the table.              *)
LEMMA TableTrigger ==
    ASSUME TableInv, NEW t \in Callers, TriggerRecord(t) PROVE TableInv'
<1> USE DEF TableInv
<1>1. UNCHANGED <<tcp_connected, peer, bbu, sent, lost, overtaken, recv_pc, reconn_pc>>
    BY DEF TriggerRecord, history
<1>2. CASE NewCall(t, Idle) /\ UNCHANGED records
    BY <1>1, <1>2, CallFacts DEF NewCall, Types, Unique, SlotsOK
<1>3. ASSUME NEW i \in Slots, NEW c, ~records[i].active,
             \A j \in Slots : ~Holds(j, call[t].alarm),
             records' = [records EXCEPT ![i] =
                 [active |-> TRUE, alarm |-> call[t].alarm, reported |-> FALSE]],
             c = (IF tcp_connected THEN Call("send", call[t].alarm, i) ELSE Idle), NewCall(t, c)
      PROVE  TableInv'
    <2> DEFINE r == [active |-> TRUE, alarm |-> call[t].alarm, reported |-> FALSE]
    <2>1. call[t].alarm \in Alarms
        BY TriggerCases
    <2>2. r \in LiveRecords /\ r.active /\ r.alarm = call[t].alarm
        BY <2>1 DEF LiveRecords
    <2> HIDE DEF r
    <2>3. /\ records' \in [Slots -> {NoRecord} \cup LiveRecords]
          /\ records'[i] = r /\ \A j \in Slots \ {i} : records'[j] = records[j]
        BY <1>3, <2>2 DEF Types, r
    <2>5. Types'
        BY <1>1, <1>3, <2>3 DEF Types, NewCall
    <2>6. Unique'
        BY <1>3, <2>2, <2>3 DEF Unique, Holds
    <2>7. i \in 0 .. MAX_ALARM_RECORDS + 1
        BY AlarmAssumption DEF Slots
    <2>8. c = Idle \/ (c.pc = "send" /\ c.slot = i)
        BY <1>3, <2>1, <2>7, CallFacts
    <2>9. SlotsOK'
        BY <1>3, <2>8, CallFacts DEF SlotsOK, NewCall
    <2>10. QED
        BY <2>5, <2>6, <2>9
<1>4. QED
    BY <1>2, <1>3, TriggerCases

(* Freeing a slot.                                                          *)
LEMMA TableClear ==
    ASSUME TableInv, NEW t \in Callers, ClearRecord(t) PROVE TableInv'
<1> USE DEF TableInv
<1>1. UNCHANGED <<tcp_connected, peer, bbu, overtaken, recv_pc, reconn_pc>>
    BY DEF ClearRecord
<1>2. CASE NewCall(t, Idle) /\ UNCHANGED <<records, history>>
    BY <1>1, <1>2, CallFacts DEF NewCall, history, Types, Unique, SlotsOK
<1>3. ASSUME NEW i \in Slots, NEW c, Holds(i, call[t].alarm),
             records' = [records EXCEPT ![i] = NoRecord],
             sent' = [sent EXCEPT ![i] = FALSE], lost' = lost \ {call[t].alarm},
             c = (IF tcp_connected THEN Call("send_clear", call[t].alarm, 0) ELSE Idle),
             NewCall(t, c)
      PROVE  TableInv'
    <2>1. /\ records' \in [Slots -> {NoRecord} \cup LiveRecords]
          /\ records'[i] = NoRecord /\ \A j \in Slots \ {i} : records'[j] = records[j]
          /\ sent' \in [Slots -> BOOLEAN]
        BY <1>3 DEF Types
    <2>2. Types'
        BY <1>1, <1>3, <2>1 DEF Types, NewCall
    <2>3. Unique'
        BY <2>1, RecordFacts DEF Unique
    <2>4. 0 \in 0 .. MAX_ALARM_RECORDS + 1 /\ call[t].alarm \in Alarms
        BY AlarmAssumption, ClearCases
    <2>5. c = Idle \/ c.pc = "send_clear"
        BY <1>3, <2>4, CallFacts
    <2>6. SlotsOK'
        BY <1>3, <2>5, CallFacts DEF SlotsOK, NewCall
    <2>7. QED
        BY <2>2, <2>3, <2>6
<1>4. QED
    BY <1>2, <1>3, ClearCases

(* Marking changes the mark only.                                           *)
LEMMA MarkRecords ==
    ASSUME TableInv, NEW t \in Callers, MarkReported(t)
    PROVE  /\ records' \in [Slots -> {NoRecord} \cup LiveRecords]
           /\ \A j \in Slots : /\ records'[j].active <=> records[j].active
                               /\ records'[j].active => records'[j].alarm = records[j].alarm
                               /\ \/ records'[j] = records[j]
                                  \/ Holds(j, call[t].alarm) /\ j = call[t].slot
<1> USE DEF TableInv
<1> DEFINE i == call[t].slot
<1>1. /\ i \in Slots
      /\ records' = IF Holds(i, call[t].alarm)
                    THEN [records EXCEPT ![i].reported = TRUE] ELSE records
    BY MarkCases
<1>2. CASE ~Holds(i, call[t].alarm)
    BY <1>1, <1>2 DEF Types
<1>3. CASE Holds(i, call[t].alarm)
    <2> HIDE DEF i
    <2> DEFINE r == [records[i] EXCEPT !.reported = TRUE]
    <2>1. records[i] \in LiveRecords
        BY <1>1, <1>3, RecordFacts DEF Holds, Types
    <2>2. r \in LiveRecords /\ r.active /\ r.alarm = records[i].alarm /\ records[i].active
        BY <2>1 DEF LiveRecords
    <2>3. records' = [records EXCEPT ![i] = r]
        BY <1>1, <1>3 DEF i
    <2> HIDE DEF r
    <2>4. /\ records' \in [Slots -> {NoRecord} \cup LiveRecords]
          /\ records'[i] = r /\ \A j \in Slots \ {i} : records'[j] = records[j]
        BY <1>1, <2>2, <2>3 DEF Types
    <2>5. QED
        BY <1>1, <1>3, <2>2, <2>4 DEF i
<1>4. QED
    BY <1>2, <1>3

(* The other steps of a call.                                               *)
LEMMA TableMark ==
    ASSUME TableInv, NEW t \in Callers, MarkReported(t) PROVE TableInv'
<1> USE DEF TableInv
<1>1. UNCHANGED <<tcp_connected, peer, bbu, sent, lost, overtaken, recv_pc, reconn_pc>>
    BY DEF MarkReported, history
<1> DEFINE c == IF t = Reconn THEN Call("scan", TcpAlarm, call[t].slot + 1) ELSE Idle
<1>2. NewCall(t, c) /\ call[t].slot \in Slots
    BY MarkCases
<1>3. /\ call[t].slot + 1 \in 1 .. MAX_ALARM_RECORDS + 1 /\ TcpAlarm \in Alarms
      /\ call[t].slot + 1 \in 0 .. MAX_ALARM_RECORDS + 1
    BY <1>2, AlarmAssumption DEF Slots, Alarms
<1>4. c = Idle \/ (c.pc = "scan" /\ c.slot = call[t].slot + 1)
    BY <1>3, CallFacts
<1> HIDE DEF c
<1>5. SlotsOK'
    BY <1>2, <1>3, <1>4, CallFacts DEF SlotsOK, NewCall
<1>6. Types'
    BY <1>1, <1>2, MarkRecords DEF Types, NewCall
<1>7. Unique'
    BY MarkRecords DEF Unique
<1>8. QED
    BY <1>5, <1>6, <1>7

(* Steps that only send.                                                    *)
LEMMA TableSend ==
    ASSUME TableInv, NEW t \in Callers, SendActive(t) \/ SendCleared(t) PROVE TableInv'
<1> USE DEF TableInv
<1>1. UNCHANGED <<records, tcp_connected, peer, overtaken, recv_pc, reconn_pc>>
    BY DEF SendActive, SendCleared, mgrVars
<1>2. CASE SendActive(t)
    <2>1. /\ NewCall(t, Call("mark", call[t].alarm, call[t].slot))
          /\ call[t].alarm \in Alarms /\ call[t].slot \in Slots
          /\ bbu' \subseteq Alarms /\ lost' \subseteq Alarms
        BY <1>2, SendCases DEF Types
    <2>2. sent' \in [Slots -> BOOLEAN]
        BY <1>2, SendCases
    <2>3. Types'
        BY <1>1, <2>1, <2>2 DEF Types, NewCall
    <2>4. call[t].slot \in 0 .. MAX_ALARM_RECORDS + 1
        BY <2>1, AlarmAssumption DEF Slots
    <2>5. /\ Call("mark", call[t].alarm, call[t].slot).pc = "mark"
          /\ Call("mark", call[t].alarm, call[t].slot).slot = call[t].slot
        BY <2>1, <2>4, CallFacts
    <2>6. SlotsOK'
        BY <2>1, <2>5 DEF SlotsOK, NewCall
    <2>7. QED
        BY <1>1, <2>3, <2>6 DEF Unique
<1>3. CASE SendCleared(t)
    <2>1. NewCall(t, Idle) /\ bbu' \subseteq bbu /\ UNCHANGED <<sent, lost>>
        BY <1>3, ClearedCases DEF history
    <2>2. QED
        BY <1>1, <2>1, CallFacts DEF Types, NewCall, SlotsOK, Unique
<1>4. QED
    BY <1>2, <1>3

(* The scan stays within the table.                                         *)
LEMMA TableScan ==
    ASSUME TableInv, ScanPending \/ SetTrue PROVE TableInv'
<1> USE DEF TableInv
<1>0. Reconn \in Callers /\ TcpAlarm \in Alarms /\ 1 \in 0 .. MAX_ALARM_RECORDS + 1
    BY AlarmAssumption DEF Callers, Alarms
<1>1. UNCHANGED <<records, peer, recv_pc, bbu, sent, lost, overtaken>> /\ tcp_connected' \in BOOLEAN
      /\ reconn_pc' \in {"poll", "set_true", "clear", "join"}
    BY SetTrueCases DEF ScanPending, mgrVars, history, Types
<1>2. CASE UNCHANGED call
    BY <1>1, <1>2 DEF Types, Unique, SlotsOK
<1>3. ASSUME NEW c, NewCall(Reconn, c),
             \/ c = Idle
             \/ c.pc = "send" /\ c.slot \in Slots
             \/ c.pc = "scan" /\ c.slot \in 1 .. MAX_ALARM_RECORDS + 1
      PROVE  TableInv'
    <2>1. SlotsOK'
        BY <1>3, CallFacts DEF SlotsOK, NewCall
    <2>2. QED
        BY <1>1, <1>3, <2>1 DEF Types, Unique, NewCall
<1>4. CASE SetTrue
    <2>1. /\ Call("scan", TcpAlarm, 1).pc = "scan"
          /\ Call("scan", TcpAlarm, 1).slot \in 1 .. MAX_ALARM_RECORDS + 1
        BY <1>0, CallFacts, AlarmAssumption
    <2>2. QED
        BY <1>2, <1>3, <1>4, <2>1, SetTrueCases
<1>5. CASE ScanPending
    <2>1. CASE NewCall(Reconn, Idle)
        BY <1>3, <2>1
    <2>2. ASSUME NEW i \in Slots, records[i].alarm \in Alarms,
                 NewCall(Reconn, Call("send", records[i].alarm, i))
          PROVE  TableInv'
        <3>1. i \in 0 .. MAX_ALARM_RECORDS + 1
            BY AlarmAssumption DEF Slots
        <3>2. /\ Call("send", records[i].alarm, i).pc = "send"
              /\ Call("send", records[i].alarm, i).slot = i
            BY <2>2, <3>1, CallFacts
        <3>3. QED
            BY <1>3, <2>2, <3>2
    <2>3. ASSUME NEW i \in Slots, NewCall(Reconn, Call("scan", TcpAlarm, i + 1))
          PROVE  TableInv'
        <3>1. i + 1 \in 0 .. MAX_ALARM_RECORDS + 1 /\ i + 1 \in 1 .. MAX_ALARM_RECORDS + 1
            BY AlarmAssumption DEF Slots
        <3>2. /\ Call("scan", TcpAlarm, i + 1).pc = "scan"
              /\ Call("scan", TcpAlarm, i + 1).slot = i + 1
            BY <1>0, <3>1, CallFacts
        <3>3. QED
            BY <1>3, <2>3, <3>1, <3>2
    <2>4. QED
        BY <1>5, <2>1, <2>2, <2>3, ScanCases
<1>6. QED
    BY <1>4, <1>5

(* Beginning a call, and the steps without one.                             *)
LEMMA TableRest ==
    ASSUME TableInv,
           \/ \E t \in Callers : \E c : Begin(t, c) /\ c.pc \in {"idle", "trigger", "clear"}
           \/ Rest
    PROVE  TableInv'
<1> USE DEF TableInv
<1>1. ASSUME NEW t \in Callers, NEW c, Begin(t, c), c.pc \in {"idle", "trigger", "clear"}
      PROVE  TableInv'
    <2>1. UNCHANGED <<records, peer, bbu, sent, lost, tcp_connected>> /\ NewCall(t, c)
          /\ recv_pc' \in {recv_pc, "leave"} /\ reconn_pc' \in {reconn_pc, "join"}
        BY <1>1 DEF Begin, history
    <2>2. SlotsOK'
        BY <1>1, <2>1 DEF NewCall, SlotsOK
    <2>3. overtaken' \subseteq {"status", "alarm"}
        BY <1>1 DEF Begin, Types
    <2>4. QED
        BY <2>1, <2>2, <2>3 DEF NewCall, Types, Unique
<1>2. CASE Rest
    <2>1. UNCHANGED <<records, call, bbu, sent, lost>>
        BY <1>2 DEF Rest, RecvNotices, RecvSetFalse, RecvLeaves, Connect, JoinAndCreate, Break,
                    vars, mgrVars, history
    <2>2. tcp_connected' \in BOOLEAN /\ peer' \in BOOLEAN
        BY <1>2 DEF Rest, RecvNotices, RecvSetFalse, RecvLeaves, Connect, JoinAndCreate, Break,
                    vars, mgrVars, Types
    <2>3. /\ recv_pc' \in {"run", "set_false", "trigger", "leave", "done"}
          /\ reconn_pc' \in {"poll", "set_true", "clear", "join"}
        BY <1>2 DEF Rest, RecvNotices, RecvSetFalse, RecvLeaves, Connect, JoinAndCreate, Break,
                    vars, Types
    <2>4. overtaken' \subseteq {"status", "alarm"}
        BY <1>2 DEF Rest, RecvNotices, RecvSetFalse, RecvLeaves, Connect, JoinAndCreate, Break,
                    vars, Types
    <2>5. QED
        BY <2>1, <2>2, <2>3, <2>4 DEF Types, Unique, SlotsOK
<1>3. QED
    BY <1>1, <1>2

(* One step keeps the table in order.                                       *)
LEMMA TableStep == TableInv /\ [Next]_vars => TableInv'
<1> SUFFICES ASSUME TableInv, [Next]_vars PROVE TableInv'
    OBVIOUS
<1>1. Types
    BY DEF TableInv
<1>2. QED
    BY <1>1, NextCases, TableTrigger, TableClear, TableMark, TableSend, TableScan, TableRest

(* The table is in order from the start.                                    *)
LEMMA TableInit == Init => TableInv
<1> SUFFICES ASSUME Init PROVE TableInv
    OBVIOUS
<1>1. records \in [Slots -> {NoRecord} \cup LiveRecords] /\ \A i \in Slots : ~records[i].active
    BY RecordFacts DEF Init
<1>2. /\ call \in [Callers -> {Idle} \cup Pending]
      /\ \A t \in Callers : call[t].pc = "idle"
    BY CallFacts DEF Init
<1>3. tcp_connected \in BOOLEAN /\ peer \in BOOLEAN
    BY DEF Init
<1>4. sent \in [Slots -> BOOLEAN] /\ bbu = {} /\ lost = {}
    BY DEF Init
<1>5. recv_pc = "done" /\ reconn_pc = "poll"
    BY DEF Init
<1>6. Types
    <2>1. overtaken = {}
        BY DEF Init
    <2>2. QED
        BY <1>1, <1>2, <1>3, <1>4, <1>5, <2>1 DEF Types
<1>7. QED
    BY <1>1, <1>2, <1>6 DEF TableInv, Unique, SlotsOK

(* Three threads search, fill and free the table, with the mutex released   *)
(* around every send, and no alarm is ever in it twice, however the         *)
(* receivers of two connections overlap.                                    *)
THEOREM AlarmTypeTheorem == Spec => []AlarmTypeOK
<1>1. TableInv => AlarmTypeOK
    <2> SUFFICES ASSUME TableInv PROVE AlarmTypeOK
        OBVIOUS
    <2>1. ASSUME NEW a \in Alarms PROVE Cardinality(SlotsOf(a)) <= 1
        <3>1. \A i, j \in SlotsOf(a) : i = j
            BY DEF SlotsOf, Holds, TableInv, Unique
        <3>2. QED
            BY <3>1, AtMostOne
    <2>2. QED
        BY <2>1 DEF TableInv, Types, AlarmTypeOK, LiveRecords
<1>2. QED
    BY <1>1, TableInit, TableStep, PTL DEF Spec

--------------------
(* The turns of the threads                                                 *)

(* A thread is one of the three.                                            *)
LEMMA WhichCaller ==
    /\ Uart \in Callers /\ Recv \in Callers /\ Reconn \in Callers
    /\ \A t \in Callers : t = Uart \/ t = Recv \/ t = Reconn
    /\ TcpAlarm \notin FpgaAlarms /\ TcpAlarm \notin CommandAlarms
    /\ \A a \in FpgaAlarms : a \notin CommandAlarms
BY AlarmAssumption DEF Callers

(* The history of late calls only grows, in steps of its own.               *)
LEMMA LateKept ==
    ASSUME UNCHANGED overtaken
    PROVE  (LateAlarm' <=> LateAlarm) /\ (LateStatus' <=> LateStatus)
BY DEF LateAlarm, LateStatus

(* While a CLEARED is on its way no other thread raises that alarm, but for *)
(* an old receiver that is late.                                            *)
LEMMA TurnTrigger ==
    ASSUME TableInv, TurnInv, NEW t \in Callers, TriggerRecord(t) PROVE TurnInv'
<1> USE DEF TableInv, TurnInv
<1>1. /\ call[t].pc = "trigger" /\ call[t] # Idle
      /\ UNCHANGED <<tcp_connected, recv_pc, reconn_pc, overtaken>>
    BY TriggerCases, CallFacts DEF TriggerRecord
<1>0. (LateAlarm' <=> LateAlarm) /\ (LateStatus' <=> LateStatus)
    BY <1>1, LateKept
<1>2. /\ t = Uart \/ t = Recv
      /\ t = Recv => recv_pc # "done"
    BY <1>1, WhichCaller DEF Who, Turns
<1>3. PICK c : /\ NewCall(t, c)
               /\ c = Idle \/ (c.pc = "send" /\ c.alarm = call[t].alarm)
    <2>1. CASE NewCall(t, Idle)
        BY <2>1
    <2>2. ASSUME NEW i \in Slots, NEW d, NewCall(t, d),
                 d = IF tcp_connected THEN Call("send", call[t].alarm, i) ELSE Idle
          PROVE  d = Idle \/ (d.pc = "send" /\ d.alarm = call[t].alarm)
        <3>1. i \in 0 .. MAX_ALARM_RECORDS + 1 /\ call[t].alarm \in Alarms
            BY AlarmAssumption, TriggerCases DEF Slots
        <3>2. QED
            BY <2>2, <3>1, CallFacts
    <2>3. QED
        BY <2>1, <2>2, TriggerCases
<1>4. Who' /\ Turns'
    BY <1>0, <1>1, <1>2, <1>3, ThreeCallers, WhichCaller DEF Who, Turns, NewCall
<1>5. ClearedIsGone'
    <2> SUFFICES ASSUME NEW u \in Callers, call'[u].pc = "send_clear",
                        ~(LateAlarm' /\ call'[u].alarm = TcpAlarm),
                        NEW i \in Slots, records'[i].active
                 PROVE  records'[i].alarm # call'[u].alarm
        BY DEF ClearedIsGone, Holds, Crossed
    <2>1. u # t /\ call'[u] = call[u] /\ call[u] # Idle
        BY <1>3, CallFacts DEF NewCall
    <2>2. call[u].alarm # call[t].alarm
        <3>1. CASE u = Uart
            BY <1>1, <1>2, <2>1, <3>1, WhichCaller DEF Who
        <3>2. CASE u = Reconn
            <4>1. call[u].alarm = TcpAlarm /\ reconn_pc = "join"
                BY <2>1, <3>2 DEF Who, Turns
            <4>2. recv_pc = "done"
                BY <1>0, <2>1, <4>1 DEF Turns
            <4>3. t = Uart
                BY <1>2, <4>2
            <4>4. QED
                BY <1>1, <4>1, <4>3, WhichCaller DEF Who
        <3>3. CASE u = Recv
            BY <2>1, <3>3 DEF Who
        <3>4. QED
            BY <3>1, <3>2, <3>3, WhichCaller
    <2>3. CASE records' = records
        BY <1>0, <2>1, <2>3 DEF ClearedIsGone, Holds, Crossed
    <2>4. ASSUME NEW j \in Slots,
                 records' = [records EXCEPT ![j] =
                     [active |-> TRUE, alarm |-> call[t].alarm, reported |-> FALSE]]
          PROVE  records'[i].alarm # call'[u].alarm
        <3>1. CASE i = j
            BY <2>1, <2>2, <2>4, <3>1 DEF Types
        <3>2. CASE i # j
            <4>1. records'[i] = records[i]
                BY <2>4, <3>2 DEF Types
            <4>2. QED
                BY <1>0, <2>1, <4>1 DEF ClearedIsGone, Holds, Crossed
        <3>3. QED
            BY <3>1, <3>2
    <2>5. QED
        BY <2>3, <2>4, TriggerCases
<1>6. StillThere'
    <2> DEFINE s == call[Reconn].slot
    <2> SUFFICES ASSUME call'[Reconn].pc \in {"send", "mark"},
                        call'[Reconn].alarm \notin FpgaAlarms
                 PROVE  Holds(call[Reconn].slot, call[Reconn].alarm)'
        BY DEF StillThere
    <2>1. call'[Reconn] = call[Reconn]
        BY <1>2, <1>3, ThreeCallers, WhichCaller DEF NewCall
    <2>2. Holds(s, call[Reconn].alarm) /\ s \in Slots
        BY <2>1, WhichCaller DEF StillThere, SlotsOK
    <2> HIDE DEF s
    <2>3. records'[s] = records[s]
        <3>1. CASE records' = records
            BY <3>1
        <3>2. ASSUME NEW j \in Slots, ~records[j].active,
                     records' = [records EXCEPT ![j] =
                         [active |-> TRUE, alarm |-> call[t].alarm, reported |-> FALSE]]
              PROVE  records'[s] = records[s]
            BY <2>2, <3>2 DEF Types, Holds
        <3>3. QED
            BY <3>1, <3>2, TriggerCases
    <2>4. QED
        BY <2>1, <2>2, <2>3 DEF Holds, s
<1>7. QED
    BY <1>4, <1>5, <1>6

(* A cleared alarm was in one slot only, and is not one that the reconnect  *)
(* thread holds on to.                                                      *)
LEMMA TurnClear ==
    ASSUME TableInv, TurnInv, NEW t \in Callers, ClearRecord(t) PROVE TurnInv'
<1> USE DEF TableInv, TurnInv
<1>1. /\ call[t].pc = "clear" /\ call[t] # Idle
      /\ UNCHANGED <<tcp_connected, recv_pc, reconn_pc, overtaken>>
    BY ClearCases, CallFacts DEF ClearRecord
<1>0. (LateAlarm' <=> LateAlarm) /\ (LateStatus' <=> LateStatus)
    BY <1>1, LateKept
<1>2. t = Uart \/ t = Reconn
    BY <1>1, WhichCaller DEF Who
<1>3. CASE NewCall(t, Idle) /\ UNCHANGED records
    <2>1. Who' /\ Turns'
        BY <1>0, <1>1, <1>2, <1>3, ThreeCallers, WhichCaller, CallFacts DEF Who, Turns, NewCall
    <2>2. ClearedIsGone'
        BY <1>0, <1>3, CallFacts DEF ClearedIsGone, Holds, NewCall, Crossed
    <2>3. StillThere'
        BY <1>3, WhichCaller, CallFacts DEF StillThere, Holds, NewCall
    <2>4. QED
        BY <2>1, <2>2, <2>3
<1>4. ASSUME NEW i \in Slots, NEW c, Holds(i, call[t].alarm),
             records' = [records EXCEPT ![i] = NoRecord],
             c = (IF tcp_connected THEN Call("send_clear", call[t].alarm, 0) ELSE Idle),
             NewCall(t, c)
      PROVE  TurnInv'
    <2>1. 0 \in 0 .. MAX_ALARM_RECORDS + 1 /\ call[t].alarm \in Alarms
        BY AlarmAssumption, ClearCases
    <2>2. c = Idle \/ (c.pc = "send_clear" /\ c.alarm = call[t].alarm)
        BY <1>4, <2>1, CallFacts
    <2>3. Who' /\ Turns'
        BY <1>0, <1>1, <1>2, <1>4, <2>2, ThreeCallers, WhichCaller, CallFacts
           DEF Who, Turns, NewCall
    <2>4. records'[i] = NoRecord /\ \A j \in Slots \ {i} : records'[j] = records[j]
        BY <1>4 DEF Types
    <2>5. \A j \in Slots : records'[j].active =>
                              records'[j] = records[j] /\ records[j].alarm # call[t].alarm
        BY <1>4, <2>4, RecordFacts DEF Unique, Holds
    <2>6. \A u \in Callers : call'[u].pc = "send_clear" =>
             \/ call'[u] = call[u]
             \/ call'[u].alarm = call[t].alarm
        BY <1>4, <2>2, CallFacts DEF NewCall
    <2>7. ClearedIsGone'
        BY <1>0, <2>5, <2>6 DEF ClearedIsGone, Holds, Crossed
    <2>8. StillThere'
        <3> DEFINE s == call[Reconn].slot
        <3> SUFFICES ASSUME call'[Reconn].pc \in {"send", "mark"},
                            call'[Reconn].alarm \notin FpgaAlarms
                     PROVE  Holds(call[Reconn].slot, call[Reconn].alarm)'
            BY DEF StillThere
        <3>1. t = Uart /\ call'[Reconn] = call[Reconn]
            BY <1>2, <1>4, <2>2, CallFacts, WhichCaller DEF NewCall
        <3>2. Holds(s, call[Reconn].alarm) /\ s \in Slots
            BY <3>1, WhichCaller DEF StillThere, SlotsOK
        <3>3. records[i].alarm \in FpgaAlarms
            BY <1>1, <1>4, <3>1 DEF Holds, Who
        <3> HIDE DEF s
        <3>4. records'[s] = records[s]
            BY <2>4, <3>1, <3>2, <3>3 DEF Holds
        <3>5. QED
            BY <3>1, <3>2, <3>4 DEF Holds, s
    <2>9. QED
        BY <2>3, <2>7, <2>8
<1>5. QED
    BY <1>3, <1>4, ClearCases

(* The other steps of a call: a thread goes on with what it is about.       *)
LEMMA TurnGoesOn ==
    ASSUME TableInv, TurnInv, NEW t \in Callers, NEW c, NewCall(t, c), call[t] # Idle,
           call[t].pc \notin {"clear", "trigger"},
           \A j \in Slots : /\ records'[j].active <=> records[j].active
                            /\ records'[j].active => records'[j].alarm = records[j].alarm,
           UNCHANGED <<tcp_connected, recv_pc, reconn_pc, overtaken>>,
           \/ c = Idle
           \/ /\ c.pc = "mark" /\ call[t].pc = "send" /\ c.alarm = call[t].alarm
              /\ c.slot = call[t].slot
           \/ t = Reconn /\ c.pc = "scan"
           \/ t = Reconn /\ c.pc = "send" /\ c.slot \in Slots /\ Holds(c.slot, c.alarm)
    PROVE  TurnInv'
<1> USE DEF TableInv, TurnInv
<1>0. (LateAlarm' <=> LateAlarm) /\ (LateStatus' <=> LateStatus)
    BY LateKept
<1>1. Who' /\ Turns'
    BY <1>0, ThreeCallers, WhichCaller, CallFacts DEF Who, Turns, NewCall
<1>2. \A u \in Callers : call'[u].pc = "send_clear" => call'[u] = call[u]
    BY CallFacts DEF NewCall
<1>3. ClearedIsGone'
    BY <1>0, <1>2 DEF ClearedIsGone, Holds, Crossed
<1>4. StillThere'
    <2>1. SUFFICES ASSUME call'[Reconn].pc \in {"send", "mark"},
                          call'[Reconn].alarm \notin FpgaAlarms
                   PROVE  /\ call'[Reconn].slot \in Slots
                          /\ Holds(call'[Reconn].slot, call'[Reconn].alarm)
        BY DEF StillThere, Holds
    <2>2. CASE t # Reconn
        BY <2>1, <2>2, WhichCaller DEF NewCall, StillThere, SlotsOK
    <2>3. CASE t = Reconn
        BY <2>1, <2>3, WhichCaller, CallFacts DEF NewCall, StillThere, SlotsOK
    <2>4. QED
        BY <2>2, <2>3
<1>5. QED
    BY <1>1, <1>3, <1>4

(* Calls are begun in turn, or noted as late.                               *)
LEMMA TurnBegin ==
    ASSUME TableInv, TurnInv, NEW t \in Callers, NEW c, Begin(t, c),
           c.pc \in {"idle", "trigger", "clear"}
    PROVE  TurnInv'
<1> USE DEF TableInv, TurnInv
<1>1. UNCHANGED <<records, tcp_connected>> /\ NewCall(t, c) /\ call[t] = Idle
    BY DEF Begin
<1>0. /\ LateAlarm => LateAlarm'
      /\ LateStatus' <=> LateStatus
      /\ t = Reconn /\ recv_pc # "done" => LateAlarm'
    BY WhichCaller, ThreeCallers DEF Begin, LateAlarm, LateStatus
<1>2. Who'
    BY <1>1, ThreeCallers, WhichCaller DEF Begin, Who, NewCall
<1>3. Turns'
    <2>1. CASE t = Reconn
        BY <1>0, <1>1, <2>1, ThreeCallers, WhichCaller DEF Begin, Turns, NewCall
    <2>2. CASE t # Reconn
        <3>1. UNCHANGED <<call[Reconn], reconn_pc>> /\ recv_pc' \in {recv_pc, "leave"}
              /\ (recv_pc = "done" => recv_pc' = "done" /\ UNCHANGED call[Recv])
            BY <1>1, <2>2, ThreeCallers, WhichCaller DEF Begin, Turns, NewCall
        <3>2. recv_pc' = "leave" => recv_pc \in {"trigger", "leave"}
            BY <2>2, ThreeCallers DEF Begin
        <3>3. QED
            BY <1>0, <1>1, <3>1, <3>2 DEF Turns
    <2>3. QED
        BY <2>1, <2>2
<1>4. ClearedIsGone'
    BY <1>0, <1>1 DEF ClearedIsGone, Holds, NewCall, Crossed
<1>5. StillThere'
    BY <1>1, WhichCaller DEF StillThere, Holds, NewCall
<1>6. QED
    BY <1>2, <1>3, <1>4, <1>5

(* The reconnect thread reports a connection that no receiver runs on, and  *)
(* the new receiver comes after the report.                                 *)
LEMMA TurnRest ==
    ASSUME TableInv, TurnInv, SetTrue \/ Rest PROVE TurnInv'
<1> USE DEF TableInv, TurnInv
<1>1. CASE SetTrue
    <2>0. (LateAlarm' <=> LateAlarm) /\ (LateStatus' <=> LateStatus)
        BY <1>1, SetTrueCases, LateKept
    <2>1. Call("scan", TcpAlarm, 1).pc = "scan"
        BY DEF Call
    <2>2. CASE UNCHANGED call
        BY <1>1, <2>0, <2>2, SetTrueCases
           DEF Who, Turns, ClearedIsGone, StillThere, Holds, Crossed
    <2>3. CASE NewCall(Reconn, Call("scan", TcpAlarm, 1))
        <3>1. Who' /\ Turns'
            BY <1>1, <2>0, <2>1, <2>3, SetTrueCases, ThreeCallers, WhichCaller
               DEF Who, Turns, NewCall
        <3>2. ClearedIsGone' /\ StillThere'
            BY <1>1, <2>0, <2>1, <2>3, SetTrueCases, WhichCaller
               DEF ClearedIsGone, StillThere, Holds, NewCall, Crossed
        <3>3. QED
            BY <3>1, <3>2
    <2>4. QED
        BY <1>1, <2>2, <2>3, SetTrueCases
<1>2. CASE Rest
    <2>1. UNCHANGED <<records, call>>
        BY <1>2 DEF Rest, RecvNotices, RecvSetFalse, RecvLeaves, Connect, JoinAndCreate, Break,
                    vars, mgrVars
    <2>2. Who'
        BY <1>2, <2>1 DEF Rest, RecvNotices, RecvSetFalse, RecvLeaves, Connect, JoinAndCreate,
                    Break, vars, Who, Turns
    <2>3. (LateAlarm => LateAlarm') /\ (LateStatus => LateStatus')
        BY <1>2 DEF Rest, RecvNotices, RecvSetFalse, RecvLeaves, Connect, JoinAndCreate,
                    Break, vars, LateAlarm, LateStatus
    <2>4. Turns'
        <3>1. CASE RecvSetFalse
            <4>1. reconn_pc \in {"clear", "join"} => LateStatus'
                BY <3>1 DEF RecvSetFalse, LateStatus
            <4>2. QED
                BY <2>1, <2>3, <3>1, <4>1 DEF RecvSetFalse, Turns
        <3>2. CASE RecvNotices \/ RecvLeaves
            BY <2>1, <2>3, <3>2 DEF RecvNotices, RecvLeaves, mgrVars, Turns
        <3>3. CASE Connect \/ Break \/ UNCHANGED vars
            BY <2>1, <2>3, <3>3 DEF Connect, Break, vars, mgrVars, Turns
        <3>4. CASE JoinAndCreate
            BY <2>1, <2>3, <3>4, CallFacts DEF JoinAndCreate, mgrVars, Turns
        <3>5. QED
            BY <1>2, <3>1, <3>2, <3>3, <3>4 DEF Rest
    <2>5. QED
        BY <2>1, <2>2, <2>3, <2>4 DEF ClearedIsGone, StillThere, Holds, Crossed
<1>3. QED
    BY <1>1, <1>2

(* One step keeps the turns.                                                *)
LEMMA TurnStep ==
    ASSUME TableInv, TurnInv, [Next]_vars PROVE TurnInv'
<1>0. Types /\ SlotsOK
    BY DEF TableInv
<1>1. ASSUME NEW t \in Callers, SendActive(t) PROVE TurnInv'
    <2> DEFINE c == Call("mark", call[t].alarm, call[t].slot)
    <2>1. /\ call[t].pc = "send" /\ NewCall(t, c) /\ records' = records
          /\ UNCHANGED <<tcp_connected, recv_pc, reconn_pc, overtaken>>
        BY <1>0, <1>1, SendCases DEF SendActive, mgrVars
    <2>2. c.pc = "mark" /\ c.alarm = call[t].alarm /\ c.slot = call[t].slot /\ call[t] # Idle
        BY <2>1, CallFacts DEF Call
    <2> HIDE DEF c
    <2>3. QED
        BY <2>1, <2>2, TurnGoesOn
<1>2. ASSUME NEW t \in Callers, MarkReported(t) PROVE TurnInv'
    <2> DEFINE c == IF t = Reconn THEN Call("scan", TcpAlarm, call[t].slot + 1) ELSE Idle
    <2>1. /\ call[t].pc = "mark" /\ NewCall(t, c)
          /\ UNCHANGED <<tcp_connected, recv_pc, reconn_pc, overtaken>>
        BY <1>0, <1>2, MarkCases DEF MarkReported
    <2>2. /\ call[t] # Idle /\ (c = Idle \/ (t = Reconn /\ c.pc = "scan"))
        BY <2>1, CallFacts DEF Call
    <2>3. \A j \in Slots : /\ records'[j].active <=> records[j].active
                           /\ records'[j].active => records'[j].alarm = records[j].alarm
        BY <1>2, MarkRecords
    <2> HIDE DEF c
    <2>4. QED
        BY <2>1, <2>2, <2>3, TurnGoesOn
<1>3. ASSUME NEW t \in Callers, SendCleared(t) PROVE TurnInv'
    <2>1. /\ call[t].pc = "send_clear" /\ NewCall(t, Idle) /\ records' = records
          /\ UNCHANGED <<tcp_connected, recv_pc, reconn_pc, overtaken>>
        BY <1>0, <1>3, ClearedCases DEF SendCleared, mgrVars
    <2>2. call[t] # Idle
        BY <2>1, CallFacts
    <2>3. QED
        BY <2>1, <2>2, TurnGoesOn
<1>4. CASE ScanPending
    <2>1. PICK c : /\ NewCall(Reconn, c)
                   /\ \/ c = Idle \/ c.pc = "scan"
                      \/ c.pc = "send" /\ c.slot \in Slots /\ Holds(c.slot, c.alarm)
        <3>1. \A a, i : /\ Call("scan", a, i).pc = "scan" /\ Call("send", a, i).pc = "send"
                        /\ Call("send", a, i).slot = i /\ Call("send", a, i).alarm = a
            BY DEF Call
        <3>2. QED
            BY <1>0, <1>4, <3>1, ScanCases DEF Holds
    <2>2. /\ call[Reconn] # Idle /\ call[Reconn].pc = "scan" /\ records' = records
          /\ UNCHANGED <<tcp_connected, recv_pc, reconn_pc, overtaken>>
        BY <1>4, CallFacts DEF ScanPending, mgrVars
    <2>3. QED
        BY <2>1, <2>2, TurnGoesOn, WhichCaller
<1>5. QED
    BY <1>0, <1>1, <1>2, <1>3, <1>4, NextCases, TurnTrigger, TurnClear, TurnBegin, TurnRest

--------------------
(* What was reported, and what is still to be                               *)

(* A step keeps the reports in order when it keeps what was told of every   *)
(* slot it leaves filled, and leaves no slot it fills or marks untold.      *)
LEMMA ReportKeeps ==
    ASSUME ReportInv, LateStatus => LateStatus',
           \A i \in Slots : records'[i].active /\ ~Unsure(records[i].alarm)' =>
              \/ /\ records[i].active /\ records'[i].alarm = records[i].alarm
                 /\ Told(i) => Told(i)'
                 /\ records'[i].reported => records[i].reported \/ Told(i)'
                 /\ tcp_connected' => Told(i)' \/ (~records'[i].reported /\ Ahead(i)')
              \/ /\ ~records'[i].reported
                 /\ tcp_connected' => Told(i)'
                 /\ \A t \in Callers :
                       call'[t].pc = "mark" /\ call'[t].alarm = records'[i].alarm => Told(i)',
           \A t \in Callers : call'[t].pc = "mark" =>
              /\ call'[t].alarm = call[t].alarm
              /\ \/ call[t].pc = "mark"
                 \/ \A i \in Slots : Holds(i, call[t].alarm) => Told(i)'
    PROVE  ReportInv'
<1>0. \A i \in Slots : records'[i].alarm = records[i].alarm /\ ~Unsure(records[i].alarm)' =>
                          ~Unsure(records[i].alarm)
    BY DEF Unsure
<1>1. ASSUME NEW t \in Callers, call'[t].pc = "mark", ~Unsure(call[t].alarm)',
             NEW i \in Slots, records'[i].active, records'[i].alarm = call'[t].alarm
      PROVE  Told(i)'
    <2>1. ~Unsure(records[i].alarm)'
        BY <1>1 DEF Unsure
    <2>2. ~Unsure(call[t].alarm)
        BY <1>1 DEF Unsure
    <2>3. QED
        BY <1>1, <2>1, <2>2 DEF ReportInv, Holds
<1>2. ASSUME NEW i \in Slots, records'[i].active, ~Unsure(records[i].alarm)'
      PROVE  /\ records'[i].reported => Told(i)'
             /\ tcp_connected' => Told(i)' \/ (~records'[i].reported /\ Ahead(i)')
    BY <1>0, <1>2 DEF ReportInv
<1>3. QED
    BY <1>1, <1>2 DEF ReportInv, Holds

(* A step that fills and marks no slot keeps the reports in order when it   *)
(* keeps what was told of the slots it leaves filled.                       *)
LEMMA ReportStays ==
    ASSUME ReportInv, LateStatus => LateStatus', tcp_connected' => tcp_connected,
           \A i \in Slots : records'[i].active =>
              /\ records'[i] = records[i]
              /\ Told(i) => Told(i)'
              /\ ~records[i].reported /\ Ahead(i) => Told(i)' \/ Ahead(i)',
           \A t \in Callers : call'[t].pc = "mark" => call'[t] = call[t]
    PROVE  ReportInv'
<1>1. \A i \in Slots : records'[i].active /\ ~Unsure(records[i].alarm)' =>
         /\ records[i].active /\ records'[i].alarm = records[i].alarm
         /\ Told(i) => Told(i)'
         /\ records'[i].reported => records[i].reported \/ Told(i)'
         /\ tcp_connected' => Told(i)' \/ (~records'[i].reported /\ Ahead(i)')
    <2> SUFFICES ASSUME NEW i \in Slots, records'[i].active, ~Unsure(records[i].alarm)'
                 PROVE  tcp_connected' => Told(i)' \/ (~records'[i].reported /\ Ahead(i)')
        OBVIOUS
    <2>1. ~Unsure(records[i].alarm) /\ records'[i] = records[i]
        BY DEF Unsure
    <2>2. QED
        BY <2>1 DEF ReportInv
<1>2. QED
    BY <1>1, ReportKeeps

(* A send under way stays under way when another thread moves.              *)
LEMMA SendingStays ==
    ASSUME NEW t \in Callers, NEW c, NewCall(t, c), call[t].pc # "send", NEW a,
           Sending(call, a)
    PROVE  Sending(call', a)
BY DEF Sending, NewCall

(* Filling a slot: connected, its alarm is sent next; not connected, nobody *)
(* is about to mark it.                                                     *)
LEMMA ReportTrigger ==
    ASSUME TableInv, TurnInv, ReportInv, NEW t \in Callers, TriggerRecord(t) PROVE ReportInv'
<1> USE DEF TableInv, TurnInv
<1>1. /\ call[t].pc = "trigger" /\ call[t] # Idle /\ t # Reconn
      /\ UNCHANGED <<tcp_connected, bbu, sent, lost, overtaken>>
    BY TriggerCases, CallFacts DEF TriggerRecord, Who, history
<1>0. (LateAlarm' <=> LateAlarm) /\ (LateStatus' <=> LateStatus)
    BY <1>1, LateKept
<1>2. CASE NewCall(t, Idle) /\ UNCHANGED records
    <2>1. \A a : Sending(call, a) => Sending(call', a)
        BY <1>1, <1>2, SendingStays
    <2>2. \A i \in Slots : (Told(i) => Told(i)') /\ (Ahead(i) => Ahead(i)')
        BY <1>0, <1>1, <1>2, <2>1, WhichCaller DEF Told, Ahead, NewCall, Crossed
    <2>3. \A u \in Callers : call'[u].pc = "mark" => call'[u] = call[u]
        BY <1>2, CallFacts DEF NewCall
    <2>4. QED
        BY <1>0, <1>1, <1>2, <2>2, <2>3, ReportStays
<1>3. ASSUME NEW k \in Slots, NEW c, ~records[k].active,
             \A j \in Slots : ~Holds(j, call[t].alarm),
             records' = [records EXCEPT ![k] =
                 [active |-> TRUE, alarm |-> call[t].alarm, reported |-> FALSE]],
             c = (IF tcp_connected THEN Call("send", call[t].alarm, k) ELSE Idle), NewCall(t, c)
      PROVE  ReportInv'
    <2>1. k \in 0 .. MAX_ALARM_RECORDS + 1 /\ call[t].alarm \in Alarms
        BY AlarmAssumption, TriggerCases DEF Slots
    <2>2. /\ tcp_connected => c.pc = "send" /\ c.alarm = call[t].alarm
          /\ ~tcp_connected => c.pc = "idle"
        BY <1>3, <2>1, CallFacts
    <2>3. /\ records'[k].alarm = call[t].alarm /\ ~records'[k].reported
          /\ \A i \in Slots \ {k} : records'[i] = records[i]
        BY <1>3 DEF Types
    <2>4. \A u \in Callers : call'[u].pc = "mark" => u # t /\ call'[u] = call[u]
        BY <1>3, <2>2 DEF NewCall
    <2>5. tcp_connected => Told(k)'
        BY <1>3, <2>2, <2>3 DEF Told, Sending, NewCall
    <2>6. ASSUME ~tcp_connected, ~Unsure(call[t].alarm), NEW u \in Callers,
                 call'[u].pc = "mark"
          PROVE  call'[u].alarm # call[t].alarm
        <3>1. u # t /\ call'[u] = call[u] /\ call[u] # Idle
            BY <2>4, <2>6, CallFacts
        <3>2. CASE u # Reconn
            BY <1>1, <3>1, <3>2, WhichCaller DEF Who
        <3>3. CASE u = Reconn /\ call[u].alarm \in FpgaAlarms
            <4>1. LateStatus
                BY <2>6, <3>1, <3>3 DEF Turns
            <4>2. QED
                BY <2>6, <3>1, <3>3, <4>1 DEF Unsure
        <3>4. CASE u = Reconn /\ call[u].alarm \notin FpgaAlarms
            <4>1. call[u].slot \in Slots /\ Holds(call[u].slot, call[u].alarm)
                BY <2>6, <3>1, <3>4 DEF StillThere, SlotsOK
            <4>2. QED
                BY <1>3, <3>1, <4>1
        <3>5. QED
            BY <3>2, <3>3, <3>4
    <2>7. ASSUME NEW i \in Slots, i # k, records'[i].active
          PROVE  /\ records'[i] = records[i]
                 /\ Told(i) => Told(i)'
                 /\ Ahead(i) => Ahead(i)'
        <3>1. records'[i] = records[i]
            BY <2>3, <2>7
        <3>2. Sending(call, records[i].alarm) => Sending(call', records[i].alarm)
            BY <1>1, <1>3, SendingStays
        <3>3. Told(i) => Told(i)'
            BY <1>0, <1>1, <3>1, <3>2 DEF Told, Crossed
        <3>4. call'[Reconn] = call[Reconn]
            BY <1>1, <1>3, WhichCaller DEF NewCall
        <3>5. QED
            BY <3>1, <3>3, <3>4 DEF Ahead
    <2>8. \A i \in Slots : records'[i].active /\ ~Unsure(records[i].alarm)' =>
              \/ /\ records[i].active /\ records'[i].alarm = records[i].alarm
                 /\ Told(i) => Told(i)'
                 /\ records'[i].reported => records[i].reported \/ Told(i)'
                 /\ tcp_connected' => Told(i)' \/ (~records'[i].reported /\ Ahead(i)')
              \/ /\ ~records'[i].reported
                 /\ tcp_connected' => Told(i)'
                 /\ \A u \in Callers :
                       call'[u].pc = "mark" /\ call'[u].alarm = records'[i].alarm => Told(i)'
        <3> TAKE i \in Slots
        <3>1. CASE i = k
            <4>1. ~Unsure(records[i].alarm)' => ~Unsure(call[t].alarm)
                BY <1>0, <2>3, <3>1 DEF Unsure
            <4>2. QED
                BY <1>1, <2>3, <2>5, <2>6, <3>1, <4>1 DEF Types
        <3>2. CASE i # k
            <4>1. ASSUME records'[i].active, ~Unsure(records[i].alarm)'
                  PROVE  ~Unsure(records[i].alarm)
                BY <1>0, <2>7, <3>2, <4>1 DEF Unsure
            <4>2. QED
                BY <1>1, <2>7, <3>2, <4>1 DEF ReportInv
        <3>3. QED
            BY <3>1, <3>2
    <2>9. QED
        BY <1>0, <2>4, <2>8, ReportKeeps
<1>4. QED
    BY <1>2, <1>3, TriggerCases

(* Freeing a slot concerns no other.                                        *)
LEMMA ReportClear ==
    ASSUME TableInv, TurnInv, ReportInv, NEW t \in Callers, ClearRecord(t) PROVE ReportInv'
<1> USE DEF TableInv, TurnInv
<1>1. /\ call[t].pc = "clear" /\ UNCHANGED <<tcp_connected, bbu, overtaken>>
    BY ClearCases DEF ClearRecord
<1>0. (LateAlarm' <=> LateAlarm) /\ (LateStatus' <=> LateStatus)
    BY <1>1, LateKept
<1>2. PICK c : NewCall(t, c) /\ c.pc \in {"idle", "send_clear"}
    <2>1. \A a, i : Call("send_clear", a, i).pc = "send_clear"
        BY DEF Call
    <2>2. QED
        BY <2>1, ClearCases, CallFacts
<1>3. \A i \in Slots : records'[i].active =>
         /\ records'[i] = records[i] /\ sent'[i] = sent[i]
         /\ records[i].alarm \in lost => records[i].alarm \in lost'
    <2>1. CASE UNCHANGED <<records, history>>
        BY <2>1 DEF history
    <2>2. ASSUME NEW k \in Slots, Holds(k, call[t].alarm),
                 records' = [records EXCEPT ![k] = NoRecord],
                 sent' = [sent EXCEPT ![k] = FALSE], lost' = lost \ {call[t].alarm},
                 NEW i \in Slots, records'[i].active
          PROVE  /\ records'[i] = records[i] /\ sent'[i] = sent[i]
                 /\ records[i].alarm \in lost => records[i].alarm \in lost'
        <3>1. i # k
            BY <2>2, RecordFacts DEF Types
        <3>2. records'[i] = records[i] /\ sent'[i] = sent[i]
            BY <2>2, <3>1 DEF Types
        <3>3. records[i].alarm # call[t].alarm
            BY <2>2, <3>1, <3>2 DEF Unique, Holds
        <3>4. QED
            BY <2>2, <3>2, <3>3
    <2>3. QED
        BY <2>1, <2>2, ClearCases
<1>4. \A a : Sending(call, a) => Sending(call', a)
    BY <1>1, <1>2, SendingStays
<1>5. \A i \in Slots : records'[i].active => (Told(i) => Told(i)') /\ (Ahead(i) => Ahead(i)')
    BY <1>0, <1>1, <1>2, <1>3, <1>4, WhichCaller DEF Told, Ahead, NewCall, Crossed
<1>6. \A u \in Callers : call'[u].pc = "mark" => call'[u] = call[u]
    BY <1>2 DEF NewCall
<1>7. QED
    BY <1>0, <1>1, <1>3, <1>5, <1>6, ReportStays

(* A slot is marked when its alarm has been sent, or another thread is      *)
(* about to send it again.                                                  *)
LEMMA ReportMark ==
    ASSUME TableInv, TurnInv, ReportInv, NEW t \in Callers, MarkReported(t) PROVE ReportInv'
<1> USE DEF TableInv, TurnInv
<1> DEFINE s == call[t].slot
           c == IF t = Reconn THEN Call("scan", TcpAlarm, s + 1) ELSE Idle
<1>1. /\ call[t].pc = "mark" /\ UNCHANGED <<tcp_connected, bbu, sent, lost, overtaken>>
      /\ NewCall(t, c) /\ s \in Slots
    BY MarkCases DEF MarkReported, history
<1>0. (LateAlarm' <=> LateAlarm) /\ (LateStatus' <=> LateStatus)
    BY <1>1, LateKept
<1>2. /\ t = Reconn => c.pc = "scan" /\ c.slot = s + 1
      /\ t # Reconn => c.pc = "idle"
    BY CallFacts DEF Call
<1> HIDE DEF c, s
<1>3. \A a : Sending(call, a) => Sending(call', a)
    BY <1>1, SendingStays
<1>4. ASSUME NEW i \in Slots, records'[i].active, ~Unsure(records[i].alarm)'
      PROVE  /\ records[i].active /\ records'[i].alarm = records[i].alarm
             /\ Told(i) => Told(i)'
             /\ records'[i].reported => records[i].reported \/ Told(i)'
             /\ tcp_connected' => Told(i)' \/ (~records'[i].reported /\ Ahead(i)')
    <2>1. /\ records[i].active /\ records'[i].alarm = records[i].alarm
          /\ records'[i] = records[i] \/ Holds(i, call[t].alarm)
        BY <1>4, MarkRecords
    <2>0. ~Unsure(records[i].alarm)
        BY <1>0, <1>4, <2>1 DEF Unsure
    <2>2. Told(i) => Told(i)'
        BY <1>0, <1>1, <1>3, <2>1 DEF Told, Crossed
    <2>3. Ahead(i) => Ahead(i)'
        <3>1. CASE t # Reconn
            BY <1>1, <3>1, WhichCaller DEF Ahead, NewCall
        <3>2. CASE t = Reconn
            <4>1. Ahead(i) => s < i
                BY <1>1, <3>2 DEF Ahead, s
            <4>2. s < i => s + 1 <= i
                BY <1>1, AlarmAssumption DEF Slots
            <4>3. QED
                BY <1>1, <1>2, <3>2, <4>1, <4>2 DEF Ahead, NewCall
        <3>3. QED
            BY <3>1, <3>2
    <2>4. Holds(i, call[t].alarm) => Told(i)
        BY <1>1, <2>0 DEF ReportInv, Holds
    <2>5. QED
        BY <1>1, <1>4, <2>0, <2>1, <2>2, <2>3, <2>4 DEF ReportInv
<1>5. \A u \in Callers : call'[u].pc = "mark" => call'[u] = call[u]
    BY <1>1, <1>2 DEF NewCall
<1>6. QED
    BY <1>0, <1>4, <1>5, ReportKeeps

(* Sending tells the BBU of every slot that holds the alarm.                *)
LEMMA ReportSend ==
    ASSUME TableInv, TurnInv, ReportInv, NEW t \in Callers, SendActive(t) PROVE ReportInv'
<1> USE DEF TableInv, TurnInv
<1> DEFINE a == call[t].alarm
           c == Call("mark", a, call[t].slot)
<1>1. /\ call[t].pc = "send" /\ UNCHANGED <<tcp_connected, records, overtaken>>
      /\ NewCall(t, c) /\ bbu \cup lost \subseteq bbu' \cup lost'
      /\ a \in Active => a \in bbu' \cup lost'
      /\ sent' = [i \in Slots |-> sent[i] \/ Holds(i, a)] /\ a \in Alarms
    BY SendCases DEF SendActive, mgrVars
<1>0. (LateAlarm' <=> LateAlarm) /\ (LateStatus' <=> LateStatus)
    BY <1>1, LateKept
<1>2. c.pc = "mark" /\ c.alarm = a /\ c.slot = call[t].slot
    BY DEF Call
<1> HIDE DEF c
<1>3. ASSUME NEW i \in Slots, records[i].active
      PROVE  /\ Told(i) => Told(i)'
             /\ records[i].alarm = a => Told(i)'
             /\ Ahead(i) => Ahead(i)'
    <2>1. ASSUME records[i].alarm = a PROVE Told(i)'
        <3>1. a \in Active
            BY <1>1, <1>3, <2>1 DEF Active, SlotsOf, Holds
        <3>2. QED
            BY <1>1, <1>3, <2>1, <3>1 DEF Told, Holds
    <2>2. ASSUME records[i].alarm # a, Told(i) PROVE Told(i)'
        <3>1. sent[i] => sent'[i]
            BY <1>1
        <3>2. Sending(call, records[i].alarm) => Sending(call', records[i].alarm)
            BY <1>1, <2>2 DEF Sending, NewCall
        <3>3. QED
            BY <1>0, <1>1, <2>2, <3>1, <3>2 DEF Told, Crossed
    <2>3. Ahead(i) => Ahead(i)'
        BY <1>1, <1>2, WhichCaller DEF Ahead, NewCall
    <2>4. QED
        BY <2>1, <2>2, <2>3
<1>4. \A i \in Slots : records'[i].active /\ ~Unsure(records[i].alarm)' =>
         /\ records[i].active /\ records'[i].alarm = records[i].alarm
         /\ Told(i) => Told(i)'
         /\ records'[i].reported => records[i].reported \/ Told(i)'
         /\ tcp_connected' => Told(i)' \/ (~records'[i].reported /\ Ahead(i)')
    BY <1>0, <1>1, <1>3 DEF ReportInv, Unsure
<1>5. \A u \in Callers : call'[u].pc = "mark" =>
         /\ call'[u].alarm = call[u].alarm
         /\ call[u].pc = "mark" \/ \A i \in Slots : Holds(i, call[u].alarm) => Told(i)'
    BY <1>1, <1>2, <1>3 DEF NewCall, Holds
<1>6. QED
    BY <1>0, <1>4, <1>5, ReportKeeps

(* CLEARED takes from the BBU an alarm that is not in the table.            *)
LEMMA ReportCleared ==
    ASSUME TableInv, TurnInv, ReportInv, NEW t \in Callers, SendCleared(t) PROVE ReportInv'
<1> USE DEF TableInv, TurnInv
<1> DEFINE a == call[t].alarm
<1>1. /\ call[t].pc = "send_clear" /\ UNCHANGED <<tcp_connected, records, sent, lost, overtaken>>
      /\ NewCall(t, Idle) /\ bbu \ {a} \subseteq bbu'
    BY ClearedCases DEF SendCleared, mgrVars, history
<1>0. (LateAlarm' <=> LateAlarm) /\ (LateStatus' <=> LateStatus)
    BY <1>1, LateKept
<1>2. \A i \in Slots : records[i].active => records[i].alarm # a \/ Crossed(a)
    BY <1>1 DEF ClearedIsGone, Holds
<1>3. \A b : Sending(call, b) => Sending(call', b)
    BY <1>1, SendingStays
<1>4. \A i \in Slots : records[i].active => (Told(i) => Told(i)') /\ (Ahead(i) => Ahead(i)')
    <2> TAKE i \in Slots
    <2>1. ASSUME records[i].active, Told(i) PROVE Told(i)'
        <3>1. CASE records[i].alarm # a
            BY <1>0, <1>1, <1>3, <2>1, <3>1 DEF Told, Crossed
        <3>2. CASE Crossed(records[i].alarm)
            BY <1>0, <1>1, <1>3, <2>1, <3>2 DEF Told, Crossed
        <3>3. QED
            BY <1>2, <2>1, <3>1, <3>2
    <2>2. QED
        BY <1>1, <2>1, WhichCaller DEF Ahead, NewCall
<1>5. \A u \in Callers : call'[u].pc = "mark" => call'[u] = call[u]
    BY <1>1, CallFacts DEF NewCall
<1>6. QED
    BY <1>0, <1>1, <1>4, <1>5, ReportStays

(* The scan passes no slot whose alarm is untold.                           *)
LEMMA ReportScan ==
    ASSUME TableInv, TurnInv, ReportInv, ScanPending PROVE ReportInv'
<1> USE DEF TableInv, TurnInv
<1> DEFINE s == call[Reconn].slot
<1>1. /\ call[Reconn].pc = "scan" /\ s \in 1 .. MAX_ALARM_RECORDS + 1
      /\ UNCHANGED <<tcp_connected, records, bbu, sent, lost, overtaken>>
    BY ScanCases DEF ScanPending, mgrVars, history
<1>0. (LateAlarm' <=> LateAlarm) /\ (LateStatus' <=> LateStatus)
    BY <1>1, LateKept
<1>2. PICK c : /\ NewCall(Reconn, c)
               /\ \/ s = MAX_ALARM_RECORDS + 1 /\ c.pc = "idle"
                  \/ /\ s \in Slots /\ records[s].active /\ c.pc = "send"
                     /\ c.alarm = records[s].alarm /\ c.slot = s
                  \/ /\ s \in Slots /\ ~(records[s].active /\ ~records[s].reported)
                     /\ c.pc = "scan" /\ c.slot = s + 1
    <2>1. \A a, i : /\ Call("scan", a, i).pc = "scan" /\ Call("scan", a, i).slot = i
                    /\ Call("send", a, i).pc = "send" /\ Call("send", a, i).slot = i
                    /\ Call("send", a, i).alarm = a
        BY DEF Call
    <2>2. QED
        BY <2>1, ScanCases, CallFacts
<1>3. \A b : Sending(call, b) => Sending(call', b)
    BY <1>1, <1>2, SendingStays, WhichCaller
<1>4. ASSUME NEW i \in Slots, records[i].active
      PROVE  /\ Told(i) => Told(i)'
             /\ ~records[i].reported /\ Ahead(i) => Told(i)' \/ Ahead(i)'
    <2>1. Told(i) => Told(i)'
        BY <1>0, <1>1, <1>3 DEF Told, Crossed
    <2>2. ASSUME ~records[i].reported, Ahead(i) PROVE Told(i)' \/ Ahead(i)'
        <3>1. s <= i /\ i \in Nat /\ s \in Nat /\ i <= MAX_ALARM_RECORDS
            BY <1>1, <2>2, AlarmAssumption DEF Ahead, Slots
        <3>2. call'[Reconn] = c
            BY <1>2 DEF NewCall
        <3>3. CASE s = i
            <4>1. c.pc = "send" /\ c.alarm = records[i].alarm
                BY <1>2, <1>4, <2>2, <3>1, <3>3, AlarmAssumption
            <4>2. Sending(call', records[i].alarm)
                BY <3>2, <4>1, WhichCaller DEF Sending
            <4>3. QED
                BY <1>1, <4>2 DEF Told
        <3>4. CASE s < i
            <4>1. \/ c.pc = "send" /\ c.slot < i
                  \/ c.pc = "scan" /\ c.slot <= i
                BY <1>2, <3>1, <3>4, AlarmAssumption
            <4>2. QED
                BY <3>2, <4>1 DEF Ahead
        <3>5. QED
            BY <3>1, <3>3, <3>4
    <2>3. QED
        BY <2>1, <2>2
<1>5. \A u \in Callers : call'[u].pc = "mark" => call'[u] = call[u]
    BY <1>2 DEF NewCall
<1>6. QED
    BY <1>0, <1>1, <1>4, <1>5, ReportStays

(* A new connection puts every slot before the scan, or finds the old one   *)
(* never reported lost.                                                     *)
LEMMA ReportSetTrue ==
    ASSUME TableInv, TurnInv, ReportInv, SetTrue PROVE ReportInv'
<1> USE DEF TableInv, TurnInv
<1>1. UNCHANGED <<records, bbu, sent, lost, overtaken>>
    BY SetTrueCases DEF history
<1>0. (LateAlarm' <=> LateAlarm) /\ (LateStatus' <=> LateStatus)
    BY <1>1, LateKept
<1>2. CASE tcp_connected /\ UNCHANGED call
    <2>1. \A i \in Slots : (Told(i) => Told(i)') /\ (Ahead(i) => Ahead(i)')
        BY <1>0, <1>1, <1>2 DEF Told, Ahead, Sending, Crossed
    <2>2. QED
        BY <1>0, <1>1, <1>2, <2>1, ReportStays
<1>3. CASE NewCall(Reconn, Call("scan", TcpAlarm, 1))
    <2>1. Call("scan", TcpAlarm, 1).pc = "scan" /\ Call("scan", TcpAlarm, 1).slot = 1
        BY DEF Call
    <2>2. call[Reconn].pc = "idle"
        BY SetTrueCases, CallFacts DEF Turns
    <2>3. \A b : Sending(call, b) => Sending(call', b)
        BY <1>3, <2>2, SendingStays, WhichCaller
    <2>4. \A i \in Slots : (Told(i) => Told(i)') /\ Ahead(i)'
        <3> TAKE i \in Slots
        <3>1. 1 <= i
            BY AlarmAssumption DEF Slots
        <3>2. Ahead(i)'
            BY <1>3, <2>1, <3>1 DEF Ahead, NewCall
        <3>3. QED
            BY <1>0, <1>1, <2>3, <3>2 DEF Told, Crossed
    <2>5. \A u \in Callers : call'[u].pc = "mark" => call'[u] = call[u]
        BY <1>3, <2>1 DEF NewCall
    <2>6. \A i \in Slots : records'[i].active /\ ~Unsure(records[i].alarm)' =>
             /\ records[i].active /\ records'[i].alarm = records[i].alarm
             /\ Told(i) => Told(i)'
             /\ records'[i].reported => records[i].reported \/ Told(i)'
             /\ tcp_connected' => Told(i)' \/ (~records'[i].reported /\ Ahead(i)')
        BY <1>0, <1>1, <2>4 DEF ReportInv, Unsure
    <2>7. QED
        BY <1>0, <2>5, <2>6, ReportKeeps
<1>4. QED
    BY <1>2, <1>3, SetTrueCases

(* The other steps.                                                         *)
LEMMA ReportRest ==
    ASSUME TableInv, TurnInv, ReportInv,
           \/ \E t \in Callers : \E c : Begin(t, c) /\ c.pc \in {"idle", "trigger", "clear"}
           \/ Rest
    PROVE  ReportInv'
<1>1. ASSUME NEW t \in Callers, NEW c, Begin(t, c), c.pc \in {"idle", "trigger", "clear"}
      PROVE  ReportInv'
    <2>1. /\ UNCHANGED <<records, bbu, sent, lost, tcp_connected>> /\ NewCall(t, c)
          /\ call[t].pc = "idle"
        BY <1>1, CallFacts DEF Begin, history
    <2>0. (LateAlarm => LateAlarm') /\ (LateStatus => LateStatus')
        BY <1>1 DEF Begin, LateAlarm, LateStatus
    <2>2. \A b : Sending(call, b) => Sending(call', b)
        BY <2>1, SendingStays
    <2>3. \A i \in Slots : (Told(i) => Told(i)') /\ (Ahead(i) => Ahead(i)')
        BY <2>0, <2>1, <2>2, WhichCaller DEF Told, Ahead, NewCall, Crossed
    <2>4. \A u \in Callers : call'[u].pc = "mark" => call'[u] = call[u]
        BY <1>1, <2>1 DEF NewCall
    <2>5. QED
        BY <2>0, <2>1, <2>3, <2>4, ReportStays
<1>2. CASE Rest
    <2>1. /\ UNCHANGED <<records, bbu, sent, lost, call>>
          /\ tcp_connected' => tcp_connected
        BY <1>2 DEF Rest, RecvNotices, RecvSetFalse, RecvLeaves, Connect, JoinAndCreate, Break,
                    vars, mgrVars, history
    <2>0. (LateAlarm => LateAlarm') /\ (LateStatus => LateStatus')
        BY <1>2 DEF Rest, RecvNotices, RecvSetFalse, RecvLeaves, Connect, JoinAndCreate, Break,
                    vars, LateAlarm, LateStatus
    <2>2. \A i \in Slots : (Told(i) => Told(i)') /\ (Ahead(i) => Ahead(i)')
        BY <2>0, <2>1 DEF Told, Ahead, Sending, Crossed
    <2>3. QED
        BY <2>0, <2>1, <2>2, ReportStays
<1>3. QED
    BY <1>1, <1>2

(* One step keeps the reports in order.                                     *)
LEMMA ReportStep ==
    ASSUME TableInv, TurnInv, ReportInv, [Next]_vars PROVE ReportInv'
<1>1. Types
    BY DEF TableInv
<1>2. QED
    BY <1>1, NextCases, ReportTrigger, ReportClear, ReportMark, ReportSend, ReportCleared,
       ReportScan, ReportSetTrue, ReportRest

(* The invariant behind both theorems.                                      *)
AlarmInv == TableInv /\ TurnInv /\ ReportInv

(* The invariant holds in every reachable state, for every table size and   *)
(* every interleaving of the old receiver's last calls with the reconnect   *)
(* thread's first ones.                                                     *)
THEOREM AlarmInvTheorem ==
    Spec => []AlarmInv
<1>1. Init => TurnInv /\ ReportInv
    <2> SUFFICES ASSUME Init PROVE TurnInv /\ ReportInv
        OBVIOUS
    <2>1. \A i \in Slots : ~records[i].active
        BY RecordFacts DEF Init
    <2>2. \A t \in Callers : call[t] = Idle /\ call[t].pc = "idle"
        BY CallFacts DEF Init
    <2>3. recv_pc = "done" /\ reconn_pc = "poll"
        BY DEF Init
    <2>4. QED
        BY <2>1, <2>2, <2>3, WhichCaller
           DEF TurnInv, Who, Turns, ClearedIsGone, StillThere, ReportInv, Holds
<1>2. AlarmInv /\ [Next]_vars => AlarmInv'
    BY TableStep, TurnStep, ReportStep DEF AlarmInv
<1>3. QED
    BY <1>1, <1>2, TableInit, PTL DEF Spec, AlarmInv

(* No record keeps the mark "reported" of an alarm that was never handed to *)
(* TCP, although slots are freed and filled again during a send; the one    *)
(* exception is the telemetry's alarms after an old receiver's late status. *)
THEOREM ReportedWasSentTheorem ==
    Spec => []ReportedWasSent
<1>1. AlarmInv => ReportedWasSent
    <2> SUFFICES ASSUME AlarmInv, Quiet, NEW i \in Slots, records[i].active, records[i].reported,
                        ~Unsure(records[i].alarm)
                 PROVE  sent[i]
        BY DEF ReportedWasSent, Unsure
    <2>1. Told(i)
        BY DEF AlarmInv, ReportInv
    <2>2. ~Sending(call, records[i].alarm)
        BY CallFacts DEF Quiet, Sending
    <2>3. QED
        BY <2>1, <2>2 DEF Told
<1>2. QED
    BY <1>1, AlarmInvTheorem, PTL

(* No alarm is skipped between the scan of a new connection and the thread  *)
(* that raises it: at rest and connected, every active alarm has been sent, *)
(* but for those that an old receiver's late calls concern.                 *)
THEOREM NothingSkippedTheorem ==
    Spec => []NothingSkipped
<1>1. AlarmInv => NothingSkipped
    <2> SUFFICES ASSUME AlarmInv, Quiet, tcp_connected, NEW a \in Active,
                        ~Unsure(a), ~Crossed(a)
                 PROVE  a \in bbu \cup lost
        BY DEF NothingSkipped, Unsure, Crossed
    <2>1. PICK i \in Slots : records[i].active /\ records[i].alarm = a
        BY DEF Active, SlotsOf, Holds
    <2>2. ~Sending(call, a) /\ ~Ahead(i)
        BY CallFacts, WhichCaller DEF Quiet, Sending, Ahead
    <2>3. Told(i)
        BY <2>1, <2>2 DEF AlarmInv, ReportInv
    <2>4. QED
        BY <2>1, <2>2, <2>3 DEF Told
<1>2. QED
    BY <1>1, AlarmInvTheorem, PTL

--------------------
(* The disconnect alarm                                                     *)

(* 1160 is in the table.                                                    *)
Held == \E i \in Slots : Holds(i, TcpAlarm)

(* The old receiver is about to put it there.                               *)
Raising == call[Recv].pc = "trigger" /\ call[Recv].alarm = TcpAlarm

(* The reconnect thread is about to take it out.                            *)
Lowering == call[Reconn].pc = "clear"

(* The tracker knows of 1160 until the clearance is on its way, and behind  *)
(* the clearance it is gone, unless an old receiver is late.                *)
PairInv ==
    /\ state_tracker \in [FpgaAlarms \cup {TcpAlarm} -> BOOLEAN]
    /\ call[Recv] # Idle /\ call[Recv].alarm = TcpAlarm => recv_pc = "leave"
    /\ ~LateAlarm => /\ Held \/ Raising => state_tracker[TcpAlarm] \/ Lowering
                     /\ recv_pc = "run" \/ (reconn_pc = "join" /\ ~Lowering) => ~Held

(* Filling a slot: 1160 is put there by the old receiver only.              *)
LEMMA PairTrigger ==
    ASSUME TableInv, TurnInv, PairInv, NEW t \in Callers, TriggerRecord(t) PROVE PairInv'
<1> USE DEF TableInv, TurnInv
<1>1. /\ call[t].pc = "trigger" /\ call[t] # Idle /\ call[t].alarm \in Alarms
      /\ UNCHANGED <<state_tracker, recv_pc, reconn_pc, overtaken>>
    BY TriggerCases, CallFacts DEF TriggerRecord
<1>2. LateAlarm' <=> LateAlarm
    BY <1>1, LateKept
<1>3. t # Reconn /\ (t = Uart => call[t].alarm # TcpAlarm)
    BY <1>1, WhichCaller DEF Who
<1>4. PICK c : NewCall(t, c) /\ c.pc \in {"idle", "send"} /\ (c # Idle => c.alarm = call[t].alarm)
    <2>1. \A i \in Slots : LET c == Call("send", call[t].alarm, i)
                           IN  c.pc = "send" /\ c.alarm = call[t].alarm
        BY DEF Call
    <2>2. QED
        BY <2>1, TriggerCases, CallFacts
<1>5. /\ call'[Reconn] = call[Reconn] /\ ~(Raising' /\ t = Recv)
      /\ t # Recv => call'[Recv] = call[Recv]
      /\ t = Recv => (call'[Recv] # Idle => call'[Recv].alarm = call[Recv].alarm)
    BY <1>3, <1>4, WhichCaller DEF NewCall, Raising
<1>6. Held' => Held \/ (t = Recv /\ call[t].alarm = TcpAlarm)
    <2>1. CASE UNCHANGED records
        BY <2>1 DEF Held, Holds
    <2>2. ASSUME NEW k \in Slots,
                 records' = [records EXCEPT ![k] =
                     [active |-> TRUE, alarm |-> call[t].alarm, reported |-> FALSE]]
          PROVE  Held' => Held \/ (t = Recv /\ call[t].alarm = TcpAlarm)
        <3>1. /\ records'[k].alarm = call[t].alarm
              /\ \A i \in Slots \ {k} : records'[i] = records[i]
            BY <2>2 DEF Types
        <3>2. QED
            BY <1>1, <1>3, <3>1, WhichCaller DEF Held, Holds
    <2>3. QED
        BY <2>1, <2>2, TriggerCases
<1>7. t = Recv /\ call[t].alarm = TcpAlarm => Raising /\ recv_pc = "leave"
    BY <1>1 DEF PairInv, Raising
<1>8. ASSUME ~LateAlarm
      PROVE  /\ Held' \/ Raising' => state_tracker[TcpAlarm] \/ Lowering'
             /\ recv_pc = "run" \/ (reconn_pc = "join" /\ ~Lowering') => ~Held'
    <2>1. Lowering' <=> Lowering
        BY <1>5 DEF Lowering
    <2>2. Raising' => Raising
        BY <1>5 DEF Raising
    <2>3. recv_pc = "leave" => reconn_pc # "join"
        BY <1>8 DEF Turns
    <2>4. QED
        BY <1>6, <1>7, <1>8, <2>1, <2>2, <2>3 DEF PairInv
<1>9. QED
    BY <1>1, <1>2, <1>5, <1>8 DEF PairInv

(* Freeing a slot: the reconnect thread's clearance takes 1160 out.         *)
LEMMA PairClear ==
    ASSUME TableInv, TurnInv, PairInv, NEW t \in Callers, ClearRecord(t) PROVE PairInv'
<1> USE DEF TableInv, TurnInv
<1>1. /\ call[t].pc = "clear" /\ call[t] # Idle
      /\ UNCHANGED <<state_tracker, recv_pc, reconn_pc, overtaken>>
    BY ClearCases, CallFacts DEF ClearRecord
<1>2. LateAlarm' <=> LateAlarm
    BY <1>1, LateKept
<1>3. t = Uart \/ (t = Reconn /\ call[t].alarm = TcpAlarm /\ reconn_pc = "join")
    BY <1>1, WhichCaller DEF Who, Turns
<1>4. PICK c : NewCall(t, c) /\ c.pc \in {"idle", "send_clear"}
    <2>1. \A a, i : Call("send_clear", a, i).pc = "send_clear"
        BY DEF Call
    <2>2. QED
        BY <2>1, ClearCases, CallFacts
<1>5. call'[Recv] = call[Recv] /\ (Raising' <=> Raising)
    BY <1>3, <1>4, ThreeCallers, WhichCaller DEF NewCall, Raising
<1>6. (Held' => Held) /\ (t = Reconn => ~Held')
    <2>1. CASE UNCHANGED records /\ call[t].alarm \notin Active
        BY <1>3, <2>1, ThreeCallers DEF Held, Holds, Active, SlotsOf, Alarms
    <2>2. ASSUME NEW k \in Slots, Holds(k, call[t].alarm),
                 records' = [records EXCEPT ![k] = NoRecord]
          PROVE  (Held' => Held) /\ (t = Reconn => ~Held')
        <3>1. ~records'[k].active /\ \A i \in Slots \ {k} : records'[i] = records[i]
            BY <2>2, RecordFacts DEF Types
        <3>2. QED
            BY <1>3, <2>2, <3>1, ThreeCallers DEF Held, Holds, Unique
    <2>3. (call[t].alarm \notin Active => UNCHANGED records)
        BY DEF ClearRecord
    <2>4. CASE UNCHANGED records /\ call[t].alarm \in Active
        <3>1. PICK k \in Slots : records' = [records EXCEPT ![k] = NoRecord] /\ Holds(k, call[t].alarm)
            <4>1. First(SlotsOf(call[t].alarm)) \in SlotsOf(call[t].alarm)
                BY <2>4, FirstIn DEF SlotsOf, Active
            <4>2. QED
                BY <2>4, <4>1 DEF ClearRecord, SlotsOf
        <3>2. QED
            BY <2>2, <3>1
    <2>5. QED
        BY <2>1, <2>2, <2>3, <2>4, ClearCases
<1>7. ASSUME ~LateAlarm
      PROVE  /\ Held' \/ Raising' => state_tracker[TcpAlarm] \/ Lowering'
             /\ recv_pc = "run" \/ (reconn_pc = "join" /\ ~Lowering') => ~Held'
    <2>1. CASE t = Uart
        <3>1. Lowering' <=> Lowering
            BY <1>4, <2>1, ThreeCallers, WhichCaller DEF NewCall, Lowering
        <3>2. QED
            BY <1>5, <1>6, <1>7, <3>1 DEF PairInv
    <2>2. CASE t = Reconn
        <3>1. ~Held' /\ call[Recv] = Idle
            BY <1>3, <1>6, <1>7, <2>2, ThreeCallers DEF Turns
        <3>2. ~Raising'
            BY <1>5, <3>1, CallFacts DEF Raising
        <3>3. QED
            BY <3>1, <3>2
    <2>3. QED
        BY <1>3, <2>1, <2>2
<1>8. QED
    BY <1>1, <1>2, <1>5, <1>7 DEF PairInv

(* Steps that leave 1160 where it is and begin no call about it.            *)
LEMMA PairStays ==
    ASSUME PairInv, UNCHANGED state_tracker, LateAlarm => LateAlarm',
           Held' => Held, Raising' => Raising, Lowering => Lowering',
           call'[Recv] # Idle /\ call'[Recv].alarm = TcpAlarm =>
               recv_pc' = "leave",
           ~LateAlarm' /\ (recv_pc' = "run" \/ (reconn_pc' = "join" /\ ~Lowering')) =>
               \/ recv_pc = "run" \/ (reconn_pc = "join" /\ ~Lowering)
               \/ ~Held
    PROVE  PairInv'
BY DEF PairInv

(* The other steps of a call, and the scan.                                 *)
LEMMA PairCalls ==
    ASSUME TableInv, TurnInv, PairInv,
           \/ \E t \in Callers : MarkReported(t) \/ SendActive(t) \/ SendCleared(t)
           \/ ScanPending \/ SetTrue
    PROVE  PairInv'
<1> USE DEF TableInv, TurnInv
<1>1. /\ UNCHANGED <<state_tracker, recv_pc, overtaken>>
      /\ reconn_pc' = reconn_pc \/ (reconn_pc' = "clear" /\ SetTrue)
    BY DEF MarkReported, SendActive, SendCleared, ScanPending, SetTrue, mgrVars
<1>2. LateAlarm' <=> LateAlarm
    BY <1>1, LateKept
<1>3. \A j \in Slots : /\ records'[j].active => records[j].active
                       /\ records'[j].active => records'[j].alarm = records[j].alarm
    BY MarkRecords DEF SendActive, SendCleared, ScanPending, SetTrue, mgrVars
<1>4. Held' => Held
    BY <1>3 DEF Held, Holds
<1>5. \/ UNCHANGED call
      \/ \E t \in Callers : \E c :
            /\ NewCall(t, c) /\ call[t].pc # "clear" /\ c.pc # "trigger"
            /\ c = Idle \/ t = Reconn \/ (c.alarm = call[t].alarm /\ call[t] # Idle)
    <2>0. /\ \A a, i : /\ Call("scan", a, i).pc = "scan" /\ Call("send", a, i).pc = "send"
                       /\ Call("mark", a, i).pc = "mark" /\ Call("mark", a, i).alarm = a
          /\ Idle.pc = "idle"
        BY CallFacts DEF Call
    <2>1. ASSUME NEW t \in Callers, MarkReported(t)
          PROVE  \E c : /\ NewCall(t, c) /\ call[t].pc # "clear" /\ c.pc # "trigger"
                        /\ c = Idle \/ t = Reconn
        BY <2>0, <2>1, MarkCases
    <2>2. ASSUME NEW t \in Callers, SendActive(t)
          PROVE  \E c : /\ NewCall(t, c) /\ call[t].pc # "clear" /\ c.pc # "trigger"
                        /\ c.alarm = call[t].alarm /\ call[t] # Idle
        BY <2>0, <2>2, SendCases
    <2>3. ASSUME NEW t \in Callers, SendCleared(t)
          PROVE  NewCall(t, Idle) /\ call[t].pc # "clear"
        BY <2>3, ClearedCases
    <2>4. CASE ScanPending
        BY <2>0, <2>4, ScanCases, WhichCaller
    <2>5. CASE SetTrue
        <3>1. call[Reconn].pc = "idle"
            BY <2>0, <2>5, SetTrueCases DEF Turns
        <3>2. QED
            BY <2>0, <2>5, <3>1, SetTrueCases, WhichCaller
    <2>6. QED
        BY <2>0, <2>1, <2>2, <2>3, <2>4, <2>5
<1>6. /\ Raising' => Raising
      /\ Lowering => Lowering'
      /\ call'[Recv] # Idle /\ call'[Recv].alarm = TcpAlarm => recv_pc = "leave"
    <2>1. CASE UNCHANGED call
        BY <2>1 DEF Raising, Lowering, PairInv
    <2>2. ASSUME NEW t \in Callers, NEW c, NewCall(t, c), call[t].pc # "clear", c.pc # "trigger",
                 c = Idle \/ t = Reconn \/ (c.alarm = call[t].alarm /\ call[t] # Idle)
          PROVE  /\ Raising' => Raising
                 /\ Lowering => Lowering'
                 /\ call'[Recv] # Idle /\ call'[Recv].alarm = TcpAlarm => recv_pc = "leave"
        BY <2>2, WhichCaller, ThreeCallers DEF Raising, Lowering, PairInv, NewCall
    <2>3. QED
        BY <1>5, <2>1, <2>2
<1>7. QED
    BY <1>1, <1>2, <1>4, <1>6, PairStays

(* Edges of the telemetry, failed commands and the two calls about 1160.    *)
LEMMA PairBegin ==
    ASSUME TableInv, TurnInv, PairInv,
           \/ \E a \in FpgaAlarms : UartCheck(a)
           \/ \E a \in CommandAlarms : CommandFails(a)
           \/ RecvTrigger \/ ClearTcpDisconnect
    PROVE  PairInv'
<1> USE DEF TableInv, TurnInv
<1>0. /\ 0 \in 0 .. MAX_ALARM_RECORDS + 1 /\ TcpAlarm \in Alarms
      /\ FpgaAlarms \subseteq Alarms /\ CommandAlarms \subseteq Alarms
    BY AlarmAssumption DEF Alarms
<1>1. UNCHANGED records /\ (Held' <=> Held)
    BY DEF UartCheck, CommandFails, RecvTrigger, ClearTcpDisconnect, mgrVars, Held, Holds
<1>2. ASSUME NEW a \in FpgaAlarms, UartCheck(a) PROVE PairInv'
    <2>1. PICK condition \in BOOLEAN : CheckEdge(Uart, a, condition)
        BY <1>2 DEF UartCheck
    <2>2. /\ UNCHANGED <<recv_pc, reconn_pc, overtaken>>
          /\ state_tracker' = [state_tracker EXCEPT ![a] = condition]
        BY <1>2, <2>1 DEF UartCheck, CheckEdge
    <2>3. /\ state_tracker' \in [FpgaAlarms \cup {TcpAlarm} -> BOOLEAN]
          /\ state_tracker'[TcpAlarm] = state_tracker[TcpAlarm]
        BY <2>2, WhichCaller DEF PairInv
    <2>4. PICK c : NewCall(Uart, c)
        BY <1>0, <2>1, EdgeCases, WhichCaller
    <2>5. call'[Recv] = call[Recv] /\ call'[Reconn] = call[Reconn]
        BY <2>4, WhichCaller, ThreeCallers DEF NewCall
    <2>6. /\ LateAlarm' <=> LateAlarm
          /\ Raising' <=> Raising
          /\ Lowering' <=> Lowering
        BY <2>2, <2>5 DEF Raising, Lowering, LateAlarm
    <2>7. QED
        BY <1>1, <2>2, <2>3, <2>5, <2>6 DEF PairInv
<1>3. ASSUME NEW a \in CommandAlarms, CommandFails(a) PROVE PairInv'
    <2>1. /\ UNCHANGED <<state_tracker, recv_pc, reconn_pc, overtaken>>
          /\ call' = [call EXCEPT ![Recv] = Call("trigger", a, 0)]
        BY <1>3 DEF CommandFails, mgrVars
    <2>2. Call("trigger", a, 0).alarm = a /\ a # TcpAlarm
        BY WhichCaller DEF Call
    <2>3. call'[Recv] = Call("trigger", a, 0) /\ call'[Reconn] = call[Reconn]
        BY <2>1, WhichCaller, ThreeCallers DEF Types
    <2>4. /\ LateAlarm' <=> LateAlarm
          /\ ~Raising'
          /\ Lowering' <=> Lowering
        BY <2>1, <2>2, <2>3 DEF Raising, Lowering, LateAlarm
    <2>5. QED
        BY <1>1, <2>1, <2>2, <2>3, <2>4, PairStays
<1>4. CASE RecvTrigger
    <2>1. /\ CheckEdge(Recv, TcpAlarm, TRUE) /\ recv_pc = "trigger" /\ recv_pc' = "leave"
          /\ UNCHANGED <<reconn_pc, overtaken>>
          /\ state_tracker' = [state_tracker EXCEPT ![TcpAlarm] = TRUE]
        BY <1>4 DEF RecvTrigger, CheckEdge
    <2>2. /\ state_tracker' \in [FpgaAlarms \cup {TcpAlarm} -> BOOLEAN]
          /\ state_tracker'[TcpAlarm] = TRUE
        BY <2>1 DEF PairInv
    <2>3. LateAlarm' <=> LateAlarm
        BY <2>1, LateKept
    <2>4. ~LateAlarm => reconn_pc # "join"
        BY <2>1 DEF Turns
    <2>5. QED
        BY <1>1, <2>1, <2>2, <2>3, <2>4 DEF PairInv
<1>5. CASE ClearTcpDisconnect
    <2>1. /\ CheckEdge(Reconn, TcpAlarm, FALSE) /\ reconn_pc = "clear" /\ reconn_pc' = "join"
          /\ UNCHANGED recv_pc
          /\ state_tracker' = [state_tracker EXCEPT ![TcpAlarm] = FALSE]
          /\ LateAlarm => LateAlarm'
          /\ recv_pc # "done" => LateAlarm'
        BY <1>5 DEF ClearTcpDisconnect, CheckEdge, LateAlarm
    <2>2. state_tracker' \in [FpgaAlarms \cup {TcpAlarm} -> BOOLEAN]
        BY <2>1 DEF PairInv
    <2>3. /\ call[Reconn] = Idle
          /\ call' = [call EXCEPT ![Reconn] =
                         IF state_tracker[TcpAlarm] THEN Call("clear", TcpAlarm, 0) ELSE Idle]
        BY <2>1 DEF CheckEdge, PairInv
    <2>4. call'[Recv] = call[Recv] /\ (state_tracker[TcpAlarm] => Lowering')
        BY <2>3, WhichCaller, ThreeCallers DEF Types, Lowering, Call
    <2>5. ~Lowering
        BY <2>3, CallFacts DEF Lowering
    <2>6. ASSUME ~LateAlarm'
          PROVE  /\ ~Raising' /\ recv_pc # "run"
                 /\ Held' => Lowering'
        <3>1. recv_pc = "done" /\ ~LateAlarm
            BY <2>1, <2>6
        <3>2. call[Recv] = Idle
            BY <3>1 DEF Turns
        <3>3. QED
            BY <1>1, <2>4, <2>5, <3>1, <3>2, CallFacts DEF PairInv, Raising
    <2>7. QED
        BY <2>1, <2>2, <2>4, <2>6 DEF PairInv
<1>6. QED
    BY <1>2, <1>3, <1>4, <1>5

(* The steps without a call.                                                *)
LEMMA PairRest ==
    ASSUME TableInv, TurnInv, PairInv, Rest PROVE PairInv'
<1> USE DEF TableInv, TurnInv
<1>1. UNCHANGED <<records, call, state_tracker>> /\ (LateAlarm => LateAlarm')
    BY DEF Rest, RecvNotices, RecvSetFalse, RecvLeaves, Connect, JoinAndCreate, Break,
           vars, mgrVars, LateAlarm
<1>2. /\ Held' <=> Held
      /\ Raising' <=> Raising
      /\ Lowering' <=> Lowering
    BY <1>1 DEF Held, Holds, Raising, Lowering
<1>3. call[Recv] # Idle /\ call[Recv].alarm = TcpAlarm => recv_pc' = "leave"
    BY DEF Rest, RecvNotices, RecvSetFalse, RecvLeaves, Connect, JoinAndCreate, Break,
           vars, PairInv, Turns
<1>4. ~LateAlarm' /\ (recv_pc' = "run" \/ (reconn_pc' = "join" /\ ~Lowering')) =>
          recv_pc = "run" \/ (reconn_pc = "join" /\ ~Lowering)
    <2>1. CASE JoinAndCreate
        BY <2>1, CallFacts DEF JoinAndCreate, Lowering
    <2>2. CASE ~JoinAndCreate
        BY <1>2, <2>2 DEF Rest, RecvNotices, RecvSetFalse, RecvLeaves, Connect, Break, vars
    <2>3. QED
        BY <2>1, <2>2
<1>5. QED
    BY <1>1, <1>2, <1>3, <1>4, PairStays

(* Whatever the threads do, once a new receiver runs the disconnect alarm   *)
(* of the old connection has been cleared, unless the old receiver's call   *)
(* was overtaken by the clearance: for every set of alarms and table size.  *)
THEOREM ConnectedClearsAlarmTheorem == Spec => []ConnectedClearsAlarm
<1>1. Init => PairInv
    <2> SUFFICES ASSUME Init PROVE PairInv
        OBVIOUS
    <2>1. state_tracker \in [FpgaAlarms \cup {TcpAlarm} -> BOOLEAN]
        BY DEF Init
    <2>2. call[Recv] = Idle /\ recv_pc = "done" /\ reconn_pc = "poll"
        BY WhichCaller DEF Init
    <2>3. ~Held
        BY RecordFacts DEF Init, Held, Holds
    <2>4. QED
        BY <2>1, <2>2, <2>3, CallFacts DEF PairInv, Raising
<1>2. AlarmInv /\ PairInv /\ [Next]_vars => PairInv'
    <2> SUFFICES ASSUME AlarmInv, PairInv, [Next]_vars PROVE PairInv'
        OBVIOUS
    <2>1. TableInv /\ TurnInv
        BY DEF AlarmInv
    <2>2. Uart \in Callers /\ Recv \in Callers /\ Reconn \in Callers
        BY DEF Callers
    <2>3. QED
        BY <2>1, <2>2, PairTrigger, PairClear, PairCalls, PairBegin, PairRest
           DEF Next, RecvStep, ReconnStep, InCall, Rest
<1>3. PairInv => ConnectedClearsAlarm
    <2> SUFFICES ASSUME PairInv, recv_pc = "run", ~LateAlarm, TcpAlarm \in Active PROVE FALSE
        BY DEF ConnectedClearsAlarm
    <2>1. Held
        BY DEF Active, SlotsOf, Held
    <2>2. QED
        BY <2>1 DEF PairInv
<1>4. QED
    BY <1>1, <1>2, <1>3, AlarmInvTheorem, PTL DEF Spec

--------------------
(* The receive thread.  Its two loops (the pass over the buffer and the     *)
(* reference) are functions on the places of the stream whose value at a    *)
(* place depends on later places only.                                      *)

(* The first of several places.                                             *)
LEMMA LeastPlace ==
    ASSUME NEW S \in SUBSET Nat, S # {}
    PROVE  Min(S) \in S /\ \A y \in S : Min(S) <= y
<1> DEFINE R == OpToRel(<, Nat)
<1>1. IsWellFoundedOn(R, Nat)
    BY NatLessThanWellFounded, Zenon
<1> HIDE DEF R
<1>2. PICK x \in S : \A y \in S : ~(<<y, x>> \in R)
    BY <1>1, WFMin
<1>3. ASSUME NEW y \in S PROVE x <= y
    <2>1. ~(y < x)
        BY <1>2 DEF R, OpToRel
    <2>2. QED
        BY <2>1
<1>4. QED
    BY <1>2, <1>3 DEF Min

(* What holds at a place whenever it holds at all later places holds at all *)
(* places of a buffer.                                                      *)
LEMMA FromTheEnd ==
    ASSUME NEW n \in Nat, NEW T,
           \A p \in 1 .. n : (\A q \in p + 1 .. n : q \in T) => p \in T
    PROVE  \A p \in 1 .. n : p \in T
<1> DEFINE S == {k \in 0 .. n - 1 : n - k \notin T}
           x == Min(S)
<1> SUFFICES ASSUME NEW p \in 1 .. n, p \notin T PROVE FALSE
    OBVIOUS
<1>1. n - p \in S
    <2>1. n - p \in 0 .. n - 1 /\ n - (n - p) = p
        OBVIOUS
    <2>2. QED
        BY <2>1
<1>2. S \in SUBSET Nat /\ S # {}
    BY <1>1
<1>3. x \in S /\ \A y \in S : x <= y
    <2> HIDE DEF S
    <2>1. QED
        BY <1>2, LeastPlace
<1> HIDE DEF x
<1>4. ASSUME NEW q \in n - x + 1 .. n PROVE q \in T
    <2>1. n - q \in 0 .. n - 1 /\ n - q < x /\ n - (n - q) = q
        BY <1>3
    <2>2. n - q \notin S
        BY <1>3, <2>1
    <2>3. QED
        BY <2>1, <2>2
<1>5. n - x \in 1 .. n /\ n - x \notin T
    BY <1>3
<1>6. QED
    BY <1>4, <1>5

(* H gives the round of a loop at each place from the results f of the      *)
(* rounds at later places.                                                  *)
IsLoop(n, V, H) ==
    /\ \A p \in 1 .. n, f \in [1 .. n -> V] : H[p][f] \in V
    /\ \A p \in 1 .. n, f, g \in [1 .. n -> V] :
            (\A q \in p + 1 .. n : f[q] = g[q]) => H[p][f] = H[p][g]

HasResults(n, V, H) == \E f \in [1 .. n -> V] : \A p \in 1 .. n : f[p] = H[p][f]

(* There are results that all rounds of a loop agree on.                    *)
LEMMA LoopExists ==
    ASSUME NEW n \in Nat, NEW V, V # {}, NEW H, IsLoop(n, V, H)
    PROVE  HasResults(n, V, H)
<1> SUFFICES \E f \in [1 .. n -> V] : \A p \in 1 .. n : f[p] = H[p][f]
    BY DEF HasResults
<1> DEFINE Solves(f, p) == \A q \in p .. n : f[q] = H[q][f]
           T == {p \in 1 .. n : \E f \in [1 .. n -> V] : Solves(f, p)}
<1>0. PICK v \in V : TRUE
    OBVIOUS
<1>1. [p \in 1 .. n |-> v] \in [1 .. n -> V]
    OBVIOUS
<1>2. ASSUME NEW p \in 1 .. n, \A q \in p + 1 .. n : q \in T PROVE p \in T
    <2>1. PICK f \in [1 .. n -> V] : Solves(f, p + 1)
        <3>1. CASE p = n
            <4>1. \A q \in p + 1 .. n : FALSE
                BY <3>1
            <4>2. QED
                BY <1>1, <4>1
        <3>2. CASE p # n
            <4>1. p + 1 \in p + 1 .. n
                BY <3>2
            <4>2. QED
                BY <1>2, <4>1
        <3>3. QED
            BY <3>1, <3>2
    <2>a. PICK h \in V : h = H[p][f]
        BY DEF IsLoop
    <2> DEFINE g == [f EXCEPT ![p] = h]
    <2>b. g \in [1 .. n -> V] /\ g[p] = h /\ \A q \in 1 .. n : q # p => g[q] = f[q]
        OBVIOUS
    <2>c. \A q \in p + 1 .. n : q \in 1 .. n /\ q # p
        OBVIOUS
    <2> HIDE DEF g
    <2>2. g \in [1 .. n -> V] /\ g[p] = H[p][f] /\ \A q \in p + 1 .. n : g[q] = f[q]
        BY <2>a, <2>b, <2>c
    <2>3. ASSUME NEW q \in p .. n PROVE g[q] = H[q][g]
        <3>0. q \in 1 .. n
            OBVIOUS
        <3>a. \A r \in q + 1 .. n : r \in p + 1 .. n
            OBVIOUS
        <3>1. \A r \in q + 1 .. n : f[r] = g[r]
            BY <2>2, <3>a
        <3>2. H[q][f] = H[q][g]
            BY <2>2, <3>0, <3>1 DEF IsLoop
        <3>3. CASE q = p
            BY <2>2, <3>2, <3>3
        <3>4. CASE q # p
            <4>1. q \in p + 1 .. n
                BY <3>4
            <4>2. QED
                BY <2>1, <2>2, <3>2, <4>1
        <3>5. QED
            BY <3>3, <3>4
    <2>4. QED
        BY <2>2, <2>3
<1> HIDE DEF T
<1>3. \A p \in 1 .. n : p \in T
    BY <1>2, FromTheEnd
<1>4. CASE n = 0
    <2>1. \A p \in 1 .. n : FALSE
        BY <1>4
    <2>2. QED
        BY <1>1, <2>1
<1>5. CASE n # 0
    <2>1. 1 \in T
        BY <1>3, <1>5
    <2>2. QED
        BY <2>1 DEF T
<1>6. QED
    BY <1>4, <1>5

--------------------
(* Bytes, what the callbacks get, and what one pass over a buffer gives     *)
Octets     == 0 .. 255
Callbacks  == {"on_telemetry_log_frame", "on_status_received", "on_data_received"}
Deliveries == [to : Callbacks, frame : Seq(Octets)]
Scanned(b) == [out : Seq(Deliveries), keep : 1 .. Len(b) + 1]

(* The headers from the place p on, and what the loop does at one of them.  *)
Heads(b, p) == {i \in p .. Len(b) : HeaderAt(b, i)}
AtHeader(b, scan, i) ==
    LET n == ClaimAt(b, i)
        stop(k)      == [out |-> <<>>, keep |-> k]
        then(out, q) == [out |-> out \o scan[q].out, keep |-> scan[q].keep]
    IN  IF Len(b) - i + 1 < 4 THEN stop(i)
        ELSE IF ~Plausible(n) THEN then(<<>>, i + 1)
        ELSE IF Len(b) - i + 1 < n THEN stop(i)
        ELSE then(IF TailAt(b, i, n) THEN Deliver(b, i, n) ELSE <<>>, Advance(b, i, n))

(* The loop goes on at q.                                                   *)
Onwards(out, scan, q) == [out |-> out \o scan[q].out, keep |-> scan[q].keep]

(* A header claims a number of bytes.                                       *)
LEMMA ClaimIsNat ==
    ASSUME NEW b \in Seq(Octets), NEW i \in 1 .. Len(b), i + 3 <= Len(b)
    PROVE  ClaimAt(b, i) \in Nat
<1> DEFINE x == b[i + 2]
           y == b[i + 3]
<1>1. x \in Octets /\ y \in Octets
    OBVIOUS
<1>3. ClaimAt(b, i) \in {6 + x * 256 + y, 6 + y, 0}
    BY DEF ClaimAt
<1> HIDE DEF x, y
<1>2. x \in Nat /\ y \in Nat
    BY <1>1 DEF Octets
<1>4. QED
    BY <1>2, <1>3

(* A frame that is there is handed on whole.                                *)
LEMMA DeliverFacts ==
    ASSUME NEW b \in Seq(Octets), NEW i \in 1 .. Len(b), NEW n \in Nat, i + n - 1 <= Len(b)
    PROVE  Deliver(b, i, n) \in Seq(Deliveries)
<1> DEFINE f == SubSeq(b, i, i + n - 1)
<1>1. f \in Seq(Octets)
    OBVIOUS
<1> HIDE DEF f
<1>2. Callback(f) \in Callbacks
    BY DEF Callback, Callbacks
<1>3. [to |-> Callback(f), frame |-> f] \in Deliveries
    BY <1>1, <1>2 DEF Deliveries
<1>4. QED
    BY <1>3 DEF Deliver, f

(* The loop at the place p: nothing is left, no header is left, or it works *)
(* at the first one.                                                        *)
LEMMA PassCases ==
    ASSUME NEW b \in Seq(Octets), NEW p \in 1 .. Len(b) + 1, NEW scan
    PROVE  /\ p = Len(b) + 1 => ScanFrom(b, scan, p) = [out |-> <<>>, keep |-> p]
           /\ p <= Len(b) /\ Heads(b, p) = {} =>
                 ScanFrom(b, scan, p) = [out |-> <<>>, keep |-> KeepFrom(b)]
           /\ Heads(b, p) # {} =>
                 /\ Min(Heads(b, p)) \in Heads(b, p)
                 /\ \A k \in Heads(b, p) : Min(Heads(b, p)) <= k
                 /\ ScanFrom(b, scan, p) = AtHeader(b, scan, Min(Heads(b, p)))
<1>0. Len(b) \in Nat
    OBVIOUS
<1>1. CASE p = Len(b) + 1
    <2>1. p > Len(b) /\ Heads(b, p) = {}
        BY <1>0, <1>1 DEF Heads
    <2>2. QED
        BY <1>0, <1>1, <2>1 DEF ScanFrom
<1>2. CASE p <= Len(b) /\ Heads(b, p) = {}
    <2>1. ~(p > Len(b))
        BY <1>0, <1>2
    <2>2. QED
        BY <1>0, <1>2, <2>1 DEF ScanFrom, Heads
<1>3. CASE Heads(b, p) # {}
    <2>1. ~(p > Len(b)) /\ Heads(b, p) \in SUBSET Nat
        BY <1>0, <1>3 DEF Heads
    <2>2. ScanFrom(b, scan, p) = AtHeader(b, scan, Min(Heads(b, p)))
        BY <1>3, <2>1 DEF ScanFrom, AtHeader, Heads
    <2>3. QED
        BY <1>0, <1>3, <2>1, <2>2, LeastPlace
<1>4. QED
    BY <1>0, <1>1, <1>2, <1>3

(* What the loop does at a header, in the four cases of the code.           *)
LEMMA HeaderCases ==
    ASSUME NEW b \in Seq(Octets), NEW i \in 1 .. Len(b), HeaderAt(b, i), NEW scan,
           NEW n, n = ClaimAt(b, i)
    PROVE  /\ i + 3 > Len(b) => AtHeader(b, scan, i) = [out |-> <<>>, keep |-> i]
           /\ i + 3 <= Len(b) /\ ~Plausible(n) =>
                 AtHeader(b, scan, i) = Onwards(<<>>, scan, i + 1)
           /\ i + 3 <= Len(b) /\ Plausible(n) /\ i + n - 1 > Len(b) =>
                 AtHeader(b, scan, i) = [out |-> <<>>, keep |-> i]
           /\ i + 3 <= Len(b) /\ Plausible(n) /\ i + n - 1 <= Len(b) /\ TailAt(b, i, n) =>
                 AtHeader(b, scan, i) = Onwards(Deliver(b, i, n), scan, i + n)
           /\ i + 3 <= Len(b) /\ Plausible(n) /\ i + n - 1 <= Len(b) /\ ~TailAt(b, i, n) =>
                 AtHeader(b, scan, i) = Onwards(<<>>, scan, i + 1)
           /\ i + 3 <= Len(b) => n \in Nat
           /\ Plausible(n) => n >= 6
<1>0. Len(b) \in Nat
    OBVIOUS
<1>1. i + 3 <= Len(b) => n \in Nat
    BY ClaimIsNat
<1>2. i + 3 > Len(b) <=> Len(b) - i + 1 < 4
    BY <1>0
<1>3. i + 3 <= Len(b) => (i + n - 1 > Len(b) <=> Len(b) - i + 1 < n)
    BY <1>0, <1>1
<1>4. i + 3 <= Len(b) <=> ~(i + 3 > Len(b))
    BY <1>0
<1>5. i + 3 <= Len(b) => (i + n - 1 <= Len(b) <=> ~(i + n - 1 > Len(b)))
    BY <1>0, <1>1
<1>6. Plausible(n) => n >= 6
    BY DEF Plausible, FPGA_MIN_FRAME_SIZE
<1>7. QED
    BY <1>1, <1>2, <1>3, <1>4, <1>5, <1>6 DEF AtHeader, Advance, Onwards

(* One pass is well defined at a header, and looks only further on.         *)
LEMMA HeaderRound ==
    ASSUME NEW b \in Seq(Octets), NEW i \in 1 .. Len(b), HeaderAt(b, i), NEW f, NEW g,
           \A q \in i + 1 .. Len(b) + 1 : f[q] \in Scanned(b) /\ f[q] = g[q]
    PROVE  AtHeader(b, f, i) \in Scanned(b) /\ AtHeader(b, f, i) = AtHeader(b, g, i)
<1> DEFINE n == ClaimAt(b, i)
<1>0. Len(b) \in Nat /\ i < Len(b) /\ i + 1 \in i + 1 .. Len(b) + 1 /\ i \in 1 .. Len(b) + 1
    BY DEF HeaderAt
<1>1. <<>> \in Seq(Deliveries)
    OBVIOUS
<1>2. ASSUME NEW q \in i + 1 .. Len(b) + 1, NEW out \in Seq(Deliveries)
      PROVE  Onwards(out, f, q) \in Scanned(b) /\ Onwards(out, f, q) = Onwards(out, g, q)
    <2>1. f[q].out \in Seq(Deliveries) /\ f[q].keep \in 1 .. Len(b) + 1
        BY DEF Scanned
    <2>2. out \o f[q].out \in Seq(Deliveries)
        BY <2>1
    <2>3. QED
        BY <2>1, <2>2 DEF Scanned, Onwards
<1>3. [out |-> <<>>, keep |-> i] \in Scanned(b)
    BY <1>0, <1>1 DEF Scanned
<1>4. CASE i + 3 > Len(b)
    BY <1>3, <1>4, HeaderCases
<1>a. Onwards(<<>>, f, i + 1) \in Scanned(b) /\ Onwards(<<>>, f, i + 1) = Onwards(<<>>, g, i + 1)
    BY <1>0, <1>1, <1>2
<1>5. CASE i + 3 <= Len(b) /\ ~Plausible(n)
    BY <1>a, <1>5, HeaderCases
<1>6. CASE i + 3 <= Len(b) /\ Plausible(n) /\ i + n - 1 > Len(b)
    BY <1>3, <1>6, HeaderCases
<1>7. CASE i + 3 <= Len(b) /\ Plausible(n) /\ i + n - 1 <= Len(b) /\ TailAt(b, i, n)
    <2>1. n \in Nat /\ n >= 6
        BY <1>7, HeaderCases
    <2>2. Deliver(b, i, n) \in Seq(Deliveries)
        BY <1>7, <2>1, DeliverFacts
    <2>3. i + n \in i + 1 .. Len(b) + 1
        <3> HIDE DEF n
        <3>1. QED
            BY <1>0, <1>7, <2>1
    <2>4. /\ Onwards(Deliver(b, i, n), f, i + n) \in Scanned(b)
          /\ Onwards(Deliver(b, i, n), f, i + n) = Onwards(Deliver(b, i, n), g, i + n)
        BY <1>2, <2>2, <2>3
    <2>5. QED
        BY <1>7, <2>4, HeaderCases
<1>8. CASE i + 3 <= Len(b) /\ Plausible(n) /\ i + n - 1 <= Len(b) /\ ~TailAt(b, i, n)
    BY <1>a, <1>8, HeaderCases
<1>9. i + 3 <= Len(b) => n \in Nat
    BY HeaderCases
<1>10. (i + 3 > Len(b) \/ i + 3 <= Len(b)) /\ (i + 3 <= Len(b) => i + n - 1 > Len(b) \/ i + n - 1 <= Len(b))
    <2> HIDE DEF n
    <2>1. QED
        BY <1>0, <1>9
<1>11. QED
    BY <1>4, <1>5, <1>6, <1>7, <1>8, <1>10

(* The same for any place.                                                  *)
LEMMA ScanRound ==
    ASSUME NEW b \in Seq(Octets), NEW p \in 1 .. Len(b) + 1, NEW f, NEW g,
           \A q \in p + 1 .. Len(b) + 1 : f[q] \in Scanned(b) /\ f[q] = g[q]
    PROVE  ScanFrom(b, f, p) \in Scanned(b) /\ ScanFrom(b, f, p) = ScanFrom(b, g, p)
<1>0. Len(b) \in Nat /\ <<>> \in Seq(Deliveries)
    OBVIOUS
<1>1. CASE p = Len(b) + 1
    <2>1. [out |-> <<>>, keep |-> p] \in Scanned(b)
        BY <1>0 DEF Scanned
    <2>2. QED
        BY <1>1, <2>1, PassCases
<1>2. CASE p <= Len(b) /\ Heads(b, p) = {}
    <2>1. KeepFrom(b) \in 1 .. Len(b) + 1
        BY <1>0, <1>2 DEF KeepFrom
    <2>2. [out |-> <<>>, keep |-> KeepFrom(b)] \in Scanned(b)
        BY <1>0, <2>1 DEF Scanned
    <2>3. QED
        BY <1>2, <2>2, PassCases
<1>3. CASE Heads(b, p) # {}
    <2> DEFINE i == Min(Heads(b, p))
    <2>1. i \in Heads(b, p)
        BY <1>3, PassCases
    <2> HIDE DEF i
    <2>2. i \in p .. Len(b) /\ HeaderAt(b, i)
        BY <2>1 DEF Heads
    <2>3. i \in 1 .. Len(b) /\ \A q \in i + 1 .. Len(b) + 1 : q \in p + 1 .. Len(b) + 1
        BY <1>0, <2>2
    <2>4. AtHeader(b, f, i) \in Scanned(b) /\ AtHeader(b, f, i) = AtHeader(b, g, i)
        BY <2>2, <2>3, HeaderRound
    <2>5. QED
        BY <1>3, <2>4, PassCases DEF i
<1>4. QED
    BY <1>0, <1>1, <1>2, <1>3

(* What the loop gives at each place of the buffer.                         *)
ScanOf(b) == CHOOSE f : f = [p \in 1 .. Len(b) + 1 |-> ScanFrom(b, f, p)]

(* The inner loop of uart_recv_thread is well defined.                      *)
LEMMA ScanExists ==
    ASSUME NEW b \in Seq(Octets)
    PROVE  /\ Scan(b) = ScanOf(b)[1]
           /\ \A p \in 1 .. Len(b) + 1 : /\ ScanOf(b)[p] \in Scanned(b)
                                         /\ ScanOf(b)[p] = ScanFrom(b, ScanOf(b), p)
<1> DEFINE n == Len(b) + 1
           V == Scanned(b)
           H == [p \in 1 .. n |-> [f \in [1 .. n -> V] |-> ScanFrom(b, f, p)]]
<1>1. n \in Nat /\ n >= 1
    OBVIOUS
<1>2. V # {}
    <2>1. [out |-> <<>>, keep |-> 1] \in V
        BY <1>1 DEF Scanned
    <2>2. QED
        BY <2>1
<1>3. \A p \in 1 .. n, f \in [1 .. n -> V] : H[p][f] = ScanFrom(b, f, p)
    OBVIOUS
<1>4. IsLoop(n, V, H)
    <2>1. ASSUME NEW p \in 1 .. n, NEW f \in [1 .. n -> V] PROVE H[p][f] \in V
        <3>1. \A q \in p + 1 .. n : f[q] \in V
            BY <1>1
        <3>2. QED
            BY <1>3, <3>1, ScanRound
    <2>2. ASSUME NEW p \in 1 .. n, NEW f \in [1 .. n -> V], NEW g \in [1 .. n -> V],
                 \A q \in p + 1 .. n : f[q] = g[q]
          PROVE  H[p][f] = H[p][g]
        <3>1. \A q \in p + 1 .. n : f[q] \in V
            BY <1>1
        <3>2. ScanFrom(b, f, p) = ScanFrom(b, g, p)
            BY <2>2, <3>1, ScanRound
        <3>3. QED
            BY <1>3, <3>2
    <2> HIDE DEF H, V, n
    <2>3. QED
        BY <2>1, <2>2 DEF IsLoop
<1>5. PICK f \in [1 .. n -> V] : \A p \in 1 .. n : f[p] = H[p][f]
    <2> HIDE DEF H, V, n
    <2>1. HasResults(n, V, H)
        BY <1>1, <1>2, <1>4, LoopExists
    <2>2. QED
        BY <2>1 DEF HasResults
<1>6. f = [p \in 1 .. n |-> ScanFrom(b, f, p)]
    BY <1>3, <1>5
<1>7. ScanOf(b) = [p \in 1 .. n |-> ScanFrom(b, ScanOf(b), p)]
    BY <1>6 DEF ScanOf
<1>8. Scan(b) = ScanOf(b)[1]
    BY DEF Scan, ScanOf
<1> DEFINE S == ScanOf(b)
           T == {p \in 1 .. n : S[p] \in V}
<1> HIDE DEF S
<1>9. \A p \in 1 .. n : S[p] = ScanFrom(b, S, p)
    BY <1>7 DEF S
<1>10. ASSUME NEW p \in 1 .. n, \A q \in p + 1 .. n : q \in T PROVE p \in T
    BY <1>9, <1>10, ScanRound
<1> HIDE DEF T
<1>11. \A p \in 1 .. n : p \in T
    BY <1>1, <1>10, FromTheEnd
<1>12. QED
    BY <1>8, <1>9, <1>11 DEF T, S

--------------------
(* The reference definition, from any place of the stream on                *)
FramesAfter(s, k) == LET from[i \in 1 .. Len(s) + 1] == FramesFrom(s, from, i) IN from[k]

(* What the reference definition says at one place.                         *)
LEMMA FramesCases ==
    ASSUME NEW s \in Seq(Octets), NEW i \in 1 .. Len(s) + 1, NEW from, NEW n, n = ClaimAt(s, i)
    PROVE  /\ i = Len(s) + 1 => FramesFrom(s, from, i) = <<>>
           /\ i <= Len(s) /\ ~HeaderAt(s, i) => FramesFrom(s, from, i) = from[i + 1]
           /\ HeaderAt(s, i) /\ i + 3 > Len(s) => FramesFrom(s, from, i) = <<>>
           /\ HeaderAt(s, i) /\ i + 3 <= Len(s) /\ ~Plausible(n) =>
                 FramesFrom(s, from, i) = from[i + 1]
           /\ HeaderAt(s, i) /\ i + 3 <= Len(s) /\ Plausible(n) /\ i + n - 1 > Len(s) =>
                 FramesFrom(s, from, i) = <<>>
           /\ HeaderAt(s, i) /\ i + 3 <= Len(s) /\ Plausible(n) /\ i + n - 1 <= Len(s)
              /\ TailAt(s, i, n) => FramesFrom(s, from, i) = Deliver(s, i, n) \o from[i + n]
           /\ HeaderAt(s, i) /\ i + 3 <= Len(s) /\ Plausible(n) /\ i + n - 1 <= Len(s)
              /\ ~TailAt(s, i, n) => FramesFrom(s, from, i) = from[i + 1]
<1>0. Len(s) \in Nat
    OBVIOUS
<1>1. i = Len(s) + 1 <=> i > Len(s)
    BY <1>0
<1>2. i <= Len(s) <=> ~(i > Len(s))
    BY <1>0
<1>3. i + 3 <= Len(s) <=> ~(i + 3 > Len(s))
    BY <1>0
<1>4. HeaderAt(s, i) => ~(i > Len(s))
    BY <1>0 DEF HeaderAt
<1>5. HeaderAt(s, i) /\ i + 3 <= Len(s) => (i + n - 1 <= Len(s) <=> ~(i + n - 1 > Len(s)))
    <2>1. SUFFICES ASSUME HeaderAt(s, i), i + 3 <= Len(s)
                   PROVE  i + n - 1 <= Len(s) <=> ~(i + n - 1 > Len(s))
        OBVIOUS
    <2>2. n \in Nat
        BY <1>0, <2>1, ClaimIsNat
    <2>3. QED
        BY <1>0, <2>2
<1>6. QED
    BY <1>1, <1>2, <1>3, <1>4, <1>5 DEF FramesFrom, PendingAt, FrameAt

(* One place of the reference looks only further on.                        *)
LEMMA FramesRound ==
    ASSUME NEW s \in Seq(Octets), NEW i \in 1 .. Len(s) + 1, NEW f, NEW g,
           \A q \in i + 1 .. Len(s) + 1 : f[q] \in Seq(Deliveries) /\ f[q] = g[q]
    PROVE  FramesFrom(s, f, i) \in Seq(Deliveries) /\ FramesFrom(s, f, i) = FramesFrom(s, g, i)
<1> DEFINE n == ClaimAt(s, i)
           Fine == FramesFrom(s, f, i) \in Seq(Deliveries) /\ FramesFrom(s, f, i) = FramesFrom(s, g, i)
<1>0. Len(s) \in Nat /\ <<>> \in Seq(Deliveries)
    OBVIOUS
<1>1. CASE i = Len(s) + 1
    BY <1>0, <1>1, FramesCases
<1>2. ASSUME i <= Len(s) PROVE f[i + 1] \in Seq(Deliveries) /\ f[i + 1] = g[i + 1]
    <2>1. i + 1 \in i + 1 .. Len(s) + 1
        BY <1>0, <1>2
    <2>2. QED
        BY <2>1
<1>3. CASE i <= Len(s) /\ ~HeaderAt(s, i)
    BY <1>2, <1>3, FramesCases
<1>4. CASE HeaderAt(s, i) /\ i + 3 > Len(s)
    BY <1>0, <1>4, FramesCases
<1>5. CASE i <= Len(s) /\ HeaderAt(s, i) /\ i + 3 <= Len(s) /\ ~Plausible(n)
    BY <1>2, <1>5, FramesCases
<1>6. CASE HeaderAt(s, i) /\ i + 3 <= Len(s) /\ Plausible(n) /\ i + n - 1 > Len(s)
    BY <1>0, <1>6, FramesCases
<1>7. CASE /\ i <= Len(s) /\ HeaderAt(s, i) /\ i + 3 <= Len(s) /\ Plausible(n) /\ i + n - 1 <= Len(s)
           /\ TailAt(s, i, n)
    <2>0. i \in 1 .. Len(s)
        BY <1>0, <1>7
    <2>1. n \in Nat /\ n >= 6
        BY <2>0, <1>7, HeaderCases
    <2>2. Deliver(s, i, n) \in Seq(Deliveries)
        BY <1>7, <2>0, <2>1, DeliverFacts
    <2>3. i + n \in i + 1 .. Len(s) + 1
        <3> HIDE DEF n
        <3>1. QED
            BY <1>0, <1>7, <2>1
    <2>4. f[i + n] \in Seq(Deliveries) /\ f[i + n] = g[i + n]
        BY <2>3
    <2>5. Deliver(s, i, n) \o f[i + n] \in Seq(Deliveries)
        BY <2>2, <2>4
    <2>6. /\ FramesFrom(s, f, i) = Deliver(s, i, n) \o f[i + n]
          /\ FramesFrom(s, g, i) = Deliver(s, i, n) \o g[i + n]
        BY <1>7, FramesCases, SMTT(30)
    <2>7. QED
        BY <2>4, <2>5, <2>6
<1>8. CASE /\ i <= Len(s) /\ HeaderAt(s, i) /\ i + 3 <= Len(s) /\ Plausible(n) /\ i + n - 1 <= Len(s)
           /\ ~TailAt(s, i, n)
    BY <1>2, <1>8, FramesCases
<1>9. i \in 1 .. Len(s) /\ i + 3 <= Len(s) => n \in Nat
    BY ClaimIsNat
<1>10. /\ i = Len(s) + 1 \/ i <= Len(s)
       /\ i <= Len(s) => i \in 1 .. Len(s)
       /\ i + 3 > Len(s) \/ i + 3 <= Len(s)
       /\ i \in 1 .. Len(s) /\ i + 3 <= Len(s) => i + n - 1 > Len(s) \/ i + n - 1 <= Len(s)
    <2> HIDE DEF n
    <2>1. QED
        BY <1>0, <1>9
<1>11. QED
    BY <1>1, <1>3, <1>4, <1>5, <1>6, <1>7, <1>8, <1>10

(* The reference is well defined at every place.                            *)
LEMMA FramesExist ==
    ASSUME NEW s \in Seq(Octets)
    PROVE  \E f : /\ \A k \in 1 .. Len(s) + 1 : /\ f[k] \in Seq(Deliveries)
                                                /\ f[k] = FramesFrom(s, f, k)
                  /\ \A k : FramesAfter(s, k) = f[k]
                  /\ FramesOf(s) = f[1]
<1> DEFINE n == Len(s) + 1
           V == Seq(Deliveries)
           H == [p \in 1 .. n |-> [f \in [1 .. n -> V] |-> FramesFrom(s, f, p)]]
<1>1. n \in Nat /\ V # {}
    <2>1. n \in Nat /\ <<>> \in V
        OBVIOUS
    <2>2. QED
        BY <2>1
<1>3. \A p \in 1 .. n, f \in [1 .. n -> V] : H[p][f] = FramesFrom(s, f, p)
    OBVIOUS
<1>4. IsLoop(n, V, H)
    <2>1. ASSUME NEW p \in 1 .. n, NEW f \in [1 .. n -> V] PROVE H[p][f] \in V
        <3>1. \A q \in p + 1 .. n : f[q] \in V
            BY <1>1
        <3>2. QED
            BY <1>3, <3>1, FramesRound
    <2>2. ASSUME NEW p \in 1 .. n, NEW f \in [1 .. n -> V], NEW g \in [1 .. n -> V],
                 \A q \in p + 1 .. n : f[q] = g[q]
          PROVE  H[p][f] = H[p][g]
        <3>1. \A q \in p + 1 .. n : f[q] \in V
            BY <1>1, SMTT(30)
        <3>2. FramesFrom(s, f, p) = FramesFrom(s, g, p)
            BY <2>2, <3>1, FramesRound
        <3>3. QED
            BY <1>3, <3>2
    <2> HIDE DEF H, V, n
    <2>3. QED
        BY <2>1, <2>2 DEF IsLoop
<1>5. PICK f \in [1 .. n -> V] : \A p \in 1 .. n : f[p] = H[p][f]
    <2> HIDE DEF H, V, n
    <2>1. HasResults(n, V, H)
        BY <1>1, <1>4, LoopExists
    <2>2. QED
        BY <2>1 DEF HasResults
<1>6. f = [p \in 1 .. n |-> FramesFrom(s, f, p)]
    BY <1>3, <1>5
<1> DEFINE F == CHOOSE g : g = [p \in 1 .. Len(s) + 1 |-> FramesFrom(s, g, p)]
<1>7. F = [p \in 1 .. n |-> FramesFrom(s, F, p)]
    BY <1>6
<1>8. FramesOf(s) = F[1] /\ \A k : FramesAfter(s, k) = F[k]
    BY DEF FramesOf, FramesAfter
<1> DEFINE T == {p \in 1 .. n : F[p] \in V}
<1> HIDE DEF F
<1>9. \A p \in 1 .. n : F[p] = FramesFrom(s, F, p)
    BY <1>7
<1>10. ASSUME NEW p \in 1 .. n, \A q \in p + 1 .. n : q \in T PROVE p \in T
    BY <1>9, <1>10, FramesRound
<1> HIDE DEF T
<1>11. \A p \in 1 .. n : p \in T
    BY <1>1, <1>10, FromTheEnd
<1>12. QED
    BY <1>8, <1>9, <1>11 DEF T

--------------------
(* The buffer b holds the bytes of t behind the first o.                    *)
Window(b, t, o) ==
    /\ b \in Seq(Octets) /\ t \in Seq(Octets) /\ o \in Nat /\ o + Len(b) <= Len(t)
    /\ \A x \in 1 .. Len(b) : b[x] = t[o + x]

(* Header, claim, tail and frame are the same in the buffer and the stream. *)
LEMMA WindowSame ==
    ASSUME NEW b, NEW t, NEW o, Window(b, t, o), NEW i \in 1 .. Len(b)
    PROVE  /\ o + i \in 1 .. Len(t)
           /\ i < Len(b) => (HeaderAt(b, i) <=> HeaderAt(t, o + i))
           /\ i + 3 <= Len(b) => ClaimAt(b, i) = ClaimAt(t, o + i) /\ o + i + 3 <= Len(t)
           /\ \A n \in Nat : n >= 6 /\ i + n - 1 <= Len(b) =>
                 /\ TailAt(b, i, n) <=> TailAt(t, o + i, n)
                 /\ Deliver(b, i, n) = Deliver(t, o + i, n)
                 /\ o + i + n - 1 <= Len(t)
<1>0. /\ b \in Seq(Octets) /\ t \in Seq(Octets) /\ o \in Nat /\ o + Len(b) <= Len(t)
      /\ Len(b) \in Nat /\ Len(t) \in Nat
    BY DEF Window
<1>1. ASSUME NEW k \in Nat, i + k <= Len(b) PROVE b[i + k] = t[o + i + k]
    <2>1. i + k \in 1 .. Len(b) /\ o + (i + k) = o + i + k
        BY <1>0, <1>1
    <2>2. QED
        BY <2>1 DEF Window
<1>2. b[i] = t[o + i]
    BY DEF Window
<1>3. o + i \in 1 .. Len(t)
    BY <1>0
<1>4. ASSUME i < Len(b) PROVE HeaderAt(b, i) <=> HeaderAt(t, o + i)
    <2>1. b[i + 1] = t[o + i + 1] /\ o + i < Len(t)
        BY <1>0, <1>1, <1>4
    <2>2. QED
        BY <1>2, <1>4, <2>1 DEF HeaderAt
<1>5. ASSUME i + 3 <= Len(b) PROVE ClaimAt(b, i) = ClaimAt(t, o + i) /\ o + i + 3 <= Len(t)
    <2>a. i + 1 <= Len(b) /\ i + 2 <= Len(b) /\ 1 \in Nat /\ 2 \in Nat /\ 3 \in Nat
        BY <1>0, <1>5
    <2>1. b[i + 1] = t[o + i + 1] /\ b[i + 2] = t[o + i + 2] /\ b[i + 3] = t[o + i + 3]
        BY <1>1, <1>5, <2>a
    <2>2. o + i + 3 <= Len(t)
        BY <1>0, <1>5
    <2>3. QED
        BY <2>1, <2>2 DEF ClaimAt
<1>6. ASSUME NEW n \in Nat, n >= 6, i + n - 1 <= Len(b)
      PROVE  /\ TailAt(b, i, n) <=> TailAt(t, o + i, n)
             /\ Deliver(b, i, n) = Deliver(t, o + i, n)
             /\ o + i + n - 1 <= Len(t)
    <2>1. /\ n - 2 \in Nat /\ n - 1 \in Nat /\ i + (n - 2) = i + n - 2 /\ i + (n - 1) = i + n - 1
          /\ o + i + (n - 2) = o + i + n - 2 /\ o + i + (n - 1) = o + i + n - 1
          /\ i + (n - 2) <= Len(b) /\ i + (n - 1) <= Len(b)
        BY <1>0, <1>6
    <2>2. b[i + n - 2] = t[o + i + n - 2] /\ b[i + n - 1] = t[o + i + n - 1]
        BY <1>1, <2>1
    <2>3. o + i + n - 1 <= Len(t)
        BY <1>0, <1>6
    <2> DEFINE f == SubSeq(b, i, i + n - 1)
               g == SubSeq(t, o + i, o + i + n - 1)
    <2>4. /\ f \in Seq(Octets) /\ Len(f) = n
          /\ \A x \in 1 .. n : f[x] = b[i + x - 1]
        BY <1>0, <1>6
    <2>5. /\ g \in Seq(Octets) /\ Len(g) = n
          /\ \A x \in 1 .. n : g[x] = t[o + i + x - 1]
        BY <1>0, <1>3, <1>6, <2>3
    <2> HIDE DEF f, g
    <2>6. ASSUME NEW x \in 1 .. n PROVE f[x] = g[x]
        <3>1. x - 1 \in Nat /\ i + (x - 1) <= Len(b) /\ i + (x - 1) = i + x - 1 /\ o + i + (x - 1) = o + i + x - 1
            BY <1>0, <1>6
        <3>2. b[i + x - 1] = t[o + i + x - 1]
            BY <1>1, <3>1
        <3>3. QED
            BY <2>4, <2>5, <3>2
    <2>7. f = g
        BY <1>6, <2>4, <2>5, <2>6
    <2>8. Deliver(b, i, n) = Deliver(t, o + i, n)
        BY <2>7 DEF Deliver, f, g
    <2>9. QED
        BY <2>2, <2>3, <2>8 DEF TailAt
<1>7. QED
    BY <1>3, <1>4, <1>5, <1>6

(* Deliveries one after the other.                                          *)
LEMMA Joined ==
    ASSUME NEW D, NEW q \in Seq(D), NEW r \in Seq(D), NEW s \in Seq(D)
    PROVE  q \o (r \o s) = (q \o r) \o s /\ <<>> \o q = q
OBVIOUS

(* What a pass over the buffer from p on must have done: its deliveries are *)
(* the frames of the stream up to the byte it keeps, and when the buffer    *)
(* ends with the stream there are none from that byte on.                   *)
Agrees(b, t, o, S, F, p) ==
    /\ F[o + p] = S[p].out \o F[o + S[p].keep]
    /\ o + Len(b) = Len(t) => F[o + S[p].keep] = <<>>

(* One round of the inner loop against the reference.                       *)
LEMMA RoundAgrees ==
    ASSUME NEW b, NEW t, NEW o, Window(b, t, o), NEW p \in 1 .. Len(b) + 1, NEW S, NEW F,
           \A q \in 1 .. Len(b) + 1 : S[q] \in Scanned(b) /\ S[q] = ScanFrom(b, S, q),
           \A k \in 1 .. Len(t) + 1 : F[k] \in Seq(Deliveries) /\ F[k] = FramesFrom(t, F, k),
           \A q \in p + 1 .. Len(b) + 1 : Agrees(b, t, o, S, F, q)
    PROVE  Agrees(b, t, o, S, F, p)
<1> DEFINE n == ClaimAt(b, p)
<1>0. /\ b \in Seq(Octets) /\ t \in Seq(Octets) /\ o \in Nat /\ o + Len(b) <= Len(t)
      /\ Len(b) \in Nat /\ Len(t) \in Nat
    BY DEF Window
<1>a. Len(b) \in Nat /\ Len(t) \in Nat /\ o \in Nat
    BY <1>0
<1>1. o + p \in 1 .. Len(t) + 1 /\ o + p + 1 = o + (p + 1)
    BY <1>0
<1>2. F[o + p] \in Seq(Deliveries) /\ F[o + p] = FramesFrom(t, F, o + p)
    BY <1>1
<1>3. ASSUME S[p] = [out |-> <<>>, keep |-> p], o + Len(b) = Len(t) => F[o + p] = <<>>
      PROVE  Agrees(b, t, o, S, F, p)
    <2>1. <<>> \o F[o + p] = F[o + p]
        BY <1>2
    <2>2. S[p].out = <<>> /\ S[p].keep = p
        BY <1>3
    <2>3. QED
        BY <1>3, <2>1, <2>2 DEF Agrees
<1>4. ASSUME NEW q \in p + 1 .. Len(b) + 1, NEW d \in Seq(Deliveries),
             S[p] = Onwards(d, S, q), F[o + p] = d \o F[o + q]
      PROVE  Agrees(b, t, o, S, F, p)
    <2>1. Agrees(b, t, o, S, F, q)
        OBVIOUS
    <2>2. q \in 1 .. Len(b) + 1
        BY <1>0
    <2>3. S[q].out \in Seq(Deliveries) /\ S[q].keep \in 1 .. Len(b) + 1
        BY <2>2 DEF Scanned
    <2>4. o + S[q].keep \in 1 .. Len(t) + 1
        BY <1>0, <2>3
    <2>5. F[o + S[q].keep] \in Seq(Deliveries)
        BY <2>4
    <2>6. d \o (S[q].out \o F[o + S[q].keep]) = (d \o S[q].out) \o F[o + S[q].keep]
        <3> DEFINE x == S[q].out
                   y == F[o + S[q].keep]
        <3>1. x \in Seq(Deliveries) /\ y \in Seq(Deliveries)
            BY <2>3, <2>5
        <3> HIDE DEF x, y
        <3>2. d \o (x \o y) = (d \o x) \o y
            BY <3>1, Joined, SMTT(30)
        <3>3. QED
            BY <3>2 DEF x, y
    <2>7. S[p].out = d \o S[q].out /\ S[p].keep = S[q].keep
        BY <1>4 DEF Onwards
    <2>8. QED
        BY <1>4, <2>1, <2>6, <2>7 DEF Agrees
<1>5. CASE p = Len(b) + 1
    <2>1. S[p] = [out |-> <<>>, keep |-> p]
        BY <1>0, <1>5, PassCases
    <2>2. ASSUME o + Len(b) = Len(t) PROVE F[o + p] = <<>>
        <3>1. o + p = Len(t) + 1
            <4>1. o + (Len(b) + 1) = (o + Len(b)) + 1
                BY <1>a
            <4>2. QED
                BY <1>5, <2>2, <4>1
        <3>2. QED
            BY <1>0, <1>1, <1>2, <3>1, FramesCases
    <2>3. QED
        BY <1>3, <2>1, <2>2
<1>6. CASE p = Len(b)
    <2>0. /\ p \in 1 .. Len(b) /\ p <= Len(b)
          /\ o + p \in 1 .. Len(t) /\ b[p] = t[o + p] /\ Last(b) = b[p]
        BY <1>0, <1>6 DEF Window, Last
    <2>1. Heads(b, p) = {}
        BY <1>0, <1>6 DEF Heads, HeaderAt
    <2>2. S[p] = [out |-> <<>>, keep |-> KeepFrom(b)]
        BY <1>0, <2>0, <2>1, PassCases
    <2>3. CASE b[p] = HDR
        <3>1. KeepFrom(b) = p
            BY <1>6, <2>0, <2>3 DEF KeepFrom
        <3>2. ASSUME o + Len(b) = Len(t) PROVE F[o + p] = <<>>
            <4>1. o + p = Len(t) /\ ~HeaderAt(t, o + p) /\ o + p <= Len(t)
                BY <1>0, <1>6, <3>2 DEF HeaderAt
            <4>2. F[o + p] = F[o + p + 1]
                BY <1>0, <1>1, <1>2, <4>1, FramesCases
            <4>3. o + p + 1 = Len(t) + 1 /\ Len(t) + 1 \in 1 .. Len(t) + 1
                BY <1>0, <4>1
            <4>4. F[Len(t) + 1] = <<>>
                BY <1>0, <4>3, FramesCases
            <4>5. QED
                BY <4>2, <4>3, <4>4
        <3>3. QED
            BY <1>3, <2>2, <3>1, <3>2
    <2>4. CASE b[p] # HDR
        <3>1. KeepFrom(b) = p + 1
            BY <1>6, <2>0, <2>4 DEF KeepFrom
        <3>2. ~HeaderAt(t, o + p) /\ o + p <= Len(t)
            BY <2>0, <2>4 DEF HeaderAt
        <3>3. F[o + p] = F[o + p + 1]
            BY <1>0, <1>1, <1>2, <3>2, FramesCases
        <3>4. S[p].out = <<>> /\ S[p].keep = p + 1
            BY <2>2, <3>1
        <3>5. F[o + p + 1] \in Seq(Deliveries)
            BY <1>2, <3>3
        <3>6. <<>> \o F[o + p + 1] = F[o + p + 1]
            BY <3>5
        <3>7. o + Len(b) = Len(t) => F[o + p + 1] = <<>>
            <4>1. o + Len(b) = Len(t) => o + p + 1 = Len(t) + 1
                BY <1>0, <1>6
            <4>2. Len(t) + 1 \in 1 .. Len(t) + 1
                BY <1>0
            <4>3. F[Len(t) + 1] = <<>>
                BY <1>0, <4>2, FramesCases
            <4>4. QED
                BY <4>1, <4>3
        <3>8. QED
            BY <1>1, <3>3, <3>4, <3>6, <3>7 DEF Agrees
    <2>5. QED
        BY <2>3, <2>4
<1>7. CASE p < Len(b)
    <2>0. /\ p \in 1 .. Len(b) /\ p <= Len(b) /\ p + 1 <= Len(b) /\ p + 1 \in p + 1 .. Len(b) + 1
          /\ p + 1 \in 1 .. Len(b) + 1 /\ o + p <= Len(t) /\ o + p + 1 \in 1 .. Len(t) + 1
        BY <1>0, <1>7
    <2>1. /\ o + p \in 1 .. Len(t) /\ (HeaderAt(b, p) <=> HeaderAt(t, o + p))
          /\ p + 3 <= Len(b) => n = ClaimAt(t, o + p) /\ o + p + 3 <= Len(t)
          /\ \A m \in Nat : m >= 6 /\ p + m - 1 <= Len(b) =>
                 /\ TailAt(b, p, m) <=> TailAt(t, o + p, m)
                 /\ Deliver(b, p, m) = Deliver(t, o + p, m)
                 /\ o + p + m - 1 <= Len(t)
        BY <1>7, <2>0, WindowSame
    <2>2. ASSUME S[p] = Onwards(<<>>, S, p + 1), F[o + p] = F[o + p + 1]
          PROVE  Agrees(b, t, o, S, F, p)
        <3>1. F[o + p + 1] \in Seq(Deliveries)
            BY <2>0
        <3>2. <<>> \o F[o + p + 1] = F[o + p + 1] /\ <<>> \in Seq(Deliveries)
            BY <3>1
        <3>3. F[o + p] = <<>> \o F[o + (p + 1)]
            BY <1>1, <2>2, <3>2
        <3>4. QED
            BY <1>4, <2>0, <2>2, <3>2, <3>3
    <2>3. CASE ~HeaderAt(b, p)
        <3>1. Heads(b, p) = Heads(b, p + 1)
            BY <1>0, <2>0, <2>3 DEF Heads
        <3>2. S[p] = S[p + 1]
            <4>1. CASE Heads(b, p) = {}
                <5>1. S[p] = [out |-> <<>>, keep |-> KeepFrom(b)]
                    BY <1>0, <2>0, <4>1, PassCases
                <5>2. Heads(b, p + 1) = {}
                    BY <3>1, <4>1
                <5>3. ScanFrom(b, S, p + 1) = [out |-> <<>>, keep |-> KeepFrom(b)]
                    BY <1>0, <2>0, <5>2, PassCases
                <5>4. QED
                    BY <2>0, <5>1, <5>3
            <4>2. CASE Heads(b, p) # {}
                <5>1. /\ S[p] = AtHeader(b, S, Min(Heads(b, p)))
                      /\ S[p + 1] = AtHeader(b, S, Min(Heads(b, p + 1)))
                    BY <1>0, <2>0, <3>1, <4>2, PassCases
                <5>2. QED
                    BY <3>1, <5>1
            <4>3. QED
                BY <4>1, <4>2
        <3>3. S[p + 1] \in Scanned(b)
            BY <2>0
        <3>4. S[p + 1] = Onwards(<<>>, S, p + 1)
            <4>1. /\ S[p + 1] = [out |-> S[p + 1].out, keep |-> S[p + 1].keep]
                  /\ S[p + 1].out \in Seq(Deliveries)
                BY <3>3 DEF Scanned
            <4>2. <<>> \o S[p + 1].out = S[p + 1].out
                BY <4>1
            <4>3. QED
                BY <4>1, <4>2 DEF Onwards
        <3>5. F[o + p] = F[o + p + 1]
            BY <1>0, <1>1, <1>2, <2>0, <2>1, <2>3, FramesCases
        <3>6. QED
            BY <2>2, <3>2, <3>4, <3>5
    <2>4. CASE HeaderAt(b, p)
        <3>1. p \in Heads(b, p) /\ \A k \in Heads(b, p) : k >= p
            BY <1>0, <2>0, <2>4 DEF Heads
        <3>2. Min(Heads(b, p)) = p
            <4> DEFINE x == Min(Heads(b, p))
            <4>1. x \in Heads(b, p) /\ \A k \in Heads(b, p) : x <= k
                BY <1>0, <3>1, PassCases
            <4> HIDE DEF x
            <4>2. x <= p /\ x >= p /\ x \in Nat
                BY <1>0, <3>1, <4>1 DEF Heads
            <4>3. QED
                BY <4>2 DEF x
        <3>3. S[p] = AtHeader(b, S, p)
            BY <1>0, <3>1, <3>2, PassCases
        <3>4. CASE p + 3 > Len(b)
            <4>1. S[p] = [out |-> <<>>, keep |-> p]
                BY <1>0, <2>0, <2>4, <3>3, <3>4, HeaderCases
            <4>2. ASSUME o + Len(b) = Len(t) PROVE F[o + p] = <<>>
                <5>1. o + p + 3 > Len(t)
                    BY <1>a, <3>4, <4>2
                <5>2. QED
                    BY <1>0, <1>1, <1>2, <2>1, <2>4, <5>1, FramesCases
            <4>3. QED
                BY <1>3, <4>1, <4>2
        <3>5. CASE p + 3 <= Len(b) /\ ~Plausible(n)
            <4>1. S[p] = Onwards(<<>>, S, p + 1)
                <5>1. AtHeader(b, S, p) = Onwards(<<>>, S, p + 1)
                    BY <1>0, <2>0, <2>4, <3>5, HeaderCases, Zenon
                <5>2. QED
                    BY <3>3, <5>1
            <4>2. F[o + p] = F[o + p + 1]
                BY <1>0, <1>1, <1>2, <2>1, <2>4, <3>5, FramesCases
            <4>3. QED
                BY <2>2, <4>1, <4>2
        <3>6. CASE p + 3 <= Len(b) /\ Plausible(n) /\ p + n - 1 > Len(b)
            <4>0. n \in Nat
                BY <1>0, <2>0, <2>4, <3>6, HeaderCases
            <4>1. S[p] = [out |-> <<>>, keep |-> p]
                BY <1>0, <2>0, <2>4, <3>3, <3>6, HeaderCases
            <4>2. ASSUME o + Len(b) = Len(t) PROVE F[o + p] = <<>>
                <5>1. o + p + n - 1 > Len(t)
                    <6> HIDE DEF n
                    <6>1. QED
                        BY <1>a, <3>6, <4>0, <4>2
                <5>2. QED
                    BY <1>0, <1>1, <1>2, <2>1, <2>4, <3>6, <5>1, FramesCases
            <4>3. QED
                BY <1>3, <4>1, <4>2
        <3>7. CASE p + 3 <= Len(b) /\ Plausible(n) /\ p + n - 1 <= Len(b) /\ TailAt(b, p, n)
            <4>0. n \in Nat /\ n >= 6
                BY <1>0, <2>0, <2>4, <3>7, HeaderCases
            <4>1. S[p] = Onwards(Deliver(b, p, n), S, p + n)
                BY <1>0, <2>0, <2>4, <3>3, <3>7, HeaderCases
            <4>2. TailAt(t, o + p, n) /\ Deliver(b, p, n) = Deliver(t, o + p, n) /\ o + p + n - 1 <= Len(t)
                BY <2>1, <3>7, <4>0
            <4>3. F[o + p] = Deliver(b, p, n) \o F[o + p + n]
                <5>1. /\ HeaderAt(t, o + p) /\ o + p + 3 <= Len(t) /\ n = ClaimAt(t, o + p)
                      /\ Plausible(n) /\ t \in Seq(Octets) /\ o + p \in 1 .. Len(t) + 1
                    BY <1>0, <1>1, <2>1, <2>4, <3>7
                <5> HIDE DEF n
                <5>2. FramesFrom(t, F, o + p) = Deliver(t, o + p, n) \o F[o + p + n]
                    BY <4>2, <5>1, FramesCases
                <5>3. QED
                    BY <1>2, <4>2, <5>2
            <4>4. Deliver(b, p, n) \in Seq(Deliveries)
                BY <1>0, <2>0, <3>7, <4>0, DeliverFacts
            <4>5. p + n \in p + 1 .. Len(b) + 1 /\ o + p + n = o + (p + n)
                <5> HIDE DEF n
                <5>1. QED
                    BY <1>a, <3>7, <4>0
            <4>6. QED
                BY <1>4, <4>1, <4>3, <4>4, <4>5
        <3>8. CASE p + 3 <= Len(b) /\ Plausible(n) /\ p + n - 1 <= Len(b) /\ ~TailAt(b, p, n)
            <4>0. n \in Nat /\ n >= 6
                BY <1>0, <2>0, <2>4, <3>8, HeaderCases
            <4>1. S[p] = Onwards(<<>>, S, p + 1)
                BY <1>0, <2>0, <2>4, <3>3, <3>8, HeaderCases
            <4>2. ~TailAt(t, o + p, n) /\ o + p + n - 1 <= Len(t)
                BY <2>1, <3>8, <4>0
            <4>3. F[o + p] = F[o + p + 1]
                BY <1>0, <1>1, <1>2, <2>1, <2>4, <3>8, <4>2, FramesCases
            <4>4. QED
                BY <2>2, <4>1, <4>3
        <3>9. p + 3 > Len(b) \/ p + 3 <= Len(b)
            BY <1>a
        <3>10. p + 3 <= Len(b) => p + n - 1 > Len(b) \/ p + n - 1 <= Len(b)
            <4>1. p + 3 <= Len(b) => n \in Nat
                BY <1>0, <2>0, <2>4, HeaderCases
            <4> HIDE DEF n
            <4>2. QED
                BY <1>a, <4>1
        <3>11. QED
            BY <3>4, <3>5, <3>6, <3>7, <3>8, <3>9, <3>10
    <2>5. QED
        BY <2>3, <2>4
<1>8. QED
    BY <1>0, <1>5, <1>6, <1>7

(* One pass over the buffer delivers what the reference finds in the stream *)
(* up to the byte that the pass keeps, and keeps what may become a frame.   *)
LEMMA ScanAgrees ==
    ASSUME NEW b, NEW t, NEW o, Window(b, t, o)
    PROVE  /\ Scan(b).out \in Seq(Deliveries) /\ Scan(b).keep \in 1 .. Len(b) + 1
           /\ FramesAfter(t, o + 1) = Scan(b).out \o FramesAfter(t, o + Scan(b).keep)
           /\ o + Len(b) = Len(t) => FramesAfter(t, o + Scan(b).keep) = <<>>
<1>1. b \in Seq(Octets) /\ t \in Seq(Octets) /\ Len(b) \in Nat
    BY DEF Window
<1> DEFINE S == ScanOf(b)
           n == Len(b) + 1
<1>2. Scan(b) = S[1] /\ \A p \in 1 .. n : S[p] \in Scanned(b) /\ S[p] = ScanFrom(b, S, p)
    BY <1>1, ScanExists
<1>3. PICK F : /\ \A k \in 1 .. Len(t) + 1 : F[k] \in Seq(Deliveries) /\ F[k] = FramesFrom(t, F, k)
               /\ \A k : FramesAfter(t, k) = F[k]
    BY <1>1, FramesExist
<1> DEFINE T == {p \in 1 .. n : Agrees(b, t, o, S, F, p)}
<1> HIDE DEF S
<1>4. ASSUME NEW p \in 1 .. n, \A q \in p + 1 .. n : q \in T PROVE p \in T
    BY <1>2, <1>3, <1>4, RoundAgrees
<1> HIDE DEF T
<1>5. n \in Nat /\ 1 \in 1 .. n
    BY <1>1
<1>6. 1 \in T
    <2> HIDE DEF n
    <2>1. QED
        BY <1>4, <1>5, FromTheEnd
<1>7. Agrees(b, t, o, S, F, 1) /\ S[1] \in Scanned(b)
    BY <1>2, <1>5, <1>6 DEF T
<1>8. QED
    BY <1>2, <1>3, <1>7 DEF Agrees, Scanned

--------------------
(* Since the buffer was last reset at lo, hi bytes of the stream st have    *)
(* been read: the buffer holds the last of them, and whatever follows, the  *)
(* frames are the deliveries d and those that begin in the buffer or later. *)
Caught(st, lo, hi, buf, d) ==
    /\ buf \in Seq(Octets) /\ d \in Seq(Deliveries) /\ Len(buf) <= hi - lo
    /\ \A x \in 1 .. Len(buf) : buf[x] = st[hi - Len(buf) + x]
    /\ \A q \in hi .. Len(st) :
            FramesAfter(SubSeq(st, lo + 1, q), 1) =
                d \o FramesAfter(SubSeq(st, lo + 1, q), hi - lo - Len(buf) + 1)

(* No complete frame begins in the buffer.                                  *)
AtRest(st, lo, hi, buf) == FramesAfter(SubSeq(st, lo + 1, hi), hi - lo - Len(buf) + 1) = <<>>

(* The elements of two sequences put together, the first of length m.       *)
LEMMA Glued ==
    ASSUME NEW D, NEW u \in Seq(D), NEW v \in Seq(D), NEW m, m = Len(u), NEW r, r = Len(v)
    PROVE  /\ u \o v \in Seq(D) /\ Len(u \o v) = m + r
           /\ \A x \in 1 .. m + r : (u \o v)[x] = IF x <= m THEN u[x] ELSE v[x - m]
OBVIOUS

(* The end of a sequence of length m, from its element k on.                *)
LEMMA EndOf ==
    ASSUME NEW D, NEW u \in Seq(D), NEW m, m = Len(u), NEW k \in 1 .. m + 1
    PROVE  /\ SubSeq(u, k, m) \in Seq(D) /\ Len(SubSeq(u, k, m)) = m - k + 1
           /\ \A x \in 1 .. m - k + 1 : SubSeq(u, k, m)[x] = u[k + x - 1]
OBVIOUS

(* What was read since the reset, up to q.                                  *)
LEMMA SinceFacts ==
    ASSUME NEW st \in Seq(Octets), NEW lo \in Nat, NEW q \in Nat, lo <= q, q <= Len(st)
    PROVE  /\ SubSeq(st, lo + 1, q) \in Seq(Octets) /\ Len(SubSeq(st, lo + 1, q)) = q - lo
           /\ \A x \in 1 .. q - lo : SubSeq(st, lo + 1, q)[x] = st[lo + x]
<1>1. Len(st) \in Nat
    OBVIOUS
<1>2. QED
    BY <1>1

(* The reference gives deliveries.                                          *)
LEMMA AfterIsSeq ==
    ASSUME NEW s \in Seq(Octets), NEW k \in 1 .. Len(s) + 1
    PROVE  FramesAfter(s, k) \in Seq(Deliveries) /\ FramesOf(s) = FramesAfter(s, 1)
BY FramesExist

(* Where the rest of a buffer of m bytes lies, from its byte k on.          *)
LEMMA RestPlace ==
    ASSUME NEW hi \in Nat, NEW lo \in Nat, NEW m \in Nat, m <= hi - lo, NEW k \in 1 .. m + 1,
           NEW r, r = m - k + 1
    PROVE  /\ r \in Nat /\ r <= hi - lo /\ hi - lo - r + 1 = (hi - lo - m) + k
           /\ \A x \in 1 .. r : k + x - 1 \in 1 .. m /\ hi - m + (k + x - 1) = hi - r + x
           /\ \A e \in Nat : (hi - lo - m) + m <= e => (hi - lo - m) + k \in 1 .. e + 1
OBVIOUS

(* A pass over the buffer delivers what is due and leaves the rest.         *)
LEMMA PassCatches ==
    ASSUME NEW st \in Seq(Octets), NEW lo \in Nat, NEW hi \in Nat, lo <= hi, hi <= Len(st),
           NEW b, NEW d, Caught(st, lo, hi, b, d),
           NEW s, s = Scan(b), NEW k, k = s.keep, NEW rest, rest = SubSeq(b, k, Len(b))
    PROVE  /\ s.out \in Seq(Deliveries)
           /\ Caught(st, lo, hi, rest, d \o s.out) /\ AtRest(st, lo, hi, rest)
<1> DEFINE since(q) == SubSeq(st, lo + 1, q)
           o == hi - lo - Len(b)
<1>0. b \in Seq(Octets) /\ Len(b) \in Nat /\ Len(b) <= hi - lo /\ Len(st) \in Nat
    BY DEF Caught
<1>1. o \in Nat /\ o + Len(b) = hi - lo
    BY <1>0
<1>2. ASSUME NEW q \in hi .. Len(st) PROVE Window(b, since(q), o)
    <2>1. since(q) \in Seq(Octets) /\ Len(since(q)) = q - lo /\ \A x \in 1 .. q - lo : since(q)[x] = st[lo + x]
        BY <1>0, SinceFacts
    <2>2. ASSUME NEW x \in 1 .. Len(b) PROVE b[x] = since(q)[o + x]
        <3>1. o + x \in 1 .. q - lo /\ lo + (o + x) = hi - Len(b) + x
            BY <1>0, <1>1
        <3>2. since(q)[o + x] = st[lo + (o + x)]
            BY <2>1, <3>1
        <3>3. b[x] = st[hi - Len(b) + x]
            BY DEF Caught
        <3>4. QED
            BY <3>1, <3>2, <3>3
    <2> HIDE DEF since, o
    <2>3. o + Len(b) <= Len(since(q))
        BY <1>0, <1>1, <2>1
    <2>4. QED
        BY <1>0, <1>1, <2>1, <2>2, <2>3 DEF Window
<1> HIDE DEF since, o
<1>3. hi \in hi .. Len(st)
    BY <1>0
<1>4. s.out \in Seq(Deliveries) /\ k \in 1 .. Len(b) + 1
    BY <1>2, <1>3, ScanAgrees
<1>5. /\ rest \in Seq(Octets) /\ Len(rest) = Len(b) - k + 1
      /\ \A x \in 1 .. Len(rest) : rest[x] = b[k + x - 1]
    <2>1. PICK m : m = Len(b)
        OBVIOUS
    <2>2. PICK l : l = k
        OBVIOUS
    <2> DEFINE e == SubSeq(b, l, m)
    <2>3. l \in 1 .. m + 1
        BY <1>4, <2>1, <2>2
    <2>4. /\ e \in Seq(Octets) /\ Len(e) = m - l + 1
          /\ \A x \in 1 .. m - l + 1 : e[x] = b[l + x - 1]
        <3>1. \A y, z : z = Len(b) /\ y \in 1 .. z + 1 =>
                /\ SubSeq(b, y, z) \in Seq(Octets) /\ Len(SubSeq(b, y, z)) = z - y + 1
                /\ \A x \in 1 .. z - y + 1 : SubSeq(b, y, z)[x] = b[y + x - 1]
            BY <1>0, EndOf
        <3>2. QED
            BY <2>1, <2>3, <3>1, Zenon
    <2>5. rest = e
        BY <2>1, <2>2
    <2> HIDE DEF e
    <2>6. QED
        BY <2>1, <2>2, <2>4, <2>5
<1>6. hi - lo - Len(rest) + 1 = o + k /\ Len(rest) <= hi - lo
    BY <1>0, <1>4, <1>5, RestPlace, SMTT(30) DEF o
<1>7. ASSUME NEW x \in 1 .. Len(rest) PROVE rest[x] = st[hi - Len(rest) + x]
    <2>1. PICK u : u = k + x - 1
        OBVIOUS
    <2>2. PICK m : m = Len(b)
        OBVIOUS
    <2>3. PICK r : r = Len(rest)
        OBVIOUS
    <2>4. PICK l : l = k
        OBVIOUS
    <2>5. u \in 1 .. m /\ hi - m + u = hi - r + x
        <3>1. m \in Nat /\ l \in 1 .. m + 1 /\ r = m - l + 1 /\ x \in 1 .. r /\ u = l + x - 1
            BY <1>0, <1>4, <1>5, <2>1, <2>2, <2>3, <2>4
        <3>2. QED
            BY <3>1
    <2>6. b[u] = st[hi - m + u]
        BY <2>2, <2>5 DEF Caught
    <2>7. rest[x] = b[u]
        BY <1>5, <2>1
    <2>8. QED
        BY <2>3, <2>5, <2>6, <2>7
<1>8. ASSUME NEW q \in hi .. Len(st)
      PROVE  FramesAfter(since(q), 1) = (d \o s.out) \o FramesAfter(since(q), o + k)
    <2> DEFINE A == FramesAfter(since(q), o + k)
    <2>1. FramesAfter(since(q), 1) = d \o FramesAfter(since(q), o + 1)
        BY DEF Caught, since, o
    <2>2. FramesAfter(since(q), o + 1) = s.out \o A
        BY <1>2, ScanAgrees
    <2>3. A \in Seq(Deliveries) /\ d \in Seq(Deliveries)
        <3>1. since(q) \in Seq(Octets) /\ o + Len(b) <= Len(since(q)) /\ Len(since(q)) \in Nat
            BY <1>2, SMTT(30) DEF Window
        <3>2. o + k \in 1 .. Len(since(q)) + 1
            <4>1. PICK m : m = Len(b)
                OBVIOUS
            <4>2. PICK l : l = k
                OBVIOUS
            <4>3. PICK e : e = Len(since(q))
                OBVIOUS
            <4>4. o \in Nat /\ m \in Nat /\ l \in 1 .. m + 1 /\ e \in Nat /\ o + m <= e
                BY <1>0, <1>1, <1>4, <3>1, <4>1, <4>2, <4>3
            <4>5. o + l \in 1 .. e + 1
                BY <4>4
            <4>6. QED
                BY <4>2, <4>3, <4>5
        <3>3. QED
            BY <3>1, <3>2, AfterIsSeq DEF Caught
    <2> HIDE DEF A
    <2>4. d \o (s.out \o A) = (d \o s.out) \o A
        <3> DEFINE x == s.out
        <3>1. x \in Seq(Deliveries)
            BY <1>4
        <3> HIDE DEF x
        <3>2. \A u, v, w \in Seq(Deliveries) : u \o (v \o w) = (u \o v) \o w
            BY Joined, SMTT(30)
        <3>3. QED
            BY <2>3, <3>1, <3>2, Zenon DEF x
    <2>5. QED
        BY <2>1, <2>2, <2>4 DEF A
<1>9. FramesAfter(since(hi), o + k) = <<>>
    <2>1. Len(since(hi)) = hi - lo
        BY <1>0, SinceFacts DEF since
    <2>2. QED
        BY <1>1, <1>2, <1>3, <2>1, ScanAgrees
<1>10. d \o s.out \in Seq(Deliveries)
    <2>1. d \in Seq(Deliveries)
        BY DEF Caught
    <2>2. QED
        BY <1>4, <2>1
<1>11. QED
    BY <1>4, <1>5, <1>6, <1>7, <1>8, <1>9, <1>10 DEF Caught, AtRest, since

(* A chunk that fits is put behind the bytes that wait.                     *)
LEMMA ChunkCatches ==
    ASSUME NEW st \in Seq(Octets), NEW lo \in Nat, NEW hi \in Nat, lo <= hi,
           NEW n \in Nat, hi + n <= Len(st), NEW b, NEW d, Caught(st, lo, hi, b, d)
    PROVE  Caught(st, lo, hi + n, b \o SubSeq(st, hi + 1, hi + n), d)
<1> DEFINE c == SubSeq(st, hi + 1, hi + n)
           w == b \o c
<1>0. b \in Seq(Octets) /\ Len(b) \in Nat /\ Len(b) <= hi - lo /\ Len(st) \in Nat
    BY DEF Caught
<1>1. c \in Seq(Octets) /\ Len(c) = n /\ \A x \in 1 .. n : c[x] = st[hi + x]
    <2>1. hi + n - hi = n /\ hi + n \in Nat /\ hi <= hi + n
        OBVIOUS
    <2>2. QED
        BY <2>1, SinceFacts
<1> HIDE DEF c
<1>2. /\ w \in Seq(Octets) /\ Len(w) = Len(b) + n
      /\ \A x \in 1 .. Len(b) + n : w[x] = IF x <= Len(b) THEN b[x] ELSE c[x - Len(b)]
    <2>1. PICK m : m = Len(b)
        OBVIOUS
    <2>2. /\ w \in Seq(Octets) /\ Len(w) = m + n
          /\ \A x \in 1 .. m + n : w[x] = IF x <= m THEN b[x] ELSE c[x - m]
        <3>1. \A u, v \in Seq(Octets) : \A z, y : z = Len(u) /\ y = Len(v) =>
                /\ u \o v \in Seq(Octets) /\ Len(u \o v) = z + y
                /\ \A x \in 1 .. z + y : (u \o v)[x] = IF x <= z THEN u[x] ELSE v[x - z]
            BY Glued
        <3>2. b \in Seq(Octets) /\ c \in Seq(Octets) /\ m = Len(b) /\ n = Len(c)
            BY <1>0, <1>1, <2>1
        <3>3. PICK y : y = n
            OBVIOUS
        <3>4. y = Len(c)
            BY <3>2, <3>3
        <3>5. /\ b \o c \in Seq(Octets) /\ Len(b \o c) = m + y
              /\ \A x \in 1 .. m + y : (b \o c)[x] = IF x <= m THEN b[x] ELSE c[x - m]
            BY <3>1, <3>2, <3>4
        <3>6. QED
            BY <3>3, <3>5
    <2> HIDE DEF w
    <2>3. QED
        BY <2>1, <2>2
<1> HIDE DEF w
<1>3. ASSUME NEW x \in 1 .. Len(w) PROVE w[x] = st[hi + n - Len(w) + x]
    <2>1. hi + n - Len(w) + x = hi - Len(b) + x /\ x \in 1 .. Len(b) + n
        BY <1>0, <1>2
    <2>2. CASE x <= Len(b)
        <3>1. w[x] = b[x] /\ x \in 1 .. Len(b)
            BY <1>0, <1>2, <2>1, <2>2
        <3>2. QED
            BY <2>1, <3>1 DEF Caught
    <2>3. CASE ~(x <= Len(b))
        <3>1. w[x] = c[x - Len(b)]
            BY <1>2, <2>1, <2>3
        <3>2. x - Len(b) \in 1 .. n /\ hi + (x - Len(b)) = hi - Len(b) + x
            BY <1>0, <2>1, <2>3
        <3>3. QED
            BY <1>1, <2>1, <3>1, <3>2
    <2>4. QED
        BY <2>2, <2>3
<1>4. hi + n - lo - Len(w) + 1 = hi - lo - Len(b) + 1 /\ Len(w) <= hi + n - lo
    BY <1>0, <1>2
<1>5. ASSUME NEW q \in hi + n .. Len(st)
      PROVE  FramesAfter(SubSeq(st, lo + 1, q), 1) =
                d \o FramesAfter(SubSeq(st, lo + 1, q), hi + n - lo - Len(w) + 1)
    <2>1. q \in hi .. Len(st)
        BY <1>0
    <2>2. QED
        BY <1>4, <2>1 DEF Caught
<1>6. d \in Seq(Deliveries)
    BY DEF Caught
<1>7. Caught(st, lo, hi + n, w, d)
    BY <1>2, <1>3, <1>4, <1>5, <1>6, SMTT(30) DEF Caught
<1>8. QED
    BY <1>7 DEF w, c

(* A chunk read into an empty buffer.                                       *)
LEMMA FreshCatches ==
    ASSUME NEW st \in Seq(Octets), NEW hi \in Nat, NEW n \in Nat, hi + n <= Len(st)
    PROVE  Caught(st, hi, hi + n, SubSeq(st, hi + 1, hi + n), <<>>)
<1> DEFINE c == SubSeq(st, hi + 1, hi + n)
<1>1. c \in Seq(Octets) /\ Len(c) = n /\ \A x \in 1 .. n : c[x] = st[hi + x]
    <2>1. PICK q \in Nat : q = hi + n
        OBVIOUS
    <2>2. hi <= q /\ q <= Len(st) /\ q - hi = n
        BY <2>1
    <2>3. c = SubSeq(st, hi + 1, q)
        BY <2>1
    <2> HIDE DEF c
    <2>4. QED
        BY <2>2, <2>3, SinceFacts
<1> HIDE DEF c
<1>2. /\ hi + n - hi - Len(c) + 1 = 1 /\ Len(c) <= hi + n - hi /\ hi + n - Len(c) = hi
      /\ Len(st) \in Nat
    BY <1>1
<1>3. ASSUME NEW q \in hi + n .. Len(st)
      PROVE  FramesAfter(SubSeq(st, hi + 1, q), 1) =
                <<>> \o FramesAfter(SubSeq(st, hi + 1, q), hi + n - hi - Len(c) + 1)
    <2> DEFINE A == FramesAfter(SubSeq(st, hi + 1, q), 1)
    <2>1. SubSeq(st, hi + 1, q) \in Seq(Octets)
        BY <1>2, SinceFacts
    <2>2. 1 \in 1 .. Len(SubSeq(st, hi + 1, q)) + 1
        BY <2>1
    <2>3. A \in Seq(Deliveries)
        BY <2>1, <2>2, AfterIsSeq
    <2> HIDE DEF A
    <2>4. <<>> \o A = A
        BY <2>3
    <2>5. QED
        BY <1>2, <2>4 DEF A
<1>4. <<>> \in Seq(Deliveries)
    OBVIOUS
<1>5. Caught(st, hi, hi + n, c, <<>>)
    BY <1>1, <1>2, <1>3, <1>4 DEF Caught
<1>6. QED
    BY <1>5 DEF c

--------------------
(* What was delivered since the buffer was last reset.                      *)
News == SubSeq(delivered, before + 1, Len(delivered))

(* What the receive thread maintains: the deliveries since the reset and    *)
(* the bytes that wait account for all that was read, and no frame waits.   *)
SyncInv ==
    /\ wire \in Wires /\ pos \in 0 .. Len(stream) /\ base \in 0 .. pos
    /\ delivered \in Seq(Deliveries) /\ before \in 0 .. Len(delivered)
    /\ Caught(stream, base, pos, frame_buffer, News)
    /\ AtRest(stream, base, pos, frame_buffer)

(* Sequences with the same elements are the same.                           *)
LEMMA SameElements ==
    ASSUME NEW D, NEW a \in Seq(D), NEW g \in Seq(D), Len(g) = Len(a), \A x \in 1 .. Len(a) : a[x] = g[x]
    PROVE  a = g
OBVIOUS

(* The deliveries from a place on, when more are appended.                  *)
LEMMA NewsGrow ==
    ASSUME NEW D, NEW d \in Seq(D), NEW e \in Seq(D), NEW k \in 0 .. Len(d)
    PROVE  /\ d \o e \in Seq(D) /\ k \in 0 .. Len(d \o e) /\ Len(d) \in 0 .. Len(d \o e)
           /\ SubSeq(d \o e, k + 1, Len(d \o e)) = SubSeq(d, k + 1, Len(d)) \o e
           /\ SubSeq(d \o e, Len(d) + 1, Len(d \o e)) = <<>> \o e
<1> DEFINE w == d \o e
           m == Len(d)
           r == Len(e)
<1>1. m \in Nat /\ r \in Nat /\ k \in Nat /\ k <= m
    OBVIOUS
<1>2. w \in Seq(D) /\ Len(w) = m + r
    OBVIOUS
<1>3. \A x \in 1 .. m + r : w[x] = IF x <= m THEN d[x] ELSE e[x - m]
    OBVIOUS
<1>4. ASSUME NEW j \in 0 .. m
      PROVE  SubSeq(w, j + 1, m + r) = SubSeq(d, j + 1, m) \o e
    <2> DEFINE a == SubSeq(w, j + 1, m + r)
               b == SubSeq(d, j + 1, m)
    <2> HIDE DEF w
    <2>1. a \in Seq(D) /\ Len(a) = m + r - j /\ \A x \in 1 .. m + r - j : a[x] = w[j + x]
        BY <1>1, <1>2
    <2>2. b \in Seq(D) /\ Len(b) = m - j /\ \A x \in 1 .. m - j : b[x] = d[j + x]
        BY <1>1
    <2> HIDE DEF a, b
    <2>3. /\ b \o e \in Seq(D) /\ Len(b \o e) = m - j + r
          /\ \A x \in 1 .. m - j + r : (b \o e)[x] = IF x <= m - j THEN b[x] ELSE e[x - (m - j)]
        <3>1. PICK y : y = m - j
            OBVIOUS
        <3>2. PICK z : z = r
            OBVIOUS
        <3> HIDE DEF m
        <3>3. y = Len(b) /\ z = Len(e)
            BY <2>2, <3>1, <3>2
        <3>4. /\ b \o e \in Seq(D) /\ Len(b \o e) = y + z
              /\ \A x \in 1 .. y + z : (b \o e)[x] = IF x <= y THEN b[x] ELSE e[x - y]
            BY <2>2, <3>3, Glued, SMTT(30)
        <3> HIDE DEF r
        <3>5. QED
            BY <3>1, <3>2, <3>4
    <2>4. m - j + r = m + r - j
        BY <1>1
    <2>5. ASSUME NEW x \in 1 .. m + r - j PROVE a[x] = (b \o e)[x]
        <3> HIDE DEF m, r
        <3>1. j + x \in 1 .. m + r /\ x \in 1 .. m - j + r
            BY <1>1
        <3>2. CASE x <= m - j
            <4>1. x \in 1 .. m - j /\ j + x <= m
                BY <1>1, <3>2
            <4>2. QED
                BY <1>3, <2>1, <2>2, <2>3, <3>1, <3>2, <4>1
        <3>3. CASE ~(x <= m - j)
            <4>1. ~(j + x <= m) /\ j + x - m = x - (m - j)
                BY <1>1, <3>3
            <4>2. QED
                <5>1. PICK z : z = x - (m - j)
                    OBVIOUS
                <5>2. PICK i : i = j + x
                    OBVIOUS
                <5>3. (b \o e)[x] = e[z]
                    BY <2>3, <3>1, <3>3, <5>1
                <5>4. a[x] = w[i]
                    BY <2>1, <5>2
                <5>5. i \in 1 .. m + r /\ ~(i <= m) /\ i - m = z
                    BY <1>1, <3>1, <4>1, <5>1, <5>2
                <5>6. w[i] = e[z]
                    BY <1>3, <5>5
                <5>7. QED
                    BY <5>3, <5>4, <5>6
        <3>4. QED
            BY <3>2, <3>3
    <2>6. a = b \o e
        <3> DEFINE g == b \o e
        <3>1. g \in Seq(D) /\ Len(g) = Len(a) /\ \A x \in 1 .. Len(a) : a[x] = g[x]
            BY <2>1, <2>3, <2>4, <2>5
        <3> HIDE DEF g
        <3>2. a = g
            BY <2>1, <3>1, SameElements, Zenon
        <3>3. QED
            BY <3>2 DEF g
    <2>7. QED
        BY <2>6 DEF a, b
<1>5. m \in 0 .. m /\ k \in 0 .. m
    BY <1>1
<1>6. SubSeq(d, m + 1, m) = <<>>
    BY <1>1
<1>7. SubSeq(w, k + 1, m + r) = SubSeq(d, k + 1, m) \o e
    BY <1>4, <1>5
<1>8. SubSeq(w, m + 1, m + r) = <<>> \o e
    BY <1>4, <1>5, <1>6
<1>9. k \in 0 .. m + r /\ m \in 0 .. m + r
    <2> HIDE DEF m, r
    <2>1. QED
        BY <1>1
<1>10. /\ w \in Seq(D) /\ k \in 0 .. Len(w) /\ m \in 0 .. Len(w)
       /\ SubSeq(w, k + 1, Len(w)) = SubSeq(d, k + 1, m) \o e
       /\ SubSeq(w, m + 1, Len(w)) = <<>> \o e
    <2> HIDE DEF w, m, r
    <2>1. QED
        BY <1>2, <1>7, <1>8, <1>9
<1>11. QED
    BY <1>10

(* The bytes of every line of the model are bytes.                          *)
LEMMA StreamIsBytes == ASSUME wire \in Wires PROVE stream \in Seq(Octets)
BY FrameAssumption DEF stream, Octets

(* Nothing was read and nothing waits.                                      *)
LEMMA SyncStarts == SyncInit => SyncInv
<1> SUFFICES ASSUME SyncInit PROVE SyncInv
    OBVIOUS
<1>1. wire \in Wires /\ pos = 0 /\ frame_buffer = <<>> /\ delivered = <<>> /\ base = 0 /\ before = 0
    BY DEF SyncInit
<1>2. stream \in Seq(Octets)
    BY <1>1, StreamIsBytes
<1> DEFINE st == stream
<1> HIDE DEF st
<1>3. st \in Seq(Octets) /\ Len(st) \in Nat
    BY <1>2 DEF st
<1>4. SubSeq(st, 1, 0) = <<>>
    BY <1>3
<1>5. Caught(st, 0, 0, <<>>, <<>>)
    <2>1. Caught(st, 0, 0 + 0, SubSeq(st, 0 + 1, 0 + 0), <<>>)
        <3>1. 0 \in Nat /\ 0 + 0 <= Len(st)
            BY <1>3
        <3>2. QED
            BY <1>3, <3>1, FreshCatches
    <2>2. 0 + 0 = 0 /\ 0 + 1 = 1
        OBVIOUS
    <2>3. QED
        BY <1>4, <2>1, <2>2
<1>6. AtRest(st, 0, 0, <<>>)
    <2> DEFINE e == SubSeq(st, 1, 0)
    <2>1. e \in Seq(Octets) /\ Len(e) = 0
        BY <1>4
    <2> HIDE DEF e
    <2>2. PICK F : /\ \A j \in 1 .. Len(e) + 1 : F[j] \in Seq(Deliveries) /\ F[j] = FramesFrom(e, F, j)
                   /\ \A j : FramesAfter(e, j) = F[j]
        BY <2>1, FramesExist
    <2>3. F[1] = FramesFrom(e, F, 1)
        BY <2>1, <2>2
    <2>4. FramesFrom(e, F, 1) = <<>>
        BY <2>1 DEF FramesFrom
    <2>5. FramesAfter(e, 1) = <<>>
        BY <2>2, <2>3, <2>4
    <2>6. 0 - 0 - Len(<<>>) + 1 = 1 /\ 0 + 1 = 1
        OBVIOUS
    <2>7. QED
        BY <2>5, <2>6 DEF AtRest, e
<1>7. News = <<>>
    BY <1>1 DEF News
<1>8. <<>> \in Seq(Deliveries) /\ Len(<<>>) = 0
    OBVIOUS
<1>9. QED
    BY <1>1, <1>3, <1>5, <1>6, <1>7, <1>8 DEF SyncInv, st

(* Every read() keeps it, with and without a reset of the buffer.           *)
LEMMA ReadKeeps == SyncInv /\ Read => SyncInv'
<1> SUFFICES ASSUME SyncInv, Read PROVE SyncInv'
    OBVIOUS
<1>1. PICK n \in 1 .. READ_SIZE :
        LET chunk == SubSeq(stream, pos + 1, pos + n)
            b     == IF Room(chunk) THEN frame_buffer \o chunk ELSE chunk
            s     == Scan(b)
        IN  /\ pos + n <= Len(stream)
            /\ pos' = pos + n
            /\ frame_buffer' = SubSeq(b, s.keep, Len(b))
            /\ delivered' = delivered \o s.out
            /\ IF Room(chunk) THEN UNCHANGED <<base, before>>
                              ELSE base' = pos /\ before' = Len(delivered)
            /\ UNCHANGED wire
    BY DEF Read
<1> DEFINE st == stream
           chunk == SubSeq(st, pos + 1, pos + n)
           b == IF Room(chunk) THEN frame_buffer \o chunk ELSE chunk
           s == Scan(b)
           k == s.keep
           rest == SubSeq(b, k, Len(b))
           lo == IF Room(chunk) THEN base ELSE pos
           from == IF Room(chunk) THEN before ELSE Len(delivered)
           d == IF Room(chunk) THEN News ELSE <<>>
           hi == pos + n
<1>2. /\ hi <= Len(st) /\ pos' = hi /\ frame_buffer' = rest /\ delivered' = delivered \o s.out
      /\ base' = lo /\ before' = from /\ wire' = wire
    BY <1>1
<1>3. /\ wire \in Wires /\ pos \in 0 .. Len(st) /\ base \in 0 .. pos
      /\ delivered \in Seq(Deliveries) /\ before \in 0 .. Len(delivered)
      /\ Caught(st, base, pos, frame_buffer, News)
    BY DEF SyncInv
<1>4. st \in Seq(Octets) /\ Len(st) \in Nat
    BY <1>3, StreamIsBytes
<1>5. stream' = st
    BY <1>2 DEF stream
<1> HIDE DEF st
<1>6. pos \in Nat /\ base \in Nat /\ base <= pos /\ n \in Nat /\ hi \in Nat /\ pos <= hi
    BY <1>3, <1>4
<1>7. Caught(st, lo, hi, b, d)
    <2>1. CASE Room(chunk)
        <3>1. Caught(st, base, pos + n, frame_buffer \o SubSeq(st, pos + 1, pos + n), News)
            BY <1>2, <1>3, <1>4, <1>6, ChunkCatches
        <3>2. QED
            BY <2>1, <3>1
    <2>2. CASE ~Room(chunk)
        <3>1. Caught(st, pos, pos + n, SubSeq(st, pos + 1, pos + n), <<>>)
            BY <1>2, <1>4, <1>6, FreshCatches
        <3>2. QED
            BY <2>2, <3>1
    <2>3. QED
        BY <2>1, <2>2
<1>8. lo \in Nat /\ lo <= hi /\ lo \in 0 .. hi /\ hi \in 0 .. Len(st)
    BY <1>2, <1>6
<1>9. ASSUME s.out \in Seq(Deliveries)
      PROVE  /\ delivered \o s.out \in Seq(Deliveries) /\ from \in 0 .. Len(delivered \o s.out)
             /\ SubSeq(delivered \o s.out, from + 1, Len(delivered \o s.out)) = d \o s.out
    <2> DEFINE e == s.out
    <2>1. e \in Seq(Deliveries)
        BY <1>9
    <2> HIDE DEF e
    <2>2. /\ delivered \o e \in Seq(Deliveries) /\ before \in 0 .. Len(delivered \o e)
          /\ Len(delivered) \in 0 .. Len(delivered \o e)
          /\ SubSeq(delivered \o e, before + 1, Len(delivered \o e)) = News \o e
          /\ SubSeq(delivered \o e, Len(delivered) + 1, Len(delivered \o e)) = <<>> \o e
        BY <1>3, <2>1, NewsGrow DEF News
    <2> HIDE DEF chunk
    <2>3. /\ delivered \o e \in Seq(Deliveries) /\ from \in 0 .. Len(delivered \o e)
          /\ SubSeq(delivered \o e, from + 1, Len(delivered \o e)) = d \o e
        BY <2>2
    <2>4. QED
        BY <2>3 DEF e
<1> HIDE DEF lo, from, d, hi, b, chunk
<1>10. s.out \in Seq(Deliveries) /\ Caught(st, lo, hi, rest, d \o s.out) /\ AtRest(st, lo, hi, rest)
    BY <1>2, <1>4, <1>6, <1>7, <1>8, PassCatches
<1> HIDE DEF s, k, rest
<1>11. News' = d \o s.out
    BY <1>2, <1>9, <1>10 DEF News
<1>12. QED
    BY <1>2, <1>3, <1>5, <1>8, <1>9, <1>10, <1>11 DEF SyncInv

(* SyncInv is an invariant of the receive thread.                           *)
THEOREM SyncInvTheorem == SyncSpec => []SyncInv
<1>1. ASSUME SyncInv, [SyncNext]_syncVars PROVE SyncInv'
    <2>1. CASE SyncNext
        BY <1>1, <2>1, ReadKeeps DEF SyncNext
    <2>2. CASE syncVars' = syncVars
        <3>1. /\ wire' = wire /\ pos' = pos /\ frame_buffer' = frame_buffer /\ delivered' = delivered
              /\ base' = base /\ before' = before
            BY <2>2 DEF syncVars
        <3>2. stream' = stream /\ News' = News
            BY <3>1 DEF stream, News
        <3>3. QED
            BY <1>1, <3>1, <3>2 DEF SyncInv
    <2>3. QED
        BY <1>1, <2>1, <2>2
<1>2. QED
    BY <1>1, SyncStarts, PTL DEF SyncSpec

(* Where read() cuts the stream makes no difference to what the callbacks   *)
(* of uart_recv_thread get, for every line and every size of the buffers.   *)
THEOREM ChunksDoNotMatterTheorem == SyncSpec => []ChunksDoNotMatter
<1>1. ASSUME SyncInv PROVE ChunksDoNotMatter
    <2> DEFINE st == stream
               t == SubSeq(st, base + 1, pos)
    <2>1. /\ wire \in Wires /\ pos \in 0 .. Len(st) /\ base \in 0 .. pos
          /\ Caught(st, base, pos, frame_buffer, News) /\ AtRest(st, base, pos, frame_buffer)
        BY <1>1 DEF SyncInv
    <2>2. st \in Seq(Octets) /\ Len(st) \in Nat
        BY <2>1, StreamIsBytes
    <2> HIDE DEF st
    <2>3. pos \in Nat /\ base \in Nat /\ base <= pos /\ pos <= Len(st) /\ pos \in pos .. Len(st)
        BY <2>1, <2>2
    <2>4. FramesAfter(t, 1) = News \o FramesAfter(t, pos - base - Len(frame_buffer) + 1)
        BY <2>1, <2>3 DEF Caught
    <2>5. FramesAfter(t, pos - base - Len(frame_buffer) + 1) = <<>> /\ News \in Seq(Deliveries)
        BY <2>1 DEF AtRest, Caught
    <2>6. News \o <<>> = News
        BY <2>5
    <2>7. t \in Seq(Octets)
        BY <2>2, <2>3, SinceFacts
    <2>8. 1 \in 1 .. Len(t) + 1
        BY <2>7
    <2>9. FramesOf(t) = FramesAfter(t, 1)
        BY <2>7, <2>8, AfterIsSeq
    <2>10. FramesOf(t) = News
        BY <2>4, <2>5, <2>6, <2>9
    <2>11. QED
        BY <2>10 DEF ChunksDoNotMatter, News, st
<1>2. QED
    BY <1>1, SyncInvTheorem, PTL

====================
