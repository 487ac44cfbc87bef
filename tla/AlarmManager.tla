---------- MODULE AlarmManager ----------
(***************************************************************************)
(* The alarm manager (alarm_manager.c) with the threads that call it: the  *)
(* UART receiver, which watches the FPGA's telemetry for edges, the TCP    *)
(* receive thread, which reports the loss of its connection and raises the *)
(* alarms of failed commands, and the reconnect thread, which reports the  *)
(* new connection and sends what is pending.                               *)
(*                                                                         *)
(* g_alarm_mgr.mutex is released around every send to the BBU, so a call   *)
(* is up to three steps: the table, the message, the "reported" mark.      *)
(***************************************************************************)
EXTENDS Naturals, FiniteSets

CONSTANTS
    Uart, Recv, Reconn,    \* the three threads
    FpgaAlarms,            \* (code, sub code) pairs checked in the telemetry
    CommandAlarms,         \* raised by failed commands, never cleared
    TcpAlarm,              \* 1160, the TCP connection is down
    MAX_ALARM_RECORDS

Alarms  == FpgaAlarms \cup CommandAlarms \cup {TcpAlarm}
Callers == {Uart, Recv, Reconn}

ASSUME AlarmAssumption ==
    /\ Cardinality(Callers) = 3
    /\ TcpAlarm \notin FpgaAlarms \cup CommandAlarms /\ FpgaAlarms \cap CommandAlarms = {}
    /\ MAX_ALARM_RECORDS \in Nat \ {0}

VARIABLES
    records,       \* g_alarm_mgr.records
    tcp_connected,
    state_tracker,
    call,          \* what is left of each thread's call into the manager
    recv_pc, reconn_pc,
    peer,          \* the connection to the BBU works
    bbu,           \* the alarms the BBU holds to be active
    sent,          \* history: ACTIVE was handed to TCP since the slot was filled
    lost,          \* history: active alarms whose latest ACTIVE was sent in vain
    overtaken      \* history: calls of an old receiver made after the new connection's

mgrVars == <<records, tcp_connected, state_tracker>>
history == <<sent, lost>>
vars == <<mgrVars, call, recv_pc, reconn_pc, peer, bbu, history, overtaken>>

Slots    == 1 .. MAX_ALARM_RECORDS
NoRecord == [active |-> FALSE]
Idle     == [pc |-> "idle"]
Call(pc, a, i) == [pc |-> pc, alarm |-> a, slot |-> i]

Holds(i, a) == records[i].active /\ records[i].alarm = a
SlotsOf(a)  == {i \in Slots : Holds(i, a)}           \* find_alarm_record
FreeSlots   == {i \in Slots : ~records[i].active}    \* find_free_record
First(S)    == CHOOSE i \in S : \A k \in S : i <= k
Active      == {a \in Alarms : SlotsOf(a) # {}}
Quiet       == \A t \in Callers : call[t] = Idle

Init ==
    /\ records = [i \in Slots |-> NoRecord]
    /\ tcp_connected = FALSE
    /\ state_tracker = [a \in FpgaAlarms \cup {TcpAlarm} |-> FALSE]
    /\ call = [t \in Callers |-> Idle]
    /\ recv_pc = "done" /\ reconn_pc = "poll"
    /\ peer = FALSE /\ bbu = {}
    /\ sent = [i \in Slots |-> FALSE] /\ lost = {}
    /\ overtaken = {}

--------------------
(* Slip of TriggerRecord: the record is marked before the connection flag   *)
(* is known.                                                                *)
TriggerMarked(t) ==
    /\ call[t].pc = "trigger"
    /\ LET a == call[t].alarm
           i == First(FreeSlots)
       IN  IF a \in Active \/ FreeSlots = {}
           THEN call' = [call EXCEPT ![t] = Idle] /\ UNCHANGED records
           ELSE /\ records' = [records EXCEPT ![i] =
                                  [active |-> TRUE, alarm |-> a, reported |-> TRUE]]
                /\ call' = [call EXCEPT ![t] =
                               IF tcp_connected THEN Call("send", a, i) ELSE Idle]
    /\ UNCHANGED <<tcp_connected, state_tracker, recv_pc, reconn_pc, peer, bbu, history, overtaken>>

(* alarm_trigger, first critical section: an active alarm is not repeated,  *)
(* a full table refuses; otherwise the record is written and the connection *)
(* flag read.                                                               *)
TriggerRecord(t) ==
    /\ call[t].pc = "trigger"
    /\ LET a == call[t].alarm
           i == First(FreeSlots)
       IN  IF a \in Active \/ FreeSlots = {}
           THEN call' = [call EXCEPT ![t] = Idle] /\ UNCHANGED records
           ELSE /\ records' = [records EXCEPT ![i] =
                                  [active |-> TRUE, alarm |-> a, reported |-> FALSE]]
                /\ call' = [call EXCEPT ![t] =
                               IF tcp_connected THEN Call("send", a, i) ELSE Idle]
    /\ UNCHANGED <<tcp_connected, state_tracker, recv_pc, reconn_pc, peer, bbu, history, overtaken>>

(* alarm_report_to_bbu(ACTIVE): tcp_client_send's result is ignored         *)
SendActive(t) ==
    /\ call[t].pc = "send"
    /\ LET a == call[t].alarm
       IN  /\ bbu' = IF peer THEN bbu \cup {a} ELSE bbu
           /\ lost' = IF peer THEN lost \ {a} ELSE lost \cup (Active \cap {a})
           /\ sent' = [i \in Slots |-> sent[i] \/ Holds(i, a)]
    /\ call' = [call EXCEPT ![t].pc = "mark"]
    /\ UNCHANGED <<mgrVars, recv_pc, reconn_pc, peer, overtaken>>

(* The mark, if the slot still holds this alarm; alarm_report_all_pending   *)
(* goes on with the next slot.                                              *)
MarkReported(t) ==
    /\ call[t].pc = "mark"
    /\ LET a == call[t].alarm
           i == call[t].slot
       IN  /\ records' = IF Holds(i, a) THEN [records EXCEPT ![i].reported = TRUE] ELSE records
           /\ call' = [call EXCEPT ![t] =
                          IF t = Reconn THEN Call("scan", TcpAlarm, i + 1) ELSE Idle]
    /\ UNCHANGED <<tcp_connected, state_tracker, recv_pc, reconn_pc, peer, bbu, history, overtaken>>

(* alarm_clear: the slot is freed, then CLEARED goes out if connected       *)
ClearRecord(t) ==
    /\ call[t].pc = "clear"
    /\ LET a == call[t].alarm
           i == First(SlotsOf(a))
       IN  IF a \notin Active
           THEN call' = [call EXCEPT ![t] = Idle] /\ UNCHANGED <<records, history>>
           ELSE /\ records' = [records EXCEPT ![i] = NoRecord]
                /\ sent' = [sent EXCEPT ![i] = FALSE] /\ lost' = lost \ {a}
                /\ call' = [call EXCEPT ![t] =
                               IF tcp_connected THEN Call("send_clear", a, 0) ELSE Idle]
    /\ UNCHANGED <<tcp_connected, state_tracker, recv_pc, reconn_pc, peer, bbu, overtaken>>

SendCleared(t) ==
    /\ call[t].pc = "send_clear"
    /\ bbu' = IF peer THEN bbu \ {call[t].alarm} ELSE bbu
    /\ call' = [call EXCEPT ![t] = Idle]
    /\ UNCHANGED <<mgrVars, recv_pc, reconn_pc, peer, history, overtaken>>

(* alarm_report_all_pending: the next slot, or the end                      *)
ScanPending ==
    /\ call[Reconn].pc = "scan"
    /\ LET i == call[Reconn].slot
       IN  call' = [call EXCEPT ![Reconn] =
                       IF i > MAX_ALARM_RECORDS THEN Idle
                       ELSE IF records[i].active /\ ~records[i].reported
                       THEN Call("send", records[i].alarm, i)
                       ELSE Call("scan", TcpAlarm, i + 1)]
    /\ UNCHANGED <<mgrVars, recv_pc, reconn_pc, peer, bbu, history, overtaken>>

--------------------

(* Slip of CheckEdge: a rising edge does not reach the tracker.             *)
CheckEdgeForgets(t, a, condition) ==
    /\ call[t] = Idle
    /\ state_tracker' = [state_tracker EXCEPT ![a] = condition /\ state_tracker[a]]
    /\ call' = [call EXCEPT ![t] =
                   CASE condition /\ ~state_tracker[a] -> Call("trigger", a, 0)
                     [] ~condition /\ state_tracker[a] -> Call("clear", a, 0)
                     [] OTHER -> Idle]

(* alarm_check_*: the tracker is compared and updated in a critical section *)
(* of its own; an edge then calls alarm_trigger or alarm_clear.  A frame in *)
(* the optical grace period makes no call and leaves the tracker alone.     *)
CheckEdge(t, a, condition) ==
    /\ call[t] = Idle
    /\ state_tracker' = [state_tracker EXCEPT ![a] = condition]
    /\ call' = [call EXCEPT ![t] =
                   CASE condition /\ ~state_tracker[a] -> Call("trigger", a, 0)
                     [] ~condition /\ state_tracker[a] -> Call("clear", a, 0)
                     [] OTHER -> Idle]

UartCheck(a) ==
    /\ \E condition \in BOOLEAN : CheckEdge(Uart, a, condition)
    /\ UNCHANGED <<records, tcp_connected, recv_pc, reconn_pc, peer, bbu, history, overtaken>>

(* A failed loopback or reset command, in the receive thread                *)
CommandFails(a) ==
    /\ recv_pc = "run" /\ call[Recv] = Idle
    /\ call' = [call EXCEPT ![Recv] = Call("trigger", a, 0)]
    /\ UNCHANGED <<mgrVars, recv_pc, reconn_pc, peer, bbu, history, overtaken>>

(* The receive thread finds the connection closed; tcp_recv_thread stores   *)
(* the state, then calls alarm_set_tcp_status(false) and                    *)
(* alarm_trigger_tcp_disconnect.                                            *)
RecvNotices ==
    /\ recv_pc = "run" /\ ~peer /\ call[Recv] = Idle
    /\ recv_pc' = "set_false"
    /\ UNCHANGED <<mgrVars, call, reconn_pc, peer, bbu, history, overtaken>>

RecvSetFalse ==
    /\ recv_pc = "set_false"
    /\ tcp_connected' = FALSE
    /\ recv_pc' = "trigger"
    /\ overtaken' = overtaken \cup (IF reconn_pc \in {"clear", "join"} THEN {"status"} ELSE {})
    /\ UNCHANGED <<records, state_tracker, call, reconn_pc, peer, bbu, history>>

RecvTrigger ==
    /\ recv_pc = "trigger"
    /\ CheckEdge(Recv, TcpAlarm, TRUE)
    /\ recv_pc' = "leave"
    /\ UNCHANGED <<records, tcp_connected, reconn_pc, peer, bbu, history, overtaken>>

RecvLeaves ==
    /\ recv_pc = "leave" /\ call[Recv] = Idle
    /\ recv_pc' = "done"
    /\ UNCHANGED <<mgrVars, call, reconn_pc, peer, bbu, history, overtaken>>

(* The reconnect thread: alarm_set_tcp_status(true) with the scan on an     *)
(* edge, alarm_clear_tcp_disconnect, then the join and the new receiver.    *)
(* It goes by the connection's state, which the old receiver stores before  *)
(* its alarm calls (tcp_client.c:236-241): those may come between or after  *)
(* its own (148-149), and only the join (157) waits for them.               *)
Connect ==
    /\ reconn_pc = "poll" /\ recv_pc # "run"
    /\ peer' = TRUE
    /\ reconn_pc' = "set_true"
    /\ UNCHANGED <<mgrVars, call, recv_pc, bbu, history, overtaken>>

(* Slip of SetTrue: the flag is stored after the scan has begun.            *)
SetTrueLate ==
    /\ reconn_pc = "set_true"
    /\ IF ~tcp_connected /\ call[Reconn] = Idle
       THEN call' = [call EXCEPT ![Reconn] = Call("scan", TcpAlarm, 1)]
            /\ UNCHANGED <<reconn_pc, tcp_connected>>
       ELSE tcp_connected' = TRUE /\ reconn_pc' = "clear" /\ UNCHANGED call
    /\ UNCHANGED <<records, state_tracker, recv_pc, peer, bbu, history, overtaken>>

(* Slip of SetTrue: pending alarms are not sent.                            *)
SetTrueNoScan ==
    /\ reconn_pc = "set_true"
    /\ tcp_connected' = TRUE
    /\ reconn_pc' = "clear"
    /\ UNCHANGED <<records, state_tracker, call, recv_pc, peer, bbu, history, overtaken>>

SetTrue ==
    /\ reconn_pc = "set_true"
    /\ tcp_connected' = TRUE
    /\ call' = IF tcp_connected THEN call
               ELSE [call EXCEPT ![Reconn] = Call("scan", TcpAlarm, 1)]
    /\ reconn_pc' = "clear"
    /\ UNCHANGED <<records, state_tracker, recv_pc, peer, bbu, history, overtaken>>

ClearTcpDisconnect ==
    /\ reconn_pc = "clear"
    /\ CheckEdge(Reconn, TcpAlarm, FALSE)
    /\ reconn_pc' = "join"
    /\ overtaken' = overtaken \cup (IF recv_pc # "done" THEN {"alarm"} ELSE {})
    /\ UNCHANGED <<records, tcp_connected, recv_pc, peer, bbu, history>>

(* pthread_join and pthread_create; a failure closes the socket again       *)
JoinAndCreate ==
    /\ reconn_pc = "join" /\ call[Reconn] = Idle /\ recv_pc = "done"
    /\ \/ recv_pc' = "run" /\ UNCHANGED peer
       \/ peer' = FALSE /\ UNCHANGED recv_pc
    /\ reconn_pc' = "poll"
    /\ UNCHANGED <<mgrVars, call, bbu, history, overtaken>>

(* The connection breaks.                                                   *)
Break ==
    /\ peer /\ peer' = FALSE
    /\ UNCHANGED <<mgrVars, call, recv_pc, reconn_pc, bbu, history, overtaken>>

--------------------
InCall(t) == \/ TriggerRecord(t) \/ SendActive(t) \/ MarkReported(t)
             \/ ClearRecord(t) \/ SendCleared(t)
RecvStep   == InCall(Recv) \/ RecvNotices \/ RecvSetFalse \/ RecvTrigger \/ RecvLeaves
ReconnStep == InCall(Reconn) \/ ScanPending \/ Connect \/ SetTrue \/ ClearTcpDisconnect
              \/ JoinAndCreate

Next ==
    \/ InCall(Uart) \/ \E a \in FpgaAlarms : UartCheck(a)
    \/ RecvStep \/ \E a \in CommandAlarms : CommandFails(a)
    \/ ReconnStep
    \/ Break

Spec == Init /\ [][Next]_vars
(* The threads go on with what they have begun and the reconnect thread     *)
(* keeps trying; nothing is assumed of the telemetry or the BBU.            *)
FairSpec == Spec /\ WF_vars(InCall(Uart)) /\ WF_vars(RecvStep) /\ WF_vars(ReconnStep)

--------------------
(* Types of the manager's state, and no alarm is in the table twice although*)
(* three threads search, fill and free its slots.                           *)
AlarmTypeOK ==
    /\ records \in [Slots -> {NoRecord} \cup
                        [active : {TRUE}, alarm : Alarms, reported : BOOLEAN]]
    /\ \A a \in Alarms : Cardinality(SlotsOf(a)) <= 1
    /\ {tcp_connected, peer} \subseteq BOOLEAN
    /\ bbu \subseteq Alarms /\ lost \subseteq Alarms
    /\ overtaken \subseteq {"status", "alarm"}
    /\ recv_pc \in {"run", "set_false", "trigger", "leave", "done"}
    /\ reconn_pc \in {"poll", "set_true", "clear", "join"}

(* An old receiver stored "not connected" after the new connection was      *)
(* reported, or its 1160 call was still to come when the new connection     *)
(* cleared 1160.                                                            *)
LateStatus == "status" \in overtaken
LateAlarm  == "alarm" \in overtaken

(* Once the calls under way are over, a record marked as reported was       *)
(* handed to TCP since the alarm came up, although the mutex is free during *)
(* the send and the slot may be cleared and filled again meanwhile (lines   *)
(* 239-247, 408-425).  Only an alarm of the telemetry can lose its report,  *)
(* and only when an old receiver's late status says "not connected" while   *)
(* the new connection's scan is under way.                                  *)
ReportedWasSent ==
    Quiet => \A i \in Slots : records[i].active /\ records[i].reported =>
        sent[i] \/ (LateStatus /\ records[i].alarm \in FpgaAlarms)

(* Connected and at rest, the BBU holds every active alarm whose report did *)
(* not go into a broken connection: an alarm raised while the reconnect     *)
(* thread scans the table is sent by the one or by the other.  An old       *)
(* receiver's late calls can lose alarms of the telemetry, as above, and    *)
(* have 1160 sent before its own clearance; a failed command's alarm is     *)
(* never lost.                                                              *)
NothingSkipped ==
    Quiet /\ tcp_connected /\ reconn_pc # "set_true" =>
        Active \subseteq bbu \cup lost
                        \cup {a \in FpgaAlarms : LateStatus} \cup {a \in {TcpAlarm} : LateAlarm}

(* Once a new receiver runs, 1160 is no longer active: the old receiver's   *)
(* alarm_trigger_tcp_disconnect and the reconnect thread's clearance pair   *)
(* up through the tracker, however they interleave with the scan that sends *)
(* 1160.  The exception is the schedule in which the old receiver's call is *)
(* overtaken by the clearance (tcp_client.c:241 after 149).                 *)
ConnectedClearsAlarm ==
    Quiet /\ recv_pc = "run" => TcpAlarm \notin Active \/ LateAlarm

(* With a lasting connection that the manager knows of (no old receiver's   *)
(* late status denies it), every active alarm is marked as reported or goes *)
(* away.                                                                    *)
PendingIsReported ==
    <>[](peer /\ tcp_connected) => \A a \in Alarms :
        a \in Active ~> (a \notin Active \/ \E i \in SlotsOf(a) : records[i].reported)

--------------------
(* What documents and comments claim and the code does not keep             *)

(* alarm_manager.h: "reported" says that the alarm was reported.            *)
ReportedAlwaysSent ==
    Quiet => \A i \in Slots : records[i].active /\ records[i].reported => sent[i]

(* ALARM_README.md: an alarm is reported at once, or when the connection    *)
(* comes back.                                                              *)
ActiveReachesBbu ==
    Quiet /\ tcp_connected /\ peer /\ reconn_pc = "poll" => Active \subseteq bbu

(* ALARM_README.md: clearing an alarm is reported.                          *)
ClearReachesBbu ==
    Quiet /\ tcp_connected /\ peer /\ reconn_pc = "poll" => bbu \subseteq Active
====================
