---------- MODULE TxGuard ----------
(***************************************************************************)
(* The transmit guard of cell_config.c: the flag g_bbu_link_ok ("the BBU   *)
(* can be reached"), the local record g_tx_on of the last transmit command *)
(* the FPGA accepted, and the three routines that touch them:              *)
(*                                                                         *)
(*   cell_config_notify_bbu_link   called by the link threads (main, recv) *)
(*   update_tx_control             called by the cell-config worker        *)
(*   apply_tx_control              called by both of the above             *)
(*                                                                         *)
(* g_tx_guard_mutex protects each single access to the two flags but not   *)
(* the sequence "read the flag, write the UART, record the result", so     *)
(* these are three separate steps here.  The modules BbuLink and           *)
(* CellConfig extend this one and decide when the routines are called.     *)
(***************************************************************************)
EXTENDS Naturals

CONSTANTS
    Notifiers,  \* threads that report link events: the main loop and the TCP receiver
    Worker      \* the cell_cfg_worker thread

ASSUME ThreadAssumption == Worker \notin Notifiers

VARIABLES
    g_bbu_link_ok,  \* cell_config.c: the BBU can be reached, TX may be enabled
    g_tx_on,        \* cell_config.c: last transmit command that was sent successfully
    antenna_tx,     \* the FPGA's real transmit switch
    apply,          \* apply[t]: what is left of t's call of apply_tx_control
    off_failed,     \* history: the UART lost a "TX off" and none got through since
    raced           \* history: an apply of the worker overlapped one of a link event

guardVars == <<g_bbu_link_ok, g_tx_on, antenna_tx, apply, off_failed, raced>>

Threads == Notifiers \cup {Worker}

(* "send": the UART write is next; "record": the assignment of g_tx_on is.  *)
NoApply  == [step |-> "none", on |-> FALSE]
ApplyRec == [step : {"none", "send", "record"}, on : BOOLEAN]
Applying(t) == apply[t].step # "none"

(* Types of the guard's state.                                              *)
GuardTypeOK ==
    /\ g_bbu_link_ok \in BOOLEAN
    /\ g_tx_on \in BOOLEAN
    /\ antenna_tx \in BOOLEAN
    /\ apply \in [Threads -> ApplyRec]
    /\ off_failed \in BOOLEAN
    /\ raced \in BOOLEAN

GuardInit ==
    /\ g_bbu_link_ok = FALSE
    /\ g_tx_on = FALSE
    /\ antenna_tx = FALSE
    /\ apply = [t \in Threads |-> NoApply]
    /\ off_failed = FALSE
    /\ raced = FALSE

--------------------
(* cell_config_notify_bbu_link(true, ...): re-arm the gate, never switch    *)
(* the transmitter on.                                                      *)
NotifyUp(t) ==
    /\ ~Applying(t)
    /\ g_bbu_link_ok' = TRUE
    /\ UNCHANGED <<g_tx_on, antenna_tx, apply, off_failed, raced>>

(* Slip of NotifyDown: the gate is closed, but no OFF is sent.              *)
NotifyDownSilent(t) ==
    /\ ~Applying(t)
    /\ g_bbu_link_ok' = FALSE
    /\ raced' = (raced \/ Applying(Worker))
    /\ UNCHANGED <<g_tx_on, antenna_tx, apply, off_failed>>

(* cell_config_notify_bbu_link(false, ...): close the gate and, in the same *)
(* critical section, decide from g_tx_on whether an OFF must be sent.       *)
NotifyDown(t) ==
    /\ ~Applying(t)
    /\ g_bbu_link_ok' = FALSE
    /\ apply' = IF g_tx_on
                THEN [apply EXCEPT ![t] = [step |-> "send", on |-> FALSE]]
                ELSE apply
    /\ raced' = (raced \/ Applying(Worker))
    /\ UNCHANGED <<g_tx_on, antenna_tx, off_failed>>

(* update_tx_control(): read the gate; when it is open, choose ON or OFF    *)
(* from has_any_freq().  The command itself is sent after the unlock.       *)
UpdateTxControl(hasFreq) ==
    /\ ~Applying(Worker)
    /\ apply' = IF g_bbu_link_ok
                THEN [apply EXCEPT ![Worker] = [step |-> "send", on |-> hasFreq]]
                ELSE apply
    /\ raced' = (raced \/ (g_bbu_link_ok /\ \E n \in Notifiers : Applying(n)))
    /\ UNCHANGED <<g_bbu_link_ok, g_tx_on, antenna_tx, off_failed>>

(* apply_tx_control(): fpga_send_tx_control over the UART.  A failed write   *)
(* returns at once and leaves g_tx_on alone.                                *)
ApplySend(t) ==
    /\ apply[t].step = "send"
    /\ \/ /\ antenna_tx' = apply[t].on
          /\ apply' = [apply EXCEPT ![t].step = "record"]
          /\ off_failed' = (off_failed /\ apply[t].on)
       \/ /\ apply' = [apply EXCEPT ![t] = NoApply]
          /\ off_failed' = (off_failed \/ ~apply[t].on)
          /\ UNCHANGED antenna_tx
    /\ UNCHANGED <<g_bbu_link_ok, g_tx_on, raced>>

(* apply_tx_control(): the record is written under g_tx_guard_mutex, after   *)
(* the UART write and in a critical section of its own.                     *)
ApplyRecord(t) ==
    /\ apply[t].step = "record"
    /\ g_tx_on' = apply[t].on
    /\ apply' = [apply EXCEPT ![t] = NoApply]
    /\ UNCHANGED <<g_bbu_link_ok, antenna_tx, off_failed, raced>>

GuardNext ==
    \/ \E t \in Notifiers : NotifyUp(t) \/ NotifyDown(t)
    \/ \E f \in BOOLEAN : UpdateTxControl(f)
    \/ \E t \in Threads : ApplySend(t) \/ ApplyRecord(t)

(* The guard as an abstract specification: whoever uses cell_config.c's     *)
(* transmit guard moves its flags by these steps only.                      *)
GuardSpec == GuardInit /\ [][GuardNext]_guardVars

--------------------
Quiet == \A t \in Threads : ~Applying(t)

(* Once a link loss has been handled, the antenna does not transmit: the    *)
(* rule "与基带无法通信时禁止开发射" that cell_config.c states for this     *)
(* guard.  It holds whenever no apply of the worker overlapped one of a     *)
(* link event and the UART did not lose the OFF command.                    *)
TxOffWhenLinkDown ==
    ~g_bbu_link_ok /\ Quiet /\ ~raced /\ ~off_failed => ~antenna_tx

(* The same rule as the comments of cell_config.c state it, without the     *)
(* exception for overlapping calls: a job that was queued before the link   *)
(* was lost must not switch the transmitter on afterwards.                  *)
TxNeverOnWithoutLink ==
    ~g_bbu_link_ok /\ Quiet /\ ~off_failed => ~antenna_tx

(* apply_tx_control keeps "on" recorded until an OFF was really sent, so    *)
(* that any later link event repeats it: outside a race the record never    *)
(* says "off" while the antenna transmits.                                  *)
RecordCoversAntenna ==
    Quiet /\ ~raced => (antenna_tx <=> g_tx_on)

(* Inductive strengthening of the two invariants above.                     *)
OnlyOffFromNotifiers ==  \* a link event never switches the transmitter on
    \A n \in Notifiers : apply[n].on = FALSE

NoOverlap ==             \* without a race the worker applies alone, gate open
    ~raced /\ Applying(Worker) =>
        g_bbu_link_ok /\ \A n \in Notifiers : ~Applying(n)

SentIsReal ==            \* a command that only waits for its record is in force
    ~raced => \A t \in Threads : apply[t].step = "record" => antenna_tx = apply[t].on

RecordInSync ==          \* nobody between send and record: record and antenna agree
    ~raced /\ (\A t \in Threads : apply[t].step # "record") => antenna_tx = g_tx_on

OffUnderWay ==           \* gate closed, antenna on: an OFF is about to be sent
    ~raced /\ ~g_bbu_link_ok /\ ~off_failed /\ antenna_tx =>
        \E n \in Notifiers : apply[n].step = "send"

(* Outside a race the record and the antenna part only between the UART     *)
(* write and the record, the worker applies only with the gate open, and a  *)
(* closed gate with the antenna on has its OFF under way.                   *)
GuardInv ==
    /\ GuardTypeOK
    /\ OnlyOffFromNotifiers
    /\ NoOverlap
    /\ SentIsReal
    /\ RecordInSync
    /\ OffUnderWay
====================
