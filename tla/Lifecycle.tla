---------- MODULE Lifecycle ----------
(***************************************************************************)
(* The life of the process: the threads that main() starts, the FPGA       *)
(* watchdog among them (fpga_watchdog.c), and the order in which the code  *)
(* after the label "cleanup" stops them, joins them and destroys what they *)
(* use.                                                                    *)
(*                                                                         *)
(* Composed with the job queue of the cell configuration (CellJobs) and    *)
(* the transmit guard (TxGuard): requests keep arriving on the connection  *)
(* during the cleanup, and the loss of the connection that the cleanup     *)
(* itself causes is what switches the transmitter off.  The cleanup of the *)
(* telemetry log and the log upload is module LogUpload.                   *)
(***************************************************************************)
EXTENDS CellJobs, TxGuard

CONSTANT Recv    \* tcp_recv_thread, the only one to report link events here

ASSUME LifeAssumption == Notifiers = {Recv}

VARIABLES
    main_at,      \* 0: the main loop; i: at step i of Cleanup
    alive,        \* mutexes, mappings and ports that exist
    misuse,       \* history: <<thread, what>> it touched after its destruction
    off_lost,     \* history: the last "TX off" was lost by a write to the open port
    wd_enabled,   \* g_watchdog_mgr.enabled
    wd_pc,        \* the watchdog thread
    running,      \* g_tcp_client.running
    sock,         \* its socket: "none", "open" or "shut" by shutdown()
    reconn_pc, recv_pc,
    inj_pc,       \* the injection thread is in progress ("run") or not ("idle")
    uart_open,    \* g_uart_client.state = UART_STATE_OPEN, running and fd >= 0
    poll_pc, uart_pc    \* uart_poll_thread and uart_recv_thread

txVars   == <<guardVars, off_lost>>
tcpVars  == <<running, sock, reconn_pc, recv_pc>>
uartVars == <<uart_open, poll_pc, uart_pc>>
wdVars   == <<wd_enabled, wd_pc>>
lifeVars == <<vars, txVars, main_at, alive, misuse, wdVars, tcpVars, inj_pc, uartVars>>

Resources == {"wd_mutex", "gpio", "inj_mutex", "rs422", "cell_mutex", "tcp", "uart"}

(* Slip of Cleanup: the serial port is closed before the TCP client stops.  *)
CleanupUartFirst == <<"wd_stop", "wd_join", "wd_destroy", "inj_abort", "inj_wait", "cell_stop",
    "cell_join", "uart_close", "uart_join", "tcp_stop", "tcp_join_reconn", "tcp_shutdown",
    "tcp_join_recv", "tcp_destroy", "returned">>

(* Slip of Cleanup: the worker is stopped after the TCP client.             *)
CleanupCellLast == <<"wd_stop", "wd_join", "wd_destroy", "inj_abort", "inj_wait", "tcp_stop",
    "tcp_join_reconn", "tcp_shutdown", "tcp_join_recv", "tcp_destroy", "cell_stop", "cell_join",
    "uart_close", "uart_join", "returned">>

(* main() from the label cleanup to its return                              *)
Cleanup == <<"wd_stop", "wd_join", "wd_destroy", "inj_abort", "inj_wait", "cell_stop", "cell_join",
    "tcp_stop", "tcp_join_reconn", "tcp_shutdown", "tcp_join_recv", "tcp_destroy",
    "uart_close", "uart_join", "returned">>

At(step) == main_at > 0 /\ Cleanup[main_at] = step
Advance  == main_at' = main_at + 1
InLoop   == main_at = 0

(* Thread t uses the resources R.                                           *)
Touch(t, R) == misuse' = misuse \cup ({t} \X (R \ alive))

(* Types.                                                                   *)
LifeTypeOK ==
    /\ JobTypeOK /\ GuardTypeOK
    /\ main_at \in 0..Len(Cleanup)
    /\ alive \subseteq Resources /\ off_lost \in BOOLEAN
    /\ wd_enabled \in BOOLEAN /\ wd_pc \in {"none", "feed", "exited"}
    /\ running \in BOOLEAN /\ sock \in {"none", "open", "shut"}
    /\ reconn_pc \in {"check", "connect", "join", "callback", "exited"}
    /\ recv_pc \in {"none", "check", "recv", "notify", "apply", "exited"}
    /\ inj_pc \in {"idle", "run"}
    /\ uart_open \in BOOLEAN
    /\ poll_pc \in {"none", "send", "exited"}
    /\ uart_pc \in {"none", "read", "alarm", "exited"}

(* The start of main() reaches its loop without the watchdog's registers    *)
(* (its mutex is then destroyed again and there is no thread) or without    *)
(* the serial port; at most one of them is missing here.                    *)
Starts == {"ok", "no_gpio", "no_uart"}

(* watchdog_gpio_init maps the registers and sets the pin, and the thread   *)
(* is started; uart_client_open opens the port and starts its threads.      *)
WatchdogUp(s) == s # "no_gpio"
UartUp(s)     == s # "no_uart"

LifeInit ==
    /\ Init /\ GuardInit
    /\ main_at = 0 /\ misuse = {} /\ off_lost = FALSE
    /\ running = TRUE /\ sock = "none" /\ reconn_pc = "check" /\ recv_pc = "none"
    /\ inj_pc = "idle"
    /\ \E s \in Starts :
        /\ alive = IF WatchdogUp(s) THEN Resources ELSE Resources \ {"wd_mutex", "gpio"}
        /\ wd_enabled = WatchdogUp(s)
        /\ wd_pc = IF wd_enabled THEN "feed" ELSE "none"
        /\ uart_open = UartUp(s)
        /\ poll_pc = IF uart_open THEN "send" ELSE "none"
        /\ uart_pc = IF uart_open THEN "read" ELSE "none"

--------------------
(* watchdog_thread_func: watchdog_feed writes the register, the feed is     *)
(* counted and "enabled" is read for the next pass.  A failure of the feed  *)
(* needs an unmapped register, which Touch reports.                         *)
WatchdogThread ==
    /\ wd_pc = "feed"
    /\ wd_pc' = IF wd_enabled THEN "feed" ELSE "exited"
    /\ Touch("watchdog", {"gpio", "wd_mutex"})
    /\ UNCHANGED <<vars, txVars, main_at, alive, wd_enabled, tcpVars, inj_pc, uartVars>>

--------------------
(* apply_tx_control by thread t: the write fails when the serial port is    *)
(* closed, and may fail on the open port.                                   *)
ApplyStep(t) ==
    \/ ApplyRecord(t) /\ UNCHANGED <<off_lost, misuse>>
    \/ /\ ApplySend(t)
       /\ ~uart_open => apply'[t] = NoApply
       /\ off_lost' = IF uart_open /\ ~apply[t].on THEN apply'[t] = NoApply ELSE off_lost
       /\ Touch(t, IF uart_open THEN {"uart"} ELSE {})

(* The worker: what CellJobs says, and for every part of a job a transmit   *)
(* command decided from the gate, unless the mode could not be verified.    *)
WorkerQueue ==
    /\ WorkerSleep \/ WorkerExit \/ WorkerTake
    /\ UNCHANGED <<txVars, misuse>>

WorkerPart ==
    /\ ~Applying(Worker)
    /\ WorkerVerify
    /\ Touch(Worker, {"cell_mutex"})
    /\ UpdateTxControl(TRUE) \/ UpdateTxControl(FALSE) \/ UNCHANGED guardVars
    /\ UNCHANGED off_lost

WorkerReply ==
    /\ ~Applying(Worker)
    /\ WorkerAnswer
    /\ Touch(Worker, {"tcp"})
    /\ UNCHANGED <<txVars>>

WorkerThread ==
    /\ WorkerQueue \/ WorkerPart \/ WorkerReply \/ (ApplyStep(Worker) /\ UNCHANGED vars)
    /\ UNCHANGED <<main_at, alive, wdVars, tcpVars, inj_pc, uartVars>>

--------------------
(* tcp_reconnect_thread: the loop condition and the state are read, then    *)
(* the connection may take seconds                                          *)
ReconnCheck ==
    /\ reconn_pc = "check"
    /\ ~running \/ sock = "none"
    /\ reconn_pc' = IF running THEN "connect" ELSE "exited"
    /\ UNCHANGED <<sock, recv_pc, misuse>>

ReconnFails ==
    /\ reconn_pc = "connect"
    /\ reconn_pc' = "check"
    /\ UNCHANGED <<sock, recv_pc, misuse>>

ReconnConnects ==
    /\ reconn_pc = "connect"
    /\ sock' = "open" /\ reconn_pc' = "join"
    /\ Touch("reconnect", {"tcp"})
    /\ UNCHANGED recv_pc

(* The last receiver is joined and the next one created, or that fails.     *)
ReconnReceiver ==
    /\ reconn_pc = "join" /\ recv_pc \in {"none", "exited"}
    /\ \/ recv_pc' = "check" /\ reconn_pc' = "callback" /\ UNCHANGED sock
       \/ recv_pc' = "none" /\ reconn_pc' = "check" /\ sock' = "none"
    /\ UNCHANGED misuse

(* on_tcp_connected sends the setup request.                                *)
ReconnCallback ==
    /\ reconn_pc = "callback"
    /\ reconn_pc' = "check"
    /\ Touch("reconnect", {"tcp"})
    /\ UNCHANGED <<sock, recv_pc>>

ReconnThread ==
    /\ ReconnCheck \/ ReconnFails \/ ReconnConnects \/ ReconnReceiver \/ ReconnCallback
    /\ UNCHANGED <<vars, txVars, main_at, alive, wdVars, running, inj_pc, uartVars>>

(* tcp_recv_thread: the loop condition, and the leave when it is false      *)
RecvCheck ==
    /\ recv_pc = "check"
    /\ IF running THEN recv_pc' = "recv" /\ UNCHANGED sock
                  ELSE recv_pc' = "notify" /\ sock' = "none"
    /\ UNCHANGED <<vars, txVars, misuse, inj_pc>>

(* recv() returns 0 or an error: by shutdown() ...                          *)
RecvEnds ==
    /\ recv_pc = "recv" /\ sock = "shut"
    /\ recv_pc' = "notify" /\ sock' = "none"
    /\ UNCHANGED <<vars, txVars, misuse, inj_pc>>

(* ... or because the BBU closed the connection.                            *)
PeerCloses ==
    /\ recv_pc = "recv" /\ sock = "open"
    /\ recv_pc' = "notify" /\ sock' = "none"
    /\ UNCHANGED <<vars, txVars, misuse, inj_pc>>

(* recv() returns data: a cell request, a setup config or an activation of  *)
(* FPGA firmware, which finds no other injection in progress.               *)
RecvRequest ==
    /\ (\E s \in Serials : Submit(s)) \/ SubmitBusy
    /\ UNCHANGED <<txVars, misuse, inj_pc>>

RecvSetup ==
    /\ NotifyUp(Recv)
    /\ UNCHANGED <<vars, off_lost, misuse, inj_pc>>

RecvActivate ==
    /\ inj_pc = "idle"
    /\ inj_pc' = "run"
    /\ Touch(Recv, {"inj_mutex"})
    /\ UNCHANGED <<vars, txVars>>

RecvMessage ==
    /\ recv_pc = "recv"
    /\ RecvRequest \/ RecvSetup \/ RecvActivate
    /\ recv_pc' = "check"
    /\ UNCHANGED <<sock>>

(* on_tcp_disconnected: the gate is closed and OFF is sent.                 *)
RecvNotify ==
    /\ recv_pc = "notify"
    /\ NotifyDown(Recv)
    /\ recv_pc' = "apply"
    /\ UNCHANGED <<vars, off_lost, sock, misuse, inj_pc>>

RecvApply ==
    /\ recv_pc = "apply"
    /\ \/ ApplyStep(Recv) /\ UNCHANGED recv_pc
       \/ ~Applying(Recv) /\ recv_pc' = "exited" /\ UNCHANGED <<txVars, misuse>>
    /\ UNCHANGED <<vars, sock, inj_pc>>

RecvRest == UNCHANGED <<main_at, alive, wdVars, running, reconn_pc, uartVars>>
RecvProgress == (RecvCheck \/ RecvEnds \/ RecvNotify \/ RecvApply) /\ RecvRest
RecvInput    == (PeerCloses \/ RecvMessage) /\ RecvRest

--------------------
(* injection_thread_func: it uses the RS-422 port until it ends             *)
InjectionThread ==
    /\ inj_pc = "run"
    /\ inj_pc' \in {"run", "idle"}
    /\ Touch("injection", {"rs422"})
    /\ UNCHANGED <<vars, txVars, main_at, alive, wdVars, tcpVars, uartVars>>

(* uart_poll_thread: a query is sent and "running" is read                  *)
PollThread ==
    /\ poll_pc = "send"
    /\ poll_pc' = IF uart_open THEN "send" ELSE "exited"
    /\ Touch("poll", IF uart_open THEN {"uart"} ELSE {})
    /\ UNCHANGED <<vars, txVars, main_at, alive, wdVars, tcpVars, inj_pc, uart_open, uart_pc>>

(* uart_recv_thread: a status frame may raise an alarm while the TCP client *)
(* is connected; the report is sent after the alarm mutex was released.     *)
UartRead ==
    /\ uart_pc = "read"
    /\ \/ ~uart_open /\ uart_pc' = "exited"
       \/ uart_open /\ sock # "none" /\ uart_pc' = "alarm"
    /\ UNCHANGED misuse

UartAlarm ==
    /\ uart_pc = "alarm"
    /\ uart_pc' = "read"
    /\ Touch("uart_recv", {"tcp"})

UartThread ==
    /\ UartRead \/ UartAlarm
    /\ UNCHANGED <<vars, txVars, main_at, alive, wdVars, tcpVars, inj_pc, uart_open, poll_pc>>

--------------------
(* A signal ends the loop between two passes.                               *)
Terminate ==
    /\ InLoop
    /\ Advance
    /\ UNCHANGED <<vars, txVars, alive, misuse, wdVars, tcpVars, inj_pc, uartVars>>

(* fpga_watchdog_stop and fpga_watchdog_destroy                             *)
WatchdogCleanup ==
    /\ \/ /\ At("wd_stop")
          /\ wd_enabled' = FALSE
          /\ UNCHANGED alive
       \/ /\ At("wd_join") /\ wd_pc \in {"none", "exited"}
          /\ UNCHANGED <<alive, wd_enabled>>
       \/ /\ At("wd_destroy")
          /\ alive' = alive \ {"gpio", "wd_mutex"}
          /\ UNCHANGED wd_enabled
    /\ UNCHANGED <<vars, wd_pc, tcpVars, inj_pc, uartVars>>

(* fpga_firmware_injection_cleanup: an existing thread is asked to abort    *)
(* and awaited for three seconds; only when it ended are its mutex and the  *)
(* RS-422 port destroyed.                                                   *)
InjectionCleanup ==
    /\ \/ At("inj_abort") /\ UNCHANGED alive
       \/ At("inj_wait") /\ inj_pc = "idle" /\ alive' = alive \ {"inj_mutex", "rs422"}
       \/ At("inj_wait") /\ inj_pc = "run" /\ UNCHANGED alive
    /\ UNCHANGED <<vars, wdVars, tcpVars, inj_pc, uartVars>>

(* cell_config_destroy                                                      *)
CellCleanup ==
    /\ \/ At("cell_stop") /\ DestroyStop /\ UNCHANGED alive
       \/ At("cell_join") /\ DestroyJoined /\ alive' = alive \ {"cell_mutex"}
    /\ UNCHANGED <<wdVars, tcpVars, inj_pc, uartVars>>

(* Slip of TcpShutdown: the socket is closed, which wakes nobody.           *)
TcpShutdownCloses ==
    /\ At("tcp_shutdown")
    /\ sock' = "none"
    /\ UNCHANGED <<running, reconn_pc, recv_pc, alive>>

(* shutdown() wakes a receiver that is blocked in recv().                   *)
TcpShutdown ==
    /\ At("tcp_shutdown")
    /\ sock' = IF sock = "open" THEN "shut" ELSE sock
    /\ UNCHANGED <<running, reconn_pc, recv_pc, alive>>

(* tcp_client_stop and tcp_client_destroy                                   *)
TcpCleanup ==
    /\ \/ /\ At("tcp_stop")
          /\ running' = FALSE
          /\ UNCHANGED <<sock, reconn_pc, recv_pc, alive>>
       \/ At("tcp_join_reconn") /\ reconn_pc = "exited" /\ UNCHANGED <<tcpVars, alive>>
       \/ TcpShutdown
       \/ /\ At("tcp_join_recv") /\ recv_pc \in {"none", "exited"}
          /\ recv_pc' = "none" /\ sock' = "none"
          /\ UNCHANGED <<running, reconn_pc, alive>>
       \/ At("tcp_destroy") /\ alive' = alive \ {"tcp"} /\ UNCHANGED tcpVars
    /\ UNCHANGED <<vars, wdVars, inj_pc, uartVars>>

(* uart_client_close and uart_client_destroy                                *)
UartCleanup ==
    /\ \/ At("uart_close") /\ uart_open' = FALSE /\ UNCHANGED alive
       \/ /\ At("uart_join") /\ {poll_pc, uart_pc} \subseteq {"none", "exited"}
          /\ alive' = alive \ {"uart"}
          /\ UNCHANGED uart_open
    /\ UNCHANGED <<vars, wdVars, tcpVars, inj_pc, poll_pc, uart_pc>>

CleanupStep ==
    /\ WatchdogCleanup \/ InjectionCleanup \/ CellCleanup \/ TcpCleanup \/ UartCleanup
    /\ Advance
    /\ UNCHANGED <<txVars, misuse>>

Returned == At("returned") /\ UNCHANGED lifeVars

LifeNext ==
    \/ WatchdogThread \/ WorkerThread \/ ReconnThread \/ RecvProgress \/ RecvInput
    \/ InjectionThread \/ PollThread \/ UartThread
    \/ Terminate \/ CleanupStep
    \/ Returned

LifeSpec == LifeInit /\ [][LifeNext]_lifeVars

(* Every thread keeps running and connect() returns; the BBU and the        *)
(* injection thread, which may be stuck in a transfer, owe nothing.         *)
LifeFairSpec ==
    /\ LifeSpec
    /\ WF_lifeVars(WatchdogThread) /\ WF_lifeVars(WorkerThread) /\ WF_lifeVars(ReconnThread)
    /\ WF_lifeVars(RecvProgress) /\ WF_lifeVars(PollThread) /\ WF_lifeVars(UartThread)
    /\ WF_lifeVars(CleanupStep)

--------------------
(* When main() returns the transmitter is off, which the next start of the  *)
(* program relies on (cell_config.c:283 starts with g_tx_on = false): the   *)
(* cleanup loses the connection itself, while the serial port is open and   *)
(* the worker gone.  Excepted are the race of module TxGuard and an OFF     *)
(* whose write failed on the open port: nobody repeats that one.            *)
TxOffAfterShutdown == At("returned") /\ ~raced /\ ~off_lost => ~antenna_tx

(* No thread uses a mutex, a register mapping or a port that the cleanup    *)
(* has destroyed.  Two windows remain (NothingUsedLate shows them): an      *)
(* activation received after the injector's cleanup locks its destroyed     *)
(* mutex and starts a thread on the closed RS-422 port, and an alarm that   *)
(* was about to be reported when the TCP client was destroyed.              *)
NoUseAfterDestroy ==
    /\ misuse \subseteq {<<Recv, "inj_mutex">>, <<"injection", "rs422">>, <<"uart_recv", "tcp">>}
    /\ <<"injection", "rs422">> \in misuse => <<Recv, "inj_mutex">> \in misuse

(* The same without the exceptions.                                         *)
NothingUsedLate == misuse = {}

(* The cleanup comes to an end although a receiver is blocked in recv(), a  *)
(* connection is being made, jobs are waiting and an injection is stuck,    *)
(* unless the BBU keeps the ring of jobs filled while the worker is joined. *)
ShutdownEnds ==
    \/ ~InLoop ~> At("returned")
    \/ []<>(At("cell_join") /\ g_job_count > 0)

(* The same whatever the BBU sends.                                         *)
ShutdownEndsAnyway == ~InLoop ~> At("returned")
====================
