---------- MODULE BbuLink ----------
(***************************************************************************)
(* The link to the baseband unit (BBU): the TCP client with its reconnect  *)
(* and receive threads (tcp_client.c), the callbacks and the main loop of  *)
(* main.c, the heartbeat manager (heartbeat.c), and the transmit guard of  *)
(* cell_config.c (module TxGuard) that all of them drive.                  *)
(*                                                                         *)
(* One action is one critical section or one access to an unprotected      *)
(* shared flag, so the four threads interleave exactly where the code lets *)
(* them.  The BBU is the environment: it accepts connections, answers      *)
(* setup requests, sends heartbeats, goes silent or closes the socket.     *)
(***************************************************************************)
EXTENDS TxGuard, FiniteSets, Integers

CONSTANTS
    Main,                     \* the main loop's thread
    Recv,                     \* the current tcp_recv_thread
    HEARTBEAT_INTERVAL_SEC,
    HEARTBEAT_TIMEOUT_COUNT,
    SETUP_PERIOD_SEC,         \* main.c repeats the setup request every 5 s
    MaxReqs,                  \* bound on setup requests the BBU has not answered
    HasFreq,                  \* answers of has_any_freq() a finished job may get
    CfgKinds,                 \* setup configs the BBU sends: "ok", or "foreign" when
                              \* PAAU_ID_CHECK = 2 and the paau_id is someone else's
    ClockSteps,               \* seconds by which the BBU sets the wall clock
    MaxBack                   \* bound on how far it is set back behind the time base

ASSUME LinkAssumption ==
    /\ Main # Recv
    /\ Notifiers = {Main, Recv}
    /\ HEARTBEAT_INTERVAL_SEC \in Nat \ {0}
    /\ HEARTBEAT_TIMEOUT_COUNT \in Nat \ {0}
    /\ SETUP_PERIOD_SEC \in Nat \ {0}
    /\ MaxReqs \in Nat \ {0}
    /\ CfgKinds \subseteq {"ok", "foreign"}
    /\ HasFreq \subseteq BOOLEAN
    /\ ClockSteps \subseteq Nat \ {0}
    /\ MaxBack \in Nat

(* Longest silence of the BBU the model measures.                           *)
MaxSilence == HEARTBEAT_INTERVAL_SEC * HEARTBEAT_TIMEOUT_COUNT

VARIABLES
    tcp_state,              \* client->state
    peer,                   \* the BBU's end of the connection is open
    reqs,                   \* setup requests that reached the BBU and are unanswered
    g_channel_established,
    heartbeat_enabled,
    bbu_heartbeat_miss_count,
    elapsed,                \* now - last_bbu_heartbeat_time by the wall clock, up to
                            \* the interval; negative after the clock was set back
    channel_setup_timer,
    alarm_tcp_connected,    \* g_alarm_mgr.tcp_connected
    tcp_disconnect_active,  \* alarm 1160 is active
    main_pc, reconn_pc, recv_pc,
    cfg,                    \* the setup config the receive thread is handling
    silence,                \* history: seconds since the BBU's last heartbeat
    jumps                   \* history: times the clock was set forward since then

linkVars == <<tcp_state, peer, reqs, g_channel_established, heartbeat_enabled,
              bbu_heartbeat_miss_count, elapsed, channel_setup_timer,
              alarm_tcp_connected, tcp_disconnect_active, main_pc, reconn_pc, recv_pc,
              cfg, silence, jumps>>
clockVars == <<silence, jumps>>
hbVars    == <<heartbeat_enabled, bbu_heartbeat_miss_count, elapsed>>
alarmVars == <<alarm_tcp_connected, tcp_disconnect_active>>
vars      == <<linkVars, guardVars>>

MainPcs   == {"sleep", "setup", "heartbeat", "check", "lost_flag", "lost_stop", "lost_notify", "lost_apply"}
ReconnPcs == {"poll", "alarm_on", "alarm_clear", "join", "create", "reset", "request"}
RecvPcs   == {"none", "loop", "cfg_notify", "cfg_dispatch", "exit_alarm", "exit_trigger",
              "exit_flag", "exit_stop", "exit_notify", "exit_apply", "done"}

FlagsOK ==
    /\ peer \in BOOLEAN
    /\ g_channel_established \in BOOLEAN
    /\ heartbeat_enabled \in BOOLEAN
    /\ alarm_tcp_connected \in BOOLEAN
    /\ tcp_disconnect_active \in BOOLEAN

CountersOK ==
    /\ reqs \in 0..MaxReqs
    /\ bbu_heartbeat_miss_count \in 0..HEARTBEAT_TIMEOUT_COUNT
    /\ elapsed \in (-MaxBack)..HEARTBEAT_INTERVAL_SEC
    /\ channel_setup_timer \in 0..SETUP_PERIOD_SEC
    /\ silence \in 0..MaxSilence
    /\ jumps \in 0..HEARTBEAT_TIMEOUT_COUNT

ControlOK ==
    /\ tcp_state \in {"DISCONNECTED", "CONNECTED"}
    /\ main_pc \in MainPcs
    /\ reconn_pc \in ReconnPcs
    /\ recv_pc \in RecvPcs
    /\ cfg \in {"ok", "foreign"}

(* Types of the link's state.                                               *)
LinkTypeOK == GuardTypeOK /\ FlagsOK /\ CountersOK /\ ControlOK

Init ==
    /\ GuardInit
    /\ tcp_state = "DISCONNECTED" /\ peer = FALSE /\ reqs = 0
    /\ g_channel_established = FALSE
    /\ heartbeat_enabled = FALSE /\ bbu_heartbeat_miss_count = 0 /\ elapsed = 0
    /\ channel_setup_timer = 0
    /\ alarm_tcp_connected = FALSE /\ tcp_disconnect_active = FALSE
    /\ main_pc = "sleep" /\ reconn_pc = "poll" /\ recv_pc = "none"
    /\ cfg = "ok" /\ silence = 0 /\ jumps = 0

Min2(a, b) == IF a <= b THEN a ELSE b
Max2(a, b) == IF a <= b THEN b ELSE a

(* A setup request handed to tcp_client_send; it reaches the BBU only over  *)
(* an open connection.                                                      *)
SendSetupRequest ==
    reqs' = IF tcp_state = "CONNECTED" /\ peer THEN Min2(reqs + 1, MaxReqs) ELSE reqs

--------------------
(* tcp_reconnect_thread and tcp_connect_to_server                           *)

(* connect() succeeded: the new socket and the state are stored under       *)
(* state_mutex.  A failed attempt only waits, which is a stuttering step.   *)
Connect ==
    /\ reconn_pc = "poll" /\ tcp_state = "DISCONNECTED"
    /\ tcp_state' = "CONNECTED" /\ peer' = TRUE /\ reqs' = 0
    /\ reconn_pc' = "alarm_on"
    /\ UNCHANGED <<g_channel_established, hbVars, channel_setup_timer, alarmVars,
                   main_pc, recv_pc, cfg, clockVars, guardVars>>

(* alarm_set_tcp_status(true)                                               *)
ConnectAlarmOn ==
    /\ reconn_pc = "alarm_on"
    /\ alarm_tcp_connected' = TRUE
    /\ reconn_pc' = "alarm_clear"
    /\ UNCHANGED <<tcp_state, peer, reqs, g_channel_established, hbVars, channel_setup_timer,
                   tcp_disconnect_active, main_pc, recv_pc, cfg, clockVars, guardVars>>

(* alarm_clear_tcp_disconnect()                                             *)
ConnectAlarmClear ==
    /\ reconn_pc = "alarm_clear"
    /\ tcp_disconnect_active' = FALSE
    /\ reconn_pc' = "join"
    /\ UNCHANGED <<tcp_state, peer, reqs, g_channel_established, hbVars, channel_setup_timer,
                   alarm_tcp_connected, main_pc, recv_pc, cfg, clockVars, guardVars>>

(* Slip of JoinReceiver: the old thread is not waited for.                  *)
JoinReceiverForgotten ==
    /\ reconn_pc = "join"
    /\ reconn_pc' = "create"
    /\ UNCHANGED <<tcp_state, peer, reqs, g_channel_established, hbVars, channel_setup_timer,
                   alarmVars, main_pc, recv_pc, cfg, clockVars, guardVars>>

(* pthread_join of the previous receive thread                              *)
JoinReceiver ==
    /\ reconn_pc = "join" /\ recv_pc \in {"none", "done"}
    /\ recv_pc' = "none"
    /\ reconn_pc' = "create"
    /\ UNCHANGED <<tcp_state, peer, reqs, g_channel_established, hbVars, channel_setup_timer,
                   alarmVars, main_pc, cfg, clockVars, guardVars>>

(* pthread_create of the new receive thread                                 *)
CreateReceiver ==
    /\ reconn_pc = "create"
    /\ recv_pc' = "loop"
    /\ reconn_pc' = "reset"
    /\ UNCHANGED <<tcp_state, peer, reqs, g_channel_established, hbVars, channel_setup_timer,
                   alarmVars, main_pc, cfg, clockVars, guardVars>>

(* pthread_create fails: close the socket again, run no callback            *)
CreateReceiverFails ==
    /\ reconn_pc = "create"
    /\ tcp_state' = "DISCONNECTED" /\ peer' = FALSE /\ reqs' = 0
    /\ reconn_pc' = "poll"
    /\ UNCHANGED <<g_channel_established, hbVars, channel_setup_timer, alarmVars,
                   main_pc, recv_pc, cfg, clockVars, guardVars>>

(* on_tcp_connected: g_channel_established = false ...                      *)
OnConnectedReset ==
    /\ reconn_pc = "reset"
    /\ g_channel_established' = FALSE
    /\ reconn_pc' = "request"
    /\ UNCHANGED <<tcp_state, peer, reqs, hbVars, channel_setup_timer, alarmVars,
                   main_pc, recv_pc, cfg, clockVars, guardVars>>

(* ... and the first setup request                                          *)
OnConnectedRequest ==
    /\ reconn_pc = "request"
    /\ SendSetupRequest
    /\ reconn_pc' = "poll"
    /\ UNCHANGED <<tcp_state, peer, g_channel_established, hbVars, channel_setup_timer,
                   alarmVars, main_pc, recv_pc, cfg, clockVars, guardVars>>

Reconnect == \/ Connect \/ ConnectAlarmOn \/ ConnectAlarmClear \/ JoinReceiver
             \/ CreateReceiver \/ CreateReceiverFails \/ OnConnectedReset \/ OnConnectedRequest

--------------------
(* tcp_recv_thread, on_tcp_data_received, msg_handler_dispatch              *)

(* A MSG_CHANNEL_SETUP_CFG arrives, asked for or not: main.c sets the flag  *)
(* before it hands the message to the dispatcher.                           *)
RecvSetupCfg ==
    /\ recv_pc = "loop" /\ peer
    /\ cfg' \in CfgKinds
    /\ reqs' = Max2(reqs - 1, 0)
    /\ g_channel_established' = TRUE
    /\ recv_pc' = "cfg_notify"
    /\ UNCHANGED <<tcp_state, peer, hbVars, channel_setup_timer, alarmVars,
                   main_pc, reconn_pc, clockVars, guardVars>>

(* cell_config_notify_bbu_link(true): still before the dispatcher           *)
RecvSetupNotify ==
    /\ recv_pc = "cfg_notify"
    /\ NotifyUp(Recv)
    /\ recv_pc' = "cfg_dispatch"
    /\ UNCHANGED <<tcp_state, peer, reqs, g_channel_established, hbVars, channel_setup_timer,
                   alarmVars, main_pc, reconn_pc, cfg, clockVars>>

(* msg_handler_dispatch: paau_id_accept drops a foreign message; otherwise  *)
(* handle_channel_setup_req answers and calls heartbeat_start.              *)
RecvSetupDispatch ==
    /\ recv_pc = "cfg_dispatch"
    /\ \/ /\ cfg = "ok"
          /\ heartbeat_enabled' = TRUE
          /\ bbu_heartbeat_miss_count' = 0 /\ elapsed' = 0
       \/ /\ cfg = "foreign"
          /\ UNCHANGED hbVars
    /\ recv_pc' = "loop"
    /\ UNCHANGED <<tcp_state, peer, reqs, g_channel_established, channel_setup_timer,
                   alarmVars, main_pc, reconn_pc, cfg, clockVars, guardVars>>

(* handle_heartbeat -> heartbeat_handle_bbu                                 *)
RecvHeartbeat ==
    /\ recv_pc = "loop" /\ peer
    /\ silence' = 0 /\ jumps' = 0
    /\ IF heartbeat_enabled
       THEN elapsed' = 0 /\ bbu_heartbeat_miss_count' = 0
       ELSE UNCHANGED <<elapsed, bbu_heartbeat_miss_count>>
    /\ UNCHANGED <<tcp_state, peer, reqs, g_channel_established, heartbeat_enabled,
                   channel_setup_timer, alarmVars, main_pc, reconn_pc, recv_pc, cfg, guardVars>>

(* The BBU sets the wall clock that heartbeat.c reads with time(): a        *)
(* parameter config (settimeofday), or a setup config before                *)
(* heartbeat_start takes the new time.                                      *)
RecvSetTime ==
    /\ (recv_pc = "loop" /\ peer) \/ (recv_pc = "cfg_dispatch" /\ cfg = "ok")
    /\ \E d \in ClockSteps :
          \/ /\ elapsed' = Min2(elapsed + d, HEARTBEAT_INTERVAL_SEC)
             /\ jumps' = Min2(jumps + 1, HEARTBEAT_TIMEOUT_COUNT)
          \/ /\ elapsed - d >= -MaxBack
             /\ elapsed' = elapsed - d
             /\ UNCHANGED jumps
    /\ UNCHANGED <<tcp_state, peer, reqs, g_channel_established, heartbeat_enabled,
                   bbu_heartbeat_miss_count, channel_setup_timer, alarmVars, main_pc,
                   reconn_pc, recv_pc, cfg, silence, guardVars>>

(* recv() returned 0 or an error: close the socket under state_mutex        *)
RecvExit ==
    /\ recv_pc = "loop" /\ ~peer
    /\ tcp_state' = "DISCONNECTED"
    /\ recv_pc' = "exit_alarm"
    /\ UNCHANGED <<peer, reqs, g_channel_established, hbVars, channel_setup_timer, alarmVars,
                   main_pc, reconn_pc, cfg, clockVars, guardVars>>

(* alarm_set_tcp_status(false)                                              *)
RecvExitAlarm ==
    /\ recv_pc = "exit_alarm"
    /\ alarm_tcp_connected' = FALSE
    /\ recv_pc' = "exit_trigger"
    /\ UNCHANGED <<tcp_state, peer, reqs, g_channel_established, hbVars, channel_setup_timer,
                   tcp_disconnect_active, main_pc, reconn_pc, cfg, clockVars, guardVars>>

(* alarm_trigger_tcp_disconnect("Connection lost")                          *)
RecvExitTrigger ==
    /\ recv_pc = "exit_trigger"
    /\ tcp_disconnect_active' = TRUE
    /\ recv_pc' = "exit_flag"
    /\ UNCHANGED <<tcp_state, peer, reqs, g_channel_established, hbVars, channel_setup_timer,
                   alarm_tcp_connected, main_pc, reconn_pc, cfg, clockVars, guardVars>>

(* on_tcp_disconnected: the flag, then heartbeat_stop, then the guard       *)
RecvExitFlag ==
    /\ recv_pc = "exit_flag"
    /\ g_channel_established' = FALSE
    /\ recv_pc' = "exit_stop"
    /\ UNCHANGED <<tcp_state, peer, reqs, hbVars, channel_setup_timer, alarmVars,
                   main_pc, reconn_pc, cfg, clockVars, guardVars>>

RecvExitStop ==
    /\ recv_pc = "exit_stop"
    /\ heartbeat_enabled' = FALSE
    /\ recv_pc' = "exit_notify"
    /\ UNCHANGED <<tcp_state, peer, reqs, g_channel_established, bbu_heartbeat_miss_count,
                   elapsed, channel_setup_timer, alarmVars, main_pc, reconn_pc, cfg,
                   clockVars, guardVars>>

RecvExitNotify ==
    /\ recv_pc = "exit_notify"
    /\ NotifyDown(Recv)
    /\ recv_pc' = "exit_apply"
    /\ UNCHANGED <<tcp_state, peer, reqs, g_channel_established, hbVars, channel_setup_timer,
                   alarmVars, main_pc, reconn_pc, cfg, clockVars>>

RecvExitApply ==
    /\ recv_pc = "exit_apply"
    /\ \/ (ApplySend(Recv) \/ ApplyRecord(Recv)) /\ UNCHANGED recv_pc
       \/ ~Applying(Recv) /\ recv_pc' = "done" /\ UNCHANGED guardVars
    /\ UNCHANGED <<tcp_state, peer, reqs, g_channel_established, hbVars, channel_setup_timer,
                   alarmVars, main_pc, reconn_pc, cfg, clockVars>>

RecvLeave == \/ RecvExit \/ RecvExitAlarm \/ RecvExitTrigger \/ RecvExitFlag
             \/ RecvExitStop \/ RecvExitNotify \/ RecvExitApply
RecvCfg   == RecvSetupNotify \/ RecvSetupDispatch

--------------------
(* The main loop of main.c                                                  *)

Elapse(d) ==
    /\ elapsed' = Min2(elapsed + d, HEARTBEAT_INTERVAL_SEC)
    /\ silence' = Min2(silence + d, MaxSilence)

(* sleep(1), or longer when a blocked send delayed the previous pass        *)
MainSleep ==
    /\ main_pc = "sleep"
    /\ \E d \in 1..HEARTBEAT_INTERVAL_SEC : Elapse(d)
    /\ channel_setup_timer' = Min2(channel_setup_timer + 1, SETUP_PERIOD_SEC)
    /\ main_pc' = "setup"
    /\ UNCHANGED <<tcp_state, peer, reqs, g_channel_established, heartbeat_enabled,
                   bbu_heartbeat_miss_count, alarmVars, reconn_pc, recv_pc, cfg, jumps,
                   guardVars>>

(* Slip of MainSetup: the setup request is never repeated.                  *)
MainSetupOnce ==
    /\ main_pc = "setup"
    /\ channel_setup_timer' = 0
    /\ main_pc' = "heartbeat"
    /\ UNCHANGED <<tcp_state, peer, reqs, g_channel_established, hbVars, alarmVars,
                   reconn_pc, recv_pc, cfg, clockVars, guardVars>>

(* Connected without a channel: repeat the setup request periodically       *)
MainSetup ==
    /\ main_pc = "setup"
    /\ IF ~g_channel_established /\ tcp_state = "CONNECTED"
       THEN IF channel_setup_timer >= SETUP_PERIOD_SEC
            THEN channel_setup_timer' = 0 /\ SendSetupRequest
            ELSE UNCHANGED <<channel_setup_timer, reqs>>
       ELSE channel_setup_timer' = 0 /\ UNCHANGED reqs
    /\ main_pc' = "heartbeat"
    /\ UNCHANGED <<tcp_state, peer, g_channel_established, hbVars, alarmVars,
                   reconn_pc, recv_pc, cfg, clockVars, guardVars>>

(* heartbeat_check_timeout() returns true                                   *)
HeartbeatTimedOut ==
    /\ heartbeat_enabled
    /\ elapsed >= HEARTBEAT_INTERVAL_SEC
    /\ bbu_heartbeat_miss_count + 1 >= HEARTBEAT_TIMEOUT_COUNT

(* With a channel: heartbeat_send_paau, which may block for a while         *)
MainHeartbeat ==
    /\ main_pc = "heartbeat"
    /\ \/ /\ g_channel_established /\ tcp_state = "CONNECTED"
          /\ \E d \in 0..HEARTBEAT_INTERVAL_SEC : Elapse(d)
          /\ main_pc' = "check"
       \/ /\ ~(g_channel_established /\ tcp_state = "CONNECTED")
          /\ main_pc' = "sleep" /\ UNCHANGED <<elapsed, silence>>
    /\ UNCHANGED <<tcp_state, peer, reqs, g_channel_established, heartbeat_enabled,
                   bbu_heartbeat_miss_count, channel_setup_timer, alarmVars, reconn_pc, recv_pc,
                   cfg, jumps, guardVars>>

(* Slip of MainCheck: the time base stays where it is after a miss.         *)
MainCheckNoRebase ==
    /\ main_pc = "check"
    /\ IF heartbeat_enabled /\ elapsed >= HEARTBEAT_INTERVAL_SEC
       THEN /\ bbu_heartbeat_miss_count' =
                   Min2(bbu_heartbeat_miss_count + 1, HEARTBEAT_TIMEOUT_COUNT)
            /\ main_pc' = IF HeartbeatTimedOut THEN "lost_flag" ELSE "sleep"
       ELSE main_pc' = "sleep" /\ UNCHANGED bbu_heartbeat_miss_count
    /\ UNCHANGED <<tcp_state, peer, reqs, g_channel_established, heartbeat_enabled, elapsed,
                   channel_setup_timer, alarmVars, reconn_pc, recv_pc, cfg, clockVars, guardVars>>

(* heartbeat_check_timeout, one miss per interval, whatever has become of   *)
(* the channel since the main loop looked                                   *)
MainCheck ==
    /\ main_pc = "check"
    /\ IF heartbeat_enabled /\ elapsed >= HEARTBEAT_INTERVAL_SEC
       THEN /\ bbu_heartbeat_miss_count' =
                   Min2(bbu_heartbeat_miss_count + 1, HEARTBEAT_TIMEOUT_COUNT)
            /\ IF HeartbeatTimedOut
               THEN main_pc' = "lost_flag" /\ UNCHANGED elapsed
               ELSE main_pc' = "sleep" /\ elapsed' = 0
       ELSE main_pc' = "sleep" /\ UNCHANGED <<bbu_heartbeat_miss_count, elapsed>>
    /\ UNCHANGED <<tcp_state, peer, reqs, g_channel_established, heartbeat_enabled,
                   channel_setup_timer, alarmVars, reconn_pc, recv_pc, cfg, clockVars, guardVars>>

(* The timeout branch: the flag, heartbeat_stop, the guard                  *)
MainLostFlag ==
    /\ main_pc = "lost_flag"
    /\ g_channel_established' = FALSE
    /\ main_pc' = "lost_stop"
    /\ UNCHANGED <<tcp_state, peer, reqs, hbVars, channel_setup_timer, alarmVars,
                   reconn_pc, recv_pc, cfg, clockVars, guardVars>>

MainLostStop ==
    /\ main_pc = "lost_stop"
    /\ heartbeat_enabled' = FALSE
    /\ main_pc' = "lost_notify"
    /\ UNCHANGED <<tcp_state, peer, reqs, g_channel_established, bbu_heartbeat_miss_count,
                   elapsed, channel_setup_timer, alarmVars, reconn_pc, recv_pc, cfg,
                   clockVars, guardVars>>

MainLostNotify ==
    /\ main_pc = "lost_notify"
    /\ NotifyDown(Main)
    /\ main_pc' = "lost_apply"
    /\ UNCHANGED <<tcp_state, peer, reqs, g_channel_established, hbVars, channel_setup_timer,
                   alarmVars, reconn_pc, recv_pc, cfg, clockVars>>

MainLostApply ==
    /\ main_pc = "lost_apply"
    /\ \/ (ApplySend(Main) \/ ApplyRecord(Main)) /\ UNCHANGED main_pc
       \/ ~Applying(Main) /\ main_pc' = "sleep" /\ UNCHANGED guardVars
    /\ UNCHANGED <<tcp_state, peer, reqs, g_channel_established, hbVars, channel_setup_timer,
                   alarmVars, reconn_pc, recv_pc, cfg, clockVars>>

MainLoop == \/ MainSleep \/ MainSetup \/ MainHeartbeat \/ MainCheck
            \/ MainLostFlag \/ MainLostStop \/ MainLostNotify \/ MainLostApply

--------------------
(* The worker, seen from the link: a finished job calls update_tx_control   *)
(* (module CellConfig has the jobs themselves).                             *)
WorkerUpdate == (\E f \in HasFreq : UpdateTxControl(f)) /\ UNCHANGED linkVars
WorkerApply  == (ApplySend(Worker) \/ ApplyRecord(Worker)) /\ UNCHANGED linkVars

(* The BBU closes the connection, or it breaks.                             *)
PeerClose ==
    /\ peer
    /\ peer' = FALSE /\ reqs' = 0
    /\ UNCHANGED <<tcp_state, g_channel_established, hbVars, channel_setup_timer, alarmVars,
                   main_pc, reconn_pc, recv_pc, cfg, clockVars, guardVars>>

Next == \/ Reconnect
        \/ RecvSetupCfg \/ RecvCfg \/ RecvHeartbeat \/ RecvSetTime \/ RecvLeave
        \/ MainLoop
        \/ WorkerUpdate \/ WorkerApply
        \/ PeerClose

Spec == Init /\ [][Next]_vars

(* Threads keep running, connect() succeeds when it is tried often enough,   *)
(* and pthread_create does not fail for ever.                               *)
ThreadFairness ==
    /\ WF_vars(Reconnect) /\ SF_vars(CreateReceiver)
    /\ WF_vars(RecvCfg) /\ WF_vars(RecvLeave)
    /\ WF_vars(MainLoop)
    /\ WF_vars(WorkerApply)

(* The BBU answers a setup request that reached it.                         *)
BbuFairness == WF_vars(reqs > 0 /\ RecvSetupCfg)

FairSpec     == Spec /\ ThreadFairness /\ BbuFairness
FairSilently == Spec /\ ThreadFairness

--------------------
(* A new receive thread never inherits the old connection's state: when     *)
(* tcp_connect_to_server is about to create it, the callbacks of the old    *)
(* thread have closed the gate, stopped the heartbeat and cleared the flag  *)
(* (the join in tcp_client.c, lines 151-159).                               *)
FreshConnectionClosed ==
    reconn_pc = "create" => /\ ~g_channel_established
                            /\ ~heartbeat_enabled
                            /\ ~g_bbu_link_ok

(* heartbeat_check_timeout gives up on the BBU only after                   *)
(* HEARTBEAT_TIMEOUT_COUNT whole intervals without a heartbeat: the time    *)
(* base it moves forward at each miss never counts a second twice, and each *)
(* setting of the wall clock, however far, costs at most one interval.      *)
NoPrematureTimeout ==
    [][main_pc = "check" /\ main_pc' = "lost_flag"
          => silence + jumps * HEARTBEAT_INTERVAL_SEC >= MaxSilence]_vars

(* After any disconnect the channel is set up again and its heartbeat runs, *)
(* provided that the connection then stays open and the BBU answers: no     *)
(* interleaving of the join, the callbacks and the main loop loses it.      *)
ReconnectSetsUp ==
    <>[]peer => (tcp_state = "DISCONNECTED" ~> g_channel_established /\ heartbeat_enabled)

(* Strengthening of NoPrematureTimeout: the misses counted so far and the   *)
(* running interval fit into the BBU's real silence and the clock's jumps.  *)
MissesAreReal ==
    LET charged == silence + jumps * HEARTBEAT_INTERVAL_SEC
    IN  \/ ~heartbeat_enabled
        \/ charged >= MaxSilence
        \/ bbu_heartbeat_miss_count * HEARTBEAT_INTERVAL_SEC + Max2(elapsed, 0) <= charged

(* Strengthening of FreshConnectionClosed: the leaving receive thread shuts *)
(* the channel down stage by stage, and nobody but a receive thread in its  *)
(* loop opens it again.                                                     *)
ShutDownInStages ==
    /\ recv_pc \in {"none", "exit_stop", "exit_notify", "exit_apply", "done"}
          => ~g_channel_established
    /\ recv_pc \in {"none", "exit_notify", "exit_apply", "done"} => ~heartbeat_enabled
    /\ recv_pc \in {"none", "exit_apply", "done"} => ~g_bbu_link_ok
    /\ reconn_pc = "create" => recv_pc = "none"

(* The inductive invariant of the link: types, the staged shutdown of the   *)
(* receive thread (main.c, on_tcp_disconnected) and the accounting of       *)
(* missed heartbeats (heartbeat_check_timeout).                             *)
LinkInv == LinkTypeOK /\ ShutDownInStages /\ MissesAreReal

--------------------
(* What comments and documents claim and the code does not keep             *)

(* main.c, lines 520-528: after a heartbeat timeout the link comes back     *)
(* through a new channel setup (given that the connection stays open and    *)
(* no further timeout happens).                                             *)
TimeoutRecovers ==
    <>[](peer /\ main_pc \in {"sleep", "setup", "heartbeat", "check"}) =>
        (main_pc = "lost_flag" ~> g_channel_established /\ heartbeat_enabled /\ g_bbu_link_ok)

(* main.c, lines 525-526: a BBU that stays connected but no longer answers  *)
(* has the antenna's transmitter switched off.                              *)
SilentBbuStopsTx ==
    <>[](silence = MaxSilence /\ ~raced /\ ~off_failed) => []<>(~antenna_tx)

(* ALARM_README.md: alarm 1160 is cleared when the TCP connection is up.     *)
ConnectedClearsAlarm ==
    reconn_pc = "poll" /\ recv_pc = "loop" /\ peer =>
        alarm_tcp_connected /\ ~tcp_disconnect_active

(* README.md: with PAAU_ID_CHECK = 2 a message for another PAAU is dropped.  *)
ForeignCfgIgnored ==
    [][recv_pc = "loop" /\ recv_pc' = "cfg_notify" /\ cfg' = "foreign"
         => UNCHANGED g_channel_established]_vars
====================
