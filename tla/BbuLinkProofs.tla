---------- MODULE BbuLinkProofs ----------
(***************************************************************************)
(* Proofs about the BBU link, for every heartbeat interval, timeout count  *)
(* and setup period.                                                       *)
(***************************************************************************)
EXTENDS BbuLink, TxGuardProofs

--------------------
(* The link implements the transmit guard: each step of a link thread is a *)
(* step of the guard or leaves the guard alone.                            *)
LEMMA LinkStepRefines == [Next]_vars => [GuardNext]_guardVars
<1> SUFFICES ASSUME [Next]_vars PROVE GuardNext \/ UNCHANGED guardVars
    OBVIOUS
<1>0. Main \in Notifiers /\ Recv \in Notifiers /\ Notifiers \subseteq Threads /\ Worker \in Threads
    BY LinkAssumption DEF Threads
<1>1. CASE UNCHANGED vars
    BY <1>1 DEF vars
<1>2. CASE Reconnect
    BY <1>2 DEF Reconnect, Connect, ConnectAlarmOn, ConnectAlarmClear, JoinReceiver,
                CreateReceiver, CreateReceiverFails, OnConnectedReset, OnConnectedRequest
<1>3. CASE RecvSetupCfg \/ RecvHeartbeat \/ RecvSetTime \/ PeerClose
    BY <1>3 DEF RecvSetupCfg, RecvHeartbeat, RecvSetTime, PeerClose
<1>4. CASE RecvCfg
    BY <1>0, <1>4 DEF RecvCfg, RecvSetupNotify, RecvSetupDispatch, GuardNext
<1>5. CASE RecvLeave
    <2>1. CASE RecvExitNotify
        BY <1>0, <2>1 DEF RecvExitNotify, GuardNext
    <2>2. CASE RecvExitApply
        BY <1>0, <2>2 DEF RecvExitApply, GuardNext
    <2>3. CASE \/ RecvExit \/ RecvExitAlarm \/ RecvExitTrigger \/ RecvExitFlag \/ RecvExitStop
        BY <2>3 DEF RecvExit, RecvExitAlarm, RecvExitTrigger, RecvExitFlag, RecvExitStop
    <2>4. QED
        BY <1>5, <2>1, <2>2, <2>3 DEF RecvLeave
<1>6. CASE MainLoop
    <2>1. CASE MainLostNotify
        BY <1>0, <2>1 DEF MainLostNotify, GuardNext
    <2>2. CASE MainLostApply
        BY <1>0, <2>2 DEF MainLostApply, GuardNext
    <2>3. CASE MainSleep \/ MainSetup \/ MainHeartbeat \/ MainCheck \/ MainLostFlag \/ MainLostStop
        BY <2>3 DEF MainSleep, MainSetup, MainHeartbeat, MainCheck, MainLostFlag, MainLostStop
    <2>4. QED
        BY <1>6, <2>1, <2>2, <2>3 DEF MainLoop
<1>7. CASE WorkerUpdate
    <2>1. PICK f \in HasFreq : UpdateTxControl(f)
        BY <1>7 DEF WorkerUpdate
    <2>2. f \in BOOLEAN
        BY LinkAssumption
    <2>3. QED
        BY <2>1, <2>2 DEF GuardNext
<1>8. CASE WorkerApply
    BY <1>0, <1>8 DEF WorkerApply, GuardNext
<1>9. QED
    BY <1>1, <1>2, <1>3, <1>4, <1>5, <1>6, <1>7, <1>8 DEF Next

(* BbuLink implements TxGuard: whatever the TCP client, the heartbeat and   *)
(* the main loop do, the guard only sees the calls its specification allows.*)
THEOREM LinkRefinesGuard == Spec => GuardSpec
<1>1. Init => GuardInit
    BY DEF Init
<1>2. QED
    BY <1>1, LinkStepRefines, PTL DEF Spec, GuardSpec

(* With the link as the caller of cell_config_notify_bbu_link, the antenna  *)
(* is off once a loss of the BBU was handled without a race.                *)
THEOREM LinkTxOffTheorem == Spec => []TxOffWhenLinkDown
    BY LinkRefinesGuard, TxOffTheorem, PTL

--------------------
(* The smaller of two numbers is one of them, and at most either.           *)
LEMMA Min2Facts ==
    ASSUME NEW a \in Nat, NEW b \in Nat
    PROVE  /\ Min2(a, b) \in Nat /\ Min2(a, b) <= a /\ Min2(a, b) <= b
           /\ Min2(a, b) = a \/ Min2(a, b) = b
    BY DEF Min2

(* The longest silence is a natural number, and one miss more costs one     *)
(* heartbeat interval more.                                                 *)
LEMMA IntervalFacts ==
    /\ MaxSilence \in Nat
    /\ HEARTBEAT_TIMEOUT_COUNT * HEARTBEAT_INTERVAL_SEC = MaxSilence
    /\ \A m \in Nat : /\ m * HEARTBEAT_INTERVAL_SEC \in Nat
                      /\ (m + 1) * HEARTBEAT_INTERVAL_SEC
                            = m * HEARTBEAT_INTERVAL_SEC + HEARTBEAT_INTERVAL_SEC
                      /\ m + 1 >= HEARTBEAT_TIMEOUT_COUNT =>
                            m * HEARTBEAT_INTERVAL_SEC + HEARTBEAT_INTERVAL_SEC >= MaxSilence
    BY LinkAssumption, SMT DEF MaxSilence

(* Init establishes the invariant of the link.                              *)
LEMMA LinkInitInv == Init => LinkInv
<1> SUFFICES ASSUME Init PROVE LinkInv
    OBVIOUS
<1>1. GuardTypeOK
    BY GuardInitInv DEF Init, GuardInv
<1>0. MaxSilence \in Nat
    BY IntervalFacts
<1>2. LinkTypeOK
    <2>1. FlagsOK
        BY DEF Init, FlagsOK
    <2>2. CountersOK
        BY <1>0, LinkAssumption DEF Init, CountersOK
    <2>3. ControlOK
        BY DEF Init, ControlOK, MainPcs, ReconnPcs, RecvPcs
    <2>4. QED
        BY <1>1, <2>1, <2>2, <2>3 DEF LinkTypeOK
<1>3. ShutDownInStages
    BY DEF Init, ShutDownInStages, GuardInit
<1>4. MissesAreReal
    BY DEF Init, MissesAreReal
<1>5. QED
    BY <1>2, <1>3, <1>4 DEF LinkInv

(* Each step preserves the types.                                           *)
LEMMA LinkStepType ==
    ASSUME LinkTypeOK, GuardTypeOK', Next PROVE LinkTypeOK'
<1> USE DEF hbVars, alarmVars, clockVars
<1>0. FlagsOK /\ CountersOK /\ ControlOK
    BY DEF LinkTypeOK
<1>1. FlagsOK'
    BY <1>0 DEF FlagsOK, Next, Reconnect, RecvCfg, RecvLeave, MainLoop, linkVars, Connect,
               ConnectAlarmOn, ConnectAlarmClear, JoinReceiver, CreateReceiver,
               CreateReceiverFails, OnConnectedReset, OnConnectedRequest, RecvSetupCfg,
               RecvSetupNotify, RecvSetupDispatch, RecvHeartbeat, RecvSetTime, RecvExit, RecvExitAlarm,
               RecvExitTrigger, RecvExitFlag, RecvExitStop, RecvExitNotify, RecvExitApply,
               MainSleep, MainSetup, MainHeartbeat, MainCheck, MainLostFlag, MainLostStop,
               MainLostNotify, MainLostApply, WorkerUpdate, WorkerApply, PeerClose
<1>2. CountersOK'
    <2> USE DEF CountersOK
    <2>0. /\ HEARTBEAT_INTERVAL_SEC \in Nat \ {0} /\ HEARTBEAT_TIMEOUT_COUNT \in Nat \ {0}
          /\ SETUP_PERIOD_SEC \in Nat \ {0} /\ MaxReqs \in Nat \ {0} /\ MaxSilence \in Nat
          /\ MaxBack \in Nat /\ ClockSteps \subseteq Nat
        BY LinkAssumption, IntervalFacts
    <2>1. CASE UNCHANGED <<reqs, bbu_heartbeat_miss_count, elapsed, channel_setup_timer,
                          silence, jumps>>
        BY <1>0, <2>1
    <2>2. ASSUME SendSetupRequest PROVE reqs' \in 0..MaxReqs
        BY <1>0, <2>0, <2>2 DEF SendSetupRequest, Min2
    <2>3. CASE Connect \/ CreateReceiverFails \/ OnConnectedRequest \/ PeerClose
        BY <1>0, <2>0, <2>2, <2>3 DEF Connect, CreateReceiverFails, OnConnectedRequest, PeerClose
    <2>4. CASE RecvSetupCfg \/ RecvSetupDispatch \/ RecvHeartbeat
        BY <1>0, <2>0, <2>4 DEF RecvSetupCfg, RecvSetupDispatch, RecvHeartbeat, Max2
    <2>5. CASE MainSleep
        BY <1>0, <2>0, <2>5 DEF MainSleep, Elapse, Min2
    <2>6. CASE MainSetup
        BY <1>0, <2>0, <2>2, <2>6 DEF MainSetup
    <2>7. CASE MainCheck
        BY <1>0, <2>0, <2>7 DEF MainCheck, Min2
    <2>10. CASE MainHeartbeat
        BY <1>0, <2>0, <2>10 DEF MainHeartbeat, Elapse, Min2
    <2>8. CASE RecvSetTime
        BY <1>0, <2>0, <2>8 DEF RecvSetTime, Min2
    <2>9. QED
        BY <2>1, <2>3, <2>4, <2>5, <2>6, <2>7, <2>8, <2>10
           DEF Next, Reconnect, RecvCfg, RecvLeave, MainLoop, linkVars, ConnectAlarmOn,
               ConnectAlarmClear, JoinReceiver, CreateReceiver, OnConnectedReset,
               RecvSetupNotify, RecvExit, RecvExitAlarm, RecvExitTrigger, RecvExitFlag,
               RecvExitStop, RecvExitNotify, RecvExitApply, MainLostFlag, MainLostStop,
               MainLostNotify, MainLostApply, WorkerUpdate, WorkerApply
<1>3. ControlOK'
    <2> USE DEF ControlOK, MainPcs, ReconnPcs, RecvPcs
    <2>1. CASE Reconnect
        BY <1>0, <2>1
           DEF Reconnect, Connect, ConnectAlarmOn, ConnectAlarmClear, JoinReceiver,
               CreateReceiver, CreateReceiverFails, OnConnectedReset, OnConnectedRequest
    <2>2. CASE RecvSetupCfg
        BY <1>0, <2>2, LinkAssumption DEF RecvSetupCfg
    <2>3. CASE RecvCfg \/ RecvHeartbeat \/ RecvSetTime \/ PeerClose
        BY <1>0, <2>3 DEF RecvCfg, RecvSetupNotify, RecvSetupDispatch, RecvHeartbeat,
                          RecvSetTime, PeerClose
    <2>4. CASE RecvLeave
        BY <1>0, <2>4
           DEF RecvLeave, RecvExit, RecvExitAlarm, RecvExitTrigger, RecvExitFlag,
               RecvExitStop, RecvExitNotify, RecvExitApply
    <2>5. CASE MainLoop
        BY <1>0, <2>5
           DEF MainLoop, MainSleep, MainSetup, MainHeartbeat, MainCheck, MainLostFlag, MainLostStop,
               MainLostNotify, MainLostApply
    <2>6. CASE WorkerUpdate \/ WorkerApply
        BY <1>0, <2>6 DEF WorkerUpdate, WorkerApply, linkVars
    <2>7. QED
        BY <2>1, <2>2, <2>3, <2>4, <2>5, <2>6 DEF Next
<1>4. QED
    BY <1>1, <1>2, <1>3 DEF LinkTypeOK

(* Each step preserves the staged shutdown of the channel.                  *)
LEMMA LinkStepStages ==
    ASSUME LinkTypeOK, ShutDownInStages, Next PROVE ShutDownInStages'
<1> USE DEF ShutDownInStages, hbVars, guardVars
<1>2. CASE Reconnect
    BY <1>2 DEF Reconnect, Connect, ConnectAlarmOn, ConnectAlarmClear, JoinReceiver,
                CreateReceiver, CreateReceiverFails, OnConnectedReset, OnConnectedRequest
<1>3. CASE RecvSetupCfg \/ RecvHeartbeat \/ RecvSetTime \/ PeerClose
    BY <1>3 DEF RecvSetupCfg, RecvHeartbeat, RecvSetTime, PeerClose
<1>4. CASE RecvCfg
    BY <1>4 DEF RecvCfg, RecvSetupNotify, RecvSetupDispatch, NotifyUp
<1>5. CASE RecvLeave
    BY <1>5 DEF RecvLeave, RecvExit, RecvExitAlarm, RecvExitTrigger, RecvExitFlag,
                RecvExitStop, RecvExitNotify, RecvExitApply, NotifyDown, ApplySend, ApplyRecord
<1>6. CASE MainLoop
    BY <1>6 DEF MainLoop, MainSleep, MainSetup, MainHeartbeat, MainCheck, MainLostFlag, MainLostStop,
                MainLostNotify, MainLostApply, NotifyDown, ApplySend, ApplyRecord
<1>7. CASE WorkerUpdate \/ WorkerApply
    BY <1>7 DEF WorkerUpdate, WorkerApply, linkVars, UpdateTxControl, ApplySend, ApplyRecord
<1>8. QED
    BY <1>2, <1>3, <1>4, <1>5, <1>6, <1>7 DEF Next

(* Each step keeps the counted misses within the BBU's real silence and the *)
(* jumps of the clock.                                                      *)
LEMMA LinkStepMisses ==
    ASSUME LinkTypeOK, MissesAreReal, Next PROVE MissesAreReal'
<1> USE DEF MissesAreReal, hbVars, clockVars
<1> DEFINE missed == bbu_heartbeat_miss_count * HEARTBEAT_INTERVAL_SEC
           jumped == jumps * HEARTBEAT_INTERVAL_SEC
<1>0. /\ bbu_heartbeat_miss_count \in Nat /\ elapsed \in Int /\ silence \in Nat /\ jumps \in Nat
      /\ elapsed <= HEARTBEAT_INTERVAL_SEC /\ silence <= MaxSilence /\ MaxSilence \in Nat
      /\ HEARTBEAT_INTERVAL_SEC \in Nat /\ HEARTBEAT_TIMEOUT_COUNT \in Nat
      /\ jumps <= HEARTBEAT_TIMEOUT_COUNT
      /\ missed \in Nat /\ jumped \in Nat
    BY LinkAssumption, IntervalFacts DEF LinkTypeOK, CountersOK
<1>1. CASE UNCHANGED <<hbVars, clockVars>>
    BY <1>1
<1>2. CASE ~heartbeat_enabled'
    BY <1>2
<1>3. CASE /\ bbu_heartbeat_miss_count' = 0 /\ elapsed' = 0
           /\ silence' \in Nat /\ jumps' \in Nat
    <2>1. bbu_heartbeat_miss_count' * HEARTBEAT_INTERVAL_SEC = 0
        BY <1>0, <1>3
    <2>2. jumps' * HEARTBEAT_INTERVAL_SEC \in Nat
        BY <1>3, IntervalFacts
    <2>3. QED
        BY <1>3, <2>1, <2>2 DEF Max2
<1>4. CASE /\ \E d \in 0..HEARTBEAT_INTERVAL_SEC : Elapse(d)
           /\ UNCHANGED <<heartbeat_enabled, bbu_heartbeat_miss_count, jumps>>
    <2>1. PICK d \in 0..HEARTBEAT_INTERVAL_SEC :
              /\ elapsed' = Min2(elapsed + d, HEARTBEAT_INTERVAL_SEC)
              /\ silence' = Min2(silence + d, MaxSilence)
        BY <1>4 DEF Elapse
    <2>2. /\ UNCHANGED <<heartbeat_enabled, bbu_heartbeat_miss_count, jumps>>
          /\ missed' = missed /\ jumped' = jumped
        BY <1>4
    <2> HIDE DEF missed, jumped
    <2>3. CASE silence + jumped >= MaxSilence
        <3>1. silence' + jumped >= MaxSilence
            BY <1>0, <2>1, <2>3 DEF Min2
        <3>2. QED
            BY <2>2, <3>1 DEF missed, jumped
    <2>4. CASE missed + Max2(elapsed, 0) <= silence + jumped
        <3>1. \/ silence' + jumped >= MaxSilence
              \/ missed + Max2(elapsed', 0) <= silence' + jumped
            BY <1>0, <2>1, <2>4 DEF Min2, Max2
        <3>2. QED
            BY <2>2, <3>1 DEF missed, jumped
    <2>5. QED
        BY <2>2, <2>3, <2>4 DEF missed, jumped
<1>5. CASE RecvSetTime
    <2>1. /\ UNCHANGED <<heartbeat_enabled, bbu_heartbeat_miss_count, silence>>
          /\ missed' = missed
        BY <1>5 DEF RecvSetTime
    <2>2. PICK d \in ClockSteps :
             \/ /\ elapsed' = Min2(elapsed + d, HEARTBEAT_INTERVAL_SEC)
                /\ jumps' = Min2(jumps + 1, HEARTBEAT_TIMEOUT_COUNT)
             \/ /\ elapsed' = elapsed - d
                /\ UNCHANGED jumps
        BY <1>5 DEF RecvSetTime
    <2>3. d \in Nat
        BY LinkAssumption
    <2>4. CASE jumps' = HEARTBEAT_TIMEOUT_COUNT
        <3>1. jumped' = MaxSilence
            BY <2>4, IntervalFacts
        <3> HIDE DEF jumped
        <3>2. silence' + jumped' >= MaxSilence
            BY <1>0, <2>1, <3>1
        <3>3. QED
            BY <3>2 DEF jumped
    <2>5. CASE /\ elapsed' = Min2(elapsed + d, HEARTBEAT_INTERVAL_SEC)
               /\ jumps' = jumps + 1
        <3>1. jumped' = jumped + HEARTBEAT_INTERVAL_SEC
            BY <1>0, <2>5, IntervalFacts
        <3>2. elapsed' \in Int /\ elapsed' <= HEARTBEAT_INTERVAL_SEC
            BY <1>0, <2>3, <2>5 DEF Min2
        <3> HIDE DEF missed, jumped
        <3>3. CASE silence + jumped >= MaxSilence
            <4>1. silence + jumped' >= MaxSilence
                BY <1>0, <3>1, <3>3
            <4>2. QED
                BY <2>1, <4>1 DEF jumped
        <3>4. CASE missed + Max2(elapsed, 0) <= silence + jumped
            <4>1. /\ Max2(elapsed, 0) \in Nat /\ Max2(elapsed', 0) \in Nat
                  /\ Max2(elapsed', 0) <= HEARTBEAT_INTERVAL_SEC
                BY <1>0, <3>2 DEF Max2
            <4>2. missed + Max2(elapsed', 0) <= silence + (jumped + HEARTBEAT_INTERVAL_SEC)
                BY <1>0, <3>4, <4>1
            <4>3. missed + Max2(elapsed', 0) <= silence + jumped'
                BY <3>1, <4>2
            <4>4. QED
                BY <2>1, <4>3 DEF missed, jumped
        <3>5. QED
            BY <2>1, <3>3, <3>4 DEF missed, jumped
    <2>6. CASE elapsed' = elapsed - d /\ UNCHANGED jumps
        <3> HIDE DEF missed, jumped
        <3>1. Max2(elapsed', 0) <= Max2(elapsed, 0)
            BY <1>0, <2>3, <2>6 DEF Max2
        <3>2. Max2(elapsed', 0) \in Nat /\ Max2(elapsed, 0) \in Nat
            BY <1>0, <2>3, <2>6 DEF Max2
        <3>3. ASSUME missed + Max2(elapsed, 0) <= silence + jumped
              PROVE  missed + Max2(elapsed', 0) <= silence + jumped
            BY <1>0, <3>1, <3>2, <3>3
        <3>4. QED
            BY <2>1, <2>6, <3>3 DEF missed, jumped
    <2>7. QED
        BY <1>0, <2>2, <2>4, <2>5, <2>6 DEF Min2
<1>6. CASE MainCheck
    <2>1. /\ UNCHANGED <<heartbeat_enabled, silence, jumps>>
          /\ jumped' = jumped
        BY <1>6 DEF MainCheck
    <2>2. CASE /\ heartbeat_enabled /\ elapsed >= HEARTBEAT_INTERVAL_SEC
               /\ ~(silence + jumped >= MaxSilence)
               /\ bbu_heartbeat_miss_count' =
                      Min2(bbu_heartbeat_miss_count + 1, HEARTBEAT_TIMEOUT_COUNT)
        <3>1. missed + HEARTBEAT_INTERVAL_SEC <= silence + jumped
            <4>1. missed + Max2(elapsed, 0) <= silence + jumped
                BY <2>2
            <4> HIDE DEF missed, jumped
            <4>2. QED
                BY <1>0, <2>2, <4>1 DEF Max2
        <3>2. ~(bbu_heartbeat_miss_count + 1 >= HEARTBEAT_TIMEOUT_COUNT)
            <4>1. bbu_heartbeat_miss_count + 1 >= HEARTBEAT_TIMEOUT_COUNT
                    => missed + HEARTBEAT_INTERVAL_SEC >= MaxSilence
                BY <1>0, IntervalFacts
            <4> HIDE DEF missed, jumped
            <4>2. QED
                BY <1>0, <2>2, <3>1, <4>1
        <3>3. bbu_heartbeat_miss_count' = bbu_heartbeat_miss_count + 1
            BY <1>0, <2>2, <3>2 DEF Min2
        <3>4. elapsed' = 0
            BY <1>6, <2>2, <3>2, <3>3 DEF MainCheck, HeartbeatTimedOut
        <3>5. missed' = missed + HEARTBEAT_INTERVAL_SEC
            BY <1>0, <3>3, IntervalFacts
        <3>6. missed' + Max2(elapsed', 0) <= silence + jumped
            <4> HIDE DEF missed, jumped
            <4>1. QED
                BY <1>0, <3>1, <3>4, <3>5 DEF Max2
        <3>7. QED
            BY <2>1, <3>6
    <2>3. CASE UNCHANGED <<bbu_heartbeat_miss_count, elapsed>>
        BY <2>1, <2>3
    <2>4. CASE ~heartbeat_enabled \/ silence + jumped >= MaxSilence
        BY <2>1, <2>4
    <2>5. QED
        BY <1>6, <2>2, <2>3, <2>4 DEF MainCheck
<1>8. CASE MainSleep \/ MainHeartbeat
    <2>1. CASE MainSleep
        BY <1>4, <2>1 DEF MainSleep
    <2>2. CASE MainHeartbeat
        BY <1>1, <1>4, <2>2 DEF MainHeartbeat
    <2>3. QED
        BY <1>8, <2>1, <2>2
<1> HIDE DEF MissesAreReal, missed, jumped
<1>7. QED
    BY <1>0, <1>1, <1>2, <1>3, <1>5, <1>6, <1>8
       DEF Next, Reconnect, Connect, ConnectAlarmOn, ConnectAlarmClear, JoinReceiver,
           CreateReceiver, CreateReceiverFails, OnConnectedReset, OnConnectedRequest,
           RecvSetupCfg, RecvHeartbeat, PeerClose, RecvCfg, RecvSetupNotify, RecvSetupDispatch,
           RecvLeave, RecvExit, RecvExitAlarm, RecvExitTrigger, RecvExitFlag, RecvExitStop,
           RecvExitNotify, RecvExitApply, MainLoop, MainSetup, MainLostFlag, MainLostStop,
           MainLostNotify, MainLostApply, WorkerUpdate, WorkerApply, linkVars

(* The invariant of the link holds in every reachable state.                *)
THEOREM LinkInvTheorem == Spec => []LinkInv
<1>1. LinkInv /\ GuardTypeOK' /\ [Next]_vars => LinkInv'
    <2> SUFFICES ASSUME LinkInv, GuardTypeOK', [Next]_vars PROVE LinkInv'
        OBVIOUS
    <2>1. CASE Next
        BY <2>1, LinkStepType, LinkStepStages, LinkStepMisses DEF LinkInv
    <2>2. CASE UNCHANGED vars
        BY <2>2 DEF LinkInv, LinkTypeOK, FlagsOK, CountersOK, ControlOK,
                    ShutDownInStages, MissesAreReal, vars, linkVars, guardVars
    <2>3. QED
        BY <2>1, <2>2
<1>2. QED
    BY <1>1, LinkInitInv, LinkRefinesGuard, GuardTypeTheorem, PTL DEF Spec

(* The join of tcp_connect_to_server makes every new connection start with  *)
(* the channel down, the heartbeat stopped and the transmit gate closed.    *)
THEOREM FreshConnectionTheorem == Spec => []FreshConnectionClosed
<1>1. LinkInv => FreshConnectionClosed
    BY DEF LinkInv, ShutDownInStages, FreshConnectionClosed
<1>2. QED
    BY <1>1, LinkInvTheorem, PTL

(* heartbeat_check_timeout never gives up on a BBU that sent a heartbeat    *)
(* within the last HEARTBEAT_TIMEOUT_COUNT intervals, less one interval for *)
(* each time the clock was set since, for any interval and any settings.    *)
THEOREM NoPrematureTimeoutTheorem == Spec => NoPrematureTimeout
<1>1. LinkInv /\ [Next]_vars =>
          [main_pc = "check" /\ main_pc' = "lost_flag"
             => silence + jumps * HEARTBEAT_INTERVAL_SEC >= MaxSilence]_vars
    <2> SUFFICES ASSUME LinkInv, Next, main_pc = "check", main_pc' = "lost_flag"
                 PROVE  silence + jumps * HEARTBEAT_INTERVAL_SEC >= MaxSilence
        OBVIOUS
    <2>0. /\ bbu_heartbeat_miss_count \in Nat /\ elapsed \in Int /\ silence \in Nat
          /\ jumps * HEARTBEAT_INTERVAL_SEC \in Nat
          /\ MaxSilence \in Nat /\ HEARTBEAT_INTERVAL_SEC \in Nat
          /\ bbu_heartbeat_miss_count * HEARTBEAT_INTERVAL_SEC \in Nat
        BY LinkAssumption, IntervalFacts DEF LinkInv, LinkTypeOK, CountersOK
    <2>1. MainCheck
        BY DEF Next, Reconnect, Connect, ConnectAlarmOn, ConnectAlarmClear, JoinReceiver,
           CreateReceiver, CreateReceiverFails, OnConnectedReset, OnConnectedRequest,
           RecvSetupCfg, RecvHeartbeat, RecvSetTime, PeerClose, RecvCfg, RecvSetupNotify, RecvSetupDispatch,
           RecvLeave, RecvExit, RecvExitAlarm, RecvExitTrigger, RecvExitFlag, RecvExitStop,
           RecvExitNotify, RecvExitApply, MainLoop, MainSleep, MainSetup, MainHeartbeat, MainLostFlag,
           MainLostStop, MainLostNotify, MainLostApply, WorkerUpdate, WorkerApply, linkVars
    <2>2. /\ heartbeat_enabled /\ elapsed >= HEARTBEAT_INTERVAL_SEC
          /\ bbu_heartbeat_miss_count + 1 >= HEARTBEAT_TIMEOUT_COUNT
        BY <2>1 DEF MainCheck, HeartbeatTimedOut
    <2>3. bbu_heartbeat_miss_count * HEARTBEAT_INTERVAL_SEC + HEARTBEAT_INTERVAL_SEC >= MaxSilence
        BY <2>0, <2>2, IntervalFacts
    <2>4. QED
        BY <2>0, <2>2, <2>3 DEF LinkInv, MissesAreReal, Max2
<1>2. QED
    BY <1>1, LinkInvTheorem, PTL DEF Spec, NoPrematureTimeout
====================
