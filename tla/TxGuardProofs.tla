---------- MODULE TxGuardProofs ----------
(***************************************************************************)
(* Proofs about the transmit guard, for any set of link threads.           *)
(***************************************************************************)
EXTENDS TxGuard, TLAPS

(* The initial state of the guard satisfies the inductive invariant.       *)
LEMMA GuardInitInv == GuardInit => GuardInv
<1> SUFFICES ASSUME GuardInit PROVE GuardInv
    OBVIOUS
<1>1. NoApply \in ApplyRec /\ NoApply.step = "none" /\ NoApply.on = FALSE
    BY DEF NoApply, ApplyRec
<1>2. \A t \in Threads : apply[t] = NoApply
    BY DEF GuardInit
<1>3. GuardTypeOK
    BY <1>1 DEF GuardInit, GuardTypeOK
<1>4. OnlyOffFromNotifiers /\ NoOverlap /\ SentIsReal /\ OffUnderWay
    BY <1>1, <1>2 DEF GuardInit, OnlyOffFromNotifiers, NoOverlap, SentIsReal,
                      OffUnderWay, Applying, Threads
<1>5. RecordInSync
    BY DEF GuardInit, RecordInSync
<1>6. QED
    BY <1>3, <1>4, <1>5 DEF GuardInv

(* Every step of the guard preserves the inductive invariant.              *)
LEMMA GuardStepInv == GuardInv /\ [GuardNext]_guardVars => GuardInv'
<1> SUFFICES ASSUME GuardInv, [GuardNext]_guardVars PROVE GuardInv'
    OBVIOUS
<1> USE ThreadAssumption
    DEF GuardInv, GuardTypeOK, OnlyOffFromNotifiers, NoOverlap, SentIsReal,
        RecordInSync, OffUnderWay, Threads, NoApply, ApplyRec, Applying
<1>1. ASSUME NEW t \in Notifiers, NotifyUp(t) PROVE GuardInv'
    BY <1>1 DEF NotifyUp
<1>2. ASSUME NEW t \in Notifiers, NotifyDown(t) PROVE GuardInv'
    BY <1>2 DEF NotifyDown
<1>3. ASSUME NEW f \in BOOLEAN, UpdateTxControl(f) PROVE GuardInv'
    BY <1>3 DEF UpdateTxControl
<1>4. ASSUME NEW t \in Threads, ApplySend(t) PROVE GuardInv'
    <2>1. /\ apply[t].step = "send"
          /\ UNCHANGED <<g_bbu_link_ok, g_tx_on, raced>>
        BY <1>4 DEF ApplySend
    <2>2. CASE /\ antenna_tx' = apply[t].on
               /\ apply' = [apply EXCEPT ![t].step = "record"]
               /\ off_failed' = (off_failed /\ apply[t].on)
        <3>1. GuardTypeOK'
            BY <2>1, <2>2
        <3>2. /\ apply'[t].step = "record" /\ apply'[t].on = apply[t].on
              /\ \A u \in Threads \ {t} : apply'[u] = apply[u]
            BY <2>2
        <3>3. (OnlyOffFromNotifiers /\ NoOverlap)'
            BY <2>1, <3>1, <3>2
        <3>4. SentIsReal'
            <4> SUFFICES ASSUME ~raced, NEW u \in Threads, apply'[u].step = "record"
                         PROVE  antenna_tx' = apply'[u].on
                BY <2>1
            <4>1. CASE u = t
                BY <2>2, <3>2, <4>1
            <4>2. CASE u # t
                <5>1. apply[u].on = FALSE /\ apply[t].on = FALSE
                    BY <2>1, <3>2, <4>2
                <5>2. QED
                    BY <2>2, <3>2, <4>2, <5>1
            <4>3. QED
                BY <4>1, <4>2
        <3>5. RecordInSync'
            BY <3>2
        <3>6. OffUnderWay'
            BY <2>1, <2>2
        <3>7. QED
            BY <3>1, <3>3, <3>4, <3>5, <3>6
    <2>3. CASE /\ apply' = [apply EXCEPT ![t] = NoApply]
               /\ off_failed' = (off_failed \/ ~apply[t].on)
               /\ UNCHANGED antenna_tx
        BY <2>1, <2>3
    <2>4. QED
        BY <1>4, <2>2, <2>3 DEF ApplySend
<1>5. ASSUME NEW t \in Threads, ApplyRecord(t) PROVE GuardInv'
    BY <1>5 DEF ApplyRecord
<1>6. CASE UNCHANGED guardVars
    BY <1>6 DEF guardVars
<1>7. QED
    BY <1>1, <1>2, <1>3, <1>4, <1>5, <1>6 DEF GuardNext

(* The antenna is silent once a link loss has been handled, for any set of  *)
(* link threads and any order of their calls (cell_config.c, lines 262-381):*)
(* the exceptions are the overlap and the lost OFF that the property names. *)
THEOREM TxOffTheorem == GuardSpec => []TxOffWhenLinkDown
<1>1. GuardInv => TxOffWhenLinkDown
    BY DEF GuardInv, OffUnderWay, TxOffWhenLinkDown, Quiet, Threads, Applying
<1>2. QED
    BY <1>1, GuardInitInv, GuardStepInv, PTL DEF GuardSpec

(* The record g_tx_on agrees with the antenna whenever no call is under     *)
(* way and none overlapped, so no link loss finds "off" recorded while the  *)
(* antenna transmits (cell_config.c, lines 281-305).                        *)
THEOREM RecordTheorem == GuardSpec => []RecordCoversAntenna
<1>1. GuardInv => RecordCoversAntenna
    BY DEF GuardInv, RecordInSync, RecordCoversAntenna, Quiet, Applying
<1>2. QED
    BY <1>1, GuardInitInv, GuardStepInv, PTL DEF GuardSpec

(* Type correctness of the guard's variables.                               *)
THEOREM GuardTypeTheorem == GuardSpec => []GuardTypeOK
<1>1. GuardInv => GuardTypeOK
    BY DEF GuardInv
<1>2. QED
    BY <1>1, GuardInitInv, GuardStepInv, PTL DEF GuardSpec
====================
