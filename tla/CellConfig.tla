---------- MODULE CellConfig ----------
(***************************************************************************)
(* Cell and frequency configuration (MsgID 195, cell_config.c): the cell   *)
(* and frequency tables of g_cell_mgr, the handlers the worker runs for    *)
(* each information element (IE), and the transmit switch they drive       *)
(* through module TxGuard.  The queue in front of the worker is module     *)
(* CellJobs; here the worker picks up any IE of the constant sets.         *)
(*                                                                         *)
(* Only the worker touches the tables, so a handler is one step up to the  *)
(* points where it waits (the mode verification) or writes the transmit    *)
(* switch; there the link threads interleave.                              *)
(***************************************************************************)
EXTENDS TxGuard, FiniteSets

CONSTANTS
    MAX_CELLS, MAX_FREQS_PER_CELL,
    CellIds, Powers, Types,   \* local_cell_id, cell_power, cell_type
    Beams,                    \* beam_id
    Bands,                    \* (dl_center_freq, ul_center_freq, beam_bandwidth)
    NoBand                    \* the antenna was not given a band yet

ASSUME CellAssumption ==
    /\ MAX_CELLS \in Nat \ {0} /\ MAX_FREQS_PER_CELL \in Nat \ {0}
    /\ NoBand \notin Bands

CellSlots == 1..MAX_CELLS
FreqSlots == 1..MAX_FREQS_PER_CELL

CellIEs == [type : {"cell"}, flag : {"establish", "reconfig", "delete", "invalid"},
            cell : CellIds, power : Powers, ctype : Types]
FreqIEs == [type : {"freq"}, flag : {"establish", "delete", "invalid"},
            cell : CellIds, beam : Beams, band : Bands]
NoIE    == [type |-> "none"]

(* A slot whose active flag is false; its other fields are never read.      *)
NoCell  == [active |-> FALSE]
NoFreq  == [active |-> FALSE]
CellRec == [active : {TRUE}, id : CellIds, power : Powers, ctype : Types,
            freq_count : 0..MAX_FREQS_PER_CELL]
FreqRec == [active : {TRUE}, beam : Beams, band : Bands, sent_to_antenna : BOOLEAN]

VARIABLES
    cells,        \* g_cell_mgr.cells
    freqs,        \* g_cell_mgr.freqs
    ie,           \* the IE the worker is handling
    worker_pc,
    result,       \* *result of the handler, part of the response
    antenna_band, \* the band the antenna works with
    delivered,    \* history: bands the antenna has ever been given
    job_fresh,    \* history: no link loss since this job was taken
    demoted       \* history: an effective record was overwritten as not sent, and
                  \* update_tx_control has not been called since

cellVars == <<cells, freqs, ie, worker_pc, result, antenna_band, delivered, job_fresh, demoted>>
vars     == <<cellVars, guardVars>>

(* Types of the tables and of the worker's state.                           *)
CellTypeOK ==
    /\ GuardTypeOK
    /\ cells \in [CellSlots -> CellRec \cup {NoCell}]
    /\ freqs \in [CellSlots -> [FreqSlots -> FreqRec \cup {NoFreq}]]
    /\ ie \in CellIEs \cup FreqIEs \cup {NoIE}
    /\ worker_pc \in {"idle", "handle", "wait", "apply", "reply"}
    /\ result \in {"SUCCESS", "FAILURE"}
    /\ antenna_band \in Bands \cup {NoBand}
    /\ delivered \in SUBSET Bands
    /\ job_fresh \in BOOLEAN /\ demoted \in BOOLEAN

Init ==
    /\ GuardInit
    /\ cells = [i \in CellSlots |-> NoCell]
    /\ freqs = [i \in CellSlots |-> [j \in FreqSlots |-> NoFreq]]
    /\ ie = NoIE /\ worker_pc = "idle" /\ result = "SUCCESS"
    /\ antenna_band = NoBand /\ delivered = {} /\ job_fresh = TRUE
    /\ demoted = FALSE

--------------------
(* Lookups: the first matching slot, as the loops of cell_config.c find it. *)
First(S) == CHOOSE i \in S : \A k \in S : i <= k

SlotsOf(c)   == {i \in CellSlots : cells[i].active /\ cells[i].id = c}
FreeCells    == {i \in CellSlots : ~cells[i].active}
BeamsOf(i, b) == {j \in FreqSlots : freqs[i][j].active /\ freqs[i][j].beam = b}
FreeFreqs(i) == {j \in FreqSlots : ~freqs[i][j].active}

(* Records of this cell whose band the antenna is believed to have.         *)
Duplicates(i, band) == {j \in FreqSlots : /\ freqs[i][j].active
                                          /\ freqs[i][j].sent_to_antenna
                                          /\ freqs[i][j].band = band}

(* has_any_freq, for given tables                                           *)
has_any_freq(cs, fs) ==
    \E i \in CellSlots : /\ cs[i].active
                         /\ \E j \in FreqSlots : fs[i][j].active /\ fs[i][j].sent_to_antenna

(* The slot a frequency is stored in: its own, or the first free one.       *)
HasRoom(i, b) == BeamsOf(i, b) # {} \/ FreeFreqs(i) # {}
SlotFor(i, b) == IF BeamsOf(i, b) # {} THEN First(BeamsOf(i, b)) ELSE First(FreeFreqs(i))

(* store_freq_info, and freq_count++ when the slot was free                 *)
StoreFreq(i, sent) ==
    LET j == SlotFor(i, ie.beam)
        f == [active |-> TRUE, beam |-> ie.beam, band |-> ie.band, sent_to_antenna |-> sent]
    IN  /\ freqs' = [freqs EXCEPT ![i][j] = f]
        /\ cells' = IF freqs[i][j].active THEN cells
                    ELSE [cells EXCEPT ![i].freq_count = @ + 1]

(* The handler is done and leaves the transmit switch alone.                *)
Answer(r) == /\ worker_pc' = "reply" /\ result' = r
             /\ UNCHANGED guardVars
Finish(r) == Answer(r) /\ UNCHANGED demoted

(* The handler ends with update_tx_control and CONFIG_RESULT_SUCCESS.       *)
FinishWithTx == /\ UpdateTxControl(has_any_freq(cells', freqs'))
                /\ worker_pc' = "apply" /\ result' = "SUCCESS"
                /\ demoted' = FALSE

--------------------
(* The worker takes the next IE of a request.                               *)
TakeIE ==
    /\ worker_pc = "idle"
    /\ ie' \in CellIEs \cup FreqIEs
    /\ worker_pc' = "handle" /\ job_fresh' = TRUE
    /\ UNCHANGED <<cells, freqs, result, antenna_band, delivered, demoted, guardVars>>

HandleCell(flag) ==
    /\ worker_pc = "handle" /\ ie.type = "cell" /\ ie.flag = flag
    /\ UNCHANGED <<ie, antenna_band, delivered, job_fresh>>

(* cell_config_apply_cell, CELL_CFG_ESTABLISH                               *)
EstablishCell ==
    /\ HandleCell("establish")
    /\ UNCHANGED freqs
    /\ IF SlotsOf(ie.cell) # {}
       THEN LET old == cells[First(SlotsOf(ie.cell))] IN
            /\ Finish(IF old.power = ie.power /\ old.ctype = ie.ctype
                      THEN "SUCCESS" ELSE "FAILURE")
            /\ UNCHANGED cells
       ELSE IF FreeCells # {}
       THEN /\ cells' = [cells EXCEPT ![First(FreeCells)] =
                            [active |-> TRUE, id |-> ie.cell, power |-> ie.power,
                             ctype |-> ie.ctype, freq_count |-> 0]]
            /\ Finish("SUCCESS")
       ELSE Finish("FAILURE") /\ UNCHANGED cells

(* CELL_CFG_RECONFIG                                                        *)
ReconfigCell ==
    /\ HandleCell("reconfig")
    /\ UNCHANGED freqs
    /\ IF SlotsOf(ie.cell) = {}
       THEN Finish("FAILURE") /\ UNCHANGED cells
       ELSE /\ cells' = [cells EXCEPT ![First(SlotsOf(ie.cell))].power = ie.power]
            /\ Finish("SUCCESS")

(* Slip of DeleteCell: the frequencies stay behind in the slot.             *)
DeleteCellOnly ==
    /\ HandleCell("delete")
    /\ UNCHANGED freqs
    /\ IF SlotsOf(ie.cell) = {}
       THEN Finish("SUCCESS") /\ UNCHANGED cells
       ELSE cells' = [cells EXCEPT ![First(SlotsOf(ie.cell))] = NoCell] /\ FinishWithTx

(* Slip of DeleteCell: the transmit switch is not brought up to date.       *)
DeleteCellQuietly ==
    /\ HandleCell("delete")
    /\ IF SlotsOf(ie.cell) = {}
       THEN Finish("SUCCESS") /\ UNCHANGED <<cells, freqs>>
       ELSE LET i == First(SlotsOf(ie.cell)) IN
            /\ freqs' = [freqs EXCEPT ![i] = [j \in FreqSlots |-> NoFreq]]
            /\ cells' = [cells EXCEPT ![i] = NoCell]
            /\ Finish("SUCCESS")

(* CELL_CFG_DELETE: the cell with its frequencies; an unknown cell is fine  *)
DeleteCell ==
    /\ HandleCell("delete")
    /\ IF SlotsOf(ie.cell) = {}
       THEN Finish("SUCCESS") /\ UNCHANGED <<cells, freqs>>
       ELSE LET i == First(SlotsOf(ie.cell)) IN
            /\ freqs' = [freqs EXCEPT ![i] = [j \in FreqSlots |-> NoFreq]]
            /\ cells' = [cells EXCEPT ![i] = NoCell]
            /\ FinishWithTx

InvalidCell ==
    HandleCell("invalid") /\ Finish("FAILURE") /\ UNCHANGED <<cells, freqs>>

--------------------
(* cell_config_apply_freq                                                   *)
HandleFreq == worker_pc = "handle" /\ ie.type = "freq"
KnownCell  == SlotsOf(ie.cell) # {}
TheCell    == First(SlotsOf(ie.cell))

(* The record of this beam is about to be overwritten as not sent.          *)
Demote == demoted' = (demoted \/ \E j \in BeamsOf(TheCell, ie.beam) : freqs[TheCell][j].sent_to_antenna)

FreqUnknownCell ==
    /\ HandleFreq /\ ~KnownCell
    /\ Finish("FAILURE")
    /\ UNCHANGED <<cells, freqs, ie, antenna_band, delivered, job_fresh>>

(* The antenna is neither in business nor in spectrum mode, or its mode is  *)
(* unknown: the frequency is kept locally, marked as not sent.              *)
FreqModeRejected ==
    /\ HandleFreq /\ KnownCell /\ ie.flag = "establish"
    /\ IF HasRoom(TheCell, ie.beam) THEN StoreFreq(TheCell, FALSE)
       ELSE UNCHANGED <<cells, freqs>>
    /\ Demote
    /\ Answer("FAILURE")
    /\ UNCHANGED <<ie, antenna_band, delivered, job_fresh>>

FreqNoSlot ==
    /\ HandleFreq /\ KnownCell /\ ie.flag = "establish"
    /\ ~HasRoom(TheCell, ie.beam)
    /\ Finish("FAILURE")
    /\ UNCHANGED <<cells, freqs, ie, antenna_band, delivered, job_fresh>>

(* A record of this cell already has the band on the antenna: skip the      *)
(* command and share its state.                                             *)
FreqDuplicate ==
    /\ HandleFreq /\ KnownCell /\ ie.flag = "establish"
    /\ HasRoom(TheCell, ie.beam) /\ Duplicates(TheCell, ie.band) # {}
    /\ StoreFreq(TheCell, TRUE)
    /\ FinishWithTx
    /\ UNCHANGED <<ie, antenna_band, delivered, job_fresh>>

(* Slip of FreqSend: the record counts as sent before the UART write.       *)
FreqSendOptimistic ==
    /\ HandleFreq /\ KnownCell /\ ie.flag = "establish"
    /\ HasRoom(TheCell, ie.beam) /\ Duplicates(TheCell, ie.band) = {}
    /\ StoreFreq(TheCell, TRUE)
    /\ \/ /\ antenna_band' = ie.band /\ delivered' = delivered \cup {ie.band}
          /\ worker_pc' = "wait"
          /\ UNCHANGED <<result, demoted, guardVars>>
       \/ Finish("FAILURE") /\ UNCHANGED <<antenna_band, delivered>>
    /\ UNCHANGED <<ie, job_fresh>>

(* fpga_send_freq_band: stored as not sent; the antenna takes the band over *)
(* and the mode verification starts, or the UART write fails.               *)
FreqSend ==
    /\ HandleFreq /\ KnownCell /\ ie.flag = "establish"
    /\ HasRoom(TheCell, ie.beam) /\ Duplicates(TheCell, ie.band) = {}
    /\ StoreFreq(TheCell, FALSE) /\ Demote
    /\ \/ /\ antenna_band' = ie.band /\ delivered' = delivered \cup {ie.band}
          /\ worker_pc' = "wait"
          /\ UNCHANGED <<result, guardVars>>
       \/ Answer("FAILURE") /\ UNCHANGED <<antenna_band, delivered>>
    /\ UNCHANGED <<ie, job_fresh>>

(* The records the code looks for again after the wait: same beam and band. *)
Relocated == IF KnownCell
             THEN {j \in FreqSlots : /\ freqs[TheCell][j].active
                                     /\ freqs[TheCell][j].beam = ie.beam
                                     /\ freqs[TheCell][j].band = ie.band}
             ELSE {}

(* wait_for_antenna_mode_cycle returned SUCCESS: the record counts as sent  *)
FreqVerified ==
    /\ worker_pc = "wait"
    /\ IF Relocated # {}
       THEN /\ freqs' = [freqs EXCEPT ![TheCell][First(Relocated)].sent_to_antenna = TRUE]
            /\ UNCHANGED cells
            /\ FinishWithTx
       ELSE Finish("FAILURE") /\ UNCHANGED <<cells, freqs>>
    /\ UNCHANGED <<ie, antenna_band, delivered, job_fresh>>

(* Slip of FreqUnverified: the timeout of the verification is a success.    *)
FreqUnverifiedAccepted ==
    /\ worker_pc = "wait"
    /\ Finish("SUCCESS")
    /\ UNCHANGED <<cells, freqs, ie, antenna_band, delivered, job_fresh>>

(* ... or it timed out, or the antenna's mode could not be read             *)
FreqUnverified ==
    /\ worker_pc = "wait"
    /\ Finish("FAILURE")
    /\ UNCHANGED <<cells, freqs, ie, antenna_band, delivered, job_fresh>>

(* FREQ_CFG_DELETE                                                          *)
FreqDelete ==
    /\ HandleFreq /\ KnownCell /\ ie.flag = "delete"
    /\ IF BeamsOf(TheCell, ie.beam) = {}
       THEN Finish("SUCCESS") /\ UNCHANGED <<cells, freqs>>
       ELSE /\ freqs' = [freqs EXCEPT ![TheCell][First(BeamsOf(TheCell, ie.beam))] = NoFreq]
            /\ cells' = [cells EXCEPT ![TheCell].freq_count = @ - 1]
            /\ FinishWithTx
    /\ UNCHANGED <<ie, antenna_band, delivered, job_fresh>>

FreqInvalid ==
    /\ HandleFreq /\ KnownCell /\ ie.flag = "invalid"
    /\ Finish("FAILURE")
    /\ UNCHANGED <<cells, freqs, ie, antenna_band, delivered, job_fresh>>

--------------------
(* The transmit command of update_tx_control, then the response             *)
ApplyTx ==
    /\ worker_pc = "apply"
    /\ \/ (ApplySend(Worker) \/ ApplyRecord(Worker)) /\ UNCHANGED worker_pc
       \/ ~Applying(Worker) /\ worker_pc' = "reply" /\ UNCHANGED guardVars
    /\ UNCHANGED <<cells, freqs, ie, result, antenna_band, delivered, job_fresh, demoted>>

Reply ==
    /\ worker_pc = "reply"
    /\ worker_pc' = "idle" /\ ie' = NoIE /\ result' = "SUCCESS" /\ job_fresh' = TRUE
    /\ UNCHANGED <<cells, freqs, antenna_band, delivered, demoted, guardVars>>

(* The link threads (module BbuLink)                                        *)
LinkUp(t)   == NotifyUp(t) /\ UNCHANGED cellVars
LinkDown(t) == /\ NotifyDown(t)
               /\ job_fresh' = (job_fresh /\ (worker_pc = "idle" \/ ~g_bbu_link_ok))
               /\ UNCHANGED <<cells, freqs, ie, worker_pc, result, antenna_band, delivered, demoted>>
LinkApply(t) == (ApplySend(t) \/ ApplyRecord(t)) /\ UNCHANGED cellVars

Work ==
    \/ EstablishCell \/ ReconfigCell \/ DeleteCell \/ InvalidCell
    \/ FreqUnknownCell \/ FreqModeRejected \/ FreqNoSlot \/ FreqDuplicate \/ FreqSend
    \/ FreqVerified \/ FreqUnverified \/ FreqDelete \/ FreqInvalid
    \/ ApplyTx \/ Reply

Next ==
    \/ TakeIE \/ Work
    \/ \E t \in Notifiers : LinkUp(t) \/ LinkDown(t) \/ LinkApply(t)

Spec == Init /\ [][Next]_vars

--------------------
(* The tables stay consistent over any sequence of establish, reconfigure   *)
(* and delete: no cell or beam is stored twice, freq_count counts the       *)
(* active records (it is incremented and decremented in three places), and  *)
(* a free cell slot holds no frequency its next owner would inherit.        *)
UniqueCells == \A i, k \in CellSlots : cells[i].active /\ cells[k].active /\ cells[i].id = cells[k].id => i = k
UniqueBeams == \A i \in CellSlots : \A j, k \in FreqSlots :
                  freqs[i][j].active /\ freqs[i][k].active /\ freqs[i][j].beam = freqs[i][k].beam => j = k
CountExact  == \A i \in CellSlots : cells[i].active =>
                  cells[i].freq_count = Cardinality({j \in FreqSlots : freqs[i][j].active})
NoOrphans   == \A i \in CellSlots : ~cells[i].active => \A j \in FreqSlots : freqs[i][j] = NoFreq
TablesConsistent == UniqueCells /\ UniqueBeams /\ CountExact /\ NoOrphans

(* A record counts as effective only if the antenna was once given its band *)
(* (the "zombie records" of cell_config.c, lines 242-244 and 776-781, do    *)
(* not exist).                                                              *)
SentWasDelivered ==
    \A i \in CellSlots, j \in FreqSlots :
        freqs[i][j].active /\ freqs[i][j].sent_to_antenna => freqs[i][j].band \in delivered

(* The response tells the BBU the truth: an establish succeeds exactly when *)
(* its frequency is stored as effective, on whichever path the handler took.*)
ReplyTruthful ==
    worker_pc = "reply" /\ ie.type = "freq" /\ ie.flag = "establish" =>
        (result = "SUCCESS" <=> \E i \in SlotsOf(ie.cell) : \E j \in FreqSlots :
                                    /\ freqs[i][j].active /\ freqs[i][j].sent_to_antenna
                                    /\ freqs[i][j].beam = ie.beam /\ freqs[i][j].band = ie.band)

(* The transmitter is on only while an effective frequency exists (the      *)
(* first condition of lines 262-266), over every order of the handlers, the *)
(* link events and failing writes, unless an establish that then failed     *)
(* overwrote an effective record: that path ends without update_tx_control. *)
TxNeedsFreq ==
    worker_pc = "idle" /\ Quiet /\ ~raced /\ ~off_failed /\ antenna_tx
        => has_any_freq(cells, freqs) \/ demoted

--------------------
(* What the comments of cell_config.c claim and the code does not keep      *)

(* Lines 262-266 without the exception for a failed establish.              *)
TxOnlyWithFreq ==
    worker_pc = "idle" /\ Quiet /\ ~raced /\ ~off_failed /\ antenna_tx
        => has_any_freq(cells, freqs)

(* Lines 927-930: a duplicate in the table means that the antenna works     *)
(* with that band now.                                                      *)
DuplicateIsCurrent ==
    [][FreqDuplicate => antenna_band = ie.band]_vars

(* Lines 317-321: a job that was queued before a link loss does not switch  *)
(* the transmitter on after it.                                             *)
StaleJobStaysOff ==
    [][~Applying(Worker) /\ apply'[Worker].step = "send" /\ apply'[Worker].on => job_fresh]_vars
====================
