---------- MODULE FirmwareInjector ----------
(***************************************************************************)
(* Injection of a firmware file into the FPGA over RS-422                  *)
(* (fpga_firmware_injector.c, uart_rs422_client.c): the state machine of   *)
(* the injection thread, its strictly serial transactions "discard what is *)
(* left, send one command, wait for one reply or the timeout", the FPGA as *)
(* environment, and the cleanup in the main thread.                        *)
(*                                                                         *)
(* Replies carry a result but no sequence number, so a reply belongs to a  *)
(* command only by its time of arrival.  A reply first exists on the wire  *)
(* (or inside a slow FPGA), then in the host's buffers; discard_pending    *)
(* empties the latter only.                                                *)
(***************************************************************************)
EXTENDS Integers, Sequences, SequencesExt

CONSTANTS
    FPGA_SEGMENT_SIZE, FPGA_PACKET_SIZE, FPGA_MAX_PACKET_RETRIES,
    FileSizes,        \* sizes of the firmware files to inject
    MaxPolls,         \* bound on polls before the start or reconfig timeout
    MaxInjections,    \* bound on the activations the BBU sends
    MaxCrossings      \* bound on commands sent while an earlier one or its reply is under
                      \* way, in the first injection; one fewer in each later one

ASSUME InjectorAssumption ==
    /\ FPGA_SEGMENT_SIZE \in Nat \ {0} /\ FPGA_PACKET_SIZE \in Nat \ {0}
    /\ FPGA_MAX_PACKET_RETRIES \in Nat \ {0}
    /\ FileSizes \subseteq Nat \ {0}
    /\ MaxPolls \in Nat /\ MaxInjections \in Nat /\ MaxCrossings \in Nat

VARIABLES
    state, in_progress, abort_requested,
    file_size,                   \* metadata.file_size
    current_segment, current_packet_in_segment, total_packets_in_segment,
    retry_count,
    bin_pos,                     \* read position of bin_fp
    polls,                       \* replies waited for in this polling state
    thread,                      \* where the injection thread is
    expected_cmd,                \* the reply uart_rs422_send_and_wait waits for
    inbox, replies, rbuf,        \* commands at the FPGA; replies under way; replies received
    fpga_got,                    \* (position, byte of the file) pairs the FPGA accepted
    injections,
    crossed,                     \* history: this injection's commands that met an earlier one
    late,                        \* history: an activation came after the cleanup had begun
    cleanup_pc, thread_handle, mutex_alive

taskVars  == <<current_segment, current_packet_in_segment, total_packets_in_segment,
               retry_count, bin_pos>>
wireVars  == <<inbox, replies, rbuf, fpga_got, crossed>>
cleanVars == <<cleanup_pc, thread_handle, mutex_alive>>
injectorVars == <<state, in_progress, abort_requested, file_size, taskVars, polls, thread,
                  expected_cmd, wireVars, injections, late, cleanVars>>

States == {"IDLE", "PARSING_METADATA", "TRANSFER_START", "TRANSFER_DATA", "TRANSFER_END",
           "RECONFIG_START", "RECONFIG_POLLING", "COMPLETED", "FAILED"}

total_segments == (file_size + FPGA_SEGMENT_SIZE - 1) \div FPGA_SEGMENT_SIZE

(* The size of the current segment and of the current packet, as            *)
(* handle_transfer_data computes them                                       *)
SegmentSize == IF current_segment = total_segments - 1
               THEN file_size - current_segment * FPGA_SEGMENT_SIZE
               ELSE FPGA_SEGMENT_SIZE
PacketSize(n) ==  \* n: packets in the segment
    LET remaining == SegmentSize - current_packet_in_segment * FPGA_PACKET_SIZE
    IN  IF current_packet_in_segment = n - 1 /\ remaining < FPGA_PACKET_SIZE
        THEN remaining ELSE FPGA_PACKET_SIZE

InjectorInit ==
    /\ state = "IDLE" /\ in_progress = FALSE /\ abort_requested = FALSE
    /\ file_size = 0
    /\ current_segment = 0 /\ current_packet_in_segment = 0 /\ total_packets_in_segment = 0
    /\ retry_count = 0 /\ bin_pos = 0 /\ polls = 0
    /\ thread = "none" /\ expected_cmd = "none"
    /\ inbox = <<>> /\ replies = <<>> /\ rbuf = <<>> /\ fpga_got = {}
    /\ injections = 0 /\ crossed = 0 /\ late = FALSE
    /\ cleanup_pc = "no" /\ thread_handle = 0 /\ mutex_alive = TRUE

--------------------
(* fpga_firmware_injection_start, in the TCP receive thread, which lives on *)
(* while main cleans up; pthread_create may fail.                           *)
Start ==
    /\ ~in_progress /\ injections < MaxInjections
    /\ mutex_alive
    /\ file_size' \in FileSizes
    /\ state' = "PARSING_METADATA" /\ abort_requested' = FALSE
    /\ current_segment' = 0 /\ retry_count' = 0
    /\ \/ in_progress' = TRUE /\ thread' = "notify" /\ thread_handle' = 1
       \/ UNCHANGED <<in_progress, thread, thread_handle>>
    /\ injections' = injections + 1
    /\ crossed' = 0 /\ late' = (late \/ cleanup_pc # "no")
    /\ UNCHANGED <<current_packet_in_segment, total_packets_in_segment, bin_pos, polls,
                   expected_cmd, inbox, replies, rbuf, fpga_got, cleanup_pc, mutex_alive>>

(* send_upload_notify(PRE): a frame without reply                           *)
NotifyPre ==
    /\ thread = "notify"
    /\ thread' = "loop"
    /\ UNCHANGED <<state, in_progress, abort_requested, file_size, taskVars, polls,
                   expected_cmd, wireVars, injections, late, cleanVars>>

(* The reply each command has (rs422_protocol.h)                            *)
ReplyCmd == [start |-> "start_ack", data |-> "data_ack", end |-> "end_ack",
             query |-> "reconfig_ack", abort |-> "abort_ack"]

(* A command is sent: does an earlier one, or its reply, meet it?           *)
Crossing ==
    \/ inbox = <<>> /\ replies = <<>> /\ UNCHANGED crossed
    \/ /\ inbox # <<>> \/ replies # <<>>
       /\ crossed' = crossed + 1 /\ crossed + injections <= MaxCrossings

(* Slip of Transact: replies left over from an earlier command stay.        *)
TransactUndiscarded(frame) ==
    /\ Crossing
    /\ inbox' \in {inbox, Append(inbox, frame)}
    /\ expected_cmd' = ReplyCmd[frame.cmd] /\ thread' = "wait"
    /\ UNCHANGED <<replies, rbuf, fpga_got>>

(* uart_rs422_send_and_wait begins: uart_rs422_discard_pending, the write,  *)
(* the wait.  A frame the UART or the cable loses ends in a failure as a    *)
(* timeout does.                                                            *)
Transact(frame) ==
    /\ Crossing
    /\ rbuf' = <<>>
    /\ inbox' \in {inbox, Append(inbox, frame)}
    /\ expected_cmd' = ReplyCmd[frame.cmd] /\ thread' = "wait"
    /\ UNCHANGED <<replies, fpga_got>>

At(s) == thread = "loop" /\ ~abort_requested /\ state = s
Enter(s) == state' = s /\ thread' = "loop"

(* firmware_parse_metadata, firmware_verify_integrity, the file's CRC       *)
ParseMetadata ==
    /\ At("PARSING_METADATA")
    /\ Enter("TRANSFER_START") \/ Enter("FAILED")
    /\ polls' = 0
    /\ UNCHANGED <<in_progress, abort_requested, file_size, taskVars, expected_cmd,
                   wireVars, injections, late, cleanVars>>

(* handle_transfer_start: poll until READY, an abort, or 5 minutes.  Time   *)
(* is abstract: the limit may pass after any poll, and has passed after     *)
(* MaxPolls of them.                                                        *)
SendStart ==
    /\ thread = "loop" /\ state = "TRANSFER_START"
    /\ \/ /\ abort_requested \/ polls > 0
          /\ Enter("FAILED") /\ UNCHANGED <<wireVars, expected_cmd>>
       \/ /\ ~abort_requested /\ polls <= MaxPolls
          /\ Transact([cmd |-> "start"]) /\ UNCHANGED state
    /\ UNCHANGED <<in_progress, abort_requested, file_size, taskVars, polls, injections, late, cleanVars>>

(* Slip of SendData: a repetition reads on where the first try stopped.     *)
SendDataNoSeek ==
    /\ At("TRANSFER_DATA")
    /\ UNCHANGED <<in_progress, abort_requested, file_size, polls, injections, late, cleanVars>>
    /\ IF current_segment >= total_segments
       THEN Enter("TRANSFER_END") /\ UNCHANGED <<taskVars, wireVars, expected_cmd>>
       ELSE LET n == (SegmentSize + FPGA_PACKET_SIZE - 1) \div FPGA_PACKET_SIZE
            IN  /\ total_packets_in_segment' = n
                /\ IF current_packet_in_segment >= n
                   THEN /\ current_segment' = current_segment + 1
                        /\ current_packet_in_segment' = 0 /\ retry_count' = 0
                        /\ UNCHANGED <<state, thread, bin_pos, wireVars, expected_cmd>>
                   ELSE /\ bin_pos' = bin_pos + PacketSize(n)
                        /\ Transact([cmd |-> "data", seg |-> current_segment,
                                     pkt |-> current_packet_in_segment,
                                     from |-> bin_pos, len |-> PacketSize(n)])
                        /\ UNCHANGED <<state, current_segment, current_packet_in_segment,
                                       retry_count>>

(* handle_transfer_data: the next segment, the next packet or the end.  The *)
(* file is positioned at a segment's start and before a repetition.         *)
SendData ==
    /\ At("TRANSFER_DATA")
    /\ UNCHANGED <<in_progress, abort_requested, file_size, polls, injections, late, cleanVars>>
    /\ IF current_segment >= total_segments
       THEN Enter("TRANSFER_END") /\ UNCHANGED <<taskVars, wireVars, expected_cmd>>
       ELSE LET n == IF current_packet_in_segment = 0
                     THEN (SegmentSize + FPGA_PACKET_SIZE - 1) \div FPGA_PACKET_SIZE
                     ELSE total_packets_in_segment
                offset == current_segment * FPGA_SEGMENT_SIZE
                pos == IF retry_count > 0
                       THEN offset + current_packet_in_segment * FPGA_PACKET_SIZE
                       ELSE IF current_packet_in_segment = 0 THEN offset ELSE bin_pos
            IN  /\ total_packets_in_segment' = n
                /\ IF current_packet_in_segment >= n
                   THEN /\ current_segment' = current_segment + 1
                        /\ current_packet_in_segment' = 0 /\ retry_count' = 0
                        /\ UNCHANGED <<state, thread, bin_pos, wireVars, expected_cmd>>
                   ELSE /\ bin_pos' = pos + PacketSize(n)
                        /\ Transact([cmd |-> "data", seg |-> current_segment,
                                     pkt |-> current_packet_in_segment,
                                     from |-> pos, len |-> PacketSize(n)])
                        /\ UNCHANGED <<state, current_segment, current_packet_in_segment,
                                       retry_count>>

(* fseek or fread fails                                                     *)
ReadFails ==
    /\ At("TRANSFER_DATA") /\ current_segment < total_segments
    /\ Enter("FAILED")
    /\ UNCHANGED <<in_progress, abort_requested, file_size, taskVars, polls, expected_cmd,
                   wireVars, injections, late, cleanVars>>

SendEnd ==
    /\ At("TRANSFER_END")
    /\ Transact([cmd |-> "end"])
    /\ UNCHANGED <<state, in_progress, abort_requested, file_size, taskVars, polls,
                   injections, late, cleanVars>>

(* handle_reconfig_start: no reply is awaited                               *)
SendReconfig ==
    /\ At("RECONFIG_START")
    /\ Enter("RECONFIG_POLLING") \/ Enter("FAILED")
    /\ polls' = 0
    /\ UNCHANGED <<in_progress, abort_requested, file_size, taskVars, expected_cmd,
                   wireVars, injections, late, cleanVars>>

(* handle_reconfig_polling: at most 10 minutes, abstracted likewise         *)
SendQuery ==
    /\ At("RECONFIG_POLLING")
    /\ \/ polls > 0 /\ Enter("FAILED") /\ UNCHANGED <<wireVars, expected_cmd>>
       \/ polls <= MaxPolls /\ Transact([cmd |-> "query"]) /\ UNCHANGED state
    /\ UNCHANGED <<in_progress, abort_requested, file_size, taskVars, polls, injections, late, cleanVars>>

--------------------
(* The end of a transaction.  uart_rs422_recv_frame hands over the last of  *)
(* the frames that have arrived; another command's reply is an error.       *)
Outcome(r) == IF r.cmd = expected_cmd THEN r.result ELSE "error"

(* Slip of PollAgain: every poll counts as activity, so no time limit runs. *)
PollAgainForever == thread' = "loop" /\ UNCHANGED <<state, polls, taskVars>>

PollAgain == polls' = polls + 1 /\ thread' = "loop" /\ UNCHANGED <<state, taskVars>>
GiveUp    == Enter("FAILED") /\ UNCHANGED <<polls, taskVars>>

(* READY: open the file, which may fail, and wait 20 s for the erasure; an  *)
(* abort during the wait fails the injection.                               *)
AfterStart(o) ==
    \/ o \in {"error", "busy"} /\ PollAgain
    \/ o = "ok" /\ ~abort_requested
       /\ Enter("TRANSFER_DATA")
       /\ current_segment' = 0 /\ current_packet_in_segment' = 0 /\ retry_count' = 0
       /\ bin_pos' = 0
       /\ UNCHANGED <<polls, total_packets_in_segment>>
    \/ o \in {"ok", "bad"} /\ GiveUp

(* A failed packet is repeated; the last failure ends in send_transfer_abort*)
AfterData(o) ==
    \/ /\ o = "ok"
       /\ current_packet_in_segment' = current_packet_in_segment + 1 /\ retry_count' = 0
       /\ thread' = "loop"
       /\ UNCHANGED <<state, polls, current_segment, total_packets_in_segment, bin_pos>>
    \/ /\ o # "ok"
       /\ retry_count' = retry_count + 1
       /\ thread' = IF retry_count + 1 >= FPGA_MAX_PACKET_RETRIES THEN "abort" ELSE "loop"
       /\ UNCHANGED <<state, polls, current_segment, current_packet_in_segment,
                      total_packets_in_segment, bin_pos>>

AfterEnd(o) ==
    \/ o = "ok" /\ Enter("RECONFIG_START") /\ UNCHANGED <<polls, taskVars>>
    \/ o = "bad" /\ thread' = "abort" /\ UNCHANGED <<state, polls, taskVars>>
    \/ o \in {"error", "busy"} /\ GiveUp

AfterQuery(o) ==
    \/ o = "ok" /\ Enter("COMPLETED") /\ UNCHANGED <<polls, taskVars>>
    \/ o \in {"error", "busy"} /\ PollAgain
    \/ o = "bad" /\ GiveUp

After(o) ==
    \/ expected_cmd = "start_ack" /\ AfterStart(o)
    \/ expected_cmd = "data_ack" /\ AfterData(o)
    \/ expected_cmd = "end_ack" /\ AfterEnd(o)
    \/ expected_cmd = "reconfig_ack" /\ AfterQuery(o)
    \/ expected_cmd = "abort_ack" /\ GiveUp

RecvReply ==
    /\ thread = "wait" /\ rbuf # <<>>
    /\ After(Outcome(Last(rbuf)))
    /\ rbuf' = <<>>
    /\ UNCHANGED <<in_progress, abort_requested, file_size, expected_cmd,
                   inbox, replies, fpga_got, crossed, injections, late, cleanVars>>

RecvTimeout ==
    /\ thread = "wait"
    /\ After("error")
    /\ UNCHANGED <<in_progress, abort_requested, file_size, expected_cmd, wireVars,
                   injections, late, cleanVars>>

(* send_transfer_abort sends the frame once by itself, and unless that      *)
(* fails once more as a transaction; whatever comes back, the injection has *)
(* failed.                                                                  *)
SendAbort ==
    /\ thread = "abort"
    /\ LET a == [cmd |-> "abort"]
       IN  \/ /\ Crossing
              /\ rbuf' = <<>>
              /\ inbox' \in {inbox, Append(inbox, a), inbox \o <<a, a>>}
              /\ expected_cmd' = ReplyCmd["abort"] /\ thread' = "wait"
              /\ UNCHANGED <<state, replies, fpga_got>>
           \/ Enter("FAILED") /\ UNCHANGED <<expected_cmd, wireVars>>
    /\ UNCHANGED <<in_progress, abort_requested, file_size, taskVars, polls,
                   injections, late, cleanVars>>

(* exit_thread: the second notification, the file, in_progress = false      *)
ThreadExit ==
    /\ thread = "loop"
    /\ \/ state \in {"COMPLETED", "FAILED"}
       \/ abort_requested /\ ~(state = "TRANSFER_START" /\ polls > 0)
    /\ thread' = "none" /\ in_progress' = FALSE
    /\ UNCHANGED <<state, abort_requested, file_size, taskVars, polls, expected_cmd,
                   wireVars, injections, late, cleanVars>>

--------------------
(* The FPGA (external): it handles commands in order, may be slow, may      *)
(* refuse, and its replies may be lost.  Accepting a start erases what it   *)
(* had; an accepted packet goes to the place its segment and packet numbers *)
(* say.                                                                     *)
BytesOf(f) == {<<f.seg * FPGA_SEGMENT_SIZE + f.pkt * FPGA_PACKET_SIZE + k, f.from + k>> :
                k \in 0 .. f.len - 1}

FpgaHandle ==
    /\ inbox # <<>>
    /\ inbox' = Tail(inbox)
    /\ LET f == Head(inbox)
       IN  \E r \in {"ok", "busy", "bad"} :
              /\ r = "busy" => f.cmd \in {"start", "query"}
              /\ replies' \in {replies, Append(replies, [cmd |-> ReplyCmd[f.cmd], result |-> r])}
              /\ fpga_got' = CASE f.cmd = "data" /\ r = "ok" -> fpga_got \cup BytesOf(f)
                               [] f.cmd = "start" /\ r = "ok" -> {}
                               [] OTHER -> fpga_got
    /\ UNCHANGED <<state, in_progress, abort_requested, file_size, taskVars, polls, thread,
                   expected_cmd, rbuf, crossed, injections, late, cleanVars>>

ReplyArrives ==
    /\ replies # <<>>
    /\ rbuf' = Append(rbuf, Head(replies)) /\ replies' = Tail(replies)
    /\ UNCHANGED <<state, in_progress, abort_requested, file_size, taskVars, polls, thread,
                   expected_cmd, inbox, fpga_got, crossed, injections, late, cleanVars>>

--------------------
(* fpga_firmware_injection_cleanup in the main thread: abort, wait at most  *)
(* 3 s, join only a thread that has left, else skip the destruction.  The   *)
(* receive thread may activate a firmware at any moment of it.              *)
CleanupBegin ==
    /\ cleanup_pc = "no"
    /\ IF thread_handle # 0
       THEN cleanup_pc' = "wait" /\ abort_requested' = TRUE
       ELSE cleanup_pc' = "destroy" /\ UNCHANGED abort_requested
    /\ UNCHANGED <<state, in_progress, file_size, taskVars, polls, thread, expected_cmd,
                   wireVars, injections, late, thread_handle, mutex_alive>>

(* Slip of CleanupPoll: after the wait everything is destroyed anyway.      *)
CleanupPollImpatient ==
    /\ cleanup_pc = "wait"
    /\ cleanup_pc' = IF in_progress THEN "skipped" ELSE "join"
    /\ mutex_alive' = ~in_progress
    /\ UNCHANGED <<state, in_progress, abort_requested, file_size, taskVars, polls, thread,
                   expected_cmd, wireVars, injections, late, thread_handle>>

CleanupPoll ==
    /\ cleanup_pc = "wait"
    /\ cleanup_pc' = IF in_progress THEN "skipped" ELSE "join"
    /\ UNCHANGED <<state, in_progress, abort_requested, file_size, taskVars, polls, thread,
                   expected_cmd, wireVars, injections, late, thread_handle, mutex_alive>>

(* The join of the thread that has left.  A thread activated since then is  *)
(* waited for only if it came before pthread_join read the handle.          *)
CleanupJoin ==
    /\ cleanup_pc = "join" /\ (thread = "none" \/ late)
    /\ cleanup_pc' = "destroy" /\ thread_handle' = 0
    /\ UNCHANGED <<state, in_progress, abort_requested, file_size, taskVars, polls, thread,
                   expected_cmd, wireVars, injections, late, mutex_alive>>

CleanupDestroy ==
    /\ cleanup_pc = "destroy"
    /\ cleanup_pc' = "done" /\ mutex_alive' = FALSE
    /\ UNCHANGED <<state, in_progress, abort_requested, file_size, taskVars, polls, thread,
                   expected_cmd, wireVars, injections, late, thread_handle>>

ThreadStep ==
    \/ NotifyPre \/ ParseMetadata \/ SendStart \/ SendData \/ ReadFails \/ SendEnd
    \/ SendReconfig \/ SendQuery \/ RecvReply \/ RecvTimeout \/ SendAbort \/ ThreadExit
Cleanup == CleanupBegin \/ CleanupPoll \/ CleanupJoin \/ CleanupDestroy

InjectorNext == Start \/ ThreadStep \/ FpgaHandle \/ ReplyArrives \/ Cleanup

InjectorSpec     == InjectorInit /\ [][InjectorNext]_injectorVars
(* The thread runs; what reached the FPGA is handled and read in the end.   *)
InjectorFairSpec == InjectorSpec /\ WF_injectorVars(ThreadStep) /\ WF_injectorVars(FpgaHandle) /\ WF_injectorVars(ReplyArrives)

--------------------
(* Types: segment, packet and retry counters stay within the file's layout  *)
(* and the retry limit.                                                     *)
InjectorTypeOK ==
    /\ state \in States
    /\ {in_progress, abort_requested, mutex_alive} \subseteq BOOLEAN
    /\ file_size \in FileSizes \cup {0}
    /\ current_segment \in 0 .. total_segments /\ retry_count \in 0 .. FPGA_MAX_PACKET_RETRIES
    /\ current_packet_in_segment \in 0 .. total_packets_in_segment
    /\ polls \in 0 .. MaxPolls + 1
    /\ thread \in {"none", "notify", "loop", "wait", "abort"}
    /\ cleanup_pc \in {"no", "wait", "join", "skipped", "destroy", "done"} /\ thread_handle \in {0, 1}

(* Every packet under way to the FPGA carries the bytes of the file that    *)
(* belong at the place its segment and packet numbers name, after any       *)
(* number of repetitions and segment changes (handle_transfer_data).        *)
DataInPlace ==
    \A i \in 1 .. Len(inbox) : inbox[i].cmd = "data" =>
        inbox[i].from = inbox[i].seg * FPGA_SEGMENT_SIZE + inbox[i].pkt * FPGA_PACKET_SIZE

(* The host ends the transfer, and later lets the FPGA reconfigure itself,  *)
(* only when the FPGA has accepted every byte of the file, each in its      *)
(* place, unless a command of this injection met an earlier one that timed  *)
(* out and was, or had its reply, still under way: then that reply may be   *)
(* taken for its own.                                                       *)
EverythingDelivered ==
    state \in {"TRANSFER_END", "RECONFIG_START", "RECONFIG_POLLING", "COMPLETED"} =>
        fpga_got = {<<k, k>> : k \in 0 .. file_size - 1} \/ crossed > 0

(* cleanup destroys the mutex, and main then closes the RS-422 port, only   *)
(* when no injection thread is left to use them, unless the BBU activated a *)
(* firmware after the cleanup had begun.                                    *)
CleanupSafe == ~mutex_alive => thread = "none" \/ late

(* An injection ends, whatever the FPGA answers or fails to answer.         *)
InjectionEnds == in_progress ~> ~in_progress

(* send_and_wait: the reply it returns answers its own command, as the      *)
(* comment at uart_rs422_client.c:466 wants.                                *)
AlwaysDelivered ==
    state \in {"TRANSFER_END", "RECONFIG_START", "RECONFIG_POLLING", "COMPLETED"} =>
        fpga_got = {<<k, k>> : k \in 0 .. file_size - 1}

(* cleanup joins a thread only once it has left ("确认退出后才 join"); an   *)
(* activation between the wait and the join breaks it.                      *)
JoinsExitedThread == cleanup_pc = "join" => ~in_progress
====================
