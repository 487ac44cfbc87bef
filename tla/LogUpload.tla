---------- MODULE LogUpload ----------
(***************************************************************************)
(* The upload of the logs on request of the BBU (log_upload.c), composed   *)
(* with the telemetry log whose file it copies.  The TCP receive thread    *)
(* takes a request, a detached thread packs the text log and a snapshot of *)
(* the telemetry log, uploads the package and reports the result.  There   *)
(* is one global task; g_upload_in_progress protects it.  A request is     *)
(* named by its serial number, which stands for the store path as well.    *)
(***************************************************************************)
EXTENDS TelemetryLog

CONSTANTS Serials          \* serial numbers, which the BBU uses in order

ASSUME SerialAssumption == Serials \subseteq Nat

VARIABLES
    g_upload_in_progress, g_upload_stopping,
    task,                  \* g_upload_task: the request it holds
    recv,                  \* the receive thread inside log_upload_handle_request
    thread,                \* serial -> where its upload thread is
    result, snapshot,      \* locals of the upload thread: serial -> value
    uploaded,              \* files on the FTP server: [path, content]
    to_bbu                 \* messages 132 and 133 handed to tcp_client_send, whose
                           \* result nobody looks at

upVars == <<g_upload_in_progress, g_upload_stopping, task, recv, thread, result,
            snapshot, uploaded, to_bbu>>
logVars == <<telVars, upVars>>

NoTask  == 0
NoSnap  == <<Torn>>        \* no telemetry in the package

UpInit ==
    /\ g_upload_in_progress = FALSE /\ g_upload_stopping = FALSE
    /\ task = NoTask /\ recv = [at |-> "idle", serial |-> NoTask]
    /\ thread = [s \in Serials |-> "none"]
    /\ result = [s \in Serials |-> "SUCCESS"] /\ snapshot = [s \in Serials |-> NoSnap]
    /\ uploaded = {} /\ to_bbu = <<>>

LogInit == TelInit /\ UpInit

Ack(s, r)    == [msg |-> "ack", serial |-> s, result |-> r]
Result(s, r) == [msg |-> "result", serial |-> s, result |-> r]
Used         == {to_bbu[i].serial : i \in DOMAIN to_bbu}
New(s)       == s \notin Used /\ \A t \in Serials : t < s => t \in Used

--------------------
(* log_upload_handle_request.  The receive thread is gone once main() has   *)
(* stopped the TCP client.                                                  *)
CanReceive == recv.at = "idle" /\ main # "tcp_destroyed"

Reject(s) ==
    /\ CanReceive /\ New(s)
    /\ to_bbu' = Append(to_bbu, Ack(s, "REJECT"))
    /\ UNCHANGED <<telVars, g_upload_in_progress, g_upload_stopping, task, recv, thread,
                   result, snapshot, uploaded>>

RejectBusy(s) == g_upload_in_progress /\ Reject(s)

(* Too short or an unsafe path: the gate was closed and is opened again     *)
(* before the answer.                                                       *)
RejectInvalid(s) == ~g_upload_in_progress /\ Reject(s)

(* Slip of AcceptRequest: the gate is tested but not closed.                *)
AcceptUngated(s) ==
    /\ CanReceive /\ New(s) /\ ~g_upload_in_progress
    /\ task' = s /\ recv' = [at |-> "create", serial |-> s]
    /\ to_bbu' = Append(to_bbu, Ack(s, "ACCEPT"))
    /\ UNCHANGED <<telVars, g_upload_in_progress, g_upload_stopping, thread, result,
                   snapshot, uploaded>>

(* The acknowledgement always fits its buffer, so the branch for one that   *)
(* cannot be encoded is never taken.                                        *)
AcceptRequest(s) ==
    /\ CanReceive /\ New(s) /\ ~g_upload_in_progress
    /\ g_upload_in_progress' = TRUE
    /\ task' = s /\ recv' = [at |-> "create", serial |-> s]
    /\ to_bbu' = Append(to_bbu, Ack(s, "ACCEPT"))
    /\ UNCHANGED <<telVars, g_upload_stopping, thread, result, snapshot, uploaded>>

CreateThread ==
    /\ recv.at = "create"
    /\ thread' = [thread EXCEPT ![recv.serial] = "stat"]
    /\ recv' = [recv EXCEPT !.at = "idle"]
    /\ UNCHANGED <<telVars, g_upload_in_progress, g_upload_stopping, task, result, snapshot,
                   uploaded, to_bbu>>

(* pthread_create fails: the gate is opened first ...                       *)
CreateFails ==
    /\ recv.at = "create"
    /\ g_upload_in_progress' = FALSE
    /\ recv' = [recv EXCEPT !.at = "failed"]
    /\ UNCHANGED <<telVars, g_upload_stopping, task, thread, result, snapshot, uploaded, to_bbu>>

(* ... and then the failure is reported.                                    *)
ReportFailed ==
    /\ recv.at = "failed"
    /\ recv' = [recv EXCEPT !.at = "idle"]
    /\ to_bbu' = Append(to_bbu, Result(recv.serial, "FAILED"))
    /\ UNCHANGED <<telVars, g_upload_in_progress, g_upload_stopping, task, thread, result,
                   snapshot, uploaded>>

--------------------
(* The upload thread.  r is the result when the step fails.                 *)
Go(s, from, to) == thread[s] = from /\ thread' = [thread EXCEPT ![s] = to]
GiveUp(s, r)    == result' = [result EXCEPT ![s] = r]
upRest == <<g_upload_in_progress, g_upload_stopping, task, recv, uploaded, to_bbu>>

(* The text log must exist and be copied.                                   *)
CopyText(s) ==
    /\ \/ Go(s, "stat", "snapshot") /\ UNCHANGED result
       \/ \E r \in {"FILE_NOT_EXIST", "FAILED"} : Go(s, "stat", "send") /\ GiveUp(s, r)
    /\ UNCHANGED <<telVars, snapshot, upRest>>

(* The telemetry log is optional: it is left out when stat, which takes no  *)
(* lock, finds no data ...                                                  *)
StatTelemetry(s) ==
    /\ Go(s, "snapshot", IF file = <<>> THEN "pack" ELSE "copy")
    /\ UNCHANGED <<telVars, result, snapshot, upRest>>

(* Slip of TelemetrySnapshot: the file is copied with cp, without the lock. *)
TelemetrySnapshotUnlocked(s) ==
    /\ Go(s, "copy", "pack")
    /\ snapshot' = IF open THEN [snapshot EXCEPT ![s] = file] ELSE snapshot
    /\ UNCHANGED <<telVars, result, upRest>>

(* ... or when telemetry_log_snapshot fails: it flushes, without looking at *)
(* the result, and copies the file as it is by then, under the file mutex.  *)
TelemetrySnapshot(s) ==
    /\ ~file_locked /\ Go(s, "copy", "pack")
    /\ \/ ~open /\ UNCHANGED <<file, cache, snapshot, failures>>
       \/ /\ open
          /\ \E flushed, copied \in BOOLEAN :
                /\ Failing(Cost(flushed) + Cost(copied))
                /\ file' = IF flushed THEN file \o cache ELSE file
                /\ cache' = IF flushed THEN <<>> ELSE cache
                /\ snapshot' = IF copied THEN [snapshot EXCEPT ![s] = file'] ELSE snapshot
    /\ UNCHANGED <<queueVars, pollVars, writer, slot, backups, bytes, open, main, result, upRest>>

(* curl stores the package under the path it reads from the task.           *)
FtpUpload(s) == uploaded' = uploaded \cup {[path |-> task, content |-> snapshot[s]]}

(* tar packs the copies and curl sends the package; afterwards the copies   *)
(* are deleted.                                                             *)
PackAndUpload(s) ==
    /\ Go(s, "pack", "send")
    /\ \/ FtpUpload(s) /\ UNCHANGED result
       \/ GiveUp(s, "FAILED") /\ UNCHANGED uploaded
    /\ UNCHANGED <<telVars, snapshot, g_upload_in_progress, g_upload_stopping, task, recv, to_bbu>>

(* g_upload_stopping is read here ...                                       *)
CheckStopping(s) ==
    /\ \/ ~g_upload_stopping /\ Go(s, "send", "sending")
       \/ g_upload_stopping /\ Go(s, "send", "reopen")
    /\ UNCHANGED <<telVars, result, snapshot, upRest>>

(* ... and the result, with the header of the task, is sent here.           *)
SendResult(s) ==
    /\ Go(s, "sending", "reopen")
    /\ to_bbu' = IF main = "tcp_destroyed" THEN to_bbu
                 ELSE Append(to_bbu, Result(task, result[s]))
    /\ UNCHANGED <<telVars, result, snapshot, g_upload_in_progress, g_upload_stopping, task,
                   recv, uploaded>>

(* Slip of ReopenGate: the flag is left set.                                *)
ReopenGateForgotten(s) ==
    /\ Go(s, "reopen", "exited")
    /\ UNCHANGED <<telVars, g_upload_in_progress, result, snapshot, g_upload_stopping, task,
                   recv, uploaded, to_bbu>>

ReopenGate(s) ==
    /\ Go(s, "reopen", "exited")
    /\ g_upload_in_progress' = FALSE
    /\ UNCHANGED <<telVars, result, snapshot, g_upload_stopping, task, recv, uploaded, to_bbu>>

--------------------
(* log_upload_destroy follows telemetry_log_destroy, then TCP goes, then    *)
(* the UART.                                                                *)
UploadDestroy ==
    /\ main = "telemetry_destroyed"
    /\ g_upload_stopping' = TRUE /\ main' = "upload_destroyed"
    /\ UNCHANGED <<queueVars, fileVars, pollVars, writer, slot, failures,
                   g_upload_in_progress, task, recv, thread, result, snapshot, uploaded, to_bbu>>

(* tcp_client_stop joins the receive thread.                                *)
TcpDestroy ==
    /\ main = "upload_destroyed" /\ recv.at = "idle"
    /\ main' = "tcp_destroyed"
    /\ UNCHANGED <<queueVars, fileVars, pollVars, writer, slot, failures, upVars>>

Shutdown == UploadDestroy \/ TcpDestroy

UploadThread(s) ==
    \/ CopyText(s) \/ StatTelemetry(s) \/ TelemetrySnapshot(s) \/ PackAndUpload(s)
    \/ CheckStopping(s) \/ SendResult(s) \/ ReopenGate(s)

Request(s) == RejectBusy(s) \/ RejectInvalid(s) \/ AcceptRequest(s)

LogNext ==
    \/ TelNext /\ UNCHANGED upVars
    \/ CreateThread \/ CreateFails \/ ReportFailed \/ Shutdown
    \/ \E s \in Serials : Request(s) \/ UploadThread(s)

(* curl ends by itself (--max-time), so the upload thread always goes on.   *)
Fairness ==
    /\ WF_logVars(Writer /\ UNCHANGED upVars)
    /\ WF_logVars(CreateThread \/ CreateFails \/ ReportFailed)
    /\ WF_logVars(\E s \in Serials : UploadThread(s))

LogSpec     == LogInit /\ [][LogNext]_logVars
LogFairSpec == LogSpec /\ Fairness

--------------------
(* While no file operation fails, the telemetry in a package is a gapless   *)
(* run of whole frames although the writer never stops: the snapshot is     *)
(* taken under the file mutex.                                              *)
SnapshotWhole ==
    failures = 0 => \A s \in Serials : snapshot[s] # NoSnap =>
        \A i \in DOMAIN snapshot[s] : snapshot[s][i] = snapshot[s][1] + i - 1 /\ snapshot[s][i] # Torn

(* The one global task serves every request: a result names a request that  *)
(* was accepted, there is one for each, and success means that this         *)
(* request's package lies under its own path.  The gate opens only behind a *)
(* result: while no upload is in progress every accepted request has been   *)
(* answered, unless the program goes down; or the receive thread, which     *)
(* takes no request meanwhile, is about to report that it has no thread.    *)
ResultsTruthful ==
    /\ \A i \in DOMAIN to_bbu : to_bbu[i].msg = "result" =>
        LET s == to_bbu[i].serial IN
        /\ Ack(s, "ACCEPT") \in Range(SubSeq(to_bbu, 1, i - 1))
        /\ \A j \in DOMAIN to_bbu : to_bbu[j].msg = "result" /\ to_bbu[j].serial = s => j = i
        /\ to_bbu[i].result = "SUCCESS" => [path |-> s, content |-> snapshot[s]] \in uploaded
    /\ ~g_upload_in_progress /\ ~g_upload_stopping =>
        \A s \in Serials : Ack(s, "ACCEPT") \in Range(to_bbu) /\ ~(recv.at = "failed" /\ recv.serial = s) =>
            \E r \in {"SUCCESS", "FILE_NOT_EXIST", "FAILED"} : Result(s, r) \in Range(to_bbu)

(* main() goes on to tear TCP and the UART down only when the threads that  *)
(* use them have been joined and every queued frame is written; the upload  *)
(* thread, which is not joined, has been told to keep silent by then.       *)
ThreadsGoneFirst ==
    /\ main \in {"telemetry_destroyed", "upload_destroyed", "tcp_destroyed"} =>
            poll = "exited" /\ writer = "exited" /\ queue = <<>> /\ InHand = <<>>
    /\ main = "tcp_destroyed" => recv.at = "idle" /\ g_upload_stopping

(* An upload always ends and lets the next request in.                      *)
UploadEnds == g_upload_in_progress ~> ~g_upload_in_progress
====================
