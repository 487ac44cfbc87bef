---------- MODULE TelemetryLog ----------
(***************************************************************************)
(* The telemetry log (telemetry_log.c).  The poll thread asks the FPGA for *)
(* telemetry, the receive thread of the UART queues every frame that comes *)
(* back, and the writer thread appends the frames to a binary file that it *)
(* rotates by size.  The queue is under g_tel_queue_mutex, the files are   *)
(* under g_tel_file_mutex, so that the receive thread never waits for the  *)
(* disk.  Frames are numbered in the order of their arrival and all have   *)
(* the same length, one unit of size.                                      *)
(***************************************************************************)
EXTENDS Naturals, Sequences, SequencesExt

CONSTANTS
    TEL_QUEUE_SLOTS,
    g_tel_max_size,     \* size limit of a file, in frames
    g_tel_max_backups,
    OldLogs,            \* what earlier runs may have left behind: <<full backups,
                        \* frames in the current file>>
    Answers,            \* most frames one poll brings back
    MaxPolls,           \* bound on the number of polls
    MaxFailures         \* bound on the number of failing file operations

(* The files .1 to .N: there is a .1 even when the configuration says 0.    *)
NumBackups == IF g_tel_max_backups = 0 THEN 1 ELSE g_tel_max_backups
Backups    == 1..NumBackups

ASSUME TelAssumption ==
    /\ TEL_QUEUE_SLOTS \in Nat \ {0} /\ g_tel_max_size \in Nat \ {0, 1}
    /\ g_tel_max_backups \in Nat /\ OldLogs \subseteq (0..NumBackups) \X (0..g_tel_max_size)
    /\ Answers \in Nat /\ MaxPolls \in Nat /\ MaxFailures \in Nat

VARIABLES
    queue, dropped, stopping,        \* the ring and its counters
    writer, slot,                    \* writer thread and the frame it took
    file,                            \* the current file as read() sees it
    cache,                           \* frames fwrite took and fflush could not pass on
    backups,                         \* files .1 to .N
    bytes, open,                     \* g_tel_bytes, g_tel_fp # NULL
    poll, polls, asked,              \* poll thread, polls made, frames on their way
    main,                            \* how far the shutdown in main() has come
    accepted, failures               \* history: frames queued, failed operations

telVars == <<queue, dropped, stopping, writer, slot, file, cache, backups, bytes, open,
             poll, polls, asked, main, accepted, failures>>
queueVars == <<queue, dropped, stopping, accepted>>
fileVars  == <<file, cache, backups, bytes, open>>
pollVars  == <<poll, polls, asked>>

Torn == 0       \* part of a frame at the end of a file

(* File operations fail, n of them in this step, within the bound.          *)
Failing(n) == failures + n <= MaxFailures /\ failures' = failures + n
Fails == Failing(1)
Works == UNCHANGED failures
Cost(ok) == IF ok THEN 0 ELSE 1

(* telemetry_log_init: the files of earlier runs are carried on; one that   *)
(* is too large already is rotated away.                                    *)
TelInit ==
    \E log \in OldLogs :
        LET full    == g_tel_max_size - 1
            old     == [j \in Backups |-> IF j > log[1] THEN <<>>
                            ELSE [k \in 1..full |-> (log[1] - j) * full + k]]
            current == [k \in 1..log[2] |-> log[1] * full + k]
        IN
        /\ accepted = [k \in 1 .. log[1] * full + log[2] |-> k]
        /\ IF log[2] >= g_tel_max_size
           THEN /\ file = <<>> /\ bytes = 0
                /\ backups = [j \in Backups |-> IF j = 1 THEN current ELSE old[j - 1]]
           ELSE file = current /\ bytes = log[2] /\ backups = old
        /\ cache = <<>> /\ open = TRUE
        /\ queue = <<>> /\ dropped = 0 /\ stopping = FALSE
        /\ writer = "wait" /\ slot = Torn
        /\ poll = "wait" /\ polls = 0 /\ asked = 0
        /\ main = "run" /\ failures = 0

--------------------
(* The poll thread sends its three commands when the deadline has passed    *)
(* and the UART is open; the gaps between them are slept through.           *)
PollSend ==
    /\ poll = "wait" /\ ~stopping /\ polls < MaxPolls
    /\ poll' = "send" /\ polls' = polls + 1
    /\ UNCHANGED <<queueVars, fileVars, writer, slot, asked, main, failures>>

PollSent ==
    /\ poll = "send"
    /\ poll' = "wait"
    /\ \E n \in 0..Answers : asked' = asked + n
    /\ UNCHANGED <<queueVars, fileVars, writer, slot, polls, main, failures>>

PollExit ==
    /\ poll = "wait" /\ stopping
    /\ poll' = "exited"
    /\ UNCHANGED <<queueVars, fileVars, writer, slot, polls, asked, main, failures>>

(* pthread_cond_signal(&g_tel_data_cond)                                    *)
Signal == writer' = IF writer = "sleep" THEN "wait" ELSE writer

(* The receive thread hands over a frame.                                   *)
OnFrame ==
    /\ asked > 0 /\ asked' = asked - 1
    /\ UNCHANGED <<fileVars, slot, poll, polls, main, stopping, failures>>
    /\ \/ /\ stopping
          /\ UNCHANGED <<queue, dropped, accepted, writer>>
       \/ /\ ~stopping /\ Len(queue) >= TEL_QUEUE_SLOTS
          /\ dropped' = dropped + 1
          /\ UNCHANGED <<queue, accepted, writer>>
       \/ /\ ~stopping /\ Len(queue) < TEL_QUEUE_SLOTS
          /\ LET id == Len(accepted) + 1 IN
                queue' = Append(queue, id) /\ accepted' = Append(accepted, id)
          /\ Signal /\ UNCHANGED dropped

--------------------
(* The writer thread.                                                       *)
WriterSleep ==
    /\ writer = "wait" /\ queue = <<>> /\ ~stopping
    /\ writer' = "sleep"
    /\ UNCHANGED <<queueVars, fileVars, pollVars, slot, main, failures>>

WriterExit ==
    /\ writer = "wait" /\ queue = <<>> /\ stopping
    /\ writer' = "exited"
    /\ UNCHANGED <<queueVars, fileVars, pollVars, slot, main, failures>>

WriterTake ==
    /\ writer = "wait" /\ queue # <<>>
    /\ slot' = Head(queue) /\ queue' = Tail(queue)
    /\ writer' = "have"
    /\ UNCHANGED <<fileVars, pollVars, dropped, stopping, main, accepted, failures>>

(* tel_rotate_locked, f being the current file after the flush.  The oldest *)
(* backup is deleted, every other one moves on by one, the current file     *)
(* becomes .1 and a new one is opened; each of these may fail, and the rest *)
(* goes on.  A backup k that stays where it is (0: none) is replaced by the *)
(* one before it, if there is one; with 0 backups nothing is deleted.  A    *)
(* file that is not renamed is opened again and goes on growing.            *)
Shifted(f, k, renamed) ==
    [b \in Backups |->
        IF b = 1 /\ renamed THEN f
        ELSE IF b = k /\ (b = 1 \/ backups[b - 1] = <<>>) THEN backups[b]
        ELSE IF b = 1 \/ b = k + 1 THEN <<>>
        ELSE backups[b - 1]]

(* Slip of Rotate: the files are renamed from the newest to the oldest.     *)
RotateForwards(f, k, renamed, reopened) ==
    /\ backups' = [b \in Backups |-> f]
    /\ file' = IF renamed THEN <<>> ELSE f
    /\ cache' = <<>> /\ bytes' = 0 /\ open' = reopened

Rotate(f, k, renamed, reopened) ==
    /\ backups' = Shifted(f, k, renamed)
    /\ file' = IF renamed THEN <<>> ELSE f
    /\ cache' = <<>> /\ bytes' = 0 /\ open' = reopened

Stuck == IF g_tel_max_backups = 0 THEN {1} ELSE {0} \cup {k \in Backups : backups[k] # <<>>}

(* A rotation after n failures, in which any of its operations may fail.    *)
RotateAnyhow(f, n) ==
    \E k \in Stuck, renamed, reopened \in BOOLEAN :
        /\ Failing(n + Cost(k = 0 \/ g_tel_max_backups = 0) + Cost(renamed) + Cost(reopened))
        /\ Rotate(f, k, renamed, reopened)

(* The file mutex is taken; a file that has no room is rotated first.  If   *)
(* the flush fails, fclose drops what is in the stdio buffer.               *)
WriterLock ==
    /\ writer = "have"
    /\ IF bytes + 1 >= g_tel_max_size
       THEN RotateAnyhow(file \o cache, 0) \/ (cache # <<>> /\ RotateAnyhow(file, 1))
       ELSE Works /\ UNCHANGED fileVars
    /\ writer' = "locked"
    /\ UNCHANGED <<queueVars, pollVars, slot, main>>

(* fwrite has begun: read() may see a part of the frame.                    *)
WriterBegin ==
    /\ writer = "locked"
    /\ IF open THEN writer' = "writing" /\ file' = Append(file, Torn)
               ELSE writer' = "wait" /\ UNCHANGED file
    /\ UNCHANGED <<queueVars, pollVars, slot, cache, backups, bytes, open, main, failures>>

(* fwrite and fflush are through: the frame, and what waited in the buffer  *)
(* before it, is in the file.                                               *)
Written ==
    /\ file' = Front(file) \o Append(cache, slot)
    /\ cache' = <<>> /\ bytes' = bytes + 1 /\ writer' = "wait"
    /\ UNCHANGED <<backups, open>> /\ Works

(* fwrite took the frame, fflush failed and nobody looks: bytes counts it.  *)
Buffered ==
    /\ file' = Front(file)
    /\ cache' = Append(cache, slot) /\ bytes' = bytes + 1 /\ writer' = "wait"
    /\ UNCHANGED <<backups, open>> /\ Fails

(* fwrite wrote a part only: rotate, and write the frame again if there is  *)
(* a file.  The flush passes on what is in the buffer, or fails.            *)
WriterEnd ==
    /\ writer = "writing"
    /\ \/ Written \/ Buffered
       \/ /\ \E f \in {file, Front(file) \o Append(cache, Torn)} : RotateAnyhow(f, 1)
          /\ writer' = IF open' THEN "again" ELSE "wait"
    /\ UNCHANGED <<queueVars, pollVars, slot, main>>

(* The second attempt is the last one; a part that it wrote stays in the    *)
(* file without being counted.                                              *)
WriterAgain ==
    /\ writer = "again"
    /\ \/ file' = Append(file, slot) /\ bytes' = bytes + 1 /\ Works /\ UNCHANGED cache
       \/ cache' = Append(cache, slot) /\ bytes' = bytes + 1 /\ Fails /\ UNCHANGED file
       \/ file' = Append(file, Torn) /\ Fails /\ UNCHANGED <<cache, bytes>>
    /\ writer' = "wait"
    /\ UNCHANGED <<queueVars, pollVars, slot, backups, open, main>>

file_locked == writer \in {"locked", "writing", "again"}

--------------------
(* telemetry_log_destroy, called from the shutdown in main().               *)
DestroyStop ==
    /\ main = "run"
    /\ stopping' = TRUE /\ Signal
    /\ main' = "join_poll"
    /\ UNCHANGED <<queue, dropped, accepted, fileVars, pollVars, slot, failures>>

(* Slip of JoinPoll: the thread is not waited for.                          *)
JoinPollForgotten ==
    /\ main = "join_poll"
    /\ main' = "join_writer"
    /\ UNCHANGED <<queueVars, fileVars, pollVars, writer, slot, failures>>

JoinPoll ==
    /\ main = "join_poll" /\ poll = "exited"
    /\ main' = "join_writer"
    /\ UNCHANGED <<queueVars, fileVars, pollVars, writer, slot, failures>>

JoinWriter ==
    /\ main = "join_writer" /\ writer = "exited"
    /\ main' = "telemetry_destroyed"
    /\ file' = file \o cache /\ cache' = <<>> /\ open' = FALSE
    /\ UNCHANGED <<queueVars, pollVars, writer, slot, backups, bytes, failures>>

TelNext ==
    \/ PollSend \/ PollSent \/ PollExit \/ OnFrame
    \/ WriterSleep \/ WriterExit \/ WriterTake \/ WriterLock
    \/ WriterBegin \/ WriterEnd \/ WriterAgain
    \/ DestroyStop \/ JoinPoll \/ JoinWriter

Writer == WriterSleep \/ WriterExit \/ WriterTake \/ WriterLock
             \/ WriterBegin \/ WriterEnd \/ WriterAgain

--------------------
InHand == IF writer \in {"have", "locked", "writing", "again"} THEN <<slot>> ELSE <<>>

(* The log and what is on its way to it, from the oldest file to the queue. *)
Pieces   == 1..(NumBackups + 4)
Piece(k) == IF k \in Backups THEN backups[NumBackups + 1 - k]
            ELSE <<file, cache, InHand, queue>>[k - NumBackups]
Kept     == (UNION {Range(Piece(k)) : k \in Pieces}) \ {Torn}

(* Frames keep the order of their arrival from the queue through every      *)
(* rotation and none is written twice, whatever fails on the way.  While no *)
(* file operation fails the log is even a gapless end of what was queued,   *)
(* and frames leave it only with the oldest backup: the newer files are     *)
(* full then.                                                               *)
LogKeepsFrames ==
    /\ \A k, l \in Pieces : \A i \in DOMAIN Piece(k), j \in DOMAIN Piece(l) :
            /\ k < l \/ (k = l /\ i < j)
            /\ Piece(k)[i] # Torn /\ Piece(l)[j] # Torn
            => Piece(k)[i] < Piece(l)[j]
    /\ failures = 0 =>
        \E oldest \in 1..(Len(accepted) + 1) :
            /\ Kept = oldest..Len(accepted)
            /\ oldest > 1 => \A b \in Backups : Len(backups[b]) >= g_tel_max_size - 1

(* A rotation that cannot open the new file does not end the log for good.  *)
LogRecovers == ~open ~> open \/ stopping
====================
