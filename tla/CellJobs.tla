---------- MODULE CellJobs ----------
(***************************************************************************)
(* The job queue between the TCP receive thread and the cell-config worker *)
(* (cell_config.c): a ring of CELL_CFG_JOB_QUEUE_LEN jobs under            *)
(* g_job_mutex, the condition variable g_job_cond, the busy response when  *)
(* the ring is full, and the shutdown in cell_config_destroy.  What a job  *)
(* does is module CellConfig; here it is a number of mode verifications    *)
(* (each blocks the worker for up to 5 seconds) followed by its response.  *)
(***************************************************************************)
EXTENDS Naturals, Sequences, FiniteSets

CONSTANTS
    CELL_CFG_JOB_QUEUE_LEN,
    Serials,      \* serial numbers of the BBU's requests
    NULL,
    MaxVerify     \* bound on the mode verifications one request needs

ASSUME JobAssumption ==
    /\ CELL_CFG_JOB_QUEUE_LEN \in Nat \ {0}
    /\ NULL \notin Serials
    /\ MaxVerify \in Nat

VARIABLES
    g_job_queue, g_job_head, g_job_tail, g_job_count, g_job_thread_stop,
    worker_pc,    \* "check": about to test the loop condition under the mutex
    job,          \* the job the worker took out of the ring
    verify,       \* mode verifications that job still needs
    destroy_pc,   \* cell_config_destroy: "no" -> "join" -> "done"
    owed,         \* history: accepted requests without a response, oldest first
    join_waits    \* history: verifications begun since destroy waits (0, 1, 2 = more)

ringVars == <<g_job_queue, g_job_head, g_job_tail, g_job_count>>
vars == <<ringVars, g_job_thread_stop, worker_pc, job, verify, destroy_pc, owed, join_waits>>

Slots == 0 .. CELL_CFG_JOB_QUEUE_LEN - 1

(* Types of the ring: its indices and its count stay within the array.      *)
JobTypeOK ==
    /\ g_job_queue \in [Slots -> Serials \cup {NULL}]
    /\ g_job_head \in Slots /\ g_job_tail \in Slots
    /\ g_job_count \in 0..CELL_CFG_JOB_QUEUE_LEN
    /\ g_job_thread_stop \in BOOLEAN
    /\ worker_pc \in {"check", "asleep", "work", "exited"}
    /\ job \in Serials \cup {NULL}
    /\ verify \in 0..MaxVerify
    /\ destroy_pc \in {"no", "join", "done"}
    /\ owed \in Seq(Serials)
    /\ join_waits \in 0..2

(* cell_config_init                                                         *)
Init ==
    /\ g_job_queue = [i \in Slots |-> NULL]
    /\ g_job_head = 0 /\ g_job_tail = 0 /\ g_job_count = 0
    /\ g_job_thread_stop = FALSE
    /\ worker_pc = "check" /\ job = NULL /\ verify = 0
    /\ destroy_pc = "no" /\ owed = <<>> /\ join_waits = 0

Following(i) == (i + 1) % CELL_CFG_JOB_QUEUE_LEN

(* Slip of Signal: the condition variable is not signalled.                 *)
SignalForgotten == UNCHANGED worker_pc

(* pthread_cond_signal                                                      *)
Signal == worker_pc' = IF worker_pc = "asleep" THEN "check" ELSE worker_pc

--------------------
(* cell_config_submit_request in the receive thread: into the ring ...      *)
Submit(s) ==
    /\ g_job_count < CELL_CFG_JOB_QUEUE_LEN
    /\ \A i \in 1..Len(owed) : owed[i] # s
    /\ g_job_queue' = [g_job_queue EXCEPT ![g_job_tail] = s]
    /\ g_job_tail' = Following(g_job_tail)
    /\ g_job_count' = g_job_count + 1
    /\ owed' = Append(owed, s)
    /\ Signal
    /\ UNCHANGED <<g_job_head, g_job_thread_stop, job, verify, destroy_pc, join_waits>>

(* ... or, when it is full, cell_config_send_busy_response answers at once: *)
(* nothing is owed and nothing changes.                                     *)
SubmitBusy ==
    /\ g_job_count >= CELL_CFG_JOB_QUEUE_LEN
    /\ UNCHANGED vars

(* cell_cfg_worker: one pass of its loop under g_job_mutex                  *)
WorkerSleep ==
    /\ worker_pc = "check" /\ g_job_count = 0 /\ ~g_job_thread_stop
    /\ worker_pc' = "asleep"
    /\ UNCHANGED <<ringVars, g_job_thread_stop, job, verify, destroy_pc, owed, join_waits>>

WorkerExit ==
    /\ worker_pc = "check" /\ g_job_count = 0 /\ g_job_thread_stop
    /\ worker_pc' = "exited"
    /\ UNCHANGED <<ringVars, g_job_thread_stop, job, verify, destroy_pc, owed, join_waits>>

(* Slip of WorkerTake: the newest job is taken instead of the oldest.       *)
WorkerTakeNewest ==
    /\ worker_pc = "check" /\ g_job_count > 0
    /\ LET last == (g_job_head + g_job_count - 1) % CELL_CFG_JOB_QUEUE_LEN
       IN  /\ job' = g_job_queue[last]
           /\ g_job_queue' = [g_job_queue EXCEPT ![last] = NULL]
           /\ g_job_tail' = last
    /\ g_job_count' = g_job_count - 1
    /\ verify' \in 0..MaxVerify
    /\ worker_pc' = "work"
    /\ UNCHANGED <<g_job_head, g_job_thread_stop, destroy_pc, owed, join_waits>>

WorkerTake ==
    /\ worker_pc = "check" /\ g_job_count > 0
    /\ job' = g_job_queue[g_job_head]
    /\ g_job_queue' = [g_job_queue EXCEPT ![g_job_head] = NULL]
    /\ g_job_head' = Following(g_job_head)
    /\ g_job_count' = g_job_count - 1
    /\ verify' \in 0..MaxVerify
    /\ worker_pc' = "work"
    /\ UNCHANGED <<g_job_tail, g_job_thread_stop, destroy_pc, owed, join_waits>>

(* wait_for_antenna_mode_cycle inside cell_config_create_response           *)
WorkerVerify ==
    /\ worker_pc = "work" /\ verify > 0
    /\ verify' = verify - 1
    /\ join_waits' = IF destroy_pc = "join" /\ join_waits < 2 THEN join_waits + 1 ELSE join_waits
    /\ UNCHANGED <<ringVars, g_job_thread_stop, worker_pc, job, destroy_pc, owed>>

(* The sequence q without its element s                                     *)
Without(q, s) ==
    LET k == CHOOSE i \in 1..Len(q) : q[i] = s
    IN  SubSeq(q, 1, k - 1) \o SubSeq(q, k + 1, Len(q))

(* The response is sent and the job freed.                                  *)
WorkerAnswer ==
    /\ worker_pc = "work" /\ verify = 0
    /\ owed' = Without(owed, job)
    /\ job' = NULL
    /\ worker_pc' = "check"
    /\ UNCHANGED <<ringVars, g_job_thread_stop, verify, destroy_pc, join_waits>>

--------------------
(* cell_config_destroy in the main thread, while TCP still receives         *)
DestroyStop ==
    /\ destroy_pc = "no"
    /\ g_job_thread_stop' = TRUE
    /\ Signal
    /\ destroy_pc' = "join"
    /\ UNCHANGED <<ringVars, job, verify, owed, join_waits>>

(* pthread_join, then the jobs left in the ring are freed unanswered        *)
DestroyJoined ==
    /\ destroy_pc = "join" /\ worker_pc = "exited"
    /\ g_job_queue' = [i \in Slots |-> NULL] /\ g_job_count' = 0
    /\ owed' = <<>>
    /\ destroy_pc' = "done"
    /\ UNCHANGED <<g_job_head, g_job_tail, g_job_thread_stop, worker_pc, job, verify, join_waits>>

WorkerStep == WorkerSleep \/ WorkerExit \/ WorkerTake \/ WorkerVerify \/ WorkerAnswer

Next ==
    \/ \E s \in Serials : Submit(s)
    \/ SubmitBusy
    \/ WorkerStep
    \/ DestroyStop \/ DestroyJoined

Spec     == Init /\ [][Next]_vars
(* The worker thread keeps running; nothing is assumed of the BBU or main.  *)
FairSpec == Spec /\ WF_vars(WorkerStep)

--------------------
(* The jobs in the ring, oldest first                                       *)
Pending == [i \in 1..g_job_count |->
                g_job_queue[(g_job_head + i - 1) % CELL_CFG_JOB_QUEUE_LEN]]
Current == IF job = NULL THEN <<>> ELSE <<job>>

(* Across wrap-arounds and the full ring, the worker's job and the ring     *)
(* hold exactly the accepted, unanswered requests in their order of         *)
(* arrival: none is lost, repeated or overtaken, until destroy empties the  *)
(* ring.                                                                    *)
NothingLost == destroy_pc # "done" => owed = Current \o Pending

(* The worker leaves only when every accepted request has its response.     *)
DrainsBeforeExit == [][worker_pc' = "exited" /\ worker_pc # "exited" => owed = <<>>]_vars

(* Every request accepted while the worker lives is answered in the end: no *)
(* wake-up is lost between submit, the wait and destroy.                    *)
AcceptedIsAnswered ==
    \A s \in Serials :
        (worker_pc # "exited" /\ \E i \in 1..Len(owed) : owed[i] = s)
            ~> ~(\E i \in 1..Len(owed) : owed[i] = s)

(* cell_config.c, lines 1103-1104, claim that the join in destroy waits for *)
(* one mode verification at most.                                           *)
JoinWaitsOnce == join_waits <= 1
====================
