---------- MODULE LifecycleProofs ----------
(***************************************************************************)
(* Proofs about the job queue of the cell configuration, for any length of *)
(* the ring, and about the life of the process that contains it.           *)
(***************************************************************************)
EXTENDS Lifecycle, TxGuardProofs, SequenceTheorems

--------------------
(* The inductive invariant of the job queue.                                *)

(* The slot of the i-th job of a ring whose head is h                       *)
SlotAt(h, i) == (h + i - 1) % CELL_CFG_JOB_QUEUE_LEN

(* The threads' states fit together: the worker has a job exactly while it  *)
(* works on one, and destroy gets past the join only when it is gone.       *)
ThreadsFit ==
    /\ job # NULL <=> worker_pc = "work"
    /\ destroy_pc = "done" => worker_pc = "exited"

(* No serial number is owed twice (the BBU waits for the response).         *)
OwedOnce == \A i, k \in 1..Len(owed) : owed[i] = owed[k] => i = k

(* The ring holds what is owed behind the worker's job, slot by slot.       *)
RingHoldsOwed ==
    destroy_pc # "done" =>
        /\ g_job_tail = SlotAt(g_job_head, g_job_count + 1)
        /\ Len(owed) = g_job_count + (IF job = NULL THEN 0 ELSE 1)
        /\ job # NULL => owed[1] = job
        /\ \A i \in 1..g_job_count :
              owed[IF job = NULL THEN i ELSE i + 1] = g_job_queue[SlotAt(g_job_head, i)]

JobInv == JobTypeOK /\ ThreadsFit /\ OwedOnce /\ RingHoldsOwed

--------------------
(* The ring's arithmetic: an index wraps around at most once.               *)
LEMMA Wrap ==
    ASSUME NEW L \in Nat \ {0}, NEW x \in 0..(2 * L - 1)
    PROVE  x % L = IF x < L THEN x ELSE x - L
OBVIOUS

(* The i-th job's slot and the slot that follows another, written out.      *)
LEMMA SlotFacts ==
    /\ \A h \in Slots : \A i \in 1..(CELL_CFG_JOB_QUEUE_LEN + 1) :
         /\ SlotAt(h, i) = IF h + i - 1 < CELL_CFG_JOB_QUEUE_LEN
                           THEN h + i - 1 ELSE h + i - 1 - CELL_CFG_JOB_QUEUE_LEN
         /\ SlotAt(h, i) \in Slots
    /\ \A x \in Slots : /\ Following(x) = IF x + 1 = CELL_CFG_JOB_QUEUE_LEN THEN 0 ELSE x + 1
                        /\ Following(x) \in Slots
<1> DEFINE L == CELL_CFG_JOB_QUEUE_LEN
<1>1. L \in Nat \ {0} /\ Slots = 0..(L - 1)
    BY JobAssumption DEF Slots
<1>2. ASSUME NEW h \in Slots, NEW i \in 1..(L + 1)
      PROVE  /\ SlotAt(h, i) = IF h + i - 1 < L THEN h + i - 1 ELSE h + i - 1 - L
             /\ SlotAt(h, i) \in Slots
    <2> DEFINE y == h + i - 1
    <2>1. y \in 0..(2 * L - 1) /\ SlotAt(h, i) = y % L
        BY <1>1 DEF SlotAt
    <2> HIDE DEF y, L
    <2>2. y % L = IF y < L THEN y ELSE y - L
        BY <1>1, <2>1, Wrap
    <2>3. QED
        BY <1>1, <2>1, <2>2 DEF y, L
<1>3. ASSUME NEW x \in Slots
      PROVE  /\ Following(x) = IF x + 1 = L THEN 0 ELSE x + 1
             /\ Following(x) \in Slots
    <2> DEFINE y == x + 1
    <2>1. y \in 0..(2 * L - 1) /\ Following(x) = y % L
        BY <1>1 DEF Following
    <2> HIDE DEF y, L
    <2>2. y % L = IF y < L THEN y ELSE y - L
        BY <1>1, <2>1, Wrap
    <2>3. QED
        BY <1>1, <2>1, <2>2 DEF y, L
<1>4. QED
    BY <1>2, <1>3

(* A request enters the ring behind all others.                             *)
LEMMA SubmitStep == ASSUME JobInv, NEW s \in Serials, Submit(s) PROVE JobInv'
<1> DEFINE L == CELL_CFG_JOB_QUEUE_LEN
<1>1. JobTypeOK /\ L \in Nat \ {0} /\ NULL \notin Serials
    BY JobAssumption DEF JobInv
<1>2. /\ g_job_count < L /\ g_job_queue' = [g_job_queue EXCEPT ![g_job_tail] = s]
      /\ g_job_tail' = Following(g_job_tail) /\ g_job_count' = g_job_count + 1
      /\ owed' = Append(owed, s) /\ Signal
      /\ g_job_head' = g_job_head /\ g_job_thread_stop' = g_job_thread_stop /\ job' = job
      /\ verify' = verify /\ destroy_pc' = destroy_pc /\ join_waits' = join_waits
      /\ \A i \in 1..Len(owed) : owed[i] # s
    BY DEF Submit
<1>3. owed \in Seq(Serials) /\ Len(owed) \in Nat
    BY <1>1 DEF JobTypeOK
<1>4. /\ owed' \in Seq(Serials) /\ Len(owed') = Len(owed) + 1
      /\ \A i \in 1..Len(owed) : owed'[i] = owed[i]
      /\ owed'[Len(owed) + 1] = s
    BY <1>2, <1>3, AppendProperties
<1>5. JobTypeOK'
    BY <1>1, <1>2, <1>4, SlotFacts DEF JobTypeOK, Signal
<1>6. ThreadsFit'
    BY <1>2 DEF JobInv, ThreadsFit, Signal
<1>7. OwedOnce'
    <2> SUFFICES ASSUME NEW i \in 1..(Len(owed) + 1), NEW k \in 1..(Len(owed) + 1), owed'[i] = owed'[k]
                 PROVE  i = k
        BY <1>4 DEF OwedOnce
    <2>1. i = Len(owed) + 1 <=> k = Len(owed) + 1
        BY <1>2, <1>3, <1>4
    <2>2. QED
        BY <1>3, <1>4, <2>1 DEF JobInv, OwedOnce
<1>8. RingHoldsOwed'
    <2> SUFFICES ASSUME destroy_pc # "done"
                 PROVE  /\ g_job_tail' = SlotAt(g_job_head, g_job_count + 2)
                        /\ Len(owed') = g_job_count + 1 + (IF job = NULL THEN 0 ELSE 1)
                        /\ job # NULL => owed'[1] = job
                        /\ \A i \in 1..(g_job_count + 1) :
                              owed'[IF job = NULL THEN i ELSE i + 1] = g_job_queue'[SlotAt(g_job_head, i)]
        BY <1>1, <1>2 DEF RingHoldsOwed, JobTypeOK
    <2>1. /\ g_job_tail = SlotAt(g_job_head, g_job_count + 1)
          /\ Len(owed) = g_job_count + (IF job = NULL THEN 0 ELSE 1)
          /\ job # NULL => owed[1] = job
          /\ \A i \in 1..g_job_count : owed[IF job = NULL THEN i ELSE i + 1] = g_job_queue[SlotAt(g_job_head, i)]
        BY DEF JobInv, RingHoldsOwed
    <2>2. g_job_count \in 0..L /\ g_job_head \in 0..(L - 1) /\ g_job_tail \in Slots
        BY <1>1 DEF JobTypeOK, Slots
    <2>idx. /\ SlotAt(g_job_head, g_job_count + 1) = IF g_job_head + (g_job_count + 1) - 1 < L
                THEN g_job_head + (g_job_count + 1) - 1 ELSE g_job_head + (g_job_count + 1) - 1 - L
          /\ SlotAt(g_job_head, g_job_count + 2) = IF g_job_head + (g_job_count + 2) - 1 < L
                THEN g_job_head + (g_job_count + 2) - 1 ELSE g_job_head + (g_job_count + 2) - 1 - L
        <3>1. g_job_head \in Slots /\ g_job_count + 1 \in 1..(L + 1) /\ g_job_count + 2 \in 1..(L + 1)
            BY <1>1, <1>2, <2>2 DEF Slots
        <3>2. QED
            BY <3>1, SlotFacts
    <2>3. g_job_tail' = SlotAt(g_job_head, g_job_count + 2)
        <3>1. g_job_tail' = IF g_job_tail + 1 = L THEN 0 ELSE g_job_tail + 1
            BY <1>2, <2>2, SlotFacts
        <3>2. QED
            BY <1>1, <1>2, <2>1, <2>2, <2>idx, <3>1
    <2>4. \A i \in 1..g_job_count : SlotAt(g_job_head, i) \in Slots /\ SlotAt(g_job_head, i) # g_job_tail
        <3> TAKE i \in 1..g_job_count
        <3>1. g_job_head \in Slots /\ i \in 1..(L + 1)
            BY <1>1, <2>2 DEF Slots
        <3>2. /\ SlotAt(g_job_head, i) = IF g_job_head + i - 1 < L THEN g_job_head + i - 1
                                         ELSE g_job_head + i - 1 - L
              /\ SlotAt(g_job_head, i) \in Slots
            BY <3>1, SlotFacts
        <3>3. QED
            BY <1>1, <1>2, <2>1, <2>2, <2>idx, <3>1, <3>2
    <2>5. /\ \A i \in 1..g_job_count : g_job_queue'[SlotAt(g_job_head, i)] = g_job_queue[SlotAt(g_job_head, i)]
          /\ g_job_queue'[SlotAt(g_job_head, g_job_count + 1)] = s
        BY <1>1, <1>2, <2>1, <2>2, <2>4 DEF JobTypeOK
    <2>6. Len(owed') = g_job_count + 1 + (IF job = NULL THEN 0 ELSE 1)
        BY <1>4, <2>1, <2>2
    <2>7. job # NULL => owed'[1] = job
        BY <1>4, <2>1, <2>2
    <2>8. ASSUME NEW i \in 1..(g_job_count + 1)
          PROVE  owed'[IF job = NULL THEN i ELSE i + 1] = g_job_queue'[SlotAt(g_job_head, i)]
        <3>1. CASE i = g_job_count + 1
            <4>1. (IF job = NULL THEN i ELSE i + 1) = Len(owed) + 1
                BY <2>1, <2>2, <3>1
            <4>2. QED
                BY <1>4, <2>5, <3>1, <4>1
        <3>2. CASE i # g_job_count + 1
            <4>1. i \in 1..g_job_count /\ (IF job = NULL THEN i ELSE i + 1) \in 1..Len(owed)
                BY <2>1, <2>2, <3>2
            <4>2. QED
                BY <1>4, <2>1, <2>5, <4>1
        <3>3. QED
            BY <3>1, <3>2
    <2>9. QED
        BY <2>3, <2>6, <2>7, <2>8
<1>9. QED
    BY <1>5, <1>6, <1>7, <1>8 DEF JobInv

(* The worker takes the oldest job of the ring.                             *)
LEMMA TakeStep == ASSUME JobInv, WorkerTake PROVE JobInv'
<1> DEFINE L == CELL_CFG_JOB_QUEUE_LEN
<1>1. JobTypeOK /\ L \in Nat \ {0} /\ NULL \notin Serials
    BY JobAssumption DEF JobInv
<1>2. /\ worker_pc = "check" /\ g_job_count > 0
      /\ job' = g_job_queue[g_job_head]
      /\ g_job_queue' = [g_job_queue EXCEPT ![g_job_head] = NULL]
      /\ g_job_head' = Following(g_job_head) /\ g_job_count' = g_job_count - 1
      /\ verify' \in 0..MaxVerify /\ worker_pc' = "work"
      /\ g_job_tail' = g_job_tail /\ g_job_thread_stop' = g_job_thread_stop
      /\ destroy_pc' = destroy_pc /\ owed' = owed /\ join_waits' = join_waits
    BY DEF WorkerTake
<1>3. /\ g_job_count \in 0..L /\ g_job_head \in 0..(L - 1) /\ g_job_head \in Slots
      /\ g_job_tail \in Slots /\ owed \in Seq(Serials) /\ Len(owed) \in Nat
    BY <1>1 DEF JobTypeOK, Slots
<1>4. job = NULL /\ destroy_pc # "done"
    BY <1>2 DEF JobInv, ThreadsFit
<1>5. /\ g_job_tail = SlotAt(g_job_head, g_job_count + 1) /\ Len(owed) = g_job_count
      /\ \A i \in 1..g_job_count : owed[i] = g_job_queue[SlotAt(g_job_head, i)]
    BY <1>3, <1>4 DEF JobInv, RingHoldsOwed
<1>6. JobTypeOK'
    BY <1>1, <1>2, <1>3, SlotFacts DEF JobTypeOK
<1>7. SlotAt(g_job_head, 1) = g_job_head /\ \A i \in 2..L : SlotAt(g_job_head, i) # g_job_head
    BY <1>1, <1>3, SlotFacts
<1>8. job' = owed[1] /\ job' \in Serials
    BY <1>2, <1>3, <1>5, <1>7
<1>9. ThreadsFit' /\ OwedOnce'
    BY <1>1, <1>2, <1>4, <1>8 DEF JobInv, ThreadsFit, OwedOnce
<1>10. \A i \in 1..g_job_count : SlotAt(g_job_head', i) = SlotAt(g_job_head, i + 1)
    <2> TAKE i \in 1..g_job_count
    <2>1. i \in 1..(L + 1) /\ i + 1 \in 1..(L + 1)
        BY <1>1, <1>3
    <2>2. g_job_head' \in Slots /\ g_job_head' = IF g_job_head + 1 = L THEN 0 ELSE g_job_head + 1
        BY <1>2, <1>3, SlotFacts
    <2>3. /\ SlotAt(g_job_head', i) = IF g_job_head' + i - 1 < L
                                     THEN g_job_head' + i - 1 ELSE g_job_head' + i - 1 - L
          /\ SlotAt(g_job_head, i + 1) = IF g_job_head + (i + 1) - 1 < L
                                        THEN g_job_head + (i + 1) - 1 ELSE g_job_head + (i + 1) - 1 - L
        BY <1>3, <2>1, <2>2, SlotFacts
    <2>4. QED
        BY <1>1, <1>3, <2>1, <2>2, <2>3
<1>11. RingHoldsOwed'
    <2>1. g_job_tail' = SlotAt(g_job_head', g_job_count' + 1)
        <3>1. SlotAt(g_job_head', g_job_count) = SlotAt(g_job_head, g_job_count + 1)
            BY <1>2, <1>3, <1>10
        <3>2. g_job_count' + 1 = g_job_count
            BY <1>2, <1>3
        <3>3. QED
            BY <1>2, <1>5, <3>1, <3>2
    <2>2. \A i \in 1..(g_job_count - 1) : owed'[i + 1] = g_job_queue'[SlotAt(g_job_head', i)]
        <3> TAKE i \in 1..(g_job_count - 1)
        <3>1. i \in 1..g_job_count /\ i + 1 \in 1..g_job_count /\ i + 1 \in 2..L
            BY <1>1, <1>3
        <3>2. SlotAt(g_job_head', i) = SlotAt(g_job_head, i + 1)
            BY <1>10, <3>1
        <3>3. SlotAt(g_job_head, i + 1) \in Slots /\ SlotAt(g_job_head, i + 1) # g_job_head
            BY <1>1, <1>3, <1>7, <3>1, SlotFacts
        <3>4. g_job_queue'[SlotAt(g_job_head, i + 1)] = g_job_queue[SlotAt(g_job_head, i + 1)]
            BY <1>1, <1>2, <3>3 DEF JobTypeOK
        <3>5. QED
            BY <1>2, <1>5, <3>1, <3>2, <3>4
    <2>3. /\ Len(owed') = g_job_count' + 1 /\ job' # NULL /\ owed'[1] = job'
        BY <1>1, <1>2, <1>3, <1>5, <1>8
    <2>4. \A i \in 1..g_job_count' : owed'[i + 1] = g_job_queue'[SlotAt(g_job_head', i)]
        BY <1>2, <2>2
    <2>5. QED
        BY <2>1, <2>3, <2>4 DEF RingHoldsOwed
<1>12. QED
    BY <1>6, <1>9, <1>11 DEF JobInv

(* The answered request, the oldest one, is owed no longer.                 *)
LEMMA AnswerStep == ASSUME JobInv, WorkerAnswer PROVE JobInv'
<1> DEFINE L == CELL_CFG_JOB_QUEUE_LEN
<1>1. JobTypeOK /\ L \in Nat \ {0} /\ NULL \notin Serials
    BY JobAssumption DEF JobInv
<1>2. /\ worker_pc = "work" /\ owed' = Without(owed, job) /\ job' = NULL /\ worker_pc' = "check"
      /\ g_job_queue' = g_job_queue /\ g_job_head' = g_job_head /\ g_job_tail' = g_job_tail
      /\ g_job_count' = g_job_count /\ g_job_thread_stop' = g_job_thread_stop /\ verify' = verify
      /\ destroy_pc' = destroy_pc /\ join_waits' = join_waits
    BY DEF WorkerAnswer, ringVars
<1>3. job # NULL /\ destroy_pc # "done"
    BY <1>2 DEF JobInv, ThreadsFit
<1>4. /\ g_job_count \in 0..L /\ owed \in Seq(Serials) /\ Len(owed) = g_job_count + 1
      /\ owed[1] = job /\ g_job_tail = SlotAt(g_job_head, g_job_count + 1)
      /\ \A i \in 1..g_job_count : owed[i + 1] = g_job_queue[SlotAt(g_job_head, i)]
    BY <1>1, <1>3 DEF JobTypeOK, JobInv, RingHoldsOwed
<1>5. (CHOOSE i \in 1..Len(owed) : owed[i] = job) = 1
    <2>1. 1 \in 1..Len(owed) /\ \A i \in 1..Len(owed) : owed[i] = job => i = 1
        BY <1>4 DEF JobInv, OwedOnce
    <2>2. QED
        BY <1>4, <2>1
<1>6. owed' = SubSeq(owed, 1, 0) \o SubSeq(owed, 2, Len(owed))
    <2> DEFINE k == CHOOSE i \in 1..Len(owed) : owed[i] = job
    <2>1. owed' = SubSeq(owed, 1, k - 1) \o SubSeq(owed, k + 1, Len(owed))
        BY <1>2 DEF Without
    <2>2. k = 1
        BY <1>5
    <2> HIDE DEF k
    <2>3. k - 1 = 0 /\ k + 1 = 2
        BY <2>2
    <2>4. QED
        BY <2>1, <2>3
<1>7. /\ SubSeq(owed, 2, Len(owed)) \in Seq(Serials)
      /\ Len(SubSeq(owed, 2, Len(owed))) = g_job_count
      /\ \A i \in 1..g_job_count : SubSeq(owed, 2, Len(owed))[i] = owed[i + 1]
    <2>1. \A i \in 2..Len(owed) : owed[i] \in Serials
        BY <1>4, ElementOfSeq
    <2>2. Len(owed) \in Int
        BY <1>4
    <2>3. /\ SubSeq(owed, 2, Len(owed)) \in Seq(Serials)
          /\ Len(SubSeq(owed, 2, Len(owed))) = IF 2 <= Len(owed) THEN Len(owed) - 2 + 1 ELSE 0
          /\ \A i \in 1..(Len(owed) - 2 + 1) : SubSeq(owed, 2, Len(owed))[i] = owed[2 + i - 1]
        BY <2>1, <2>2, SubSeqProperties
    <2>4. QED
        BY <1>4, <2>3
<1>8. /\ owed' \in Seq(Serials) /\ Len(owed') = g_job_count
      /\ \A i \in 1..g_job_count : owed'[i] = owed[i + 1]
    <2>1. SubSeq(owed, 1, 0) = <<>>
        BY SubSeqEmpty
    <2>2. owed' = SubSeq(owed, 2, Len(owed))
        BY <1>6, <1>7, <2>1, ConcatEmptySeq
    <2>3. QED
        BY <1>7, <2>2
<1>9. JobTypeOK'
    BY <1>1, <1>2, <1>8 DEF JobTypeOK
<1>10. ThreadsFit'
    BY <1>2, <1>3 DEF JobInv, ThreadsFit
<1>11. OwedOnce'
    <2> SUFFICES ASSUME NEW i \in 1..g_job_count, NEW k \in 1..g_job_count, owed'[i] = owed'[k]
                 PROVE  i = k
        BY <1>8 DEF OwedOnce
    <2>1. i + 1 \in 1..Len(owed) /\ k + 1 \in 1..Len(owed) /\ owed[i + 1] = owed[k + 1]
        BY <1>4, <1>8
    <2>2. i + 1 = k + 1
        BY <2>1 DEF JobInv, OwedOnce
    <2>3. QED
        BY <1>4, <2>2
<1>12. RingHoldsOwed'
    <2>1. \A i \in 1..g_job_count : owed'[i] = g_job_queue[SlotAt(g_job_head, i)]
        BY <1>4, <1>8
    <2>2. QED
        BY <1>2, <1>4, <1>8, <2>1 DEF RingHoldsOwed
<1>13. QED
    BY <1>9, <1>10, <1>11, <1>12 DEF JobInv

(* Every step of the queue keeps the invariant.                             *)
LEMMA JobStepInv == JobInv /\ [Next]_vars => JobInv'
<1> SUFFICES ASSUME JobInv, [Next]_vars PROVE JobInv'
    OBVIOUS
<1>1. ASSUME UNCHANGED ringVars, job' = job, owed' = owed, destroy_pc' = destroy_pc \/ destroy_pc' = "join",
             destroy_pc # "done" \/ destroy_pc' = destroy_pc,
             worker_pc = "work" <=> worker_pc' = "work",
             worker_pc = "exited" => worker_pc' = "exited",
             g_job_thread_stop' \in BOOLEAN, worker_pc' \in {"check", "asleep", "work", "exited"},
             verify' \in 0..MaxVerify, join_waits' \in 0..2
      PROVE  JobInv'
    <2>1. JobTypeOK'
        BY <1>1 DEF JobInv, JobTypeOK, ringVars
    <2>2. ThreadsFit' /\ OwedOnce'
        BY <1>1 DEF JobInv, ThreadsFit, OwedOnce
    <2>3. RingHoldsOwed'
        BY <1>1 DEF JobInv, RingHoldsOwed, ringVars
    <2>4. QED
        BY <2>1, <2>2, <2>3 DEF JobInv
<1>2. CASE UNCHANGED vars
    BY <1>1, <1>2 DEF vars, JobInv, JobTypeOK
<1>3. CASE WorkerSleep \/ WorkerExit
    BY <1>1, <1>3 DEF WorkerSleep, WorkerExit, JobInv, JobTypeOK
<1>4. CASE WorkerVerify
    BY <1>1, <1>4, JobAssumption DEF WorkerVerify, JobInv, JobTypeOK
<1>5. CASE DestroyStop
    BY <1>1, <1>5 DEF DestroyStop, Signal, JobInv, JobTypeOK
<1>6. CASE DestroyJoined
    <2>1. /\ g_job_queue' = [i \in Slots |-> NULL] /\ g_job_count' = 0 /\ owed' = <<>>
          /\ destroy_pc' = "done" /\ worker_pc = "exited" /\ worker_pc' = worker_pc
          /\ g_job_head' = g_job_head /\ g_job_tail' = g_job_tail
          /\ g_job_thread_stop' = g_job_thread_stop /\ job' = job /\ verify' = verify
          /\ join_waits' = join_waits
        BY <1>6 DEF DestroyJoined
    <2>2. owed' \in Seq(Serials) /\ Len(owed') = 0
        BY <2>1, EmptySeq
    <2>3. JobTypeOK'
        BY <2>1, <2>2, JobAssumption DEF JobInv, JobTypeOK
    <2>4. ThreadsFit' /\ OwedOnce' /\ RingHoldsOwed'
        BY <2>1, <2>2 DEF JobInv, ThreadsFit, OwedOnce, RingHoldsOwed
    <2>5. QED
        BY <2>3, <2>4 DEF JobInv
<1>7. CASE SubmitBusy
    BY <1>2, <1>7 DEF SubmitBusy
<1>8. QED
    BY <1>2, <1>3, <1>4, <1>5, <1>6, <1>7, SubmitStep, TakeStep, AnswerStep DEF Next, WorkerStep

(* The empty ring at start.                                                 *)
LEMMA JobInitInv == Init => JobInv
<1> SUFFICES ASSUME Init PROVE JobInv
    OBVIOUS
<1> USE DEF Init
<1>1. owed \in Seq(Serials) /\ Len(owed) = 0
    BY EmptySeq
<1>2. 0 \in Slots /\ SlotAt(0, 1) = 0
    <2>1. 0 \in Slots
        BY JobAssumption DEF Slots
    <2>2. 1 \in 1..(CELL_CFG_JOB_QUEUE_LEN + 1)
        BY JobAssumption
    <2>3. SlotAt(0, 1) = IF 0 + 1 - 1 < CELL_CFG_JOB_QUEUE_LEN
                         THEN 0 + 1 - 1 ELSE 0 + 1 - 1 - CELL_CFG_JOB_QUEUE_LEN
        BY <2>1, <2>2, SlotFacts
    <2>4. QED
        BY <2>1, <2>3, JobAssumption
<1>3. JobTypeOK
    BY <1>1, <1>2, JobAssumption DEF JobTypeOK
<1>4. ThreadsFit /\ OwedOnce /\ RingHoldsOwed
    BY <1>1, <1>2 DEF ThreadsFit, OwedOnce, RingHoldsOwed
<1>5. QED
    BY <1>3, <1>4 DEF JobInv

(* Slot by slot or as sequences, the ring holds what is owed.               *)
LEMMA JobInvNothingLost == JobInv => NothingLost
<1> SUFFICES ASSUME JobInv, destroy_pc # "done" PROVE owed = Current \o Pending
    BY DEF NothingLost
<1> DEFINE d == IF job = NULL THEN 0 ELSE 1
<1>1. /\ owed \in Seq(Serials) /\ Len(owed) = g_job_count + d /\ g_job_count \in Nat
      /\ job # NULL => owed[1] = job
      /\ \A i \in 1..g_job_count : owed[IF job = NULL THEN i ELSE i + 1] = g_job_queue[SlotAt(g_job_head, i)]
    BY JobAssumption DEF JobInv, JobTypeOK, RingHoldsOwed
<1>2. Current \in Seq(Serials) /\ Len(Current) = d /\ (job # NULL => Current[1] = job)
    <2>1. CASE job = NULL
        BY <2>1, EmptySeq DEF Current
    <2>2. CASE job # NULL
        <3>1. job \in Serials
            BY <2>2 DEF JobInv, JobTypeOK
        <3>2. QED
            BY <2>2, <3>1 DEF Current
    <2>3. QED
        BY <2>1, <2>2
<1>3. Pending \in [1..g_job_count -> Serials] /\ \A i \in 1..g_job_count : Pending[i] = owed[i + d]
    <2>1. \A i \in 1..g_job_count : owed[i + d] = g_job_queue[SlotAt(g_job_head, i)]
        BY <1>1
    <2>2. \A i \in 1..g_job_count : owed[i + d] \in Serials
        BY <1>1
    <2>3. QED
        BY <2>1, <2>2 DEF Pending, SlotAt
<1>4. Pending \in Seq(Serials) /\ Len(Pending) = g_job_count
    <2>1. Pending \in Seq(Serials)
        BY <1>1, <1>3, SeqDef
    <2>2. DOMAIN Pending = 1..Len(Pending) /\ Len(Pending) \in Nat
        BY <2>1, LenProperties
    <2>3. QED
        BY <1>1, <1>3, <2>1, <2>2
<1>5. /\ Current \o Pending \in Seq(Serials) /\ Len(Current \o Pending) = d + g_job_count
      /\ \A i \in 1..(d + g_job_count) : (Current \o Pending)[i] =
            IF i <= d THEN Current[i] ELSE Pending[i - d]
    <2> HIDE DEF d
    <2>1. /\ Current \o Pending \in Seq(Serials)
          /\ Len(Current \o Pending) = Len(Current) + Len(Pending)
          /\ \A i \in 1..(Len(Current) + Len(Pending)) : (Current \o Pending)[i] =
                IF i <= Len(Current) THEN Current[i] ELSE Pending[i - Len(Current)]
        BY <1>2, <1>4, ConcatProperties
    <2>2. QED
        BY <1>2, <1>4, <2>1
<1>6. \A i \in 1..Len(owed) : owed[i] = (Current \o Pending)[i]
    BY <1>1, <1>2, <1>3, <1>5
<1>7. Len(owed) = Len(Current \o Pending)
    BY <1>1, <1>5
<1> DEFINE whole == Current \o Pending
<1>8. owed \in Seq(Serials) /\ whole \in Seq(Serials) /\ Len(owed) = Len(whole)
      /\ \A i \in 1..Len(owed) : owed[i] = whole[i]
    BY <1>1, <1>5, <1>6, <1>7
<1> HIDE DEF whole
<1>9. owed = whole
    BY <1>8, SeqEqual
<1>10. QED
    BY <1>9 DEF whole

(* For any length of the ring and any number of requests, the worker's job  *)
(* and the ring hold the accepted, unanswered requests in their order       *)
(* (cell_config.c, cell_config_submit_request and cell_cfg_worker).         *)
THEOREM NothingLostTheorem == Spec => []NothingLost
BY JobInitInv, JobStepInv, JobInvNothingLost, PTL DEF Spec

(* The worker exits only when every accepted request has its response.      *)
THEOREM DrainsTheorem == Spec => DrainsBeforeExit
<1>1. JobInv /\ [Next]_vars => [worker_pc' = "exited" /\ worker_pc # "exited" => owed = <<>>]_vars
    <2> SUFFICES ASSUME JobInv, Next, worker_pc' = "exited", worker_pc # "exited"
                 PROVE  owed = <<>>
        OBVIOUS
    <2>1. WorkerExit
        BY DEF Next, WorkerStep, Submit, SubmitBusy, Signal, WorkerSleep, WorkerTake, WorkerVerify,
               WorkerAnswer, DestroyStop, DestroyJoined, vars
    <2>2. g_job_count = 0 /\ job = NULL /\ destroy_pc # "done"
        BY <2>1 DEF WorkerExit, JobInv, ThreadsFit
    <2>3. owed \in Seq(Serials) /\ Len(owed) = 0
        BY <2>2 DEF JobInv, JobTypeOK, RingHoldsOwed
    <2>4. QED
        BY <2>3, EmptySeq
<1>2. QED
    BY <1>1, JobInitInv, JobStepInv, PTL DEF Spec, DrainsBeforeExit
--------------------
(* The inductive invariant of the life cycle.                               *)

(* Types of the threads' and the cleanup's own state.                       *)
PlacesOK ==
    /\ main_at \in 0..15
    /\ alive \subseteq Resources /\ off_lost \in BOOLEAN
    /\ wd_enabled \in BOOLEAN /\ wd_pc \in {"none", "feed", "exited"}
    /\ running \in BOOLEAN /\ sock \in {"none", "open", "shut"}
    /\ reconn_pc \in {"check", "connect", "join", "callback", "exited"}
    /\ recv_pc \in {"none", "check", "recv", "notify", "apply", "exited"}
    /\ inj_pc \in {"idle", "run"}
    /\ uart_open \in BOOLEAN
    /\ poll_pc \in {"none", "send", "exited"}
    /\ uart_pc \in {"none", "read", "alarm", "exited"}

(* What the joins of the cleanup have waited for stays gone.                *)
JoinedIsGone ==
    /\ main_at > 2 => wd_pc # "feed"
    /\ main_at > 7 => worker_pc = "exited"
    /\ main_at > 9 => reconn_pc = "exited"
    /\ main_at > 11 => recv_pc = "none"
    /\ main_at > 13 => ~uart_open

(* What is not destroyed yet.                                               *)
StillAlive ==
    /\ wd_pc = "feed" => "gpio" \in alive /\ "wd_mutex" \in alive
    /\ main_at <= 7 => "cell_mutex" \in alive
    /\ main_at <= 12 => "tcp" \in alive
    /\ main_at <= 14 => "uart" \in alive
    /\ "inj_mutex" \in alive <=> "rs422" \in alive

(* An injection on the closed port was started through the destroyed mutex. *)
LateInjection == inj_pc = "run" /\ "rs422" \notin alive => <<Recv, "inj_mutex">> \in misuse

(* Where the transmit guard is used: a command is under way only in the     *)
(* middle of a job or of a disconnect, the gate is open only while there is *)
(* a receiver, and an OFF that fails is lost by the port or was never       *)
(* needed, because without a port the antenna was never switched on.        *)
TxSide ==
    /\ Applying(Worker) => worker_pc = "work"
    /\ Applying(Recv) => recv_pc = "apply"
    /\ g_bbu_link_ok => recv_pc \in {"check", "recv", "notify"}
    /\ uart_open /\ off_failed => off_lost
    /\ ~uart_open /\ main_at <= 13 => ~antenna_tx
    /\ off_failed => ~antenna_tx \/ off_lost

LifeInv == PlacesOK /\ JoinedIsGone /\ StillAlive /\ LateInjection /\ TxSide /\ NoUseAfterDestroy

--------------------
(* The positions of the cleanup.                                            *)
LEMMA AtPlace ==
    ASSUME main_at \in 0..15
    PROVE  /\ At("wd_stop") <=> main_at = 1
           /\ At("wd_join") <=> main_at = 2
           /\ At("wd_destroy") <=> main_at = 3
           /\ At("inj_abort") <=> main_at = 4
           /\ At("inj_wait") <=> main_at = 5
           /\ At("cell_stop") <=> main_at = 6
           /\ At("cell_join") <=> main_at = 7
           /\ At("tcp_stop") <=> main_at = 8
           /\ At("tcp_join_reconn") <=> main_at = 9
           /\ At("tcp_shutdown") <=> main_at = 10
           /\ At("tcp_join_recv") <=> main_at = 11
           /\ At("tcp_destroy") <=> main_at = 12
           /\ At("uart_close") <=> main_at = 13
           /\ At("uart_join") <=> main_at = 14
           /\ At("returned") <=> main_at = 15
<1>1. main_at \in {0, 1, 2, 3, 4, 5, 6, 7, 8, 9, 10, 11, 12, 13, 14, 15}
    OBVIOUS
<1>2. QED
    BY <1>1 DEF At, Cleanup

(* Whatever the threads do, the job queue takes its own steps only.         *)
LEMMA LifeJobStep == [LifeNext]_lifeVars => [Next]_vars
<1> SUFFICES ASSUME [LifeNext]_lifeVars PROVE [Next]_vars
    OBVIOUS
<1>1. CASE UNCHANGED lifeVars
    BY <1>1 DEF lifeVars
<1>2. CASE WatchdogThread \/ ReconnThread \/ InjectionThread \/ PollThread \/ UartThread \/ Terminate
    BY <1>2 DEF WatchdogThread, ReconnThread, InjectionThread, PollThread, UartThread, Terminate
<1>3. CASE WorkerThread
    BY <1>3 DEF WorkerThread, WorkerQueue, WorkerPart, WorkerReply, Next, WorkerStep
<1>4. CASE RecvProgress
    BY <1>4 DEF RecvProgress, RecvCheck, RecvEnds, RecvNotify, RecvApply
<1>5. CASE RecvInput
    BY <1>5 DEF RecvInput, PeerCloses, RecvMessage, RecvRequest, RecvSetup, RecvActivate, Next
<1>6. CASE CleanupStep
    BY <1>6 DEF CleanupStep, WatchdogCleanup, InjectionCleanup, CellCleanup, TcpCleanup, UartCleanup, Next
<1>7. CASE Returned
    BY <1>7 DEF Returned, lifeVars
<1>8. QED
    BY <1>1, <1>2, <1>3, <1>4, <1>5, <1>6, <1>7 DEF LifeNext

(* ... and so does the transmit guard.                                      *)
LEMMA LifeGuardStep == [LifeNext]_lifeVars => [GuardNext]_guardVars
<1> SUFFICES ASSUME [LifeNext]_lifeVars PROVE [GuardNext]_guardVars
    OBVIOUS
<1>0. Recv \in Notifiers /\ Recv \in Threads /\ Worker \in Threads
    BY LifeAssumption DEF Threads
<1>1. CASE UNCHANGED lifeVars
    BY <1>1 DEF lifeVars, txVars
<1>2. CASE WatchdogThread \/ ReconnThread \/ InjectionThread \/ PollThread \/ UartThread \/ Terminate
           \/ CleanupStep
    BY <1>2 DEF WatchdogThread, ReconnThread, InjectionThread, PollThread, UartThread, Terminate, CleanupStep, txVars
<1>3. CASE WorkerThread
    <2>1. ASSUME ApplyStep(Worker) PROVE GuardNext
        BY <1>0, <2>1 DEF ApplyStep, GuardNext
    <2>2. ASSUME UpdateTxControl(TRUE) \/ UpdateTxControl(FALSE) PROVE GuardNext
        BY <2>2 DEF GuardNext
    <2>3. QED
        BY <1>3, <2>1, <2>2 DEF WorkerThread, WorkerQueue, WorkerPart, WorkerReply, txVars
<1>4. CASE RecvProgress
    BY <1>0, <1>4 DEF RecvProgress, RecvCheck, RecvEnds, RecvNotify, RecvApply, ApplyStep, GuardNext, txVars
<1>5. CASE RecvInput
    BY <1>0, <1>5 DEF RecvInput, PeerCloses, RecvMessage, RecvRequest, RecvSetup, RecvActivate, GuardNext, txVars
<1>6. CASE Returned
    BY <1>6 DEF Returned, lifeVars, txVars
<1>7. QED
    BY <1>1, <1>2, <1>3, <1>4, <1>5, <1>6 DEF LifeNext

(* The whole process, its cleanup included, implements the job queue.       *)
THEOREM LifeRefinesJobs == LifeSpec => Spec
<1>1. LifeInit => Init
    BY DEF LifeInit
<1>2. QED
    BY <1>1, LifeJobStep, PTL DEF LifeSpec, Spec

(* ... and its uses of the transmit guard keep to the guard's specification,*)
(* from the main loop to the end of the cleanup.                            *)
THEOREM LifeRefinesGuard == LifeSpec => GuardSpec
<1>1. LifeInit => GuardInit
    BY DEF LifeInit
<1>2. QED
    BY <1>1, LifeGuardStep, PTL DEF LifeSpec, GuardSpec

--------------------
(* Using what is alive is no misuse.                                        *)
LEMMA TouchAlive == ASSUME NEW t, NEW R, R \subseteq alive, Touch(t, R) PROVE misuse' = misuse
BY DEF Touch

(* The start of main().                                                     *)
LEMMA LifeInitInv == LifeInit => LifeInv
<1> SUFFICES ASSUME LifeInit PROVE LifeInv
    OBVIOUS
<1> USE DEF LifeInit, Init, GuardInit
<1>1. PlacesOK
    <2>1. off_lost \in BOOLEAN
        OBVIOUS
    <2>2. QED
        BY <2>1 DEF PlacesOK, Starts, WatchdogUp, UartUp
<1>2. JoinedIsGone /\ LateInjection /\ NoUseAfterDestroy
    BY DEF JoinedIsGone, LateInjection, NoUseAfterDestroy
<1>3. StillAlive
    BY DEF StillAlive, Resources, Starts, WatchdogUp
<1>4. TxSide
    <2>1. ~Applying(Worker) /\ ~Applying(Recv)
        BY LifeAssumption DEF Applying, NoApply, Threads
    <2>2. QED
        BY <2>1 DEF TxSide
<1>5. QED
    BY <1>1, <1>2, <1>3, <1>4 DEF LifeInv

(* The threads that neither work on jobs nor report link events.            *)
LEMMA OtherThreadsStep ==
    ASSUME LifeInv,
           WatchdogThread \/ ReconnThread \/ InjectionThread \/ PollThread \/ UartThread \/ Terminate
    PROVE  LifeInv'
<1> USE DEF LifeInv, PlacesOK, JoinedIsGone, StillAlive, LateInjection, TxSide, NoUseAfterDestroy,
            vars, txVars, guardVars, wdVars, tcpVars, uartVars, Applying
<1>1. CASE WatchdogThread
    <2>1. misuse' = misuse
        BY <1>1, TouchAlive DEF WatchdogThread
    <2>2. QED
        BY <1>1, <2>1 DEF WatchdogThread
<1>2. CASE ReconnThread
    <2>1. misuse' = misuse
        <3>1. reconn_pc # "exited" => "tcp" \in alive
            OBVIOUS
        <3>2. ASSUME Touch("reconnect", {"tcp"}), reconn_pc # "exited" PROVE misuse' = misuse
            BY <3>1, <3>2, TouchAlive
        <3>3. QED
            BY <1>2, <3>2 DEF ReconnThread, ReconnCheck, ReconnFails, ReconnConnects, ReconnReceiver,
                              ReconnCallback
    <2>2. QED
        BY <1>2, <2>1 DEF ReconnThread, ReconnCheck, ReconnFails, ReconnConnects, ReconnReceiver,
                          ReconnCallback
<1>3. CASE InjectionThread
    BY <1>3 DEF InjectionThread, Touch
<1>4. CASE PollThread
    <2>1. misuse' = misuse
        BY <1>4 DEF PollThread, Touch
    <2>2. QED
        BY <1>4, <2>1 DEF PollThread
<1>5. CASE UartThread
    BY <1>5 DEF UartThread, UartRead, UartAlarm, Touch
<1>6. CASE Terminate
    BY <1>6 DEF Terminate, InLoop, Advance
<1>7. QED
    BY <1>1, <1>2, <1>3, <1>4, <1>5, <1>6

(* apply_tx_control: with the port open an OFF that fails is noted as lost, *)
(* with the port closed the antenna stays as it is.                         *)
LEMMA ApplyStepPort ==
    ASSUME LifeInv, GuardTypeOK, NEW t \in Threads, ApplyStep(t)
    PROVE  /\ g_bbu_link_ok' = g_bbu_link_ok
           /\ off_lost' \in BOOLEAN
           /\ uart_open /\ off_failed' => off_lost'
           /\ ~uart_open => antenna_tx' = antenna_tx
<1>0. /\ apply[t] \in ApplyRec /\ apply \in [Threads -> ApplyRec]
      /\ off_lost \in BOOLEAN /\ (uart_open /\ off_failed => off_lost)
    BY DEF GuardTypeOK, LifeInv, TxSide, PlacesOK
<1>1. CASE ApplyRecord(t) /\ UNCHANGED <<off_lost, misuse>>
    BY <1>0, <1>1 DEF ApplyRecord
<1>2. CASE /\ ApplySend(t)
           /\ ~uart_open => apply'[t] = NoApply
           /\ off_lost' = IF uart_open /\ ~apply[t].on THEN apply'[t] = NoApply ELSE off_lost
    <2>0. g_bbu_link_ok' = g_bbu_link_ok
        BY <1>2 DEF ApplySend
    <2>1. off_lost' \in BOOLEAN
        BY <1>0, <1>2
    <2>2. CASE /\ antenna_tx' = apply[t].on
               /\ apply' = [apply EXCEPT ![t].step = "record"]
               /\ off_failed' = (off_failed /\ apply[t].on)
        <3>1. apply'[t].step = "record"
            BY <1>0, <2>2 DEF ApplyRec
        <3>2. uart_open
            BY <1>2, <3>1 DEF NoApply
        <3>3. off_failed' => off_failed /\ off_lost' = off_lost
            BY <1>2, <2>2
        <3>4. QED
            BY <1>0, <2>0, <2>1, <3>2, <3>3
    <2>3. CASE /\ apply' = [apply EXCEPT ![t] = NoApply]
               /\ off_failed' = (off_failed \/ ~apply[t].on)
               /\ UNCHANGED antenna_tx
        <3>1. apply'[t] = NoApply
            BY <1>0, <2>3
        <3>2. ASSUME uart_open, off_failed' PROVE off_lost'
            <4>1. CASE apply[t].on
                BY <1>0, <1>2, <2>3, <3>2, <4>1
            <4>2. CASE ~apply[t].on
                BY <1>2, <3>1, <3>2, <4>2
            <4>3. QED
                BY <4>1, <4>2
        <3>3. QED
            BY <2>0, <2>1, <2>3, <3>2
    <2>4. QED
        BY <1>2, <2>2, <2>3 DEF ApplySend
<1>3. QED
    BY <1>1, <1>2 DEF ApplyStep

(* The worker.                                                              *)
LEMMA WorkerLifeStep == ASSUME LifeInv, GuardTypeOK, WorkerThread PROVE LifeInv'
<1> USE DEF LifeInv, PlacesOK, JoinedIsGone, StillAlive, LateInjection, TxSide, NoUseAfterDestroy,
            wdVars, tcpVars, uartVars
<1>0. UNCHANGED <<main_at, alive, wdVars, tcpVars, inj_pc, uartVars>>
    BY DEF WorkerThread
<1>1. CASE WorkerQueue
    BY <1>0, <1>1 DEF WorkerQueue, WorkerSleep, WorkerExit, WorkerTake, txVars, guardVars, Applying
<1>2. CASE WorkerPart
    <2>1. worker_pc = "work" /\ worker_pc' = "work"
        BY <1>2 DEF WorkerPart, WorkerVerify
    <2>2. misuse' = misuse
        BY <1>2, <2>1, TouchAlive DEF WorkerPart
    <2>3. /\ UNCHANGED <<g_bbu_link_ok, g_tx_on, antenna_tx, off_failed, off_lost>>
          /\ Applying(Recv)' <=> Applying(Recv)
        BY <1>2, LifeAssumption, ThreadAssumption
           DEF WorkerPart, UpdateTxControl, txVars, guardVars, Applying, GuardTypeOK, Threads
    <2>4. QED
        BY <1>0, <2>1, <2>2, <2>3
<1>3. CASE WorkerReply
    <2>1. worker_pc = "work" /\ worker_pc' = "check" /\ UNCHANGED txVars /\ ~Applying(Worker)
        BY <1>3 DEF WorkerReply, WorkerAnswer
    <2>2. misuse' = misuse
        BY <1>3, <2>1, TouchAlive DEF WorkerReply
    <2>3. QED
        BY <1>0, <2>1, <2>2 DEF txVars, guardVars, Applying
<1>4. CASE ApplyStep(Worker) /\ UNCHANGED vars
    <2>1. Applying(Worker) /\ worker_pc = "work" /\ worker_pc' = worker_pc
        BY <1>4 DEF ApplyStep, ApplySend, ApplyRecord, Applying, vars
    <2>2. misuse' = misuse
        BY <1>4, <2>1 DEF ApplyStep, Touch
    <2>3. Applying(Recv)' <=> Applying(Recv)
        BY <1>4, LifeAssumption, ThreadAssumption
           DEF ApplyStep, ApplySend, ApplyRecord, Applying, GuardTypeOK, Threads
    <2>4. /\ g_bbu_link_ok' = g_bbu_link_ok /\ off_lost' \in BOOLEAN
          /\ uart_open /\ off_failed' => off_lost'
          /\ ~uart_open => antenna_tx' = antenna_tx
        BY <1>4, ApplyStepPort DEF Threads
    <2>5. main_at <= 7
        BY <2>1
    <2>6. QED
        BY <1>0, <2>1, <2>2, <2>3, <2>4, <2>5
<1>5. QED
    BY <1>1, <1>2, <1>3, <1>4 DEF WorkerThread

(* The receiver: its loop, the disconnect it handles and what it receives.  *)
LEMMA RecvLifeStep == ASSUME LifeInv, GuardTypeOK, RecvProgress \/ RecvInput PROVE LifeInv'
<1> USE DEF LifeInv, PlacesOK, JoinedIsGone, StillAlive, LateInjection, TxSide, NoUseAfterDestroy,
            wdVars, uartVars
<1>0. UNCHANGED <<main_at, alive, wdVars, running, reconn_pc, uartVars>>
    BY DEF RecvProgress, RecvInput, RecvRest
<1>t. Recv \in Threads /\ Recv \in Notifiers /\ Worker \in Threads /\ Recv # Worker
    BY LifeAssumption, ThreadAssumption DEF Threads
<1>1. CASE RecvCheck \/ RecvEnds \/ PeerCloses
    BY <1>0, <1>1 DEF RecvCheck, RecvEnds, PeerCloses, vars, txVars, guardVars, Applying
<1>2. CASE RecvNotify
    <2>1. /\ recv_pc = "notify" /\ recv_pc' = "apply" /\ g_bbu_link_ok' = FALSE
          /\ UNCHANGED <<worker_pc, sock, misuse, inj_pc, antenna_tx, off_failed, off_lost>>
        BY <1>2 DEF RecvNotify, NotifyDown, vars
    <2>2. Applying(Worker)' <=> Applying(Worker)
        BY <1>2, <1>t DEF RecvNotify, NotifyDown, Applying, GuardTypeOK
    <2>3. QED
        BY <1>0, <2>1, <2>2
<1>3. CASE RecvApply
    <2>1. recv_pc = "apply" /\ UNCHANGED <<worker_pc, sock, inj_pc>>
        BY <1>3 DEF RecvApply, vars
    <2>2. CASE ApplyStep(Recv) /\ UNCHANGED recv_pc
        <3>1. misuse' = misuse
            BY <2>1, <2>2 DEF ApplyStep, Touch
        <3>2. Applying(Worker)' <=> Applying(Worker)
            BY <1>t, <2>2 DEF ApplyStep, ApplySend, ApplyRecord, Applying, GuardTypeOK
        <3>3. /\ g_bbu_link_ok' = g_bbu_link_ok /\ off_lost' \in BOOLEAN
              /\ uart_open /\ off_failed' => off_lost'
              /\ ~uart_open => antenna_tx' = antenna_tx
            BY <1>t, <2>2, ApplyStepPort
        <3>4. main_at <= 11
            BY <2>1
        <3>5. QED
            BY <1>0, <2>1, <2>2, <3>1, <3>2, <3>3, <3>4
    <2>3. CASE ~Applying(Recv) /\ recv_pc' = "exited" /\ UNCHANGED <<txVars, misuse>>
        BY <1>0, <2>1, <2>3 DEF txVars, guardVars, Applying
    <2>4. QED
        BY <1>3, <2>2, <2>3 DEF RecvApply
<1>4. CASE RecvMessage
    <2>1. recv_pc = "recv" /\ recv_pc' = "check" /\ sock' = sock
        BY <1>4 DEF RecvMessage
    <2>2. CASE RecvRequest
        <3>1. /\ worker_pc = "work" <=> worker_pc' = "work"
              /\ worker_pc = "exited" => worker_pc' = "exited"
            BY <2>2 DEF RecvRequest, Submit, SubmitBusy, Signal, vars
        <3>2. UNCHANGED <<txVars, misuse, inj_pc>>
            BY <2>2 DEF RecvRequest
        <3>3. QED
            BY <1>0, <2>1, <3>1, <3>2 DEF txVars, guardVars, Applying
    <2>3. CASE RecvSetup
        BY <1>0, <2>1, <2>3 DEF RecvSetup, NotifyUp, vars, Applying
    <2>4. CASE RecvActivate
        BY <1>0, <2>1, <2>4 DEF RecvActivate, Touch, vars, txVars, guardVars, Applying
    <2>5. QED
        BY <1>4, <2>2, <2>3, <2>4 DEF RecvMessage
<1>5. QED
    BY <1>1, <1>2, <1>3, <1>4 DEF RecvProgress, RecvInput

(* The cleanup in main().                                                   *)
LEMMA CleanupLifeStep == ASSUME LifeInv, CleanupStep PROVE LifeInv'
<1>0. main_at' = main_at + 1 /\ UNCHANGED <<txVars, misuse>>
    BY DEF CleanupStep, Advance
<1>a. main_at \in 0..15
    BY DEF LifeInv, PlacesOK
<1> USE <1>0, <1>a
    DEF LifeInv, PlacesOK, JoinedIsGone, StillAlive, LateInjection, TxSide, NoUseAfterDestroy,
        wdVars, tcpVars, uartVars, txVars, guardVars, Applying
<1>1. CASE WatchdogCleanup
    <2>0. UNCHANGED <<worker_pc, wd_pc, tcpVars, inj_pc, uartVars>>
        BY <1>1 DEF WatchdogCleanup, vars
    <2>1. CASE main_at = 1 /\ wd_enabled' = FALSE /\ UNCHANGED alive
        <3>1. PlacesOK'
            <4>1. wd_enabled' \in BOOLEAN
                BY <2>1
            <4>2. alive' = alive /\ main_at' \in 0..15
                BY <2>1
            <4>3. QED
                BY <2>0, <4>1, <4>2
        <3>2. JoinedIsGone' /\ StillAlive' /\ LateInjection' /\ NoUseAfterDestroy'
            BY <2>0, <2>1
        <3>3. TxSide'
            BY <2>0, <2>1
        <3>4. QED
            BY <3>1, <3>2, <3>3
    <2>2. CASE main_at = 2 /\ wd_pc \in {"none", "exited"} /\ UNCHANGED <<alive, wd_enabled>>
        BY <2>0, <2>2
    <2>3. CASE main_at = 3 /\ alive' = alive \ {"gpio", "wd_mutex"} /\ UNCHANGED wd_enabled
        <3>1. alive' \subseteq Resources /\ \A r : r \in alive' <=> r \in alive /\ r \notin {"gpio", "wd_mutex"}
            BY <2>0, <2>3
        <3>2. PlacesOK' /\ JoinedIsGone' /\ TxSide' /\ NoUseAfterDestroy'
            BY <2>0, <2>3, <3>1
        <3>3. StillAlive' /\ LateInjection'
            BY <2>0, <2>3, <3>1
        <3>4. QED
            BY <3>2, <3>3
    <2>4. QED
        BY <1>1, <2>1, <2>2, <2>3, AtPlace DEF WatchdogCleanup
<1>2. CASE InjectionCleanup
    <2>1. CASE main_at \in {4, 5} /\ UNCHANGED alive
        BY <1>2, <2>1 DEF InjectionCleanup, vars
    <2>2. CASE main_at = 5 /\ inj_pc = "idle" /\ alive' = alive \ {"inj_mutex", "rs422"}
        BY <1>2, <2>2 DEF InjectionCleanup, vars
    <2>3. QED
        BY <1>2, <2>1, <2>2, AtPlace DEF InjectionCleanup
<1>3. CASE CellCleanup
    <2>1. CASE main_at = 6 /\ DestroyStop /\ UNCHANGED alive
        BY <1>3, <2>1 DEF CellCleanup, DestroyStop, Signal
    <2>2. CASE main_at = 7 /\ DestroyJoined /\ alive' = alive \ {"cell_mutex"}
        BY <1>3, <2>2 DEF CellCleanup, DestroyJoined
    <2>3. QED
        BY <1>3, <2>1, <2>2, AtPlace DEF CellCleanup
<1>4. CASE TcpCleanup
    <2>0. UNCHANGED <<worker_pc, wdVars, inj_pc, uartVars>>
        BY <1>4 DEF TcpCleanup, vars
    <2>1. CASE main_at = 8 /\ running' = FALSE /\ UNCHANGED <<sock, reconn_pc, recv_pc, alive>>
        <3>1. PlacesOK'
            <4>1. running' \in BOOLEAN
                BY <2>1
            <4>2. UNCHANGED <<sock, reconn_pc, recv_pc, alive>> /\ main_at' \in 0..15
                BY <2>1
            <4>3. QED
                BY <2>0, <4>1, <4>2
        <3>2. JoinedIsGone' /\ StillAlive' /\ LateInjection' /\ NoUseAfterDestroy'
            BY <2>0, <2>1
        <3>3. TxSide'
            BY <2>0, <2>1
        <3>4. QED
            BY <3>1, <3>2, <3>3
    <2>2. CASE main_at = 9 /\ reconn_pc = "exited" /\ UNCHANGED <<tcpVars, alive>>
        BY <2>0, <2>2
    <2>3. CASE main_at = 10 /\ TcpShutdown
        BY <2>0, <2>3 DEF TcpShutdown
    <2>4. CASE /\ main_at = 11 /\ recv_pc \in {"none", "exited"} /\ recv_pc' = "none"
               /\ sock' = "none" /\ UNCHANGED <<running, reconn_pc, alive>>
        BY <2>0, <2>4
    <2>5. CASE main_at = 12 /\ alive' = alive \ {"tcp"} /\ UNCHANGED tcpVars
        <3>1. alive' \subseteq Resources /\ \A r : r \in alive' <=> r \in alive /\ r # "tcp"
            BY <2>0, <2>5
        <3>2. PlacesOK' /\ JoinedIsGone' /\ TxSide' /\ NoUseAfterDestroy'
            BY <2>0, <2>5, <3>1
        <3>3. StillAlive' /\ LateInjection'
            BY <2>0, <2>5, <3>1
        <3>4. QED
            BY <3>2, <3>3
    <2>6. QED
        BY <1>4, <2>1, <2>2, <2>3, <2>4, <2>5, AtPlace DEF TcpCleanup, TcpShutdown
<1>5. CASE UartCleanup
    <2>0. UNCHANGED <<worker_pc, wdVars, tcpVars, inj_pc, poll_pc, uart_pc>>
        BY <1>5 DEF UartCleanup, vars
    <2>1. CASE main_at = 13 /\ uart_open' = FALSE /\ UNCHANGED alive
        <3>1. PlacesOK'
            <4>1. uart_open' \in BOOLEAN
                BY <2>1
            <4>2. alive' = alive /\ main_at' \in 0..15
                BY <2>1
            <4>3. QED
                BY <2>0, <4>1, <4>2
        <3>2. JoinedIsGone' /\ StillAlive' /\ LateInjection' /\ NoUseAfterDestroy'
            BY <2>0, <2>1
        <3>3. TxSide'
            BY <2>0, <2>1
        <3>4. QED
            BY <3>1, <3>2, <3>3
    <2>2. CASE main_at = 14 /\ alive' = alive \ {"uart"} /\ UNCHANGED uart_open
        <3>1. alive' \subseteq Resources /\ \A r : r \in alive' <=> r \in alive /\ r # "uart"
            BY <2>0, <2>2
        <3>2. PlacesOK' /\ JoinedIsGone' /\ TxSide' /\ NoUseAfterDestroy'
            BY <2>0, <2>2, <3>1
        <3>3. StillAlive' /\ LateInjection'
            BY <2>0, <2>2, <3>1
        <3>4. QED
            BY <3>2, <3>3
    <2>3. QED
        BY <1>5, <2>1, <2>2, AtPlace DEF UartCleanup
<1>6. QED
    BY <1>1, <1>2, <1>3, <1>4, <1>5 DEF CleanupStep

(* Every step keeps the invariant.                                          *)
LEMMA LifeStepInv == LifeInv /\ GuardTypeOK /\ [LifeNext]_lifeVars => LifeInv'
<1> SUFFICES ASSUME LifeInv, GuardTypeOK, [LifeNext]_lifeVars PROVE LifeInv'
    OBVIOUS
<1>1. CASE UNCHANGED lifeVars
    BY <1>1 DEF lifeVars, vars, txVars, guardVars, wdVars, tcpVars, uartVars, Applying, LifeInv, PlacesOK,
                JoinedIsGone, StillAlive, LateInjection, TxSide, NoUseAfterDestroy
<1>2. QED
    BY <1>1, OtherThreadsStep, WorkerLifeStep, RecvLifeStep, CleanupLifeStep DEF LifeNext, Returned

(* The inductive invariants hold together.                                  *)
THEOREM LifeInvTheorem == LifeSpec => [](LifeInv /\ JobInv /\ GuardInv)
<1>1. LifeInit => LifeInv /\ JobInv /\ GuardInv
    BY LifeInitInv, JobInitInv, GuardInitInv DEF LifeInit
<1>2. GuardInv => GuardTypeOK
    BY DEF GuardInv
<1>3. QED
    BY <1>1, <1>2, LifeStepInv, LifeJobStep, LifeGuardStep, JobStepInv, GuardStepInv, PTL DEF LifeSpec

(* Type correctness of the whole process.                                   *)
THEOREM LifeTypeTheorem == LifeSpec => []LifeTypeOK
<1>1. Len(Cleanup) = 15
    BY DEF Cleanup
<1>2. LifeInv /\ JobInv /\ GuardInv => LifeTypeOK
    BY <1>1 DEF LifeInv, PlacesOK, JobInv, GuardInv, LifeTypeOK
<1>3. QED
    BY <1>2, LifeInvTheorem, PTL

(* No thread uses what the cleanup has destroyed, but for the two windows   *)
(* that the property names (main.c, from the label cleanup).                *)
THEOREM NoUseAfterDestroyTheorem == LifeSpec => []NoUseAfterDestroy
<1>1. LifeInv => NoUseAfterDestroy
    BY DEF LifeInv
<1>2. QED
    BY <1>1, LifeInvTheorem, PTL

(* When main() returns the transmitter is off: the receiver closed the gate *)
(* before it was joined, nobody is applying a command, and the OFF found an *)
(* open port, because the port is closed last.                              *)
THEOREM TxOffAfterShutdownTheorem == LifeSpec => []TxOffAfterShutdown
<1>1. LifeInv /\ GuardInv => TxOffAfterShutdown
    <2> SUFFICES ASSUME LifeInv, GuardInv, At("returned"), ~raced, ~off_lost PROVE ~antenna_tx
        BY DEF TxOffAfterShutdown
    <2>1. main_at = 15
        BY AtPlace DEF LifeInv, PlacesOK
    <2>2. recv_pc = "none" /\ worker_pc = "exited"
        BY <2>1 DEF LifeInv, JoinedIsGone
    <2>3. ~g_bbu_link_ok /\ ~Applying(Worker) /\ ~Applying(Recv) /\ (off_failed => ~antenna_tx \/ off_lost)
        BY <2>2 DEF LifeInv, TxSide
    <2>4. \A n \in Notifiers : apply[n].step # "send"
        BY <2>3, LifeAssumption DEF Applying
    <2>5. QED
        BY <2>3, <2>4 DEF GuardInv, OffUnderWay
<1>2. QED
    BY <1>1, LifeInvTheorem, PTL

(* The promises of the queue and of the guard hold in the whole process.    *)
THEOREM LifeKeepsPromises == LifeSpec => [](NothingLost /\ TxOffWhenLinkDown)
BY LifeRefinesJobs, LifeRefinesGuard, NothingLostTheorem, TxOffTheorem, PTL
====================
