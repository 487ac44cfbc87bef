---------- MODULE VersionManagerProofs ----------
(***************************************************************************)
(* Proofs about upgrades, for every set of versions, every start limit and *)
(* every number of activations, downloads, power cuts and failing writes.  *)
(* Each theorem names what the BBU must not do for it to hold.             *)
(***************************************************************************)
EXTENDS VersionManager, FiniteSetTheorems, TLAPS

TrialRecords == [new : Versions, prev : Versions, attempts : 0..MAX_STARTS]
Dirs         == {"absent", "partial", "bad", "ok", "torn"}
Activations  == [pc : {"idle", "arm", "link", "sync", "unnotify"}, v : Versions]

(* Types, in the form the proofs use.                                       *)
Types ==
    /\ current \in Versions /\ running \in Versions /\ known \subseteq Versions
    /\ trial \subseteq TrialRecords /\ \A s, t \in trial : s = t
    /\ dir \in [Versions -> Dirs] /\ unsynced \subseteq Versions /\ proven \subseteq Versions
    /\ proc \in {"down", "guard", "switched", "noticed", "exec", "run"}
    /\ act \in Activations
    /\ dl \in [Threads -> [pc : {"idle", "curl", "unpack", "verify"}, v : Versions]]
    /\ in_progress \in BOOLEAN /\ g_trial_confirmed \in BOOLEAN
    /\ failures \in Nat

(* Without a process there is neither an activation nor a download.         *)
Stopped == proc # "run" => act.pc = "idle" /\ ~in_progress

(* The gate is closed while a download runs, only one does, and the BBU     *)
(* has not been told that it succeeded.                                     *)
Gated ==
    /\ \A t \in Threads : dl[t].pc # "idle" => in_progress /\ dl[t].v \notin known
    /\ \A s, t \in Threads : dl[s].pc # "idle" /\ dl[t].pc # "idle" => s = t

BaseInv == Types /\ Stopped /\ Gated

(* What the link, the trial record, the BBU or an activation names has been *)
(* verified, and no download writes to it.                                  *)
DiskInv ==
    /\ CurrentUsable
    /\ \A t \in trial : Verified(t.prev)
    /\ \A v \in known : Verified(v)
    /\ act.pc \in {"arm", "link", "sync"} => ~in_progress /\ Verified(act.v)
    /\ \A t \in Threads : dl[t].pc # "idle" =>
          dl[t].v # current /\ \A r \in trial : r.prev # dl[t].v

(* A process that has not confirmed is the one the link names.              *)
SelfInv == proc = "run" /\ ~g_trial_confirmed => running = current /\ act.pc = "idle"

(* A version that has proved itself is complete on the disk itself.         *)
Sound == \A v \in proven : dir[v] = "ok" /\ v \notin unsynced

(* The trial record leads back to a version that has proved itself.         *)
TrialInv ==
    /\ UnprovenIsGuarded
    /\ act.pc = "arm" => trial = {}
    /\ proc = "run" /\ ~g_trial_confirmed /\ fate = "works" => dir[current] = "ok"
    /\ failures = 0 =>
          /\ Sound
          /\ \A t \in trial : t.prev \in proven
          /\ proc \in {"switched", "noticed"} => current \in proven
          /\ act.pc = "link" => /\ current \in proven
                                /\ act.v = current \/ \E t \in trial : t.new = act.v

--------------------
(* Operators                                                                *)

(* A complete version has its program: the guard and systemd find it.       *)
LEMMA ProgramThere ==
    ASSUME NEW v, dir[v] = "ok" PROVE HasProgram(v) = {TRUE}
BY DEF HasProgram

(* A set of at most one record has at most one element.                     *)
LEMMA AtMostOne ==
    ASSUME NEW S, \A s, t \in S : s = t PROVE IsFiniteSet(S) /\ Cardinality(S) <= 1
<1>1. CASE S = {}
    BY <1>1, FS_EmptySet
<1>2. CASE S # {}
    <2>1. PICK x \in S : TRUE
        BY <1>2
    <2>2. S = {x}
        BY <2>1
    <2>3. IsFiniteSet({x}) /\ Cardinality({x}) = 1
        BY FS_Singleton
    <2>4. QED
        BY <2>2, <2>3
<1>3. QED
    BY <1>1, <1>2

--------------------
(* Types and the download gate, whatever the BBU does                       *)

(* The guard counts starts, rolls back and forgets.                         *)
LEMMA BaseGuard ==
    ASSUME BaseInv, Guard PROVE BaseInv'
<1> USE DEF BaseInv
<1>1. /\ proc = "guard" \/ proc = "switched" \/ proc = "noticed"
      /\ proc' \in {"exec", "switched", "noticed"} /\ current' \in Versions
    BY DEF Guard, GuardNothing, GuardStale, GuardCount, GuardRollback, GuardNotice, GuardForget,
           Types, TrialRecords
<1>2. trial' \subseteq TrialRecords /\ (\A s, t \in trial' : s = t)
    <2>1. CASE trial' = trial \/ trial' = {}
        BY <2>1 DEF Types
    <2>2. ASSUME NEW t \in trial, t.attempts < MAX_STARTS,
                 trial' = {[t EXCEPT !.attempts = @ + 1]}
          PROVE  trial' \subseteq TrialRecords /\ (\A s, u \in trial' : s = u)
        <3>1. t \in TrialRecords /\ t.attempts + 1 \in 0..MAX_STARTS
            BY <2>2, VersionAssumption DEF Types, TrialRecords
        <3>2. QED
            BY <2>2, <3>1 DEF TrialRecords
    <2>3. QED
        BY <2>1, <2>2 DEF Guard, GuardNothing, GuardStale, GuardCount, GuardRollback,
                          GuardNotice, GuardForget
<1>3. failures' \in Nat
    <2>1. failures' = failures \/ failures' = failures + 1
        BY DEF Guard, GuardNothing, GuardStale, GuardCount, GuardRollback, GuardNotice, GuardForget,
               WriteFails
    <2>2. QED
        BY <2>1 DEF Types
<1>4. UNCHANGED <<dir, running, act, dl, in_progress, known, proven, g_trial_confirmed>>
    BY DEF Guard, GuardNothing, GuardStale, GuardCount, GuardRollback, GuardNotice, GuardForget,
           GuardCommon, dlVars
<1>5. unsynced' \subseteq Versions
    BY DEF Guard, GuardNothing, GuardStale, GuardCount, GuardRollback, GuardNotice, GuardForget,
           Sync, Types
<1>6. QED
    BY <1>1, <1>2, <1>3, <1>4, <1>5 DEF Types, Stopped, Gated

(* A process that ends, by itself or by a power cut.                        *)
Gone ==
    /\ ProcessGone
    /\ \/ UNCHANGED <<dir, unsynced, proven>>
       \/ (\E S \in SUBSET unsynced : Lose(S)) /\ Sync

(* What its end does to the disk: only bytes never synced are lost.         *)
LEMMA GoneKeeps ==
    ASSUME Types, Gone
    PROVE  /\ dir' \in [Versions -> Dirs] /\ unsynced' \subseteq unsynced /\ proven' \subseteq proven
           /\ \A v \in Versions : Verified(v) => Verified(v)'
           /\ \A v \in Versions \ unsynced : dir'[v] = dir[v]
           /\ \A v \in proven \ unsynced : v \in proven'
<1>1. CASE UNCHANGED <<dir, unsynced, proven>>
    BY <1>1 DEF Types, Verified
<1>2. ASSUME NEW S \in SUBSET unsynced, Lose(S), Sync
      PROVE  /\ dir' \in [Versions -> Dirs] /\ unsynced' \subseteq unsynced /\ proven' \subseteq proven
             /\ \A v \in Versions : Verified(v) => Verified(v)'
             /\ \A v \in Versions \ unsynced : dir'[v] = dir[v]
             /\ \A v \in proven \ unsynced : v \in proven'
    <2>1. dir' = [v \in Versions |-> IF v \in S /\ dir[v] = "ok" THEN "torn" ELSE dir[v]]
        BY <1>2 DEF Lose
    <2>2. dir' \in [Versions -> Dirs]
        BY <2>1 DEF Types, Dirs
    <2>3. \A v \in Versions : Verified(v) => Verified(v)'
        BY <2>1 DEF Verified
    <2>4. \A v \in Versions \ unsynced : dir'[v] = dir[v]
        BY <2>1
    <2>5. unsynced' = {} /\ proven' = proven \ S
        BY <1>2 DEF Lose, Sync
    <2>6. QED
        BY <2>2, <2>3, <2>4, <2>5
<1>3. QED
    BY <1>1, <1>2 DEF Gone

(* A process that ends takes its threads with it.                           *)
LEMMA BaseGone ==
    ASSUME BaseInv, Gone PROVE BaseInv'
<1> USE DEF BaseInv
<1>1. /\ UNCHANGED <<current, trial, running, known, failures>>
      /\ proc' = "down" /\ act' = Idle /\ dl' = [t \in Threads |-> Idle]
      /\ ~in_progress' /\ ~g_trial_confirmed'
    BY DEF Gone, ProcessGone
<1>2. in_progress' \in BOOLEAN /\ g_trial_confirmed' \in BOOLEAN
    BY DEF Gone, ProcessGone
<1>3. /\ Idle \in Activations /\ Idle.pc = "idle"
      /\ Idle \in [pc : {"idle", "curl", "unpack", "verify"}, v : Versions]
    BY VersionAssumption DEF Idle, Activations
<1>4. dl' \in [Threads -> [pc : {"idle", "curl", "unpack", "verify"}, v : Versions]]
    BY <1>1, <1>3
<1>5. Types'
    BY <1>1, <1>2, <1>3, <1>4, GoneKeeps DEF Types
<1>6. \A t \in Threads : dl'[t].pc = "idle"
    BY <1>1, <1>3
<1>7. QED
    BY <1>1, <1>3, <1>5, <1>6 DEF Stopped, Gated

(* Starting the program and running it.                                     *)
LEMMA BaseRun ==
    ASSUME BaseInv, StartService \/ ExecProgram \/ StableUptime
    PROVE  BaseInv'
<1> USE DEF BaseInv
<1>1. /\ UNCHANGED <<current, dir, unsynced, act, dl, in_progress, known, proven>>
      /\ running' \in Versions
      /\ proc' \in {"down", "guard", "exec", "run"}
      /\ proc' # "run" => proc # "run"
    BY DEF StartService, ExecProgram, StableUptime, diskVars, dlVars, ghosts, Types
<1>2. g_trial_confirmed' \in BOOLEAN
    BY DEF StartService, ExecProgram, StableUptime, Types
<1>3. failures' \in Nat
    <2>1. failures' = failures \/ failures' = failures + 1
        BY DEF StartService, ExecProgram, StableUptime, budget, WriteFails
    <2>2. QED
        BY <2>1 DEF Types
<1>4. trial' \subseteq TrialRecords /\ (\A s, t \in trial' : s = t)
    <2>1. CASE trial' \subseteq trial
        BY <2>1 DEF Types
    <2>2. CASE trial' = {IF t.new = current THEN [t EXCEPT !.attempts = 0] ELSE t : t \in trial}
        <3>1. \A t \in trial : [t EXCEPT !.attempts = 0] \in TrialRecords /\ t \in TrialRecords
            BY VersionAssumption DEF Types, TrialRecords
        <3>2. QED
            BY <2>2, <3>1 DEF Types
    <2>3. QED
        BY <2>1, <2>2 DEF StartService, ExecProgram, StableUptime, diskVars
<1>5. QED
    BY <1>1, <1>2, <1>3, <1>4 DEF Types, Stopped, Gated

(* The channel is set up: the record goes, then the notice.                 *)
LEMMA BaseChannel ==
    ASSUME BaseInv, ChannelEstablished \/ RemoveNotice PROVE BaseInv'
<1> USE DEF BaseInv
<1>1. /\ UNCHANGED <<current, dir, proc, running, dl, in_progress, known, failures>>
      /\ g_trial_confirmed' \in BOOLEAN /\ trial' \subseteq trial
      /\ unsynced' \subseteq unsynced /\ proven' \subseteq Versions
    BY DEF ChannelEstablished, RemoveNotice, trial_remove, Sync, Types, procVars, dlVars, ghosts,
           budget
<1>2. proc = "run"
    BY DEF ChannelEstablished, RemoveNotice, Stopped
<1>3. act' \in Activations
    BY VersionAssumption DEF ChannelEstablished, RemoveNotice, Types, Activations, Idle
<1>4. QED
    BY <1>1, <1>2, <1>3 DEF Types, Stopped, Gated

(* Activating a version.                                                    *)
LEMMA BaseActivation ==
    ASSUME BaseInv, Activation PROVE BaseInv'
<1> USE DEF BaseInv
<1> USE DEF Activation, Activate, ArmTrial, SwitchLink, ScheduleRestart
<1>1. /\ UNCHANGED <<dir, proc, running, known, proven, dl, in_progress, g_trial_confirmed>>
    BY DEF ActCommon, diskVars, procVars, dlVars, ghosts
<1>2. proc = "run"
    BY DEF Types, Stopped
<1>3. act' \in Activations /\ current' \in Versions
    BY VersionAssumption DEF Types, Activations, Idle, diskVars
<1>4. failures' \in Nat
    BY DEF WriteFails, Types
<1>5. trial' \subseteq TrialRecords /\ (\A s, t \in trial' : s = t)
    <2>1. CASE trial' = trial \/ trial' = {}
        BY <2>1 DEF Types
    <2>2. CASE trial' = {Record(act.v, current, 0)}
        BY <2>2, VersionAssumption DEF Types, TrialRecords, Activations, Record
    <2>3. QED
        BY <2>1, <2>2 DEF diskVars, trial_remove
<1>6. unsynced' \subseteq Versions
    BY DEF Types, trial_remove, Sync, diskVars
<1>7. QED
    BY <1>1, <1>2, <1>3, <1>4, <1>5, <1>6 DEF Types, Stopped, Gated

(* A request for a download closes the gate; nobody is inside then.         *)
LEMMA BaseRequest ==
    ASSUME BaseInv, NEW v \in Versions, DownloadRequest(v) PROVE BaseInv'
<1> USE DEF BaseInv
<1>1. /\ UNCHANGED <<current, trial, dir, unsynced, proven, proc, running, act, failures,
                     g_trial_confirmed>>
      /\ ~in_progress /\ proc = "run"
    BY DEF DownloadRequest, diskVars, procVars
<1>2. CASE UNCHANGED <<dl, in_progress, known>>
    BY <1>1, <1>2 DEF Types, Stopped, Gated
<1>3. ASSUME NEW t \in Threads, dl' = [dl EXCEPT ![t] = [pc |-> "curl", v |-> v]],
             CloseGate, known' = known \ {v}
      PROVE  BaseInv'
    <2>1. in_progress' \in BOOLEAN /\ in_progress'
        BY <1>3 DEF CloseGate
    <2>2. /\ dl' \in [Threads -> [pc : {"idle", "curl", "unpack", "verify"}, v : Versions]]
          /\ dl'[t] = [pc |-> "curl", v |-> v]
          /\ \A s \in Threads \ {t} : dl'[s] = dl[s]
        BY <1>3 DEF Types
    <2>3. Types'
        BY <1>1, <1>3, <2>1, <2>2 DEF Types
    <2>4. \A s \in Threads : dl[s].pc = "idle"
        BY <1>1 DEF Gated
    <2>5. \A s \in Threads : dl'[s].pc # "idle" => s = t
        BY <2>2, <2>4
    <2>6. dl'[t].v \notin known'
        BY <1>3, <2>2
    <2>7. Gated'
        BY <2>1, <2>5, <2>6 DEF Gated
    <2>8. QED
        BY <1>1, <2>3, <2>7 DEF Stopped
<1>4. QED
    BY <1>2, <1>3 DEF DownloadRequest, dlVars

(* What a step of the download thread does: it goes on, or reports its      *)
(* result and opens the gate.  Only its own directory is written.           *)
DlOutcome(t) ==
    /\ dl[t].pc # "idle"
    /\ UNCHANGED <<current, trial, proc, running, fate, act, g_trial_confirmed, failures>>
    /\ DirUnchanged \/ \E d \in Dirs : Write(dl[t].v, d)
    /\ \/ /\ dl' = [dl EXCEPT ![t] = Idle] /\ in_progress' = FALSE
          /\ \/ known' = known \ {dl[t].v}
             \/ known' = known \cup {dl[t].v} /\ Write(dl[t].v, "ok")
       \/ \E p \in {"unpack", "verify"} :
             dl' = [dl EXCEPT ![t].pc = p] /\ UNCHANGED <<in_progress, known>>

(* Every step of the download thread is of that kind: success is reported   *)
(* only of a package whose checksum matches.                                *)
LEMMA DlSteps ==
    ASSUME NEW t \in Threads, DlFetch(t) \/ DlUnpack(t) \/ DlVerify(t) PROVE DlOutcome(t)
<1> USE DEF DlCommon, procVars, budget, Finish, ReportResult, To, Dirs
<1>1. CASE DlFetch(t)
    BY <1>1 DEF DlFetch, DlOutcome
<1>2. CASE DlUnpack(t)
    BY <1>2 DEF DlUnpack, PackageRefused, DlOutcome
<1>3. CASE DlVerify(t)
    BY <1>3 DEF DlVerify, ChecksumMatches, SaveMetadata, remove_tree, DlOutcome
<1>4. QED
    BY <1>1, <1>2, <1>3

(* The download thread.                                                     *)
LEMMA BaseDownload ==
    ASSUME BaseInv, NEW t \in Threads, DlOutcome(t) PROVE BaseInv'
<1> USE DEF BaseInv
<1>1. /\ UNCHANGED <<current, trial, proc, running, act, failures, g_trial_confirmed>>
      /\ dl[t].pc # "idle" /\ in_progress /\ proc = "run" /\ dl[t].v \in Versions
      /\ \A s \in Threads \ {t} : dl[s].pc = "idle"
    BY DEF DlOutcome, Gated, Stopped, Types
<1>2. dir' \in [Versions -> Dirs] /\ unsynced' \subseteq Versions /\ proven' \subseteq Versions
    BY <1>1 DEF DlOutcome, Types, Write, DirUnchanged
<1>3. CASE /\ dl' = [dl EXCEPT ![t] = Idle] /\ in_progress' = FALSE
           /\ known' = known \ {dl[t].v} \/ known' = known \cup {dl[t].v}
    <2>1. in_progress' \in BOOLEAN
        BY <1>3
    <2>2. /\ Idle \in [pc : {"idle", "curl", "unpack", "verify"}, v : Versions]
          /\ Idle.pc = "idle"
        BY VersionAssumption DEF Idle
    <2>3. /\ dl' \in [Threads -> [pc : {"idle", "curl", "unpack", "verify"}, v : Versions]]
          /\ \A s \in Threads : dl'[s].pc = "idle"
        BY <1>1, <1>3, <2>2 DEF Types
    <2>4. known' \subseteq Versions
        BY <1>1, <1>3 DEF Types
    <2>5. Types'
        BY <1>1, <1>2, <2>1, <2>3, <2>4 DEF Types
    <2>6. QED
        BY <1>1, <2>3, <2>5 DEF Stopped, Gated
<1>4. ASSUME NEW p \in {"unpack", "verify"}, dl' = [dl EXCEPT ![t].pc = p],
             UNCHANGED <<in_progress, known>>
      PROVE  BaseInv'
    <2>1. /\ dl' \in [Threads -> [pc : {"idle", "curl", "unpack", "verify"}, v : Versions]]
          /\ dl'[t].v = dl[t].v /\ \A s \in Threads \ {t} : dl'[s] = dl[s]
        BY <1>4 DEF Types
    <2>2. Types'
        BY <1>1, <1>2, <1>4, <2>1 DEF Types
    <2>3. QED
        BY <1>1, <1>4, <2>1, <2>2 DEF Stopped, Gated
<1>5. QED
    BY <1>3, <1>4 DEF DlOutcome

(* What a step of the specification is.                                     *)
LEMMA NextCases ==
    ASSUME [Next]_vars
    PROVE  \/ StartService \/ Guard \/ ExecProgram \/ StableUptime
           \/ ChannelEstablished \/ RemoveNotice \/ Gone \/ Activation
           \/ (\E v \in Versions : DownloadRequest(v))
           \/ (\E t \in Threads : DlOutcome(t))
           \/ UNCHANGED vars
BY DlSteps DEF Next, Boot, Crash, PowerCut, RestartNow, Gone, Download

(* Types, the gate and the life of the threads, for every habit of the BBU. *)
THEOREM BaseInvTheorem == Spec => []BaseInv
<1>1. Init => BaseInv
    <2> SUFFICES ASSUME Init PROVE BaseInv
        OBVIOUS
    <2>1. /\ Idle \in Activations /\ Idle.pc = "idle"
          /\ Idle \in [pc : {"idle", "curl", "unpack", "verify"}, v : Versions]
        BY VersionAssumption DEF Idle, Activations
    <2>2. /\ in_progress \in BOOLEAN /\ g_trial_confirmed \in BOOLEAN /\ failures \in Nat
          /\ ~in_progress
        BY DEF Init
    <2>3. dir \in [Versions -> Dirs]
        BY DEF Init, Dirs
    <2>4. /\ dl \in [Threads -> [pc : {"idle", "curl", "unpack", "verify"}, v : Versions]]
          /\ \A t \in Threads : dl[t].pc = "idle"
        BY <2>1 DEF Init
    <2>5. /\ current \in Versions /\ running \in Versions /\ known = {} /\ trial = {}
          /\ unsynced = {} /\ proven \subseteq Versions
        BY VersionAssumption DEF Init
    <2>6. proc = "down" /\ act = Idle
        BY DEF Init
    <2>7. Types
        BY <2>1, <2>2, <2>3, <2>4, <2>5, <2>6 DEF Types
    <2>8. QED
        BY <2>1, <2>2, <2>4, <2>6, <2>7 DEF BaseInv, Stopped, Gated
<1>2. BaseInv /\ [Next]_vars => BaseInv'
    <2> SUFFICES ASSUME BaseInv, [Next]_vars PROVE BaseInv'
        OBVIOUS
    <2>1. CASE UNCHANGED vars
        BY <2>1 DEF vars, diskVars, procVars, dlVars, ghosts, budget, BaseInv, Types, Stopped,
                    Gated
    <2>2. QED
        BY <2>1, NextCases, BaseGuard, BaseGone, BaseRun, BaseChannel, BaseActivation,
           BaseRequest, BaseDownload
<1>3. QED
    BY <1>1, <1>2, PTL DEF Spec

(* At most one trial record, with a count the guard can act on.             *)
THEOREM VersionTypeTheorem == Spec => []VersionTypeOK
<1>1. BaseInv => VersionTypeOK
    <2> SUFFICES ASSUME BaseInv PROVE VersionTypeOK
        OBVIOUS
    <2>1. Cardinality(trial) <= 1
        BY AtMostOne DEF BaseInv, Types
    <2>2. QED
        BY <2>1 DEF BaseInv, Types, VersionTypeOK, TrialRecords, Dirs
<1>2. QED
    BY <1>1, BaseInvTheorem, PTL

(* Two download threads never work at the same time, although the request,  *)
(* the thread and a lost process open and close the gate.                   *)
THEOREM OneDownloadTheorem == Spec => []OneDownload
<1>1. BaseInv => OneDownload
    <2> SUFFICES ASSUME BaseInv PROVE OneDownload
        OBVIOUS
    <2> DEFINE S == {t \in Threads : dl[t].pc # "idle"}
    <2>1. CASE in_progress
        <3>1. \A s, t \in S : s = t
            BY DEF BaseInv, Gated
        <3> HIDE DEF S
        <3>2. Cardinality(S) <= 1
            BY <3>1, AtMostOne
        <3>3. QED
            BY <2>1, <3>2 DEF OneDownload, S
    <2>2. CASE ~in_progress
        <3>1. S = {}
            BY <2>2 DEF BaseInv, Gated
        <3>2. Cardinality(S) = 0
            BY <3>1, FS_EmptySet
        <3>3. QED
            BY <2>2, <3>2 DEF OneDownload
    <2>3. QED
        BY <2>1, <2>2
<1>2. QED
    BY <1>1, BaseInvTheorem, PTL

--------------------
(* The link always names a complete version                                 *)

(* The guard goes back to a version whose directory is complete.            *)
LEMMA DiskGuard ==
    ASSUME BaseInv, DiskInv, Guard PROVE DiskInv'
<1>1. UNCHANGED <<dir, act, dl, in_progress, known>> /\ proc # "run"
    BY DEF Guard, GuardNothing, GuardStale, GuardCount, GuardRollback, GuardNotice, GuardForget,
           GuardCommon, dlVars
<1>2. \A t \in Threads : dl[t].pc = "idle"
    BY <1>1 DEF BaseInv, Stopped, Gated
<1>3. current' = current \/ \E t \in trial : current' = t.prev
    BY DEF Guard, GuardNothing, GuardStale, GuardCount, GuardRollback, GuardNotice, GuardForget
<1>4. \A r \in trial' : \E t \in trial : r.prev = t.prev
    <2>1. ASSUME NEW t \in trial, trial' = {[t EXCEPT !.attempts = @ + 1]}
          PROVE  \A r \in trial' : r.prev = t.prev
        BY <2>1 DEF BaseInv, Types, TrialRecords
    <2>2. QED
        BY <2>1 DEF Guard, GuardNothing, GuardStale, GuardCount, GuardRollback, GuardNotice,
                    GuardForget
<1>5. QED
    BY <1>1, <1>2, <1>3, <1>4 DEF DiskInv, CurrentUsable, Verified

(* Starting and running the program writes nothing but the trial record.    *)
LEMMA DiskRun ==
    ASSUME BaseInv, DiskInv,
           StartService \/ ExecProgram \/ StableUptime \/ ChannelEstablished \/ RemoveNotice
    PROVE  DiskInv'
<1>1. UNCHANGED <<current, dir, dl, in_progress, known>>
    BY DEF StartService, ExecProgram, ChannelEstablished, RemoveNotice, StableUptime, diskVars,
           dlVars, ghosts
<1>2. act' = act \/ act'.pc \in {"idle", "unnotify"}
    <2>1. CASE StartService \/ ExecProgram \/ StableUptime
        BY <2>1 DEF StartService, ExecProgram, StableUptime
    <2>2. CASE ChannelEstablished
        BY <2>2 DEF ChannelEstablished, BaseInv, Types, Activations
    <2>3. CASE RemoveNotice
        BY <2>3 DEF RemoveNotice, Idle
    <2>4. QED
        BY <2>1, <2>2, <2>3
<1>3. \A r \in trial' : \E t \in trial : r.prev = t.prev
    <2>1. CASE trial' \subseteq trial
        BY <2>1
    <2>2. CASE trial' = {IF t.new = current THEN [t EXCEPT !.attempts = 0] ELSE t : t \in trial}
        BY <2>2 DEF BaseInv, Types, TrialRecords
    <2>3. QED
        BY <2>1, <2>2 DEF StartService, ExecProgram, ChannelEstablished, RemoveNotice,
                          StableUptime, trial_remove, diskVars
<1>4. QED
    BY <1>1, <1>2, <1>3 DEF DiskInv, CurrentUsable, Verified

(* The end of the process loses no version that has been verified.          *)
LEMMA DiskGone ==
    ASSUME BaseInv, DiskInv, Gone PROVE DiskInv'
<1>1. /\ UNCHANGED <<current, trial, known>>
      /\ act' = Idle /\ dl' = [t \in Threads |-> Idle]
    BY DEF Gone, ProcessGone
<1>2. act'.pc = "idle" /\ \A t \in Threads : dl'[t].pc = "idle"
    BY <1>1 DEF Idle
<1>3. /\ current \in Versions /\ known \subseteq Versions
      /\ \A t \in trial : t.prev \in Versions
    BY DEF BaseInv, Types, TrialRecords
<1>4. \A v \in Versions : Verified(v) => Verified(v)'
    BY GoneKeeps DEF BaseInv
<1>5. CurrentUsable'
    BY <1>1, <1>3, <1>4 DEF DiskInv, CurrentUsable, Verified
<1>6. (\A t \in trial : Verified(t.prev))' /\ (\A v \in known : Verified(v))'
    BY <1>1, <1>3, <1>4 DEF DiskInv, Verified
<1>7. QED
    BY <1>2, <1>5, <1>6 DEF DiskInv

(* An activation begins with a version known to be complete, while nothing  *)
(* is downloaded; the version in use becomes the one to go back to.         *)
LEMMA DiskActivation ==
    ASSUME "unfinished" \notin BbuHabits, BaseInv, DiskInv, Activation PROVE DiskInv'
<1>1. UNCHANGED <<dir, dl, in_progress, known>>
    BY DEF Activation, Activate, ArmTrial, SwitchLink, ScheduleRestart, ActCommon, diskVars,
           dlVars, ghosts
<1>2. CASE \E v \in Versions : Activate(v)
    <2>1. PICK v \in Versions : Activate(v)
        BY <1>2
    <2>2. UNCHANGED <<current, trial>> /\ v \in known /\ ~in_progress
        BY <2>1 DEF Activate, Patient, diskVars
    <2>3. act' = act \/ act'.v = v
        BY <2>1 DEF Activate
    <2>4. QED
        BY <1>1, <2>2, <2>3 DEF DiskInv, CurrentUsable, Verified
<1>3. CASE ArmTrial
    <2>1. /\ act.pc = "arm" /\ act'.v = act.v /\ current' = current
          /\ \A r \in trial' : r \in trial \/ r.prev = current
        BY <1>3 DEF ArmTrial, Record, trial_remove, BaseInv, Types, Activations
    <2>2. \A t \in Threads : dl[t].pc = "idle"
        BY <2>1 DEF DiskInv, BaseInv, Gated
    <2>3. QED
        BY <1>1, <2>1, <2>2 DEF DiskInv, CurrentUsable, Verified
<1>4. CASE SwitchLink
    <2>1. /\ act.pc = "link"
          /\ act'.pc = "idle" \/ (act'.pc = "sync" /\ act'.v = act.v)
          /\ current' \in {current, act.v} /\ trial' \subseteq trial
        BY <1>4 DEF SwitchLink, Idle, trial_remove, BaseInv, Types, Activations
    <2>2. \A t \in Threads : dl[t].pc = "idle"
        BY <2>1 DEF DiskInv, BaseInv, Gated
    <2>3. QED
        BY <1>1, <2>1, <2>2 DEF DiskInv, CurrentUsable, Verified
<1>5. CASE ScheduleRestart
    <2>1. act'.pc = "idle" /\ UNCHANGED <<current, trial>>
        BY <1>5 DEF ScheduleRestart, Idle
    <2>2. QED
        BY <1>1, <2>1 DEF DiskInv, CurrentUsable, Verified
<1>6. QED
    BY <1>2, <1>3, <1>4, <1>5 DEF Activation

(* A download is not begun for a version in use.                            *)
LEMMA DiskRequest ==
    ASSUME "in_use" \notin BbuHabits, BaseInv, DiskInv,
           NEW v \in Versions, DownloadRequest(v)
    PROVE  DiskInv'
<1>1. /\ UNCHANGED <<current, trial, dir, act>> /\ act.pc = "idle"
      /\ v \notin InUse
    BY DEF DownloadRequest, diskVars
<1>2. known' \subseteq known
    BY DEF DownloadRequest
<1>3. v # current /\ \A r \in trial : r.prev # v
    BY <1>1 DEF InUse
<1>4. \A t \in Threads : dl'[t].pc # "idle" => dl'[t] = dl[t] \/ dl'[t].v = v
    BY DEF DownloadRequest, dlVars, BaseInv, Types
<1>5. QED
    BY <1>1, <1>2, <1>3, <1>4 DEF DiskInv, CurrentUsable, Verified

(* A download writes to its own directory, which nothing else names.        *)
LEMMA DiskDownload ==
    ASSUME BaseInv, DiskInv, NEW t \in Threads, DlOutcome(t) PROVE DiskInv'
<1>1. /\ UNCHANGED <<current, trial, act>> /\ dl[t].pc # "idle"
      /\ act.pc \notin {"arm", "link", "sync"}
      /\ dl[t].v \in Versions /\ dl[t].v \notin known
    BY DEF DlOutcome, DiskInv, BaseInv, Gated, Types
<1>2. \A v \in Versions : v # dl[t].v => dir'[v] = dir[v]
    BY DEF DlOutcome, Write, DirUnchanged, BaseInv, Types
<1>3. dl[t].v # current /\ \A r \in trial : r.prev # dl[t].v
    BY <1>1 DEF DiskInv
<1>4. \A v \in known' : dir'[v] \in {"ok", "torn"}
    <2>1. CASE known' \subseteq known
        BY <1>1, <1>2, <2>1 DEF DiskInv, Verified, BaseInv, Types
    <2>2. CASE known' = known \cup {dl[t].v} /\ Write(dl[t].v, "ok")
        BY <1>1, <1>2, <2>2 DEF DiskInv, Verified, Write, BaseInv, Types
    <2>3. QED
        BY <2>1, <2>2 DEF DlOutcome
<1>5. \A s \in Threads : dl'[s].pc # "idle" => dl[s].pc # "idle" /\ dl'[s].v = dl[s].v
    BY <1>1 DEF DlOutcome, BaseInv, Types, Idle
<1>6. \A r \in trial : r.prev \in Versions
    BY DEF BaseInv, Types, TrialRecords
<1>7. current \in Versions
    BY DEF BaseInv, Types
<1>8. QED
    BY <1>1, <1>2, <1>3, <1>4, <1>5, <1>6, <1>7 DEF DiskInv, CurrentUsable, Verified

(* One step of the specification keeps the disk in order.                   *)
LEMMA DiskStep ==
    ASSUME "in_use" \notin BbuHabits, "unfinished" \notin BbuHabits,
           BaseInv, DiskInv, [Next]_vars
    PROVE  DiskInv'
<1>1. CASE UNCHANGED vars
    BY <1>1 DEF vars, diskVars, procVars, dlVars, ghosts, DiskInv, CurrentUsable, Verified
<1>2. QED
    BY <1>1, NextCases, DiskGuard, DiskRun, DiskGone, DiskActivation, DiskRequest, DiskDownload

(* The disk is in order from the start.                                     *)
LEMMA DiskInit == Init => DiskInv
<1> SUFFICES ASSUME Init PROVE DiskInv
    OBVIOUS
<1>1. dir[current] = "ok" /\ trial = {} /\ known = {} /\ act.pc = "idle"
    BY VersionAssumption DEF Init, Idle
<1>2. \A t \in Threads : dl[t].pc = "idle"
    BY DEF Init, Idle
<1>3. QED
    BY <1>1, <1>2 DEF DiskInv, CurrentUsable, Verified

(* When the BBU neither downloads a version in use nor activates one whose  *)
(* download it does not know to have succeeded, the link names a complete,  *)
(* verified version at every instant; a power cut may take from it no more  *)
(* than bytes that were never forced to the disk.                           *)
THEOREM CurrentUsableTheorem ==
    ASSUME "in_use" \notin BbuHabits, "unfinished" \notin BbuHabits
    PROVE  Spec => []CurrentUsable
<1>1. BaseInv /\ DiskInv /\ [Next]_vars => DiskInv'
    BY DiskStep
<1>2. DiskInv => CurrentUsable
    BY DEF DiskInv
<1>3. QED
    BY DiskInit, BaseInvTheorem, <1>1, <1>2, PTL DEF Spec

(* Under the same habits the link is switched to verified versions only, by *)
(* the BBU's activation and by the guard's rollback.                        *)
THEOREM ActivatesVerifiedTheorem ==
    ASSUME "in_use" \notin BbuHabits, "unfinished" \notin BbuHabits
    PROVE  Spec => ActivatesVerified
<1>1. BaseInv /\ DiskInv /\ [Next]_vars => [current' # current => Verified(current')]_vars
    <2> SUFFICES ASSUME BaseInv, DiskInv, [Next]_vars, current' # current
                 PROVE  Verified(current')
        OBVIOUS
    <2>1. dir' = dir
        BY NextCases DEF StartService, Guard, GuardNothing, GuardStale, GuardCount,
           GuardRollback, GuardNotice, GuardForget, GuardCommon, ExecProgram, Gone, ProcessGone,
           ChannelEstablished, RemoveNotice, StableUptime, Activation, Activate, ArmTrial,
           SwitchLink, ScheduleRestart, ActCommon, DownloadRequest, DlOutcome, vars, diskVars
    <2>2. QED
        BY <2>1, DiskStep DEF DiskInv, CurrentUsable, Verified
<1>2. BaseInv /\ DiskInv /\ [Next]_vars => DiskInv'
    BY DiskStep
<1>3. QED
    BY DiskInit, BaseInvTheorem, <1>1, <1>2, PTL DEF Spec, ActivatesVerified

--------------------
(* The new version confirms itself                                          *)

(* One step keeps an unconfirmed process the one the link names.            *)
LEMMA SelfStep ==
    ASSUME "before_setup" \notin BbuHabits, BaseInv, SelfInv, [Next]_vars
    PROVE  SelfInv'
<1>1. CASE StartService \/ Guard \/ Gone
    <2>1. proc' # "run"
        BY <1>1 DEF StartService, Gone, ProcessGone, Guard, GuardNothing, GuardStale, GuardCount,
                    GuardRollback, GuardNotice, GuardForget
    <2>2. QED
        BY <2>1 DEF SelfInv
<1>2. CASE ExecProgram
    BY <1>2 DEF ExecProgram, SelfInv, BaseInv, Stopped
<1>3. CASE ChannelEstablished \/ RemoveNotice \/ StableUptime
    BY <1>3 DEF ChannelEstablished, RemoveNotice, StableUptime, SelfInv, procVars, BaseInv, Stopped
<1>4. CASE Activation
    <2>1. g_trial_confirmed /\ g_trial_confirmed' = g_trial_confirmed
        BY <1>4 DEF Activation, Activate, Patient, ArmTrial, SwitchLink, ScheduleRestart,
                    ActCommon, procVars, SelfInv, BaseInv, Stopped
    <2>2. QED
        BY <2>1 DEF SelfInv
<1>5. CASE \/ \E v \in Versions : DownloadRequest(v)
           \/ \E t \in Threads : DlOutcome(t)
           \/ UNCHANGED vars
    BY <1>5 DEF DownloadRequest, DlOutcome, vars, diskVars, procVars, SelfInv
<1>6. QED
    BY NextCases, <1>1, <1>2, <1>3, <1>4, <1>5

(* When the BBU activates nothing before the channel is set up, a trial is  *)
(* ended only by the version on trial, never by the old program that still  *)
(* runs between the switch of the link and the restart.                     *)
THEOREM ConfirmsItselfTheorem ==
    ASSUME "before_setup" \notin BbuHabits
    PROVE  Spec => ConfirmsItself
<1>1. Init => SelfInv
    BY DEF Init, SelfInv
<1>2. BaseInv /\ SelfInv /\ [Next]_vars => SelfInv'
    BY SelfStep
<1>3. BaseInv /\ SelfInv /\ [Next]_vars =>
         [~g_trial_confirmed /\ g_trial_confirmed' =>
             \A t \in trial : t.new = current => running = t.new]_vars
    <2> SUFFICES ASSUME SelfInv, [Next]_vars, ~g_trial_confirmed, g_trial_confirmed'
                 PROVE  running = current
        OBVIOUS
    <2>1. ChannelEstablished
        BY NextCases DEF StartService, Guard, GuardNothing, GuardStale, GuardCount,
           GuardRollback, GuardNotice, GuardForget, GuardCommon, ExecProgram, Gone, ProcessGone,
           RemoveNotice, StableUptime, Activation, Activate, ArmTrial, SwitchLink,
           ScheduleRestart, ActCommon, DownloadRequest, DlOutcome, vars, procVars
    <2>2. QED
        BY <2>1 DEF ChannelEstablished, SelfInv
<1>4. QED
    BY BaseInvTheorem, <1>1, <1>2, <1>3, PTL DEF Spec, ConfirmsItself

--------------------
(* A version that has not proved itself is on trial                         *)

(* The guard counts, rolls back to a proven version, or drops a record that *)
(* is not about the version in use.                                         *)
LEMMA TrialGuard ==
    ASSUME BaseInv, DiskInv, TrialInv, Guard PROVE TrialInv'
<1>1. /\ UNCHANGED <<act, proven, dir>> /\ act.pc = "idle" /\ proc' # "run"
      /\ unsynced' \subseteq unsynced
    BY DEF Guard, GuardNothing, GuardStale, GuardCount, GuardRollback, GuardNotice, GuardForget,
           GuardCommon, Sync, BaseInv, Stopped
<1>2. failures' = failures \/ (failures' = failures + 1 /\ failures' # 0)
    <2>1. failures' = failures \/ failures' = failures + 1
        BY DEF Guard, GuardNothing, GuardStale, GuardCount, GuardRollback, GuardNotice,
               GuardForget, WriteFails
    <2>2. QED
        BY <2>1 DEF BaseInv, Types
<1> SUFFICES ASSUME failures' = failures, failures = 0
             PROVE  /\ \A t \in trial' : t.prev \in proven
                    /\ proc' \in {"switched", "noticed"} => current' \in proven
                    /\ current' \notin proven => \E t \in trial' : t.new = current'
    BY <1>1, <1>2 DEF TrialInv, UnprovenIsGuarded, Sound
<1>3. /\ \A t \in trial : t.prev \in proven
      /\ proc \in {"switched", "noticed"} => current \in proven
      /\ current \notin proven => \E t \in trial : t.new = current
    BY DEF TrialInv, UnprovenIsGuarded
<1>4. \A s, t \in trial : s = t
    BY DEF BaseInv, Types
<1>5. CASE GuardNothing
    BY <1>3, <1>5 DEF GuardNothing
<1>6. CASE GuardStale
    BY <1>3, <1>4, <1>6 DEF GuardStale
<1>7. CASE GuardCount
    <2>1. PICK t \in trial : \/ trial' = {[t EXCEPT !.attempts = @ + 1]}
                             \/ trial' = trial
        BY <1>7 DEF GuardCount
    <2>2. t \in TrialRecords
        BY DEF BaseInv, Types
    <2>3. [t EXCEPT !.attempts = @ + 1].new = t.new /\ [t EXCEPT !.attempts = @ + 1].prev = t.prev
        BY <2>2 DEF TrialRecords
    <2>4. current' = current /\ proc' = "exec"
        BY <1>7 DEF GuardCount
    <2>5. QED
        BY <1>3, <1>4, <2>1, <2>3, <2>4
<1>8. CASE GuardRollback
    <2>1. PICK t \in trial :
             \/ TRUE \in HasProgram(t.prev) /\ current' = t.prev /\ trial' = trial
             \/ WriteFails \/ FALSE \in HasProgram(t.prev)
        BY <1>8 DEF GuardRollback
    <2>2. HasProgram(t.prev) = {TRUE}
        BY <1>3, ProgramThere DEF TrialInv, Sound
    <2>3. ~WriteFails
        BY DEF WriteFails
    <2>4. current' = t.prev /\ trial' = trial
        BY <2>1, <2>2, <2>3
    <2>5. QED
        BY <1>3, <2>4
<1>9. CASE GuardNotice
    BY <1>3, <1>9 DEF GuardNotice
<1>10. CASE GuardForget
    BY <1>3, <1>10 DEF GuardForget
<1>11. QED
    BY <1>5, <1>6, <1>7, <1>8, <1>9, <1>10 DEF Guard

(* Starting the program, its confirmation and its uptime: a record goes     *)
(* only when the version it is about has proved itself.                     *)
LEMMA TrialRun ==
    ASSUME BaseInv, SelfInv, TrialInv,
           StartService \/ ExecProgram \/ ChannelEstablished \/ RemoveNotice \/ StableUptime
    PROVE  TrialInv'
<1>1. UNCHANGED <<current, dir>> /\ proc' \notin {"switched", "noticed"}
    BY DEF StartService, ExecProgram, ChannelEstablished, RemoveNotice, StableUptime, diskVars,
           procVars, BaseInv, Stopped
<1>2. CASE StartService
    BY <1>1, <1>2 DEF StartService, diskVars, ghosts, budget, TrialInv, UnprovenIsGuarded, Sound
<1>3. CASE ExecProgram
    <2>1. UNCHANGED <<proven, failures, act, unsynced>> /\ act.pc = "idle"
        BY <1>3 DEF ExecProgram, ghosts, budget, BaseInv, Stopped
    <2>2. trial' = trial \/ trial' = {t \in trial : t.new = current}
        BY <1>3 DEF ExecProgram
    <2>3. proc' = "run" /\ fate' = "works" => dir[current] = "ok"
        BY <1>3 DEF ExecProgram, Fates
    <2>4. QED
        BY <1>1, <2>1, <2>2, <2>3 DEF TrialInv, UnprovenIsGuarded, Sound
<1>4. CASE ChannelEstablished
    <2>1. /\ trial' = {} /\ failures' = failures /\ proven' = proven \cup {current}
          /\ dir[current] = "ok" /\ g_trial_confirmed' /\ act'.pc = "unnotify"
        BY <1>4 DEF ChannelEstablished, trial_remove, SelfInv, TrialInv, budget, BaseInv, Types,
                    Activations
    <2>2. unsynced' = {} \/ (unsynced' = unsynced /\ trial = {})
        BY <1>4 DEF ChannelEstablished, trial_remove, Sync
    <2>3. failures = 0 => Sound'
        BY <1>1, <2>1, <2>2 DEF TrialInv, UnprovenIsGuarded, Sound
    <2>4. QED
        BY <1>1, <2>1, <2>3 DEF TrialInv, UnprovenIsGuarded
<1>5. CASE RemoveNotice
    <2>1. /\ UNCHANGED <<trial, unsynced, proven, failures, proc, fate, g_trial_confirmed>>
          /\ act'.pc = "idle"
        BY <1>5 DEF RemoveNotice, procVars, ghosts, budget, Idle
    <2>2. QED
        BY <1>1, <2>1 DEF TrialInv, UnprovenIsGuarded, Sound
<1>6. CASE StableUptime
    <2>1. /\ UNCHANGED <<proven, unsynced, proc, fate, act, g_trial_confirmed>>
          /\ act.pc = "idle"
        BY <1>6 DEF StableUptime, SelfInv
    <2>2. failures' = failures \/ (failures' = failures + 1 /\ failures' # 0)
        BY <1>6 DEF StableUptime, WriteFails, BaseInv, Types
    <2> DEFINE Fresh(t) == IF t.new = current THEN [t EXCEPT !.attempts = 0] ELSE t
    <2>3. trial' = trial \/ trial' = {Fresh(t) : t \in trial}
        BY <1>6 DEF StableUptime
    <2>4. \A t \in trial : Fresh(t).new = t.new /\ Fresh(t).prev = t.prev
        BY DEF BaseInv, Types, TrialRecords
    <2> HIDE DEF Fresh
    <2>5. /\ \A r \in trial' : \E t \in trial : r.prev = t.prev
          /\ \A t \in trial : \E r \in trial' : r.new = t.new /\ r.prev = t.prev
        BY <2>3, <2>4
    <2>6. QED
        BY <1>1, <2>1, <2>2, <2>5 DEF TrialInv, UnprovenIsGuarded, Sound
<1>7. QED
    BY <1>2, <1>3, <1>4, <1>6, <1>5

(* An activation arms the trial before the link is switched.                *)
LEMMA TrialActivation ==
    ASSUME "during_trial" \notin BbuHabits, BaseInv, DiskInv, SelfInv, TrialInv, Activation
    PROVE  TrialInv'
<1>1. /\ UNCHANGED <<proven, proc, fate, g_trial_confirmed, dir>>
      /\ unsynced' \subseteq unsynced
    BY DEF Activation, Activate, ArmTrial, SwitchLink, ScheduleRestart, ActCommon, procVars, ghosts,
           diskVars, trial_remove, Sync
<1>2. proc = "run"
    BY DEF Activation, Activate, ArmTrial, SwitchLink, ScheduleRestart, BaseInv, Stopped
<1>3. /\ proc' = "run" /\ ~g_trial_confirmed' /\ fate' = "works" => dir'[current'] = "ok"
      /\ failures = 0 => Sound'
    <2>1. ~g_trial_confirmed => act.pc = "idle" /\ current' = current
        BY <1>2 DEF SelfInv, Activation, Activate, ArmTrial, SwitchLink, ScheduleRestart, diskVars
    <2>2. failures = 0 => Sound'
        BY <1>1 DEF TrialInv, Sound
    <2>3. QED
        BY <1>1, <2>1, <2>2 DEF TrialInv
<1>4. CASE \E v \in Versions : Activate(v)
    <2>1. trial = {} /\ UNCHANGED <<current, trial, failures>>
        BY <1>4 DEF Activate, Patient, diskVars
    <2>2. act' = act \/ act'.pc = "arm"
        BY <1>4 DEF Activate
    <2>3. QED
        BY <1>1, <1>2, <1>3, <2>1, <2>2 DEF TrialInv, UnprovenIsGuarded
<1>5. CASE ArmTrial
    <2>1. /\ act.pc = "arm" /\ act'.pc = "link" /\ act'.v = act.v /\ current' = current
          /\ trial = {}
        BY <1>5 DEF ArmTrial, BaseInv, Types, Activations, TrialInv
    <2>2. failures' = failures \/ (failures' = failures + 1 /\ failures' # 0)
        BY <1>5 DEF ArmTrial, WriteFails, BaseInv, Types
    <2>3. failures' = failures =>
             \/ act.v = current /\ trial' = trial
             \/ trial' = {Record(act.v, current, 0)}
        <3>1. dir[current] # "absent"
            BY DEF DiskInv, CurrentUsable, Verified
        <3>2. failures' = failures => ~WriteFails
            BY DEF WriteFails, BaseInv, Types
        <3>3. QED
            BY <1>5, <3>1, <3>2 DEF ArmTrial
    <2>4. failures = 0 => current \in proven
        BY <2>1 DEF TrialInv, UnprovenIsGuarded
    <2>5. CASE failures' # 0
        BY <1>3, <2>1, <2>5 DEF TrialInv, UnprovenIsGuarded
    <2>6. CASE failures' = 0
        <3>1. failures' = failures /\ current \in proven
            BY <2>2, <2>4, <2>6
        <3>2. \/ act.v = current /\ trial' = {}
              \/ trial' = {Record(act.v, current, 0)}
            BY <2>1, <2>3, <3>1
        <3>3. Record(act.v, current, 0).new = act.v /\ Record(act.v, current, 0).prev = current
            BY DEF Record
        <3>4. /\ \A t \in trial' : t.prev = current
              /\ act.v = current \/ \E t \in trial' : t.new = act.v
            BY <3>2, <3>3
        <3>5. QED
            BY <1>1, <1>2, <1>3, <2>1, <3>1, <3>4 DEF TrialInv, UnprovenIsGuarded
    <2>7. QED
        BY <2>5, <2>6
<1>6. CASE SwitchLink
    <2>1. act.pc = "link" /\ act'.pc \in {"idle", "sync"}
        BY <1>6 DEF SwitchLink, Idle, BaseInv, Types, Activations
    <2>2. \/ failures' = failures /\ current' = act.v /\ trial' = trial
          \/ failures' # 0
        BY <1>6 DEF SwitchLink, WriteFails, BaseInv, Types
    <2>3. CASE failures' # 0
        BY <1>3, <2>1, <2>3 DEF TrialInv, UnprovenIsGuarded
    <2>4. CASE failures' = 0 /\ failures = 0 /\ current' = act.v /\ trial' = trial
        <3>1. /\ current \in proven /\ \A t \in trial : t.prev \in proven
              /\ act.v = current \/ \E t \in trial : t.new = act.v
            BY <2>1, <2>4 DEF TrialInv
        <3>2. current' \notin proven' =>
                  \E t \in trial' : t.new = current' /\ t.prev \in proven'
            BY <1>1, <2>4, <3>1
        <3>3. QED
            BY <1>1, <1>2, <1>3, <2>1, <2>4, <3>1, <3>2 DEF TrialInv, UnprovenIsGuarded
    <2>5. QED
        BY <2>2, <2>3, <2>4
<1>7. CASE ScheduleRestart
    <2>1. act'.pc = "idle" /\ UNCHANGED <<current, trial, failures>>
        BY <1>7 DEF ScheduleRestart, Idle
    <2>2. QED
        BY <1>1, <1>2, <1>3, <2>1 DEF TrialInv, UnprovenIsGuarded
<1>8. QED
    BY <1>4, <1>5, <1>6, <1>7 DEF Activation

(* One step keeps the trial in order.                                       *)
LEMMA TrialStep ==
    ASSUME "during_trial" \notin BbuHabits,
           BaseInv, DiskInv, SelfInv, TrialInv, [Next]_vars
    PROVE  TrialInv'
<1>1. CASE Gone
    <2>1. /\ UNCHANGED <<current, trial, failures>>
          /\ act'.pc = "idle" /\ proc' = "down"
        BY <1>1 DEF Gone, ProcessGone, Idle
    <2>2. CASE failures = 0
        <3>1. Sound /\ proven \subseteq Versions
            BY <2>2 DEF TrialInv, BaseInv, Types
        <3>2. /\ unsynced' \subseteq unsynced /\ proven' \subseteq proven
              /\ \A v \in Versions \ unsynced : dir'[v] = dir[v]
              /\ \A v \in proven \ unsynced : v \in proven'
            BY <1>1, GoneKeeps DEF BaseInv
        <3>3. proven' = proven /\ Sound'
            BY <3>1, <3>2 DEF Sound
        <3>4. QED
            BY <2>1, <3>3 DEF TrialInv, UnprovenIsGuarded
    <2>3. CASE failures # 0
        BY <2>1, <2>3 DEF TrialInv, UnprovenIsGuarded
    <2>4. QED
        BY <2>2, <2>3
<1>2. CASE (\E v \in Versions : DownloadRequest(v)) \/ UNCHANGED vars
    <2>1. UNCHANGED <<current, trial, dir, unsynced, proven, failures, act, proc, fate,
                      g_trial_confirmed>>
        BY <1>2 DEF DownloadRequest, vars, diskVars, procVars, ghosts, budget
    <2>2. QED
        BY <2>1 DEF TrialInv, UnprovenIsGuarded, Sound
<1>3. ASSUME NEW t \in Threads, DlOutcome(t) PROVE TrialInv'
    <2>1. /\ UNCHANGED <<current, trial, failures, act, proc, fate, g_trial_confirmed>>
          /\ dl[t].v \in Versions /\ current \in Versions /\ proven \subseteq Versions
          /\ dl[t].v # current /\ \A r \in trial : r.prev # dl[t].v
        BY <1>3 DEF DlOutcome, DiskInv, BaseInv, Types
    <2>2. /\ \A v \in Versions : v # dl[t].v => dir'[v] = dir[v]
          /\ \/ UNCHANGED <<dir, proven, unsynced>>
             \/ proven' = proven \ {dl[t].v} /\ unsynced' = unsynced \cup {dl[t].v}
        BY <1>3, <2>1 DEF DlOutcome, Write, DirUnchanged, BaseInv, Types
    <2>3. failures = 0 => Sound'
        BY <2>1, <2>2 DEF TrialInv, Sound
    <2>4. proc = "run" /\ ~g_trial_confirmed /\ fate = "works" => dir'[current] = "ok"
        BY <2>1, <2>2 DEF TrialInv
    <2>5. /\ current \in proven => current \in proven'
          /\ \A r \in trial : r.prev \in proven => r.prev \in proven'
        BY <2>1, <2>2
    <2>6. QED
        BY <2>1, <2>3, <2>4, <2>5 DEF TrialInv, UnprovenIsGuarded
<1>4. QED
    BY NextCases, <1>1, <1>2, <1>3, TrialGuard, TrialRun, TrialActivation

(* With a BBU that has none of the habits, a version that has not yet set   *)
(* up a channel itself is current only under a trial record that leads back *)
(* to one that has, across power cuts between any two writes; only a write  *)
(* that fails can lose it.                                                  *)
THEOREM UnprovenIsGuardedTheorem ==
    ASSUME BbuHabits = {} PROVE Spec => []UnprovenIsGuarded
<1>1. /\ "in_use" \notin BbuHabits /\ "unfinished" \notin BbuHabits
      /\ "before_setup" \notin BbuHabits /\ "during_trial" \notin BbuHabits
    OBVIOUS
<1>2. Init => DiskInv /\ SelfInv /\ TrialInv
    <2> SUFFICES ASSUME Init PROVE SelfInv /\ TrialInv
        BY DiskInit
    <2>1. act.pc = "idle" /\ current \in proven /\ trial = {} /\ proc = "down"
        BY DEF Init, Idle
    <2>2. Sound
        BY VersionAssumption DEF Init, Sound
    <2>3. QED
        BY <2>1, <2>2 DEF SelfInv, TrialInv, UnprovenIsGuarded
<1>3. BaseInv /\ DiskInv /\ SelfInv /\ TrialInv /\ [Next]_vars => DiskInv' /\ SelfInv' /\ TrialInv'
    BY <1>1, DiskStep, SelfStep, TrialStep
<1>4. TrialInv => UnprovenIsGuarded
    BY DEF TrialInv
<1>5. QED
    BY BaseInvTheorem, <1>2, <1>3, <1>4, PTL DEF Spec
====================
