---------- MODULE VersionManager ----------
(***************************************************************************)
(* Software upgrade (version_manager.c, scripts/upgrade-guard.sh,          *)
(* scripts/antenna-mgmt.service): download and verification of a version,  *)
(* its activation by the BBU (trial record first, then the link), the      *)
(* trial run counted by upgrade-guard.sh before every start, confirmation  *)
(* by the channel to the BBU, and the automatic rollback, with power cuts  *)
(* between any two writes to the disk.                                     *)
(*                                                                         *)
(* What survives a power cut: current, trial and notice, whose writes      *)
(* reach the disk in order, and of dir what has been synced: bytes of a    *)
(* package written since the last sync may be lost.                        *)
(***************************************************************************)
EXTENDS Integers, FiniteSets

CONSTANTS
    Versions, FirstVersion,
    Working,           \* the versions whose program stays up and sets up the channel
    MAX_STARTS,        \* UPGRADE_TRIAL_MAX_STARTS
    BbuHabits,         \* what a BBU may do beyond activating what it has downloaded
    MaxActivations, MaxDownloads, MaxPowerCuts,  \* bounds on the environment
    MaxFailures        \* bound on writes of the record or the link that fail

Habits == {"before_setup", "during_trial", "in_use", "unfinished"}

ASSUME VersionAssumption ==
    /\ FirstVersion \in Versions /\ FirstVersion \in Working /\ Working \subseteq Versions
    /\ MAX_STARTS \in Nat \ {0} /\ BbuHabits \subseteq Habits
    /\ MaxActivations \in Nat /\ MaxDownloads \in Nat /\ MaxPowerCuts \in Nat
    /\ MaxFailures \in Nat

VARIABLES
    current,           \* what the link /opt/vendor/current points to
    trial,             \* the set of trial records: empty or one record
    notice,            \* auto_rollback.last exists
    dir,               \* the version directories: "absent", "partial", "bad", "ok",
                       \* "torn" (was ok, a power cut took bytes of it)
    unsynced,          \* versions with bytes not yet forced to the disk
    proc,              \* "down", the stages of the guard, "exec", "run"
    running, fate,     \* the version the process was started from, and what becomes of it
    g_trial_confirmed, g_trial_stable_done, alarm,
    act,               \* version_handle_activate_request in the receive thread
    restart_due,       \* the helper of version_schedule_service_restart
    in_progress, dl,   \* the download gate and the download threads
    known,             \* versions whose last download the BBU knows to have succeeded
    proven,            \* ghost: versions that have set up a channel themselves
    rolled_back,       \* ghost: an automatic rollback the BBU has not heard of
    activations, downloads, cuts, failures

diskVars  == <<current, trial, notice, dir, unsynced>>
procVars  == <<proc, running, fate, g_trial_confirmed, g_trial_stable_done, alarm>>
dlVars    == <<in_progress, dl>>
ghosts    == <<known, proven, rolled_back>>
budget    == <<activations, downloads, cuts, failures>>
vars == <<diskVars, procVars, act, restart_due, dlVars, ghosts, budget>>

Idle    == [pc |-> "idle", v |-> FirstVersion]
Threads == {1, 2}
Record(n, p, a) == [new |-> n, prev |-> p, attempts |-> a]

Init ==
    /\ current = FirstVersion /\ trial = {} /\ notice = FALSE
    /\ dir = [v \in Versions |-> IF v = FirstVersion THEN "ok" ELSE "absent"]
    /\ unsynced = {}
    /\ proc = "down" /\ running = FirstVersion /\ fate = "none"
    /\ g_trial_confirmed = FALSE /\ g_trial_stable_done = FALSE /\ alarm = FALSE
    /\ act = Idle /\ restart_due = FALSE
    /\ in_progress = FALSE /\ dl = [t \in Threads |-> Idle]
    /\ known = {} /\ proven = {FirstVersion} /\ rolled_back = FALSE
    /\ activations = 0 /\ downloads = 0 /\ cuts = 0 /\ failures = 0

(* A write to the disk that fails.                                          *)
WriteFails == failures < MaxFailures /\ failures' = failures + 1

Sync == unsynced' = {}

(* It syncs only if there was a record to remove.                           *)
trial_remove == trial' = {} /\ (trial # {} => Sync) /\ (trial = {} => UNCHANGED unsynced)

--------------------
(* systemd and upgrade-guard.sh.  ExecStartPre runs in the directory the    *)
(* link names, so nothing at all starts while that directory is missing.    *)
StartService ==
    /\ proc = "down" /\ dir[current] # "absent"
    /\ proc' = "guard"
    /\ UNCHANGED <<diskVars, running, fate, g_trial_confirmed, g_trial_stable_done, alarm,
                   act, restart_due, dlVars, ghosts, budget>>

GuardCommon == UNCHANGED <<dir, running, fate, g_trial_confirmed, g_trial_stable_done, alarm,
                           act, restart_due, dlVars, known, proven, activations, downloads, cuts>>

GuardNothing ==
    /\ proc = "guard" /\ trial = {}
    /\ proc' = "exec"
    /\ UNCHANGED <<current, trial, notice, unsynced, rolled_back>> /\ GuardCommon /\ UNCHANGED failures

GuardStale ==
    /\ proc = "guard" /\ \E t \in trial : t.new # current
    /\ trial' = {} /\ proc' = "exec"
    /\ UNCHANGED <<current, notice, unsynced, rolled_back>> /\ GuardCommon /\ UNCHANGED failures


GuardCount ==
    /\ proc = "guard"
    /\ \E t \in trial :
          /\ t.new = current /\ t.attempts < MAX_STARTS
          /\ \/ trial' = {[t EXCEPT !.attempts = @ + 1]} /\ Sync /\ UNCHANGED failures
             \/ WriteFails /\ UNCHANGED <<trial, unsynced>>
    /\ proc' = "exec"
    /\ UNCHANGED <<current, notice, rolled_back>> /\ GuardCommon

HasProgram(v) == {dir[v] \in {"ok", "bad"}, dir[v] # "absent"}

(* The last start was one too many: back to the previous version, if its    *)
(* program is there and the link can be written; else the record goes.      *)
GuardRollback ==
    /\ proc = "guard"
    /\ \E t \in trial :
          /\ t.new = current /\ t.attempts >= MAX_STARTS
          /\ \/ /\ TRUE \in HasProgram(t.prev)
                /\ current' = t.prev /\ rolled_back' = TRUE
                /\ proc' = "switched" /\ UNCHANGED <<trial, failures>>
             \/ /\ WriteFails \/ (FALSE \in HasProgram(t.prev) /\ UNCHANGED failures)
                /\ trial' = {} /\ proc' = "exec"
                /\ UNCHANGED <<current, rolled_back>>
    /\ UNCHANGED <<notice, unsynced>> /\ GuardCommon

GuardNotice ==
    /\ proc = "switched"
    /\ notice' = TRUE /\ proc' = "noticed"
    /\ UNCHANGED <<current, trial, unsynced, rolled_back>> /\ GuardCommon /\ UNCHANGED failures

GuardForget ==
    /\ proc = "noticed"
    /\ trial' = {} /\ Sync /\ proc' = "exec"
    /\ UNCHANGED <<current, notice, rolled_back>> /\ GuardCommon /\ UNCHANGED failures

(* What becomes of a program: it works; or it dies before the stable time;  *)
(* or it lingers, that is hangs or dies later.                              *)
Fates(v) == IF v \in Working /\ dir[v] = "ok" THEN {"works"} ELSE {"dies", "lingers"}

(* ExecStart, version_manager_init: a record of another version is dropped, *)
(* a notice becomes an alarm that is reported when TCP connects.            *)
ExecProgram ==
    /\ proc = "exec"
    /\ \/ /\ TRUE \in HasProgram(current)
          /\ proc' = "run" /\ running' = current
          /\ fate' \in Fates(current)
          /\ trial' = {t \in trial : t.new = current}
          /\ alarm' = notice
          /\ g_trial_confirmed' = FALSE /\ g_trial_stable_done' = FALSE
       \/ /\ FALSE \in HasProgram(current)
          /\ proc' = "down"
          /\ UNCHANGED <<running, fate, trial, alarm, g_trial_confirmed, g_trial_stable_done>>
    /\ UNCHANGED <<current, notice, dir, unsynced, act, restart_due, dlVars, ghosts, budget>>

(* The process ends with all its threads and its helper.                    *)
ProcessGone ==
    /\ proc' = "down" /\ act' = Idle /\ restart_due' = FALSE
    /\ in_progress' = FALSE /\ dl' = [t \in Threads |-> Idle]
    /\ g_trial_confirmed' = FALSE /\ g_trial_stable_done' = FALSE /\ alarm' = FALSE
    /\ fate' = "none"
    /\ UNCHANGED <<current, trial, notice, running, known, rolled_back,
                   activations, downloads, failures>>

(* What has been written since the last sync may be lost.                   *)
Lose(S) ==
    /\ dir' = [v \in Versions |-> IF v \in S /\ dir[v] = "ok" THEN "torn" ELSE dir[v]]
    /\ proven' = proven \ S

Crash      == proc = "run" /\ fate # "works" /\ ProcessGone /\ UNCHANGED <<dir, unsynced, proven, cuts>>
RestartNow == proc = "run" /\ restart_due /\ ProcessGone /\ UNCHANGED <<dir, unsynced, proven, cuts>>
PowerCut   ==
    /\ cuts < MaxPowerCuts /\ ProcessGone /\ cuts' = cuts + 1
    /\ (\E S \in SUBSET unsynced : Lose(S)) /\ Sync

--------------------
(* version_trial_on_channel_established, in the receive thread: the record  *)
(* goes first, then the notice.                                             *)
ChannelEstablished ==
    /\ proc = "run" /\ fate = "works" /\ act.pc = "idle" /\ ~g_trial_confirmed
    /\ g_trial_confirmed' = TRUE
    /\ trial_remove /\ act' = [act EXCEPT !.pc = "unnotify"]
    /\ proven' = proven \cup {running}
    /\ rolled_back' = (rolled_back /\ ~alarm)
    /\ UNCHANGED <<current, notice, dir, proc, running, fate, g_trial_stable_done, alarm,
                   restart_due, dlVars, known, budget>>

RemoveNotice ==
    /\ act.pc = "unnotify"
    /\ notice' = FALSE /\ act' = Idle
    /\ UNCHANGED <<current, trial, dir, unsynced, procVars, restart_due, dlVars, ghosts, budget>>

(* version_trial_on_uptime, in the main loop of a process that lives that   *)
(* long, whether it works or not                                            *)
StableUptime ==
    /\ proc = "run" /\ fate # "dies" /\ ~g_trial_stable_done /\ ~g_trial_confirmed
    /\ g_trial_stable_done' = TRUE
    /\ \/ trial' = {IF t.new = current THEN [t EXCEPT !.attempts = 0] ELSE t : t \in trial}
          /\ UNCHANGED failures
       \/ WriteFails /\ UNCHANGED trial
    /\ UNCHANGED <<current, notice, dir, unsynced, proc, running, fate, g_trial_confirmed, alarm,
                   act, restart_due, dlVars, known, proven, rolled_back, activations, downloads, cuts>>

--------------------
(* version_handle_activate_request for a software version: the checks of    *)
(* switch_to_version, then arming, then the link, then the scheduled        *)
(* restart.  A directory under construction may lack its metadata.          *)
Patient(v) ==
    /\ "before_setup" \in BbuHabits \/ g_trial_confirmed
    /\ "during_trial" \in BbuHabits \/ (trial = {} /\ ~restart_due)
    /\ "unfinished" \in BbuHabits \/ (v \in known /\ ~in_progress)

(* load_version_metadata may find nothing in such a directory.              *)
MetadataMissing(v) == dir[v] \in {"absent", "partial", "torn"}

Activate(v) ==
    /\ proc = "run" /\ act.pc = "idle" /\ activations < MaxActivations /\ Patient(v)
    /\ activations' = activations + 1
    /\ \/ MetadataMissing(v) /\ UNCHANGED act                       \* NOT_EXIST, CORRUPTED
       \/ dir[v] # "absent" /\ act' = [pc |-> "arm", v |-> v]
    /\ UNCHANGED <<diskVars, procVars, restart_due, dlVars, ghosts, downloads, cuts, failures>>

ActCommon == UNCHANGED <<notice, dir, procVars, dlVars, known, proven, rolled_back,
                         activations, downloads, cuts>>

(* Slip of ArmTrial: the link is switched without a trial record.           *)
ArmTrialForgotten ==
    /\ act.pc = "arm"
    /\ act' = [act EXCEPT !.pc = "link"]
    /\ UNCHANGED <<current, trial, unsynced, restart_due>> /\ ActCommon /\ UNCHANGED failures

(* Slip of ArmTrial: the confirmation is re-armed in the process that still *)
(* runs the old version.                                                    *)
ArmTrialReopens ==
    /\ act.pc = "arm"
    /\ act' = [act EXCEPT !.pc = "link"]
    /\ trial' = IF act.v = current THEN trial ELSE {Record(act.v, current, 0)}
    /\ g_trial_confirmed' = FALSE
    /\ UNCHANGED <<current, notice, dir, unsynced, proc, running, fate, g_trial_stable_done, alarm,
                   restart_due, dlVars, ghosts, budget>>

ArmTrial ==
    /\ act.pc = "arm"
    /\ act' = [act EXCEPT !.pc = "link"]
    /\ CASE act.v = current -> UNCHANGED <<trial, unsynced, failures>>
         [] act.v # current /\ dir[current] # "absent" ->
               /\ \/ trial' = {Record(act.v, current, 0)} /\ UNCHANGED failures
                  \/ WriteFails /\ UNCHANGED trial
               /\ UNCHANGED unsynced
         [] OTHER -> trial_remove /\ UNCHANGED failures
    /\ UNCHANGED <<current, restart_due>> /\ ActCommon

(* replace_current_link: the link is renamed, then everything is synced.    *)
SwitchLink ==
    /\ act.pc = "link"
    /\ \/ /\ current' = act.v /\ act' = [act EXCEPT !.pc = "sync"]
          /\ UNCHANGED <<trial, unsynced, failures>>
       \/ /\ WriteFails
          /\ act' = Idle /\ trial_remove
          /\ UNCHANGED current
    /\ UNCHANGED restart_due /\ ActCommon

(* The sync, the answer to the BBU and version_schedule_service_restart,    *)
(* whose fork or exec may fail: then the old program runs on.               *)
ScheduleRestart ==
    /\ act.pc = "sync"
    /\ act' = Idle /\ Sync
    /\ restart_due' = TRUE \/ UNCHANGED restart_due
    /\ UNCHANGED <<current, trial, failures>> /\ ActCommon

--------------------
(* version_handle_download_request: the gate is tested and closed in one    *)
(* critical section; a refused field, a lost acknowledgement or a failed    *)
(* thread creation opens it again.                                          *)
InUse == {current, running} \cup {t.prev : t \in trial}

CloseGate == in_progress' = TRUE

DownloadRequest(v) ==
    /\ proc = "run" /\ act.pc = "idle" /\ downloads < MaxDownloads
    /\ "in_use" \in BbuHabits \/ v \notin InUse
    /\ ~in_progress
    /\ downloads' = downloads + 1
    /\ \/ UNCHANGED <<dlVars, known>>                                   \* refused
       \/ /\ CloseGate /\ known' = known \ {v}
          /\ \E t \in Threads : dl[t].pc = "idle" /\ dl' = [dl EXCEPT ![t] = [pc |-> "curl", v |-> v]]
    /\ UNCHANGED <<diskVars, procVars, act, restart_due, proven, rolled_back,
                   activations, cuts, failures>>

DlCommon == UNCHANGED <<current, trial, notice, procVars, act, restart_due, rolled_back, budget>>
To(t, p) == dl' = [dl EXCEPT ![t].pc = p]

(* A directory written anew: nothing of it is forced to the disk, and what  *)
(* the version has shown before no longer counts.                           *)
Write(v, d) ==
    /\ dir' = [dir EXCEPT ![v] = d]
    /\ unsynced' = unsynced \cup {v} /\ proven' = proven \ {v}
DirUnchanged == UNCHANGED <<dir, unsynced, proven>>

(* version_download_thread_func.  The result goes to the BBU before the     *)
(* gate opens.                                                              *)
ReportResult(t, ok) == known' = IF ok THEN known \cup {dl[t].v} ELSE known \ {dl[t].v}
Finish(t, ok) ==
    ReportResult(t, ok) /\ dl' = [dl EXCEPT ![t] = Idle] /\ in_progress' = FALSE

DlFetch(t) ==
    /\ dl[t].pc = "curl"
    /\ \/ Finish(t, FALSE) /\ DirUnchanged
       \/ Write(dl[t].v, "partial") /\ To(t, "unpack") /\ UNCHANGED <<in_progress, known>>
    /\ DlCommon

(* Slip of DlUnpack: the package is not verified any further.               *)
DlUnpackTrusting(t) ==
    /\ dl[t].pc = "unpack"
    /\ \E d \in {"ok", "bad"} : Write(dl[t].v, d)
    /\ Finish(t, TRUE)
    /\ DlCommon

(* A member of the archive is refused: the directory stays as it is.        *)
PackageRefused(t) == Finish(t, FALSE) /\ DirUnchanged

(* The archive is refused, or tar fails; or the package is unpacked, its    *)
(* program as built or damaged.                                             *)
DlUnpack(t) ==
    /\ dl[t].pc = "unpack"
    /\ \/ PackageRefused(t)
       \/ /\ \E d \in {"ok", "bad"} : Write(dl[t].v, d)
          /\ To(t, "verify") /\ UNCHANGED <<in_progress, known>>
    /\ DlCommon

ChecksumMatches(v) == dir[v] = "ok"
remove_tree(v)     == Write(v, "absent")

(* save_version_metadata; a directory without metadata counts as partial.   *)
SaveMetadata(t) ==
    \/ Finish(t, TRUE) /\ Write(dl[t].v, "ok")
    \/ Finish(t, FALSE) /\ Write(dl[t].v, "partial")

(* verify_bin_file_checksum; remove_tree when it fails                      *)
DlVerify(t) ==
    /\ dl[t].pc = "verify"
    /\ IF ChecksumMatches(dl[t].v) THEN SaveMetadata(t)
       ELSE Finish(t, FALSE) /\ remove_tree(dl[t].v)
    /\ DlCommon

--------------------
Guard == GuardNothing \/ GuardStale \/ GuardCount \/ GuardRollback \/ GuardNotice \/ GuardForget
Boot  == StartService \/ Guard \/ ExecProgram
Activation == (\E v \in Versions : Activate(v)) \/ ArmTrial \/ SwitchLink \/ ScheduleRestart
Download ==
    \/ \E v \in Versions : DownloadRequest(v)
    \/ \E t \in Threads : DlFetch(t) \/ DlUnpack(t) \/ DlVerify(t)

Next == Boot \/ Crash \/ PowerCut \/ RestartNow \/ ChannelEstablished \/ RemoveNotice \/ StableUptime
        \/ Activation \/ Download

Spec == Init /\ [][Next]_vars
(* Restart=always with no start limit; the helper restarts the service; a   *)
(* program that dies early does so.  Nothing ends one that hangs.           *)
FairSpec == Spec /\ WF_vars(Boot) /\ WF_vars(fate = "dies" /\ Crash) /\ WF_vars(RestartNow)
                 /\ WF_vars(ArmTrial \/ SwitchLink \/ ScheduleRestart)

--------------------
(* Types: at most one trial record, its counter within the start limit.     *)
VersionTypeOK ==
    /\ current \in Versions /\ running \in Versions /\ known \subseteq Versions
    /\ Cardinality(trial) <= 1
    /\ \A t \in trial : /\ t.new \in Versions /\ t.prev \in Versions
                        /\ t.attempts \in 0 .. MAX_STARTS
    /\ dir \in [Versions -> {"absent", "partial", "bad", "ok", "torn"}]
    /\ unsynced \subseteq Versions
    /\ proc \in {"down", "guard", "switched", "noticed", "exec", "run"}

Verified(v) == dir[v] \in {"ok", "torn"}

(* At every instant, so also after a power cut, the link names a complete,  *)
(* verified version; only bytes a power cut took from a package that the    *)
(* program never forced to the disk may be missing from it.                 *)
CurrentUsable == Verified(current)

(* A version that has not yet set up a channel itself is never current      *)
(* without a trial record that names it and falls back to one that has,     *)
(* unless a write to the disk failed.                                       *)
UnprovenIsGuarded ==
    failures = 0 /\ current \notin proven => \E t \in trial : t.new = current /\ t.prev \in proven

(* Never two downloads at once.                                             *)
OneDownload == Cardinality({t \in Threads : dl[t].pc # "idle"}) <= (IF in_progress THEN 1 ELSE 0)


(* "新版本与 BBU 完成通道建立 → 确认健康": only the new version itself    *)
(* ends its trial by setting up a channel.                                  *)
ConfirmsItself ==
    [][ (~g_trial_confirmed /\ g_trial_confirmed') => \A t \in trial : t.new = current => running = t.new ]_vars

(* A package that fails its verification costs no version in use its        *)
(* directory ("删除已解压的文件（安全措施）").                           *)
LinkTargetExists == dir[current] # "absent"

(* The link is switched only to a version that has been verified.           *)
ActivatesVerified == [][ current' # current => Verified(current') ]_vars

(* An automatic rollback is still known when the old version runs again:    *)
(* the notice is there or its alarm has been raised.                        *)
RollbackIsReported == (rolled_back /\ proc = "run") => (notice \/ alarm)
====================
