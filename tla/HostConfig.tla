----------------------------- MODULE HostConfig -----------------------------
(***************************************************************************)
(* infrastructure/proxmox_lxc_host_config and the proxmox_pct module: one  *)
(* run after another brings the container's file in /etc/pve, its features *)
(* and its root disk to what inventory declares, and reboots the guest if  *)
(* one of this run's changes asks for that.  The guest uses what it was    *)
(* last started with.                                                      *)
(*                                                                         *)
(* A section of the file is removed as a whole and written line by line.   *)
(* Commands of pct are bounded: one that is killed may have had its effect *)
(* or not.  Time passes only while the run waits for the rebooted guest,   *)
(* in whole seconds.  Left out: check mode, host directories, what the     *)
(* sections say, and a container that does not exist.                      *)
(***************************************************************************)
EXTENDS Integers, Sequences, SequencesExt, FiniteSetsExt

CONSTANTS
  Sections,         \* the managed sections of the file, in the order of the role
  ReadyTimeout, ReadyDelay, ReadyCommandTimeout,  \* proxmox_lxc_host_config_restart_*
  MinUseful,        \* MIN_USEFUL_ATTEMPT_SECONDS
  KillGrace,        \* KILL_GRACE_SECONDS
  MaxFaults         \* bound on failed tasks and commands

ASSUME TimesOK ==
  /\ ReadyTimeout \in Nat \ {0} /\ ReadyCommandTimeout \in Nat \ {0} /\ ReadyDelay \in Nat
  /\ MinUseful \in Nat \ {0} /\ KillGrace \in Nat /\ MaxFaults \in Nat
  /\ Sections \in Seq(STRING)

Setting == Range(Sections) \cup {"features"}

(* "cut": removed or partly written; "moved": as declared, in other places *)
(* of the file.                                                            *)
Value == {"old", "cut", "moved", "new"}
Declared(v) == v \in {"moved", "new"}

VARIABLES
  conf,      \* conf[s]: setting s in the container's configuration
  disk,      \* the root disk against its declared size
  guest,
  runtime,   \* runtime[s]: setting s as the guest was started with it
  pc, at,
  restart,   \* the settings whose component asks for a restart
  clock,     \* seconds since the wait began
  readyAt,   \* when the rebooted guest begins to accept commands
  genuine,   \* last_genuine is not None
  gaveUp,    \* history: the last wait ended without success
  meddled,   \* history: somebody started the guest during this run
  faults

host == <<conf, disk, guest, runtime>>
timing == <<clock, readyAt, genuine, gaveUp>>
vars == <<host, pc, at, restart, timing, meddled, faults>>

Never == ReadyTimeout + 1

TypeOK ==
  /\ conf \in [Setting -> Value] /\ runtime \in [Setting -> Value]
  /\ disk \in {"small", "declared", "large"}
  /\ guest \in {"running", "stopped"}
  /\ pc \in {"idle", "compare", "remove", "write", "features", "rootfs", "status", "reboot", "wait", "ok", "failed"}
  /\ at \in 1..(Len(Sections) + 1)
  /\ restart \subseteq Setting
  /\ clock \in 0..(ReadyTimeout + MinUseful + KillGrace) /\ readyAt \in 0..Never
  /\ genuine \in BOOLEAN /\ gaveUp \in BOOLEAN /\ meddled \in BOOLEAN
  /\ faults \in 0..MaxFaults

(* The guest runs with an older inventory's settings. *)
Init ==
  /\ conf \in [Setting -> {"old", "new"}] /\ runtime = conf
  /\ disk \in {"small", "declared", "large"}
  /\ guest \in {"running", "stopped"}
  /\ pc = "idle" /\ at = 1 /\ restart = {}
  /\ clock = 0 /\ readyAt = 0 /\ genuine = FALSE /\ gaveUp = FALSE
  /\ meddled = FALSE /\ faults = 0

-----------------------------------------------------------------------------
Running == pc \notin {"idle", "ok", "failed"}

(* A task fails, or its pct command is killed at its bound; where it has   *)
(* an effect, that may still have come about.                              *)
FailWith(effect) ==
  /\ faults < MaxFaults /\ faults' = faults + 1
  /\ pc' = "failed"
  /\ effect
  /\ UNCHANGED <<at, restart, timing, meddled>>

StartRun ==
  /\ ~Running
  /\ pc' = "compare" /\ at' = 1 /\ restart' = {}
  /\ meddled' = FALSE /\ gaveUp' = FALSE
  /\ UNCHANGED <<host, clock, readyAt, genuine, faults>>

-----------------------------------------------------------------------------
(* config_file_*.yml. *)

Section == Sections[at]
InSection(step) == pc = step /\ at <= Len(Sections)
NextSection == pc' = "compare" /\ at' = at + 1

(* Mutant: a section that is there counts as right. *)
Differs_IfMissing(v) == v = "old"

(* Mutant: the order of the lines counts. *)
Differs_Literally(v) == v # "new"

(* The lines found and the lines declared are compared in sorted order. *)
Differs(v) == ~Declared(v)

CompareSection ==
  /\ InSection("compare")
  /\ IF Differs(conf[Section])
       THEN pc' = "remove" /\ UNCHANGED at
       ELSE NextSection
  /\ UNCHANGED <<host, restart, timing, meddled, faults>>

RemoveSection ==
  LET effect == /\ conf' = [conf EXCEPT ![Section] = "cut"]
                /\ UNCHANGED <<disk, guest, runtime>>
  IN /\ InSection("remove")
     /\ \/ effect /\ pc' = "write" /\ UNCHANGED <<at, restart, timing, meddled, faults>>
        \/ FailWith(effect)

(* Mutant: the result is published from what is found afterwards. *)
WriteSection_ComparesAgain ==
  /\ InSection("write")
  /\ conf' = [conf EXCEPT ![Section] = "new"]
  /\ NextSection
  /\ UNCHANGED <<disk, guest, runtime, restart, timing, meddled, faults>>

(* All lines are written, and the component's result is published from the *)
(* comparison; a failure leaves some of them.                              *)
WriteSection ==
  /\ InSection("write")
  /\ \/ /\ conf' = [conf EXCEPT ![Section] = "new"]
        /\ restart' = restart \cup {Section}
        /\ NextSection
        /\ UNCHANGED <<disk, guest, runtime, timing, meddled, faults>>
     \/ FailWith(/\ \/ conf' = [conf EXCEPT ![Section] = "new"]
                    \/ UNCHANGED conf
                 /\ UNCHANGED <<disk, guest, runtime>>)

SectionsDone ==
  /\ pc = "compare" /\ at > Len(Sections)
  /\ pc' = "features"
  /\ UNCHANGED <<host, at, restart, timing, meddled, faults>>

-----------------------------------------------------------------------------
(* features.yml and rootfs.yml. *)

SetFeatures ==
  LET effect == conf' = [conf EXCEPT !["features"] = "new"] /\ UNCHANGED <<disk, guest, runtime>>
  IN /\ pc = "features"
     /\ Differs(conf["features"])
     /\ \/ /\ effect
           /\ restart' = restart \cup {"features"}
           /\ pc' = "rootfs"
           /\ UNCHANGED <<at, timing, meddled, faults>>
        \/ FailWith(effect)

KeepFeatures ==
  /\ pc = "features"
  /\ ~Differs(conf["features"])
  /\ pc' = "rootfs"
  /\ UNCHANGED <<host, at, restart, timing, meddled, faults>>

(* A smaller disk is grown, online; a larger one is left alone. *)
GrowRootfs ==
  LET effect == disk' = "declared" /\ UNCHANGED <<conf, guest, runtime>>
  IN /\ pc = "rootfs"
     /\ \/ disk # "small" /\ UNCHANGED host /\ pc' = "status"
           /\ UNCHANGED <<at, restart, timing, meddled, faults>>
        \/ disk = "small" /\ effect /\ pc' = "status"
           /\ UNCHANGED <<at, restart, timing, meddled, faults>>
        \/ disk = "small" /\ FailWith(effect)

-----------------------------------------------------------------------------
(* The restart: status, reboot, wait_exec. *)

CheckStatus ==
  /\ pc = "status"
  /\ pc' = IF restart # {} /\ guest = "running" THEN "reboot" ELSE "ok"
  /\ UNCHANGED <<host, at, restart, timing, meddled, faults>>

(* What a reboot leaves, also one that is killed on its way. *)
Rebooted == guest' = "running" /\ runtime' = conf /\ UNCHANGED <<conf, disk>>
ShutDown == guest' = "stopped" /\ UNCHANGED <<conf, disk, runtime>>

Reboot ==
  /\ pc = "reboot"
  /\ \/ /\ guest = "running"
        /\ Rebooted
        /\ pc' = "wait"
        /\ clock' = 0 /\ genuine' = FALSE
        /\ \E r \in 0..Never : readyAt' = r
        /\ UNCHANGED <<at, restart, gaveUp, meddled, faults>>
     \/ /\ guest = "stopped"
        /\ pc' = "failed"
        /\ UNCHANGED <<host, at, restart, timing, meddled, faults>>
     \/ guest = "running" /\ FailWith(Rebooted \/ ShutDown)

(* Mutant: an attempt always has its full time. *)
KillAfter_Unclamped == ReadyCommandTimeout

(* What an attempt gets: its own limit, or what is left. *)
KillAfter == Min({ReadyCommandTimeout, Max({ReadyTimeout - clock, MinUseful})})

NoTimeLeft(t) == t + ReadyDelay + MinUseful >= ReadyTimeout

(* An attempt failed at time t: the next one, or the end. *)
Retry(t) ==
  IF NoTimeLeft(t)
    THEN pc' = "failed" /\ gaveUp' = TRUE /\ clock' = t
    ELSE clock' = t + ReadyDelay /\ UNCHANGED <<pc, gaveUp>>

(* One attempt: a guest that is ready answers at once; one that is not     *)
(* gives an error sooner or later, or hangs until the attempt is killed,   *)
(* and its pipes may take up to the grace to be given up.                  *)
AttemptSucceeds ==
  /\ pc = "wait"
  /\ \E d \in 0..(KillAfter - 1) :
       /\ clock + d >= readyAt /\ (clock >= readyAt => d = 0)
       /\ clock' = clock + d
  /\ pc' = "ok"
  /\ UNCHANGED <<host, at, restart, readyAt, genuine, gaveUp, meddled, faults>>

AttemptFails ==
  /\ pc = "wait"
  /\ \E d \in 0..(KillAfter - 1) : clock + d < readyAt /\ Retry(clock + d)
  /\ genuine' = TRUE
  /\ UNCHANGED <<host, at, restart, readyAt, meddled, faults>>

AttemptKilled ==
  /\ pc = "wait"
  /\ clock < readyAt
  /\ \E g \in 0..KillGrace : Retry(clock + KillAfter + g)
  /\ UNCHANGED <<host, at, restart, readyAt, genuine, meddled, faults>>

-----------------------------------------------------------------------------
(* Others. *)

(* The guest is started or stopped by somebody else. *)
OutsideStart ==
  /\ guest = "stopped"
  /\ guest' = "running" /\ runtime' = conf
  /\ meddled' = TRUE
  /\ UNCHANGED <<conf, disk, pc, at, restart, timing, faults>>

OutsideStop ==
  /\ guest = "running"
  /\ guest' = "stopped"
  /\ UNCHANGED <<conf, disk, runtime, pc, at, restart, timing, meddled, faults>>

(* Proxmox writes the file in an order of its own. *)
ProxmoxRewrites ==
  /\ ~Running
  /\ conf' = [s \in Setting |-> IF conf[s] = "new" THEN "moved" ELSE conf[s]]
  /\ conf' # conf
  /\ UNCHANGED <<disk, guest, runtime, pc, at, restart, timing, meddled, faults>>

(* A task without effect fails: a comparison, pct config, pct status. *)
FailTask == Running /\ pc # "wait" /\ FailWith(UNCHANGED host)

RunSteps ==
  \/ CompareSection \/ RemoveSection \/ WriteSection \/ SectionsDone
  \/ SetFeatures \/ KeepFeatures \/ GrowRootfs
  \/ CheckStatus \/ Reboot \/ AttemptSucceeds \/ AttemptFails \/ AttemptKilled

Next == StartRun \/ RunSteps \/ FailTask \/ OutsideStart \/ OutsideStop \/ ProxmoxRewrites

Spec == Init /\ [][Next]_vars

(* Runs are made again and again (docs/adr/0019), and each goes on.        *)
(* proxmox_pct is bounded; that the plain commands end is an assumption.   *)
FairSpec == Spec /\ WF_vars(StartRun) /\ WF_vars(RunSteps)

-----------------------------------------------------------------------------
AsDeclared == \A s \in Setting : Declared(conf[s])

(* Whatever earlier runs broke off half-way, a run that ends well leaves   *)
(* every section complete and the disk no smaller than declared.           *)
SuccessIsComplete == pc = "ok" => AsDeclared /\ disk # "small"

(* While no task has failed, a run that ends well leaves a running guest   *)
(* with the declared settings in effect, whoever else starts or stops it.  *)
RestartIsNotForgotten ==
  pc = "ok" /\ faults = 0 /\ guest = "running" => \A s \in Setting : Declared(runtime[s])

(* The run reboots a guest only if that guest runs with something else     *)
(* than declared: Proxmox reordering lines is no reason (docs/adr/0003).   *)
NoNeedlessRestart ==
  pc = "reboot" /\ guest = "running" /\ ~meddled => \E s \in Setting : ~Declared(runtime[s])

(* wait_exec ends within its deadline, the least useful attempt and the    *)
(* grace for a killed one that keeps its pipes.                            *)
WaitIsBounded ==
  pc = "wait" \/ gaveUp => clock <= Max({ReadyTimeout, MinUseful}) + KillGrace

(* wait_exec gives up on a guest only if it was not ready early enough for *)
(* an attempt to begin after the one that may have hung when it became so. *)
ReadyGuestIsSeen ==
  gaveUp => readyAt + ReadyCommandTimeout + KillGrace + ReadyDelay + MinUseful >= ReadyTimeout

(* Once failures stop, repeated runs get the configuration right for good. *)
Converges == <>[](AsDeclared /\ disk # "small")

(* The restart that a finished change needs is made, by this run or by the *)
(* next: ADR-0015 skips a deferred reconciliation whole because "a skipped *)
(* restart would be lost".                                                 *)
RuntimeFollows ==
  pc = "ok" /\ guest = "running" => \A s \in Setting : Declared(runtime[s])
=============================================================================
