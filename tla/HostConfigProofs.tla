-------------------------- MODULE HostConfigProofs --------------------------
(***************************************************************************)
(* Theorems about HostConfig, for any sections, any times that TimesOK     *)
(* allows and any number of faults.                                        *)
(***************************************************************************)
EXTENDS HostConfig, TLAPS

(* What a run has brought to its declared value so far.                    *)
ConfInv ==
  /\ pc \in {"compare", "remove", "write"} =>
       \A i \in 1..(at - 1) : Declared(conf[Sections[i]])
  /\ pc \in {"remove", "write"} => at <= Len(Sections)
  /\ pc = "remove" => ~Declared(conf[Section])
  /\ pc = "write" => conf[Section] = "cut"
  /\ pc \in {"features", "rootfs", "status", "reboot", "wait", "ok"} =>
       \A i \in 1..Len(Sections) : Declared(conf[Sections[i]])
  /\ pc \in {"rootfs", "status", "reboot", "wait", "ok"} => Declared(conf["features"])
  /\ pc \in {"status", "reboot", "wait", "ok"} => disk # "small"

(* A setting that is as declared stays so, and the guest was started with  *)
(* an earlier configuration: it is never ahead of the file.                *)
BehindInv == \A s \in Setting : Declared(runtime[s]) => Declared(conf[s])

(* The run still knows of each declared setting that the guest lacks, as   *)
(* long as no task has failed.                                             *)
Knows == {"compare", "remove", "write", "features", "rootfs", "status", "reboot"}
PendingInv ==
  faults = 0 /\ guest = "running" =>
    \A s \in Setting : Declared(conf[s]) /\ ~Declared(runtime[s]) => pc \in Knows /\ s \in restart

(* What asks for a restart is not in effect yet, unless somebody has       *)
(* started the guest since.                                                *)
NeedInv ==
  /\ pc \in Knows /\ ~meddled => \A s \in restart : ~Declared(runtime[s])
  /\ pc = "reboot" => restart # {}

(* Each attempt begins with time left for it, the first one in any case.   *)
WaitInv ==
  /\ pc = "wait" => clock = 0 \/ clock + MinUseful < ReadyTimeout
  /\ gaveUp => /\ pc = "failed"
               /\ clock <= Max({ReadyTimeout, MinUseful}) + KillGrace

IInv ==
  /\ TypeOK /\ ConfInv /\ BehindInv /\ PendingInv /\ NeedInv
  /\ WaitInv /\ ReadyGuestIsSeen

-----------------------------------------------------------------------------
(* Sections and times. *)

(* The settings are the sections and the features.                         *)
LEMMA SettingsOf ==
  /\ Len(Sections) \in Nat /\ "features" \in Setting
  /\ \A i \in 1..Len(Sections) : Sections[i] \in Setting
  /\ \A s \in Setting : s = "features" \/ \E i \in 1..Len(Sections) : s = Sections[i]
<1>1. Sections \in Seq(STRING) /\ DOMAIN Sections = 1..Len(Sections) /\ Len(Sections) \in Nat
  BY TimesOK
<1>2. Range(Sections) = {Sections[i] : i \in 1..Len(Sections)}
  BY <1>1 DEF Range
<1>3. QED
  BY <1>1, <1>2 DEF Setting

LEMMA MaxOfTwo ==
  ASSUME NEW a \in Int, NEW b \in Int
  PROVE  Max({a, b}) \in {a, b} /\ Max({a, b}) >= a /\ Max({a, b}) >= b
<1>1. \E x \in {a, b} : \A y \in {a, b} : x >= y
  OBVIOUS
<1>2. QED
  BY <1>1 DEF Max

LEMMA MinOfTwo ==
  ASSUME NEW a \in Int, NEW b \in Int
  PROVE  Min({a, b}) \in {a, b} /\ Min({a, b}) <= a /\ Min({a, b}) <= b
<1>1. \E x \in {a, b} : \A y \in {a, b} : x <= y
  OBVIOUS
<1>2. QED
  BY <1>1 DEF Min

(* The last second of a wait is far enough for Never.                      *)
Bound == Max({ReadyTimeout, MinUseful}) + KillGrace

(* The times are numbers, and the bound of the wait is one.                *)
LEMMA Times ==
  /\ ReadyTimeout \in Nat \ {0} /\ ReadyCommandTimeout \in Nat \ {0} /\ ReadyDelay \in Nat
  /\ MinUseful \in Nat \ {0} /\ KillGrace \in Nat /\ MaxFaults \in Nat
  /\ Never = ReadyTimeout + 1
  /\ Bound \in Nat /\ Bound <= ReadyTimeout + MinUseful + KillGrace
<1>1. ReadyTimeout \in Int /\ MinUseful \in Int
  BY TimesOK
<1>2. Max({ReadyTimeout, MinUseful}) \in {ReadyTimeout, MinUseful}
  BY <1>1, MaxOfTwo
<1>3. QED
  BY TimesOK, <1>2 DEF Never, Bound

(* An attempt has at least a second, no more than its own limit, and ends  *)
(* by the bound.                                                           *)
LEMMA AttemptTime ==
  ASSUME TypeOK, WaitInv, pc = "wait"
  PROVE  /\ KillAfter \in Nat \ {0} /\ KillAfter <= ReadyCommandTimeout
         /\ clock \in Nat /\ clock + KillAfter + KillGrace <= Bound
<1> DEFINE left == Max({ReadyTimeout - clock, MinUseful})
<1>1. clock \in Nat /\ (clock = 0 \/ clock + MinUseful < ReadyTimeout)
  BY Times DEF TypeOK, WaitInv
<1>2. /\ left \in {ReadyTimeout - clock, MinUseful}
      /\ left >= MinUseful
  BY <1>1, Times, MaxOfTwo
<1>3. left \in Int
  BY <1>1, <1>2, Times
<1>4. /\ KillAfter \in {ReadyCommandTimeout, left}
      /\ KillAfter <= ReadyCommandTimeout /\ KillAfter <= left
  <2>1. KillAfter = Min({ReadyCommandTimeout, left})
    BY DEF KillAfter
  <2>2. ReadyCommandTimeout \in Int
    BY Times
  <2> HIDE DEF left
  <2>3. QED
    BY <1>3, <2>1, <2>2, MinOfTwo
<1>5. /\ Bound >= ReadyTimeout + KillGrace /\ Bound >= MinUseful + KillGrace
  <2>1. ReadyTimeout \in Int /\ MinUseful \in Int /\ KillGrace \in Int
    BY Times
  <2>2. /\ Max({ReadyTimeout, MinUseful}) >= ReadyTimeout
        /\ Max({ReadyTimeout, MinUseful}) >= MinUseful
        /\ Max({ReadyTimeout, MinUseful}) \in {ReadyTimeout, MinUseful}
    BY <2>1, MaxOfTwo
  <2>3. QED
    BY <2>1, <2>2 DEF Bound
<1> HIDE DEF left
<1>6. QED
  BY <1>1, <1>2, <1>3, <1>4, <1>5, Times

LEMMA InitInv == Init => IInv
<1> SUFFICES ASSUME Init PROVE IInv
  OBVIOUS
<1>1. conf \in [Setting -> Value] /\ runtime = conf
  BY DEF Init, Value
<1>2. /\ clock \in 0..(ReadyTimeout + MinUseful + KillGrace) /\ readyAt \in 0..Never
      /\ faults \in 0..MaxFaults /\ at \in 1..(Len(Sections) + 1)
  <2>1. clock = 0 /\ readyAt = 0 /\ faults = 0 /\ at = 1
    BY DEF Init
  <2>2. QED
    BY <2>1, Times, SettingsOf
<1>3. TypeOK
  BY <1>1, <1>2 DEF Init, TypeOK
<1>4. ConfInv /\ BehindInv /\ PendingInv /\ NeedInv /\ WaitInv
  BY SettingsOf DEF Init, ConfInv, BehindInv, PendingInv, NeedInv, WaitInv, Knows
<1>5. ReadyGuestIsSeen
  BY DEF Init, ReadyGuestIsSeen
<1>6. QED
  BY <1>3, <1>4, <1>5 DEF IInv

-----------------------------------------------------------------------------
(* Each step keeps the invariant. *)

(* A run that fails, whatever its last step did to the host.               *)
LEMMA FailureKeeps ==
  ASSUME IInv, Running, FailWith(TRUE),
         conf' \in [Setting -> Value], runtime' \in [Setting -> Value],
         disk' \in {"small", "declared", "large"}, guest' \in {"running", "stopped"},
         BehindInv'
  PROVE  IInv'
<1>1. /\ faults \in 0..MaxFaults /\ faults < MaxFaults /\ faults' = faults + 1
      /\ pc' = "failed" /\ UNCHANGED <<at, restart, timing, meddled>>
  BY DEF FailWith, IInv, TypeOK
<1>2. faults' \in 0..MaxFaults /\ faults' # 0
  BY <1>1, Times
<1>3. TypeOK'
  BY <1>1, <1>2 DEF IInv, TypeOK, timing
<1>4. ~gaveUp'
  BY <1>1 DEF IInv, TypeOK, WaitInv, Running, timing
<1>5. ConfInv' /\ PendingInv' /\ NeedInv' /\ WaitInv' /\ ReadyGuestIsSeen'
  BY <1>1, <1>2, <1>4 DEF ConfInv, PendingInv, NeedInv, WaitInv, ReadyGuestIsSeen, Knows
<1>6. QED
  BY <1>3, <1>5 DEF IInv

LEMMA FailTaskKeeps == ASSUME IInv, FailTask PROVE IInv'
<1>1. FailWith(TRUE) /\ Running /\ UNCHANGED host
  BY DEF FailTask, FailWith
<1>2. UNCHANGED <<conf, disk, guest, runtime>>
  BY <1>1 DEF host
<1>3. BehindInv'
  BY <1>2 DEF IInv, BehindInv
<1>4. QED
  BY <1>1, <1>2, <1>3, FailureKeeps DEF IInv, TypeOK

LEMMA StartRunKeeps == ASSUME IInv, StartRun PROVE IInv'
<1>1. /\ ~Running /\ pc' = "compare" /\ at' = 1 /\ restart' = {} /\ ~meddled' /\ ~gaveUp'
      /\ UNCHANGED <<conf, disk, guest, runtime, clock, readyAt, genuine, faults>>
  BY DEF StartRun, host
<1>2. TypeOK'
  <2>1. at' \in 1..(Len(Sections) + 1)
    BY <1>1, SettingsOf
  <2>2. QED
    BY <1>1, <2>1 DEF StartRun, IInv, TypeOK
<1>3. ConfInv' /\ NeedInv' /\ WaitInv' /\ ReadyGuestIsSeen'
  BY <1>1 DEF ConfInv, NeedInv, WaitInv, ReadyGuestIsSeen
<1>4. BehindInv'
  BY <1>1 DEF IInv, BehindInv
<1>5. PendingInv'
  BY <1>1 DEF IInv, TypeOK, PendingInv, Running, Knows
<1>6. QED
  BY <1>2, <1>3, <1>4, <1>5 DEF IInv

LEMMA CompareSectionKeeps == ASSUME IInv, CompareSection PROVE IInv'
<1>1. /\ pc = "compare" /\ at <= Len(Sections) /\ at \in Nat /\ at >= 1
      /\ UNCHANGED <<conf, disk, guest, runtime, restart, timing, meddled, faults>>
      /\ \/ ~Declared(conf[Section]) /\ pc' = "remove" /\ at' = at
         \/ Declared(conf[Section]) /\ pc' = "compare" /\ at' = at + 1
  BY SettingsOf DEF CompareSection, InSection, NextSection, Differs, host, IInv, TypeOK
<1>2. TypeOK'
  BY <1>1, SettingsOf DEF IInv, TypeOK, timing
<1>3. ConfInv'
  <2>1. CASE ~Declared(conf[Section]) /\ pc' = "remove" /\ at' = at
    BY <1>1, <2>1 DEF IInv, ConfInv, Section
  <2>2. CASE Declared(conf[Section]) /\ pc' = "compare" /\ at' = at + 1
    <3>1. \A i \in 1..(at' - 1) : i \in 1..(at - 1) \/ i = at
      BY <1>1, <2>2
    <3>2. QED
      BY <1>1, <2>2, <3>1 DEF IInv, ConfInv, Section
  <2>3. QED
    BY <1>1, <2>1, <2>2
<1>4. BehindInv' /\ ReadyGuestIsSeen'
  BY <1>1 DEF IInv, BehindInv, ReadyGuestIsSeen, timing
<1>5. PendingInv' /\ NeedInv' /\ WaitInv'
  BY <1>1 DEF IInv, PendingInv, NeedInv, WaitInv, Knows, timing
<1>6. QED
  BY <1>2, <1>3, <1>4, <1>5 DEF IInv

(* What the file gets for a section that is not as declared leaves the     *)
(* guest behind it.                                                        *)
LEMMA RemovalIsBehind ==
  ASSUME IInv, NEW s \in Setting, NEW v \in Value, conf' = [conf EXCEPT ![s] = v],
         runtime' = runtime, ~Declared(conf[s]) \/ Declared(v)
  PROVE  BehindInv' /\ conf' \in [Setting -> Value]
BY DEF IInv, TypeOK, BehindInv

LEMMA RemoveSectionKeeps == ASSUME IInv, RemoveSection PROVE IInv'
<1>1. /\ pc = "remove" /\ at <= Len(Sections) /\ Section \in Setting /\ ~Declared(conf[Section])
      /\ conf' = [conf EXCEPT ![Section] = "cut"]
      /\ UNCHANGED <<disk, guest, runtime>>
      /\ "cut" \in Value
  BY SettingsOf DEF RemoveSection, InSection, FailWith, IInv, TypeOK, ConfInv, Section, Value
<1>2. BehindInv' /\ conf' \in [Setting -> Value]
  BY <1>1, RemovalIsBehind
<1>3. CASE pc' = "write" /\ UNCHANGED <<at, restart, timing, meddled, faults>>
  <2>1. TypeOK'
    BY <1>1, <1>2, <1>3 DEF IInv, TypeOK, timing
  <2>2. \A s \in Setting : Declared(conf[s]) <=> Declared(conf'[s])
    BY <1>1 DEF IInv, TypeOK, Declared
  <2>3. Section' = Section /\ conf'[Section] = "cut"
    BY <1>1, <1>3 DEF IInv, TypeOK, Section
  <2>4. \A i \in 1..(at - 1) : Sections[i] \in Setting
    BY <1>1, SettingsOf DEF IInv, TypeOK
  <2>5. ConfInv'
    BY <1>1, <1>3, <2>2, <2>3, <2>4 DEF IInv, ConfInv
  <2>6. PendingInv' /\ NeedInv' /\ WaitInv' /\ ReadyGuestIsSeen'
    BY <1>1, <1>3, <2>2 DEF IInv, PendingInv, NeedInv, WaitInv, ReadyGuestIsSeen, Knows, timing
  <2>7. QED
    BY <1>2, <2>1, <2>5, <2>6 DEF IInv
<1>4. CASE FailWith(conf' = [conf EXCEPT ![Section] = "cut"] /\ UNCHANGED <<disk, guest, runtime>>)
  <2>1. FailWith(TRUE)
    BY <1>4 DEF FailWith
  <2>2. QED
    BY <1>1, <1>2, <2>1, FailureKeeps DEF IInv, TypeOK, Running
<1>5. QED
  BY <1>3, <1>4 DEF RemoveSection

LEMMA WriteSectionKeeps == ASSUME IInv, WriteSection PROVE IInv'
<1>1. /\ pc = "write" /\ at <= Len(Sections) /\ Section \in Setting
      /\ ~Declared(conf[Section]) /\ "new" \in Value /\ Declared("new") /\ at \in 1..Len(Sections)
  BY SettingsOf DEF WriteSection, InSection, IInv, TypeOK, ConfInv, Section, Value, Declared
<1>2. CASE /\ conf' = [conf EXCEPT ![Section] = "new"]
           /\ restart' = restart \cup {Section}
           /\ NextSection
           /\ UNCHANGED <<disk, guest, runtime, timing, meddled, faults>>
  <2>1. BehindInv' /\ conf' \in [Setting -> Value]
    BY <1>1, <1>2, RemovalIsBehind
  <2>2. pc' = "compare" /\ at' = at + 1
    BY <1>2 DEF NextSection
  <2>3. TypeOK'
    BY <1>1, <1>2, <2>1, <2>2, SettingsOf DEF IInv, TypeOK, timing
  <2>4. /\ Declared(conf'[Section])
        /\ \A s \in Setting : s # Section => conf'[s] = conf[s]
    BY <1>1, <1>2 DEF IInv, TypeOK
  <2>5. ConfInv'
    <3>1. \A i \in 1..(at' - 1) : i \in 1..(at - 1) \/ i = at
      BY <1>1, <2>2
    <3>2. \A i \in 1..(at - 1) : Sections[i] \in Setting
      BY <1>1, SettingsOf
    <3>3. \A i \in 1..(at' - 1) : Declared(conf'[Sections[i]])
      BY <1>1, <2>4, <3>1, <3>2 DEF IInv, ConfInv, Section
    <3>4. QED
      BY <2>2, <3>3 DEF ConfInv
  <2>6. PendingInv'
    BY <1>1, <1>2, <2>2, <2>4 DEF IInv, PendingInv, Knows
  <2>7. NeedInv'
    BY <1>1, <1>2, <2>2 DEF IInv, NeedInv, BehindInv, Knows
  <2>8. WaitInv' /\ ReadyGuestIsSeen'
    BY <1>1, <1>2, <2>2 DEF IInv, WaitInv, ReadyGuestIsSeen, timing
  <2>9. QED
    BY <2>1, <2>3, <2>5, <2>6, <2>7, <2>8 DEF IInv
<1>3. ASSUME FailWith(TRUE), UNCHANGED <<disk, guest, runtime>>,
             conf' = [conf EXCEPT ![Section] = "new"] \/ UNCHANGED conf
      PROVE  IInv'
  <2>1. BehindInv' /\ conf' \in [Setting -> Value]
    <3>1. CASE conf' = [conf EXCEPT ![Section] = "new"]
      BY <1>1, <1>3, <3>1, RemovalIsBehind
    <3>2. CASE UNCHANGED conf
      BY <1>3, <3>2 DEF IInv, TypeOK, BehindInv
    <3>3. QED
      BY <1>3, <3>1, <3>2
  <2>2. QED
    BY <1>1, <1>3, <2>1, FailureKeeps DEF IInv, TypeOK, Running
<1>4. CASE FailWith(/\ \/ conf' = [conf EXCEPT ![Section] = "new"]
                       \/ UNCHANGED conf
                    /\ UNCHANGED <<disk, guest, runtime>>)
  <2>1. /\ FailWith(TRUE) /\ UNCHANGED <<disk, guest, runtime>>
        /\ conf' = [conf EXCEPT ![Section] = "new"] \/ UNCHANGED conf
    BY <1>4 DEF FailWith
  <2>2. QED
    BY <1>3, <2>1
<1>5. QED
  BY <1>2, <1>4 DEF WriteSection

LEMMA SectionsDoneKeeps == ASSUME IInv, SectionsDone PROVE IInv'
<1>1. /\ pc = "compare" /\ pc' = "features" /\ at = Len(Sections) + 1
      /\ UNCHANGED <<conf, disk, guest, runtime, at, restart, timing, meddled, faults>>
  BY SettingsOf DEF SectionsDone, host, IInv, TypeOK
<1>2. TypeOK'
  BY <1>1 DEF IInv, TypeOK, timing
<1>3. ConfInv'
  <2>1. at - 1 = Len(Sections)
    BY <1>1, SettingsOf
  <2>2. QED
    BY <1>1, <2>1 DEF IInv, ConfInv
<1>4. BehindInv' /\ ReadyGuestIsSeen'
  BY <1>1 DEF IInv, BehindInv, ReadyGuestIsSeen, timing
<1>5. PendingInv' /\ NeedInv' /\ WaitInv'
  BY <1>1 DEF IInv, PendingInv, NeedInv, WaitInv, Knows, timing
<1>6. QED
  BY <1>2, <1>3, <1>4, <1>5 DEF IInv

LEMMA SetFeaturesKeeps == ASSUME IInv, SetFeatures PROVE IInv'
<1>1. /\ pc = "features" /\ ~Declared(conf["features"]) /\ "features" \in Setting
      /\ conf' = [conf EXCEPT !["features"] = "new"] /\ UNCHANGED <<disk, guest, runtime>>
      /\ "new" \in Value /\ Declared("new")
  BY SettingsOf DEF SetFeatures, FailWith, Differs, Value, Declared
<1>2. BehindInv' /\ conf' \in [Setting -> Value]
  BY <1>1, RemovalIsBehind
<1>3. CASE /\ restart' = restart \cup {"features"} /\ pc' = "rootfs"
           /\ UNCHANGED <<at, timing, meddled, faults>>
  <2>1. TypeOK'
    BY <1>1, <1>2, <1>3 DEF IInv, TypeOK, timing
  <2>2. /\ Declared(conf'["features"])
        /\ \A s \in Setting : s # "features" => conf'[s] = conf[s]
    BY <1>1 DEF IInv, TypeOK
  <2>3. ConfInv'
    BY <1>1, <1>3, <2>2, SettingsOf DEF IInv, ConfInv
  <2>4. PendingInv'
    BY <1>1, <1>3, <2>2 DEF IInv, PendingInv, Knows
  <2>5. NeedInv'
    BY <1>1, <1>3 DEF IInv, NeedInv, BehindInv, Knows
  <2>6. WaitInv' /\ ReadyGuestIsSeen'
    BY <1>1, <1>3 DEF IInv, WaitInv, ReadyGuestIsSeen, timing
  <2>7. QED
    BY <1>2, <2>1, <2>3, <2>4, <2>5, <2>6 DEF IInv
<1>4. CASE FailWith(conf' = [conf EXCEPT !["features"] = "new"] /\ UNCHANGED <<disk, guest, runtime>>)
  <2>1. FailWith(TRUE)
    BY <1>4 DEF FailWith
  <2>2. QED
    BY <1>1, <1>2, <2>1, FailureKeeps DEF IInv, TypeOK, Running
<1>5. QED
  BY <1>3, <1>4 DEF SetFeatures

LEMMA KeepFeaturesKeeps == ASSUME IInv, KeepFeatures PROVE IInv'
<1>1. /\ pc = "features" /\ pc' = "rootfs" /\ Declared(conf["features"])
      /\ UNCHANGED <<conf, disk, guest, runtime, at, restart, timing, meddled, faults>>
  BY DEF KeepFeatures, Differs, host
<1>2. TypeOK'
  BY <1>1 DEF IInv, TypeOK, timing
<1>3. ConfInv' /\ BehindInv' /\ ReadyGuestIsSeen'
  BY <1>1 DEF IInv, ConfInv, BehindInv, ReadyGuestIsSeen, timing
<1>4. PendingInv' /\ NeedInv' /\ WaitInv'
  BY <1>1 DEF IInv, PendingInv, NeedInv, WaitInv, Knows, timing
<1>5. QED
  BY <1>2, <1>3, <1>4 DEF IInv

LEMMA GrowRootfsKeeps == ASSUME IInv, GrowRootfs PROVE IInv'
<1>1. /\ pc = "rootfs" /\ disk' \in {"small", "declared", "large"}
      /\ UNCHANGED <<conf, guest, runtime>>
  BY DEF GrowRootfs, FailWith, host, IInv, TypeOK
<1>2. BehindInv'
  BY <1>1 DEF IInv, BehindInv
<1>3. CASE /\ pc' = "status" /\ disk' # "small"
           /\ UNCHANGED <<at, restart, timing, meddled, faults>>
  <2>1. TypeOK'
    BY <1>1, <1>3 DEF IInv, TypeOK, timing
  <2>2. ConfInv' /\ ReadyGuestIsSeen'
    BY <1>1, <1>3 DEF IInv, ConfInv, ReadyGuestIsSeen, timing
  <2>3. PendingInv' /\ NeedInv' /\ WaitInv'
    BY <1>1, <1>3 DEF IInv, PendingInv, NeedInv, WaitInv, Knows, timing
  <2>4. QED
    BY <1>2, <2>1, <2>2, <2>3 DEF IInv
<1>4. CASE FailWith(TRUE)
  BY <1>1, <1>2, <1>4, FailureKeeps DEF IInv, TypeOK, Running
<1>5. QED
  BY <1>3, <1>4 DEF GrowRootfs, FailWith, host

LEMMA CheckStatusKeeps == ASSUME IInv, CheckStatus PROVE IInv'
<1>1. /\ pc = "status"
      /\ UNCHANGED <<conf, disk, guest, runtime, at, restart, timing, meddled, faults>>
      /\ \/ restart # {} /\ pc' = "reboot"
         \/ (restart = {} \/ guest # "running") /\ pc' = "ok"
  BY DEF CheckStatus, host
<1>2. TypeOK'
  BY <1>1 DEF IInv, TypeOK, timing
<1>3. ConfInv' /\ BehindInv' /\ ReadyGuestIsSeen'
  BY <1>1 DEF IInv, ConfInv, BehindInv, ReadyGuestIsSeen, timing
<1>4. PendingInv' /\ NeedInv' /\ WaitInv'
  BY <1>1 DEF IInv, PendingInv, NeedInv, WaitInv, Knows, timing
<1>5. QED
  BY <1>2, <1>3, <1>4 DEF IInv

LEMMA RebootKeeps == ASSUME IInv, Reboot PROVE IInv'
<1>1. CASE /\ guest = "running" /\ Rebooted /\ pc' = "wait"
           /\ clock' = 0 /\ genuine' = FALSE /\ \E r \in 0..Never : readyAt' = r
           /\ UNCHANGED <<at, restart, gaveUp, meddled, faults>>
  <2>1. guest' = "running" /\ runtime' = conf /\ UNCHANGED <<conf, disk>> /\ readyAt' \in 0..Never
    BY <1>1 DEF Rebooted
  <2>2. clock' \in 0..(ReadyTimeout + MinUseful + KillGrace)
    BY <1>1, Times
  <2>3. TypeOK'
    BY <1>1, <2>1, <2>2 DEF IInv, TypeOK
  <2>4. pc = "reboot" /\ ~gaveUp /\ ~gaveUp'
    BY <1>1 DEF Reboot, IInv, TypeOK, WaitInv
  <2>5. ConfInv'
    BY <1>1, <2>1, <2>4 DEF IInv, ConfInv
  <2>6. BehindInv' /\ PendingInv' /\ NeedInv' /\ WaitInv' /\ ReadyGuestIsSeen'
    BY <1>1, <2>1, <2>4 DEF BehindInv, PendingInv, NeedInv, WaitInv, ReadyGuestIsSeen, Knows
  <2>7. QED
    BY <2>3, <2>5, <2>6 DEF IInv
<1>2. CASE /\ guest = "stopped" /\ pc' = "failed"
           /\ UNCHANGED <<host, at, restart, timing, meddled, faults>>
  <2>1. TypeOK'
    BY <1>2 DEF IInv, TypeOK, host, timing
  <2>2. pc = "reboot" /\ ~gaveUp /\ ~gaveUp'
    BY <1>2 DEF Reboot, IInv, TypeOK, WaitInv, timing
  <2>3. BehindInv'
    BY <1>2 DEF IInv, BehindInv, host
  <2>4. ConfInv' /\ PendingInv' /\ NeedInv' /\ WaitInv' /\ ReadyGuestIsSeen'
    BY <1>2, <2>2 DEF ConfInv, PendingInv, NeedInv, WaitInv, ReadyGuestIsSeen, Knows, host
  <2>5. QED
    BY <2>1, <2>3, <2>4 DEF IInv
<1>3. CASE FailWith(Rebooted \/ ShutDown)
  <2>1. FailWith(TRUE) /\ Running
    BY <1>3 DEF FailWith, Reboot, Running
  <2>2. /\ guest' \in {"running", "stopped"} /\ UNCHANGED <<conf, disk>>
        /\ runtime' = conf \/ runtime' = runtime
    BY <1>3 DEF FailWith, Rebooted, ShutDown
  <2>3. BehindInv'
    BY <2>2 DEF IInv, BehindInv
  <2>4. QED
    BY <2>1, <2>2, <2>3, FailureKeeps DEF IInv, TypeOK
<1>4. QED
  BY <1>1, <1>2, <1>3 DEF Reboot

LEMMA AttemptSucceedsKeeps == ASSUME IInv, AttemptSucceeds PROVE IInv'
<1>1. /\ pc = "wait" /\ pc' = "ok"
      /\ UNCHANGED <<conf, disk, guest, runtime, at, restart, readyAt, genuine, gaveUp, meddled, faults>>
  BY DEF AttemptSucceeds, host
<1>2. PICK d \in 0..(KillAfter - 1) : clock' = clock + d
  BY DEF AttemptSucceeds
<1>3. clock' \in 0..(ReadyTimeout + MinUseful + KillGrace)
  BY <1>1, <1>2, AttemptTime, Times DEF IInv
<1>4. TypeOK'
  BY <1>1, <1>3 DEF IInv, TypeOK
<1>5. ~gaveUp
  BY <1>1 DEF IInv, TypeOK, WaitInv
<1>6. ConfInv' /\ BehindInv'
  BY <1>1 DEF IInv, ConfInv, BehindInv
<1>7. PendingInv' /\ NeedInv' /\ WaitInv' /\ ReadyGuestIsSeen'
  BY <1>1, <1>5 DEF IInv, PendingInv, NeedInv, WaitInv, ReadyGuestIsSeen, Knows
<1>8. QED
  BY <1>4, <1>6, <1>7 DEF IInv

(* An attempt that ends at time t, by itself before the guest is ready or  *)
(* killed after it began before that.                                      *)
LEMMA RetryKeeps ==
  ASSUME IInv, pc = "wait", NEW t \in Nat, Retry(t), t <= Bound,
         t <= readyAt + ReadyCommandTimeout + KillGrace, genuine' \in BOOLEAN,
         UNCHANGED <<host, at, restart, readyAt, meddled, faults>>
  PROVE  IInv'
<1>1. /\ UNCHANGED <<conf, disk, guest, runtime, at, restart, readyAt, meddled, faults>>
      /\ ~gaveUp /\ readyAt \in Nat /\ t <= ReadyTimeout + MinUseful + KillGrace
  BY Times DEF host, IInv, TypeOK, WaitInv
<1>2. CASE NoTimeLeft(t)
  <2>1. /\ pc' = "failed" /\ gaveUp' = TRUE /\ clock' = t
        /\ t + ReadyDelay + MinUseful >= ReadyTimeout
    BY <1>2 DEF Retry, NoTimeLeft
  <2>2. clock' \in 0..(ReadyTimeout + MinUseful + KillGrace)
    BY <1>1, <2>1, Times
  <2>3. TypeOK'
    BY <1>1, <2>1, <2>2 DEF IInv, TypeOK
  <2>4. BehindInv' /\ PendingInv'
    BY <1>1, <2>1 DEF IInv, BehindInv, PendingInv, Knows
  <2>5. ConfInv' /\ NeedInv'
    BY <2>1 DEF ConfInv, NeedInv, Knows
  <2>6. WaitInv'
    BY <2>1 DEF WaitInv, Bound
  <2>7. ReadyGuestIsSeen'
    BY <1>1, <2>1, Times DEF ReadyGuestIsSeen
  <2>8. QED
    BY <2>3, <2>4, <2>5, <2>6, <2>7 DEF IInv
<1>3. CASE ~NoTimeLeft(t)
  <2>1. /\ pc' = pc /\ gaveUp' = gaveUp /\ clock' = t + ReadyDelay
        /\ ~(t + ReadyDelay + MinUseful >= ReadyTimeout)
    BY <1>3 DEF Retry, NoTimeLeft
  <2>2. clock' \in 0..(ReadyTimeout + MinUseful + KillGrace) /\ clock' + MinUseful < ReadyTimeout
    BY <2>1, Times
  <2>3. TypeOK'
    BY <1>1, <2>1, <2>2 DEF IInv, TypeOK
  <2>4. ConfInv' /\ BehindInv' /\ PendingInv'
    BY <1>1, <2>1 DEF IInv, ConfInv, BehindInv, PendingInv, Knows
  <2>5. NeedInv' /\ WaitInv' /\ ReadyGuestIsSeen'
    BY <1>1, <2>1, <2>2 DEF IInv, NeedInv, WaitInv, ReadyGuestIsSeen, Knows
  <2>6. QED
    BY <2>3, <2>4, <2>5 DEF IInv
<1>4. QED
  BY <1>2, <1>3

LEMMA AttemptFailsKeeps == ASSUME IInv, AttemptFails PROVE IInv'
<1>1. /\ pc = "wait" /\ genuine' = TRUE
      /\ UNCHANGED <<host, at, restart, readyAt, meddled, faults>>
  BY DEF AttemptFails
<1>2. PICK d \in 0..(KillAfter - 1) : clock + d < readyAt /\ Retry(clock + d)
  BY DEF AttemptFails
<1>3. /\ KillAfter \in Nat /\ clock \in Nat /\ clock + KillAfter + KillGrace <= Bound
      /\ readyAt \in Nat
  BY <1>1, AttemptTime, Times DEF IInv, TypeOK
<1>4. /\ clock + d \in Nat /\ clock + d <= Bound
      /\ clock + d <= readyAt + ReadyCommandTimeout + KillGrace
  BY <1>2, <1>3, Times
<1>5. QED
  BY <1>1, <1>2, <1>4, RetryKeeps

LEMMA AttemptKilledKeeps == ASSUME IInv, AttemptKilled PROVE IInv'
<1>1. /\ pc = "wait" /\ genuine' = genuine /\ clock < readyAt
      /\ UNCHANGED <<host, at, restart, readyAt, meddled, faults>>
  BY DEF AttemptKilled
<1>2. PICK g \in 0..KillGrace : Retry(clock + KillAfter + g)
  BY DEF AttemptKilled
<1>3. /\ KillAfter \in Nat /\ KillAfter <= ReadyCommandTimeout
      /\ clock \in Nat /\ clock + KillAfter + KillGrace <= Bound
      /\ readyAt \in Nat /\ genuine \in BOOLEAN
  BY <1>1, AttemptTime, Times DEF IInv, TypeOK
<1> DEFINE t == clock + KillAfter + g
<1>4. /\ t \in Nat /\ t <= Bound /\ t <= readyAt + ReadyCommandTimeout + KillGrace
  BY <1>1, <1>2, <1>3, Times
<1>5. Retry(t) /\ genuine' \in BOOLEAN
  BY <1>1, <1>2, <1>3
<1> HIDE DEF t
<1>6. QED
  BY <1>1, <1>4, <1>5, RetryKeeps

-----------------------------------------------------------------------------
(* Others. *)

LEMMA OutsideStartKeeps == ASSUME IInv, OutsideStart PROVE IInv'
<1>1. /\ guest' = "running" /\ runtime' = conf /\ meddled' = TRUE
      /\ UNCHANGED <<conf, disk, pc, at, restart, timing, faults>>
  BY DEF OutsideStart
<1>2. TypeOK'
  BY <1>1 DEF IInv, TypeOK, timing
<1>3. ConfInv'
  BY <1>1 DEF IInv, ConfInv, Section
<1>4. BehindInv' /\ PendingInv' /\ NeedInv' /\ WaitInv' /\ ReadyGuestIsSeen'
  BY <1>1 DEF IInv, BehindInv, PendingInv, NeedInv, WaitInv, ReadyGuestIsSeen, timing
<1>5. QED
  BY <1>2, <1>3, <1>4 DEF IInv

LEMMA OutsideStopKeeps == ASSUME IInv, OutsideStop PROVE IInv'
<1>1. /\ guest' = "stopped"
      /\ UNCHANGED <<conf, disk, runtime, pc, at, restart, timing, meddled, faults>>
  BY DEF OutsideStop
<1>2. TypeOK'
  BY <1>1 DEF IInv, TypeOK, timing
<1>3. ConfInv'
  BY <1>1 DEF IInv, ConfInv, Section
<1>4. BehindInv' /\ PendingInv' /\ NeedInv' /\ WaitInv' /\ ReadyGuestIsSeen'
  BY <1>1 DEF IInv, BehindInv, PendingInv, NeedInv, WaitInv, ReadyGuestIsSeen, timing
<1>5. QED
  BY <1>2, <1>3, <1>4 DEF IInv

LEMMA ProxmoxRewritesKeeps == ASSUME IInv, ProxmoxRewrites PROVE IInv'
<1>1. /\ ~Running
      /\ conf' = [s \in Setting |-> IF conf[s] = "new" THEN "moved" ELSE conf[s]]
      /\ UNCHANGED <<disk, guest, runtime, pc, at, restart, timing, meddled, faults>>
  BY DEF ProxmoxRewrites
<1>2. \A s \in Setting : conf'[s] \in Value /\ (Declared(conf'[s]) <=> Declared(conf[s]))
  BY <1>1 DEF IInv, TypeOK, Value, Declared
<1>3. conf' \in [Setting -> Value]
  BY <1>1, <1>2
<1>4. TypeOK'
  BY <1>1, <1>3 DEF IInv, TypeOK, timing
<1>5. ConfInv'
  BY <1>1, <1>2, SettingsOf DEF IInv, ConfInv, Running
<1>6. BehindInv' /\ PendingInv' /\ NeedInv'
  BY <1>1, <1>2 DEF IInv, BehindInv, PendingInv, NeedInv
<1>7. WaitInv' /\ ReadyGuestIsSeen'
  BY <1>1 DEF IInv, WaitInv, ReadyGuestIsSeen, timing
<1>8. QED
  BY <1>4, <1>5, <1>6, <1>7 DEF IInv

LEMMA StutterKeeps == ASSUME IInv, UNCHANGED vars PROVE IInv'
<1>1. UNCHANGED <<conf, disk, guest, runtime, pc, at, restart, timing, meddled, faults>>
  BY DEF vars, host
<1>2. TypeOK'
  BY <1>1 DEF IInv, TypeOK, timing
<1>3. ConfInv' /\ BehindInv' /\ PendingInv'
  BY <1>1 DEF IInv, ConfInv, BehindInv, PendingInv, Section
<1>4. NeedInv' /\ WaitInv' /\ ReadyGuestIsSeen'
  BY <1>1 DEF IInv, NeedInv, WaitInv, ReadyGuestIsSeen, timing
<1>5. QED
  BY <1>2, <1>3, <1>4 DEF IInv

(* Every step keeps the invariant.                                         *)
LEMMA NextKeeps == ASSUME IInv, [Next]_vars PROVE IInv'
<1>1. CASE StartRun \/ FailTask
  BY <1>1, StartRunKeeps, FailTaskKeeps
<1>2. CASE CompareSection \/ RemoveSection \/ WriteSection \/ SectionsDone
  BY <1>2, CompareSectionKeeps, RemoveSectionKeeps, WriteSectionKeeps, SectionsDoneKeeps
<1>3. CASE SetFeatures \/ KeepFeatures \/ GrowRootfs \/ CheckStatus
  BY <1>3, SetFeaturesKeeps, KeepFeaturesKeeps, GrowRootfsKeeps, CheckStatusKeeps
<1>4. CASE Reboot \/ AttemptSucceeds \/ AttemptFails \/ AttemptKilled
  BY <1>4, RebootKeeps, AttemptSucceedsKeeps, AttemptFailsKeeps, AttemptKilledKeeps
<1>5. CASE OutsideStart \/ OutsideStop \/ ProxmoxRewrites
  BY <1>5, OutsideStartKeeps, OutsideStopKeeps, ProxmoxRewritesKeeps
<1>6. CASE UNCHANGED vars
  BY <1>6, StutterKeeps
<1>7. QED
  BY <1>1, <1>2, <1>3, <1>4, <1>5, <1>6 DEF Next, RunSteps

-----------------------------------------------------------------------------
(* The inductive invariant. *)
THEOREM InvHolds == Spec => []IInv
<1>1. IInv /\ [Next]_vars => IInv'
  BY NextKeeps
<1>2. QED
  BY InitInv, <1>1, PTL DEF Spec

(* The variables have their types, whatever the sections and the times.    *)
THEOREM TypeCorrect == Spec => []TypeOK
<1>1. IInv => TypeOK
  BY DEF IInv
<1>2. QED
  BY InvHolds, <1>1, PTL

(* A run that ends well leaves every setting as declared and the disk      *)
(* large enough, whatever an earlier run broke off.                        *)
THEOREM SuccessCorrect == Spec => []SuccessIsComplete
<1>1. IInv => SuccessIsComplete
  BY SettingsOf DEF IInv, ConfInv, SuccessIsComplete, AsDeclared
<1>2. QED
  BY InvHolds, <1>1, PTL

(* As long as no task has failed, the guest that a run leaves running was  *)
(* started with the declared settings, whoever else starts or stops it.    *)
THEOREM RestartCorrect == Spec => []RestartIsNotForgotten
<1>1. ASSUME IInv, pc = "ok", faults = 0, guest = "running", NEW s \in Setting
      PROVE  Declared(runtime[s])
  <2>1. Declared(conf[s])
    BY <1>1, SettingsOf DEF IInv, ConfInv
  <2>2. QED
    BY <1>1, <2>1 DEF IInv, PendingInv, Knows
<1>2. IInv => RestartIsNotForgotten
  BY <1>1 DEF RestartIsNotForgotten
<1>3. QED
  BY InvHolds, <1>2, PTL

(* A run reboots a guest only for a setting that the guest runs without.   *)
THEOREM RestartNeeded == Spec => []NoNeedlessRestart
<1>1. IInv => NoNeedlessRestart
  BY DEF IInv, TypeOK, NeedInv, Knows, NoNeedlessRestart
<1>2. QED
  BY InvHolds, <1>1, PTL

(* The wait for a rebooted guest ends by its deadline, but for the least   *)
(* useful attempt and the grace of a killed one, for any timeouts.         *)
THEOREM WaitCorrect == Spec => []WaitIsBounded
<1>1. ASSUME IInv, pc = "wait" PROVE clock <= Bound
  <2>1. KillAfter \in Nat /\ clock \in Nat /\ clock + KillAfter + KillGrace <= Bound
    BY <1>1, AttemptTime DEF IInv
  <2>2. QED
    BY <2>1, Times
<1>2. IInv => WaitIsBounded
  BY <1>1 DEF IInv, WaitInv, Bound, WaitIsBounded
<1>3. QED
  BY InvHolds, <1>2, PTL

(* The wait gives up on no guest that was ready early enough to be asked.  *)
THEOREM ReadyCorrect == Spec => []ReadyGuestIsSeen
<1>1. IInv => ReadyGuestIsSeen
  BY DEF IInv
<1>2. QED
  BY InvHolds, <1>1, PTL
=============================================================================
