-------------------------- MODULE LxcLifecycleProofs --------------------------
(***************************************************************************)
(* Theorems about LxcLifecycle, for any fleet, inventory, invocations and  *)
(* bounds.                                                                 *)
(***************************************************************************)
EXTENDS LxcLifecycle, TLAPS

(* Between runs nothing is remembered.                                     *)
IdleInv ==
  phase = "idle" =>
    /\ command = NoCommand /\ limit = {} /\ targets = {} /\ pending = {} /\ lost = {}
    /\ problem = {} /\ clean
    /\ \A h \in Host : seen[h] = "unseen" /\ drifted[h] = "no"

(* Until the barrier nothing is executed.                                  *)
Planning == phase \in {"idle", "compile", "plan"}
PlanningInv ==
  Planning =>
    /\ failed = {} /\ at = NoHost /\ latch = NoHost
    /\ deferred = {} /\ rebuilt = {} /\ killed = {}
    /\ \A h \in Host : did[h] = {} /\ destroyed[h] = NoRelease /\ after[h] = NoObservation

(* Preflight looks at the fleet once, and planning comes after it.         *)
EarlyInv ==
  phase \in {"idle", "compile"} =>
    \A h \in Host : /\ seen[h] = "unseen" /\ before[h] = NoObservation /\ plan[h] = NoPlan
                    /\ result[h] = "none" /\ drifted[h] = "no"

(* An invocation; the control node is a target when the run includes it,   *)
(* and then the only one.                                                  *)
CommandInv ==
  phase # "idle" =>
    /\ command \in Command
    /\ command.self => targets = {Self}
    /\ ~command.self => Self \notin targets
    /\ limit \ targets \subseteq {Self}

(* Who has got through planning has a problem or a plan.                   *)
BarrierInv ==
  /\ phase = "plan" => \A t \in targets \ pending : t \in lost \cup problem \/ plan[t] # NoPlan
  /\ phase \in {"execute", "report", "aborted"} =>
       /\ \A t \in targets \ lost : t \in problem \/ plan[t] # NoPlan
       /\ failed \subseteq problem
       /\ Coordinates => failed = problem

(* Execution has one target at a time, and none behind the barrier or the  *)
(* latch.                                                                  *)
AtInv ==
  /\ at = NoHost => todo = {}
  /\ at # NoHost => /\ phase = "execute" /\ failed = {} /\ latch = NoHost
                    /\ at \notin pending \cup lost
  /\ Acted => failed = {}
  /\ latch # NoHost => latch \notin pending
  /\ phase = "execute" => pending \cap lost = {}
  /\ phase = "report" => pending = {}

(* A plan is the one decided for what was observed, and is allowed.        *)
PlanInv ==
  \A h \in Host : plan[h] # NoPlan =>
    /\ h \in targets
    /\ before[h] # NoObservation
    /\ before[h].state = seen[h]
    /\ before[h].probe = "probed" => h \in Present /\ seen[h] = "running"
    /\ plan[h] = Decide(h, before[h])
    /\ ~Forbidden(h, before[h], plan[h])
    /\ ~EvidenceMissing(h, before[h])

(* Nothing has been done to a target whose execution has not begun.        *)
WaitingInv ==
  \A h \in Host :
    /\ h \in pending \/ (at = h /\ "busy" \in todo) =>
         did[h] = {} /\ h \notin deferred /\ destroyed[h] = NoRelease /\ after[h] = NoObservation
    /\ at = h /\ "busy" \in todo => todo = {"busy"}

(* What is still to be done follows from the plan and the busy check, and  *)
(* is done in order.                                                       *)
Working(h) ==
  /\ plan[h] # NoPlan
  /\ command.self => h \in deferred
  /\ \A s \in todo : Calls(h, h \in deferred, s)
  /\ \A s \in Step \ todo, t \in todo : Calls(h, h \in deferred, s) => Position[s] < Position[t]
  /\ "reobserve" \in todo <=> after[h] = NoObservation
  /\ {"stop", "destroy"} \cap todo # {} => did[h] \subseteq {"stop"} /\ destroyed[h] = NoRelease

WorkingInv == \A h \in Host : at = h /\ "busy" \notin todo => Working(h)

(* What has been done to a host is what its plan and its busy check allow. *)
DeedInv ==
  \A h \in Host : did[h] # {} =>
    /\ plan[h] # NoPlan /\ ~command.check
    /\ h \in deferred => did[h] \subseteq {"access", "configure", "recreate"}
    /\ command.self => h \in deferred
    /\ {"stop", "destroy"} \cap did[h] # {} => plan[h].transition \in {"rebuild", "remove"}
    /\ "create" \in did[h] => plan[h].transition # "none" /\ h \in Present
    /\ "start" \in did[h] => plan[h].start
    /\ {"configure", "upgrade", "recreate"} \cap did[h] # {} => plan[h].configure
    /\ "start" \in did[h] /\ command.intent = "provision_only"
         => "create" \in did[h] \/ drifted[h] # "no"

(* Why a host is deferred. *)
DeferredInv ==
  \A h \in deferred :
    /\ plan[h] # NoPlan
    /\ \/ command.self
       \/ before[h].state = "running" /\ plan[h].transition # "remove" /\ ~command.check

(* Deeds that change whether a guest is there and runs. *)
Moving == {"stop", "destroy", "create", "start", "reboot"}

(* A container that does not run does no work, one that is not there has   *)
(* no release, and the control node's is never destroyed.                  *)
GuestInv ==
  /\ \A h \in Host : /\ guest[h].state # "running" => job[h] = "none"
                     /\ guest[h].state = "absent" <=> guest[h].release = NoRelease
  /\ Self \in Host => guest[Self].state # "absent"

(* What preflight saw is so until the run or somebody else changes it.     *)
SeenInv ==
  \A h \in Host : seen[h] \in State =>
    /\ drifted[h] = "no" /\ did[h] \cap Moving = {} => guest[h].state = seen[h]
    /\ seen[h] = "absent" /\ "create" \notin did[h] => guest[h].state = "absent"
    /\ seen[h] # "absent" /\ "destroy" \notin did[h] => guest[h].state # "absent"

(* A guest is destroyed only under a plan to rebuild or remove it.         *)
DestroyInv ==
  \A h \in Host : destroyed[h] # NoRelease =>
    /\ plan[h] # NoPlan
    /\ plan[h].transition \in {"rebuild", "remove"}
    /\ plan[h].transition = "rebuild" => destroyed[h] = before[h].release

(* The release that was probed is the guest's until it is destroyed; one   *)
(* that needs no rebuild keeps the desired one.                            *)
ReleaseInv ==
  \A h \in Host : plan[h] # NoPlan =>
    /\ plan[h].transition = "rebuild" /\ destroyed[h] = NoRelease
         /\ "create" \notin did[h] /\ guest[h].state # "absent"
         => guest[h].release = before[h].release
    /\ h \in Present \cap RebuildPolicy /\ plan[h].transition # "rebuild" /\ guest[h].state # "absent"
         => guest[h].release = Desired[h]

(* The state a guest has while its execution goes on, if nobody else       *)
(* changes it.                                                             *)
RebuildTrack(h) ==
  /\ "stop" \in todo => guest[h].state = "running"
  /\ "stop" \notin todo /\ "destroy" \in todo => guest[h].state = "stopped"
  /\ "destroy" \notin todo /\ "ensure" \in todo => guest[h].state = "absent"
  /\ "ensure" \notin todo => "create" \in did[h] /\ guest[h].release = Desired[h]
  /\ "ensure" \notin todo /\ "start" \in todo => guest[h].state = "stopped"
  /\ "start" \notin todo => guest[h].state = "running"

RemoveTrack(h) ==
  /\ "stop" \in todo => guest[h].state = before[h].state
  /\ "stop" \notin todo /\ "ensure" \in todo => guest[h].state = "stopped"
  /\ "ensure" \notin todo => guest[h].state = "absent"
  /\ after[h] # NoObservation => after[h].state = "absent"

ProvisionTrack(h) ==
  /\ "ensure" \in todo => guest[h].state = before[h].state
  /\ "ensure" \notin todo /\ before[h].state = "absent" => "create" \in did[h]
  /\ "ensure" \notin todo /\ "start" \in todo => guest[h].state = "stopped"
  /\ {"ensure", "start"} \cap todo = {} =>
       guest[h].state = IF plan[h].start THEN "running" ELSE before[h].state

TrackInv ==
  \A h \in Host \ deferred :
    at = h /\ "busy" \notin todo /\ drifted[h] = "no" /\ ~command.check =>
      /\ plan[h].transition = "rebuild" => RebuildTrack(h)
      /\ plan[h].transition = "remove" => RemoveTrack(h)
      /\ plan[h].transition \in {"provision", "start"} => ProvisionTrack(h)

(* Once asked and not deferred, a guest has no work from before.           *)
QuietInv ==
  \A h \in Host \ deferred :
    at = h /\ "busy" \notin todo /\ drifted[h] = "no" /\ ~command.check /\ ~command.override
      /\ plan[h].transition # "remove" => job[h] # "early"

(* What was observed afterwards, and what has been ensured, stays.         *)
AfterInv ==
  \A h \in Host :
    /\ after[h] # NoObservation /\ after[h].state = "absent" => guest[h].state = "absent"
    /\ at = h /\ "busy" \notin todo /\ "ensure" \notin todo /\ ~command.check
         /\ h \in Present \ deferred /\ plan[h].transition # "none" => guest[h].state # "absent"
    /\ at = h /\ "busy" \notin todo /\ "configure" \notin todo /\ GuestSide(h)
         /\ ~command.check /\ drifted[h] # "after" => guest[h].state = "running"

(* What a result says.                                                     *)
ResultOK(h) ==
  /\ phase = "plan" /\ plan[h] # NoPlan => result[h] = "planned"
  /\ phase = "execute" /\ failed = {} /\ plan[h] # NoPlan /\ (h \in pending \/ at = h)
       => result[h] = "planned"
  /\ phase = "plan" /\ h \in pending => plan[h] = NoPlan
  /\ result[h] \in {"planning_failed", "blocked", "not_executed", "checked"} => did[h] = {}
  /\ at = h /\ result[h] = "planning_failed" => "busy" \in todo
  /\ result[h] = "execution_failed" => latch = h
  /\ result[h] \in {"removed", "absent"} => guest[h].state = "absent"
  /\ result[h] = "ensured" => guest[h].state # "absent"
  /\ result[h] = "configured" =>
       /\ after[h] # NoObservation
       /\ drifted[h] # "after" => guest[h].state = "running"
       /\ h \in RebuildPolicy \ deferred
            => \/ guest[h].release = Desired[h]
               \/ plan[h].transition = "rebuild" /\ drifted[h] # "no"

ResultInv == \A h \in Host : ResultOK(h)

(* A run without a fault.                                                  *)
CleanInv ==
  clean => lost = {} /\ \A h \in Host : drifted[h] = "no"

Converged(t) ==
  IF t \in Present
    THEN /\ guest[t].state = "running"
         /\ t \in RebuildPolicy => guest[t].release = Desired[t]
    ELSE guest[t].state = "absent"

ConvergeInv ==
  phase \in {"execute", "report"} /\ clean /\ problem = {}
    /\ command.intent = "full" /\ ~command.check =>
      /\ command.self \/ latch = NoHost
      /\ \A t \in targets \ pending :
           at = t \/ t \in deferred \/ (~command.self /\ Converged(t))

BusyWorkInv ==
  \A h \in killed :
    command.override \/ plan[h].transition = "remove" \/ drifted[h] # "no"

IInv == /\ TypeOK /\ IdleInv /\ PlanningInv /\ EarlyInv /\ CommandInv /\ BarrierInv
        /\ AtInv /\ PlanInv /\ WaitingInv /\ WorkingInv /\ DeedInv /\ DeferredInv /\ GuestInv /\ SeenInv
        /\ DestroyInv /\ ReleaseInv /\ TrackInv /\ QuietInv /\ AfterInv /\ ResultInv
        /\ CleanInv /\ ConvergeInv /\ BusyWorkInv

-----------------------------------------------------------------------------
(* What a task may do. *)

Tasks == Step \ {"busy", "publish"}

TaskDeeds(h, s) ==
  CASE s = "ensure" -> IF h \in Present THEN {"create"} ELSE {"destroy"}
    [] s = "hostconfig" -> {"hostconfig", "reboot"}
    [] s = "reobserve" -> {}
    [] s = "stacks" -> {"recreate"}
    [] OTHER -> {s}

Possible(h, s) ==
  CASE s \in {"start", "hostconfig"} -> Check \/ guest[h].state # "absent"
    [] s \in {"configure", "upgrade", "stacks", "reboot"} -> guest[h].state = "running"
    [] OTHER -> TRUE

(* Only the target at work is touched. *)
Elsewhere(h) ==
  \A g \in Host \ {h} :
    /\ guest'[g] = guest[g] /\ job'[g] = job[g] /\ did'[g] = did[g]
    /\ destroyed'[g] = destroyed[g] /\ after'[g] = after[g]
    /\ g \in killed' => g \in killed

(* The effects a task may have, whether it succeeds or fails.              *)
Touches(h, s) ==
  /\ did[h] \subseteq did'[h] /\ did'[h] \subseteq did[h] \cup TaskDeeds(h, s)
  /\ Check => did'[h] = did[h] /\ guest'[h] = guest[h]
  /\ guest'[h].state # guest[h].state => did'[h] \cap Moving # {}
  /\ \/ guest'[h].release = guest[h].release
        /\ (guest'[h].state = "absent" <=> guest[h].state = "absent")
     \/ /\ s = "destroy" \/ (s = "ensure" /\ h \notin Present)
        /\ guest'[h] = Absent /\ "destroy" \in did'[h]
     \/ /\ s = "ensure" /\ h \in Present /\ guest[h].state = "absent"
        /\ guest'[h] = [state |-> "stopped", release |-> Desired[h]] /\ "create" \in did'[h]
  /\ \/ destroyed'[h] = destroyed[h]
     \/ /\ s = "destroy" \/ (s = "ensure" /\ h \notin Present)
        /\ destroyed'[h] = guest[h].release /\ guest'[h] = Absent
  /\ job'[h] \in {job[h], "none"}
  /\ guest'[h].state # "running" => job'[h] = "none"
  /\ h \in killed' => \/ h \in killed
                      \/ /\ job[h] = "early" /\ ~Check
                         /\ \/ s \in {"stop", "hostconfig", "upgrade", "reboot"}
                            \/ s = "stacks" /\ ~Asked(h)
  /\ s # "reobserve" => after'[h] = after[h]

(* What has become of the guest when the task is done.                     *)
Achieves(h, s) ==
  CASE s = "stop" -> guest'[h].state = IF guest[h].state = "running" THEN "stopped" ELSE guest[h].state
    [] s = "destroy" -> guest[h].state = "stopped" => guest'[h] = Absent
    [] s = "ensure" ->
         IF Check THEN guest'[h] = guest[h]
         ELSE IF h \in Present
           THEN IF guest[h].state = "absent"
                  THEN /\ guest'[h] = [state |-> "stopped", release |-> Desired[h]]
                       /\ "create" \in did'[h]
                  ELSE guest'[h] = guest[h]
         ELSE guest[h].state = "stopped" => guest'[h] = Absent
    [] s = "start" ->
         IF Check THEN guest'[h] = guest[h]
         ELSE guest'[h].state = IF guest[h].state = "stopped" THEN "running" ELSE guest[h].state
    [] s = "reobserve" ->
         /\ guest'[h] = guest[h] /\ after'[h] # NoObservation
         /\ after'[h].state = IF ~Check /\ (plan[h].transition # "none" \/ plan[h].reconcile)
                               THEN guest[h].state ELSE before[h].state
    [] OTHER -> guest'[h] = guest[h]

Goes(h, s) ==
  /\ UNCHANGED <<planVars, failed, drifted, deferred>>
  /\ clean' => clean
  /\ \/ Completes(s) /\ Possible(h, s) /\ Achieves(h, s)
     \/ Fails(h) /\ UNCHANGED after /\ (clean' => ~Possible(h, s))
     \/ Unreachable(h) /\ UNCHANGED after /\ ~clean'

TaskStep(h, s) == Due(h, s) /\ Elsewhere(h) /\ Touches(h, s) /\ Goes(h, s)

-----------------------------------------------------------------------------
(* A fault is within its bound. *)
LEMMA FaultIsCounted ==
  ASSUME TypeOK, faults < MaxFaults, faults' = faults + 1
  PROVE  faults' \in 0..MaxFaults
<1>1. faults \in 0..MaxFaults /\ MaxFaults \in Nat
  BY ConstantsOK DEF TypeOK
<1>2. QED
  BY <1>1

(* The parts of the type that a task's effect and its outcome disturb.     *)
EffectOK ==
  /\ guest \in [Host -> [state : State, release : Release \cup {NoRelease}]]
  /\ job \in [Host -> {"none", "early", "late"}]
  /\ did \in [Host -> SUBSET Deed]
  /\ destroyed \in [Host -> Release \cup {NoRelease}]
  /\ killed \in SUBSET targets

OutcomeOK ==
  /\ faults \in 0..MaxFaults /\ clean \in BOOLEAN
  /\ phase \in {"idle", "compile", "plan", "execute", "report", "aborted"}
  /\ pending \in SUBSET targets /\ lost \in SUBSET targets
  /\ result \in [Host -> Status]
  /\ at \in targets \cup {NoHost} /\ todo \in SUBSET Step
  /\ latch \in targets \cup {NoHost}

(* Types are kept where the effects and the outcome of a step are typed.   *)
LEMMA TypeIsKept ==
  ASSUME TypeOK, EffectOK', OutcomeOK',
         UNCHANGED <<runs, planVars, failed, deferred, drifted>>,
         rebuilt' \in SUBSET targets,
         after' \in [Host -> Observation \cup {NoObservation}]
  PROVE  TypeOK'
BY DEF TypeOK, EffectOK, OutcomeOK, planVars

Harmless(h, s) == EffectOK' /\ Elsewhere(h) /\ Touches(h, s)

(* A step without effect.                                                  *)
LEMMA NothingIsHarmless ==
  ASSUME TypeOK, GuestInv, NEW h \in Host, NEW s, UNCHANGED <<effectVars, after>>,
         UNCHANGED targets
  PROVE  Harmless(h, s)
<1>1. EffectOK' /\ Elsewhere(h)
  BY DEF EffectOK, TypeOK, Elsewhere, effectVars
<1>2. Touches(h, s)
  BY DEF Touches, TypeOK, GuestInv, effectVars
<1>3. QED
  BY <1>1, <1>2 DEF Harmless

LEMMA StopsIsHarmless ==
  ASSUME TypeOK, GuestInv, NEW h \in targets, Stops(h), ~Check, UNCHANGED <<after, targets>>
  PROVE  Harmless(h, "stop")
<1> h \in Host
  BY DEF TypeOK
<1>1. CASE guest[h].state = "running"
  <2> USE <1>1 DEF Stops, SetState, EndsWork, Does
  <2>1. EffectOK'
    <3>1. guest' \in [Host -> [state : State, release : Release \cup {NoRelease}]]
      BY DEF TypeOK, State
    <3>2. did' \in [Host -> SUBSET Deed]
      BY DEF TypeOK, Deed
    <3>3. job' \in [Host -> {"none", "early", "late"}] /\ killed' \in SUBSET targets
      BY DEF TypeOK
    <3>4. destroyed' \in [Host -> Release \cup {NoRelease}]
      BY DEF TypeOK
    <3>5. QED
      BY <3>1, <3>2, <3>3, <3>4 DEF TypeOK, EffectOK
  <2>2. Elsewhere(h)
    BY DEF TypeOK, Elsewhere
  <2>3. /\ guest'[h].state = "stopped" /\ guest'[h].release = guest[h].release
        /\ did'[h] = did[h] \cup {"stop"} /\ destroyed' = destroyed /\ job'[h] = "none"
        /\ killed' = killed \cup (IF job[h] = "early" THEN {h} ELSE {})
    BY DEF TypeOK
  <2>4. TaskDeeds(h, "stop") = {"stop"} /\ "stop" \in Moving
    BY DEF TaskDeeds, Moving
  <2> HIDE DEF Stops, SetState, EndsWork, Does
  <2>5. Touches(h, "stop")
    BY <1>1, <2>3, <2>4 DEF TypeOK, Touches
  <2>6. QED
    BY <2>1, <2>2, <2>5 DEF Harmless
<1>2. CASE guest[h].state # "running"
  BY <1>2, NothingIsHarmless DEF Stops
<1>3. QED
  BY <1>1, <1>2

LEMMA DestroysIsHarmless ==
  ASSUME TypeOK, GuestInv, NEW h \in targets, NEW s \in {"destroy", "ensure"},
         s = "ensure" => h \notin Present,
         Destroys(h), ~Check, UNCHANGED <<after, targets>>
  PROVE  Harmless(h, s)
<1> h \in Host
  BY DEF TypeOK
<1>1. CASE guest[h].state = "stopped"
  <2> USE <1>1 DEF Destroys, KeepsWork, Does, Absent
  <2>1. EffectOK'
    <3>1. guest' \in [Host -> [state : State, release : Release \cup {NoRelease}]]
      BY DEF TypeOK, State
    <3>2. did' \in [Host -> SUBSET Deed]
      BY DEF TypeOK, Deed
    <3>3. job' \in [Host -> {"none", "early", "late"}] /\ killed' \in SUBSET targets
      BY DEF TypeOK
    <3>4. destroyed' \in [Host -> Release \cup {NoRelease}]
      BY DEF TypeOK
    <3>5. QED
      BY <3>1, <3>2, <3>3, <3>4 DEF TypeOK, EffectOK
  <2>2. Elsewhere(h)
    BY DEF TypeOK, Elsewhere
  <2>3. /\ guest'[h] = Absent /\ did'[h] = did[h] \cup {"destroy"}
        /\ destroyed'[h] = guest[h].release /\ UNCHANGED <<job, killed>>
    BY DEF TypeOK
  <2>4. "destroy" \in TaskDeeds(h, s) /\ "destroy" \in Moving
    BY DEF TaskDeeds, Moving
  <2>5. job[h] = "none"
    BY <1>1 DEF GuestInv
  <2>6. Touches(h, s)
    BY <1>1, <2>3, <2>4, <2>5 DEF TypeOK, Touches
  <2>7. QED
    BY <2>1, <2>2, <2>6 DEF Harmless
<1>2. CASE guest[h].state # "stopped"
  BY <1>2, NothingIsHarmless DEF Destroys
<1>3. QED
  BY <1>1, <1>2

LEMMA CreatesIsHarmless ==
  ASSUME TypeOK, GuestInv, NEW h \in targets, h \in Present,
         Creates(h), ~Check, UNCHANGED <<after, targets>>
  PROVE  Harmless(h, "ensure")
<1> h \in Host
  BY DEF TypeOK
<1>1. CASE guest[h].state = "absent"
  <2> USE <1>1 DEF Creates, KeepsWork, Does
  <2>1. EffectOK'
    <3>1. guest' \in [Host -> [state : State, release : Release \cup {NoRelease}]]
      <4>1. Desired[h] \in Release
        BY ConstantsOK
      <4>2. [state |-> "stopped", release |-> Desired[h]] \in
              [state : State, release : Release \cup {NoRelease}]
        BY <4>1 DEF State
      <4>3. QED
        BY <4>2 DEF TypeOK
    <3>2. did' \in [Host -> SUBSET Deed]
      BY DEF TypeOK, Deed
    <3>3. job' \in [Host -> {"none", "early", "late"}] /\ killed' \in SUBSET targets
      BY DEF TypeOK
    <3>4. destroyed' \in [Host -> Release \cup {NoRelease}]
      BY DEF TypeOK
    <3>5. QED
      BY <3>1, <3>2, <3>3, <3>4 DEF TypeOK, EffectOK
  <2>2. Elsewhere(h)
    BY DEF TypeOK, Elsewhere
  <2>3. /\ guest'[h] = [state |-> "stopped", release |-> Desired[h]]
        /\ did'[h] = did[h] \cup {"create"} /\ UNCHANGED <<job, killed, destroyed>>
    BY DEF TypeOK
  <2>4. "create" \in TaskDeeds(h, "ensure") /\ "create" \in Moving
    BY DEF TaskDeeds, Moving
  <2>5. job[h] = "none"
    BY <1>1 DEF GuestInv
  <2>6. Touches(h, "ensure")
    BY <1>1, <2>3, <2>4, <2>5 DEF TypeOK, Touches
  <2>7. QED
    BY <2>1, <2>2, <2>6 DEF Harmless
<1>2. CASE guest[h].state # "absent"
  BY <1>2, NothingIsHarmless DEF Creates
<1>3. QED
  BY <1>1, <1>2

LEMMA StartsIsHarmless ==
  ASSUME TypeOK, GuestInv, NEW h \in targets, Starts(h), ~Check, UNCHANGED <<after, targets>>
  PROVE  Harmless(h, "start")
<1> h \in Host
  BY DEF TypeOK
<1>1. CASE guest[h].state = "stopped"
  <2> USE <1>1 DEF Starts, SetState, KeepsWork, Does
  <2>1. EffectOK'
    <3>1. guest' \in [Host -> [state : State, release : Release \cup {NoRelease}]]
      BY DEF TypeOK, State
    <3>2. did' \in [Host -> SUBSET Deed]
      BY DEF TypeOK, Deed
    <3>3. job' \in [Host -> {"none", "early", "late"}] /\ killed' \in SUBSET targets
      BY DEF TypeOK
    <3>4. destroyed' \in [Host -> Release \cup {NoRelease}]
      BY DEF TypeOK
    <3>5. QED
      BY <3>1, <3>2, <3>3, <3>4 DEF TypeOK, EffectOK
  <2>2. Elsewhere(h)
    BY DEF TypeOK, Elsewhere
  <2>3. /\ guest'[h].state = "running" /\ guest'[h].release = guest[h].release
        /\ did'[h] = did[h] \cup {"start"} /\ UNCHANGED <<job, killed, destroyed>>
    BY DEF TypeOK
  <2>4. TaskDeeds(h, "start") = {"start"} /\ "start" \in Moving
    BY DEF TaskDeeds, Moving
  <2> HIDE DEF Starts, SetState, KeepsWork, Does
  <2>5. Touches(h, "start")
    BY <1>1, <2>3, <2>4 DEF TypeOK, Touches
  <2>6. QED
    BY <2>1, <2>2, <2>5 DEF Harmless
<1>2. CASE guest[h].state # "stopped"
  BY <1>2, NothingIsHarmless DEF Starts
<1>3. QED
  BY <1>1, <1>2

(* A task that leaves the guest where it is, and may restart it.           *)
LEMMA WorkIsHarmless ==
  ASSUME TypeOK, GuestInv, NEW h \in targets, NEW s \in Tasks, NEW deeds \in SUBSET Deed,
         deeds \subseteq TaskDeeds(h, s), ~Check, Does(h, deeds), UNCHANGED <<guest, destroyed>>,
         \/ KeepsWork
         \/ EndsWork(h) /\ s \in {"hostconfig", "upgrade", "reboot"}
         \/ EndsWork(h) /\ s = "stacks" /\ ~(Asked(h) /\ job[h] = "early"),
         UNCHANGED <<after, targets>>
  PROVE  Harmless(h, s)
<1> h \in Host
  BY DEF TypeOK
<1> USE DEF Does, KeepsWork, EndsWork
<1>1. EffectOK'
  <2>1. guest' \in [Host -> [state : State, release : Release \cup {NoRelease}]]
      BY DEF TypeOK, State
  <2>2. did' \in [Host -> SUBSET Deed]
      BY DEF TypeOK, Deed
  <2>3. job' \in [Host -> {"none", "early", "late"}] /\ killed' \in SUBSET targets
      BY DEF TypeOK
  <2>4. destroyed' \in [Host -> Release \cup {NoRelease}]
      BY DEF TypeOK
  <2>5. QED
      BY <2>1, <2>2, <2>3, <2>4 DEF TypeOK, EffectOK
<1>2. Elsewhere(h)
    BY DEF TypeOK, Elsewhere
<1>3. did'[h] = did[h] \cup deeds /\ job'[h] \in {job[h], "none"}
  BY DEF TypeOK
<1>4. guest'[h].state # "running" => job'[h] = "none"
  BY <1>3 DEF GuestInv
<1>5. h \in killed' => \/ h \in killed
                       \/ /\ job[h] = "early"
                          /\ \/ s \in {"hostconfig", "upgrade", "reboot"}
                             \/ s = "stacks" /\ ~Asked(h)
  BY DEF TypeOK
<1>6. Touches(h, s)
  BY <1>3, <1>4, <1>5 DEF TypeOK, Touches
<1>7. QED
  BY <1>1, <1>2, <1>6 DEF Harmless

(* A restart that is cut short. *)
LEMMA CutIsHarmless ==
  ASSUME TypeOK, GuestInv, NEW h \in targets, ~Check, guest[h].state = "running",
         SetState(h, "stopped"), EndsWork(h), Does(h, {"hostconfig", "reboot"}),
         UNCHANGED <<destroyed, after, targets>>
  PROVE  Harmless(h, "hostconfig")
<1> h \in Host
  BY DEF TypeOK
<1> USE DEF SetState, EndsWork, Does
<1>1. EffectOK'
  <2>1. guest' \in [Host -> [state : State, release : Release \cup {NoRelease}]]
      BY DEF TypeOK, State
  <2>2. did' \in [Host -> SUBSET Deed]
      BY DEF TypeOK, Deed
  <2>3. job' \in [Host -> {"none", "early", "late"}] /\ killed' \in SUBSET targets
      BY DEF TypeOK
  <2>4. destroyed' \in [Host -> Release \cup {NoRelease}]
      BY DEF TypeOK
  <2>5. QED
      BY <2>1, <2>2, <2>3, <2>4 DEF TypeOK, EffectOK
<1>2. Elsewhere(h)
    BY DEF TypeOK, Elsewhere
<1>3. /\ guest'[h].state = "stopped" /\ guest'[h].release = guest[h].release
      /\ did'[h] = did[h] \cup {"hostconfig", "reboot"} /\ job'[h] = "none"
      /\ killed' = killed \cup (IF job[h] = "early" THEN {h} ELSE {})
  BY DEF TypeOK
<1>4. TaskDeeds(h, "hostconfig") = {"hostconfig", "reboot"} /\ "reboot" \in Moving
  BY DEF TaskDeeds, Moving
<1> HIDE DEF SetState, EndsWork, Does
<1>5. Touches(h, "hostconfig")
  BY <1>3, <1>4 DEF TypeOK, Touches
<1>6. QED
  BY <1>1, <1>2, <1>5 DEF Harmless

(* However a task ends, the run is left well typed.                        *)
LEMMA OutcomeIsTyped ==
  ASSUME TypeOK, NEW h \in targets, NEW s, at = h, UNCHANGED targets,
         Completes(s) \/ Fails(h) \/ Unreachable(h), NoFault \/ Fault
  PROVE  OutcomeOK'
<1>1. faults' \in 0..MaxFaults /\ clean' \in BOOLEAN
  BY FaultIsCounted DEF TypeOK, NoFault, Fault
<1>2. CASE Completes(s)
  BY <1>1, <1>2 DEF TypeOK, OutcomeOK, Completes
<1>3. CASE Fails(h)
  BY <1>1, <1>3 DEF TypeOK, OutcomeOK, Fails, Status
<1>4. CASE Unreachable(h)
  BY <1>1, <1>4 DEF TypeOK, OutcomeOK, Unreachable
<1>5. QED
  BY <1>2, <1>3, <1>4

(* How a task's parts make a step.                                         *)
LEMMA PartsMakeTask ==
  ASSUME TypeOK, NEW h \in targets, NEW s, Due(h, s), Harmless(h, s), Goes(h, s),
         NoFault \/ Fault, UNCHANGED <<Unexecuted, deferred>>, rebuilt' \in SUBSET targets,
         after' \in [Host -> Observation \cup {NoObservation}]
  PROVE  TypeOK' /\ TaskStep(h, s)
<1>1. OutcomeOK'
  BY OutcomeIsTyped DEF Due, Goes, Unexecuted, planVars
<1>2. TypeOK'
  BY <1>1, TypeIsKept DEF Harmless, Unexecuted
<1>3. QED
  BY <1>2 DEF TaskStep, Harmless

(* Each step of execution that acts on a guest is a task step.             *)
LEMMA StopIsTask ==
  ASSUME TypeOK, GuestInv, NEW h \in Host, StopGuest(h), ~Check
  PROVE  TypeOK' /\ TaskStep(h, "stop")
<1> USE DEF StopGuest, Attempt, Unexecuted
<1>1. Due(h, "stop") /\ at = h /\ h \in targets
  BY ConstantsOK DEF Due, TypeOK
<1>2. Harmless(h, "stop")
  BY <1>1, StopsIsHarmless, NothingIsHarmless DEF planVars
<1>3. Stops(h) => Achieves(h, "stop")
  BY DEF Achieves, Stops, SetState, TypeOK, effectVars
<1>4. Goes(h, "stop")
  BY <1>3 DEF Goes, Possible, NoFault, Fault
<1>5. QED
  BY <1>1, <1>2, <1>4, PartsMakeTask DEF TypeOK

LEMMA DestroyIsTask ==
  ASSUME TypeOK, GuestInv, NEW h \in Host, DestroyGuest(h), ~Check
  PROVE  TypeOK' /\ TaskStep(h, "destroy")
<1> USE DEF DestroyGuest, Attempt, Unexecuted
<1>1. Due(h, "destroy") /\ at = h /\ h \in targets
  BY ConstantsOK DEF Due, TypeOK
<1>2. Harmless(h, "destroy")
  BY <1>1, DestroysIsHarmless, NothingIsHarmless DEF planVars
<1>3. Destroys(h) => Achieves(h, "destroy")
  BY DEF Achieves, Destroys, TypeOK
<1>4. Goes(h, "destroy")
  BY <1>3 DEF Goes, Possible, NoFault, Fault
<1>5. rebuilt' \in SUBSET targets
  BY <1>1 DEF TypeOK
<1>6. QED
  BY <1>1, <1>2, <1>4, <1>5, PartsMakeTask DEF TypeOK

LEMMA EnsureIsTask ==
  ASSUME TypeOK, GuestInv, NEW h \in Host, EnsureGuest(h)
  PROVE  TypeOK' /\ TaskStep(h, "ensure")
<1> DEFINE Effect == UnlessCheck(IF h \in Present THEN Creates(h) ELSE Destroys(h))
<1> USE DEF EnsureGuest, Attempt, Unexecuted
<1>1. Due(h, "ensure") /\ at = h /\ h \in targets
  BY ConstantsOK DEF Due, TypeOK
<1>2. Effect \/ UNCHANGED effectVars
  OBVIOUS
<1>3. Harmless(h, "ensure")
  BY <1>1, <1>2, CreatesIsHarmless, DestroysIsHarmless, NothingIsHarmless DEF UnlessCheck, planVars
<1>4. Effect => Achieves(h, "ensure")
  BY DEF Achieves, UnlessCheck, Creates, Destroys, Does, TypeOK, effectVars
<1>5. Goes(h, "ensure")
  BY <1>4 DEF Goes, Possible, NoFault, Fault
<1>6. QED
  BY <1>1, <1>3, <1>5, PartsMakeTask DEF TypeOK

LEMMA StartIsTask ==
  ASSUME TypeOK, GuestInv, NEW h \in Host, StartGuest(h)
  PROVE  TypeOK' /\ TaskStep(h, "start")
<1> DEFINE Effect == UnlessCheck(Starts(h))
<1> USE DEF StartGuest, Attempt, Unexecuted
<1>1. Due(h, "start") /\ at = h /\ h \in targets
  BY ConstantsOK DEF Due, TypeOK
<1>2. Effect \/ UNCHANGED effectVars
  OBVIOUS
<1>3. Harmless(h, "start")
  BY <1>1, <1>2, StartsIsHarmless, NothingIsHarmless DEF UnlessCheck, planVars
<1>4. Effect => Achieves(h, "start")
  BY DEF Achieves, UnlessCheck, Starts, SetState, TypeOK, effectVars
<1>5. Goes(h, "start")
  BY <1>4 DEF Goes, Possible, NoFault, Fault
<1>6. QED
  BY <1>1, <1>3, <1>5, PartsMakeTask DEF TypeOK

LEMMA HostConfigIsTask ==
  ASSUME TypeOK, GuestInv, NEW h \in Host, ReconcileHostConfig(h)
  PROVE  TypeOK' /\ TaskStep(h, "hostconfig")
<1> DEFINE Effect == UnlessCheck(Reconciles(h))
           Cut == /\ ~Check /\ guest[h].state = "running"
                  /\ Fault /\ Fails(h)
                  /\ SetState(h, "stopped") /\ EndsWork(h) /\ Does(h, {"hostconfig", "reboot"})
                  /\ UNCHANGED destroyed
<1> USE DEF ReconcileHostConfig, AttemptBySsh, Attempt, Unexecuted
<1>1. Due(h, "hostconfig") /\ at = h /\ h \in targets
  BY ConstantsOK DEF Due, TypeOK
<1>2. Effect \/ UNCHANGED effectVars \/ Cut
  OBVIOUS
<1>3. {"hostconfig"} \in SUBSET Deed /\ {"hostconfig", "reboot"} \in SUBSET Deed
      /\ TaskDeeds(h, "hostconfig") = {"hostconfig", "reboot"} /\ "hostconfig" \in Tasks
  BY DEF Deed, TaskDeeds, Tasks, Step
<1>4. Effect => Harmless(h, "hostconfig")
  <2>1. CASE Check
    BY <1>1, <2>1, NothingIsHarmless DEF UnlessCheck, planVars
  <2>2. CASE ~Check /\ Reconciles(h)
    BY <1>1, <1>3, <2>2, WorkIsHarmless DEF Reconciles, planVars
  <2>3. QED
    BY <2>1, <2>2 DEF UnlessCheck
<1>5. Cut => Harmless(h, "hostconfig")
  BY <1>1, CutIsHarmless DEF planVars
<1>6. Harmless(h, "hostconfig")
  BY <1>1, <1>2, <1>4, <1>5, NothingIsHarmless DEF planVars
<1>7. Effect => Achieves(h, "hostconfig")
  BY DEF Achieves, UnlessCheck, Reconciles, effectVars
<1>8. Goes(h, "hostconfig")
  BY <1>1, <1>7 DEF Goes, Possible, NoFault, Fault
<1>9. QED
  BY <1>1, <1>6, <1>8, PartsMakeTask DEF TypeOK

LEMMA ReobserveIsTask ==
  ASSUME TypeOK, GuestInv, NEW h \in Host, Reobserve(h), plan[h] # NoPlan, before[h] # NoObservation
  PROVE  TypeOK' /\ TaskStep(h, "reobserve")
<1> USE DEF Reobserve, Unexecuted
<1>1. Due(h, "reobserve") /\ at = h /\ h \in targets
  BY ConstantsOK DEF Due, TypeOK
<1>2. \A obs \in Refreshed(h) : obs \in Observation /\ obs.state = guest[h].state
  BY DEF Refreshed, Probes, Observation, TypeOK, State
<1>3. before[h] \in Observation
  BY DEF TypeOK
<1>4. after' \in [Host -> Observation \cup {NoObservation}]
      /\ \A g \in Host \ {h} : after'[g] = after[g]
  BY <1>2, <1>3 DEF TypeOK
<1>5. Elsewhere(h) /\ EffectOK'
  BY <1>4 DEF Elsewhere, EffectOK, TypeOK, effectVars, planVars
<1>6. Touches(h, "reobserve")
  BY DEF Touches, TypeOK, GuestInv, effectVars
<1>7. Completes("reobserve") => Achieves(h, "reobserve")
  <2>1. CASE ~(~Check /\ (plan[h].transition # "none" \/ plan[h].reconcile))
    BY <1>1, <1>3, <2>1, NonesOK DEF Achieves, TypeOK, effectVars, Completes, Fails, Unreachable
  <2>2. CASE ~Check /\ (plan[h].transition # "none" \/ plan[h].reconcile)
    BY <1>1, <1>2, <2>2, NonesOK, ConstantsOK DEF Achieves, TypeOK, effectVars, Completes, Fails, Unreachable
  <2>3. QED
    BY <2>1, <2>2
<1>8. Goes(h, "reobserve")
  BY <1>7 DEF Goes, Possible, NoFault, Fault
<1>9. QED
  BY <1>1, <1>4, <1>5, <1>6, <1>8, PartsMakeTask DEF TypeOK, Harmless, NoFault, Fault

LEMMA AccessIsTask ==
  ASSUME TypeOK, GuestInv, NEW h \in Host, RestoreGuestAccess(h)
  PROVE  TypeOK' /\ TaskStep(h, "access")
<1> DEFINE Effect == IF Check \/ guest[h].state # "running" THEN UNCHANGED effectVars
                     ELSE Does(h, {"access"}) /\ UNCHANGED <<guest, job, destroyed, killed>>
<1> USE DEF RestoreGuestAccess, AttemptBySsh, Attempt, Unexecuted
<1>1. Due(h, "access") /\ at = h /\ h \in targets
  BY ConstantsOK DEF Due, TypeOK
<1>2. Effect \/ UNCHANGED effectVars
  OBVIOUS
<1>3. {"access"} \in SUBSET Deed /\ TaskDeeds(h, "access") = {"access"} /\ "access" \in Tasks
  BY DEF Deed, TaskDeeds, Tasks, Step
<1>4. Harmless(h, "access")
  BY <1>1, <1>2, <1>3, WorkIsHarmless, NothingIsHarmless DEF planVars, KeepsWork
<1>5. Effect => Achieves(h, "access")
  BY DEF Achieves, effectVars
<1>6. Goes(h, "access")
  BY <1>5 DEF Goes, Possible, NoFault, Fault
<1>7. QED
  BY <1>1, <1>4, <1>6, PartsMakeTask DEF TypeOK

LEMMA ConfigureIsTask ==
  ASSUME TypeOK, GuestInv, NEW h \in Host, ConfigureGuest(h)
  PROVE  TypeOK' /\ TaskStep(h, "configure")
<1> DEFINE Effect == UnlessCheck(Does(h, {"configure"}) /\ UNCHANGED <<guest, job, destroyed, killed>>)
<1> USE DEF ConfigureGuest, AttemptBySsh, Attempt, Unexecuted
<1>1. Due(h, "configure") /\ at = h /\ h \in targets
  BY ConstantsOK DEF Due, TypeOK
<1>2. Effect \/ UNCHANGED effectVars
  OBVIOUS
<1>3. {"configure"} \in SUBSET Deed /\ TaskDeeds(h, "configure") = {"configure"} /\ "configure" \in Tasks
  BY DEF Deed, TaskDeeds, Tasks, Step
<1>4. Harmless(h, "configure")
  BY <1>1, <1>2, <1>3, WorkIsHarmless, NothingIsHarmless DEF UnlessCheck, planVars, KeepsWork
<1>5. Effect => Achieves(h, "configure")
  BY DEF Achieves, UnlessCheck, effectVars
<1>6. Goes(h, "configure")
  BY <1>5 DEF Goes, Possible, NoFault, Fault
<1>7. QED
  BY <1>1, <1>4, <1>6, PartsMakeTask DEF TypeOK

LEMMA UpgradeIsTask ==
  ASSUME TypeOK, GuestInv, NEW h \in Host, UpgradeGuest(h)
  PROVE  TypeOK' /\ TaskStep(h, "upgrade")
<1> DEFINE Effect == UnlessCheck(MayRestart(h, "upgrade"))
<1> USE DEF UpgradeGuest, AttemptBySsh, Attempt, Unexecuted
<1>1. Due(h, "upgrade") /\ at = h /\ h \in targets
  BY ConstantsOK DEF Due, TypeOK
<1>2. Effect \/ UNCHANGED effectVars
  OBVIOUS
<1>3. {"upgrade"} \in SUBSET Deed /\ TaskDeeds(h, "upgrade") = {"upgrade"} /\ "upgrade" \in Tasks
  BY DEF Deed, TaskDeeds, Tasks, Step
<1>4. Harmless(h, "upgrade")
  BY <1>1, <1>2, <1>3, WorkIsHarmless, NothingIsHarmless DEF UnlessCheck, MayRestart, planVars
<1>5. Effect => Achieves(h, "upgrade")
  BY DEF Achieves, UnlessCheck, MayRestart, effectVars
<1>6. Goes(h, "upgrade")
  BY <1>5 DEF Goes, Possible, NoFault, Fault
<1>7. QED
  BY <1>1, <1>4, <1>6, PartsMakeTask DEF TypeOK

LEMMA StacksIsTask ==
  ASSUME TypeOK, GuestInv, NEW h \in Host, SyncStacks(h)
  PROVE  TypeOK' /\ TaskStep(h, "stacks")
<1> DEFINE Effect == UnlessCheck(Recreates(h) \/ UNCHANGED effectVars)
<1> USE DEF SyncStacks, AttemptBySsh, Attempt, Unexecuted
<1>1. Due(h, "stacks") /\ at = h /\ h \in targets
  BY ConstantsOK DEF Due, TypeOK
<1>2. Effect \/ UNCHANGED effectVars
  OBVIOUS
<1>3. {"recreate"} \in SUBSET Deed /\ TaskDeeds(h, "stacks") = {"recreate"} /\ "stacks" \in Tasks
  BY DEF Deed, TaskDeeds, Tasks, Step
<1>4. Harmless(h, "stacks")
  BY <1>1, <1>2, <1>3, WorkIsHarmless, NothingIsHarmless DEF UnlessCheck, Recreates, planVars
<1>5. Effect => Achieves(h, "stacks")
  BY DEF Achieves, UnlessCheck, Recreates, effectVars
<1>6. Goes(h, "stacks")
  BY <1>5 DEF Goes, Possible, NoFault, Fault
<1>7. QED
  BY <1>1, <1>4, <1>6, PartsMakeTask DEF TypeOK

LEMMA RebootIsTask ==
  ASSUME TypeOK, GuestInv, NEW h \in Host, RebootGuest(h)
  PROVE  TypeOK' /\ TaskStep(h, "reboot")
<1> DEFINE Effect == UnlessCheck(MayRestart(h, "reboot") \/ UNCHANGED effectVars)
<1> USE DEF RebootGuest, AttemptBySsh, Attempt, Unexecuted
<1>1. Due(h, "reboot") /\ at = h /\ h \in targets
  BY ConstantsOK DEF Due, TypeOK
<1>2. Effect \/ UNCHANGED effectVars
  OBVIOUS
<1>3. {"reboot"} \in SUBSET Deed /\ TaskDeeds(h, "reboot") = {"reboot"} /\ "reboot" \in Tasks
  BY DEF Deed, TaskDeeds, Tasks, Step
<1>4. Harmless(h, "reboot")
  BY <1>1, <1>2, <1>3, WorkIsHarmless, NothingIsHarmless DEF UnlessCheck, MayRestart, planVars
<1>5. Effect => Achieves(h, "reboot")
  BY DEF Achieves, UnlessCheck, MayRestart, effectVars
<1>6. Goes(h, "reboot")
  BY <1>5 DEF Goes, Possible, NoFault, Fault
<1>7. QED
  BY <1>1, <1>4, <1>6, PartsMakeTask DEF TypeOK

-----------------------------------------------------------------------------
(* What a plan says. *)
LEMMA PlanFacts ==
  ASSUME TypeOK, PlanInv, command \in Command, NEW h \in Host, plan[h] # NoPlan
  PROVE  /\ plan[h] \in Plan /\ before[h] \in Observation /\ seen[h] = before[h].state
         /\ h \notin Present =>
              /\ plan[h].transition \in {"none", "remove"}
              /\ ~plan[h].start /\ ~plan[h].reconcile /\ ~plan[h].access /\ ~plan[h].configure
              /\ command.intent # "configure_only"
              /\ plan[h].transition = "none" <=> before[h].state = "absent"
         /\ h \in Present => plan[h].transition # "remove"
         /\ plan[h].transition = "remove" => h \in Destructive
         /\ plan[h].transition = "rebuild" =>
              /\ h \in Present /\ h \in RebuildPolicy /\ h \in Destructive
              /\ before[h].state = "running" /\ before[h].release # Desired[h]
         /\ plan[h].transition = "start" => before[h].state = "stopped"
         /\ plan[h].start <=> \/ plan[h].transition \in {"rebuild", "start"}
                              \/ plan[h].transition = "provision" /\ before[h].state = "absent"
         /\ command.intent = "configure_only" =>
              /\ plan[h].transition = "none" /\ plan[h].configure
              /\ h \in Present /\ before[h].state = "running"
         /\ command.intent # "configure_only" /\ h \in Present =>
              plan[h].transition # "none" /\ plan[h].reconcile
         /\ command.intent = "provision_only" =>
              plan[h].transition # "start" /\ ~plan[h].configure
         /\ command.intent = "full" /\ h \in Present =>
              /\ plan[h].configure
              /\ before[h].state = "stopped" => plan[h].transition = "start"
         /\ h \in Present /\ h \in RebuildPolicy /\ plan[h].transition # "rebuild" =>
              \/ before[h].state = "absent"
              \/ before[h].probe = "probed" /\ before[h].release = Desired[h]
<1> DEFINE obs == before[h]
<1>1. plan[h] \in Plan /\ before[h] \in Observation /\ seen[h] = before[h].state
  BY DEF TypeOK, PlanInv
<1>2. /\ plan[h].transition = TransitionFor(h, obs)
      /\ plan[h].reconcile <=> h \in Present /\ (Provisions \/ obs.state # "absent")
      /\ plan[h].access => h \in Present
      /\ plan[h].start <=> \/ plan[h].transition \in {"rebuild", "start"}
                           \/ plan[h].transition = "provision" /\ obs.state = "absent"
      /\ plan[h].configure <=> command.intent # "provision_only" /\ h \in Present
  <2> HIDE DEF obs
  <2>1. plan[h] = Decide(h, obs)
    BY DEF PlanInv, obs
  <2>2. plan[h].transition = TransitionFor(h, obs)
    BY <2>1 DEF Decide
  <2> DEFINE prepare == h \in Present /\ (Provisions \/ obs.state # "absent")
             access == prepare /\ ~(command.intent = "provision_only" /\ obs.state = "stopped"
                                      /\ TransitionFor(h, obs) # "rebuild")
             start == \/ TransitionFor(h, obs) \in {"rebuild", "start"}
                      \/ TransitionFor(h, obs) = "provision" /\ obs.state = "absent"
             configure == command.intent # "provision_only" /\ h \in Present
  <2>3. plan[h] = [transition |-> TransitionFor(h, obs), reconcile |-> prepare,
                   access |-> access, start |-> start, configure |-> configure]
    BY <2>1 DEF Decide
  <2> HIDE DEF prepare, access, start, configure
  <2>4. /\ plan[h].reconcile = prepare /\ plan[h].access = access
        /\ plan[h].start = start /\ plan[h].configure = configure
    BY <2>3
  <2>5. /\ plan[h].access => h \in Present
    BY <2>4 DEF access, prepare
  <2>6. plan[h].reconcile <=> prepare
    BY <2>4
  <2>7. QED
    BY <2>2, <2>4, <2>5, <2>6 DEF prepare, start, configure
<1>3. /\ command.intent = "configure_only" =>
           h \in Present /\ obs.state = "running" /\ plan[h].transition # "rebuild"
      /\ plan[h].transition \in {"rebuild", "remove"} => h \in Destructive
  BY DEF PlanInv, Forbidden
<1>4. h \in RebuildPolicy /\ h \in Present => obs.state = "absent" \/ obs.probe = "probed"
  BY DEF PlanInv, EvidenceMissing
<1>5. obs.probe = "probed" => obs.state = "running"
  BY DEF PlanInv
<1>6. command.intent \in {"full", "provision_only", "configure_only"}
  BY DEF Command, Intent
<1>7. obs.state \in {"absent", "stopped", "running"}
  BY <1>1 DEF Observation, State
<1> HIDE DEF obs
<1>8. plan[h].transition = "rebuild" <=> RebuildRequired(h, obs)
  BY <1>2, <1>3, <1>6 DEF TransitionFor, Provisions, RebuildRequired
<1>9. /\ plan[h].transition = "rebuild" =>
           /\ h \in Present /\ h \in RebuildPolicy /\ h \in Destructive
           /\ obs.state = "running" /\ obs.release # Desired[h]
      /\ h \in Present /\ h \in RebuildPolicy /\ plan[h].transition # "rebuild" =>
           \/ obs.state = "absent"
           \/ obs.probe = "probed" /\ obs.release = Desired[h]
  BY <1>3, <1>4, <1>5, <1>8 DEF RebuildRequired
<1>10. plan[h].transition # "rebuild" =>
         /\ h \notin Present => plan[h].transition \in {"none", "remove"}
         /\ h \in Present => plan[h].transition # "remove"
         /\ plan[h].transition = "start" => command.intent = "full" /\ obs.state = "stopped"
         /\ command.intent = "configure_only" => plan[h].transition = "none"
         /\ command.intent # "configure_only" /\ h \in Present => plan[h].transition # "none"
         /\ command.intent # "configure_only" /\ h \notin Present =>
              (plan[h].transition = "none" <=> obs.state = "absent")
         /\ command.intent = "full" /\ h \in Present /\ obs.state = "stopped" =>
              plan[h].transition = "start"
  BY <1>2, <1>6, <1>8 DEF TransitionFor, Provisions
<1>11. QED
  BY <1>1, <1>2, <1>3, <1>6, <1>7, <1>9, <1>10 DEF obs, Provisions

(* The order of the steps. *)
LEMMA Positions ==
  /\ Position["busy"] = 1 /\ Position["stop"] = 2 /\ Position["destroy"] = 3
  /\ Position["ensure"] = 4 /\ Position["start"] = 5 /\ Position["hostconfig"] = 6
  /\ Position["reobserve"] = 7 /\ Position["access"] = 8 /\ Position["configure"] = 9
  /\ Position["upgrade"] = 10 /\ Position["stacks"] = 11 /\ Position["reboot"] = 12
  /\ Position["publish"] = 13
BY DEF Position, Step

(* What is so when a task is due.                                          *)
LEMMA AtWork ==
  ASSUME IInv, NEW h \in Host, NEW s \in Step \ {"busy"}, Due(h, s)
  PROVE  /\ at = h /\ s \in todo /\ phase = "execute" /\ h \in targets /\ h # NoHost
         /\ h \notin pending /\ h \notin lost /\ latch = NoHost /\ failed = {}
         /\ "busy" \notin todo /\ command \in Command /\ plan[h] # NoPlan
         /\ command.self => h \in deferred
         /\ s \in {"stop", "destroy", "ensure", "start", "hostconfig", "upgrade", "reboot"}
              => h \notin deferred
         /\ s = "stop" => ~Check /\ plan[h].transition \in {"rebuild", "remove"}
         /\ s = "destroy" => ~Check /\ plan[h].transition = "rebuild"
         /\ s = "ensure" => plan[h].transition # "none"
         /\ s = "start" => plan[h].start
         /\ s = "hostconfig" => plan[h].reconcile
         /\ s \in {"configure", "upgrade", "stacks", "reboot"} => plan[h].configure
<1>1. at = h /\ s \in todo /\ phase = "execute" /\ h \in targets /\ h # NoHost
  BY ConstantsOK DEF Due, IInv, TypeOK
<1>2. h \notin pending /\ h \notin lost /\ latch = NoHost /\ failed = {} /\ command \in Command
  BY <1>1 DEF IInv, AtInv, CommandInv
<1>3. "busy" \notin todo /\ plan[h] # NoPlan /\ (command.self => h \in deferred)
  BY <1>1 DEF IInv, WorkingInv, Working, WaitingInv
<1>4. Calls(h, h \in deferred, s)
  BY <1>1, <1>3 DEF IInv, WorkingInv, Working, WaitingInv
<1>5. QED
  BY <1>1, <1>2, <1>3, <1>4 DEF Calls, HostSide, GuestSide, GuestInterruption

(* A task step leaves the control of the run in order,                     *)
LEMMA TaskKeepsControl ==
  ASSUME IInv, TypeOK', NEW h \in Host, NEW s \in Tasks, TaskStep(h, s)
  PROVE  /\ IdleInv' /\ PlanningInv' /\ EarlyInv' /\ CommandInv' /\ BarrierInv' /\ AtInv'
         /\ PlanInv' /\ WaitingInv' /\ WorkingInv' /\ DeferredInv' /\ CleanInv'
<1> USE DEF planVars
<1>1. /\ at = h /\ s \in todo /\ phase = "execute" /\ h \in targets /\ h # NoHost
      /\ h \notin pending /\ h \notin lost /\ latch = NoHost /\ failed = {}
      /\ "busy" \notin todo
  BY AtWork DEF TaskStep, Tasks
<1>2. /\ phase' \in {"execute", "aborted"} /\ failed' = {} /\ pending' \subseteq pending
      /\ UNCHANGED <<command, limit, targets, problem, seen, before, plan, drifted, deferred>>
      /\ lost' \in {lost, lost \cup {h}}
  BY <1>1 DEF TaskStep, Goes, Completes, Fails, Unreachable
<1>3. IdleInv' /\ PlanningInv' /\ EarlyInv' /\ CommandInv'
  BY <1>1, <1>2 DEF IInv, IdleInv, PlanningInv, Planning, EarlyInv, CommandInv
<1>4. BarrierInv'
  <2>1. Coordinates' => Coordinates
    BY <1>1, <1>2, ConstantsOK DEF Coordinates, IInv, TypeOK
  <2>2. QED
    BY <1>1, <1>2, <2>1 DEF IInv, BarrierInv
<1>5. AtInv'
  BY <1>1, <1>2, ConstantsOK DEF IInv, AtInv, TaskStep, Goes, Completes, Fails, Unreachable
<1>6. PlanInv'
  BY <1>2 DEF IInv, PlanInv, Decide, Forbidden, EvidenceMissing, TransitionFor, Provisions, RebuildRequired
<1>7. DeferredInv'
  BY <1>2 DEF IInv, DeferredInv
<1>8. CleanInv'
  BY <1>2 DEF IInv, CleanInv, TaskStep, Goes, Completes, Fails, Unreachable
<1>9. WaitingInv'
  BY <1>1, <1>2 DEF IInv, WaitingInv, TaskStep, Goes, Elsewhere, Completes, Fails, Unreachable
<1>10. WorkingInv'
  <2> SUFFICES ASSUME at' = h PROVE Working(h)'
    BY <1>1, ConstantsOK DEF WorkingInv, TaskStep, Goes, Completes, Fails, Unreachable
  <2>1. Working(h) /\ todo' = todo \ {s} /\ Achieves(h, s) /\ Touches(h, s)
    BY <1>1, ConstantsOK DEF IInv, WorkingInv, TaskStep, Goes, Completes, Fails, Unreachable
  <2>2. /\ \A t \in todo' : Calls(h, h \in deferred, t)'
        /\ \A t \in Step \ todo', u \in todo' : Calls(h, h \in deferred, t)' => Position[t] < Position[u]
    <3>1. \A t \in Step : Calls(h, h \in deferred, t)' <=> Calls(h, h \in deferred, t)
      BY <1>2 DEF Calls, HostSide, GuestSide, GuestInterruption, Check
    <3>2. todo \subseteq Step
      BY DEF IInv, TypeOK
    <3>3. \A u \in todo' : Position[s] < Position[u]
      BY <2>1, <3>2, Positions DEF TaskStep, Due, Step
    <3>4. QED
      BY <2>1, <3>1, <3>2, <3>3 DEF Working
  <2>3. "reobserve" \in todo' <=> after'[h] = NoObservation
    BY <2>1 DEF Working, Touches, Achieves
  <2>4. {"stop", "destroy"} \cap todo' # {} => did'[h] \subseteq {"stop"} /\ destroyed'[h] = NoRelease
    <3>1. {"stop", "destroy"} \cap todo' # {} => s = "stop"
      BY <2>1, Positions DEF TaskStep, Due, Step, Tasks
    <3>2. TaskDeeds(h, "stop") = {"stop"}
      BY DEF TaskDeeds
    <3>3. QED
      BY <1>1, <2>1, <3>1, <3>2 DEF Working, Touches
  <2>5. QED
    BY <1>1, <1>2, <2>1, <2>2, <2>3, <2>4 DEF Working
<1>11. QED
  BY <1>3, <1>4, <1>5, <1>6, <1>7, <1>8, <1>9, <1>10

(* the guests within plan, intent and deferral,                            *)
LEMMA TaskKeepsFleet ==
  ASSUME IInv, TypeOK', NEW h \in Host, NEW s \in Tasks, TaskStep(h, s)
  PROVE  /\ DeedInv' /\ GuestInv' /\ SeenInv' /\ DestroyInv' /\ ReleaseInv'
         /\ QuietInv' /\ BusyWorkInv'
<1> USE DEF planVars, Check
<1>1. /\ at = h /\ s \in todo /\ h \in targets /\ h # NoHost
      /\ "busy" \notin todo /\ command \in Command /\ plan[h] # NoPlan
      /\ command.self => h \in deferred
      /\ s \in {"stop", "destroy", "ensure", "start", "hostconfig", "upgrade", "reboot"}
           => h \notin deferred
      /\ s = "stop" => ~Check /\ plan[h].transition \in {"rebuild", "remove"}
      /\ s = "destroy" => ~Check /\ plan[h].transition = "rebuild"
      /\ s = "ensure" => plan[h].transition # "none"
      /\ s = "start" => plan[h].start
      /\ s \in {"configure", "upgrade", "stacks", "reboot"} => plan[h].configure
  BY AtWork DEF TaskStep, Tasks
<1>2. /\ UNCHANGED <<command, targets, seen, before, plan, drifted, deferred>>
      /\ Elsewhere(h) /\ Touches(h, s) /\ at' \in {h, NoHost}
      /\ todo' \subseteq todo
  BY <1>1 DEF TaskStep, Goes, Completes, Fails, Unreachable
<1>3. /\ h \notin Present => plan[h].transition \in {"none", "remove"}
      /\ h \in Present => plan[h].transition # "remove"
      /\ plan[h].transition = "rebuild" => h \in Present
  BY <1>1, PlanFacts DEF IInv
<1>4. DeedInv'
  <2> SUFFICES did'[h] # {} => /\ ~command.check
                               /\ h \in deferred => did'[h] \subseteq {"access", "configure", "recreate"}
                               /\ {"stop", "destroy"} \cap did'[h] # {} =>
                                    plan[h].transition \in {"rebuild", "remove"}
                               /\ "create" \in did'[h] => plan[h].transition # "none" /\ h \in Present
                               /\ "start" \in did'[h] => plan[h].start
                               /\ {"configure", "upgrade", "recreate"} \cap did'[h] # {}
                                    => plan[h].configure
                               /\ "start" \in did'[h] /\ command.intent = "provision_only"
                                    => "create" \in did'[h] \/ drifted[h] # "no"
    BY <1>1, <1>2 DEF IInv, DeedInv, Elsewhere
  <2>1. command.check => did'[h] = {}
    BY <1>2 DEF IInv, DeedInv, Touches
  <2>2. \A d \in did'[h] : d \in did[h] \/ d \in TaskDeeds(h, s)
    BY <1>2 DEF Touches
  <2>3. ASSUME "start" \in did'[h], command.intent = "provision_only", drifted[h] = "no"
        PROVE  "create" \in did'[h]
    <3>1. did[h] \subseteq did'[h]
      BY <1>2 DEF Touches
    <3>2. CASE "start" \in did[h]
      BY <2>3, <3>1, <3>2 DEF IInv, DeedInv
    <3>3. CASE "start" \notin did[h]
      <4>1. s = "start" /\ ~command.check
        BY <2>1, <2>2, <2>3, <3>3 DEF TaskDeeds, Tasks, Step
      <4>2. "ensure" \notin todo
        BY <4>1, Positions DEF TaskStep, Due
      <4>3. /\ plan[h].transition \in {"rebuild", "provision"}
            /\ plan[h].transition = "provision" => before[h].state = "absent"
        BY <1>1, <2>3, <4>1, PlanFacts DEF IInv, Plan, Transition
      <4>4. "create" \in did[h]
        BY <1>1, <2>3, <4>1, <4>2, <4>3 DEF IInv, TrackInv, RebuildTrack, ProvisionTrack
      <4>5. QED
        BY <3>1, <4>4
    <3>4. QED
      BY <3>2, <3>3
  <2>4. QED
    BY <1>1, <1>3, <2>1, <2>2, <2>3 DEF IInv, DeedInv, TaskDeeds, Tasks, Step
<1>5. GuestInv'
  <2>1. guest'[h].state # "running" => job'[h] = "none"
    BY <1>2 DEF Touches
  <2>2. guest'[h].state = "absent" <=> guest'[h].release = NoRelease
    BY <1>2, ConstantsOK DEF Touches, IInv, GuestInv, Absent
  <2>3. h = Self => guest'[h].state # "absent"
    <3>1. h = Self => command.self
      BY <1>1 DEF IInv, CommandInv, AtInv
    <3>2. QED
      BY <1>1, <1>2, <3>1 DEF Touches, IInv, GuestInv
  <2>4. QED
    BY <1>2, <2>1, <2>2, <2>3 DEF IInv, GuestInv, Elsewhere
<1>6. SeenInv'
  <2>1. did[h] \subseteq did'[h]
    BY <1>2 DEF Touches
  <2>2. drifted[h] = "no" /\ did'[h] \cap Moving = {} /\ seen[h] \in State => guest'[h].state = seen[h]
    BY <1>2, <2>1 DEF Touches, IInv, SeenInv
  <2>3. seen[h] = "absent" /\ "create" \notin did'[h] => guest'[h].state = "absent"
    BY <1>2, <2>1 DEF Touches, IInv, SeenInv, Absent, State
  <2>4. seen[h] \in State /\ seen[h] # "absent" /\ "destroy" \notin did'[h] => guest'[h].state # "absent"
    BY <1>2, <2>1 DEF Touches, IInv, SeenInv
  <2>5. QED
    BY <1>2, <2>2, <2>3, <2>4 DEF IInv, SeenInv, Elsewhere
<1>7. DestroyInv'
  <2> SUFFICES ASSUME destroyed'[h] # NoRelease
               PROVE  /\ plan[h].transition \in {"rebuild", "remove"}
                      /\ plan[h].transition = "rebuild" => destroyed'[h] = before[h].release
    BY <1>1, <1>2 DEF IInv, DestroyInv, Elsewhere
  <2>1. CASE destroyed'[h] = destroyed[h]
    BY <2>1 DEF IInv, DestroyInv
  <2>2. CASE destroyed'[h] # destroyed[h]
    <3>1. /\ s = "destroy" \/ (s = "ensure" /\ h \notin Present)
          /\ destroyed'[h] = guest[h].release
      BY <1>2, <2>2 DEF Touches
    <3>2. plan[h].transition \in {"rebuild", "remove"}
      BY <1>1, <1>3, <3>1
    <3>3. ASSUME plan[h].transition = "rebuild" PROVE guest[h].release = before[h].release
      <4>1. s = "destroy"
        BY <1>3, <3>1, <3>3
      <4>2. did[h] \subseteq {"stop"} /\ destroyed[h] = NoRelease
        BY <1>1, <4>1 DEF IInv, WorkingInv, Working
      <4>3. guest[h].state # "absent"
        BY <3>1 DEF IInv, GuestInv
      <4>4. QED
        BY <1>1, <3>3, <4>2, <4>3 DEF IInv, ReleaseInv
    <3>4. QED
      BY <3>1, <3>2, <3>3
  <2>3. QED
    BY <2>1, <2>2
<1>8. ReleaseInv'
  <2>1. did[h] \subseteq did'[h]
    BY <1>2 DEF Touches
  <2>2. plan[h].transition = "rebuild" /\ destroyed'[h] = NoRelease
          /\ "create" \notin did'[h] /\ guest'[h].state # "absent"
          => guest'[h].release = before[h].release
    <3>1. destroyed[h] # NoRelease => destroyed'[h] # NoRelease \/ guest'[h].state = "absent"
      BY <1>2 DEF Touches, Absent
    <3>2. QED
      BY <1>1, <1>2, <2>1, <3>1 DEF IInv, ReleaseInv, Touches, Absent
  <2>3. h \in Present \cap RebuildPolicy /\ plan[h].transition # "rebuild" /\ guest'[h].state # "absent"
         => guest'[h].release = Desired[h]
    BY <1>1, <1>2 DEF IInv, ReleaseInv, Touches, Absent
  <2>4. QED
    BY <1>2, <2>2, <2>3 DEF IInv, ReleaseInv, Elsewhere
<1>9. QuietInv'
  BY <1>1, <1>2, ConstantsOK DEF IInv, QuietInv, Touches
<1>10. BusyWorkInv'
  <2>1. ASSUME h \in killed', h \notin killed, ~command.override, plan[h].transition # "remove",
               drifted[h] = "no"
        PROVE  FALSE
    <3>1. /\ job[h] = "early" /\ ~command.check
          /\ \/ s \in {"stop", "hostconfig", "upgrade", "reboot"}
             \/ s = "stacks" /\ ~Asked(h)
      BY <1>2, <2>1 DEF Touches
    <3>2. CASE h \notin deferred
      BY <1>1, <2>1, <3>1, <3>2 DEF IInv, QuietInv
    <3>3. CASE h \in deferred
      <4>1. ~Asked(h) /\ guest[h].state = "running"
        BY <1>1, <3>1, <3>3 DEF IInv, GuestInv
      <4>2. before[h].state \in State /\ seen[h] = before[h].state
        BY <1>1, PlanFacts DEF IInv, Observation
      <4>3. did[h] \cap Moving = {}
        BY <3>3 DEF IInv, DeedInv, Moving
      <4>4. guest[h].state = before[h].state
        BY <2>1, <4>2, <4>3 DEF IInv, SeenInv
      <4>5. QED
        BY <2>1, <3>1, <4>1, <4>4 DEF Asked
    <3>4. QED
      BY <3>2, <3>3
  <2>2. QED
    BY <1>1, <1>2, <2>1 DEF IInv, BusyWorkInv, Elsewhere, TypeOK
<1>11. QED
  BY <1>4, <1>5, <1>6, <1>7, <1>8, <1>9, <1>10

(* The order of the steps.                                                 *)
LEMMA PositionOf ==
  ASSUME NEW s \in Tasks
  PROVE  /\ Position[s] \in 2..12
         /\ Position[s] <= 2 <=> s = "stop"
         /\ Position[s] <= 3 <=> s \in {"stop", "destroy"}
         /\ Position[s] <= 4 <=> s \in {"stop", "destroy", "ensure"}
         /\ Position[s] <= 5 <=> s \in {"stop", "destroy", "ensure", "start"}
         /\ Position[s] <= 7 <=>
              s \in {"stop", "destroy", "ensure", "start", "hostconfig", "reobserve"}
         /\ Position[s] <= 9 <=> s \notin {"upgrade", "stacks", "reboot"}
BY Positions DEF Tasks, Step

(* The steps are taken in order: which of them remain follows from the one *)
(* that is due.                                                            *)
LEMMA InOrder ==
  ASSUME IInv, NEW h \in Host, NEW s \in Tasks, Due(h, s), NEW d \in BOOLEAN, d <=> h \in deferred
  PROVE  /\ \A t \in Step : t \in todo => Calls(h, d, t)
         /\ Calls(h, d, "stop") => ("stop" \in todo <=> s = "stop")
         /\ Calls(h, d, "destroy") => ("destroy" \in todo <=> s \in {"stop", "destroy"})
         /\ Calls(h, d, "ensure") => ("ensure" \in todo <=> s \in {"stop", "destroy", "ensure"})
         /\ Calls(h, d, "start") =>
              ("start" \in todo <=> s \in {"stop", "destroy", "ensure", "start"})
         /\ "reobserve" \in todo <=>
              s \in {"stop", "destroy", "ensure", "start", "hostconfig", "reobserve"}
         /\ Calls(h, d, "configure") => ("configure" \in todo <=> s \notin {"upgrade", "stacks", "reboot"})
<1>1. s \in todo /\ at = h /\ "busy" \notin todo
  BY AtWork DEF Tasks
<1>2. todo \subseteq Step /\ Working(h)
  BY <1>1 DEF IInv, TypeOK, WorkingInv
<1>3. \A t \in Step : Calls(h, d, t) <=> Calls(h, h \in deferred, t)
  BY DEF Calls, HostSide, GuestInterruption
<1>4. \A t \in Step : t \in todo => Calls(h, d, t)
  BY <1>2, <1>3 DEF Working
<1>5. Position[s] \in Nat /\ \A t \in todo : Position[s] <= Position[t]
  BY PositionOf DEF Due
<1>6. \A t \in Step, n \in Nat : Position[t] = n /\ Calls(h, d, t) =>
        (t \in todo <=> Position[s] <= n)
  <2> TAKE t \in Step, n \in Nat
  <2> HAVE Position[t] = n /\ Calls(h, d, t)
  <2>1. t \in todo => Position[s] <= n
    BY <1>5
  <2>2. t \notin todo => n < Position[s]
    BY <1>1, <1>2, <1>3 DEF Working
  <2>3. QED
    BY <1>5, <2>1, <2>2
<1>7. /\ "stop" \in Step /\ "destroy" \in Step /\ "ensure" \in Step /\ "start" \in Step
      /\ "reobserve" \in Step /\ "configure" \in Step /\ Calls(h, d, "reobserve")
  BY DEF Step, Calls
<1>8. /\ Calls(h, d, "stop") => ("stop" \in todo <=> Position[s] <= 2)
      /\ Calls(h, d, "destroy") => ("destroy" \in todo <=> Position[s] <= 3)
      /\ Calls(h, d, "ensure") => ("ensure" \in todo <=> Position[s] <= 4)
      /\ Calls(h, d, "start") => ("start" \in todo <=> Position[s] <= 5)
      /\ "reobserve" \in todo <=> Position[s] <= 7
      /\ Calls(h, d, "configure") => ("configure" \in todo <=> Position[s] <= 9)
  BY <1>6, <1>7, Positions
<1>9. QED
  BY <1>4, <1>8, PositionOf

(* a guest that nobody else changes on the track of its transition,        *)
LEMMA TaskKeepsTrack ==
  ASSUME IInv, TypeOK', NEW h \in Host, NEW s \in Tasks, TaskStep(h, s)
  PROVE  TrackInv'
<1> USE DEF planVars, Check
<1>1. /\ at = h /\ h \in targets /\ h # NoHost
      /\ "busy" \notin todo /\ command \in Command /\ plan[h] # NoPlan
  BY AtWork DEF TaskStep, Tasks
<1>2. /\ UNCHANGED <<command, targets, seen, before, plan, drifted, deferred>>
      /\ at' \in {h, NoHost}
  BY <1>1 DEF TaskStep, Goes, Completes, Fails, Unreachable
<1> SUFFICES ASSUME at' = h, h \notin deferred, drifted[h] = "no", ~command.check
             PROVE  /\ plan[h].transition = "rebuild" => RebuildTrack(h)'
                    /\ plan[h].transition = "remove" => RemoveTrack(h)'
                    /\ plan[h].transition \in {"provision", "start"} => ProvisionTrack(h)'
  BY <1>1, <1>2, ConstantsOK DEF TrackInv
<1>3. todo' = todo \ {s} /\ Achieves(h, s) /\ Touches(h, s)
  BY <1>1, ConstantsOK DEF TaskStep, Goes, Completes, Fails, Unreachable
<1>4. /\ plan[h].transition = "rebuild" => RebuildTrack(h)
      /\ plan[h].transition = "remove" => RemoveTrack(h)
      /\ plan[h].transition \in {"provision", "start"} => ProvisionTrack(h)
  BY <1>1 DEF IInv, TrackInv
<1>5. did[h] \subseteq did'[h]
  BY <1>3 DEF Touches
<1>6. /\ plan[h].transition = "rebuild" => h \in Present /\ plan[h].start
      /\ plan[h].transition = "remove" => h \notin Present /\ before[h].state # "absent"
      /\ plan[h].transition \in {"provision", "start"} => h \in Present
      /\ plan[h].transition \in {"provision", "start"} =>
           /\ plan[h].start => before[h].state \in {"absent", "stopped"}
           /\ before[h].state = "absent" => plan[h].start
  BY <1>1, PlanFacts DEF IInv
<1>7. /\ \A t \in Step : t \in todo => Calls(h, FALSE, t)
      /\ Calls(h, FALSE, "stop") => ("stop" \in todo <=> s = "stop")
      /\ Calls(h, FALSE, "destroy") => ("destroy" \in todo <=> s \in {"stop", "destroy"})
      /\ Calls(h, FALSE, "ensure") => ("ensure" \in todo <=> s \in {"stop", "destroy", "ensure"})
      /\ Calls(h, FALSE, "start") =>
           ("start" \in todo <=> s \in {"stop", "destroy", "ensure", "start"})
      /\ "reobserve" \in todo <=>
           s \in {"stop", "destroy", "ensure", "start", "hostconfig", "reobserve"}
  BY InOrder DEF TaskStep
<1>8. /\ {"stop", "destroy", "ensure", "start", "hostconfig", "reobserve"} \subseteq Step
      /\ guest[h].state \in {"absent", "stopped", "running"}
  BY DEF Step, IInv, TypeOK, State
<1>9. ASSUME plan[h].transition = "rebuild" PROVE RebuildTrack(h)'
  <2>1. /\ Calls(h, FALSE, "stop") /\ Calls(h, FALSE, "destroy")
        /\ Calls(h, FALSE, "ensure") /\ Calls(h, FALSE, "start")
    BY <1>6, <1>9 DEF Calls, HostSide
  <2>2. /\ "stop" \in todo <=> s = "stop"
        /\ "destroy" \in todo <=> s \in {"stop", "destroy"}
        /\ "ensure" \in todo <=> s \in {"stop", "destroy", "ensure"}
        /\ "start" \in todo <=> s \in {"stop", "destroy", "ensure", "start"}
    BY <1>7, <2>1
  <2>3. CASE s = "stop"
    BY <1>3, <1>4, <1>9, <2>2, <2>3 DEF RebuildTrack, Achieves
  <2>4. CASE s = "destroy"
    BY <1>3, <1>4, <1>9, <2>2, <2>4 DEF RebuildTrack, Achieves, Absent
  <2>5. CASE s = "ensure"
    BY <1>3, <1>4, <1>6, <1>9, <2>2, <2>5 DEF RebuildTrack, Achieves
  <2>6. CASE s = "start"
    BY <1>3, <1>4, <1>5, <1>9, <2>2, <2>6 DEF RebuildTrack, Achieves, Touches
  <2>7. CASE s \notin {"stop", "destroy", "ensure", "start"}
    <3>1. guest'[h] = guest[h]
      BY <1>3, <2>7 DEF Achieves
    <3>2. QED
      BY <1>3, <1>4, <1>5, <1>9, <2>2, <2>7, <3>1 DEF RebuildTrack
  <2>8. QED
    BY <2>3, <2>4, <2>5, <2>6, <2>7
<1>10. ASSUME plan[h].transition = "remove" PROVE RemoveTrack(h)'
  <2>1. Calls(h, FALSE, "stop") /\ Calls(h, FALSE, "ensure") /\ Calls(h, FALSE, "reobserve")
    BY <1>10 DEF Calls, HostSide
  <2>2. ~Calls(h, FALSE, "destroy") /\ ~Calls(h, FALSE, "start")
    BY <1>6, <1>10, <1>1, PlanFacts DEF Calls, HostSide, IInv
  <2>3. s # "destroy" /\ s # "start"
    BY <1>7, <2>2 DEF TaskStep, Due, Tasks
  <2>4. /\ "stop" \in todo <=> s = "stop"
        /\ "ensure" \in todo <=> s \in {"stop", "ensure"}
        /\ "reobserve" \in todo <=> s \in {"stop", "ensure", "hostconfig", "reobserve"}
    BY <1>7, <2>1, <2>3
  <2>5. "reobserve" \in todo => after[h] = NoObservation
    BY <1>1 DEF IInv, WorkingInv, Working
  <2>6. s # "reobserve" => after'[h] = after[h]
    BY <1>3 DEF Touches
  <2>7. CASE s = "stop"
    BY <1>2, <1>3, <1>4, <1>6, <1>8, <1>10, <2>4, <2>5, <2>6, <2>7 DEF RemoveTrack, Achieves
  <2>8. CASE s = "ensure"
    BY <1>3, <1>4, <1>6, <1>10, <2>4, <2>5, <2>6, <2>8 DEF RemoveTrack, Achieves, Absent
  <2>9. CASE s = "reobserve"
    BY <1>3, <1>4, <1>10, <2>4, <2>9 DEF RemoveTrack, Achieves
  <2>10. CASE s \notin {"stop", "ensure", "reobserve"}
    <3>1. guest'[h] = guest[h]
      BY <1>3, <1>7, <2>3, <2>10 DEF Achieves
    <3>2. QED
      BY <1>3, <1>4, <1>10, <2>4, <2>6, <2>10, <3>1 DEF RemoveTrack
  <2>11. QED
    BY <2>7, <2>8, <2>9, <2>10
<1>11. ASSUME plan[h].transition \in {"provision", "start"} PROVE ProvisionTrack(h)'
  <2>1. Calls(h, FALSE, "ensure") /\ (plan[h].start => Calls(h, FALSE, "start"))
    BY <1>11 DEF Calls, HostSide
  <2>2. /\ ~Calls(h, FALSE, "stop") /\ ~Calls(h, FALSE, "destroy")
        /\ ~plan[h].start => ~Calls(h, FALSE, "start")
    BY <1>11 DEF Calls
  <2>3. s # "stop" /\ s # "destroy" /\ (s = "start" => plan[h].start)
    BY <1>7, <2>2 DEF TaskStep, Due, Tasks
  <2>4. /\ "ensure" \in todo <=> s = "ensure"
        /\ "start" \in todo <=> plan[h].start /\ s \in {"ensure", "start"}
    BY <1>7, <1>8, <2>1, <2>2, <2>3
  <2>5. CASE s = "ensure"
    BY <1>2, <1>3, <1>4, <1>5, <1>6, <1>8, <1>11, <2>4, <2>5 DEF ProvisionTrack, Achieves
  <2>6. CASE s = "start"
    BY <1>2, <1>3, <1>4, <1>5, <1>7, <1>11, <2>3, <2>4, <2>6 DEF ProvisionTrack, Achieves
  <2>7. CASE s \notin {"ensure", "start"}
    <3>1. guest'[h] = guest[h]
      BY <1>3, <1>7, <2>3, <2>7 DEF Achieves
    <3>2. QED
      BY <1>2, <1>3, <1>4, <1>5, <1>11, <2>4, <2>7, <3>1 DEF ProvisionTrack
  <2>8. QED
    BY <2>5, <2>6, <2>7
<1>12. QED
  BY <1>9, <1>10, <1>11

(* the results true,                                                       *)
LEMMA TaskKeepsResults ==
  ASSUME IInv, TypeOK', NEW h \in Host, NEW s \in Tasks, TaskStep(h, s)
  PROVE  AfterInv' /\ ResultInv'
<1> USE DEF planVars, Check
<1>1. /\ at = h /\ s \in todo /\ phase = "execute" /\ h \in targets /\ h # NoHost
      /\ latch = NoHost /\ failed = {} /\ h \notin pending
      /\ "busy" \notin todo /\ command \in Command /\ plan[h] # NoPlan
  BY AtWork DEF TaskStep, Tasks
<1>2. /\ UNCHANGED <<command, targets, seen, before, plan, drifted, deferred, failed>>
      /\ Elsewhere(h) /\ Touches(h, s) /\ at' \in {h, NoHost} /\ pending' \subseteq pending
      /\ phase' \in {"execute", "aborted"}
      /\ at' = h => todo' = todo \ {s} /\ result' = result /\ latch' = latch
                    /\ Possible(h, s) /\ Achieves(h, s)
  BY <1>1, ConstantsOK DEF TaskStep, Goes, Completes, Fails, Unreachable
<1>3. PICK d \in BOOLEAN : d <=> h \in deferred
  OBVIOUS
<1>4. /\ Calls(h, d, "ensure") => ("ensure" \in todo <=> s \in {"stop", "destroy", "ensure"})
      /\ "reobserve" \in todo <=>
           s \in {"stop", "destroy", "ensure", "start", "hostconfig", "reobserve"}
      /\ Calls(h, d, "configure") => ("configure" \in todo <=> s \notin {"upgrade", "stacks", "reboot"})
  BY <1>3, InOrder DEF TaskStep
<1>5. "reobserve" \in todo <=> after[h] = NoObservation
  BY <1>1 DEF IInv, WorkingInv, Working
<1>6. AfterInv'
  <2>1. after'[h] # NoObservation /\ after'[h].state = "absent" => guest'[h].state = "absent"
    <3>1. CASE s = "reobserve" /\ at' = h
      <4> SUFFICES ASSUME after'[h].state = "absent" PROVE guest[h].state = "absent"
        BY <1>2, <3>1 DEF Achieves
      <4>1. CASE ~Check /\ (plan[h].transition # "none" \/ plan[h].reconcile)
        BY <1>2, <3>1, <4>1 DEF Achieves
      <4>2. CASE ~(~Check /\ (plan[h].transition # "none" \/ plan[h].reconcile))
        <5>1. before[h].state = "absent"
          BY <1>2, <3>1, <4>2 DEF Achieves
        <5>2. seen[h] = "absent"
          BY <1>1, <5>1, PlanFacts DEF IInv
        <5>3. "create" \notin did[h]
          BY <4>2 DEF IInv, DeedInv
        <5>4. QED
          BY <5>2, <5>3 DEF IInv, SeenInv, State
      <4>3. QED
        BY <4>1, <4>2
    <3>2. CASE after'[h] = after[h]
      BY <1>2, <1>4, <1>5, <3>2 DEF IInv, AfterInv, Touches, Absent
    <3>3. after'[h] = after[h] \/ (s = "reobserve" /\ at' = h)
      BY <1>1, <1>2 DEF Touches, TaskStep, Goes, Completes, Fails, Unreachable
    <3>4. QED
      BY <3>1, <3>2, <3>3
  <2>2. ASSUME at' = h, "ensure" \notin todo', ~command.check, h \in Present \ deferred,
               plan[h].transition # "none"
        PROVE  guest'[h].state # "absent"
    <3>1. Calls(h, d, "ensure")
      BY <1>3, <2>2 DEF Calls, HostSide
    <3>2. CASE s = "ensure"
      BY <1>2, <2>2, <3>2 DEF Achieves
    <3>3. CASE s # "ensure"
      <4>1. "ensure" \notin todo /\ s \notin {"stop", "destroy"}
        BY <1>2, <1>4, <2>2, <3>1, <3>3 DEF Step
      <4>2. guest[h].state # "absent"
        BY <1>1, <2>2, <4>1 DEF IInv, AfterInv
      <4>3. QED
        BY <1>2, <3>3, <4>1, <4>2 DEF Touches, Absent
    <3>4. QED
      BY <3>2, <3>3
  <2>3. ASSUME at' = h, "configure" \notin todo', GuestSide(h), ~command.check, drifted[h] # "after"
        PROVE  guest'[h].state = "running"
    <3>1. Calls(h, d, "configure")
      BY <2>3 DEF Calls
    <3>2. CASE s = "configure"
      BY <1>2, <2>3, <3>2 DEF Achieves, Possible
    <3>3. CASE s # "configure"
      <4>1. "configure" \notin todo
        BY <1>2, <2>3, <3>3
      <4>2. s \in {"upgrade", "stacks", "reboot"}
        BY <1>4, <3>1, <4>1
      <4>3. QED
        BY <1>1, <1>2, <2>3, <4>2 DEF Achieves, Possible
    <3>4. QED
      BY <3>2, <3>3
  <2>4. GuestSide(h)' <=> GuestSide(h)
    BY <1>2 DEF GuestSide
  <2> SUFFICES ASSUME NEW g \in Host, g # h
               PROVE  /\ after'[g] # NoObservation /\ after'[g].state = "absent" =>
                           guest'[g].state = "absent"
                      /\ at' # g
    BY <1>2, <2>1, <2>2, <2>3, <2>4 DEF AfterInv
  <2>5. QED
    BY <1>2, ConstantsOK DEF IInv, AfterInv, Elsewhere
<1>7. ResultInv'
  <2>1. result[h] = "planned"
    BY <1>1 DEF IInv, ResultInv, ResultOK
  <2>2. \/ result' = result /\ latch' = latch
        \/ at' = NoHost /\ latch' = h /\ result' = [result EXCEPT ![h] = "execution_failed"]
    BY DEF TaskStep, Goes, Completes, Fails, Unreachable
  <2>3. result'[h] \in {"planned", "execution_failed"} /\ \A g \in Host \ {h} : result'[g] = result[g]
    BY <2>1, <2>2 DEF IInv, TypeOK
  <2>4. \A g \in Host : result'[g] = "execution_failed" => latch' = g
    BY <1>1, <2>1, <2>2, ConstantsOK DEF IInv, TypeOK, ResultInv, ResultOK
  <2>5. phase' = "execute" /\ at' = h => result'[h] = "planned"
    BY <1>2, <2>1
  <2>6. \A g \in Host \ {h} : at' # g
    BY <1>2, ConstantsOK
  <2> SUFFICES ASSUME NEW g \in Host \ {h} PROVE ResultOK(g)'
    BY <1>1, <1>2, <2>3, <2>4, <2>5 DEF ResultInv, ResultOK
  <2>7. QED
    BY <1>1, <1>2, <2>3, <2>4, <2>6 DEF IInv, ResultInv, ResultOK, Elsewhere
<1>8. QED
  BY <1>6, <1>7

(* In a clean full run the guest of a target that is not deferred is there *)
(* when it is started and reconciled, and runs when it is configured.      *)
LEMMA TaskIsPossible ==
  ASSUME IInv, NEW h \in Host, NEW s \in Tasks, Due(h, s), ~command.self, clean,
         command.intent = "full", ~command.check
  PROVE  Possible(h, s)
<1>1. /\ at = h /\ s \in todo /\ h \in targets /\ "busy" \notin todo
      /\ command \in Command /\ plan[h] # NoPlan
      /\ s \in {"start", "hostconfig", "upgrade", "reboot"} => h \notin deferred
      /\ s = "start" => plan[h].start
      /\ s = "hostconfig" => plan[h].reconcile
      /\ s \in {"configure", "upgrade", "stacks", "reboot"} => plan[h].configure
  BY AtWork DEF Tasks
<1>2. drifted[h] = "no"
  BY DEF IInv, CleanInv
<1>3. /\ h \notin Present => ~plan[h].start /\ ~plan[h].reconcile /\ ~plan[h].configure
      /\ h \in Present => plan[h].transition \in {"rebuild", "provision", "start"}
      /\ plan[h].start <=> \/ plan[h].transition \in {"rebuild", "start"}
                           \/ plan[h].transition = "provision" /\ before[h].state = "absent"
      /\ h \in Present /\ before[h].state = "stopped" => plan[h].transition = "start"
      /\ before[h].state \in State /\ seen[h] = before[h].state
  BY <1>1, PlanFacts DEF IInv, Plan, Transition, Observation
<1> SUFFICES ASSUME s \in {"start", "hostconfig", "configure", "upgrade", "stacks", "reboot"}
             PROVE  guest[h].state = "running" \/ (s = "start" /\ guest[h].state = "stopped")
  BY DEF Possible, Check
<1>4. h \in Present
  BY <1>1, <1>3
<1>5. CASE h \notin deferred
  <2>1. /\ Calls(h, FALSE, "ensure") /\ (plan[h].start => Calls(h, FALSE, "start"))
        /\ ~plan[h].start => ~Calls(h, FALSE, "start")
    BY <1>3, <1>4 DEF Calls, HostSide
  <2>2. /\ "ensure" \notin todo /\ ("start" \in todo <=> s = "start")
        /\ s = "start" => plan[h].start
    BY <1>1, <1>5, <2>1, InOrder DEF Step
  <2>3. /\ plan[h].transition = "rebuild" => RebuildTrack(h)
        /\ plan[h].transition \in {"provision", "start"} => ProvisionTrack(h)
    BY <1>1, <1>2, <1>5 DEF IInv, TrackInv
  <2>4. QED
    BY <1>3, <1>4, <2>2, <2>3 DEF RebuildTrack, ProvisionTrack, State
<1>6. CASE h \in deferred
  <2>1. before[h].state = "running"
    BY <1>6 DEF IInv, DeferredInv
  <2>2. did[h] \subseteq {"access", "configure", "recreate"}
    BY <1>6 DEF IInv, DeedInv
  <2>3. QED
    BY <1>2, <1>3, <2>1, <2>2 DEF IInv, SeenInv, Moving
<1>7. QED
  BY <1>5, <1>6

(* and the targets behind it converged in a clean run.                     *)
LEMMA TaskKeepsConvergence ==
  ASSUME IInv, TypeOK', NEW h \in Host, NEW s \in Tasks, TaskStep(h, s)
  PROVE  ConvergeInv'
<1> USE DEF planVars, Check
<1> SUFFICES ASSUME phase' \in {"execute", "report"}, clean', problem' = {},
                    command'.intent = "full", ~command'.check
             PROVE  /\ command.self \/ latch' = NoHost
                    /\ \A t \in targets \ pending' :
                         at' = t \/ t \in deferred \/ (~command.self /\ Converged(t)')
  BY DEF ConvergeInv, TaskStep, Goes
<1>1. /\ at = h /\ h \in targets /\ latch = NoHost /\ (command.self => h \in deferred)
      /\ phase = "execute"
  BY AtWork DEF TaskStep, Tasks
<1>2. /\ Elsewhere(h) /\ clean /\ command' = command /\ problem' = problem
      /\ pending' = pending
      /\ \/ at' = h /\ latch' = latch
         \/ Fails(h) /\ ~Possible(h, s)
  BY <1>1 DEF TaskStep, Goes, Completes, Unreachable, Fails
<1>3. command.self \/ at' = h
  BY <1>2, TaskIsPossible DEF TaskStep
<1>4. \A t \in targets \ pending : t = h \/ t \in deferred \/ (~command.self /\ Converged(t))
  BY <1>1, <1>2 DEF IInv, ConvergeInv
<1>5. \A t \in targets \ {h} : Converged(t)' <=> Converged(t)
  BY <1>2 DEF Converged, Elsewhere, IInv, TypeOK
<1>6. command.self \/ latch' = NoHost
  BY <1>1, <1>2, <1>3, ConstantsOK DEF Fails, IInv, TypeOK
<1>7. QED
  BY <1>1, <1>2, <1>3, <1>4, <1>5, <1>6

(* Together: a task step keeps the invariant.                              *)
LEMMA TaskKeeps ==
  ASSUME IInv, TypeOK', NEW h \in Host, NEW s \in Tasks, TaskStep(h, s)
  PROVE  IInv'
BY TaskKeepsControl, TaskKeepsFleet, TaskKeepsTrack, TaskKeepsResults, TaskKeepsConvergence DEF IInv

-----------------------------------------------------------------------------
(* The steps of execution that do nothing to a guest. *)

(* A target is taken up when nothing stands against it.                    *)
LEMMA ExecuteTargetKeeps ==
  ASSUME IInv, NEW h \in Host, ExecuteTarget(h)
  PROVE  IInv'
<1> USE DEF ExecuteTarget, fleetVars, planVars
<1>1. /\ phase = "execute" /\ at = NoHost /\ h \in pending /\ h \in targets /\ h # NoHost
      /\ pending' = pending \ {h}
      /\ UNCHANGED <<phase, failed, latch, lost>>
      /\ h \notin lost
      /\ UNCHANGED <<guest, job, command, limit, targets, problem, seen, before, plan,
                     deferred, rebuilt, after, did, destroyed, killed, drifted, clean>>
  BY ConstantsOK DEF IInv, TypeOK, AtInv
<1>2. \/ /\ UNCHANGED <<at, todo>>
         /\ result' = result \/ result' = [result EXCEPT ![h] = "not_executed"]
         /\ failed # {} \/ latch # NoHost
      \/ at' = h /\ todo' = {"busy"} /\ result' = result /\ failed = {} /\ latch = NoHost
  OBVIOUS
<1>3. TypeOK'
  <2>1. OutcomeOK'
    BY <1>1, <1>2 DEF IInv, TypeOK, OutcomeOK, Status, Step
  <2>2. EffectOK'
    BY <1>1 DEF IInv, TypeOK, EffectOK
  <2>3. QED
    BY <1>1, <2>1, <2>2, TypeIsKept DEF IInv, TypeOK
<1>4. IdleInv' /\ PlanningInv' /\ EarlyInv' /\ CommandInv' /\ CleanInv' /\ BusyWorkInv'
  BY <1>1 DEF IInv, IdleInv, PlanningInv, Planning, EarlyInv, CommandInv, CleanInv, BusyWorkInv
<1>5. BarrierInv' /\ AtInv'
  BY <1>1, <1>2, ConstantsOK DEF IInv, BarrierInv, Coordinates, AtInv, Acted
<1>6. PlanInv' /\ DeedInv' /\ DeferredInv' /\ GuestInv' /\ SeenInv' /\ DestroyInv' /\ ReleaseInv'
  BY <1>1 DEF IInv, PlanInv, Decide, Forbidden, EvidenceMissing, TransitionFor, Provisions,
              RebuildRequired, DeedInv, DeferredInv, GuestInv, SeenInv, DestroyInv, ReleaseInv
<1>7. WaitingInv'
  BY <1>1, <1>2, ConstantsOK DEF IInv, WaitingInv
<1>8. \A g \in Host : at' = g => "busy" \in todo'
  BY <1>1, <1>2, ConstantsOK
<1>9. WorkingInv' /\ TrackInv' /\ QuietInv'
  BY <1>8 DEF WorkingInv, TrackInv, QuietInv
<1>10. AfterInv'
  BY <1>1, <1>8 DEF IInv, AfterInv
<1>11. ResultInv'
  <2>1. did[h] = {}
    BY <1>1 DEF IInv, WaitingInv
  <2>2. failed = {} /\ plan[h] # NoPlan => result[h] = "planned"
    BY <1>1 DEF IInv, ResultInv, ResultOK
  <2> SUFFICES ASSUME NEW g \in Host PROVE ResultOK(g)'
    BY DEF ResultInv
  <2>3. CASE g # h
    <3>1. result'[g] = result[g] /\ at' # g
      BY <1>1, <1>2, <2>3, ConstantsOK DEF IInv, TypeOK
    <3>2. QED
      BY <1>1, <3>1 DEF IInv, ResultInv, ResultOK
  <2>4. CASE g = h
    <3>1. result'[h] = result[h] \/ (at' # h /\ result'[h] = "not_executed")
      BY <1>1, <1>2 DEF IInv, TypeOK
    <3>2. ResultOK(h)
      BY DEF IInv, ResultInv
    <3>3. QED
      BY <1>1, <1>8, <2>1, <2>2, <2>4, <3>1, <3>2 DEF ResultOK
  <2>5. QED
    BY <2>3, <2>4
<1>12. ConvergeInv'
  <2> SUFFICES ASSUME clean, problem = {}, command.intent = "full", ~command.check
               PROVE  /\ command.self \/ latch = NoHost
                      /\ \A t \in targets \ pending' :
                           at' = t \/ t \in deferred \/ (~command.self /\ Converged(t)')
    BY <1>1 DEF ConvergeInv
  <2>1. /\ command.self \/ latch = NoHost
        /\ \A t \in targets \ pending : t \in deferred \/ (~command.self /\ Converged(t))
    BY <1>1, ConstantsOK DEF IInv, ConvergeInv, TypeOK
  <2>2. failed = {} /\ latch = NoHost
    <3>1. failed = {}
      BY <1>1 DEF IInv, BarrierInv
    <3>2. latch # NoHost => command.self /\ latch = h
      BY <1>1, <2>1 DEF IInv, CommandInv, TypeOK
    <3>3. QED
      BY <1>1, <3>1, <3>2 DEF IInv, AtInv
  <2>3. \A t \in targets : Converged(t)' <=> Converged(t)
    BY <1>1 DEF Converged
  <2>4. QED
    BY <1>1, <1>2, <2>1, <2>2, <2>3
<1>13. QED
  BY <1>3, <1>4, <1>5, <1>6, <1>7, <1>9, <1>10, <1>11, <1>12 DEF IInv

(* The busy check settles what is to be done, or there is no plan.         *)
LEMMA BusyCheckKeeps ==
  ASSUME IInv, NEW h \in Host, BusyCheck(h)
  PROVE  IInv'
<1> USE DEF BusyCheck, Unexecuted, planVars, effectVars, NoFault, Check
<1>1. /\ at = h /\ phase = "execute" /\ h \in targets /\ h # NoHost /\ todo = {"busy"}
      /\ latch = NoHost /\ failed = {} /\ h \notin pending /\ h \notin lost /\ command \in Command
      /\ did[h] = {} /\ h \notin deferred /\ destroyed[h] = NoRelease /\ after[h] = NoObservation
  BY ConstantsOK DEF Due, IInv, TypeOK, AtInv, WaitingInv, CommandInv
<1>2. /\ UNCHANGED <<guest, job, command, limit, targets, problem, seen, before, plan, failed,
                     rebuilt, after, did, destroyed, killed, drifted, clean, phase, pending, lost>>
      /\ at' \in {h, NoHost}
  BY <1>1 DEF Fails
<1>3. CASE plan[h] = NoPlan
  <2>1. Fails(h) /\ UNCHANGED deferred
    BY <1>3
  <2>2. TypeOK'
    <3>1. OutcomeOK'
      BY <1>1, <1>2, <2>1, OutcomeIsTyped DEF IInv
    <3>2. EffectOK'
      BY <1>2 DEF IInv, TypeOK, EffectOK
    <3>3. QED
      BY <1>2, <2>1, <3>1, <3>2, TypeIsKept DEF IInv, TypeOK
  <2>3. at' = NoHost /\ todo' = {} /\ latch' = h
        /\ result'[h] = "execution_failed" /\ \A g \in Host \ {h} : result'[g] = result[g]
    BY <2>1 DEF Fails, IInv, TypeOK
  <2>4. IdleInv' /\ PlanningInv' /\ EarlyInv' /\ CommandInv' /\ CleanInv' /\ BusyWorkInv'
    BY <1>1, <1>2 DEF IInv, IdleInv, PlanningInv, Planning, EarlyInv, CommandInv, CleanInv, BusyWorkInv
  <2>5. BarrierInv' /\ AtInv'
    BY <1>1, <1>2, <2>3 DEF IInv, BarrierInv, Coordinates, AtInv, Acted
  <2>6. PlanInv' /\ DeedInv' /\ DeferredInv' /\ GuestInv' /\ SeenInv' /\ DestroyInv' /\ ReleaseInv'
    BY <1>2, <2>1 DEF IInv, PlanInv, Decide, Forbidden, EvidenceMissing, TransitionFor, Provisions,
                RebuildRequired, DeedInv, DeferredInv, GuestInv, SeenInv, DestroyInv, ReleaseInv
  <2>7. \A g \in Host : at' # g
    BY <2>3, ConstantsOK
  <2>8. WaitingInv' /\ WorkingInv' /\ TrackInv' /\ QuietInv'
    BY <1>2, <2>1, <2>7 DEF IInv, WaitingInv, WorkingInv, TrackInv, QuietInv
  <2>9. AfterInv'
    BY <1>2, <2>7 DEF IInv, AfterInv
  <2>10. ResultInv'
    BY <1>1, <1>2, <1>3, <2>1, <2>3, <2>7 DEF IInv, ResultInv, ResultOK
  <2>11. ConvergeInv'
    <3>1. problem # {}
      BY <1>1, <1>3 DEF IInv, BarrierInv
    <3>2. QED
      BY <1>2, <3>1 DEF ConvergeInv
  <2>12. QED
    BY <2>2, <2>4, <2>5, <2>6, <2>8, <2>9, <2>10, <2>11 DEF IInv
<1>4. CASE plan[h] # NoPlan
  <2>1. PICK d \in BOOLEAN :
          /\ command.self \/ (Asked(h) /\ job[h] # "none") => d
          /\ d => command.self \/ Asked(h)
          /\ deferred' = IF d THEN deferred \cup {h} ELSE deferred
          /\ todo' = {s \in Step : Calls(h, d, s)}
    BY <1>4 DEF Asked
  <2>2. UNCHANGED <<at, latch, result>>
    BY <1>4
  <2> HIDE DEF BusyCheck
  <2>3. TypeOK'
    <3>1. deferred' \in SUBSET targets /\ todo' \in SUBSET Step
      BY <1>1, <2>1 DEF IInv, TypeOK
    <3>2. UNCHANGED <<runs, faults>>
      BY DEF BusyCheck
    <3>3. QED
      BY <1>2, <2>2, <3>1, <3>2 DEF IInv, TypeOK
  <2>4. /\ h \in deferred' <=> d
        /\ "busy" \notin todo' /\ \A g \in Host \ {h} : at' # g
        /\ deferred \subseteq deferred' /\ deferred' \subseteq deferred \cup {h}
    BY <1>1, <2>1, <2>2 DEF Calls
  <2>5. IdleInv' /\ PlanningInv' /\ EarlyInv' /\ CommandInv' /\ CleanInv' /\ BusyWorkInv'
    BY <1>1, <1>2 DEF IInv, IdleInv, PlanningInv, Planning, EarlyInv, CommandInv, CleanInv, BusyWorkInv
  <2>6. BarrierInv' /\ AtInv'
    BY <1>1, <1>2, <2>2 DEF IInv, BarrierInv, Coordinates, AtInv, Acted
  <2>7. PlanInv' /\ GuestInv' /\ SeenInv' /\ DestroyInv' /\ ReleaseInv'
    BY <1>2 DEF IInv, PlanInv, Decide, Forbidden, EvidenceMissing, TransitionFor, Provisions,
                RebuildRequired, GuestInv, SeenInv, DestroyInv, ReleaseInv
  <2>8. DeedInv' /\ DeferredInv'
    BY <1>1, <1>2, <1>4, <2>1, <2>4 DEF IInv, DeedInv, DeferredInv, Asked
  <2>9. WaitingInv'
    BY <1>1, <1>2, <2>2, <2>4 DEF IInv, WaitingInv
  <2>10. \A s \in Step : Calls(h, d, s)' <=> s \in todo'
    BY <1>2, <2>1 DEF Calls, HostSide, GuestSide, GuestInterruption
  <2>11. WorkingInv'
    <3>1. \A s \in Step : Calls(h, h \in deferred, s)' <=> Calls(h, d, s)'
      BY <2>4 DEF Calls, HostSide, GuestInterruption
    <3>2. "reobserve" \in todo'
      BY <2>1 DEF Calls, Step
    <3>3. todo' \subseteq Step
      BY <2>1
    <3>4. Working(h)'
      BY <1>1, <1>2, <1>4, <2>1, <2>4, <2>10, <3>1, <3>2, <3>3 DEF Working
    <3>5. QED
      BY <2>4, <3>4 DEF WorkingInv
  <2>12. before[h].state \in State /\ seen[h] = before[h].state
    BY <1>1, <1>4, PlanFacts DEF IInv, Observation
  <2>13. drifted[h] = "no" => guest[h].state = before[h].state
    BY <1>1, <2>12 DEF IInv, SeenInv
  <2>14. TrackInv'
    <3> SUFFICES ASSUME h \notin deferred', drifted[h] = "no", ~command.check
                 PROVE  /\ plan[h].transition = "rebuild" => RebuildTrack(h)'
                        /\ plan[h].transition = "remove" => RemoveTrack(h)'
                        /\ plan[h].transition \in {"provision", "start"} => ProvisionTrack(h)'
      BY <1>2, <2>4 DEF TrackInv
    <3>1. /\ plan[h].transition = "rebuild" =>
               {"stop", "destroy", "ensure", "start"} \subseteq todo' /\ before[h].state = "running"
          /\ plan[h].transition = "remove" => "stop" \in todo' /\ "ensure" \in todo'
          /\ plan[h].transition \in {"provision", "start"} => "ensure" \in todo'
      BY <1>1, <1>4, <2>1, <2>4, PlanFacts DEF Calls, HostSide, Step, IInv
    <3>2. QED
      BY <1>1, <1>2, <2>13, <3>1 DEF RebuildTrack, RemoveTrack, ProvisionTrack
  <2>15. QuietInv'
    <3> SUFFICES ASSUME h \notin deferred', drifted[h] = "no", ~command.check, ~command.override,
                        plan[h].transition # "remove"
                 PROVE  job[h] = "none"
      BY <1>2, <2>4 DEF QuietInv
    <3>1. QED
      BY <2>1, <2>4, <2>13 DEF IInv, GuestInv, Asked
  <2>16. AfterInv'
    <3>1. h \in Present \ deferred' /\ plan[h].transition # "none" => "ensure" \in todo'
      BY <2>1, <2>4 DEF Calls, HostSide, Step
    <3>2. GuestSide(h)' => "configure" \in todo'
      BY <1>2, <2>1 DEF Calls, GuestSide, Step
    <3>3. QED
      BY <1>2, <2>4, <3>1, <3>2 DEF IInv, AfterInv
  <2>17. ResultInv'
    <3>1. result[h] = "planned"
      BY <1>1, <1>4 DEF IInv, ResultInv, ResultOK
    <3> SUFFICES ASSUME NEW g \in Host PROVE ResultOK(g)'
      BY DEF ResultInv
    <3>2. QED
      BY <1>1, <1>2, <2>2, <2>4, <3>1 DEF IInv, ResultInv, ResultOK
  <2>18. ConvergeInv'
    <3>1. \A t \in targets : Converged(t)' <=> Converged(t)
      BY <1>2 DEF Converged
    <3> SUFFICES ASSUME phase \in {"execute", "report"}, clean, problem = {},
                        command.intent = "full", ~command.check
                 PROVE  /\ command.self \/ latch = NoHost
                        /\ \A t \in targets \ pending :
                             at = t \/ t \in deferred' \/ (~command.self /\ Converged(t)')
      BY <1>2, <2>2 DEF ConvergeInv
    <3>2. /\ command.self \/ latch = NoHost
          /\ \A t \in targets \ pending :
               at = t \/ t \in deferred \/ (~command.self /\ Converged(t))
      BY DEF IInv, ConvergeInv
    <3>3. QED
      BY <2>4, <3>1, <3>2
  <2>19. QED
    BY <2>3, <2>5, <2>6, <2>7, <2>8, <2>9, <2>11, <2>14, <2>15, <2>16, <2>17, <2>18 DEF IInv
<1>5. QED
  BY <1>3, <1>4

(* What is so when the result is published. *)
LEMMA AtPublish ==
  ASSUME IInv, NEW h \in Host, Due(h, "publish")
  PROVE  /\ todo = {"publish"}
         /\ after[h] # NoObservation /\ after[h] \in Observation
         /\ ~command.check /\ h \in Present \ deferred /\ plan[h].transition # "none"
              => guest[h].state # "absent"
         /\ GuestSide(h) /\ ~command.check /\ drifted[h] # "after" => guest[h].state = "running"
<1>1. at = h /\ "busy" \notin todo /\ "publish" \in todo
  BY AtWork DEF Step
<1>2. todo = {"publish"}
  <2>1. todo \subseteq Step /\ \A t \in todo : 13 <= Position[t]
    BY Positions DEF Due, IInv, TypeOK
  <2>2. \A t \in Step : 13 <= Position[t] => t = "publish"
    BY Positions DEF Step
  <2>3. QED
    BY <1>1, <2>1, <2>2
<1>3. after[h] # NoObservation
  BY <1>1, <1>2 DEF IInv, WorkingInv, Working
<1>4. QED
  BY <1>1, <1>2, <1>3 DEF IInv, AfterInv, TypeOK

(* What is published is true. *)
LEMMA OutcomeIsTrue ==
  ASSUME IInv, NEW h \in Host, Due(h, "publish"), ~StillThere(h)
  PROVE  /\ Outcome(h) = "checked" => did[h] = {}
         /\ Outcome(h) \in {"removed", "absent"} => guest[h].state = "absent"
         /\ Outcome(h) = "ensured" => guest[h].state # "absent"
         /\ Outcome(h) = "configured" =>
              /\ drifted[h] # "after" => guest[h].state = "running"
              /\ h \in RebuildPolicy \ deferred
                   => \/ guest[h].release = Desired[h]
                      \/ plan[h].transition = "rebuild" /\ drifted[h] # "no"
         /\ Outcome(h) \in {"checked", "removed", "absent", "skipped", "ensured", "configured"}
<1> USE DEF Check
<1>1. /\ at = h /\ h \in targets /\ "busy" \notin todo /\ command \in Command /\ plan[h] # NoPlan
      /\ command.self => h \in deferred
  BY AtWork DEF Step
<1>2. /\ todo = {"publish"}
      /\ after[h] # NoObservation /\ after[h] \in Observation
      /\ ~command.check /\ h \in Present \ deferred /\ plan[h].transition # "none"
           => guest[h].state # "absent"
      /\ GuestSide(h) /\ ~command.check /\ drifted[h] # "after" => guest[h].state = "running"
  BY AtPublish
<1>3. /\ plan[h] \in Plan /\ before[h] \in Observation /\ seen[h] = before[h].state
      /\ h \notin Present =>
           /\ plan[h].transition \in {"none", "remove"}
           /\ ~plan[h].reconcile /\ ~plan[h].access /\ ~plan[h].configure
      /\ command.intent = "configure_only" =>
           plan[h].transition = "none" /\ plan[h].configure /\ before[h].state = "running"
      /\ command.intent # "configure_only" /\ h \in Present => plan[h].transition # "none"
      /\ command.intent = "full" /\ h \in Present => plan[h].configure
      /\ command.intent \in Intent
  BY <1>1, PlanFacts DEF IInv, Command
<1>4. Outcome(h) = "checked" => did[h] = {}
  <2>1. Outcome(h) = "checked" => command.check
    BY DEF Outcome
  <2>2. QED
    BY <2>1 DEF IInv, DeedInv
<1>5. Outcome(h) \in {"removed", "absent"} => guest[h].state = "absent"
  BY <1>2 DEF Outcome, StillThere, IInv, AfterInv
<1>6. before[h].state # "absent" /\ plan[h].transition \notin {"rebuild", "remove"} =>
        guest[h].state # "absent"
  BY <1>1, <1>3 DEF IInv, SeenInv, DeedInv, Observation
<1>7. Outcome(h) \in {"ensured", "configured"} =>
        /\ ~command.check /\ plan[h].transition # "remove"
        /\ ~(plan[h].transition = "none" /\ ~plan[h].reconcile /\ ~plan[h].access /\ ~plan[h].configure)
        /\ Outcome(h) = "ensured" <=> command.intent = "provision_only"
  BY DEF Outcome
<1>8. Outcome(h) \in {"ensured", "configured"} => h \in Present
  BY <1>3, <1>7
<1>9. h \in deferred /\ ~command.check => guest[h].state # "absent"
  <2>1. ASSUME h \in deferred, ~command.check PROVE guest[h].state # "absent"
    <3>1. CASE command.self
      BY <1>1, <3>1, ConstantsOK DEF IInv, CommandInv, GuestInv, TypeOK, AtInv
    <3>2. CASE ~command.self
      BY <1>3, <2>1, <3>2 DEF IInv, DeferredInv, SeenInv, DeedInv, Observation
    <3>3. QED
      BY <3>1, <3>2
  <2>2. QED
    BY <2>1
<1>10. Outcome(h) = "ensured" => guest[h].state # "absent"
  BY <1>2, <1>3, <1>7, <1>8, <1>9
<1>11. ASSUME Outcome(h) = "configured", drifted[h] # "after" PROVE guest[h].state = "running"
  <2>1. GuestSide(h)
    BY <1>3, <1>7, <1>8, <1>11 DEF GuestSide, Intent
  <2>2. QED
    BY <1>2, <1>7, <1>11, <2>1
<1>12. ASSUME Outcome(h) = "configured", h \in RebuildPolicy \ deferred
       PROVE  \/ guest[h].release = Desired[h]
              \/ plan[h].transition = "rebuild" /\ drifted[h] # "no"
  <2>1. h \in Present /\ ~command.check
    BY <1>7, <1>8, <1>12
  <2>2. CASE plan[h].transition = "rebuild"
    BY <1>1, <1>2, <1>12, <2>1, <2>2 DEF IInv, TrackInv, RebuildTrack
  <2>3. CASE plan[h].transition # "rebuild"
    <3>1. guest[h].state # "absent"
      BY <1>2, <1>3, <1>6, <1>7, <1>12, <2>1, <2>3
    <3>2. QED
      BY <1>1, <1>12, <2>1, <2>3, <3>1 DEF IInv, ReleaseInv
  <2>4. QED
    BY <2>2, <2>3
<1>13. Outcome(h) \in {"checked", "removed", "absent", "skipped", "ensured", "configured"}
  BY DEF Outcome
<1>14. QED
  BY <1>4, <1>5, <1>10, <1>11, <1>12, <1>13

(* A result is published for a target with nothing left to do.             *)
LEMMA PublishKeeps ==
  ASSUME IInv, NEW h \in Host, Publish(h)
  PROVE  IInv'
<1> USE DEF Publish, Unexecuted, planVars, effectVars, NoFault
<1>1. /\ at = h /\ phase = "execute" /\ h \in targets /\ h # NoHost /\ Due(h, "publish")
      /\ latch = NoHost /\ failed = {} /\ h \notin pending /\ h \notin lost
      /\ command \in Command /\ plan[h] # NoPlan /\ (command.self => h \in deferred)
  BY AtWork DEF Step
<1>2. /\ UNCHANGED <<guest, job, command, limit, targets, problem, seen, before, plan, failed, deferred,
                     rebuilt, after, did, destroyed, killed, drifted, clean, phase, pending, lost>>
      /\ at' = NoHost /\ todo' = {}
      /\ \/ StillThere(h) /\ Fails(h)
         \/ ~StillThere(h) /\ latch' = latch /\ result' = [result EXCEPT ![h] = Outcome(h)]
  BY DEF Fails
<1> HIDE DEF Publish
<1>3. ~StillThere(h) =>
        /\ Outcome(h) = "checked" => did[h] = {}
        /\ Outcome(h) \in {"removed", "absent"} => guest[h].state = "absent"
        /\ Outcome(h) = "ensured" => guest[h].state # "absent"
        /\ Outcome(h) = "configured" =>
             /\ drifted[h] # "after" => guest[h].state = "running"
             /\ h \in RebuildPolicy \ deferred
                  => \/ guest[h].release = Desired[h]
                     \/ plan[h].transition = "rebuild" /\ drifted[h] # "no"
        /\ Outcome(h) \in {"checked", "removed", "absent", "skipped", "ensured", "configured"}
  BY <1>1, OutcomeIsTrue
<1>4. /\ \A g \in Host \ {h} : result'[g] = result[g]
      /\ \/ result'[h] = "execution_failed" /\ latch' = h
         \/ ~StillThere(h) /\ result'[h] = Outcome(h) /\ latch' = latch
      /\ result' \in [Host -> Status] /\ latch' \in targets \cup {NoHost}
  BY <1>1, <1>2, <1>3 DEF Fails, IInv, TypeOK, Status
<1>5. TypeOK'
  <2>1. UNCHANGED <<runs, faults>>
    BY DEF Publish
  <2>2. QED
    BY <1>2, <1>4, <2>1 DEF IInv, TypeOK
<1>6. \A g \in Host : at' # g
  BY <1>2, ConstantsOK
<1>7. IdleInv' /\ PlanningInv' /\ EarlyInv' /\ CommandInv' /\ CleanInv' /\ BusyWorkInv'
  BY <1>1, <1>2 DEF IInv, IdleInv, PlanningInv, Planning, EarlyInv, CommandInv, CleanInv, BusyWorkInv
<1>8. BarrierInv' /\ AtInv'
  BY <1>1, <1>2, <1>4 DEF IInv, BarrierInv, Coordinates, AtInv, Acted
<1>9. PlanInv' /\ DeedInv' /\ DeferredInv' /\ GuestInv' /\ SeenInv' /\ DestroyInv' /\ ReleaseInv'
  BY <1>2 DEF IInv, PlanInv, Decide, Forbidden, EvidenceMissing, TransitionFor, Provisions,
              RebuildRequired, DeedInv, DeferredInv, GuestInv, SeenInv, DestroyInv, ReleaseInv
<1>10. WaitingInv' /\ WorkingInv' /\ TrackInv' /\ QuietInv'
  BY <1>2, <1>6 DEF IInv, WaitingInv, WorkingInv, TrackInv, QuietInv
<1>11. AfterInv'
  BY <1>2, <1>6 DEF IInv, AfterInv
<1>12. ResultInv'
  <2> SUFFICES ASSUME NEW g \in Host PROVE ResultOK(g)'
    BY DEF ResultInv
  <2>1. CASE g = h
    BY <1>1, <1>2, <1>3, <1>4, <1>6, <2>1, AtPublish DEF ResultOK
  <2>2. CASE g # h
    <3>1. result'[g] = result[g] /\ at' # g /\ ResultOK(g) /\ result[g] # "execution_failed"
      BY <1>1, <1>4, <1>6, <2>2, ConstantsOK DEF IInv, ResultInv, ResultOK
    <3>2. QED
      BY <1>1, <1>2, <3>1 DEF ResultOK
  <2>3. QED
    BY <2>1, <2>2
<1>13. ConvergeInv'
  <2> SUFFICES ASSUME clean, problem = {}, command.intent = "full", ~command.check
               PROVE  /\ command.self \/ latch' = NoHost
                      /\ \A t \in targets \ pending :
                           t \in deferred \/ (~command.self /\ Converged(t)')
    BY <1>1, <1>2 DEF ConvergeInv
  <2>1. \A t \in targets \ pending : t = h \/ t \in deferred \/ (~command.self /\ Converged(t))
    BY <1>1 DEF IInv, ConvergeInv
  <2>2. \A t \in targets : Converged(t)' <=> Converged(t)
    BY <1>2 DEF Converged
  <2>3. /\ todo = {"publish"} /\ after[h] # NoObservation
        /\ drifted[h] = "no"
    BY <1>1, AtPublish DEF IInv, CleanInv
  <2>4. /\ h \notin Present =>
             /\ plan[h].transition \in {"none", "remove"}
             /\ plan[h].transition = "none" <=> before[h].state = "absent"
        /\ h \in Present =>
             /\ plan[h].transition \in {"rebuild", "provision", "start"}
             /\ before[h].state = "stopped" => plan[h].transition = "start"
        /\ plan[h].start <=> \/ plan[h].transition \in {"rebuild", "start"}
                             \/ plan[h].transition = "provision" /\ before[h].state = "absent"
        /\ seen[h] = before[h].state /\ before[h].state \in State
    BY <1>1, PlanFacts DEF IInv, Plan, Transition, Observation
  <2>5. CASE h \in deferred
    <3>1. StillThere(h) => command.self
      BY <2>5 DEF StillThere, IInv, DeferredInv
    <3>2. command.self \/ latch' = NoHost
      BY <1>1, <1>2, <3>1
    <3>3. QED
      BY <2>1, <2>2, <2>5, <3>2
  <2>6. CASE h \notin deferred
    <3>1. /\ plan[h].transition = "rebuild" => RebuildTrack(h)
          /\ plan[h].transition = "remove" => RemoveTrack(h)
          /\ plan[h].transition \in {"provision", "start"} => ProvisionTrack(h)
      BY <1>1, <2>3, <2>6 DEF IInv, TrackInv
    <3>2. ~StillThere(h)
      BY <2>3, <3>1 DEF StillThere, RemoveTrack
    <3>3. ~command.self
      BY <1>1, <2>6
    <3>4. h \in Present => guest[h].state = "running"
      BY <2>3, <2>4, <3>1 DEF RebuildTrack, ProvisionTrack, State
    <3>5. h \in Present /\ h \in RebuildPolicy => guest[h].release = Desired[h]
      BY <1>1, <2>3, <3>1, <3>4 DEF RebuildTrack, IInv, ReleaseInv
    <3>6. h \notin Present => guest[h].state = "absent"
      BY <2>3, <2>4, <3>1 DEF RemoveTrack, IInv, SeenInv, DeedInv
    <3>7. Converged(h)
      BY <3>4, <3>5, <3>6 DEF Converged
    <3>8. latch' = NoHost
      BY <1>1, <1>2, <3>2
    <3>9. QED
      BY <1>1, <2>1, <2>2, <3>3, <3>7, <3>8
  <2>7. QED
    BY <2>5, <2>6
<1>14. QED
  BY <1>5, <1>7, <1>8, <1>9, <1>10, <1>11, <1>12, <1>13 DEF IInv

(* The summary gives the targets that were not reached their result.       *)
LEMMA SummariseKeeps ==
  ASSUME IInv, Summarise
  PROVE  IInv'
<1> USE DEF Summarise, fleetVars, planVars, execVars
<1>1. TypeOK'
  BY DEF IInv, TypeOK
<1>2. IdleInv' /\ PlanningInv' /\ EarlyInv' /\ CommandInv' /\ CleanInv' /\ BusyWorkInv'
  BY DEF IInv, IdleInv, PlanningInv, Planning, EarlyInv, CommandInv, CleanInv, BusyWorkInv
<1>3. BarrierInv' /\ AtInv'
  BY DEF IInv, BarrierInv, Coordinates, AtInv, Acted
<1>4. PlanInv' /\ DeedInv' /\ DeferredInv' /\ GuestInv' /\ SeenInv' /\ DestroyInv' /\ ReleaseInv'
  BY DEF IInv, PlanInv, Decide, Forbidden, EvidenceMissing, TransitionFor, Provisions,
         RebuildRequired, DeedInv, DeferredInv, GuestInv, SeenInv, DestroyInv, ReleaseInv
<1>5. \A g \in Host : at' # g
  BY ConstantsOK
<1>6. WaitingInv' /\ WorkingInv' /\ TrackInv' /\ QuietInv'
  BY <1>5 DEF IInv, WaitingInv, WorkingInv, TrackInv, QuietInv
<1>7. AfterInv' /\ ResultInv'
  BY <1>5 DEF IInv, AfterInv, ResultInv, ResultOK
<1>8. ConvergeInv'
  BY DEF IInv, ConvergeInv, Converged
<1>9. QED
  BY <1>1, <1>2, <1>3, <1>4, <1>6, <1>7, <1>8 DEF IInv

-----------------------------------------------------------------------------
(* The planning of a run. *)

(* Until the barrier most of the invariant says nothing.                   *)
LEMMA NothingExecuted ==
  ASSUME TypeOK', PlanningInv', Planning', todo' = {}
  PROVE  /\ AtInv' /\ WaitingInv' /\ WorkingInv' /\ DeedInv' /\ DeferredInv' /\ DestroyInv'
         /\ TrackInv' /\ QuietInv' /\ AfterInv' /\ ConvergeInv' /\ BusyWorkInv'
<1>1. /\ failed' = {} /\ at' = NoHost /\ latch' = NoHost /\ deferred' = {} /\ killed' = {}
      /\ phase' \notin {"execute", "report"}
      /\ \A h \in Host : did'[h] = {} /\ destroyed'[h] = NoRelease /\ after'[h] = NoObservation
      /\ \A h \in Host : at' # h
  BY ConstantsOK DEF PlanningInv, Planning
<1>2. AtInv' /\ WaitingInv' /\ WorkingInv'
  BY <1>1 DEF AtInv, Acted, WaitingInv, WorkingInv
<1>3. DeedInv' /\ DeferredInv' /\ DestroyInv' /\ TrackInv' /\ QuietInv' /\ AfterInv' /\ BusyWorkInv'
  BY <1>1 DEF DeedInv, DeferredInv, DestroyInv, TrackInv, QuietInv, AfterInv, BusyWorkInv
<1>4. ConvergeInv'
  BY <1>1 DEF ConvergeInv
<1>5. QED
  BY <1>2, <1>3, <1>4

(* Any fleet may be there at first.                                        *)
LEMMA InitInv == Init => IInv
<1> SUFFICES ASSUME Init PROVE IInv
  OBVIOUS
<1>1. ASSUME NEW h \in Host
      PROVE  /\ guest[h] \in [state : State, release : Release \cup {NoRelease}]
             /\ guest[h].state = "absent" <=> guest[h].release = NoRelease
  <2>1. guest[h] = Absent \/ guest[h] \in [state : {"stopped", "running"}, release : Release]
    BY DEF Init
  <2>2. CASE guest[h] = Absent
    BY <2>2 DEF Absent, State
  <2>3. CASE guest[h] \in [state : {"stopped", "running"}, release : Release]
    BY <2>3, ConstantsOK DEF State
  <2>4. QED
    BY <2>1, <2>2, <2>3
<1>2. guest \in [Host -> [state : State, release : Release \cup {NoRelease}]]
  <2>1. guest \in [Host -> {Absent} \cup [state : {"stopped", "running"}, release : Release]]
    BY DEF Init
  <2> DEFINE G == [state : State, release : Release \cup {NoRelease}]
             G0 == {Absent} \cup [state : {"stopped", "running"}, release : Release]
  <2>2. guest \in [Host -> G0] /\ \A h \in Host : guest[h] \in G
    BY <1>1, <2>1
  <2> HIDE DEF G, G0
  <2>3. guest \in [Host -> G]
    BY <2>2
  <2>4. QED
    BY <2>3 DEF G
<1>3. TypeOK
  BY <1>2, ConstantsOK DEF Init, TypeOK, Status
<1>4. IdleInv /\ PlanningInv /\ EarlyInv /\ CommandInv /\ CleanInv /\ BarrierInv /\ PlanInv
  BY DEF Init, IdleInv, PlanningInv, EarlyInv, CommandInv, CleanInv, BarrierInv, PlanInv
<1>5. \A h \in Host : at # h
  BY ConstantsOK DEF Init
<1>6. AtInv /\ WaitingInv /\ WorkingInv
  BY <1>5 DEF Init, AtInv, Acted, WaitingInv, WorkingInv
<1>7. DeedInv /\ DeferredInv /\ DestroyInv /\ TrackInv /\ QuietInv /\ AfterInv /\ BusyWorkInv
  BY <1>5 DEF Init, DeedInv, DeferredInv, DestroyInv, TrackInv, QuietInv, AfterInv, BusyWorkInv
<1>8. GuestInv
  <2>1. \A h \in Host : job[h] = "none"
    BY DEF Init
  <2>2. Self \in Host => guest[Self].state # "absent"
    BY DEF Init
  <2>3. \A h \in Host : guest[h].state = "absent" <=> guest[h].release = NoRelease
    BY <1>1
  <2>4. QED
    BY <2>1, <2>2, <2>3 DEF GuestInv
<1>9. SeenInv /\ ReleaseInv /\ ResultInv /\ ConvergeInv
  BY <1>5 DEF Init, SeenInv, State, ReleaseInv, ResultInv, ResultOK, ConvergeInv
<1>10. QED
  BY <1>3, <1>4, <1>6, <1>7, <1>8, <1>9 DEF IInv

(* A run starts without facts.                                             *)
LEMMA StartRunKeeps ==
  ASSUME IInv, NEW c \in Commands, NEW S \in SUBSET Host, StartRun(c, S)
  PROVE  IInv'
<1> USE DEF StartRun, execVars
<1>1. /\ phase = "idle" /\ phase' = "compile" /\ command' = c /\ limit' = S /\ c \in Command
      /\ S # {} /\ (c.self => S = {Self})
      /\ targets' = IF c.self THEN S ELSE S \ {Self}
      /\ pending' = targets'
      /\ UNCHANGED <<guest, faults, lost, problem, seen, before, plan, failed, at, todo, deferred,
                     latch, rebuilt, after, result, did, destroyed, killed, drifted, clean>>
  BY ConstantsOK
<1>2. /\ lost = {} /\ problem = {} /\ failed = {} /\ deferred = {} /\ rebuilt = {} /\ killed = {}
      /\ at = NoHost /\ latch = NoHost /\ todo = {} /\ clean
      /\ \A h \in Host : /\ plan[h] = NoPlan /\ seen[h] = "unseen" /\ drifted[h] = "no"
                         /\ result[h] = "none" /\ did[h] = {} /\ before[h] = NoObservation
                         /\ destroyed[h] = NoRelease /\ after[h] = NoObservation
  BY <1>1 DEF IInv, IdleInv, PlanningInv, Planning, EarlyInv, AtInv
<1>3. TypeOK'
  <2>1. runs' \in 0..MaxRuns
    <3>1. runs \in 0..MaxRuns /\ MaxRuns \in Nat
      BY ConstantsOK DEF IInv, TypeOK
    <3>2. QED
      BY <3>1
  <2>2. job' \in [Host -> {"none", "early", "late"}]
    BY DEF IInv, TypeOK
  <2>3. targets' \in SUBSET limit' /\ limit' \in SUBSET Host
    BY <1>1
  <2>4. QED
    BY <1>1, <1>2, <2>1, <2>2, <2>3 DEF IInv, TypeOK
<1>4. PlanningInv' /\ Planning'
  BY <1>1, <1>2 DEF PlanningInv, Planning
<1>5. IdleInv' /\ EarlyInv' /\ CommandInv' /\ CleanInv' /\ BarrierInv' /\ PlanInv'
  BY <1>1, <1>2 DEF IdleInv, EarlyInv, CommandInv, CleanInv, BarrierInv, PlanInv
<1>6. GuestInv'
  BY <1>1 DEF IInv, GuestInv, TypeOK
<1>7. SeenInv' /\ ReleaseInv' /\ ResultInv'
  BY <1>1, <1>2 DEF SeenInv, State, ReleaseInv, ResultInv, ResultOK
<1>8. QED
  BY <1>1, <1>2, <1>3, <1>4, <1>5, <1>6, <1>7, NothingExecuted DEF IInv

(* A target is compiled, or has a problem.                                 *)
LEMMA CompileTargetKeeps ==
  ASSUME IInv, NEW h \in Host, CompileTarget(h)
  PROVE  IInv'
<1> USE DEF CompileTarget, execVars, fleetVars
<1>1. /\ phase = "compile" /\ h \in targets
      /\ UNCHANGED <<guest, job, runs, phase, command, limit, targets, lost, seen, before, plan,
                     failed, at, todo, deferred, latch, rebuilt, after, result,
                     did, destroyed, killed, drifted>>
      /\ clean' => clean
  BY DEF IInv, TypeOK, NoFault, Fault
<1>2. TypeOK'
  <2>1. faults' \in 0..MaxFaults /\ clean' \in BOOLEAN
    BY FaultIsCounted DEF IInv, TypeOK, NoFault, Fault
  <2>2. problem' \in SUBSET targets /\ pending' \in SUBSET targets
    BY <1>1 DEF IInv, TypeOK
  <2>3. QED
    BY <1>1, <2>1, <2>2 DEF IInv, TypeOK
<1>3. PlanningInv' /\ Planning' /\ todo' = {}
  BY <1>1 DEF IInv, PlanningInv, Planning, AtInv
<1>4. IdleInv' /\ EarlyInv' /\ CommandInv' /\ CleanInv' /\ BarrierInv'
  BY <1>1 DEF IInv, IdleInv, EarlyInv, CommandInv, CleanInv, BarrierInv
<1>5. PlanInv' /\ GuestInv' /\ SeenInv' /\ ReleaseInv' /\ ResultInv'
  BY <1>1 DEF IInv, EarlyInv, PlanInv, GuestInv, SeenInv, ReleaseInv, ResultInv, ResultOK
<1>6. QED
  BY <1>2, <1>3, <1>4, <1>5, NothingExecuted DEF IInv

(* The fleet is looked at once.                                            *)
LEMMA CoordinatePreflightKeeps ==
  ASSUME IInv, CoordinatePreflight
  PROVE  IInv'
<1> USE DEF CoordinatePreflight, execVars, fleetVars
<1>1. /\ phase = "compile" /\ phase' = "plan" /\ pending' = targets
      /\ UNCHANGED <<guest, job, runs, command, limit, targets, lost, problem, before, plan,
                     failed, at, todo, deferred, latch, rebuilt, after, result,
                     did, destroyed, killed, drifted>>
      /\ clean' => clean
  BY DEF NoFault, Fault
<1>2. \A h \in Host :
        \/ seen'[h] \in {"unseen", "identity_conflict", "preflight_failed"}
        \/ seen'[h] = guest[h].state
  BY <1>1 DEF IInv, EarlyInv
<1>3. seen' \in [Host -> State \cup {"unseen", "identity_conflict", "preflight_failed"}]
  <2>1. DOMAIN seen' = Host /\ seen' = [h \in Host |-> seen'[h]]
    BY DEF IInv, TypeOK
  <2>2. QED
    BY <1>2, <2>1 DEF IInv, TypeOK
<1>4. TypeOK'
  <2>1. faults' \in 0..MaxFaults /\ clean' \in BOOLEAN
    BY FaultIsCounted DEF IInv, TypeOK, NoFault, Fault
  <2>2. QED
    BY <1>1, <1>3, <2>1 DEF IInv, TypeOK
<1>5. PlanningInv' /\ Planning' /\ todo' = {}
  BY <1>1 DEF IInv, PlanningInv, Planning, AtInv
<1>6. IdleInv' /\ EarlyInv' /\ CommandInv' /\ CleanInv' /\ BarrierInv'
  BY <1>1 DEF IInv, IdleInv, EarlyInv, CommandInv, CleanInv, BarrierInv
<1>7. PlanInv' /\ GuestInv' /\ ReleaseInv' /\ ResultInv'
  BY <1>1 DEF IInv, EarlyInv, PlanInv, GuestInv, ReleaseInv, ResultInv, ResultOK
<1>8. SeenInv'
  BY <1>1, <1>2 DEF SeenInv, State
<1>9. QED
  BY <1>4, <1>5, <1>6, <1>7, <1>8, NothingExecuted DEF IInv

(* A plan that is allowed is a rebuild just when one is required.          *)
LEMMA DecideFacts ==
  ASSUME command \in Command, NEW h \in Host, NEW obs \in Observation
  PROVE  /\ Decide(h, obs) \in Plan
         /\ ~Forbidden(h, obs, Decide(h, obs)) =>
              (Decide(h, obs).transition = "rebuild" <=> RebuildRequired(h, obs))
<1> DEFINE prepare == h \in Present /\ (Provisions \/ obs.state # "absent")
           access == prepare /\ ~(command.intent = "provision_only" /\ obs.state = "stopped"
                                    /\ TransitionFor(h, obs) # "rebuild")
           start == \/ TransitionFor(h, obs) \in {"rebuild", "start"}
                    \/ TransitionFor(h, obs) = "provision" /\ obs.state = "absent"
           configure == command.intent # "provision_only" /\ h \in Present
<1>1. Decide(h, obs) = [transition |-> TransitionFor(h, obs), reconcile |-> prepare,
                        access |-> access, start |-> start, configure |-> configure]
  BY DEF Decide
<1>2. TransitionFor(h, obs) \in Transition
  BY DEF TransitionFor, Transition
<1>3. prepare \in BOOLEAN /\ access \in BOOLEAN /\ start \in BOOLEAN /\ configure \in BOOLEAN
  OBVIOUS
<1> HIDE DEF prepare, access, start, configure
<1>4. Decide(h, obs) \in Plan
  BY <1>1, <1>2, <1>3 DEF Plan
<1>5. Decide(h, obs).transition = TransitionFor(h, obs)
  BY <1>1
<1>6. command.intent \in {"full", "provision_only", "configure_only"}
  BY DEF Command, Intent
<1>7. ~Forbidden(h, obs, Decide(h, obs)) =>
        (TransitionFor(h, obs) = "rebuild" <=> RebuildRequired(h, obs))
  BY <1>5, <1>6 DEF Forbidden, TransitionFor, Provisions, RebuildRequired
<1>8. QED
  BY <1>4, <1>5, <1>7

(* A target is planned, refused, or lost. *)
LEMMA PlanTargetKeeps ==
  ASSUME IInv, NEW h \in Host, PlanTarget(h)
  PROVE  IInv'
<1> USE DEF fleetVars
<1>1. /\ phase = "plan" /\ h \in targets /\ h \in pending /\ pending' = pending \ {h}
      /\ UNCHANGED <<guest, job, runs, phase, command, limit, targets, seen,
                     failed, at, todo, deferred, latch, rebuilt, after,
                     did, destroyed, killed, drifted>>
      /\ NoFault \/ Fault
  BY DEF PlanTarget, IInv, TypeOK, NoFault, Fault
<1>2. command \in Command /\ plan[h] = NoPlan /\ (clean' => clean)
  BY <1>1 DEF IInv, CommandInv, ResultInv, ResultOK, NoFault, Fault
<1>3. faults' \in 0..MaxFaults /\ clean' \in BOOLEAN
  BY <1>1, FaultIsCounted DEF IInv, TypeOK, NoFault, Fault
<1>4. PlanningInv' /\ Planning' /\ todo' = {}
  BY <1>1 DEF IInv, PlanningInv, Planning, AtInv
<1>5. \A g \in Host : at' # g /\ did'[g] = {}
  BY <1>1, ConstantsOK DEF IInv, PlanningInv, Planning
<1>6. IdleInv' /\ EarlyInv' /\ CommandInv' /\ GuestInv' /\ SeenInv'
  BY <1>1 DEF IInv, IdleInv, EarlyInv, CommandInv, GuestInv, SeenInv
<1>7. ASSUME problem' = problem \cup {h}, result' = [result EXCEPT ![h] = "planning_failed"],
             UNCHANGED <<lost, plan>>, before' \in [Host -> Observation \cup {NoObservation}],
             \A g \in Host \ {h} : before'[g] = before[g]
      PROVE  IInv'
  <2>1. TypeOK'
    BY <1>1, <1>3, <1>7 DEF IInv, TypeOK, Status
  <2>2. CleanInv' /\ BarrierInv'
    BY <1>1, <1>2, <1>7 DEF IInv, CleanInv, BarrierInv
  <2>3. PlanInv' /\ ReleaseInv'
    BY <1>1, <1>2, <1>7 DEF IInv, PlanInv, ReleaseInv, Decide, Forbidden, EvidenceMissing,
                            TransitionFor, Provisions, RebuildRequired
  <2>4. result'[h] = "planning_failed" /\ \A g \in Host \ {h} : result'[g] = result[g]
    BY <1>7 DEF IInv, TypeOK
  <2>5. ResultInv'
    BY <1>1, <1>2, <1>5, <1>7, <2>4 DEF IInv, ResultInv, ResultOK
  <2>6. QED
    BY <1>4, <1>6, <2>1, <2>2, <2>3, <2>5, NothingExecuted DEF IInv
<1>8. ASSUME lost' = lost \cup {h}, ~clean', UNCHANGED <<problem, before, plan, result>>
      PROVE  IInv'
  <2>1. TypeOK'
    BY <1>1, <1>3, <1>8 DEF IInv, TypeOK
  <2>2. CleanInv' /\ BarrierInv'
    BY <1>1, <1>2, <1>8 DEF IInv, CleanInv, BarrierInv
  <2>3. PlanInv' /\ ReleaseInv'
    BY <1>1, <1>8 DEF IInv, PlanInv, ReleaseInv, Decide, Forbidden, EvidenceMissing,
                      TransitionFor, Provisions, RebuildRequired
  <2>4. ResultInv'
    BY <1>1, <1>5, <1>8 DEF IInv, ResultInv, ResultOK
  <2>5. QED
    BY <1>4, <1>6, <2>1, <2>2, <2>3, <2>4, NothingExecuted DEF IInv
<1>9. ASSUME seen[h] \notin {"unseen", "identity_conflict", "preflight_failed"},
             NEW obs \in Observations(h), before' = [before EXCEPT ![h] = obs],
             ~EvidenceMissing(h, obs), ~Forbidden(h, obs, Decide(h, obs)),
             plan' = [plan EXCEPT ![h] = Decide(h, obs)],
             result' = [result EXCEPT ![h] = "planned"], UNCHANGED <<lost, problem>>
      PROVE  IInv'
  <2>1. seen[h] \in State
    BY <1>9 DEF IInv, TypeOK
  <2>2. /\ obs \in Observation /\ obs.state = seen[h]
        /\ obs.probe = "probed" =>
             h \in Present /\ seen[h] = "running" /\ obs.release = guest[h].release
    BY <1>9, <2>1 DEF Observations, Probes, Observation, IInv, TypeOK
  <2>3. Decide(h, obs) \in Plan /\ Decide(h, obs) # NoPlan /\ obs # NoObservation
    BY <1>2, <2>2, DecideFacts, NonesOK
  <2>4. Decide(h, obs).transition = "rebuild" <=> RebuildRequired(h, obs)
    BY <1>2, <1>9, <2>2, DecideFacts
  <2>5. /\ plan'[h] = Decide(h, obs) /\ before'[h] = obs /\ result'[h] = "planned"
        /\ \A g \in Host \ {h} :
             plan'[g] = plan[g] /\ before'[g] = before[g] /\ result'[g] = result[g]
    BY <1>9 DEF IInv, TypeOK
  <2>6. TypeOK'
    <3>1. /\ before' \in [Host -> Observation \cup {NoObservation}]
          /\ plan' \in [Host -> Plan \cup {NoPlan}] /\ result' \in [Host -> Status]
      BY <1>9, <2>2, <2>3 DEF IInv, TypeOK, Status
    <3>2. pending' \in SUBSET targets
      BY <1>1 DEF IInv, TypeOK
    <3>3. QED
      BY <1>1, <1>3, <1>9, <3>1, <3>2 DEF IInv, TypeOK
  <2>7. CleanInv' /\ BarrierInv'
    BY <1>1, <1>2, <1>9, <2>3, <2>5 DEF IInv, CleanInv, BarrierInv
  <2>8. PlanInv'
    <3> SUFFICES ASSUME NEW g \in Host, plan'[g] # NoPlan
                 PROVE  /\ g \in targets
                        /\ before'[g] # NoObservation
                        /\ before'[g].state = seen[g]
                        /\ before'[g].probe = "probed" => g \in Present /\ seen[g] = "running"
                        /\ plan'[g] = Decide(g, before'[g])
                        /\ ~Forbidden(g, before'[g], plan'[g])
                        /\ ~EvidenceMissing(g, before'[g])
      BY <1>1 DEF PlanInv, Decide, Forbidden, EvidenceMissing, TransitionFor, Provisions,
                  RebuildRequired
    <3>1. CASE g = h
      BY <1>1, <1>9, <2>2, <2>3, <2>5, <3>1
    <3>2. CASE g # h
      BY <2>5, <3>2 DEF IInv, PlanInv
    <3>3. QED
      BY <3>1, <3>2
  <2>9. ReleaseInv'
    <3>1. Decide(h, obs).transition = "rebuild" => guest[h].release = obs.release
      BY <2>2, <2>4 DEF RebuildRequired
    <3>2. h \in Present \cap RebuildPolicy /\ Decide(h, obs).transition # "rebuild"
            /\ guest[h].state # "absent" => guest[h].release = Desired[h]
      <4>1. seen[h] = "absent" => guest[h].state = "absent"
        BY <1>1, <1>5, <2>1 DEF IInv, SeenInv
      <4>2. QED
        BY <1>9, <2>2, <2>4, <4>1 DEF RebuildRequired, EvidenceMissing
    <3>3. QED
      BY <1>1, <2>5, <3>1, <3>2 DEF IInv, ReleaseInv
  <2>10. ResultInv'
    BY <1>1, <1>5, <1>9, <2>5 DEF IInv, ResultInv, ResultOK
  <2>11. QED
    BY <1>4, <1>6, <2>6, <2>7, <2>8, <2>9, <2>10, NothingExecuted DEF IInv
<1>10. CASE h \in problem \/ seen[h] \in {"unseen", "identity_conflict", "preflight_failed"}
  BY <1>7, <1>10 DEF PlanTarget, IInv, TypeOK
<1>11. CASE ~(h \in problem \/ seen[h] \in {"unseen", "identity_conflict", "preflight_failed"})
  <2>1. CASE Fault /\ lost' = lost \cup {h} /\ UNCHANGED <<problem, before, plan, result>>
    BY <1>8, <2>1 DEF Fault
  <2>2. ASSUME NEW obs \in Observations(h), before' = [before EXCEPT ![h] = obs],
               EvidenceMissing(h, obs) \/ Forbidden(h, obs, Decide(h, obs)),
               problem' = problem \cup {h}, result' = [result EXCEPT ![h] = "planning_failed"],
               UNCHANGED <<lost, plan>>
        PROVE  IInv'
    <3>1. seen[h] \in State
      BY <1>11 DEF IInv, TypeOK
    <3>2. obs \in Observation
      BY <3>1 DEF Observations, Probes, Observation, IInv, TypeOK
    <3>3. QED
      BY <1>7, <2>2, <3>2 DEF IInv, TypeOK
  <2>3. QED
    BY <1>9, <1>11, <2>1, <2>2 DEF PlanTarget
<1>12. QED
  BY <1>10, <1>11

(* The barrier lets everybody or nobody through.                           *)
LEMMA PlanningBarrierKeeps ==
  ASSUME IInv, PlanningBarrier
  PROVE  IInv'
<1> USE DEF PlanningBarrier, planVars, fleetVars
<1>1. /\ phase = "plan" /\ pending = {} /\ phase' \in {"aborted", "execute"}
      /\ pending' = targets \ lost
      /\ failed' = IF Coordinates THEN problem ELSE {}
      /\ UNCHANGED <<guest, job, runs, faults, command, limit, targets, problem, lost, seen, before,
                     plan, at, todo, deferred, latch, rebuilt, after, did, destroyed, killed,
                     drifted, clean>>
  OBVIOUS
<1>2. /\ failed = {} /\ at = NoHost /\ latch = NoHost /\ deferred = {} /\ killed = {} /\ todo = {}
      /\ \A h \in Host : did[h] = {} /\ destroyed[h] = NoRelease /\ after[h] = NoObservation
  BY <1>1 DEF IInv, PlanningInv, Planning, AtInv
<1>3. \A h \in Host : /\ result'[h] = "blocked" \/ result'[h] = result[h]
                      /\ failed' = {} => result'[h] = result[h]
  OBVIOUS
<1>4. TypeOK'
  <2>1. result' \in [Host -> Status]
    BY DEF IInv, TypeOK, Status
  <2>2. failed' \in SUBSET targets /\ pending' \in SUBSET targets
    BY <1>1 DEF IInv, TypeOK
  <2>3. QED
    BY <1>1, <2>1, <2>2 DEF IInv, TypeOK
<1> HIDE DEF PlanningBarrier
<1>5. \A h \in Host : at' # h
  BY <1>1, <1>2, ConstantsOK
<1>6. IdleInv' /\ PlanningInv' /\ EarlyInv' /\ CommandInv' /\ CleanInv' /\ BusyWorkInv'
  BY <1>1, <1>2 DEF IInv, IdleInv, PlanningInv, Planning, EarlyInv, CommandInv, CleanInv, BusyWorkInv
<1>7. BarrierInv'
  <2>1. Coordinates' <=> Coordinates
    BY <1>1 DEF Coordinates
  <2>2. QED
    BY <1>1, <2>1 DEF IInv, BarrierInv
<1>8. AtInv' /\ WaitingInv' /\ WorkingInv'
  BY <1>1, <1>2, <1>5 DEF AtInv, Acted, WaitingInv, WorkingInv
<1>9. PlanInv' /\ GuestInv' /\ SeenInv' /\ DestroyInv' /\ ReleaseInv'
  BY <1>1 DEF IInv, PlanInv, Decide, Forbidden, EvidenceMissing, TransitionFor, Provisions,
              RebuildRequired, GuestInv, SeenInv, DestroyInv, ReleaseInv
<1>10. DeedInv' /\ DeferredInv' /\ TrackInv' /\ QuietInv' /\ AfterInv'
  BY <1>1, <1>2, <1>5 DEF DeedInv, DeferredInv, TrackInv, QuietInv, AfterInv
<1>11. ResultInv'
  <2> SUFFICES ASSUME NEW h \in Host PROVE ResultOK(h)'
    BY DEF ResultInv
  <2>1. ResultOK(h) /\ at' # h /\ latch # h
    BY <1>2, <1>5, ConstantsOK DEF IInv, ResultInv
  <2>2. CASE result'[h] = result[h]
    BY <1>1, <1>2, <2>1, <2>2 DEF ResultOK
  <2>3. CASE result'[h] = "blocked" /\ failed' # {}
    BY <1>1, <1>2, <2>1, <2>3 DEF ResultOK
  <2>4. result'[h] = result[h] \/ (result'[h] = "blocked" /\ failed' # {})
    BY <1>3
  <2>5. QED
    BY <2>2, <2>3, <2>4
<1>12. ConvergeInv'
  BY <1>1, <1>2 DEF IInv, CleanInv, ConvergeInv
<1>13. QED
  BY <1>4, <1>6, <1>7, <1>8, <1>9, <1>10, <1>11, <1>12 DEF IInv

-----------------------------------------------------------------------------
(* The end of a run, and the fleet meanwhile. *)

(* A run that ends or dies leaves nothing but what it did to the fleet.    *)
LEMMA ForgetKeeps ==
  ASSUME IInv, ForgetRun, UNCHANGED <<fleetVars, runs>>, faults' \in 0..MaxFaults
  PROVE  IInv'
<1> USE DEF ForgetRun, fleetVars
<1>1. TypeOK'
  BY DEF IInv, TypeOK, Status
<1>2. PlanningInv' /\ Planning' /\ todo' = {}
  BY DEF PlanningInv, Planning
<1>3. IdleInv' /\ EarlyInv' /\ CommandInv' /\ CleanInv' /\ BarrierInv'
  BY DEF IdleInv, EarlyInv, CommandInv, CleanInv, BarrierInv
<1>4. PlanInv' /\ GuestInv' /\ SeenInv' /\ ReleaseInv'
  BY DEF IInv, PlanInv, GuestInv, SeenInv, State, ReleaseInv
<1>5. ResultInv'
  BY DEF ResultInv, ResultOK
<1>6. QED
  BY <1>1, <1>2, <1>3, <1>4, <1>5, NothingExecuted DEF IInv

(* A run that ends, or dies, forgets its facts.                            *)
LEMMA EndKeeps ==
  ASSUME IInv, EndRun \/ Die
  PROVE  IInv'
<1>1. CASE EndRun
  BY <1>1, ForgetKeeps DEF EndRun, IInv, TypeOK
<1>2. CASE Die
  BY <1>2, ForgetKeeps, FaultIsCounted DEF Die, IInv
<1>3. QED
  BY <1>1, <1>2

(* Work that begins or ends changes nothing else.                          *)
LEMMA JobKeeps ==
  ASSUME IInv, NEW h \in Host, StartJob(h) \/ EndJob(h)
  PROVE  IInv'
<1> USE DEF planVars, execVars
<1>1. UNCHANGED <<guest, runs, faults, phase, command, limit, targets, problem, lost, pending, seen,
                  before, plan, failed, at, todo, deferred, latch, rebuilt, after, result,
                  did, destroyed, killed, drifted, clean>>
  BY DEF StartJob, EndJob
<1>2. /\ job' \in [Host -> {"none", "early", "late"}]
      /\ \A g \in Host \ {h} : job'[g] = job[g]
      /\ job'[h] # "none" => guest[h].state = "running"
      /\ at = h /\ "busy" \notin todo => job'[h] # "early"
  BY DEF IInv, TypeOK, StartJob, EndJob
<1>3. TypeOK'
  BY <1>1, <1>2 DEF IInv, TypeOK
<1>4. IdleInv' /\ PlanningInv' /\ EarlyInv' /\ CommandInv' /\ CleanInv' /\ BusyWorkInv'
  BY <1>1 DEF IInv, IdleInv, PlanningInv, Planning, EarlyInv, CommandInv, CleanInv, BusyWorkInv
<1>5. BarrierInv' /\ AtInv' /\ WaitingInv'
  BY <1>1 DEF IInv, BarrierInv, Coordinates, AtInv, Acted, WaitingInv
<1>6. WorkingInv'
  BY <1>1 DEF IInv, WorkingInv, Working, Calls, HostSide, GuestSide, GuestInterruption, Check
<1>7. PlanInv' /\ SeenInv' /\ DestroyInv' /\ ReleaseInv' /\ DeedInv' /\ DeferredInv'
  BY <1>1 DEF IInv, PlanInv, Decide, Forbidden, EvidenceMissing, TransitionFor, Provisions,
              RebuildRequired, SeenInv, DestroyInv, ReleaseInv, DeedInv, DeferredInv
<1>8. GuestInv' /\ QuietInv'
  BY <1>1, <1>2 DEF IInv, GuestInv, QuietInv
<1>9. TrackInv'
  BY <1>1 DEF IInv, TrackInv, RebuildTrack, RemoveTrack, ProvisionTrack
<1>10. AfterInv' /\ ResultInv' /\ ConvergeInv'
  BY <1>1 DEF IInv, AfterInv, GuestSide, Check, ResultInv, ResultOK, ConvergeInv, Converged
<1>11. QED
  BY <1>3, <1>4, <1>5, <1>6, <1>7, <1>8, <1>9, <1>10 DEF IInv

(* Somebody stops or starts a guest.                                       *)
LEMMA OutsideChangeKeeps ==
  ASSUME IInv, NEW h \in Host, OutsideChange(h)
  PROVE  IInv'
<1> USE DEF planVars, execVars
<1>1. UNCHANGED <<runs, phase, command, limit, targets, problem, lost, pending, seen, before, plan,
                  failed, at, todo, deferred, latch, rebuilt, after, result, did, destroyed, killed>>
  BY DEF OutsideChange
<1>2. /\ guest' \in [Host -> [state : State, release : Release \cup {NoRelease}]]
      /\ \A g \in Host \ {h} : guest'[g] = guest[g] /\ job'[g] = job[g]
      /\ guest[h].state # "absent" /\ guest'[h].state # "absent"
      /\ guest'[h].release = guest[h].release /\ job'[h] = "none"
      /\ job' \in [Host -> {"none", "early", "late"}]
  BY DEF OutsideChange, SetState, IInv, TypeOK, State
<1>3. /\ \A g \in Host \ {h} : drifted'[g] = drifted[g]
      /\ phase \in {"idle", "compile"} => UNCHANGED <<drifted, clean>>
      /\ phase \notin {"idle", "compile"} =>
           /\ ~clean'
           /\ drifted'[h] = IF after[h] = NoObservation THEN "before" ELSE "after"
      /\ drifted[h] # "no" => drifted'[h] # "no"
      /\ drifted' \in [Host -> {"no", "before", "after"}] /\ clean' \in BOOLEAN
  BY DEF OutsideChange, IInv, TypeOK
<1>4. TypeOK'
  <2>1. faults' \in 0..MaxFaults
    BY FaultIsCounted DEF OutsideChange, IInv
  <2>2. QED
    BY <1>1, <1>2, <1>3, <2>1 DEF IInv, TypeOK
<1>5. IdleInv' /\ PlanningInv' /\ EarlyInv' /\ CommandInv' /\ CleanInv'
  BY <1>1, <1>3 DEF IInv, IdleInv, PlanningInv, Planning, EarlyInv, CommandInv, CleanInv
<1>6. BarrierInv' /\ AtInv' /\ WaitingInv'
  BY <1>1 DEF IInv, BarrierInv, Coordinates, AtInv, Acted, WaitingInv
<1>7. WorkingInv'
  BY <1>1 DEF IInv, WorkingInv, Working, Calls, HostSide, GuestSide, GuestInterruption, Check
<1>8. PlanInv' /\ DestroyInv' /\ DeferredInv'
  BY <1>1 DEF IInv, PlanInv, Decide, Forbidden, EvidenceMissing, TransitionFor, Provisions,
              RebuildRequired, DestroyInv, DeferredInv
<1>9. DeedInv' /\ BusyWorkInv'
  <2>1. \A g \in Host : drifted[g] # "no" => drifted'[g] # "no"
    BY <1>3
  <2>2. BusyWorkInv'
    BY <1>1, <2>1 DEF IInv, BusyWorkInv, TypeOK
  <2>3. DeedInv'
    BY <1>1, <2>1 DEF IInv, DeedInv
  <2>4. QED
    BY <2>2, <2>3
<1>10. GuestInv'
  BY <1>2 DEF IInv, GuestInv
<1>11. phase \in {"idle", "compile"} =>
         seen[h] = "unseen" /\ result[h] = "none" /\ at # h
  BY ConstantsOK DEF IInv, EarlyInv, PlanningInv, Planning
<1>12. phase \notin {"idle", "compile"} => drifted'[h] \in {"before", "after"}
  BY <1>3
<1>13. SeenInv'
  <2>1. seen[h] \in State => phase \notin {"idle", "compile"}
    BY <1>11 DEF State
  <2>2. QED
    BY <1>1, <1>2, <1>3, <1>12, <2>1 DEF IInv, SeenInv
<1>14. ReleaseInv'
  BY <1>1, <1>2 DEF IInv, ReleaseInv
<1>15. TrackInv'
  <2> SUFFICES ASSUME NEW g \in Host \ deferred, at = g, "busy" \notin todo, drifted'[g] = "no",
                      ~command.check
               PROVE  /\ plan[g].transition = "rebuild" => RebuildTrack(g)'
                      /\ plan[g].transition = "remove" => RemoveTrack(g)'
                      /\ plan[g].transition \in {"provision", "start"} => ProvisionTrack(g)'
    BY <1>1 DEF TrackInv
  <2>1. g # h
    BY <1>11, <1>12
  <2>2. guest'[g] = guest[g] /\ drifted[g] = "no"
    BY <1>2, <1>3, <2>1
  <2>3. QED
    BY <1>1, <2>2 DEF IInv, TrackInv, RebuildTrack, RemoveTrack, ProvisionTrack
<1>16. QuietInv'
  BY <1>1, <1>2, <1>3 DEF IInv, QuietInv
<1>17. AfterInv'
  <2>1. \A g \in Host : GuestSide(g)' <=> GuestSide(g)
    BY <1>1 DEF GuestSide, Check
  <2>2. ASSUME at = h, "busy" \notin todo, "configure" \notin todo, GuestSide(h)
        PROVE  drifted'[h] = "after"
    <3>1. Working(h)
      BY <2>2 DEF IInv, WorkingInv
    <3>2. Calls(h, h \in deferred, "configure") /\ "configure" \in Step \ todo
      BY <2>2 DEF Calls, Step
    <3>3. "reobserve" \notin todo
      BY <3>1, <3>2, Positions DEF Working
    <3>4. QED
      BY <1>3, <1>11, <2>2, <3>1, <3>3 DEF Working
  <2>3. QED
    BY <1>1, <1>2, <1>3, <2>1, <2>2 DEF IInv, AfterInv
<1>18. ResultInv'
  <2> SUFFICES ASSUME NEW g \in Host PROVE ResultOK(g)'
    BY DEF ResultInv
  <2>1. ResultOK(g)
    BY DEF IInv, ResultInv
  <2>2. CASE g = h
    BY <1>1, <1>2, <1>3, <1>11, <2>1, <2>2 DEF ResultOK
  <2>3. CASE g # h
    BY <1>1, <1>2, <1>3, <2>1, <2>3 DEF ResultOK
  <2>4. QED
    BY <2>2, <2>3
<1>19. ConvergeInv'
  BY <1>1, <1>3 DEF ConvergeInv
<1>20. QED
  BY <1>4, <1>5, <1>6, <1>7, <1>8, <1>9, <1>10, <1>13, <1>14, <1>15, <1>16, <1>17, <1>18, <1>19
     DEF IInv

-----------------------------------------------------------------------------
(* The invariant. *)

LEMMA StutterKeeps ==
  ASSUME IInv, UNCHANGED vars
  PROVE  IInv'
<1> USE DEF vars
<1>1. TypeOK' /\ IdleInv' /\ PlanningInv' /\ EarlyInv' /\ CommandInv' /\ CleanInv' /\ BusyWorkInv'
  BY DEF IInv, TypeOK, IdleInv, PlanningInv, Planning, EarlyInv, CommandInv, CleanInv, BusyWorkInv
<1>2. BarrierInv' /\ AtInv' /\ WaitingInv'
  BY DEF IInv, BarrierInv, Coordinates, AtInv, Acted, WaitingInv
<1>3. WorkingInv'
  BY DEF IInv, WorkingInv, Working, Calls, HostSide, GuestSide, GuestInterruption, Check
<1>4. PlanInv' /\ SeenInv' /\ DestroyInv' /\ ReleaseInv' /\ DeedInv' /\ DeferredInv' /\ GuestInv'
  BY DEF IInv, PlanInv, Decide, Forbidden, EvidenceMissing, TransitionFor, Provisions,
         RebuildRequired, SeenInv, DestroyInv, ReleaseInv, DeedInv, DeferredInv, GuestInv
<1>5. TrackInv' /\ QuietInv'
  BY DEF IInv, TrackInv, RebuildTrack, RemoveTrack, ProvisionTrack, QuietInv
<1>6. AfterInv' /\ ResultInv' /\ ConvergeInv'
  BY DEF IInv, AfterInv, GuestSide, Check, ResultInv, ResultOK, ConvergeInv, Converged
<1>7. QED
  BY <1>1, <1>2, <1>3, <1>4, <1>5, <1>6 DEF IInv

(* Every step of a target's execution.                                     *)
LEMMA ExecuteKeeps ==
  ASSUME IInv, NEW h \in Host, Execute(h)
  PROVE  IInv'
<1>1. TypeOK /\ GuestInv
  BY DEF IInv
<1>2. \A s \in Tasks : TypeOK' /\ TaskStep(h, s) => IInv'
  BY TaskKeeps
<1>3. {"stop", "destroy", "ensure", "start", "hostconfig", "reobserve", "access", "configure",
       "upgrade", "stacks", "reboot"} = Tasks
  BY DEF Tasks, Step
<1>4. CASE ExecuteTarget(h)
  BY <1>4, ExecuteTargetKeeps
<1>5. CASE BusyCheck(h)
  BY <1>5, BusyCheckKeeps
<1>6. CASE StopGuest(h)
  <2>1. ~Check
    BY <1>6, AtWork DEF StopGuest, Step
  <2>2. QED
    BY <1>1, <1>2, <1>3, <1>6, <2>1, StopIsTask
<1>7. CASE DestroyGuest(h)
  <2>1. ~Check
    BY <1>7, AtWork DEF DestroyGuest, Step
  <2>2. QED
    BY <1>1, <1>2, <1>3, <1>7, <2>1, DestroyIsTask
<1>8. CASE EnsureGuest(h)
  BY <1>1, <1>2, <1>3, <1>8, EnsureIsTask
<1>9. CASE StartGuest(h)
  BY <1>1, <1>2, <1>3, <1>9, StartIsTask
<1>10. CASE ReconcileHostConfig(h)
  BY <1>1, <1>2, <1>3, <1>10, HostConfigIsTask
<1>11. CASE Reobserve(h)
  <2>1. plan[h] # NoPlan
    BY <1>11, AtWork DEF Reobserve, Step
  <2>2. before[h] # NoObservation
    BY <2>1 DEF IInv, PlanInv
  <2>3. QED
    BY <1>1, <1>2, <1>3, <1>11, <2>1, <2>2, ReobserveIsTask
<1>12. CASE RestoreGuestAccess(h)
  BY <1>1, <1>2, <1>3, <1>12, AccessIsTask
<1>13. CASE ConfigureGuest(h)
  BY <1>1, <1>2, <1>3, <1>13, ConfigureIsTask
<1>14. CASE UpgradeGuest(h)
  BY <1>1, <1>2, <1>3, <1>14, UpgradeIsTask
<1>15. CASE RebootGuest(h)
  BY <1>1, <1>2, <1>3, <1>15, RebootIsTask
<1>16. CASE Publish(h)
  BY <1>16, PublishKeeps
<1>17. CASE SyncStacks(h)
  BY <1>1, <1>2, <1>3, <1>17, StacksIsTask
<1>18. QED
  BY <1>4, <1>5, <1>6, <1>7, <1>8, <1>9, <1>10, <1>11, <1>12, <1>13, <1>14, <1>15, <1>16, <1>17
     DEF Execute

(* Every step keeps the invariant.                                         *)
LEMMA NextKeeps == IInv /\ [Next]_vars => IInv'
<1> SUFFICES ASSUME IInv, [Next]_vars PROVE IInv'
  OBVIOUS
<1>1. ASSUME NEW c \in Commands, NEW S \in SUBSET Host, StartRun(c, S) PROVE IInv'
  BY <1>1, StartRunKeeps
<1>2. ASSUME NEW h \in Host, CompileTarget(h) \/ PlanTarget(h) \/ Execute(h) PROVE IInv'
  BY <1>2, CompileTargetKeeps, PlanTargetKeeps, ExecuteKeeps
<1>3. CASE CoordinatePreflight
  BY <1>3, CoordinatePreflightKeeps
<1>4. CASE PlanningBarrier
  BY <1>4, PlanningBarrierKeeps
<1>5. CASE Summarise
  BY <1>5, SummariseKeeps
<1>6. CASE EndRun \/ Die
  BY <1>6, EndKeeps
<1>7. ASSUME NEW h \in Host, StartJob(h) \/ EndJob(h) \/ OutsideChange(h) PROVE IInv'
  BY <1>7, JobKeeps, OutsideChangeKeeps
<1>8. CASE UNCHANGED vars
  BY <1>8, StutterKeeps
<1>9. QED
  BY <1>1, <1>2, <1>3, <1>4, <1>5, <1>6, <1>7, <1>8 DEF Next, Run

(* The inductive invariant holds of every run.                             *)
THEOREM InvHolds == Spec => []IInv
<1>1. QED
  BY InitInv, NextKeeps, PTL DEF Spec

-----------------------------------------------------------------------------
(* What follows from it. *)

(* The state is well typed: whatever fails, every task leaves a guest, a   *)
(* plan and a result of the kinds the roles know.                          *)
THEOREM TypeCorrect == Spec => []TypeOK
<1>1. IInv => TypeOK
  BY DEF IInv
<1>2. QED
  BY <1>1, InvHolds, PTL

(* The planning barrier: no guest is acted on in a run that a target left  *)
(* in the play has no valid plan in.                                       *)
THEOREM BarrierCorrect == Spec => []BarrierHolds
<1>1. IInv => BarrierHolds
  <2> SUFFICES ASSUME IInv, Acted, Coordinates, NEW t \in targets \ lost
               PROVE  t \notin problem /\ plan[t] # NoPlan
    BY DEF BarrierHolds
  <2>1. phase \in {"execute", "report", "aborted"} /\ failed = {}
    BY DEF IInv, TypeOK, PlanningInv, Planning, Acted, AtInv
  <2>2. QED
    BY <2>1 DEF IInv, BarrierInv
<1>2. QED
  BY <1>1, InvHolds, PTL

(* No run destroys a guest but under a plan that persistent policy allows, *)
(* and to be rebuilt only if the release that was destroyed is not the     *)
(* desired one.                                                            *)
THEOREM DestructionCorrect == Spec => []DestructionAuthorised
<1>1. IInv => DestructionAuthorised
  <2> SUFFICES ASSUME IInv, NEW h \in Host, destroyed[h] # NoRelease
               PROVE  /\ h \in Destructive /\ command.intent # "configure_only"
                      /\ h \in Present => h \in RebuildPolicy /\ destroyed[h] # Desired[h]
    BY DEF DestructionAuthorised
  <2>1. /\ plan[h] # NoPlan /\ plan[h].transition \in {"rebuild", "remove"}
        /\ plan[h].transition = "rebuild" => destroyed[h] = before[h].release
    BY DEF IInv, DestroyInv
  <2>2. command \in Command
    BY <2>1 DEF IInv, PlanInv, IdleInv, CommandInv
  <2>3. QED
    BY <2>1, <2>2, PlanFacts DEF IInv
<1>2. QED
  BY <1>1, InvHolds, PTL

(* What a run did to a guest is within its intent.                         *)
THEOREM IntentCorrect == Spec => []IntentKept
<1>1. IInv => IntentKept
  <2> SUFFICES ASSUME IInv, NEW h \in Host, did[h] # {}
               PROVE  /\ command.intent = "configure_only"
                           => did[h] \cap {"create", "start", "stop", "destroy"} = {}
                      /\ command.intent = "provision_only"
                           => /\ did[h] \cap {"configure", "upgrade", "recreate"} = {}
                              /\ "start" \in did[h] => "create" \in did[h] \/ drifted[h] # "no"
    BY DEF IntentKept
  <2>1. /\ plan[h] # NoPlan
        /\ {"stop", "destroy"} \cap did[h] # {} => plan[h].transition \in {"rebuild", "remove"}
        /\ "create" \in did[h] => plan[h].transition # "none"
        /\ "start" \in did[h] => plan[h].start
        /\ {"configure", "upgrade", "recreate"} \cap did[h] # {} => plan[h].configure
        /\ "start" \in did[h] /\ command.intent = "provision_only"
             => "create" \in did[h] \/ drifted[h] # "no"
    BY DEF IInv, DeedInv
  <2>2. command \in Command
    BY <2>1 DEF IInv, PlanInv, IdleInv, CommandInv
  <2>3. /\ command.intent = "configure_only" => plan[h].transition = "none" /\ ~plan[h].start
        /\ command.intent = "provision_only" => ~plan[h].configure
    BY <2>1, <2>2, PlanFacts DEF IInv
  <2>4. QED
    BY <2>1, <2>3
<1>2. QED
  BY <1>1, InvHolds, PTL

(* Work that was under way when its guest was asked is not interrupted,    *)
(* unless the invocation, the plan or somebody else says so.               *)
THEOREM BusyWorkCorrect == Spec => []BusyWorkSurvives
<1>1. IInv => BusyWorkSurvives
  BY DEF IInv, BusyWorkInv, BusyWorkSurvives
<1>2. QED
  BY <1>1, InvHolds, PTL

(* The control node a run is made on is touched only when it is included,  *)
(* and is then neither stopped, rebuilt, restarted nor upgraded; its       *)
(* stacks may be recreated.                                                *)
THEOREM OwnControlNodeCorrect == Spec => []OwnControlNodeStaysUp
<1>1. IInv => OwnControlNodeStaysUp
  <2> SUFFICES ASSUME IInv, Self \in Host, did[Self] # {}
               PROVE  command.self /\ did[Self] \subseteq {"access", "configure", "recreate"}
    BY DEF OwnControlNodeStaysUp
  <2>1. plan[Self] # NoPlan /\ Self \in targets
    BY DEF IInv, DeedInv, PlanInv
  <2>2. command.self
    BY <2>1 DEF IInv, IdleInv, CommandInv
  <2>3. QED
    BY <2>2 DEF IInv, DeedInv
<1>2. QED
  BY <1>1, InvHolds, PTL

(* What a finished run reports of a target is true.                        *)
THEOREM ResultsCorrect == Spec => []ResultsTruthful
<1>1. IInv => ResultsTruthful
  <2> SUFFICES ASSUME IInv, phase = "report", NEW t \in targets \ lost
               PROVE  /\ result[t] \in {"planning_failed", "blocked", "not_executed", "checked"}
                           => did[t] = {}
                      /\ result[t] = "execution_failed" => latch = t
                      /\ result[t] \in {"removed", "absent"} => guest[t].state = "absent"
                      /\ result[t] = "ensured" => guest[t].state # "absent"
                      /\ result[t] = "configured" /\ drifted[t] # "after"
                           => guest[t].state = "running"
                      /\ result[t] = "configured" /\ t \in RebuildPolicy \ deferred
                           => \/ guest[t].release = Desired[t]
                              \/ plan[t].transition = "rebuild" /\ drifted[t] # "no"
    BY DEF ResultsTruthful
  <2>1. ResultOK(t)
    BY DEF IInv, TypeOK, ResultInv
  <2>2. QED
    BY <2>1 DEF ResultOK
<1>2. QED
  BY <1>1, InvHolds, PTL

(* A full run in which nothing goes wrong brings every target that was not *)
(* deferred to its desired state.                                          *)
THEOREM ConvergenceCorrect == Spec => []CleanRunConverges
<1>1. IInv => CleanRunConverges
  <2> SUFFICES ASSUME IInv, phase = "report", clean, problem = {}, command.intent = "full",
                      ~Check, NEW t \in targets \ deferred
               PROVE  Converged(t)
    BY DEF CleanRunConverges, Converged
  <2>1. pending = {} /\ at # t
    BY ConstantsOK DEF IInv, AtInv, TypeOK
  <2>2. QED
    BY <2>1 DEF IInv, ConvergeInv, Check
<1>2. QED
  BY <1>1, InvHolds, PTL

(* Once a target's execution has failed, nothing more is done to any guest *)
(* in the run.                                                             *)
THEOREM FailFastCorrect == Spec => FailFast
<1>1. IInv /\ [Next]_vars => [latch # NoHost => did' = did \/ phase' = "idle"]_vars
  <2> SUFFICES ASSUME IInv, Next, latch # NoHost
               PROVE  did' = did \/ phase' = "idle"
    BY DEF vars
  <2>1. at = NoHost /\ todo = {}
    BY DEF IInv, AtInv
  <2>2. ASSUME NEW h \in Host, Execute(h) PROVE did' = did
    BY <2>1, <2>2 DEF Execute, ExecuteTarget, BusyCheck, StopGuest, DestroyGuest, EnsureGuest,
                      StartGuest, ReconcileHostConfig, Reobserve, RestoreGuestAccess,
                      ConfigureGuest, UpgradeGuest, SyncStacks, RebootGuest, Publish, Due
  <2>3. ASSUME NEW h \in Host, CompileTarget(h) \/ PlanTarget(h) PROVE did' = did
    BY <2>3 DEF CompileTarget, PlanTarget
  <2>4. CASE CoordinatePreflight \/ PlanningBarrier \/ Summarise
    BY <2>4 DEF CoordinatePreflight, PlanningBarrier, Summarise
  <2>5. CASE EndRun \/ Die
    BY <2>5 DEF EndRun, Die, ForgetRun
  <2>6. ASSUME NEW c \in Commands, NEW S \in SUBSET Host, StartRun(c, S) PROVE did' = did
    BY <2>6 DEF StartRun
  <2>7. ASSUME NEW h \in Host, StartJob(h) \/ EndJob(h) \/ OutsideChange(h) PROVE did' = did
    BY <2>7 DEF StartJob, EndJob, OutsideChange
  <2>8. QED
    BY <2>2, <2>3, <2>4, <2>5, <2>6, <2>7 DEF Next, Run
<1>2. QED
  BY <1>1, InvHolds, PTL DEF Spec, FailFast
=============================================================================
