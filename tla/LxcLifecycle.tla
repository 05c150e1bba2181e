----------------------------- MODULE LxcLifecycle -----------------------------
(***************************************************************************)
(* A lifecycle run, playbooks/lifecycle-lxcs.yml with the role             *)
(* provisioning/proxmox_lxc_lifecycle: compile every target, observe the   *)
(* fleet once, plan every target, and only if all of that succeeds act on  *)
(* the targets one at a time, stopping at the first failure.  Runs follow  *)
(* one another (LiveExecution keeps them apart); the guests stay.          *)
(*                                                                         *)
(* Any task may fail, with or without its effect; ssh to the Proxmox host  *)
(* or a guest may drop, which no rescue catches: Ansible removes the host  *)
(* from the play.  The run may be killed, and guests may be stopped and    *)
(* started behind its back.                                                *)
(*                                                                         *)
(* Left out: what a contract says beyond presence and release, the         *)
(* validate_only intent (validate.sh's own composition), fleet preflight's *)
(* rules (only their verdicts), the content of host and guest              *)
(* configuration, and the cleanup of cached facts after a rebuild.         *)
(***************************************************************************)
EXTENDS Naturals, FiniteSets

CONSTANTS
  Host,          \* the managed LXCs
  Self,          \* the one the run is made on, or a value outside Host
  Rank,          \* Rank[h]: h's place in the inventory
  Present,       \* desired state present; the others are to be removed
  Desired,       \* Desired[h]: the release of its template
  RebuildPolicy, \* rebuild_on_release_mismatch
  Destructive,   \* allow_destructive_transitions
  DockerEnabled, \* docker_enabled: the hosts of stacks
  Release,       \* guest releases
  Commands,      \* the run.sh invocations that may be made
  MaxRuns,       \* bound on runs
  MaxFaults,     \* bound on failures, drops, deaths and outside changes
  NoHost, NoRelease, NoPlan, NoObservation, NoCommand

Intent == {"full", "provision_only", "configure_only"}

(* --check, --interrupt-busy, --include-controller; run.sh refuses the     *)
(* last two together.                                                      *)
Command ==
  {c \in [intent : Intent, check : BOOLEAN, override : BOOLEAN, self : BOOLEAN] :
     ~(c.override /\ c.self)}

State == {"absent", "stopped", "running"}
Transition == {"none", "provision", "start", "rebuild", "remove"}

ASSUME ConstantsOK ==
  /\ Desired \in [Host -> Release]
  /\ Rank \in [Host -> Nat] /\ \A g, h \in Host : Rank[g] = Rank[h] => g = h
  /\ Present \subseteq Host /\ RebuildPolicy \subseteq Host /\ Destructive \subseteq Host
  /\ DockerEnabled \subseteq Host
  /\ Commands \subseteq Command
  /\ Self \notin {NoHost} /\ NoHost \notin Host /\ NoRelease \notin Release
  /\ MaxRuns \in Nat /\ MaxFaults \in Nat

VARIABLES
  guest,      \* guest[h]: the container on the Proxmox host
  job,        \* job[h]: work in it that a busy check would report
  runs, faults,
  phase,      \* the play of lifecycle-lxcs.yml that runs
  command,    \* the invocation
  limit,      \* the hosts of the plays: lxcs under --limit
  targets,    \* proxmox_lifecycle_target_hosts
  pending,    \* the hosts that have not done the current play
  lost,       \* the hosts that became unreachable
  problem,    \* the targets with a planning problem
  failed,     \* proxmox_lifecycle_failed_target_hosts
  seen,       \* seen[h]: fleet preflight's observation
  before, after,      \* the lifecycle observations
  plan,       \* plan[h]: proxmox_lxc_lifecycle_plan
  result,     \* result[h]: the status in lxc_lifecycle_result
  at,         \* the target being executed
  todo,       \* the steps its execution still has to make
  deferred,   \* the hosts whose busy check said so (host_deferred)
  latch,      \* proxmox_lifecycle_execution_failure
  rebuilt,    \* proxmox_lifecycle_rebuilt
  did,        \* history: what the run did to each host
  destroyed,  \* history: the release of the container it destroyed
  killed,     \* history: hosts whose work from before the check it ended
  drifted,    \* history: drifted[h]: whether someone else changed h since preflight
              \* looked ("before"), or since the run last looked ("after")
  clean       \* history: no fault so far in this run

fleetVars == <<guest, job>>
planVars == <<command, limit, targets, problem, seen, before, plan>>
execVars == <<failed, at, todo, deferred, latch, rebuilt, after, result>>
effectVars == <<guest, job, did, destroyed, killed>>
vars == <<guest, job, runs, faults, phase, command, limit, targets, pending, lost,
          problem, failed, seen, before, after, plan, result, at, todo, deferred, latch, rebuilt,
          did, destroyed, killed, drifted, clean>>

Step == {"busy", "stop", "destroy", "ensure", "start", "hostconfig", "reobserve",
         "access", "configure", "upgrade", "stacks", "reboot", "publish"}

(* The order of the tasks in execute.yml, provision.yml and configure.yml. *)
Position ==
  [s \in Step |->
     CASE s = "busy" -> 1 [] s = "stop" -> 2 [] s = "destroy" -> 3 [] s = "ensure" -> 4
       [] s = "start" -> 5 [] s = "hostconfig" -> 6 [] s = "reobserve" -> 7
       [] s = "access" -> 8 [] s = "configure" -> 9 [] s = "upgrade" -> 10
       [] s = "stacks" -> 11 [] s = "reboot" -> 12 [] s = "publish" -> 13]

Observation ==
  [state : State, release : Release \cup {NoRelease},
   probe : {"probed", "probe_failed", "absent", "skipped_stopped", "not_applicable"}]

Plan == [transition : Transition, reconcile : BOOLEAN, access : BOOLEAN,
         start : BOOLEAN, configure : BOOLEAN]

ASSUME NonesOK ==
  NoPlan \notin Plan /\ NoObservation \notin Observation /\ NoCommand \notin Command

Status == {"none", "planned", "planning_failed", "blocked", "not_executed",
           "execution_failed", "checked", "removed", "absent", "skipped",
           "ensured", "configured"}

Deed == {"create", "start", "stop", "destroy", "reboot", "hostconfig", "access",
         "configure", "upgrade", "recreate"}

TypeOK ==
  /\ guest \in [Host -> [state : State, release : Release \cup {NoRelease}]]
  /\ job \in [Host -> {"none", "early", "late"}]
  /\ runs \in 0..MaxRuns /\ faults \in 0..MaxFaults
  /\ phase \in {"idle", "compile", "plan", "execute", "report", "aborted"}
  /\ command \in Command \cup {NoCommand}
  /\ limit \in SUBSET Host /\ targets \in SUBSET limit
  /\ pending \in SUBSET targets /\ lost \in SUBSET targets
  /\ problem \in SUBSET targets /\ failed \in SUBSET targets
  /\ seen \in [Host -> State \cup {"unseen", "identity_conflict", "preflight_failed"}]
  /\ before \in [Host -> Observation \cup {NoObservation}]
  /\ after \in [Host -> Observation \cup {NoObservation}]
  /\ plan \in [Host -> Plan \cup {NoPlan}]
  /\ result \in [Host -> Status]
  /\ at \in targets \cup {NoHost} /\ todo \in SUBSET Step
  /\ deferred \in SUBSET targets /\ rebuilt \in SUBSET targets
  /\ latch \in targets \cup {NoHost}
  /\ did \in [Host -> SUBSET Deed]
  /\ destroyed \in [Host -> Release \cup {NoRelease}]
  /\ killed \in SUBSET targets
  /\ drifted \in [Host -> {"no", "before", "after"}]
  /\ clean \in BOOLEAN

Absent == [state |-> "absent", release |-> NoRelease]

Init ==
  /\ guest \in [Host -> {Absent} \cup [state : {"stopped", "running"}, release : Release]]
  /\ Self \in Host => guest[Self].state = "running"
  /\ job = [h \in Host |-> "none"]
  /\ runs = 0 /\ faults = 0
  /\ phase = "idle" /\ command = NoCommand
  /\ limit = {} /\ targets = {} /\ pending = {} /\ lost = {}
  /\ problem = {} /\ failed = {}
  /\ seen = [h \in Host |-> "unseen"]
  /\ before = [h \in Host |-> NoObservation]
  /\ after = [h \in Host |-> NoObservation]
  /\ plan = [h \in Host |-> NoPlan]
  /\ result = [h \in Host |-> "none"]
  /\ at = NoHost /\ todo = {} /\ deferred = {} /\ latch = NoHost /\ rebuilt = {}
  /\ did = [h \in Host |-> {}]
  /\ destroyed = [h \in Host |-> NoRelease]
  /\ killed = {} /\ drifted = [h \in Host |-> "no"] /\ clean = TRUE

Fault == faults < MaxFaults /\ faults' = faults + 1 /\ clean' = FALSE
NoFault == UNCHANGED <<faults, clean>>

-----------------------------------------------------------------------------
(* Planning. *)

(* The plays run on the hosts of S.  Its own control node is not a target  *)
(* unless --include-controller is given, which limits the run to it.       *)
StartRun(c, S) ==
  /\ phase = "idle" /\ runs < MaxRuns
  /\ S # {} /\ (c.self => S = {Self})
  /\ runs' = runs + 1
  /\ phase' = "compile" /\ command' = c /\ limit' = S
  /\ targets' = IF c.self THEN S ELSE S \ {Self}
  /\ pending' = targets'
  /\ job' = [h \in Host |-> IF job[h] = "late" THEN "early" ELSE job[h]]
  /\ UNCHANGED <<guest, faults, lost, problem, seen, before, plan, execVars,
                 did, destroyed, killed, drifted, clean>>

(* A run_once play is skipped when its condition, proxmox_lifecycle_selected, *)
(* does not hold of the first host that is left in the play.                *)
Coordinates ==
  \E h \in targets \ lost : \A g \in limit \ lost : Rank[h] <= Rank[g]

(* Credentials and contract; a failure is recorded, not raised. *)
CompileTarget(h) ==
  /\ phase = "compile" /\ h \in pending
  /\ pending' = pending \ {h}
  /\ \/ NoFault /\ UNCHANGED problem
     \/ Fault /\ problem' = problem \cup {h}
  /\ UNCHANGED <<fleetVars, runs, phase, command, limit, targets, lost, seen, before,
                 plan, execVars, did, destroyed, killed, drifted>>

(* One observation of Proxmox for every compiled target.  A conflict of    *)
(* VMID or hostname concerns a target; no access concerns them all.        *)
CoordinatePreflight ==
  /\ phase = "compile" /\ pending = {}
  /\ LET compiled == targets \ problem
         Observed(h) == IF h \in compiled THEN guest[h].state ELSE "unseen"
     IN \/ /\ ~Coordinates /\ NoFault /\ UNCHANGED seen
        \/ /\ Coordinates /\ NoFault
           /\ seen' = [h \in Host |-> Observed(h)]
        \/ /\ Coordinates /\ Fault
           /\ \E c \in compiled :
                seen' = [h \in Host |-> IF h = c THEN "identity_conflict" ELSE Observed(h)]
        \/ /\ Coordinates /\ Fault
           /\ seen' = [h \in Host |-> IF h \in compiled THEN "preflight_failed" ELSE "unseen"]
  /\ phase' = "plan" /\ pending' = targets
  /\ UNCHANGED <<fleetVars, runs, command, limit, targets, lost, problem, before, plan,
                 execVars, did, destroyed, killed, drifted>>

(* probe_lxc_release.yml runs a command in the guest as it is now. *)
Probes(h, state) ==
  {[state |-> state, release |-> NoRelease, probe |-> "probe_failed"]}
    \cup IF guest[h].state = "running"
         THEN {[state |-> state, release |-> guest[h].release, probe |-> "probed"]} ELSE {}

(* inspect.yml: preflight's state, and the release if the target should    *)
(* be there and runs.                                                      *)
Observations(h) ==
  IF h \notin Present
    THEN {[state |-> seen[h], release |-> NoRelease, probe |-> "not_applicable"]}
  ELSE IF seen[h] = "running" THEN Probes(h, "running")
  ELSE {[state |-> seen[h], release |-> NoRelease,
         probe |-> IF seen[h] = "stopped" THEN "skipped_stopped" ELSE "absent"]}

(* validate_state.yml: the rebuild policy wants the release known. *)
EvidenceMissing(h, obs) ==
  h \in RebuildPolicy /\ h \in Present /\ obs.state # "absent" /\ obs.probe # "probed"

RebuildRequired(h, obs) ==
  /\ h \in Present /\ h \in RebuildPolicy
  /\ obs.probe = "probed" /\ obs.release # Desired[h]

Provisions == command.intent \in {"provision_only", "full"}

TransitionFor(h, obs) ==
  IF command.intent = "configure_only" /\ RebuildRequired(h, obs) THEN "rebuild"
  ELSE IF ~Provisions \/ (h \notin Present /\ obs.state = "absent") THEN "none"
  ELSE IF RebuildRequired(h, obs) THEN "rebuild"
  ELSE IF h \in Present /\ command.intent = "full" /\ obs.state = "stopped" THEN "start"
  ELSE IF h \in Present THEN "provision"
  ELSE "remove"

(* Mutant: a rebuilt guest is left as it was created. *)
Decide_RebuiltNotStarted(h, obs) ==
  LET transition == TransitionFor(h, obs)
      prepare == h \in Present /\ (Provisions \/ obs.state # "absent")
  IN [transition |-> transition,
      reconcile |-> prepare,
      access |-> prepare,
      start |-> transition = "start" \/ (transition = "provision" /\ obs.state = "absent"),
      configure |-> command.intent # "provision_only" /\ h \in Present]

(* decide.yml. *)
Decide(h, obs) ==
  LET transition == TransitionFor(h, obs)
      prepare == h \in Present /\ (Provisions \/ obs.state # "absent")
  IN [transition |-> transition,
      reconcile |-> prepare,
      access |-> prepare /\ ~(command.intent = "provision_only" /\ obs.state = "stopped"
                                /\ transition # "rebuild"),
      start |-> \/ transition \in {"rebuild", "start"}
                \/ transition = "provision" /\ obs.state = "absent",
      configure |-> command.intent # "provision_only" /\ h \in Present]

(* Mutant: only removals need the policy. *)
Forbidden_RemovalsOnly(h, obs, p) ==
  \/ /\ command.intent = "configure_only"
     /\ h \notin Present \/ obs.state # "running" \/ p.transition = "rebuild"
  \/ p.transition = "remove" /\ h \notin Destructive

(* Mutant: configure-only may rebuild where the policy allows it. *)
Forbidden_IgnoresIntent(h, obs, p) ==
  p.transition \in {"rebuild", "remove"} /\ h \notin Destructive

(* The constraints at the end of decide.yml. *)
Forbidden(h, obs, p) ==
  \/ /\ command.intent = "configure_only"
     /\ h \notin Present \/ obs.state # "running" \/ p.transition = "rebuild"
  \/ p.transition \in {"rebuild", "remove"} /\ h \notin Destructive

(* A target that already has a problem, or that preflight refused or did   *)
(* not observe, gets no plan, whatever proxmox_validation_strict says.  The release probe    *)
(* goes through ssh to the Proxmox host.                                   *)
PlanTarget(h) ==
  /\ phase = "plan" /\ h \in pending
  /\ pending' = pending \ {h}
  /\ IF h \in problem \/ seen[h] \in {"unseen", "identity_conflict", "preflight_failed"}
       THEN /\ problem' = problem \cup {h}
            /\ result' = [result EXCEPT ![h] = "planning_failed"]
            /\ NoFault /\ UNCHANGED <<lost, before, plan>>
     ELSE \/ \E obs \in Observations(h) :
               LET p == Decide(h, obs)
               IN /\ before' = [before EXCEPT ![h] = obs]
                  /\ IF obs.probe = "probe_failed" /\ guest[h].state = "running"
                       THEN Fault ELSE NoFault
                  /\ IF EvidenceMissing(h, obs) \/ Forbidden(h, obs, p)
                       THEN /\ problem' = problem \cup {h}
                            /\ result' = [result EXCEPT ![h] = "planning_failed"]
                            /\ UNCHANGED plan
                       ELSE /\ plan' = [plan EXCEPT ![h] = p]
                            /\ result' = [result EXCEPT ![h] = "planned"]
                            /\ UNCHANGED problem
                  /\ UNCHANGED lost
          \/ /\ h \in Present /\ seen[h] = "running"
             /\ Fault /\ lost' = lost \cup {h}
             /\ UNCHANGED <<problem, before, plan, result>>
  /\ UNCHANGED <<fleetVars, runs, phase, command, limit, targets, seen, failed, at, todo, deferred,
                 latch, rebuilt, after, did, destroyed, killed, drifted>>

-----------------------------------------------------------------------------
(* The barrier. *)

(* Mutant: the execution play forgets the limit. *)
PlanningBarrier_EveryHost ==
  /\ phase = "plan" /\ pending = {}
  /\ phase' = IF limit \subseteq lost THEN "aborted" ELSE "execute"
  /\ failed' = IF Coordinates THEN problem ELSE {}
  /\ result' = [h \in Host |->
                  IF h \in targets \ lost /\ result[h] = "planned" /\ failed' # {}
                  THEN "blocked" ELSE result[h]]
  /\ pending' = Host \ lost
  /\ UNCHANGED <<fleetVars, runs, planVars, lost, at, todo, deferred, latch, rebuilt,
                 after, did, destroyed, killed, drifted, faults, clean>>

(* coordinate_barrier.yml reads the facts of every target; a host that is  *)
(* no longer in the play is neither asked nor told.  Without any host left *)
(* the playbook ends.                                                      *)
PlanningBarrier ==
  /\ phase = "plan" /\ pending = {}
  /\ phase' = IF limit \subseteq lost THEN "aborted" ELSE "execute"
  /\ failed' = IF Coordinates THEN problem ELSE {}
  /\ result' = [h \in Host |->
                  IF h \in targets \ lost /\ result[h] = "planned" /\ failed' # {}
                  THEN "blocked" ELSE result[h]]
  /\ pending' = targets \ lost
  /\ UNCHANGED <<fleetVars, runs, planVars, lost, at, todo, deferred, latch, rebuilt,
                 after, did, destroyed, killed, drifted, faults, clean>>

-----------------------------------------------------------------------------
(* Execution, serial: 1. *)

Check == command.check

(* Mutant: the latch is not read. *)
ExecuteTarget_IgnoresLatch(h) ==
  /\ phase = "execute" /\ at = NoHost /\ h \in pending
  /\ \A g \in pending : Rank[h] <= Rank[g]
  /\ pending' = pending \ {h}
  /\ IF failed # {} THEN UNCHANGED <<at, todo, result>>
     ELSE at' = h /\ todo' = {"busy"} /\ UNCHANGED result
  /\ UNCHANGED <<fleetVars, runs, phase, planVars, lost, failed, deferred, latch,
                 rebuilt, after, did, destroyed, killed, drifted, faults, clean>>

(* Mutant: a target's own plan is enough. *)
ExecuteTarget_IgnoresBarrier(h) ==
  /\ phase = "execute" /\ at = NoHost /\ h \in pending
  /\ \A g \in pending : Rank[h] <= Rank[g]
  /\ pending' = pending \ {h}
  /\ IF h \in failed THEN UNCHANGED <<at, todo, result>>
     ELSE IF latch # NoHost
       THEN /\ result' = [result EXCEPT ![h] = "not_executed"]
            /\ UNCHANGED <<at, todo>>
     ELSE at' = h /\ todo' = {"busy"} /\ UNCHANGED result
  /\ UNCHANGED <<fleetVars, runs, phase, planVars, lost, failed, deferred, latch,
                 rebuilt, after, did, destroyed, killed, drifted, faults, clean>>

(* execute.yml takes up the next target in inventory order. *)
ExecuteTarget(h) ==
  /\ phase = "execute" /\ at = NoHost /\ h \in pending
  /\ \A g \in pending : Rank[h] <= Rank[g]
  /\ pending' = pending \ {h}
  /\ IF failed # {} THEN UNCHANGED <<at, todo, result>>
     ELSE IF latch # NoHost
       THEN /\ result' = [result EXCEPT ![h] = "not_executed"]
            /\ UNCHANGED <<at, todo>>
     ELSE at' = h /\ todo' = {"busy"} /\ UNCHANGED result
  /\ UNCHANGED <<fleetVars, runs, phase, planVars, lost, failed, deferred, latch,
                 rebuilt, after, did, destroyed, killed, drifted, faults, clean>>

(* Mutant: a deferred host loses its rebuild, but not its restarts. *)
HostSide_RestartsDeferred(h, d) == plan[h].reconcile \/ (~d /\ plan[h].transition # "none")

(* Host-side actions are skipped whole on a deferred host.  So are the     *)
(* guest's upgrade, runtime configuration and reboot.                      *)
HostSide(h, d) == ~d /\ (plan[h].transition # "none" \/ plan[h].reconcile)

GuestSide(h) == plan[h].configure /\ ~(Check /\ before[h].state # "running")

(* Mutant: packages are upgraded on a deferred host. *)
GuestInterruption_Always(h, d) == GuestSide(h)

GuestInterruption(h, d) == GuestSide(h) /\ ~d

(* h's execution makes step s once its busy check said d.  The host's own  *)
(* deferral does not hold its stacks back.                                 *)
Calls(h, d, s) ==
  \/ s \in {"reobserve", "publish"}
  \/ /\ HostSide(h, d)
     /\ \/ s = "stop" /\ ~Check /\ plan[h].transition \in {"rebuild", "remove"}
        \/ s = "destroy" /\ ~Check /\ plan[h].transition = "rebuild"
        \/ s = "ensure" /\ plan[h].transition # "none"
        \/ s = "start" /\ plan[h].start
        \/ s = "hostconfig" /\ plan[h].reconcile
  \/ s = "access" /\ plan[h].access
  \/ s = "configure" /\ GuestSide(h)
  \/ s = "stacks" /\ GuestSide(h) /\ h \in DockerEnabled
  \/ s \in {"upgrade", "reboot"} /\ GuestInterruption(h, d)

(* s is the step that h's execution has reached. *)
Due(h, s) ==
  /\ phase = "execute" /\ at = h /\ s \in todo
  /\ \A t \in todo : Position[s] <= Position[t]

Completes(s) ==
  /\ todo' = todo \ {s}
  /\ UNCHANGED <<at, latch, result, lost, phase, pending>>

(* The rescue of execute.yml. *)
Fails(h) ==
  /\ result' = [result EXCEPT ![h] = "execution_failed"]
  /\ latch' = h
  /\ at' = NoHost /\ todo' = {}
  /\ UNCHANGED <<lost, phase, pending>>

(* An unreachable host is not rescued, and the batch of one it was in has  *)
(* failed as a whole: the playbook ends without its summary.               *)
Unreachable(h) ==
  /\ lost' = lost \cup {h}
  /\ at' = NoHost /\ todo' = {}
  /\ phase' = "aborted" /\ pending' = {}
  /\ UNCHANGED <<result, latch>>

(* A task succeeds with its effect, or fails with or without it; it cannot *)
(* succeed when its precondition does not hold.                            *)
Attempt(h, s, possible, Effect) ==
  \/ possible /\ Effect /\ Completes(s) /\ NoFault
  \/ ~possible /\ Fails(h) /\ NoFault /\ UNCHANGED effectVars
  \/ possible /\ Effect /\ Fails(h) /\ Fault
  \/ possible /\ Fails(h) /\ Fault /\ UNCHANGED effectVars

(* The same through ssh. *)
AttemptBySsh(h, s, possible, Effect) ==
  \/ Attempt(h, s, possible, Effect)
  \/ possible /\ Effect /\ Unreachable(h) /\ Fault
  \/ possible /\ Unreachable(h) /\ Fault /\ UNCHANGED effectVars

Unexecuted == <<runs, planVars, failed, drifted>>

-----------------------------------------------------------------------------
(* What the tasks do to a guest. *)

Does(h, deeds) == did' = [did EXCEPT ![h] = @ \cup deeds]

EndsWork(h) ==
  /\ job' = [job EXCEPT ![h] = "none"]
  /\ killed' = killed \cup (IF job[h] = "early" THEN {h} ELSE {})

KeepsWork == UNCHANGED <<job, killed>>

SetState(h, s) == guest' = [guest EXCEPT ![h].state = s]

UnlessCheck(Effect) == IF Check THEN UNCHANGED effectVars ELSE Effect

Stops(h) ==
  IF guest[h].state = "running"
    THEN SetState(h, "stopped") /\ EndsWork(h) /\ Does(h, {"stop"}) /\ UNCHANGED destroyed
    ELSE UNCHANGED effectVars

(* The module reports ok without destroying a guest that runs. *)
Destroys(h) ==
  IF guest[h].state = "stopped"
    THEN /\ guest' = [guest EXCEPT ![h] = Absent]
         /\ destroyed' = [destroyed EXCEPT ![h] = guest[h].release]
         /\ KeepsWork /\ Does(h, {"destroy"})
    ELSE UNCHANGED effectVars

Creates(h) ==
  IF guest[h].state = "absent"
    THEN /\ guest' = [guest EXCEPT ![h] = [state |-> "stopped", release |-> Desired[h]]]
         /\ KeepsWork /\ Does(h, {"create"}) /\ UNCHANGED destroyed
    ELSE UNCHANGED effectVars

Starts(h) ==
  IF guest[h].state = "stopped"
    THEN SetState(h, "running") /\ KeepsWork /\ Does(h, {"start"}) /\ UNCHANGED destroyed
    ELSE UNCHANGED effectVars

(* Host configuration, with the restart that some changes require. *)
Reconciles(h) ==
  /\ UNCHANGED <<guest, destroyed>>
  /\ \/ KeepsWork /\ Does(h, {"hostconfig"})
     \/ guest[h].state = "running" /\ EndsWork(h) /\ Does(h, {"hostconfig", "reboot"})

(* A task of the guest that may restart its services. *)
MayRestart(h, deed) ==
  /\ UNCHANGED <<guest, destroyed>>
  /\ Does(h, {deed})
  /\ KeepsWork \/ EndsWork(h)

-----------------------------------------------------------------------------
(* The steps of execute.yml. *)

(* The gate asks only a guest that preflight saw running and that is not   *)
(* to be removed.                                                          *)
Asked(h) ==
  before[h].state = "running" /\ plan[h].transition # "remove" /\ ~command.override /\ ~Check

(* No answer counts as busy.  The tasks of a target that has no plan       *)
(* cannot be evaluated.                                                    *)
BusyCheck(h) ==
  /\ Due(h, "busy")
  /\ \/ /\ plan[h] = NoPlan
        /\ Fails(h) /\ UNCHANGED deferred
     \/ /\ plan[h] # NoPlan
        /\ \E d \in BOOLEAN :
             /\ command.self \/ (Asked(h) /\ job[h] # "none") => d
             /\ d => command.self \/ Asked(h)
             /\ deferred' = IF d THEN deferred \cup {h} ELSE deferred
             /\ todo' = {s \in Step : Calls(h, d, s)}
        /\ UNCHANGED <<phase, pending, lost, at, latch, result>>
  /\ NoFault
  /\ UNCHANGED <<effectVars, Unexecuted, rebuilt, after>>

StopGuest(h) ==
  /\ Due(h, "stop")
  /\ Attempt(h, "stop", TRUE, Stops(h))
  /\ UNCHANGED <<Unexecuted, deferred, rebuilt, after>>

DestroyGuest(h) ==
  /\ Due(h, "destroy")
  /\ Attempt(h, "destroy", TRUE, Destroys(h))
  /\ rebuilt' = IF latch' = h THEN rebuilt ELSE rebuilt \cup {h}
  /\ UNCHANGED <<Unexecuted, deferred, after>>

(* proxmox_lxc_provision: create, leave alone, or remove. *)
EnsureGuest(h) ==
  /\ Due(h, "ensure")
  /\ Attempt(h, "ensure", TRUE, UnlessCheck(IF h \in Present THEN Creates(h) ELSE Destroys(h)))
  /\ UNCHANGED <<Unexecuted, deferred, rebuilt, after>>

StartGuest(h) ==
  /\ Due(h, "start")
  /\ Attempt(h, "start", Check \/ guest[h].state # "absent", UnlessCheck(Starts(h)))
  /\ UNCHANGED <<Unexecuted, deferred, rebuilt, after>>

(* A restart that is cut short leaves the guest stopped. *)
ReconcileHostConfig(h) ==
  /\ Due(h, "hostconfig")
  /\ \/ AttemptBySsh(h, "hostconfig", Check \/ guest[h].state # "absent",
                     UnlessCheck(Reconciles(h)))
     \/ /\ ~Check /\ guest[h].state = "running"
        /\ Fault /\ Fails(h)
        /\ SetState(h, "stopped") /\ EndsWork(h) /\ Does(h, {"hostconfig", "reboot"})
        /\ UNCHANGED destroyed
  /\ UNCHANGED <<Unexecuted, deferred, rebuilt, after>>

(* The observation of the guest as it is now, its release included. *)
Refreshed(h) ==
  IF guest[h].state = "running" THEN Probes(h, "running")
  ELSE {[state |-> guest[h].state, release |-> NoRelease,
         probe |-> IF guest[h].state = "stopped" THEN "skipped_stopped" ELSE "absent"]}

Reobserve(h) ==
  /\ Due(h, "reobserve")
  /\ LET active == ~Check /\ (plan[h].transition # "none" \/ plan[h].reconcile)
     IN \/ /\ ~active /\ Completes("reobserve") /\ NoFault
           /\ after' = [after EXCEPT ![h] = before[h]]
        \/ /\ active /\ Completes("reobserve")
           /\ \E obs \in Refreshed(h) :
                /\ after' = [after EXCEPT ![h] = obs]
                /\ IF obs.probe = "probe_failed" THEN Fault ELSE NoFault
        \/ active /\ Fault /\ (Fails(h) \/ Unreachable(h)) /\ UNCHANGED after
  /\ UNCHANGED <<effectVars, Unexecuted, deferred, rebuilt>>

(* The key injector skips a guest that is absent or stopped. *)
RestoreGuestAccess(h) ==
  /\ Due(h, "access")
  /\ AttemptBySsh(h, "access", TRUE,
       IF Check \/ guest[h].state # "running" THEN UNCHANGED effectVars
       ELSE Does(h, {"access"}) /\ UNCHANGED <<guest, job, destroyed, killed>>)
  /\ UNCHANGED <<Unexecuted, deferred, rebuilt, after>>

(* Waiting for the connection, facts, and every role of configure.yml but  *)
(* those of the next three steps; services that their own changes restart  *)
(* included.                                                               *)
ConfigureGuest(h) ==
  /\ Due(h, "configure")
  /\ AttemptBySsh(h, "configure", guest[h].state = "running",
       UnlessCheck(Does(h, {"configure"}) /\ UNCHANGED <<guest, job, destroyed, killed>>))
  /\ UNCHANGED <<Unexecuted, deferred, rebuilt, after>>

(* Package upgrade, Docker and NVIDIA runtimes. *)
UpgradeGuest(h) ==
  /\ Due(h, "upgrade")
  /\ AttemptBySsh(h, "upgrade", guest[h].state = "running",
                  UnlessCheck(MayRestart(h, "upgrade")))
  /\ UNCHANGED <<Unexecuted, deferred, rebuilt, after>>

(* Containers are recreated, and the work in them ends.  A stack that was  *)
(* at work when it was asked is deferred by itself (see StackSync); work   *)
(* in none of them goes on.                                                *)
Recreates(h) ==
  /\ UNCHANGED <<guest, destroyed>>
  /\ Does(h, {"recreate"})
  /\ KeepsWork \/ (EndsWork(h) /\ ~(Asked(h) /\ job[h] = "early"))

(* lxc_docker_environment with lxc_stack_sync, which brings the stacks up  *)
(* on a deferred host too, the run's own control node included.            *)
SyncStacks(h) ==
  /\ Due(h, "stacks")
  /\ AttemptBySsh(h, "stacks", guest[h].state = "running",
                  UnlessCheck(Recreates(h) \/ UNCHANGED effectVars))
  /\ UNCHANGED <<Unexecuted, deferred, rebuilt, after>>

RebootGuest(h) ==
  /\ Due(h, "reboot")
  /\ AttemptBySsh(h, "reboot", guest[h].state = "running",
                  UnlessCheck(MayRestart(h, "reboot") \/ UNCHANGED effectVars))
  /\ UNCHANGED <<Unexecuted, deferred, rebuilt, after>>

(* publish.yml's status; validation_failed and validated do not occur. *)
Outcome(h) ==
  LET p == plan[h]
  IN IF Check THEN "checked"
     ELSE IF p.transition = "remove" THEN "removed"
     ELSE IF p.transition = "none" /\ after[h].state = "absent" THEN "absent"
     ELSE IF p.transition = "none" /\ ~p.reconcile /\ ~p.access /\ ~p.configure THEN "skipped"
     ELSE IF command.intent = "provision_only" THEN "ensured"
     ELSE "configured"

(* Mutant: the removal is believed. *)
StillThere_Never(h) == FALSE

StillThere(h) == ~Check /\ plan[h].transition = "remove" /\ after[h].state # "absent"

Publish(h) ==
  /\ Due(h, "publish")
  /\ \/ StillThere(h) /\ Fails(h)
     \/ /\ ~StillThere(h)
        /\ result' = [result EXCEPT ![h] = Outcome(h)]
        /\ at' = NoHost /\ todo' = {}
        /\ UNCHANGED <<latch, lost, phase, pending>>
  /\ NoFault
  /\ UNCHANGED <<effectVars, Unexecuted, deferred, rebuilt, after>>

-----------------------------------------------------------------------------
(* The end of a run. *)

Summarise ==
  /\ phase = "execute" /\ at = NoHost /\ pending = {}
  /\ phase' = "report"
  /\ UNCHANGED <<fleetVars, runs, faults, planVars, pending, lost, execVars,
                 did, destroyed, killed, drifted, clean>>

(* A run keeps its facts in memory: they are gone when it ends. *)
ForgetRun ==
  /\ phase' = "idle" /\ command' = NoCommand
  /\ limit' = {} /\ targets' = {} /\ pending' = {} /\ lost' = {}
  /\ problem' = {} /\ failed' = {}
  /\ seen' = [h \in Host |-> "unseen"]
  /\ before' = [h \in Host |-> NoObservation]
  /\ after' = [h \in Host |-> NoObservation]
  /\ plan' = [h \in Host |-> NoPlan]
  /\ result' = [h \in Host |-> "none"]
  /\ at' = NoHost /\ todo' = {} /\ deferred' = {} /\ latch' = NoHost /\ rebuilt' = {}
  /\ did' = [h \in Host |-> {}]
  /\ destroyed' = [h \in Host |-> NoRelease]
  /\ killed' = {} /\ drifted' = [h \in Host |-> "no"] /\ clean' = TRUE

EndRun ==
  /\ phase \in {"report", "aborted"}
  /\ ForgetRun
  /\ UNCHANGED <<fleetVars, runs, faults>>

(* The control node is interrupted or loses power. *)
Die ==
  /\ phase \notin {"idle", "report", "aborted"}
  /\ faults < MaxFaults /\ faults' = faults + 1
  /\ ForgetRun
  /\ UNCHANGED <<fleetVars, runs>>

-----------------------------------------------------------------------------
(* The fleet lives on. *)

(* Work that starts once the busy check has been made is late. *)
StartJob(h) ==
  /\ guest[h].state = "running" /\ job[h] = "none"
  /\ job' = [job EXCEPT ![h] = IF at = h /\ "busy" \notin todo THEN "late" ELSE "early"]
  /\ UNCHANGED <<guest, runs, faults, phase, planVars, pending, lost, execVars,
                 did, destroyed, killed, drifted, clean>>

EndJob(h) ==
  /\ job[h] # "none"
  /\ job' = [job EXCEPT ![h] = "none"]
  /\ UNCHANGED <<guest, runs, faults, phase, planVars, pending, lost, execVars,
                 did, destroyed, killed, drifted, clean>>

(* Someone stops or starts a guest. *)
OutsideChange(h) ==
  /\ faults < MaxFaults /\ faults' = faults + 1
  /\ guest[h].state # "absent"
  /\ SetState(h, IF guest[h].state = "running" THEN "stopped" ELSE "running")
  /\ job' = [job EXCEPT ![h] = "none"]
  /\ IF phase \in {"idle", "compile"} THEN UNCHANGED <<drifted, clean>>
     ELSE /\ drifted' = [drifted EXCEPT ![h] = IF after[h] = NoObservation THEN "before" ELSE "after"]
          /\ clean' = FALSE
  /\ UNCHANGED <<runs, phase, planVars, pending, lost, execVars, did, destroyed, killed>>

Execute(h) ==
  \/ ExecuteTarget(h) \/ BusyCheck(h) \/ StopGuest(h) \/ DestroyGuest(h) \/ EnsureGuest(h)
  \/ StartGuest(h) \/ ReconcileHostConfig(h) \/ Reobserve(h) \/ RestoreGuestAccess(h)
  \/ ConfigureGuest(h) \/ UpgradeGuest(h) \/ SyncStacks(h) \/ RebootGuest(h) \/ Publish(h)

Run ==
  \/ \E h \in Host : CompileTarget(h) \/ PlanTarget(h) \/ Execute(h)
  \/ CoordinatePreflight \/ PlanningBarrier \/ Summarise \/ EndRun

Next ==
  \/ \E c \in Commands, S \in SUBSET Host : StartRun(c, S)
  \/ Run \/ Die
  \/ \E h \in Host : StartJob(h) \/ EndJob(h) \/ OutsideChange(h)

Spec == Init /\ [][Next]_vars

-----------------------------------------------------------------------------
(* Properties. *)

Acted == \E h \in Host : did[h] # {}

(* The lifecycle planning barrier (ADR-0004): nothing is done to any guest *)
(* in a run in which a target that is still in the play has no valid plan. *)
(* It takes a coordinating host that is a target: the run_once barrier is  *)
(* skipped when the control node, left out of the run, is the first.       *)
BarrierHolds ==
  Acted /\ Coordinates => \A t \in targets \ lost : t \notin problem /\ plan[t] # NoPlan

(* A guest is destroyed only where persistent policy allows it, never by a *)
(* configure-only run, and to be rebuilt only if its release really was    *)
(* not the one its template has (ADR-0005).                                *)
DestructionAuthorised ==
  \A h \in Host : destroyed[h] # NoRelease =>
    /\ h \in Destructive /\ command.intent # "configure_only"
    /\ h \in Present => h \in RebuildPolicy /\ destroyed[h] # Desired[h]

(* An intent is a strict set of transitions: configure-only creates,       *)
(* starts, stops and destroys nothing; provision-only configures nothing   *)
(* and starts only a guest it created, or one somebody stopped while the   *)
(* run was at work (GLOSSARY.md, "Lifecycle runs").                        *)
IntentKept ==
  \A h \in Host :
    /\ did[h] # {} /\ command.intent = "configure_only"
         => did[h] \cap {"create", "start", "stop", "destroy"} = {}
    /\ did[h] # {} /\ command.intent = "provision_only"
         => /\ did[h] \cap {"configure", "upgrade", "recreate"} = {}
            /\ "start" \in did[h] => "create" \in did[h] \/ drifted[h] # "no"

(* Work that was under way when its guest was asked is never interrupted,  *)
(* unless the run overrides the checks, removes the guest, or somebody     *)
(* changed the guest after preflight looked (ADR-0015).                    *)
BusyWorkSurvives ==
  \A h \in killed :
    command.override \/ plan[h].transition = "remove" \/ drifted[h] # "no"

(* The control node the run is made on is touched only when the run        *)
(* includes it, and even then neither it nor its packages are stopped,     *)
(* rebuilt, restarted or upgraded, whatever its busy check would say       *)
(* (ADR-0018).  Its stacks are brought up to date like any other host's.   *)
OwnControlNodeStaysUp ==
  Self \in Host /\ did[Self] # {} =>
    command.self /\ did[Self] \subseteq {"access", "configure", "recreate"}

(* After the first failure nothing more is done in the run (ADR-0001).     *)
FailFast == [][latch # NoHost => did' = did \/ phase' = "idle"]_vars

(* What a finished run reports of a target is what has become of it.  The  *)
(* one exception: a guest that somebody starts while it is being rebuilt   *)
(* is not destroyed, and the run goes on with its old release.             *)
ResultsTruthful ==
  phase = "report" => \A t \in targets \ lost :
    /\ result[t] \in {"planning_failed", "blocked", "not_executed", "checked"} => did[t] = {}
    /\ result[t] = "execution_failed" => latch = t
    /\ result[t] \in {"removed", "absent"} => guest[t].state = "absent"
    /\ result[t] = "ensured" => guest[t].state # "absent"
    /\ result[t] = "configured" /\ drifted[t] # "after" => guest[t].state = "running"
    /\ result[t] = "configured" /\ t \in RebuildPolicy \ deferred
         => guest[t].release = Desired[t] \/ (plan[t].transition = "rebuild" /\ drifted[t] # "no")

(* A full run in which nothing goes wrong brings every target that was not *)
(* deferred to its desired state, whatever earlier runs that failed or     *)
(* were killed half way left behind.                                       *)
CleanRunConverges ==
  phase = "report" /\ clean /\ problem = {} /\ command.intent = "full" /\ ~Check =>
    \A t \in targets \ deferred :
      IF t \in Present
        THEN /\ guest[t].state = "running"
             /\ t \in RebuildPolicy => guest[t].release = Desired[t]
        ELSE guest[t].state = "absent"

(* "No lifecycle action starts until every targeted LXC has a valid LXC    *)
(* lifecycle plan" (GLOSSARY.md, "Lifecycle planning barrier").            *)
BarrierCoversEveryTarget == Acted => \A t \in targets : plan[t] # NoPlan

(* "A planning failure for any one target blocks actions for the whole     *)
(* targeted LXC set" (GLOSSARY.md, "Lifecycle planning barrier").          *)
PlanningFailureBlocksAll == Acted => problem = {}

(* A run takes an interrupting step, "such as recreating a stack's         *)
(* containers, upgrading packages, or rebooting", "never on the control    *)
(* node it runs from" (GLOSSARY.md, "Interrupting step").                  *)
OwnControlNodeUninterrupted ==
  Self \in Host => did[Self] \subseteq {"access", "configure"}

(* "The first execution failure sets a run-local fail-fast latch, and      *)
(* every later target in that run reports not_executed"                    *)
(* (docs/command-policy.md).                                               *)
LaterTargetsReport ==
  phase \in {"report", "aborted"} => \A t \in targets \ lost : result[t] # "planned"
=============================================================================
