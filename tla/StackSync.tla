------------------------------ MODULE StackSync ------------------------------
(***************************************************************************)
(* The Compose stacks of one Docker host through run after run: the busy   *)
(* checks of config/lxc_busy_check, the host's interrupting steps, and     *)
(* config/lxc_stack_sync, which quarantines stacks that the repository no  *)
(* longer has, writes the files of the others and starts them.             *)
(*                                                                         *)
(* A version of a stack has a Compose file (its working service, and what  *)
(* its x-busy-check and x-restart-on-change declarations are worth) and a  *)
(* tracked file, which its containers read when they start.  Every loop    *)
(* takes the stacks in any order.  Left out: docker-agents, managed files, *)
(* networks, images, check mode and the report.                            *)
(***************************************************************************)
EXTENDS Naturals, FiniteSets

CONSTANTS
  Stack,
  Sources,       \* Sources[s]: the versions the repository may have of s
  NoStack,       \* no version, or no --stack filter
  Namesake,      \* the stack that has its host's name, or NoStack
  MaxFaults,     \* bound on tasks, commands and probes that fail
  MaxCommits     \* bound on changes of the repository

VARIABLES
  repo,        \* repo[s]: the version in the repository
  sourceThere, \* the host's directory of stack sources exists
  disk,        \* disk[s]: the files deployed
  ran,         \* ran[s]: what s's containers were started with
  touched,     \* the stacks whose tracked file was written after their start
  down,        \* the stacks whose working service is not running
  job,         \* the stacks with work in their working service
  pc, filter, override, selfIncluded,
  todo,        \* what the present loop has still to do
  answer,      \* answer[s]: the probe's answer, "" for none
  hostReason,  \* the host's own probe, or self-inclusion, defers it
  desired, stale,
  itemFailed,  \* an item of the present loop has failed
  working,     \* history: stacks at work since their probe in this run
  killed,      \* history: those whose work this run has interrupted
  faults, commits

world == <<repo, sourceThere, disk, ran, touched, down, job>>
choice == <<filter, override, selfIncluded>>
gate == <<answer, hostReason>>
work == <<desired, stale, itemFailed>>
history == <<working, killed, faults, commits>>
vars == <<world, pc, choice, todo, gate, work, history>>

Version == UNION {Sources[s] : s \in Stack}
Part == {"compose", "file"}

(* A stack's directory without its files, and what a directory may hold    *)
(* when a run ended between two writes.                                    *)
Empty == [service |-> "", check |-> "none", file |-> 0]
Directory == {[v EXCEPT !.file = w.file] : v, w \in Version \cup {Empty}}

(* 0 is the tracked file that is not there.                                *)
ASSUME SourcesOK ==
  \A s \in Stack :
    Sources[s] \subseteq
      [service : STRING, check : {"none", "declared", "invalid", "broken"}, file : Nat \ {0}]

(* What running containers have of the files they were started from.       *)
Started(v) == IF v = NoStack THEN NoStack ELSE [service |-> v.service, file |-> v.file]

ASSUME NoStackOK == NoStack \notin Stack \cup Directory \cup {Started(v) : v \in Directory}
ASSUME NamesakeOK == Namesake \in Stack \cup {NoStack}
ASSUME BoundsOK == MaxFaults \in Nat /\ MaxCommits \in Nat

TypeOK ==
  /\ repo \in [Stack -> Version \cup {NoStack}]
  /\ disk \in [Stack -> Directory \cup {NoStack}]
  /\ ran \in [Stack -> {Started(v) : v \in Directory} \cup {NoStack}]
  /\ sourceThere \in BOOLEAN
  /\ touched \subseteq Stack /\ down \subseteq Stack /\ job \subseteq Stack \ down
  /\ pc \in {"idle", "probe", "host", "discover", "down", "move", "plan", "write", "up", "recreate", "ok", "failed"}
  /\ filter \in Stack \cup {NoStack} /\ override \in BOOLEAN /\ selfIncluded \in BOOLEAN
  /\ todo \subseteq Stack \cup (Stack \X Part)
  /\ answer \in [Stack -> {"", "idle", "busy", "check_failed", "not_deployed"}]
  /\ hostReason \in BOOLEAN /\ itemFailed \in BOOLEAN
  /\ desired \subseteq Stack /\ stale \subseteq Stack
  /\ working \subseteq Stack /\ killed \subseteq Stack
  /\ faults \in 0..MaxFaults /\ commits \in 0..MaxCommits

Init ==
  /\ repo \in {r \in [Stack -> Version \cup {NoStack}] :
                 \A s \in Stack : r[s] = NoStack \/ (r[s] \in Sources[s] /\ r[s].check # "broken")}
  /\ sourceThere = TRUE
  /\ disk = repo /\ ran = [s \in Stack |-> Started(repo[s])]
  /\ touched = {} /\ down = {} /\ job = {}
  /\ pc = "idle" /\ filter = NoStack /\ override = FALSE /\ selfIncluded = FALSE
  /\ todo = {} /\ answer = [s \in Stack |-> ""] /\ hostReason = FALSE
  /\ desired = {} /\ stale = {} /\ itemFailed = FALSE
  /\ working = {} /\ killed = {} /\ faults = 0 /\ commits = 0

-----------------------------------------------------------------------------
Running == pc \notin {"idle", "ok", "failed"}

Fault == faults < MaxFaults /\ faults' = faults + 1

(* The containers of stack s stop or are replaced, with what they do. *)
Interrupt(S) ==
  /\ job' = job \ S
  /\ killed' = killed \cup (S \cap job \cap working)
  /\ working' = working \ S

(* A task fails and the run of this host ends. *)
FailTask ==
  /\ Running
  /\ Fault
  /\ pc' = "failed"
  /\ UNCHANGED <<world, choice, todo, gate, work, working, killed, commits>>

-----------------------------------------------------------------------------
(* The busy-check gate. *)

(* read_busy_check: a stack opts in with a declaration, valid or not. *)
Declares(s) == repo[s] # NoStack /\ repo[s].check # "none"
Declarations == IF sourceThere THEN {s \in Stack : Declares(s)} ELSE {}

StartRun ==
  /\ ~Running
  /\ filter' \in Stack \cup {NoStack}
  /\ override' \in BOOLEAN /\ selfIncluded' \in BOOLEAN
  /\ ~(override' /\ selfIncluded')
  /\ pc' = "probe"
  /\ todo' = IF override' THEN {} ELSE Declarations
  /\ answer' = [s \in Stack |-> ""] /\ hostReason' = FALSE
  /\ desired' = {} /\ stale' = {} /\ itemFailed' = FALSE
  /\ working' = {} /\ killed' = {}
  /\ UNCHANGED <<world, faults, commits>>

(* Mutant: a probe that finds no such service has no reason to wait. *)
Probed_FailsOpen(s) ==
  CASE repo[s].check = "invalid" -> "check_failed"
    [] OTHER -> IF s \in job /\ ran[s].service = repo[s].service THEN "busy" ELSE "idle"

(* busy_check_probe.sh and busy_check_result: only a running service of    *)
(* the name that the repository declares can answer.                       *)
Probed(s) ==
  CASE repo[s].check = "invalid" -> "check_failed"
    [] repo[s].check # "invalid" /\ ran[s] = NoStack -> "not_deployed"
    [] repo[s].check # "invalid" /\ ran[s] # NoStack
         /\ (s \in down \/ ran[s].service # repo[s].service) -> "check_failed"
    [] OTHER -> IF s \in job THEN "busy" ELSE "idle"

(* The answer may also be lost: the guest or Docker does not answer, or    *)
(* the check runs into its timeout.                                        *)
ProbeStack(s) ==
  /\ pc = "probe" /\ s \in todo
  /\ todo' = todo \ {s}
  /\ \/ answer' = [answer EXCEPT ![s] = Probed(s)] /\ UNCHANGED faults
     \/ answer' = [answer EXCEPT ![s] = "check_failed"] /\ Fault
  /\ working' = IF s \in job THEN working \cup {s} ELSE working
  /\ UNCHANGED <<world, pc, choice, hostReason, work, killed, commits>>

Deferred == {s \in Stack : answer[s] \in {"busy", "check_failed"}}

(* _host_reason, or the rule that a run never interrupts its own node. *)
ProbeHost ==
  /\ pc = "probe" /\ todo = {}
  /\ hostReason' \in IF selfIncluded THEN {TRUE} ELSE IF override THEN {FALSE} ELSE BOOLEAN
  /\ pc' = "host"
  /\ UNCHANGED <<world, choice, todo, answer, work, history>>

HostDeferred == Deferred # {} \/ hostReason

(* Reconciliation of the host side, Docker runtime, upgrade or reboot: the *)
(* daemon or the guest restarts, and containers read their files again.    *)
InterruptHost ==
  /\ pc = "host" /\ ~HostDeferred
  /\ Interrupt(Stack)
  /\ ran' = [s \in Stack |-> IF ran[s] # NoStack /\ disk[s] # NoStack
                               THEN [ran[s] EXCEPT !.file = disk[s].file] ELSE ran[s]]
  /\ touched' = {} /\ down' = {}
  /\ pc' = "discover"
  /\ UNCHANGED <<repo, sourceThere, disk, choice, todo, gate, work, faults, commits>>

LeaveHost ==
  /\ pc = "host"
  /\ pc' = "discover"
  /\ UNCHANGED <<world, choice, todo, gate, work, history>>

-----------------------------------------------------------------------------
(* discover.yml *)

Known == IF sourceThere THEN {s \in Stack : repo[s] # NoStack} ELSE {}
Deployed == {s \in Stack : disk[s] # NoStack}

Refused ==
  \/ ~sourceThere /\ Deployed # {}
  \/ filter # NoStack /\ filter \notin Known

DiscoveryFails ==
  /\ pc = "discover" /\ Refused
  /\ pc' = "failed"
  /\ UNCHANGED <<world, choice, todo, gate, work, history>>

(* Mutant: deferred stacks leave the desired set before the stale one is   *)
(* made from it.                                                           *)
Discover_DefersFirst ==
  /\ pc = "discover" /\ ~Refused
  /\ desired' = (IF filter # NoStack THEN {filter} ELSE Known) \ Deferred
  /\ stale' = IF filter # NoStack THEN {} ELSE Deployed \ (Known \ Deferred)
  /\ pc' = "down" /\ todo' = stale'
  /\ UNCHANGED <<world, choice, gate, itemFailed, history>>

(* Mutant: the filter does not keep other stacks from being stale. *)
Discover_FilterKeepsStale ==
  /\ pc = "discover" /\ ~Refused
  /\ desired' = (IF filter # NoStack THEN {filter} ELSE Known) \ Deferred
  /\ stale' = Deployed \ (IF filter # NoStack THEN {filter} ELSE Known)
  /\ pc' = "down" /\ todo' = stale'
  /\ UNCHANGED <<world, choice, gate, itemFailed, history>>

Discover ==
  /\ pc = "discover" /\ ~Refused
  /\ desired' = (IF filter # NoStack THEN {filter} ELSE Known) \ Deferred
  /\ stale' = IF filter # NoStack THEN {} ELSE Deployed \ Known
  /\ pc' = "down" /\ todo' = stale'
  /\ UNCHANGED <<world, choice, gate, itemFailed, history>>

-----------------------------------------------------------------------------
(* quarantine.yml *)

(* docker compose down, whose failure is not looked at. *)
StopStale(s) ==
  /\ pc = "down" /\ s \in todo
  /\ todo' = todo \ {s}
  /\ \/ /\ Interrupt({s})
        /\ ran' = [ran EXCEPT ![s] = NoStack] /\ touched' = touched \ {s} /\ down' = down \ {s}
        /\ UNCHANGED faults
     \/ Fault /\ UNCHANGED <<ran, touched, down, job, working, killed>>
  /\ UNCHANGED <<repo, sourceThere, disk, pc, choice, gate, work, commits>>

StaleStopped ==
  /\ pc = "down" /\ todo = {}
  /\ pc' = "move" /\ todo' = stale
  /\ UNCHANGED <<world, choice, gate, work, history>>

(* An item that fails does not keep the loop from the next ones. *)
MoveStale(s) ==
  /\ pc = "move" /\ s \in todo
  /\ todo' = todo \ {s}
  /\ \/ disk' = [disk EXCEPT ![s] = NoStack] /\ UNCHANGED <<itemFailed, faults>>
     \/ Fault /\ itemFailed' = TRUE /\ UNCHANGED disk
  /\ UNCHANGED <<repo, sourceThere, ran, touched, down, job, pc, choice, gate, desired, stale, working, killed, commits>>

(* The end of a loop: the next task, if no item has failed. *)
EndLoop(loop, next, items) ==
  /\ pc = loop /\ todo = {}
  /\ IF itemFailed THEN pc' = "failed" /\ UNCHANGED todo ELSE pc' = next /\ todo' = items
  /\ UNCHANGED <<world, choice, gate, work, history>>

StaleMoved == EndLoop("move", "plan", {})

-----------------------------------------------------------------------------
(* materialize.yml *)

(* The stacks of which discover.yml has found files.  It keeps those with  *)
(* "/<filter>/" in their path, and every path begins with stacks/<host>/:  *)
(* the filter that is the host's name keeps them all.  The pattern that    *)
(* removes deferred stacks is anchored.                                    *)
Found == (IF filter \in {NoStack, Namesake} THEN Known ELSE {filter}) \ Deferred

(* Every template is rendered and every x-restart-on-change declaration    *)
(* read before the first file is written.                                  *)
PlanFiles ==
  /\ pc = "plan"
  /\ \/ /\ \A s \in Found : repo[s].check # "broken"
        /\ pc' = "write" /\ todo' = Found \X Part
     \/ /\ \E s \in Found : repo[s].check = "broken"
        /\ pc' = "failed" /\ UNCHANGED todo
  /\ UNCHANGED <<world, choice, gate, work, history>>

Written(s, part) ==
  LET old == IF disk[s] = NoStack THEN Empty ELSE disk[s]
  IN IF part = "compose" THEN [repo[s] EXCEPT !.file = old.file] ELSE [old EXCEPT !.file = repo[s].file]

(* Only content that differs is written.                                   *)
Write(s, part) ==
  /\ pc = "write" /\ <<s, part>> \in todo
  /\ todo' = todo \ {<<s, part>>}
  /\ \/ /\ disk' = [disk EXCEPT ![s] = Written(s, part)]
        /\ touched' = IF ran[s] # NoStack /\ part = "file" /\ Written(s, part) # disk[s]
                         THEN touched \cup {s} ELSE touched
        /\ UNCHANGED <<itemFailed, faults>>
     \/ Fault /\ itemFailed' = TRUE /\ UNCHANGED <<disk, touched>>
  /\ UNCHANGED <<repo, sourceThere, ran, down, job, pc, choice, gate, desired, stale, working, killed, commits>>

FilesWritten == EndLoop("write", "up", desired)

-----------------------------------------------------------------------------
(* start.yml *)

(* Containers come up from the files on disk. *)
Restarted(s) ==
  /\ Interrupt({s})
  /\ ran' = [ran EXCEPT ![s] = Started(disk[s])]
  /\ touched' = touched \ {s} /\ down' = down \ {s}

(* docker compose up -d replaces containers whose service is another, and  *)
(* starts a service that is down.                                          *)
Up(s) ==
  LET new == ran[s] = NoStack \/ s \in down
      replaced == ~new /\ ran[s].service # disk[s].service
  IN /\ pc = "up" /\ s \in todo
     /\ todo' = todo \ {s}
     /\ \/ /\ IF new \/ replaced THEN Restarted(s) ELSE UNCHANGED <<ran, touched, down, job, working, killed>>
           /\ UNCHANGED <<itemFailed, faults>>
        \/ Fault /\ itemFailed' = TRUE /\ UNCHANGED <<ran, touched, down, job, working, killed>>
     /\ UNCHANGED <<repo, sourceThere, disk, pc, choice, gate, desired, stale, commits>>

(* Mutant: docker compose up -d is taken to be enough. *)
UpDone_NoRecreate == EndLoop("up", "recreate", {})

(* restart_on_change_probe.sh: file times against start times. *)
UpDone == EndLoop("up", "recreate", touched \cap desired)

(* docker compose up --force-recreate *)
Recreate(s) ==
  /\ pc = "recreate" /\ s \in todo
  /\ todo' = todo \ {s}
  /\ \/ Restarted(s) /\ UNCHANGED <<itemFailed, faults>>
     \/ Fault /\ itemFailed' = TRUE /\ UNCHANGED <<ran, touched, down, job, working, killed>>
  /\ UNCHANGED <<repo, sourceThere, disk, pc, choice, gate, desired, stale, commits>>

AllDone == EndLoop("recreate", "ok", {})

-----------------------------------------------------------------------------
(* Others. *)

StartJob(s) ==
  /\ ran[s] # NoStack /\ s \notin down \cup job
  /\ job' = job \cup {s}
  /\ UNCHANGED <<repo, sourceThere, disk, ran, touched, down, pc, choice, todo, gate, work, history>>

EndJob(s) ==
  /\ s \in job
  /\ job' = job \ {s} /\ working' = working \ {s}
  /\ UNCHANGED <<repo, sourceThere, disk, ran, touched, down, pc, choice, todo, gate, work, killed, faults, commits>>

Crash(s) ==
  /\ ran[s] # NoStack /\ s \notin down
  /\ Fault
  /\ down' = down \cup {s} /\ job' = job \ {s} /\ working' = working \ {s}
  /\ UNCHANGED <<repo, sourceThere, disk, ran, touched, pc, choice, todo, gate, work, killed, commits>>

(* The repository changes, or a checkout without the stack sources is used. *)
Commit ==
  /\ ~Running
  /\ commits < MaxCommits /\ commits' = commits + 1
  /\ pc' = "idle"
  /\ \/ \E s \in Stack : \E v \in Sources[s] \cup {NoStack} :
          repo' = [repo EXCEPT ![s] = v] /\ UNCHANGED sourceThere
     \/ sourceThere' = ~sourceThere /\ UNCHANGED repo
  /\ UNCHANGED <<disk, ran, touched, down, job, choice, todo, gate, work, working, killed, faults>>

RunSteps ==
  \/ \E s \in Stack : ProbeStack(s) \/ StopStale(s) \/ MoveStale(s) \/ Up(s) \/ Recreate(s)
  \/ \E s \in Stack, part \in Part : Write(s, part)
  \/ ProbeHost \/ InterruptHost \/ LeaveHost
  \/ DiscoveryFails \/ Discover \/ StaleStopped \/ StaleMoved
  \/ PlanFiles \/ FilesWritten \/ UpDone \/ AllDone

Next ==
  \/ StartRun \/ RunSteps \/ FailTask \/ Commit
  \/ \E s \in Stack : StartJob(s) \/ EndJob(s) \/ Crash(s)

Spec == Init /\ [][Next]_vars

(* The nightly deployment is unfiltered and without overrides.  Probes are *)
(* bounded; that docker compose ends is an assumption.                     *)
Nightly == StartRun /\ filter' = NoStack /\ ~override' /\ ~selfIncluded'
FairSpec == Spec /\ SF_vars(Nightly) /\ WF_vars(RunSteps)

-----------------------------------------------------------------------------
(* Work that was under way when its stack was probed is not interrupted by *)
(* that run, neither through its own stack nor through the host.           *)
BusyWorkSurvives == killed = {}

(* A deferred stack stays as it is: files and containers (docs/adr/0015).  *)
DeferredIsUntouched ==
  [][ \A s \in Deferred : Running => disk'[s] = disk[s] /\ (ran'[s] = ran[s]) ]_vars

UpToDate(s) == disk[s] = repo[s] /\ (repo[s] # NoStack => ran[s] = Started(repo[s]))

(* A run that ends well has every desired stack that it did not defer on   *)
(* disk and running as the repository has it, and with its present tracked *)
(* file, whatever earlier runs left half done.                             *)
SuccessIsDeployed ==
  pc = "ok" => \A s \in desired : UpToDate(s)

(* A run starts, stops and quarantines no stack outside its filter, and    *)
(* none because the sources are missing.  Nor does it write their files,   *)
(* unless the filter is the host's own name: then it may update the files  *)
(* of stacks that are not deferred.                                        *)
FilesOnly(s) == disk'[s] # NoStack /\ s \notin Deferred
OthersAreLeftAlone ==
  [][ Running /\ pc # "host" =>
        \A s \in Stack : (filter \notin {NoStack, s} \/ ~sourceThere) =>
          /\ ran'[s] = ran[s]
          /\ disk'[s] = disk[s] \/ (sourceThere /\ filter = Namesake /\ FilesOnly(s)) ]_vars

(* Once the repository and the work in a stack rest and its service runs,  *)
(* the nightly runs get the stack to the repository's version.             *)
Restful(s) ==
  /\ s \notin job /\ s \notin down
  /\ repo[s] # NoStack => repo[s].check \notin {"invalid", "broken"}
  /\ repo[s] # NoStack /\ ran[s] # NoStack => ran[s].service = repo[s].service
Converges ==
  <>[](sourceThere /\ \A s \in Stack : Restful(s)) => []<>(\A s \in Stack : UpToDate(s))

(* "To iterate on a single stack without reconciling the others"           *)
(* (stacks/README.md:105)                                                  *)
OthersAreNotReconciled ==
  [][ Running /\ pc # "host" =>
        \A s \in Stack : filter \notin {NoStack, s} => disk'[s] = disk[s] /\ ran'[s] = ran[s] ]_vars

(* What is quarantined no longer runs.                                     *)
QuarantinedIsStopped ==
  pc = "ok" => \A s \in stale : ran[s] = NoStack

(* "a rejected declaration leaves the host untouched" (materialize.yml:11) *)
RejectedPlanTouchesNothing ==
  [][ pc = "plan" /\ pc' = "failed" /\ faults' = faults => stale = {} ]_vars
==============================================================================
