# Verification of homelab-iac

TLA+ modules, TLC runs and TLAPS proofs for the parts of this repository that
decide *when* something is done to the fleet, *whether* it may be done, and what
is left when it goes wrong half way. The reference is the source: `PROJECT.json`
maps each definition to the lines it stands for.

## The system

The repository turns an inventory of Proxmox LXCs into running guests. An
operator, or a control node's timer, invokes a wrapper; the wrapper takes locks,
reconciles its dependencies and becomes `ansible-playbook`; the lifecycle
playbook plans all targets, then acts on them one at a time.

| Part | State it keeps | Operations | Hard behaviour | What makes it correct |
|---|---|---|---|---|
| Live execution boundary (`scripts/lib/live-execution.sh`, `run.sh`, `recover.sh`, `inspect.sh`) | machine-local flock, metadata lock, holder records, ssh session holding the fleet lock | take and free locks, run dependencies and playbook | several shells on several nodes; locks inherited by children; killed wrappers; lost sessions; late ssh answers | conflicting playbooks never overlap; refusals start nothing; nothing is locked for ever |
| Lifecycle run (`playbooks/lifecycle-lxcs.yml`, role `proxmox_lxc_lifecycle`) | facts of one run; the guests themselves | compile, observe, plan, barrier, execute, publish | `run_once` and `serial: 1`; unreachable hosts; failure with or without effect; a guest that changes after it was observed; a killed run | no action before every plan is valid; destruction only where authorised; fail fast; results are true; the next run repairs |
| Fleet preflight | observation of Proxmox | one observation for all targets | identity conflicts, stale observation | reservation rules |
| Busy checks (`lxc_busy_check`, `busy_check.py`) | an answer per stack, for one run | declare, probe, defer | minutes between the answer and its use | asked work is not interrupted; a deferral holds for files, containers and restarts |
| Host configuration (`proxmox_lxc_host_config`) | the container's file in `/etc/pve`, its root disk | compare, write, restart, wait | failure between write and reboot; Proxmox rewrites the file | restarts exactly where the running guest needs one; repeated runs converge |
| Guest configuration (`lxc_base_system`, Docker, NVIDIA, users) | the guest | idempotent roles | interrupting steps on a deferred host | interrupting steps only when idle; of a host's own control node never a restart |
| Stack synchronisation (`lxc_stack_sync`, `restart_on_change.py`) | stack directories, quarantine, containers | discover, quarantine, materialise, start, recreate | filters, per-stack deferral, failure between write and recreation | success means deployed; a filtered run starts, stops and quarantines no other stack |
| Vault workflow (`vault.sh`) | `vault.yml`, passphrase file, Bitwarden item, backups | rotate; configure, edit, set, unset, merge; check, diff | three files that no step changes together; signals; failures with effect; power loss | the secrets stay readable |
| Host-key pinning and trust | `known_hosts`, Proxmox trust | pin, forget, inject keys | rebuilt guests | only keys read through Proxmox are trusted |
| `proxmox_pct` module | none | config, set, status, reboot, resize, wait_exec | hanging commands near a deadline | bounded waits |
| Bootstrap node | timers, deploy units | nightly and on-demand deploy | timer races operator | at most one deploy at a time |
| Live dependencies (`live_dependencies.py`) | installed collections and roles, `.ansible/dependencies.lock` | read the pins, install, verify, require the fleet key | several commands in one worktree, killed installs | a playbook keeps its pins; one living command installs at a time; the lock always comes free |
| Authentik blueprint sync (`authentik_blueprint_sync.py`) | none; Authentik's blueprint instances | plan, create, correct, apply, wait, verify | asynchronous applies, a stale copy of the instances, lost answers | success is true; repeated runs converge |
| Music reconciler (`reconciler.py`, password policy of blueprint 26) | none; Navidrome's accounts | list, plan, update; mirror a password | two writers of whole accounts, edits in between | one quiet pass is enough, where Navidrome shows who is off; stale writes are repaired |
| Contract compiler, validation, masking, journeys, Compose stacks | none | pure or read-only | — | — |

They interact by calls (wrapper → dependencies → playbook → roles), by locks
between runs (the flock on a node, the fleet lock on the Proxmox host), and by
what one run leaves in the fleet for the next.

## Modules

### ExecutionGate, LiveExecution

`ExecutionGate` is the promise of the boundary: which playbooks may be active
together. `LiveExecution` is `run_live_playbook`, one action per step of the
shell. `pc[r]` is where the wrapper is, `lockFd[r]` and `leaseFd[r]` are the
processes (wrapper, child, ssh) that have the lock's descriptor and the write end
of ssh's stdin open: a flock goes with its open file, so it is held as long as
one of them lives. `child[r]` is what the wrapper forked (`live_dependencies.py`, the
subshell, `ansible-playbook`), `ssh[r]` and `answer[r]` the coprocess, `fleet` the
lock on the Proxmox host. Wrapper, child, ssh and remote process fail separately:
`KillWrapper`, `Interrupt` (Ctrl-C to the group), `DropSession`, `NodeVanishes`.
Invocations are made at most once each. Left out: wording, pid reuse, the vault
password, command grammars.

`MCLiveExecution` gives TLC the nodes, runs and lock classes.
`LiveExecutionProofs` holds the proofs.

### LxcLifecycle

One run after another, each through the plays of `lifecycle-lxcs.yml`:
`StartRun` (`initialize_planning`), `CompileTarget`, `CoordinatePreflight`,
`PlanTarget` (inspect, validate, decide), `PlanningBarrier`, `ExecuteTarget`, then
the steps of `execute.yml` in their order (`BusyCheck` … `Publish`), `Summarise`,
`EndRun`. A variable stands for a fact of the role: `plan[h]` for
`proxmox_lxc_lifecycle_plan`, `failed` for `proxmox_lifecycle_failed_target_hosts`, `latch` for
`proxmox_lifecycle_execution_failure`. Facts live as long as the run; `guest` and
`job` (work that a busy check would report) live on.

`Decide` is `decide.yml`'s plan, the same for all three intents; `Forbidden` its
constraints. `Calls` collects the `when` conditions of the tasks. `Attempt` is
what an Ansible task may do: succeed with its effect, or fail with or without it;
`AttemptBySsh` adds an unreachable host, which no `rescue` catches: Ansible
removes the host from the play, and as a batch of one has then failed as a
whole, ends the playbook. `Coordinates` is the way Ansible treats `run_once` with
a `when`: the condition is that of the first host still in the play. `Die` kills
the run anywhere. `SyncStacks` is `lxc_docker_environment` with its stack sync, as seen from
the host: it recreates containers, on a deferred host too, and leaves alone what was
at work when it was asked (`Asked`), as its own stack is deferred then; which one that
is, `StackSync` knows. `OutsideChange`, `StartJob` and `EndJob` are the world going on.

`LxcLifecycleProofs` holds the proofs.

History variables (`did`, `destroyed`, `killed`, `drifted`, `clean`) only record.
Left out: `validate_only` (a composition of its own), the rules inside fleet
preflight (only its verdicts), the content of the configuration, the cleanup of
cached facts after a rebuild, busy checks of single stacks.

### VaultWorkflow

`rotate_passphrase` and `run_mutation`, command by command. A key is named after
the rotation that made it; a ciphertext is its key and the set of changes it has.
`state[p]` is `ROTATION_STATE`, `fresh[p]` the passphrase in the workspace in
`/dev/shm`. A command fails with or without effect; a signal is acted upon when the
foreground command has ended (`Interrupt`), and leads to the exit trap: `Recover`,
then `CleanUp`. Within the trap the signals have their default action again, so
`Kill` covers a second signal. `PowerLoss` clears the workspaces. Operations are
made one at a time: rotate is interactive and each worktree has its own
`vault.yml`, but no lock enforces it. Left out: the rehearsal (it works on
copies), `merge` (it starts from git's index), the read-only operations. A rekey
whose script was killed ends before anything else is done. `VaultWorkflowProofs` holds
the proofs.

### BlueprintSync

`authentik_blueprint_sync.py apply`, request by request, over Authentik as it is
seen from the script: `inst[k]` is an instance with its name, path, status and last
applied hash, `objects[b]` what b's file has created ("blank": from a version whose
lookups found nothing), `queue` the instances Authentik's worker still has to apply.
`snap`, `byName` and `byPath` are the script's copies, made once by `GetInstances` and
used, stale, until `FinalObservation`'s own listing. A run walks `Steps`, the order that
`blueprint_plan` gives, and `PassOver` skips a flow that `plan` leaves out. `WorkerApplies` and `WorkerErrs` run at any
time: `apply` only asks. `FailRequest` and `LoseAnswer` end the script before or after
a request took effect. Left out: `export`, the generation of files, the report.

### HostConfig

`proxmox_lxc_host_config` with the `proxmox_pct` calls it makes. A setting is "old",
"new", "moved" (Proxmox has put its lines elsewhere) or "cut" (removed or half
written); `runtime[s]` is the setting the guest was last started with, which is what
a restart is about. `AttemptSucceeds`, `AttemptFails` and `AttemptKilled` are the
attempts of `wait_exec` in seconds of `clock`. In `LxcLifecycle` all of this is the one step
`ReconcileHostConfig`.

### StackSync

One Docker host through run after run: the probes of `lxc_busy_check`, the host's
interrupting steps, and `lxc_stack_sync` (`Discover`, quarantine, writes, `up`,
recreation). `repo`, `disk` and `ran` are the version of a stack in the repository, on the
host, and that its containers were started with; `touched` are stacks whose tracked
file is newer than their containers. Loops take the stacks in any order, and an
item that fails lets the others go on and the task fail. `Found` are the stacks whose files
`discover.yml` keeps: it searches for the filter in the whole path, so that a filter
which is the host's own name (`Namesake`) keeps those of every stack, to be validated and
written, though not brought up.

### LiveDependencies, LiveDependenciesProofs

Several commands in one worktree: live playbooks, under the machine-local lock of
`LiveExecution` (`Compatible`), and `validate.sh`, which takes no live lock. `lock` is
`.ansible/dependencies.lock`; `record[d]` is the version an install record names, `whole` the
dependencies whose files are all there, `pins[c]` what c has read. `Extract` and
`GalaxyDone` are the two halves of an install, `Kill` falls between them. The lock's
descriptor is close-on-exec: `KillAlone` ends the Python process and with it the lock,
while its `ansible-galaxy` goes on in `stray`, beside whoever takes the lock next.

### NavidromeReconciler

`reconciler.py` (`StartPass`, `ListIdentities`, `ListAccounts`, `Apply`, `EndPass`) and the
expression policy of blueprint 26 (`MirrorReads`, `MirrorWrites`), which write the same
accounts, while `EditIdentity` and `EditAccount` change both sides. The field that disables
an account has one of three names, of either polarity, or none of them
(`disabledField = "none"`): the account then counts as on, and what becomes of the
isDisabled that an update sends (`Stored`) is left open.

The `MC` modules give TLC the constants; `BlueprintSyncProofs`, `HostConfigProofs`, `StackSyncProofs` and
`NavidromeReconcilerProofs` hold the proofs about the last four machines.

## Runs

| Run | Instance | Checks |
|---|---|---|
| `live_fleet` | a reader and two mutating runs, 2 nodes (two on one), 2 faults | both locks exclude by class, no lock outlives its run, a refused run starts nothing and can name a supervised holder, the gate is implemented |
| `live_pair` | 2 mutating runs, 2 nodes, 2 faults, fair | every run ends, the fleet lock is freed |
| `lifecycle_rebuild` | 2 guests with a rebuild policy, one destructible, and a third that is the control node; every intent, `--interrupt-busy`, `--include-controller`; 1 fault | the barrier, the authority to destroy, fail-fast, intents, busy work, the own control node stays up, convergence of a clean run |
| `lifecycle_remove` | a target to keep and one to remove; `full`, `full --check`, `provision`; 2 faults | types, results are true |
| `vault` | 2 rotations and a change in any order, 3 faults | secrets survive, changes survive, outcomes are true |
| `blueprints` | an exported flow, four planned blueprints, six primary keys; instances stale, disabled, in error, renamed, swapped or missing; 1 fault, fair | success is true, prerequisites first, a clean run succeeds, unique names, convergence |
| `host_config` | 2 sections, features and root disk; 2 failures; guest started and stopped by others; a wait of 9 s, fair | restarts, and only where needed; `wait_exec` is bounded; convergence |
| `stack_sync` | a stack with a busy check and one without, one of them named like the host; renamed, invalid and refused declarations; filters, override, self-inclusion; 1 commit, 1 fault, fair | work survives, success is deployed, deferrals and filters hold, nightly runs converge |
| `dependencies` | a deployment (exclusive), an inspection (shared), a validation; a collection and a role; 1 commit, 1 fault (a kill with or without its `ansible-galaxy` is one), fair | a playbook keeps its pins, one installer, every command ends |
| `navidrome` | a user and the API account, 2 addresses, each name of the field and none; 2 edits, 1 failing call, fair | a clean pass is enough, convergence |
| `vault_rekey`, `blueprint_blank` | small | see Findings |

Bounds. Two conflicting runs are what exclusion needs; the third makes "one
holds, two contend" and a queue behind a stranded lock happen. A second lifecycle
target is what the barrier and the latch need; the third, the control node, is
never a target by default. `Init` of the lifecycle has every state a dead run may leave
(absent, stopped, running, either release), so that one run is enough to see
recovery. One fault is enough for a failure and the handling of it; two let a
failure strike that handling; the vault's three also let a second rotation fail
after a first one has. A commit in the middle of a run makes what was read stale;
a second one would only repeat that. `blueprints` has six primary keys: five
planned blueprints, and one for an instance that a lost answer left. `host_config`
waits 9 s for commands of 3 s: three attempts, of which the last is cut. Nothing is
bounded in the number of runs of `BlueprintSync`, `HostConfig`, `StackSync` and
`NavidromeReconciler`.

Deadlock is checked in these four. The others end when every invocation has
been made.

Fairness. `LiveExecution`: a started shell goes on, its children end, sshd
notices end of file or, at last, a dead peer; nothing makes ssh answer (the 30 s
limit does) and nobody has to invoke anything. `LxcLifecycle` has none: a task of
Ansible need not end (`features.yml:71`, apt and Docker Compose have no bound), so nothing
is claimed of a run's end. `HostConfig` and `StackSync`: runs are made again, because the
control node deploys every night (docs/adr/0019), and go on, which assumes that the
commands without a bound end; for stacks only
the nightly run, without filter or override, is counted upon, strongly, as other
runs come between. `BlueprintSync`: deployments come again and the worker gets to
every instance in its queue; polls are bounded. `LiveDependencies`: a process runs
and `ansible-galaxy` ends; the code gives neither it nor `flock` a limit, so this is an
assumption about the network. `NavidromeReconciler`: its loop and a policy's requests have timeouts.
Nothing is assumed of people.

Each property has a mutant of the code's model in `PROJECT.json` that violates it.

The modules state more than the runs check. These are proved: every `TypeOK`;
`Idempotent` (`BlueprintSync`: a run over what the last success left changes nothing);
`SuccessIsComplete` and `ReadyGuestIsSeen` (`HostConfig`). These the code does not keep; each is
described below: `BarrierCoversEveryTarget`, `PlanningFailureBlocksAll`, `LaterTargetsReport`,
`OwnControlNodeUninterrupted` (`LxcLifecycle`), `RolledBackIsUnpublished` (`VaultWorkflow`), `RuntimeFollows` (`HostConfig`), `QuarantinedIsStopped`,
`RejectedPlanTouchesNothing` and `OthersAreNotReconciled` (`StackSync`), `OneGalaxy` (`LiveDependencies`).

## Findings

* `vault_rekey`: a signal that arrives during `ansible-vault rekey` is acted upon
  before `ROTATION_STATE` is assigned: no recovery, and the only copy of the new
  passphrase is removed.
* `blueprint_blank`: a deployment that brings `25-default-auth-policies.yaml` and
  `26-registration-approval-flow.yaml` together applies 25 first; its `!Find` of 26's flow
  is null, the apply is successful, and as the hash is then right no later run
  repairs the `enrollment_flow` of the identification stage.

Of the lifecycle:

* The release probe runs over ssh to the Proxmox host while a target is planned.
  If that drops, the target leaves the play without a recorded planning problem;
  `coordinate_barrier.yml` does not count it and the others are executed
  (`BarrierCoversEveryTarget`).
* `run_once` plays are conditioned on `proxmox_lifecycle_selected` of the first host left.
  When that is the unselected control node, the barrier is not computed, and
  valid targets are executed beside one whose planning failed (`PlanningFailureBlocksAll`).
* A host lost during execution does not set the latch but ends the playbook:
  later targets have no `not_executed` result, and no summary is made (`LaterTargetsReport`).
* A run that includes its own control node brings that node's stacks up and
  recreates their containers (the workstation has `docker_enabled` and a stack). The
  glossary counts recreating a stack's containers as an interrupting step, which it
  says is never taken there (`OwnControlNodeUninterrupted`); ADR-0018 and the code speak of what would stop
  the node (`OwnControlNodeStaysUp`).

Of the vault: a signal during `bw edit`, or an edit whose answer is lost, rolls the
vault back although Bitwarden has the new passphrase (`RolledBackIsUnpublished`). The
next `chezmoi apply` overwrites the old one, and then nothing opens the vault.
`SecretsSurvive` excepts exactly this case.

Of the blueprints:

* An instance that was in error before makes `wait_for_instance` (line 1133) raise
  on its first poll if the worker has not come yet. The next run is likely to
  succeed; `CleanRunSucceeds` excepts it with `failing`.
* Flows enter the plan through live providers only, so that on a fresh Authentik
  `20-flows/ldap-authentication-flow.yaml` is never planned while 30-providers.yaml:301 needs
  it. `Converges` has this as its premise, `Reconcilable`.

Of the host configuration: the restart is derived from this run's changes, so a
failure between write and reboot leaves a guest on its old settings until
somebody restarts it (`RuntimeFollows`; docs/adr/0015 gives a lost restart as the
reason to skip a whole reconciliation). `pct set --delete features` (features.yml:71)
is a plain command without a bound.

Of the stacks:

* `quarantine.yml:12-20` ignores a failed `docker compose down` and moves the directory:
  the containers run on and no later run knows them (`QuarantinedIsStopped`).
* materialize.yml:11 says that a rejected declaration leaves the host untouched;
  stale stacks have been quarantined by then (`RejectedPlanTouchesNothing`).
* When the declared service is renamed or has crashed the probe answers
  `check_failed`, and the stack is deferred every night until a run with
  `--interrupt-busy`. `Converges` excepts it (`Restful`).
* Work that starts after an idle answer is interrupted: the window is accepted.
* A filter that is the host's own name (`--stack jellyfin` on host `jellyfin`) also
  validates and writes the files of the host's other stacks, while stacks/README.md:105 says "without
  reconciling the others" (`OthersAreNotReconciled`). `OthersAreLeftAlone` excepts these files, not
  the containers.

Of the dependencies: a collection's `MANIFEST.json` is believed although the
install that wrote it was killed (`cut`; `PlaybookHasItsPins` excepts it). The declared
names are read before the lock is held (line 333), the pins under it. The lock does
not cover an `ansible-galaxy` whose Python process alone was killed: the next command
starts a second one in the same paths, which lines 312-314 mean to exclude (`OneGalaxy`). `OneInstaller`
is about living commands, and `PlaybookHasItsPins` ends for a playbook under which a stray one
goes on.

Of Navidrome: an account that shows none of the three fields counts as on
(reconciler.py:97). Without the group media it is updated in every pass and never
seen to be off; entitled and off it stays off. `Right` promises there an account with the
right address, and nothing of whether it is on. A user deleted or renamed in Authentik keeps an enabled account;
an administrator bit revoked after the listing is written back; the API
account's own user outside the group media would be disabled and end the
reconciliation (premise `[]LoggedIn` of `Converges`); the policy makes an account for any
user who changes a password.

## Proofs

`LiveExecutionProofs` proves, for any nodes, runs, classes and number of faults
(from `ConstantsOK` alone), `TypeOK`, `LocalExclusion`, `FleetExclusion`,
`NoLockOutlivesItsRun`, `SupervisedHolderIsNameable`, `RefusedRunStartsNothing`, and that the
boundary implements `ExecutionGate`.

Exclusion is not inductive: it depends on who has which descriptor. The
inductive invariant `IInv` adds to `TypeOK` what each program counter implies for the
wrapper's own descriptors (`DescriptorInv`), that a live child has inherited them
(`ChildInv`), that all runs with the flock on one node are compatible
(`CompatibleInv`), that a run not yet invoked has nothing (`FreshInv`), that a run past
its lease has an answer, and its session either still holds the fleet lock or is in
`dropped` or its node is gone (`LeaseInv`, `SessionInv`), that a record is in place from before
the metadata lock is freed until after the flock is (`RecordInv`), and that a failed
status means the run is on its way out (`StatusInv`). One lemma per group of actions shows
that it is preserved. The refinement maps the runs with a live playbook to
`active` and `dropped` to `lapsed`; only `LaunchPlaybook` is a `Start`, and `LeaseInv` with
`CompatibleInv` supplies its guard.

`VaultWorkflowProofs` proves, for any rotations, changes and number of faults (from its
`ConstantsOK`), `TypeOK`, `SecretsSurvive`, `ChangesSurvive` and the action property
`OutcomeIsTrue`. `SecretsSurvive` is not inductive: that a rollback restores a file
which some passphrase opens depends on what the rotation took as its backup, and
when. The invariant `IInv` says that one operation at most is under way (`Alone`), what
`ROTATION_STATE` and the printed outcome are at each place (`StateInv`), and what the files and
the operation's own copies are (`PlaceInv`): from the rekey until Bitwarden is noted as
changed, the backup is what the live file opens and has the content of `vault.yml`; after
that, Bitwarden has the new key; what a change is about to put in place has every
change that `vault.yml` has. `KeyInv` then says which passphrase survives:
Bitwarden's, which opens `vault.yml` or, with the live file, a backup. One lemma per
action shows that it keeps `IInv`; `SpeaksAtTheEnd` says which actions print an outcome.

`LiveDependenciesProofs` proves, for any commands, lock classes, dependencies, pins and
bounds, with `ansible-galaxy` runs astray (from `DependenciesAssumption`), `TypeOK`, `OneInstaller` and `PlaybookHasItsPins`. What a playbook
relies on was settled long before: the invariant `IInv` says that the lock is held
by who is between `Lock` and `Unlock` (`LockInv`), that its holder has read its pins since
the last change if anybody has (`SteadyInv`, `PinsInv`), that what it installs is
still to be done and, as long as its reading of the pins is good, was not at its pin (`ItemInv`), that a
record without files belongs to the install under way or to one that was killed or
astray (`RecordInv`), and that what a command has reconciled stays as
declared (`KeptInv`). `InstalledIsUnused` is the core: an install of what another command
relies on would need a pin that is both declared and not. The proof never uses
`Compatible`: the dependency lock is enough without the machine-local one.

`LxcLifecycleProofs` proves every safety property of the lifecycle runs, for any fleet,
inventory, policies, invocations and bounds. What a guest may suffer is decided long
before it happens, by a plan from an observation that may be stale. The parts of
`IInv` follow that way: a plan is the decision for what was observed and is allowed
(`PlanInv`); beyond the barrier each target still in the play has a plan or a problem
(`BarrierInv`), and one target is at work, behind barrier and latch (`AtInv`, `WaitingInv`); what is still
to do follows from plan and busy check, in order (`WorkingInv`); what has been done
is within plan, intent and deferral (`DeedInv`, `DestroyInv`); what preflight saw is so until
the run or somebody else changes it (`SeenInv`, `ReleaseInv`); and a guest under a clean
execution is on the track of its transition (`RebuildTrack`, `RemoveTrack`, `ProvisionTrack`), which is
what a truthful result and convergence rest on. `BarrierHolds` is about runs whose barrier
is computed (`Coordinates`); `ResultsTruthful` excepts a guest that somebody starts while it is
being rebuilt; `OwnControlNodeStaysUp` follows from `DeedInv`, as a deferred host gets nothing but access,
configuration and its stacks.

`StackSyncProofs` proves the safety properties of the synchronisation. `GateInv`: seen work
defers its stack, until the run ends. `ChoiceInv`: what is desired is in the repository and
not deferred, what is stale is in neither, and a filter or a missing source leaves
nothing stale. What may be written is what was found (`Found`), which exceeds what is desired
under the host's own name only. `LoopInv` and `DoneInv`: what a loop has behind it is written, up, and recreated,
unless an item failed. `FileInv`: containers have the tracked file on disk unless it
was written since, which is what recreation goes by. The two action properties need
the invariant in the state before the step.

`HostConfigProofs` proves, for any sections, times and faults that `TimesOK` allows, the
restart properties, `SuccessIsComplete`, and the bounds of the wait. The core is `BehindInv`: a running guest is
never ahead of its file, though others start and stop it. `PendingInv`: as long as no task has
failed, the run still knows each setting that the guest lacks; `NeedInv`: nothing else
asks for a restart. `WaitInv` bounds the last attempt.

`BlueprintSyncProofs` proves the safety properties of the blueprint runs and `Idempotent`. The
invariant says how stale the script's copy can be while the worker goes on: names
and paths are exact, because only the script changes them (`TableInv`, `CopyInv`); a hash that the
copy shows was applied (`HashInv`); a changed `last_applied` means that the present file was
applied; in a run in which nothing went wrong no planned instance is in error (`ErrorInv`).
`DoneInv` says that each step behind the run is settled, from which success, the order of
prerequisites and a clean run's success follow. `RepeatInv`, on top of it, says what a success has left and that a
run with the same plan has done nothing so far. `FreeKey` (a name without an instance leaves a key
free) is the pigeonhole principle.

`NavidromeReconcilerProofs` proves `CleanPassIsEnough`, under each name of the field and without one: in a quiet pass the listed users are Authentik's, each
operation still planned is the one that would be planned now, and whoever has none left
is right (`QuietInv`).

Each inductive invariant was checked by TLC before it was proved. The proofs assume of the constants: markers
such as `NoPlan` are not what they stand beside (`NonesOK`, `NobodyAssumption`, `NoStackOK`, `NamesakeOK`), bounds
and times are numbers (`BoundsAssumption`, `BoundsOK`, `TimesOK`), a stack's sources are versions
(`SourcesOK`), and for the blueprints that the plan has each name once and after what it needs (`OrderOK`: the
order written down in `blueprint_plan`, whose one breach is the second finding, a lookup that may stay
empty, `Wants`), that Authentik has keys to give, and that the first run finds
instances with names of their own (`KeysOK`, `ChoicesOK`).

Model-checked only: liveness and what needs fairness (`RunEnds` of the boundary, `FleetLockIsFreed`, `EveryCommandEnds`, every
`Converges`), which this prover cannot reach. `IndexBy` and `NextFree` take the largest and the smallest key of a set: the
proofs use only that it is a member (`LargestKey`, `SmallestKey`).

## Not modelled

Fleet preflight beyond its verdicts and guest configuration beyond its
interrupting steps; `merge` of `vault.sh` and the rotation's rehearsal, which works on
copies; `export` of the blueprints (files are written one by one from a read-only
snapshot; a failure leaves a mixture that git shows); managed files,
prerequisite directories, networks and images of the stacks. Host-key pinning is
a check of one value against another. The bootstrap node's timers only invoke runs, which
`LiveExecution` has at any time. The contract compiler, masking and static validation
are pure and sequential, journeys drive a browser, Compose files are
declarations for other programs.

## Plan

1. `ExecutionGate`, `LiveExecution`, `LiveExecutionProofs` — done.
2. `LxcLifecycle` — done.
3. `VaultWorkflow`, `VaultWorkflowProofs` — done but for `merge`.
4. `HostConfig`, `StackSync`, `BlueprintSync`, `LiveDependencies`, `NavidromeReconciler` — done.
5. `LiveDependenciesProofs` — done.
6. `LxcLifecycleProofs`, `NavidromeReconcilerProofs`, `StackSyncProofs`, `HostConfigProofs`, `BlueprintSyncProofs` — done:
   every safety and action property of the runs is stated by a theorem.
