--------------------------- MODULE LiveDependencies ---------------------------
(***************************************************************************)
(* Dependency reconciliation of one worktree (scripts/live_dependencies.py)*)
(* by several commands at once: live playbooks, behind the machine-local   *)
(* lock of live-execution.sh, and validate.sh, which takes no live lock.   *)
(* Each waits for .ansible/dependencies.lock, installs with ansible-galaxy *)
(* what is not at its pin, and verifies it; a live command then starts its *)
(* playbook, which reads the installed files until it ends.                *)
(*                                                                         *)
(* A dependency has an install record, which names a version, and files.   *)
(* A command may be killed together with its ansible-galaxy, or alone: the *)
(* descriptor of the dependency lock is close-on-exec, so that the lock is *)
(* free then while the ansible-galaxy runs on, astray.  Left out: the      *)
(* other control node and the vault.                                       *)
(***************************************************************************)
EXTENDS Naturals, FiniteSets

CONSTANTS
  Command,
  LockClass,   \* LockClass[c]: "shared" or "exclusive"; "none" for validation
  Consumes,    \* Consumes[c]: the row of a playbook in the registry
  UsesSsh,     \* the commands that need the fleet key
  Collection, Role, Version,
  None,
  MaxStarts,   \* bound on commands started
  MaxFaults,   \* bound on failing installations, lost keys and kills
  MaxCommits   \* bound on changes of the requirements files

Dependency == Collection \cup Role
Validation == {c \in Command : LockClass[c] = "none"}

ASSUME DependenciesAssumption ==
  /\ LockClass \in [Command -> {"none", "shared", "exclusive"}]
  /\ Consumes \in [Command -> SUBSET Dependency]
  /\ UsesSsh \subseteq Command \ Validation
  /\ Collection \cap Role = {} /\ None \notin Version \cup Dependency \cup Command
  /\ MaxStarts \in Nat /\ MaxFaults \in Nat /\ MaxCommits \in Nat

VARIABLES
  declared,  \* the pin of each dependency, None if it has none
  record,    \* the version its install record names, None without one
  whole,     \* the dependencies whose files are all there
  cut,       \* history: those that an install worked on which was killed or
             \* astray, since the last one that was neither
  stray,     \* the runs of ansible-galaxy that have lost their command
  key,       \* the state of the fleet key
  lock,      \* who holds .ansible/dependencies.lock
  pc, kind,  \* what a command is doing, and with "collection" or "role"
  names,     \* what is left to reconcile of that kind
  pins,      \* the pins read when that kind was begun
  item,      \* the dependency being installed
  steady,    \* history: commands since whose lock no pin has changed, and no
             \* stray ansible-galaxy has touched the worktree
  starts, faults, commits

tree == <<record, whole, cut, stray>>
bounds == <<starts, faults, commits>>
command == <<pc, kind, names, pins, item, steady>>
vars == <<declared, tree, key, lock, command, bounds>>

(* An ansible-galaxy astray, with the number of the kill that made it so.  *)
Stray == [by : 1..MaxFaults, item : Dependency, version : Version, step : {"download", "extract"}]

TypeOK ==
  /\ declared \in [Dependency -> Version \cup {None}]
  /\ record \in [Dependency -> Version \cup {None}]
  /\ whole \subseteq Dependency /\ cut \subseteq Dependency /\ stray \subseteq Stray
  /\ key \in {"present", "absent", "inconsistent"}
  /\ lock \in Command \cup {None}
  /\ pc \in [Command -> {"idle", "declared", "lock", "begin", "check", "download", "extract", "verify",
                         "key", "playbook", "done", "failed"}]
  /\ kind \in [Command -> {"collection", "role"}]
  /\ names \in [Command -> SUBSET Dependency]
  /\ pins \in [Command -> [Dependency -> Version \cup {None}]]
  /\ item \in [Command -> Dependency \cup {None}]
  /\ steady \subseteq Command
  /\ starts \in 0..MaxStarts /\ faults \in 0..MaxFaults /\ commits \in 0..MaxCommits

Init ==
  /\ declared \in [Dependency -> Version] /\ record = [d \in Dependency |-> None]
  /\ whole = {} /\ cut = {} /\ stray = {}
  /\ key = "present"
  /\ lock = None
  /\ pc = [c \in Command |-> "idle"] /\ kind = [c \in Command |-> "collection"]
  /\ names = [c \in Command |-> {}]
  /\ pins = [c \in Command |-> [d \in Dependency |-> None]]
  /\ item = [c \in Command |-> None]
  /\ steady = {} /\ starts = 0 /\ faults = 0 /\ commits = 0

-----------------------------------------------------------------------------
Active(c) == pc[c] \notin {"idle", "done", "failed"}

Fault == faults < MaxFaults /\ faults' = faults + 1

Goto(c, step) == pc' = [pc EXCEPT ![c] = step]

OfKind(k) == IF k = "collection" THEN Collection ELSE Role

(* The machine-local lock: taken without waiting, held until the playbook  *)
(* has ended.                                                              *)
Compatible(c) ==
  \A o \in Command \ {c} :
    Active(o) /\ LockClass[o] # "none" /\ LockClass[c] # "none" =>
      LockClass[o] = "shared" /\ LockClass[c] = "shared"

(* An operation with nothing to install goes without the dependency lock.  *)
Start(c) ==
  /\ ~Active(c) /\ Compatible(c)
  /\ starts < MaxStarts /\ starts' = starts + 1
  /\ Goto(c, IF c \in Validation THEN "declared"
             ELSE IF Consumes[c] # {} THEN "lock"
             ELSE IF c \in UsesSsh THEN "key" ELSE "playbook")
  /\ kind' = [kind EXCEPT ![c] = "collection"]
  /\ names' = [names EXCEPT ![c] = Consumes[c]]
  /\ pins' = [pins EXCEPT ![c] = [d \in Dependency |-> None]]
  /\ item' = [item EXCEPT ![c] = None]
  /\ steady' = steady \ {c}
  /\ UNCHANGED <<declared, tree, key, lock, faults, commits>>

(* reconcile_declared_collections reads its names before it has the lock.  *)
ReadNames(c) ==
  /\ pc[c] = "declared"
  /\ names' = [names EXCEPT ![c] = {d \in Collection : declared[d] # None}]
  /\ Goto(c, "lock")
  /\ UNCHANGED <<declared, tree, key, lock, kind, pins, item, steady, bounds>>

(* Mutant: what is to be installed is found out before the lock is held.   *)
Lock_ReadBefore(c) ==
  /\ pc[c] = "lock" /\ lock = None
  /\ lock' = c /\ steady' = steady \cup {c}
  /\ pins' = [pins EXCEPT ![c] = declared]
  /\ \E d \in names[c] : item' = [item EXCEPT ![c] = d]
  /\ Goto(c, "download")
  /\ UNCHANGED <<declared, tree, key, kind, names, bounds>>

(* Mutant: flock does not wait. *)
Lock_Unguarded(c) ==
  /\ pc[c] = "lock"
  /\ lock' = c /\ steady' = steady \cup {c}
  /\ Goto(c, "begin")
  /\ UNCHANGED <<declared, tree, key, kind, names, pins, item, bounds>>

(* _dependency_lock: flock waits, without a limit.                         *)
Lock(c) ==
  /\ pc[c] = "lock" /\ lock = None
  /\ lock' = c
  /\ steady' = steady \cup {c}
  /\ Goto(c, "begin")
  /\ UNCHANGED <<declared, tree, key, kind, names, pins, item, bounds>>

(* _declared_versions, once for each kind that is consumed.                *)
Begin(c) ==
  /\ pc[c] = "begin"
  /\ pins' = [pins EXCEPT ![c] = declared]
  /\ Goto(c, "check")
  /\ UNCHANGED <<declared, tree, key, lock, kind, names, item, steady, bounds>>

Unlock(c, step) ==
  /\ lock' = None
  /\ Goto(c, step)
  /\ item' = [item EXCEPT ![c] = None]

(* Mutant: the lock outlives a failure. *)
Fail_KeepsLock(c) ==
  /\ Goto(c, "failed")
  /\ item' = [item EXCEPT ![c] = None]
  /\ UNCHANGED lock

(* DependencyReconciliationError ends the command and gives up the lock.   *)
Fail(c) == Unlock(c, "failed")

-----------------------------------------------------------------------------
(* _reconcile_collections and _reconcile_roles *)

Unpinned(c, d) ==
  /\ pc[c] = "check" /\ d \in names[c] \cap OfKind(kind[c])
  /\ pins[c][d] = None
  /\ Fail(c)
  /\ UNCHANGED <<declared, tree, key, kind, names, pins, steady, bounds>>

Keep(c, d) ==
  /\ pc[c] = "check" /\ d \in names[c] \cap OfKind(kind[c])
  /\ pins[c][d] # None /\ record[d] = pins[c][d]
  /\ names' = [names EXCEPT ![c] = @ \ {d}]
  /\ UNCHANGED <<declared, tree, key, lock, pc, kind, pins, item, steady, bounds>>

Install(c, d) ==
  /\ pc[c] = "check" /\ d \in names[c] \cap OfKind(kind[c])
  /\ pins[c][d] # None /\ record[d] # pins[c][d]
  /\ item' = [item EXCEPT ![c] = d]
  /\ Goto(c, "download")
  /\ UNCHANGED <<declared, tree, key, lock, kind, names, pins, steady, bounds>>

KindDone(c) ==
  /\ pc[c] = "check" /\ names[c] \cap OfKind(kind[c]) = {}
  /\ \/ /\ kind[c] = "collection" /\ names[c] # {}
        /\ kind' = [kind EXCEPT ![c] = "role"]
        /\ Goto(c, "begin")
        /\ UNCHANGED <<lock, item>>
     \/ /\ names[c] = {}
        /\ Unlock(c, IF c \in Validation THEN "done" ELSE IF c \in UsesSsh THEN "key" ELSE "playbook")
        /\ UNCHANGED kind
  /\ UNCHANGED <<declared, tree, key, names, pins, steady, bounds>>

ExtractedRecord(d, version) ==
  record' = [record EXCEPT ![d] = IF d \in Collection THEN version ELSE None]

(* ansible-galaxy install --force removes what is there and extracts the   *)
(* version it was given.  A collection's record is among its first files,  *)
(* a role's is written when its files are there.                           *)
Extract(c) ==
  LET d == item[c]
      shared == \E g \in stray : g.item = d /\ g.step = "extract"
  IN /\ pc[c] = "download"
     /\ whole' = whole \ {d} /\ cut' = IF shared THEN cut \cup {d} ELSE cut \ {d}
     /\ ExtractedRecord(d, pins[c][d])
     /\ Goto(c, "extract")
     /\ UNCHANGED <<stray, declared, key, lock, kind, names, pins, item, steady, bounds>>

(* Two that extract over each other may leave anything.                    *)
GalaxyDone(c) ==
  LET d == item[c]
  IN /\ pc[c] = "extract"
     /\ whole' = whole \cup {d} \/ (d \in cut /\ whole' = whole \ {d})
     /\ record' = [record EXCEPT ![d] = pins[c][d]]
     /\ Goto(c, "verify")
     /\ UNCHANGED <<cut, stray, declared, key, lock, kind, names, pins, item, steady, bounds>>

(* It may exit with an error, or with 0 and nothing done.                  *)
GalaxyFails(c) ==
  /\ pc[c] = "download" /\ Fault
  /\ \/ Fail(c)
     \/ Goto(c, "verify") /\ UNCHANGED <<lock, item>>
  /\ UNCHANGED <<declared, tree, key, kind, names, pins, steady, starts, commits>>

Verify(c) ==
  /\ pc[c] = "verify"
  /\ \/ /\ record[item[c]] = pins[c][item[c]]
        /\ Goto(c, "check") /\ item' = [item EXCEPT ![c] = None] /\ UNCHANGED lock
        /\ names' = [names EXCEPT ![c] = @ \ {item[c]}]
     \/ /\ record[item[c]] # pins[c][item[c]]
        /\ Fail(c) /\ UNCHANGED names
  /\ UNCHANGED <<declared, tree, key, kind, pins, steady, bounds>>

(* _require_fleet_key, and the control-path directory.                     *)
RequireFleetKey(c) ==
  /\ pc[c] = "key"
  /\ \/ key = "present" /\ Goto(c, "playbook") /\ UNCHANGED faults
     \/ key # "present" /\ Goto(c, "failed") /\ UNCHANGED faults
     \/ Fault /\ Goto(c, "failed")
  /\ UNCHANGED <<declared, tree, key, lock, kind, names, pins, item, steady, starts, commits>>

PlaybookEnds(c) ==
  /\ pc[c] = "playbook"
  /\ Goto(c, "done")
  /\ UNCHANGED <<declared, tree, key, lock, kind, names, pins, item, steady, bounds>>

-----------------------------------------------------------------------------
(* Others. *)

(* The kernel gives up the lock of a process that is gone.                 *)
Kill(c) ==
  /\ Active(c) /\ Fault
  /\ Goto(c, "failed")
  /\ lock' = IF lock = c THEN None ELSE lock
  /\ cut' = IF pc[c] = "extract" /\ record[item[c]] # None THEN cut \cup {item[c]} ELSE cut
  /\ item' = [item EXCEPT ![c] = None]
  /\ UNCHANGED <<stray, declared, record, whole, key, kind, names, pins, steady, starts, commits>>

(* Only the Python process is killed, while subprocess.run waits for an    *)
(* ansible-galaxy that has no descriptor of the lock.                      *)
KillAlone(c) ==
  /\ pc[c] \in {"download", "extract"} /\ Fault
  /\ Unlock(c, "failed")
  /\ stray' = stray \cup {[by |-> faults', item |-> item[c], version |-> pins[c][item[c]], step |-> pc[c]]}
  /\ cut' = IF pc[c] = "extract" THEN cut \cup {item[c]} ELSE cut
  /\ UNCHANGED <<declared, record, whole, key, kind, names, pins, steady, starts, commits>>

StrayExtracts(g) ==
  /\ g.step = "download"
  /\ stray' = (stray \ {g}) \cup {[g EXCEPT !.step = "extract"]}
  /\ whole' = whole \ {g.item} /\ cut' = cut \cup {g.item}
  /\ ExtractedRecord(g.item, g.version)
  /\ steady' = {}
  /\ UNCHANGED <<declared, key, lock, pc, kind, names, pins, item, bounds>>

(* It ends well, or somewhere in between.                                  *)
StrayEnds(g) ==
  /\ stray' = stray \ {g}
  /\ \/ g.step = "download" /\ UNCHANGED <<record, whole, cut, steady>>
     \/ /\ g.step = "extract"
        /\ whole' \in {whole \cup {g.item}, whole \ {g.item}} /\ cut' = cut \cup {g.item}
        /\ UNCHANGED record \/ record' = [record EXCEPT ![g.item] = g.version]
        /\ steady' = {}
  /\ UNCHANGED <<declared, key, lock, pc, kind, names, pins, item, bounds>>

Commit(d) ==
  /\ commits < MaxCommits /\ commits' = commits + 1
  /\ \E v \in Version \cup {None} : declared' = [declared EXCEPT ![d] = v]
  /\ steady' = {}
  /\ UNCHANGED <<tree, key, lock, pc, kind, names, pins, item, starts, faults>>

ChangeKey ==
  /\ Fault
  /\ key' \in {"present", "absent", "inconsistent"}
  /\ UNCHANGED <<declared, tree, lock, command, starts, commits>>

Reconcile(c) ==
  \/ ReadNames(c) \/ Lock(c) \/ Begin(c) \/ KindDone(c)
  \/ \E d \in Dependency : Unpinned(c, d) \/ Keep(c, d) \/ Install(c, d)
  \/ Extract(c) \/ GalaxyDone(c) \/ GalaxyFails(c) \/ Verify(c) \/ RequireFleetKey(c)

Next ==
  \/ \E c \in Command : Start(c) \/ Reconcile(c) \/ PlaybookEnds(c) \/ Kill(c) \/ KillAlone(c)
  \/ \E g \in stray : StrayExtracts(g) \/ StrayEnds(g)
  \/ \E d \in Dependency : Commit(d)
  \/ ChangeKey

Spec == Init /\ [][Next]_vars

(* Every process runs, and ansible-galaxy ends: it has no time limit.      *)
FairSpec == Spec /\ \A c \in Command : WF_vars(Reconcile(c))

-----------------------------------------------------------------------------
(* While a playbook runs, each dependency it consumes stays installed as   *)
(* declared: another command in the worktree never replaces it under the   *)
(* playbook.  Not so once a pin has changed since it was reconciled, or a  *)
(* stray ansible-galaxy has gone on.  The files are all there, save for a  *)
(* dependency whose last install was killed after its record had been      *)
(* written, or had a stray one beside it: the record does not tell.        *)
PlaybookHasItsPins ==
  \A c \in Command : pc[c] = "playbook" /\ c \in steady =>
    \A d \in Consumes[c] : record[d] = declared[d] /\ d \in whole \cup cut

(* At most one living command has an ansible-galaxy at work in the         *)
(* worktree.  One whose command was killed alone may run beside it.        *)
OneInstaller ==
  \A c, o \in Command :
    {pc[c], pc[o]} \subseteq {"download", "extract"} => c = o

(* The lock is there because live operations and validation "may otherwise *)
(* run ansible-galaxy concurrently against the same worktree paths"        *)
(* (live_dependencies.py:312-314).                                         *)
OneGalaxy ==
  Cardinality({c \in Command : pc[c] \in {"download", "extract"}}) + Cardinality(stray) <= 1

(* Whoever waits or installs comes to an end: neither a failure nor a kill *)
(* leaves the dependency lock taken.                                       *)
EveryCommandEnds ==
  \A c \in Command : Active(c) ~> pc[c] \in {"playbook", "done", "failed"}
==============================================================================
