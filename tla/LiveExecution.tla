---------------------------- MODULE LiveExecution ----------------------------
(***************************************************************************)
(* The live execution boundary, scripts/lib/live-execution.sh: every       *)
(* run.sh, recover.sh and inspect.sh invocation takes a machine-local      *)
(* flock in its class, a mutating one also holds the fleet lock on the     *)
(* Proxmox host through an ssh session, then dependencies are reconciled   *)
(* and ansible-playbook runs.                                              *)
(*                                                                         *)
(* A flock belongs to an open file, so it is held as long as any process   *)
(* has the descriptor: lockFd and leaseFd record which processes do.  The  *)
(* wrapper, its child (uv run, then ansible-playbook), the ssh session and *)
(* the process on the Proxmox host fail separately.                        *)
(*                                                                         *)
(* Left out: message wording, worktree names, pid reuse, the vault         *)
(* password and the wrapper marker.                                        *)
(***************************************************************************)
EXTENDS Naturals

CONSTANTS
  Node,       \* control nodes
  Run,        \* invocations; each is made at most once
  NodeOf,     \* NodeOf[r]: the control node r is invoked on
  Class,      \* Class[r]: its lock class
  NoRun,      \* nobody
  MaxFaults   \* bound on signals, power losses and dropped sessions

LockClass == {"shared", "exclusive", "exclusive-local"}

ASSUME ConstantsOK ==
  /\ NodeOf \in [Run -> Node]
  /\ Class \in [Run -> LockClass]
  /\ NoRun \notin Run
  /\ MaxFaults \in Nat

VARIABLES
  pc,        \* pc[r]: where r's wrapper shell is in run_live_playbook
  status,    \* status[r]: its exit status, Unset while it is still 0
  meta,      \* meta[n]: the run that holds node n's metadata lock
  lockFd,    \* lockFd[r]: r's processes with the machine-local lock open
  record,    \* record[r]: the process r's holder record names
  child,     \* child[r]: what r's wrapper has forked
  leaseFd,   \* leaseFd[r]: r's processes with the write end of ssh's stdin
  ssh,       \* ssh[r]: r's ssh client
  answer,    \* answer[r]: the line of ssh output that decides the lease
  fleet,     \* the run whose session holds the lock on the Proxmox host
  dropped,   \* history: the runs that lost a session they had
  faults     \* faults so far

localVars == <<meta, lockFd, record>>
leaseVars == <<leaseFd, ssh, answer, fleet, dropped>>
vars == <<pc, status, localVars, child, leaseVars, faults>>

Unset == 999
NoLine == "none"

Location == {"idle", "metadata", "flock", "report", "record", "lease", "await",
             "deps", "launch", "playbook", "release", "close", "cleanup",
             "done", "killed"}
Process == {"wrapper", "child", "ssh"}

TypeOK ==
  /\ pc \in [Run -> Location]
  /\ status \in [Run -> {Unset, 0, 1, 3, 75}]
  /\ meta \in [Node -> Run \cup {NoRun}]
  /\ lockFd \in [Run -> SUBSET Process]
  /\ record \in [Run -> {"none", "wrapper", "child"}]
  /\ child \in [Run -> {"none", "deps", "forked", "playbook"}]
  /\ leaseFd \in [Run -> SUBSET Process]
  /\ ssh \in [Run -> {"none", "connecting", "up", "dead", "vanished"}]
  /\ answer \in [Run -> {NoLine, "acquired", "busy", "failed"}]
  /\ fleet \in Run \cup {NoRun}
  /\ dropped \in SUBSET Run
  /\ faults \in 0..MaxFaults

Init ==
  /\ pc = [r \in Run |-> "idle"]
  /\ status = [r \in Run |-> Unset]
  /\ meta = [n \in Node |-> NoRun]
  /\ lockFd = [r \in Run |-> {}]
  /\ record = [r \in Run |-> "none"]
  /\ child = [r \in Run |-> "none"]
  /\ leaseFd = [r \in Run |-> {}]
  /\ ssh = [r \in Run |-> "none"]
  /\ answer = [r \in Run |-> NoLine]
  /\ fleet = NoRun
  /\ dropped = {}
  /\ faults = 0

-----------------------------------------------------------------------------
UsesFleetLease(r) == Class[r] = "exclusive"

Stopped(r) == pc[r] \in {"done", "killed"}

(* The runs that hold node n's machine-local lock through some process. *)
Holders(n) == {q \in Run : NodeOf[q] = n /\ lockFd[q] # {}}

(* flock --shared or --exclusive, --nonblock, would succeed. *)
LockAvailable(r) ==
  \A q \in Holders(NodeOf[r]) : Class[q] = "shared" /\ Class[r] = "shared"

(* The runs report_live_lock_holder can name: their record points at a     *)
(* process that has the lock open, or at a parent that has.                *)
Nameable(n) ==
  {q \in Holders(n) : \/ record[q] = "wrapper" /\ "wrapper" \in lockFd[q]
                      \/ record[q] = "child" /\ lockFd[q] \cap {"wrapper", "child"} # {}}

Goto(r, l) == pc' = [pc EXCEPT ![r] = l]

(* The wrapper goes to l with exit status s. *)
Return(r, s, l) ==
  /\ Goto(r, l)
  /\ status' = [status EXCEPT ![r] = s]

FreeMetadata(r) ==
  meta' = [n \in Node |-> IF meta[n] = r THEN NoRun ELSE meta[n]]

-----------------------------------------------------------------------------
(* The machine-local lock. *)

(* run_live_playbook starts; it returns 1 when uv is missing. *)
Invoke(r) ==
  /\ pc[r] = "idle"
  /\ \/ Goto(r, "metadata") /\ UNCHANGED status
     \/ Return(r, 1, "done")
  /\ UNCHANGED <<localVars, child, leaseVars, faults>>

AcquireMetadata(r) ==
  /\ pc[r] = "metadata"
  /\ meta[NodeOf[r]] = NoRun
  /\ meta' = [meta EXCEPT ![NodeOf[r]] = r]
  /\ Goto(r, "flock")
  /\ UNCHANGED <<status, lockFd, record, child, leaseVars, faults>>

(* Mutant: the metadata lock is freed before the record is written. *)
TakeLock_FreesMetadata(r) ==
  /\ pc[r] = "flock"
  /\ LockAvailable(r)
  /\ lockFd' = [lockFd EXCEPT ![r] = {"wrapper"}]
  /\ FreeMetadata(r)
  /\ Goto(r, "record")
  /\ UNCHANGED <<status, record, child, leaseVars, faults>>

(* The 0.1 s wait expires and the one recheck finds the lock still taken. *)
MetadataBusy(r) ==
  /\ pc[r] = "metadata"
  /\ meta[NodeOf[r]] # NoRun
  /\ Return(r, 75, "done")
  /\ UNCHANGED <<localVars, child, leaseVars, faults>>

TakeLock(r) ==
  /\ pc[r] = "flock"
  /\ LockAvailable(r)
  /\ lockFd' = [lockFd EXCEPT ![r] = {"wrapper"}]
  /\ Goto(r, "record")
  /\ UNCHANGED <<status, meta, record, child, leaseVars, faults>>

LockBusy(r) ==
  /\ pc[r] = "flock"
  /\ ~LockAvailable(r)
  /\ Goto(r, "report")
  /\ UNCHANGED <<status, localVars, child, leaseVars, faults>>

(* report_live_lock_holder scans the records, under the metadata lock. *)
Report(r) ==
  /\ pc[r] = "report"
  /\ Return(r, 75, "done")
  /\ FreeMetadata(r)
  /\ UNCHANGED <<lockFd, record, child, leaseVars, faults>>

WriteRecord(r) ==
  /\ pc[r] = "record"
  /\ record' = [record EXCEPT ![r] = "wrapper"]
  /\ FreeMetadata(r)
  /\ Goto(r, IF UsesFleetLease(r) THEN "lease" ELSE "deps")
  /\ UNCHANGED <<status, lockFd, child, leaseVars, faults>>

-----------------------------------------------------------------------------
(* The fleet lease. *)

(* Mutant: the coproc keeps the machine-local lock's descriptor. *)
StartLease_KeepsLock(r) ==
  /\ pc[r] = "lease"
  /\ leaseFd' = [leaseFd EXCEPT ![r] = {"wrapper"}]
  /\ ssh' = [ssh EXCEPT ![r] = "connecting"]
  /\ lockFd' = [lockFd EXCEPT ![r] = @ \cup {"ssh"}]
  /\ Goto(r, "await")
  /\ UNCHANGED <<status, meta, record, child, answer, fleet, dropped, faults>>

(* The coproc closes the machine-local lock before it starts ssh. *)
StartLease(r) ==
  /\ pc[r] = "lease"
  /\ leaseFd' = [leaseFd EXCEPT ![r] = {"wrapper"}]
  /\ ssh' = [ssh EXCEPT ![r] = "connecting"]
  /\ Goto(r, "await")
  /\ UNCHANGED <<status, localVars, child, answer, fleet, dropped, faults>>

(* flock --nonblock on the Proxmox host succeeds; "acquired" is echoed. *)
RemoteAcquire(r) ==
  /\ ssh[r] = "connecting"
  /\ fleet = NoRun
  /\ fleet' = r
  /\ ssh' = [ssh EXCEPT ![r] = "up"]
  /\ answer' = [answer EXCEPT ![r] = "acquired"]
  /\ UNCHANGED <<pc, status, localVars, child, leaseFd, dropped, faults>>

(* ssh exits with 75, flock's conflict code. *)
RemoteBusy(r) ==
  /\ ssh[r] = "connecting"
  /\ fleet # NoRun
  /\ ssh' = [ssh EXCEPT ![r] = "dead"]
  /\ answer' = [answer EXCEPT ![r] = "busy"]
  /\ UNCHANGED <<pc, status, localVars, child, leaseFd, fleet, dropped, faults>>

(* Unreachable or untrusted: ssh exits with another status. *)
ConnectFails(r) ==
  /\ ssh[r] = "connecting"
  /\ ssh' = [ssh EXCEPT ![r] = "dead"]
  /\ answer' = [answer EXCEPT ![r] = "failed"]
  /\ UNCHANGED <<pc, status, localVars, child, leaseFd, fleet, dropped, faults>>

LeaseAcquired(r) ==
  /\ pc[r] = "await"
  /\ answer[r] = "acquired"
  /\ Goto(r, "deps")
  /\ UNCHANGED <<status, localVars, child, leaseVars, faults>>

(* Mutant: the status is recorded, but the run goes on. *)
LeaseRefused_GoesOn(r) ==
  /\ pc[r] = "await"
  /\ answer[r] \in {"busy", "failed"}
  /\ Return(r, IF answer[r] = "busy" THEN 3 ELSE 1, "deps")
  /\ leaseFd' = [leaseFd EXCEPT ![r] = {}]
  /\ UNCHANGED <<localVars, child, ssh, answer, fleet, dropped, faults>>

(* "Deferred by busy checks", 3, or "lock check failed", 1. *)
LeaseRefused(r) ==
  /\ pc[r] = "await"
  /\ answer[r] \in {"busy", "failed"}
  /\ Return(r, IF answer[r] = "busy" THEN 3 ELSE 1, "release")
  /\ leaseFd' = [leaseFd EXCEPT ![r] = {}]
  /\ UNCHANGED <<localVars, child, ssh, answer, fleet, dropped, faults>>

(* Mutant: read has no timeout. *)
LeaseTimeout_Never(r) == FALSE /\ UNCHANGED vars

(* Mutant: no answer is taken for a free lock, as ADR-0022 did. *)
LeaseTimeout_FailsOpen(r) ==
  /\ pc[r] = "await"
  /\ Goto(r, "deps")
  /\ UNCHANGED <<status, localVars, child, leaseVars, faults>>

(* No line within 30 s.  ssh outlives the coproc and may still connect and *)
(* take the lock; its stdin is at end of file then.                        *)
LeaseTimeout(r) ==
  /\ pc[r] = "await"
  /\ Return(r, 1, "release")
  /\ leaseFd' = [leaseFd EXCEPT ![r] = {}]
  /\ UNCHANGED <<localVars, child, ssh, answer, fleet, dropped, faults>>

(* Mutant: the remote command sleeps and never reads its stdin. *)
RemoteRelease_IgnoresEof(r) ==
  /\ fleet = r
  /\ ssh[r] = "dead"
  /\ fleet' = NoRun
  /\ UNCHANGED <<pc, status, localVars, child, leaseFd, ssh, answer, dropped, faults>>

(* cat on the Proxmox host reads end of file, or the connection closes. *)
RemoteRelease(r) ==
  /\ fleet = r
  /\ ssh[r] = "dead" \/ (ssh[r] = "up" /\ leaseFd[r] = {})
  /\ fleet' = NoRun
  /\ ssh' = [ssh EXCEPT ![r] = "dead"]
  /\ UNCHANGED <<pc, status, localVars, child, leaseFd, answer, dropped, faults>>

(* Mutant: the lock descriptor is close-on-exec. *)
Fork_LockNotInherited(r, c) ==
  /\ child' = [child EXCEPT ![r] = c]
  /\ leaseFd' = [leaseFd EXCEPT ![r] = @ \cup (IF UsesFleetLease(r) THEN {"child"} ELSE {})]
  /\ UNCHANGED lockFd

(* Mutant: the lease descriptor is a dup of the coproc's, close-on-exec. *)
Fork_LeaseNotInherited(r, c) ==
  /\ child' = [child EXCEPT ![r] = c]
  /\ lockFd' = [lockFd EXCEPT ![r] = @ \cup {"child"}]
  /\ UNCHANGED leaseFd

-----------------------------------------------------------------------------
(* The children.  Both inherit the lock and, if there is one, the lease. *)

Fork(r, c) ==
  /\ child' = [child EXCEPT ![r] = c]
  /\ lockFd' = [lockFd EXCEPT ![r] = @ \cup {"child"}]
  /\ leaseFd' = [leaseFd EXCEPT ![r] = @ \cup (IF UsesFleetLease(r) THEN {"child"} ELSE {})]

ChildExits(r) ==
  /\ child' = [child EXCEPT ![r] = "none"]
  /\ lockFd' = [lockFd EXCEPT ![r] = @ \ {"child"}]
  /\ leaseFd' = [leaseFd EXCEPT ![r] = @ \ {"child"}]

StartDependencies(r) ==
  /\ pc[r] = "deps"
  /\ child[r] = "none"
  /\ Fork(r, "deps")
  /\ UNCHANGED <<pc, status, meta, record, ssh, answer, fleet, dropped, faults>>

(* A wrapper that was killed does not go on; its child still ends. *)
DependenciesExit(r) ==
  /\ child[r] = "deps"
  /\ ChildExits(r)
  /\ \/ Stopped(r) /\ UNCHANGED <<pc, status>>
     \/ ~Stopped(r) /\ Goto(r, "launch") /\ UNCHANGED status
     \/ ~Stopped(r) /\ Return(r, 1, "release")
  /\ UNCHANGED <<meta, record, ssh, answer, fleet, dropped, faults>>

LaunchPlaybook(r) ==
  /\ pc[r] = "launch"
  /\ Fork(r, "forked")
  /\ Goto(r, "playbook")
  /\ UNCHANGED <<status, meta, record, ssh, answer, fleet, dropped, faults>>

(* The subshell records its own pid, then becomes ansible-playbook. *)
ExecPlaybook(r) ==
  /\ child[r] = "forked"
  /\ child' = [child EXCEPT ![r] = "playbook"]
  /\ record' = [record EXCEPT ![r] = "child"]
  /\ UNCHANGED <<pc, status, meta, lockFd, leaseVars, faults>>

(* Any failure of ansible-playbook becomes 1. *)
PlaybookExits(r) ==
  /\ child[r] = "playbook"
  /\ ChildExits(r)
  /\ \/ Stopped(r) /\ UNCHANGED <<pc, status>>
     \/ ~Stopped(r) /\ \E s \in {0, 1} : Return(r, s, "release")
  /\ UNCHANGED <<meta, record, ssh, answer, fleet, dropped, faults>>

-----------------------------------------------------------------------------
(* The release. *)

(* It waits 0.1 s for the metadata lock, and goes on without it. *)
Release(r) ==
  /\ pc[r] = "release"
  /\ meta' = [meta EXCEPT ![NodeOf[r]] = IF @ = NoRun THEN r ELSE @]
  /\ Goto(r, "close")
  /\ UNCHANGED <<status, lockFd, record, child, leaseVars, faults>>

CloseLocks(r) ==
  /\ pc[r] = "close"
  /\ leaseFd' = [leaseFd EXCEPT ![r] = @ \ {"wrapper"}]
  /\ lockFd' = [lockFd EXCEPT ![r] = @ \ {"wrapper"}]
  /\ Goto(r, "cleanup")
  /\ UNCHANGED <<status, meta, record, child, ssh, answer, fleet, dropped, faults>>

RemoveRecord(r) ==
  /\ pc[r] = "cleanup"
  /\ record' = [record EXCEPT ![r] = "none"]
  /\ FreeMetadata(r)
  /\ Goto(r, "done")
  /\ UNCHANGED <<status, lockFd, child, leaseVars, faults>>

-----------------------------------------------------------------------------
(* Faults. *)

Fault == faults < MaxFaults /\ faults' = faults + 1

(* The wrapper's descriptors close; nothing else of the run notices. *)
WrapperDies(r) ==
  /\ Goto(r, "killed")
  /\ lockFd' = [lockFd EXCEPT ![r] = @ \ {"wrapper"}]
  /\ leaseFd' = [leaseFd EXCEPT ![r] = @ \ {"wrapper"}]
  /\ FreeMetadata(r)

(* kill -9 of the wrapper alone. *)
KillWrapper(r) ==
  /\ pc[r] # "idle" /\ ~Stopped(r)
  /\ Fault
  /\ WrapperDies(r)
  /\ UNCHANGED <<status, record, child, ssh, answer, fleet, dropped>>

(* Ctrl-C signals the process group.  ssh dies at once; a child winds down *)
(* while the wrapper waits for it; a wrapper without a child dies.         *)
Interrupt(r) ==
  /\ pc[r] # "idle" /\ ~Stopped(r)
  /\ Fault
  /\ IF ssh[r] \in {"connecting", "up"}
       THEN /\ ssh' = [ssh EXCEPT ![r] = "dead"]
            /\ answer' = [answer EXCEPT ![r] = IF @ = NoLine THEN "failed" ELSE @]
       ELSE UNCHANGED <<ssh, answer>>
  /\ dropped' = dropped \cup (IF ssh[r] = "up" THEN {r} ELSE {})
  /\ \/ child[r] = "none" /\ WrapperDies(r)
     \/ child[r] # "none" /\ UNCHANGED <<pc, meta, lockFd, leaseFd>>
  /\ UNCHANGED <<status, record, child, fleet>>

(* fuser -k on the Proxmox host, or TCP keepalive giving up on a client    *)
(* that is suspended or cut off but still alive.                           *)
DropSession(r) ==
  /\ fleet = r /\ ssh[r] = "up"
  /\ Fault
  /\ fleet' = NoRun
  /\ ssh' = [ssh EXCEPT ![r] = "dead"]
  /\ dropped' = dropped \cup {r}
  /\ UNCHANGED <<pc, status, localVars, child, leaseFd, answer>>

(* A control node loses power: its processes are gone, its sessions stay   *)
(* open on the Proxmox host, and its holder records stay on disk.          *)
NodeVanishes(n) ==
  LET lost == {r \in Run : NodeOf[r] = n /\ pc[r] # "idle"}
  IN /\ \E r \in lost : ~Stopped(r) \/ child[r] # "none"
     /\ Fault
     /\ pc' = [r \in Run |-> IF r \in lost /\ ~Stopped(r) THEN "killed" ELSE pc[r]]
     /\ meta' = [meta EXCEPT ![n] = NoRun]
     /\ lockFd' = [r \in Run |-> IF r \in lost THEN {} ELSE lockFd[r]]
     /\ leaseFd' = [r \in Run |-> IF r \in lost THEN {} ELSE leaseFd[r]]
     /\ child' = [r \in Run |-> IF r \in lost THEN "none" ELSE child[r]]
     /\ ssh' = [r \in Run |-> IF r \in lost /\ ssh[r] \in {"connecting", "up"}
                                THEN "vanished" ELSE ssh[r]]
     /\ UNCHANGED <<status, record, answer, fleet, dropped>>

(* About 7875 s later TCP keepalive drops the stranded session. *)
StrandedExpires(r) ==
  /\ fleet = r /\ ssh[r] = "vanished"
  /\ fleet' = NoRun
  /\ UNCHANGED <<pc, status, localVars, child, leaseFd, ssh, answer, dropped, faults>>

-----------------------------------------------------------------------------
Wrapper(r) ==
  \/ Invoke(r) \/ AcquireMetadata(r) \/ MetadataBusy(r)
  \/ TakeLock(r) \/ LockBusy(r) \/ Report(r) \/ WriteRecord(r)
  \/ StartLease(r) \/ LeaseAcquired(r) \/ LeaseRefused(r) \/ LeaseTimeout(r)
  \/ StartDependencies(r) \/ LaunchPlaybook(r)
  \/ Release(r) \/ CloseLocks(r) \/ RemoveRecord(r)

Child(r) == DependenciesExit(r) \/ ExecPlaybook(r) \/ PlaybookExits(r)

Proxmox(r) ==
  \/ RemoteAcquire(r) \/ RemoteBusy(r) \/ ConnectFails(r)
  \/ RemoteRelease(r) \/ StrandedExpires(r)

RunFault(r) == KillWrapper(r) \/ Interrupt(r) \/ DropSession(r)

Next ==
  \/ \E r \in Run : Wrapper(r) \/ Child(r) \/ Proxmox(r) \/ RunFault(r)
  \/ \E n \in Node : NodeVanishes(n)

Spec == Init /\ [][Next]_vars

(* Scheduling: a started shell goes on; uv run and ansible-playbook end;   *)
(* sshd notices end of file and closed connections; keepalive gives up.    *)
(* Nothing makes ssh answer, and nobody has to invoke a run.               *)
Fairness ==
  /\ \A r \in Run : WF_vars(pc[r] # "idle" /\ Wrapper(r))
  /\ \A r \in Run : WF_vars(Child(r))
  /\ \A r \in Run : WF_vars(RemoteRelease(r) \/ StrandedExpires(r))

FairSpec == Spec /\ Fairness

-----------------------------------------------------------------------------
(* Properties. *)

PlaybookRuns(r) == child[r] \in {"forked", "playbook"}

(* On one control node a playbook never runs beside a conflicting one:     *)
(* reads overlap reads only, even after a wrapper was killed and its       *)
(* playbook goes on alone (docs/command-policy.md, "The lock").            *)
LocalExclusion ==
  \A q, r \in Run :
    q # r /\ NodeOf[q] = NodeOf[r] /\ PlaybookRuns(q) /\ PlaybookRuns(r)
      => Class[q] = "shared" /\ Class[r] = "shared"

(* Two fleet-mutating playbooks never run at once, on whatever nodes,      *)
(* unless one of them lost its session to the Proxmox host mid-run         *)
(* (ADR-0024).  Killed wrappers, late ssh answers and stranded locks do    *)
(* not break it.                                                           *)
FleetExclusion ==
  \A q, r \in Run :
    q # r /\ UsesFleetLease(q) /\ UsesFleetLease(r) /\ PlaybookRuns(q) /\ PlaybookRuns(r)
      => q \in dropped \/ r \in dropped

(* A run whose wrapper has ended and whose child has ended holds no        *)
(* machine-local lock, whatever its ssh session is still doing: a hung ssh *)
(* cannot keep that lock.                                                  *)
NoLockOutlivesItsRun ==
  \A r \in Run : Stopped(r) /\ child[r] = "none" => lockFd[r] = {}

(* Whenever a contender reports who keeps it out, the report can name      *)
(* every holder that still has its wrapper or its playbook: the record is  *)
(* written before the metadata lock is freed and outlives the lock.        *)
SupervisedHolderIsNameable ==
  \A r \in Run : pc[r] = "report" =>
    \A q \in Holders(NodeOf[r]) :
      "wrapper" \in lockFd[q] \/ child[q] = "playbook" => q \in Nameable(NodeOf[r])

(* A run that has been given a failing exit status, 75 and 3 included,     *)
(* starts nothing from then on: "this run not started".                    *)
RefusedRunStartsNothing ==
  [][\A r \in Run : status[r] \notin {Unset, 0} /\ child[r] = "none"
                      => child'[r] = "none"]_vars

(* The boundary implements the gate. *)
Gate == INSTANCE ExecutionGate WITH
          active <- {r \in Run : PlaybookRuns(r)}, lapsed <- dropped

GateSpec == Gate!Spec

(* Every run that is invoked ends: nothing waits without a bound for a     *)
(* lock, and a Proxmox host that never answers costs 30 s.                 *)
RunEnds == \A r \in Run : pc[r] # "idle" ~> Stopped(r)

(* The fleet lock never stays with one run for ever, whatever died: a late *)
(* ssh that connects after its run gave up releases it, and a stranded     *)
(* lock frees itself.                                                      *)
FleetLockIsFreed == \A r \in Run : fleet = r ~> fleet # r
=============================================================================
