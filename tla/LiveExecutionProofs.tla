------------------------ MODULE LiveExecutionProofs ------------------------
(***************************************************************************)
(* Theorems about LiveExecution, for every set of control nodes and        *)
(* invocations, every assignment of lock classes and any number of faults. *)
(*                                                                         *)
(* The argument: what a run has forked keeps both descriptors open         *)
(* (DescriptorInv, LeaseInv), so the machine-local lock is held exactly    *)
(* while a wrapper is between taking and closing it or a child lives, and  *)
(* an ssh session that was answered and not dropped still owns the fleet   *)
(* lock.                                                                   *)
(***************************************************************************)
EXTENDS LiveExecution, TLAPS

(* Where the wrapper has the machine-local lock open. *)
Locked == {"record", "lease", "await", "deps", "launch", "playbook", "release", "close"}

(* Where the ssh session has not been started. *)
BeforeLease == {"idle", "metadata", "flock", "report", "record", "lease"}

(* The machine-local lock's descriptor: the wrapper's and the child's. *)
DescriptorInv ==
  \A r \in Run :
    /\ "wrapper" \in lockFd[r] <=> pc[r] \in Locked
    /\ "child" \in lockFd[r] <=> child[r] # "none"
    /\ "ssh" \notin lockFd[r]

(* A child runs where its wrapper waits for it, or was killed. *)
ChildInv ==
  \A r \in Run :
    /\ child[r] = "deps" => pc[r] \in {"deps", "killed"}
    /\ child[r] \in {"forked", "playbook"} => pc[r] \in {"playbook", "killed"}

(* flock's own rule, for every process that has the lock open. *)
CompatibleInv ==
  \A q, r \in Run :
    q # r /\ NodeOf[q] = NodeOf[r] /\ lockFd[q] # {} /\ lockFd[r] # {}
      => Class[q] = "shared" /\ Class[r] = "shared"

(* Before the lease there is no session; until ssh ends or the lock is     *)
(* taken there is no answer.                                               *)
FreshInv ==
  \A r \in Run :
    /\ pc[r] \in BeforeLease => ssh[r] = "none"
    /\ ssh[r] \in {"none", "connecting"} => answer[r] = NoLine

(* Past the lease an exclusive run was answered and keeps ssh's stdin open. *)
LeaseInv ==
  \A r \in Run : UsesFleetLease(r) =>
    /\ pc[r] \in {"await", "deps", "launch", "playbook"} => "wrapper" \in leaseFd[r]
    /\ pc[r] \in {"deps", "launch", "playbook"} => answer[r] = "acquired"
    /\ child[r] # "none" => "child" \in leaseFd[r] /\ answer[r] = "acquired"

(* An answered session with an open stdin that never dropped has the lock. *)
SessionInv ==
  \A r \in Run :
    answer[r] = "acquired" /\ r \notin dropped /\ leaseFd[r] # {}
      => fleet = r /\ ssh[r] = "up"

(* A contender, and a holder that has not recorded itself yet, have the    *)
(* metadata lock; every later holder has a record.                         *)
RecordInv ==
  \A r \in Run :
    /\ pc[r] \in {"flock", "report", "record"} => meta[NodeOf[r]] = r
    /\ pc[r] \in Locked \ {"record"} => record[r] # "none"
    /\ child[r] = "playbook" => record[r] = "child"

(* An exit status is given on the way out only. *)
StatusInv ==
  \A r \in Run :
    status[r] # Unset => pc[r] \in {"release", "close", "cleanup", "done", "killed"}

IInv ==
  /\ TypeOK
  /\ DescriptorInv
  /\ ChildInv
  /\ CompatibleInv
  /\ FreshInv
  /\ LeaseInv
  /\ SessionInv
  /\ RecordInv
  /\ StatusInv

-----------------------------------------------------------------------------
LEMMA InitInv == Init => IInv
  BY ConstantsOK
  DEF Init, IInv, TypeOK, DescriptorInv, ChildInv, CompatibleInv, FreshInv, LeaseInv,
      SessionInv, RecordInv, StatusInv, Locked, BeforeLease, Location, Process, NoLine, Unset

(* Every step keeps the types. *)
LEMMA TypeStep == ASSUME TypeOK, [Next]_vars PROVE TypeOK'
<1> USE ConstantsOK DEF TypeOK, Location, Process, NoLine, Unset, Goto, Return, FreeMetadata,
        localVars, leaseVars
<1>1. ASSUME NEW r \in Run, Wrapper(r) PROVE TypeOK'
  <2>1. CASE Invoke(r) BY <2>1 DEF Invoke
  <2>2. CASE AcquireMetadata(r) BY <2>2 DEF AcquireMetadata
  <2>3. CASE MetadataBusy(r) BY <2>3 DEF MetadataBusy
  <2>4. CASE TakeLock(r) BY <2>4 DEF TakeLock
  <2>5. CASE LockBusy(r) BY <2>5 DEF LockBusy
  <2>6. CASE Report(r) BY <2>6 DEF Report
  <2>7. CASE WriteRecord(r) BY <2>7 DEF WriteRecord
  <2>8. CASE StartLease(r) BY <2>8 DEF StartLease
  <2>9. CASE LeaseAcquired(r) BY <2>9 DEF LeaseAcquired
  <2>10. CASE LeaseRefused(r) BY <2>10 DEF LeaseRefused
  <2>11. CASE LeaseTimeout(r) BY <2>11 DEF LeaseTimeout
  <2>12. CASE StartDependencies(r) BY <2>12 DEF StartDependencies, Fork
  <2>13. CASE LaunchPlaybook(r) BY <2>13 DEF LaunchPlaybook, Fork
  <2>14. CASE Release(r) BY <2>14 DEF Release
  <2>15. CASE CloseLocks(r) BY <2>15 DEF CloseLocks
  <2>16. CASE RemoveRecord(r) BY <2>16 DEF RemoveRecord
  <2>17. QED
    BY <1>1, <2>1, <2>2, <2>3, <2>4, <2>5, <2>6, <2>7, <2>8, <2>9, <2>10, <2>11, <2>12,
       <2>13, <2>14, <2>15, <2>16 DEF Wrapper
<1>2. ASSUME NEW r \in Run, Child(r) PROVE TypeOK'
  <2>1. CASE DependenciesExit(r) BY <2>1 DEF DependenciesExit, ChildExits
  <2>2. CASE ExecPlaybook(r) BY <2>2 DEF ExecPlaybook
  <2>3. CASE PlaybookExits(r) BY <2>3 DEF PlaybookExits, ChildExits
  <2>4. QED BY <1>2, <2>1, <2>2, <2>3 DEF Child
<1>3. ASSUME NEW r \in Run, Proxmox(r) PROVE TypeOK'
  <2>1. CASE RemoteAcquire(r) BY <2>1 DEF RemoteAcquire
  <2>2. CASE RemoteBusy(r) BY <2>2 DEF RemoteBusy
  <2>3. CASE ConnectFails(r) BY <2>3 DEF ConnectFails
  <2>4. CASE RemoteRelease(r) BY <2>4 DEF RemoteRelease
  <2>5. CASE StrandedExpires(r) BY <2>5 DEF StrandedExpires
  <2>6. QED BY <1>3, <2>1, <2>2, <2>3, <2>4, <2>5 DEF Proxmox
<1>4. ASSUME NEW r \in Run, RunFault(r) PROVE TypeOK'
  <2>1. CASE KillWrapper(r) BY <2>1 DEF KillWrapper, Fault, WrapperDies
  <2>2. CASE Interrupt(r) BY <2>2 DEF Interrupt, Fault, WrapperDies
  <2>3. CASE DropSession(r) BY <2>3 DEF DropSession, Fault
  <2>4. QED BY <1>4, <2>1, <2>2, <2>3 DEF RunFault
<1>5. ASSUME NEW n \in Node, NodeVanishes(n) PROVE TypeOK'
  BY <1>5 DEF NodeVanishes, Fault
<1>6. CASE UNCHANGED vars BY <1>6 DEF vars
<1>7. QED BY <1>1, <1>2, <1>3, <1>4, <1>5, <1>6 DEF Next

(* The lock descriptor is open in exactly the processes that should have it. *)
LEMMA DescriptorStep == ASSUME TypeOK, DescriptorInv, ChildInv, [Next]_vars PROVE DescriptorInv'
<1> USE ConstantsOK DEF TypeOK, Goto, Return, localVars, leaseVars, DescriptorInv, ChildInv, Locked, Stopped
<1>1. ASSUME NEW r \in Run, Wrapper(r) PROVE DescriptorInv'
  <2>1. CASE Invoke(r) BY <2>1 DEF Invoke
  <2>2. CASE AcquireMetadata(r) BY <2>2 DEF AcquireMetadata
  <2>3. CASE MetadataBusy(r) BY <2>3 DEF MetadataBusy
  <2>4. CASE TakeLock(r) BY <2>4 DEF TakeLock
  <2>5. CASE LockBusy(r) BY <2>5 DEF LockBusy
  <2>6. CASE Report(r) BY <2>6 DEF Report
  <2>7. CASE WriteRecord(r) BY <2>7 DEF WriteRecord
  <2>8. CASE StartLease(r) BY <2>8 DEF StartLease
  <2>9. CASE LeaseAcquired(r) BY <2>9 DEF LeaseAcquired
  <2>10. CASE LeaseRefused(r) BY <2>10 DEF LeaseRefused
  <2>11. CASE LeaseTimeout(r) BY <2>11 DEF LeaseTimeout
  <2>12. CASE StartDependencies(r) BY <2>12 DEF StartDependencies, Fork
  <2>13. CASE LaunchPlaybook(r) BY <2>13 DEF LaunchPlaybook, Fork
  <2>14. CASE Release(r) BY <2>14 DEF Release
  <2>15. CASE CloseLocks(r) BY <2>15 DEF CloseLocks
  <2>16. CASE RemoveRecord(r) BY <2>16 DEF RemoveRecord
  <2>17. QED BY <1>1, <2>1, <2>2, <2>3, <2>4, <2>5, <2>6, <2>7, <2>8, <2>9, <2>10, <2>11,
       <2>12, <2>13, <2>14, <2>15, <2>16 DEF Wrapper
<1>2. ASSUME NEW r \in Run, Child(r) PROVE DescriptorInv'
  <2>1. CASE DependenciesExit(r) BY <2>1 DEF DependenciesExit, ChildExits
  <2>2. CASE ExecPlaybook(r) BY <2>2 DEF ExecPlaybook
  <2>3. CASE PlaybookExits(r) BY <2>3 DEF PlaybookExits, ChildExits
  <2>4. QED BY <1>2, <2>1, <2>2, <2>3 DEF Child
<1>3. ASSUME NEW r \in Run, Proxmox(r) PROVE DescriptorInv'
  <2>1. CASE RemoteAcquire(r) BY <2>1 DEF RemoteAcquire
  <2>2. CASE RemoteBusy(r) BY <2>2 DEF RemoteBusy
  <2>3. CASE ConnectFails(r) BY <2>3 DEF ConnectFails
  <2>4. CASE RemoteRelease(r) BY <2>4 DEF RemoteRelease
  <2>5. CASE StrandedExpires(r) BY <2>5 DEF StrandedExpires
  <2>6. QED BY <1>3, <2>1, <2>2, <2>3, <2>4, <2>5 DEF Proxmox
<1>4. ASSUME NEW r \in Run, RunFault(r) PROVE DescriptorInv'
  <2>1. CASE KillWrapper(r) BY <2>1 DEF KillWrapper, Fault, WrapperDies
  <2>2. CASE Interrupt(r) BY <2>2 DEF Interrupt, Fault, WrapperDies
  <2>3. CASE DropSession(r) BY <2>3 DEF DropSession, Fault
  <2>4. QED BY <1>4, <2>1, <2>2, <2>3 DEF RunFault
<1>5. ASSUME NEW n \in Node, NodeVanishes(n) PROVE DescriptorInv'
  BY <1>5 DEF NodeVanishes, Fault
<1>6. CASE UNCHANGED vars BY <1>6 DEF vars
<1>7. QED BY <1>1, <1>2, <1>3, <1>4, <1>5, <1>6 DEF Next

(* A child never outruns its wrapper: the wrapper waits or is gone. *)
LEMMA ChildStep == ASSUME TypeOK, ChildInv, [Next]_vars PROVE ChildInv'
<1> USE ConstantsOK DEF TypeOK, Goto, Return, localVars, leaseVars, ChildInv, Stopped
<1>1. ASSUME NEW r \in Run, Wrapper(r) PROVE ChildInv'
  <2>1. CASE Invoke(r) BY <2>1 DEF Invoke
  <2>2. CASE AcquireMetadata(r) BY <2>2 DEF AcquireMetadata
  <2>3. CASE MetadataBusy(r) BY <2>3 DEF MetadataBusy
  <2>4. CASE TakeLock(r) BY <2>4 DEF TakeLock
  <2>5. CASE LockBusy(r) BY <2>5 DEF LockBusy
  <2>6. CASE Report(r) BY <2>6 DEF Report
  <2>7. CASE WriteRecord(r) BY <2>7 DEF WriteRecord
  <2>8. CASE StartLease(r) BY <2>8 DEF StartLease
  <2>9. CASE LeaseAcquired(r) BY <2>9 DEF LeaseAcquired
  <2>10. CASE LeaseRefused(r) BY <2>10 DEF LeaseRefused
  <2>11. CASE LeaseTimeout(r) BY <2>11 DEF LeaseTimeout
  <2>12. CASE StartDependencies(r) BY <2>12 DEF StartDependencies, Fork
  <2>13. CASE LaunchPlaybook(r) BY <2>13 DEF LaunchPlaybook, Fork
  <2>14. CASE Release(r) BY <2>14 DEF Release
  <2>15. CASE CloseLocks(r) BY <2>15 DEF CloseLocks
  <2>16. CASE RemoveRecord(r) BY <2>16 DEF RemoveRecord
  <2>17. QED BY <1>1, <2>1, <2>2, <2>3, <2>4, <2>5, <2>6, <2>7, <2>8, <2>9, <2>10, <2>11,
       <2>12, <2>13, <2>14, <2>15, <2>16 DEF Wrapper
<1>2. ASSUME NEW r \in Run, Child(r) PROVE ChildInv'
  <2>1. CASE DependenciesExit(r) BY <2>1 DEF DependenciesExit, ChildExits
  <2>2. CASE ExecPlaybook(r) BY <2>2 DEF ExecPlaybook
  <2>3. CASE PlaybookExits(r) BY <2>3 DEF PlaybookExits, ChildExits
  <2>4. QED BY <1>2, <2>1, <2>2, <2>3 DEF Child
<1>3. ASSUME NEW r \in Run, Proxmox(r) PROVE ChildInv'
  <2>1. CASE RemoteAcquire(r) BY <2>1 DEF RemoteAcquire
  <2>2. CASE RemoteBusy(r) BY <2>2 DEF RemoteBusy
  <2>3. CASE ConnectFails(r) BY <2>3 DEF ConnectFails
  <2>4. CASE RemoteRelease(r) BY <2>4 DEF RemoteRelease
  <2>5. CASE StrandedExpires(r) BY <2>5 DEF StrandedExpires
  <2>6. QED BY <1>3, <2>1, <2>2, <2>3, <2>4, <2>5 DEF Proxmox
<1>4. ASSUME NEW r \in Run, RunFault(r) PROVE ChildInv'
  <2>1. CASE KillWrapper(r) BY <2>1 DEF KillWrapper, Fault, WrapperDies
  <2>2. CASE Interrupt(r) BY <2>2 DEF Interrupt, Fault, WrapperDies
  <2>3. CASE DropSession(r) BY <2>3 DEF DropSession, Fault
  <2>4. QED BY <1>4, <2>1, <2>2, <2>3 DEF RunFault
<1>5. ASSUME NEW n \in Node, NodeVanishes(n) PROVE ChildInv'
  BY <1>5 DEF NodeVanishes, Fault
<1>6. CASE UNCHANGED vars BY <1>6 DEF vars
<1>7. QED BY <1>1, <1>2, <1>3, <1>4, <1>5, <1>6 DEF Next

(* Nothing but flock adds a holder, and flock looks at every holder. *)
LEMMA CompatibleStep == ASSUME TypeOK, DescriptorInv, ChildInv, CompatibleInv, [Next]_vars PROVE CompatibleInv'
<1> USE ConstantsOK DEF TypeOK, Goto, Return, localVars, leaseVars, CompatibleInv
<1>1. ASSUME NEW r \in Run, Wrapper(r) PROVE CompatibleInv'
  <2>1. CASE Invoke(r) BY <2>1 DEF Invoke
  <2>2. CASE AcquireMetadata(r) BY <2>2 DEF AcquireMetadata
  <2>3. CASE MetadataBusy(r) BY <2>3 DEF MetadataBusy
  <2>4. CASE TakeLock(r) BY <2>4 DEF TakeLock, LockAvailable, Holders
  <2>5. CASE LockBusy(r) BY <2>5 DEF LockBusy
  <2>6. CASE Report(r) BY <2>6 DEF Report
  <2>7. CASE WriteRecord(r) BY <2>7 DEF WriteRecord
  <2>8. CASE StartLease(r) BY <2>8 DEF StartLease
  <2>9. CASE LeaseAcquired(r) BY <2>9 DEF LeaseAcquired
  <2>10. CASE LeaseRefused(r) BY <2>10 DEF LeaseRefused
  <2>11. CASE LeaseTimeout(r) BY <2>11 DEF LeaseTimeout
  <2>12. CASE StartDependencies(r) BY <2>12 DEF StartDependencies, Fork, DescriptorInv, Locked
  <2>13. CASE LaunchPlaybook(r) BY <2>13 DEF LaunchPlaybook, Fork, DescriptorInv, Locked
  <2>14. CASE Release(r) BY <2>14 DEF Release
  <2>15. CASE CloseLocks(r) BY <2>15 DEF CloseLocks
  <2>16. CASE RemoveRecord(r) BY <2>16 DEF RemoveRecord
  <2>17. QED BY <1>1, <2>1, <2>2, <2>3, <2>4, <2>5, <2>6, <2>7, <2>8, <2>9, <2>10, <2>11,
       <2>12, <2>13, <2>14, <2>15, <2>16 DEF Wrapper
<1>2. ASSUME NEW r \in Run, Child(r) PROVE CompatibleInv'
  <2>1. CASE DependenciesExit(r) BY <2>1 DEF DependenciesExit, ChildExits
  <2>2. CASE ExecPlaybook(r) BY <2>2 DEF ExecPlaybook
  <2>3. CASE PlaybookExits(r) BY <2>3 DEF PlaybookExits, ChildExits
  <2>4. QED BY <1>2, <2>1, <2>2, <2>3 DEF Child
<1>3. ASSUME NEW r \in Run, Proxmox(r) PROVE CompatibleInv'
  <2>1. CASE RemoteAcquire(r) BY <2>1 DEF RemoteAcquire
  <2>2. CASE RemoteBusy(r) BY <2>2 DEF RemoteBusy
  <2>3. CASE ConnectFails(r) BY <2>3 DEF ConnectFails
  <2>4. CASE RemoteRelease(r) BY <2>4 DEF RemoteRelease
  <2>5. CASE StrandedExpires(r) BY <2>5 DEF StrandedExpires
  <2>6. QED BY <1>3, <2>1, <2>2, <2>3, <2>4, <2>5 DEF Proxmox
<1>4. ASSUME NEW r \in Run, RunFault(r) PROVE CompatibleInv'
  <2>1. CASE KillWrapper(r) BY <2>1 DEF KillWrapper, Fault, WrapperDies
  <2>2. CASE Interrupt(r) BY <2>2 DEF Interrupt, Fault, WrapperDies
  <2>3. CASE DropSession(r) BY <2>3 DEF DropSession, Fault
  <2>4. QED BY <1>4, <2>1, <2>2, <2>3 DEF RunFault
<1>5. ASSUME NEW n \in Node, NodeVanishes(n) PROVE CompatibleInv'
  BY <1>5 DEF NodeVanishes, Fault
<1>6. CASE UNCHANGED vars BY <1>6 DEF vars
<1>7. QED BY <1>1, <1>2, <1>3, <1>4, <1>5, <1>6 DEF Next

(* A run starts its session once, in the lease step. *)
LEMMA FreshStep == ASSUME TypeOK, FreshInv, [Next]_vars PROVE FreshInv'
<1> USE ConstantsOK DEF TypeOK, Goto, Return, localVars, leaseVars, FreshInv, BeforeLease, NoLine
<1>1. ASSUME NEW r \in Run, Wrapper(r) PROVE FreshInv'
  <2>1. CASE Invoke(r) BY <2>1 DEF Invoke
  <2>2. CASE AcquireMetadata(r) BY <2>2 DEF AcquireMetadata
  <2>3. CASE MetadataBusy(r) BY <2>3 DEF MetadataBusy
  <2>4. CASE TakeLock(r) BY <2>4 DEF TakeLock
  <2>5. CASE LockBusy(r) BY <2>5 DEF LockBusy
  <2>6. CASE Report(r) BY <2>6 DEF Report
  <2>7. CASE WriteRecord(r) BY <2>7 DEF WriteRecord
  <2>8. CASE StartLease(r) BY <2>8 DEF StartLease
  <2>9. CASE LeaseAcquired(r) BY <2>9 DEF LeaseAcquired
  <2>10. CASE LeaseRefused(r) BY <2>10 DEF LeaseRefused
  <2>11. CASE LeaseTimeout(r) BY <2>11 DEF LeaseTimeout
  <2>12. CASE StartDependencies(r) BY <2>12 DEF StartDependencies, Fork
  <2>13. CASE LaunchPlaybook(r) BY <2>13 DEF LaunchPlaybook, Fork
  <2>14. CASE Release(r) BY <2>14 DEF Release
  <2>15. CASE CloseLocks(r) BY <2>15 DEF CloseLocks
  <2>16. CASE RemoveRecord(r) BY <2>16 DEF RemoveRecord
  <2>17. QED BY <1>1, <2>1, <2>2, <2>3, <2>4, <2>5, <2>6, <2>7, <2>8, <2>9, <2>10, <2>11,
       <2>12, <2>13, <2>14, <2>15, <2>16 DEF Wrapper
<1>2. ASSUME NEW r \in Run, Child(r) PROVE FreshInv'
  <2>1. CASE DependenciesExit(r) BY <2>1 DEF DependenciesExit, ChildExits
  <2>2. CASE ExecPlaybook(r) BY <2>2 DEF ExecPlaybook
  <2>3. CASE PlaybookExits(r) BY <2>3 DEF PlaybookExits, ChildExits
  <2>4. QED BY <1>2, <2>1, <2>2, <2>3 DEF Child
<1>3. ASSUME NEW r \in Run, Proxmox(r) PROVE FreshInv'
  <2>1. CASE RemoteAcquire(r) BY <2>1 DEF RemoteAcquire
  <2>2. CASE RemoteBusy(r) BY <2>2 DEF RemoteBusy
  <2>3. CASE ConnectFails(r) BY <2>3 DEF ConnectFails
  <2>4. CASE RemoteRelease(r) BY <2>4 DEF RemoteRelease
  <2>5. CASE StrandedExpires(r) BY <2>5 DEF StrandedExpires
  <2>6. QED BY <1>3, <2>1, <2>2, <2>3, <2>4, <2>5 DEF Proxmox
<1>4. ASSUME NEW r \in Run, RunFault(r) PROVE FreshInv'
  <2>1. CASE KillWrapper(r) BY <2>1 DEF KillWrapper, Fault, WrapperDies
  <2>2. CASE Interrupt(r) BY <2>2 DEF Interrupt, Fault, WrapperDies
  <2>3. CASE DropSession(r) BY <2>3 DEF DropSession, Fault
  <2>4. QED BY <1>4, <2>1, <2>2, <2>3 DEF RunFault
<1>5. ASSUME NEW n \in Node, NodeVanishes(n) PROVE FreshInv'
  BY <1>5 DEF NodeVanishes, Fault, Stopped
<1>6. CASE UNCHANGED vars BY <1>6 DEF vars
<1>7. QED BY <1>1, <1>2, <1>3, <1>4, <1>5, <1>6 DEF Next

(* The lease descriptor is passed on and the answer does not change. *)
LEMMA LeaseStep == ASSUME TypeOK, ChildInv, FreshInv, LeaseInv, [Next]_vars PROVE LeaseInv'
<1> USE ConstantsOK DEF TypeOK, Goto, Return, localVars, leaseVars, ChildInv, LeaseInv, Stopped, NoLine
<1>1. ASSUME NEW r \in Run, Wrapper(r) PROVE LeaseInv'
  <2>1. CASE Invoke(r) BY <2>1 DEF Invoke
  <2>2. CASE AcquireMetadata(r) BY <2>2 DEF AcquireMetadata
  <2>3. CASE MetadataBusy(r) BY <2>3 DEF MetadataBusy
  <2>4. CASE TakeLock(r) BY <2>4 DEF TakeLock
  <2>5. CASE LockBusy(r) BY <2>5 DEF LockBusy
  <2>6. CASE Report(r) BY <2>6 DEF Report
  <2>7. CASE WriteRecord(r) BY <2>7 DEF WriteRecord
  <2>8. CASE StartLease(r) BY <2>8 DEF StartLease, FreshInv, BeforeLease
  <2>9. CASE LeaseAcquired(r) BY <2>9 DEF LeaseAcquired
  <2>10. CASE LeaseRefused(r) BY <2>10 DEF LeaseRefused
  <2>11. CASE LeaseTimeout(r) BY <2>11 DEF LeaseTimeout
  <2>12. CASE StartDependencies(r) BY <2>12 DEF StartDependencies, Fork
  <2>13. CASE LaunchPlaybook(r) BY <2>13 DEF LaunchPlaybook, Fork
  <2>14. CASE Release(r) BY <2>14 DEF Release
  <2>15. CASE CloseLocks(r) BY <2>15 DEF CloseLocks
  <2>16. CASE RemoveRecord(r) BY <2>16 DEF RemoveRecord
  <2>17. QED BY <1>1, <2>1, <2>2, <2>3, <2>4, <2>5, <2>6, <2>7, <2>8, <2>9, <2>10, <2>11,
       <2>12, <2>13, <2>14, <2>15, <2>16 DEF Wrapper
<1>2. ASSUME NEW r \in Run, Child(r) PROVE LeaseInv'
  <2>1. CASE DependenciesExit(r) BY <2>1 DEF DependenciesExit, ChildExits
  <2>2. CASE ExecPlaybook(r) BY <2>2 DEF ExecPlaybook
  <2>3. CASE PlaybookExits(r) BY <2>3 DEF PlaybookExits, ChildExits
  <2>4. QED BY <1>2, <2>1, <2>2, <2>3 DEF Child
<1>3. ASSUME NEW r \in Run, Proxmox(r) PROVE LeaseInv'
  <2>1. CASE RemoteAcquire(r) BY <2>1 DEF RemoteAcquire
  <2>2. CASE RemoteBusy(r) BY <2>2 DEF RemoteBusy, FreshInv
  <2>3. CASE ConnectFails(r) BY <2>3 DEF ConnectFails, FreshInv
  <2>4. CASE RemoteRelease(r) BY <2>4 DEF RemoteRelease
  <2>5. CASE StrandedExpires(r) BY <2>5 DEF StrandedExpires
  <2>6. QED BY <1>3, <2>1, <2>2, <2>3, <2>4, <2>5 DEF Proxmox
<1>4. ASSUME NEW r \in Run, RunFault(r) PROVE LeaseInv'
  <2>1. CASE KillWrapper(r) BY <2>1 DEF KillWrapper, Fault, WrapperDies
  <2>2. CASE Interrupt(r) BY <2>2 DEF Interrupt, Fault, WrapperDies
  <2>3. CASE DropSession(r) BY <2>3 DEF DropSession, Fault
  <2>4. QED BY <1>4, <2>1, <2>2, <2>3 DEF RunFault
<1>5. ASSUME NEW n \in Node, NodeVanishes(n) PROVE LeaseInv'
  BY <1>5 DEF NodeVanishes, Fault
<1>6. CASE UNCHANGED vars BY <1>6 DEF vars
<1>7. QED BY <1>1, <1>2, <1>3, <1>4, <1>5, <1>6 DEF Next

(* Only a fault takes the fleet lock from an answered session whose stdin *)
(* is open, and every such fault is recorded in dropped.                  *)
LEMMA SessionStep == ASSUME TypeOK, FreshInv, LeaseInv, SessionInv, [Next]_vars PROVE SessionInv'
<1> USE ConstantsOK DEF TypeOK, Goto, Return, localVars, leaseVars, SessionInv, NoLine
<1>1. ASSUME NEW r \in Run, Wrapper(r) PROVE SessionInv'
  <2>1. CASE Invoke(r) BY <2>1 DEF Invoke
  <2>2. CASE AcquireMetadata(r) BY <2>2 DEF AcquireMetadata
  <2>3. CASE MetadataBusy(r) BY <2>3 DEF MetadataBusy
  <2>4. CASE TakeLock(r) BY <2>4 DEF TakeLock
  <2>5. CASE LockBusy(r) BY <2>5 DEF LockBusy
  <2>6. CASE Report(r) BY <2>6 DEF Report
  <2>7. CASE WriteRecord(r) BY <2>7 DEF WriteRecord
  <2>8. CASE StartLease(r) BY <2>8 DEF StartLease, FreshInv, BeforeLease
  <2>9. CASE LeaseAcquired(r) BY <2>9 DEF LeaseAcquired
  <2>10. CASE LeaseRefused(r) BY <2>10 DEF LeaseRefused
  <2>11. CASE LeaseTimeout(r) BY <2>11 DEF LeaseTimeout
  <2>12. CASE StartDependencies(r) BY <2>12 DEF StartDependencies, Fork, LeaseInv
  <2>13. CASE LaunchPlaybook(r) BY <2>13 DEF LaunchPlaybook, Fork, LeaseInv
  <2>14. CASE Release(r) BY <2>14 DEF Release
  <2>15. CASE CloseLocks(r) BY <2>15 DEF CloseLocks
  <2>16. CASE RemoveRecord(r) BY <2>16 DEF RemoveRecord
  <2>17. QED BY <1>1, <2>1, <2>2, <2>3, <2>4, <2>5, <2>6, <2>7, <2>8, <2>9, <2>10, <2>11,
       <2>12, <2>13, <2>14, <2>15, <2>16 DEF Wrapper
<1>2. ASSUME NEW r \in Run, Child(r) PROVE SessionInv'
  <2>1. CASE DependenciesExit(r) BY <2>1 DEF DependenciesExit, ChildExits
  <2>2. CASE ExecPlaybook(r) BY <2>2 DEF ExecPlaybook
  <2>3. CASE PlaybookExits(r) BY <2>3 DEF PlaybookExits, ChildExits
  <2>4. QED BY <1>2, <2>1, <2>2, <2>3 DEF Child
<1>3. ASSUME NEW r \in Run, Proxmox(r) PROVE SessionInv'
  <2>1. CASE RemoteAcquire(r) BY <2>1 DEF RemoteAcquire
  <2>2. CASE RemoteBusy(r) BY <2>2 DEF RemoteBusy
  <2>3. CASE ConnectFails(r) BY <2>3 DEF ConnectFails
  <2>4. CASE RemoteRelease(r) BY <2>4 DEF RemoteRelease
  <2>5. CASE StrandedExpires(r) BY <2>5 DEF StrandedExpires
  <2>6. QED BY <1>3, <2>1, <2>2, <2>3, <2>4, <2>5 DEF Proxmox
<1>4. ASSUME NEW r \in Run, RunFault(r) PROVE SessionInv'
  <2>1. CASE KillWrapper(r) BY <2>1 DEF KillWrapper, Fault, WrapperDies
  <2>2. CASE Interrupt(r) BY <2>2 DEF Interrupt, Fault, WrapperDies
  <2>3. CASE DropSession(r) BY <2>3 DEF DropSession, Fault
  <2>4. QED BY <1>4, <2>1, <2>2, <2>3 DEF RunFault
<1>5. ASSUME NEW n \in Node, NodeVanishes(n) PROVE SessionInv'
  BY <1>5 DEF NodeVanishes, Fault
<1>6. CASE UNCHANGED vars BY <1>6 DEF vars
<1>7. QED BY <1>1, <1>2, <1>3, <1>4, <1>5, <1>6 DEF Next

(* The metadata lock covers the gap between the lock and its record. *)
LEMMA RecordStep == ASSUME TypeOK, ChildInv, RecordInv, [Next]_vars PROVE RecordInv'
<1> USE ConstantsOK DEF TypeOK, Goto, Return, localVars, leaseVars, ChildInv, RecordInv, Locked, FreeMetadata, Stopped
<1>1. ASSUME NEW r \in Run, Wrapper(r) PROVE RecordInv'
  <2>1. CASE Invoke(r) BY <2>1 DEF Invoke
  <2>2. CASE AcquireMetadata(r) BY <2>2 DEF AcquireMetadata
  <2>3. CASE MetadataBusy(r) BY <2>3 DEF MetadataBusy
  <2>4. CASE TakeLock(r) BY <2>4 DEF TakeLock
  <2>5. CASE LockBusy(r) BY <2>5 DEF LockBusy
  <2>6. CASE Report(r) BY <2>6 DEF Report
  <2>7. CASE WriteRecord(r) BY <2>7 DEF WriteRecord
  <2>8. CASE StartLease(r) BY <2>8 DEF StartLease
  <2>9. CASE LeaseAcquired(r) BY <2>9 DEF LeaseAcquired
  <2>10. CASE LeaseRefused(r) BY <2>10 DEF LeaseRefused
  <2>11. CASE LeaseTimeout(r) BY <2>11 DEF LeaseTimeout
  <2>12. CASE StartDependencies(r) BY <2>12 DEF StartDependencies, Fork
  <2>13. CASE LaunchPlaybook(r) BY <2>13 DEF LaunchPlaybook, Fork
  <2>14. CASE Release(r) BY <2>14 DEF Release
  <2>15. CASE CloseLocks(r) BY <2>15 DEF CloseLocks
  <2>16. CASE RemoveRecord(r) BY <2>16 DEF RemoveRecord
  <2>17. QED BY <1>1, <2>1, <2>2, <2>3, <2>4, <2>5, <2>6, <2>7, <2>8, <2>9, <2>10, <2>11,
       <2>12, <2>13, <2>14, <2>15, <2>16 DEF Wrapper
<1>2. ASSUME NEW r \in Run, Child(r) PROVE RecordInv'
  <2>1. CASE DependenciesExit(r) BY <2>1 DEF DependenciesExit, ChildExits
  <2>2. CASE ExecPlaybook(r) BY <2>2 DEF ExecPlaybook
  <2>3. CASE PlaybookExits(r) BY <2>3 DEF PlaybookExits, ChildExits
  <2>4. QED BY <1>2, <2>1, <2>2, <2>3 DEF Child
<1>3. ASSUME NEW r \in Run, Proxmox(r) PROVE RecordInv'
  <2>1. CASE RemoteAcquire(r) BY <2>1 DEF RemoteAcquire
  <2>2. CASE RemoteBusy(r) BY <2>2 DEF RemoteBusy
  <2>3. CASE ConnectFails(r) BY <2>3 DEF ConnectFails
  <2>4. CASE RemoteRelease(r) BY <2>4 DEF RemoteRelease
  <2>5. CASE StrandedExpires(r) BY <2>5 DEF StrandedExpires
  <2>6. QED BY <1>3, <2>1, <2>2, <2>3, <2>4, <2>5 DEF Proxmox
<1>4. ASSUME NEW r \in Run, RunFault(r) PROVE RecordInv'
  <2>1. CASE KillWrapper(r) BY <2>1 DEF KillWrapper, Fault, WrapperDies
  <2>2. CASE Interrupt(r) BY <2>2 DEF Interrupt, Fault, WrapperDies
  <2>3. CASE DropSession(r) BY <2>3 DEF DropSession, Fault
  <2>4. QED BY <1>4, <2>1, <2>2, <2>3 DEF RunFault
<1>5. ASSUME NEW n \in Node, NodeVanishes(n) PROVE RecordInv'
  BY <1>5 DEF NodeVanishes, Fault
<1>6. CASE UNCHANGED vars BY <1>6 DEF vars
<1>7. QED BY <1>1, <1>2, <1>3, <1>4, <1>5, <1>6 DEF Next

(* No step gives a status and goes on. *)
LEMMA StatusStep == ASSUME TypeOK, ChildInv, StatusInv, [Next]_vars PROVE StatusInv'
<1> USE ConstantsOK DEF TypeOK, Goto, Return, localVars, leaseVars, ChildInv, StatusInv, Stopped
<1>1. ASSUME NEW r \in Run, Wrapper(r) PROVE StatusInv'
  <2>1. CASE Invoke(r) BY <2>1 DEF Invoke
  <2>2. CASE AcquireMetadata(r) BY <2>2 DEF AcquireMetadata
  <2>3. CASE MetadataBusy(r) BY <2>3 DEF MetadataBusy
  <2>4. CASE TakeLock(r) BY <2>4 DEF TakeLock
  <2>5. CASE LockBusy(r) BY <2>5 DEF LockBusy
  <2>6. CASE Report(r) BY <2>6 DEF Report
  <2>7. CASE WriteRecord(r) BY <2>7 DEF WriteRecord
  <2>8. CASE StartLease(r) BY <2>8 DEF StartLease
  <2>9. CASE LeaseAcquired(r) BY <2>9 DEF LeaseAcquired
  <2>10. CASE LeaseRefused(r) BY <2>10 DEF LeaseRefused
  <2>11. CASE LeaseTimeout(r) BY <2>11 DEF LeaseTimeout
  <2>12. CASE StartDependencies(r) BY <2>12 DEF StartDependencies, Fork
  <2>13. CASE LaunchPlaybook(r) BY <2>13 DEF LaunchPlaybook, Fork
  <2>14. CASE Release(r) BY <2>14 DEF Release
  <2>15. CASE CloseLocks(r) BY <2>15 DEF CloseLocks
  <2>16. CASE RemoveRecord(r) BY <2>16 DEF RemoveRecord
  <2>17. QED BY <1>1, <2>1, <2>2, <2>3, <2>4, <2>5, <2>6, <2>7, <2>8, <2>9, <2>10, <2>11,
       <2>12, <2>13, <2>14, <2>15, <2>16 DEF Wrapper
<1>2. ASSUME NEW r \in Run, Child(r) PROVE StatusInv'
  <2>1. CASE DependenciesExit(r) BY <2>1 DEF DependenciesExit, ChildExits
  <2>2. CASE ExecPlaybook(r) BY <2>2 DEF ExecPlaybook
  <2>3. CASE PlaybookExits(r) BY <2>3 DEF PlaybookExits, ChildExits
  <2>4. QED BY <1>2, <2>1, <2>2, <2>3 DEF Child
<1>3. ASSUME NEW r \in Run, Proxmox(r) PROVE StatusInv'
  <2>1. CASE RemoteAcquire(r) BY <2>1 DEF RemoteAcquire
  <2>2. CASE RemoteBusy(r) BY <2>2 DEF RemoteBusy
  <2>3. CASE ConnectFails(r) BY <2>3 DEF ConnectFails
  <2>4. CASE RemoteRelease(r) BY <2>4 DEF RemoteRelease
  <2>5. CASE StrandedExpires(r) BY <2>5 DEF StrandedExpires
  <2>6. QED BY <1>3, <2>1, <2>2, <2>3, <2>4, <2>5 DEF Proxmox
<1>4. ASSUME NEW r \in Run, RunFault(r) PROVE StatusInv'
  <2>1. CASE KillWrapper(r) BY <2>1 DEF KillWrapper, Fault, WrapperDies
  <2>2. CASE Interrupt(r) BY <2>2 DEF Interrupt, Fault, WrapperDies
  <2>3. CASE DropSession(r) BY <2>3 DEF DropSession, Fault
  <2>4. QED BY <1>4, <2>1, <2>2, <2>3 DEF RunFault
<1>5. ASSUME NEW n \in Node, NodeVanishes(n) PROVE StatusInv'
  BY <1>5 DEF NodeVanishes, Fault
<1>6. CASE UNCHANGED vars BY <1>6 DEF vars
<1>7. QED BY <1>1, <1>2, <1>3, <1>4, <1>5, <1>6 DEF Next

(* The inductive invariant. *)
THEOREM Inductive == Spec => []IInv
<1>1. IInv /\ [Next]_vars => IInv'
  BY TypeStep, DescriptorStep, ChildStep, CompatibleStep, FreshStep, LeaseStep, SessionStep,
     RecordStep, StatusStep
  DEF IInv
<1>2. QED BY InitInv, <1>1, PTL DEF Spec

-----------------------------------------------------------------------------
(* The variables always have their types. *)
THEOREM TypeCorrect == Spec => []TypeOK
<1>1. IInv => TypeOK BY DEF IInv
<1>2. QED BY Inductive, <1>1, PTL

(* Conflicting playbooks never share a control node, whatever dies. *)
THEOREM LocalExclusionHolds == Spec => []LocalExclusion
<1>1. IInv => LocalExclusion
  BY DEF IInv, LocalExclusion, DescriptorInv, CompatibleInv, PlaybookRuns
<1>2. QED BY Inductive, <1>1, PTL

(* Two mutating playbooks of the fleet overlap only after a dropped session. *)
THEOREM FleetExclusionHolds == Spec => []FleetExclusion
<1>1. IInv => FleetExclusion
  <2> SUFFICES ASSUME IInv, NEW q \in Run, NEW r \in Run, q # r,
                      UsesFleetLease(q), UsesFleetLease(r),
                      PlaybookRuns(q), PlaybookRuns(r),
                      q \notin dropped, r \notin dropped
               PROVE FALSE
    BY DEF FleetExclusion
  <2>1. fleet = q BY DEF IInv, LeaseInv, SessionInv, PlaybookRuns
  <2>2. fleet = r BY DEF IInv, LeaseInv, SessionInv, PlaybookRuns
  <2>3. QED BY <2>1, <2>2
<1>2. QED BY Inductive, <1>1, PTL

(* A hung ssh never keeps the machine-local lock of a run that is over. *)
THEOREM NoLockOutlivesItsRunHolds == Spec => []NoLockOutlivesItsRun
<1>1. IInv => NoLockOutlivesItsRun
  BY DEF IInv, TypeOK, DescriptorInv, NoLockOutlivesItsRun, Stopped, Locked, Process
<1>2. QED BY Inductive, <1>1, PTL

(* A contender can name every holder whose wrapper or playbook is alive. *)
THEOREM SupervisedHolderIsNameableHolds == Spec => []SupervisedHolderIsNameable
<1>1. IInv => SupervisedHolderIsNameable
  <2> SUFFICES ASSUME IInv, NEW r \in Run, pc[r] = "report", NEW q \in Holders(NodeOf[r]),
                      "wrapper" \in lockFd[q] \/ child[q] = "playbook"
               PROVE q \in Nameable(NodeOf[r])
    BY DEF SupervisedHolderIsNameable
  <2>1. q \in Run /\ NodeOf[q] = NodeOf[r] BY DEF Holders
  <2>2. pc[q] # "record" BY <2>1 DEF IInv, RecordInv
  <2>3. CASE child[q] = "playbook"
    BY <2>1, <2>3 DEF IInv, RecordInv, DescriptorInv, Nameable
  <2>4. CASE "wrapper" \in lockFd[q]
    <3>1. record[q] # "none" BY <2>1, <2>2, <2>4 DEF IInv, RecordInv, DescriptorInv
    <3>2. record[q] \in {"wrapper", "child"} BY <2>1, <3>1 DEF IInv, TypeOK
    <3>3. QED BY <2>1, <2>4, <3>2 DEF Nameable
  <2>5. QED BY <2>3, <2>4
<1>2. QED BY Inductive, <1>1, PTL

(* A run that was refused, deferred or failed forks nothing any more. *)
THEOREM RefusedRunStartsNothingHolds == Spec => RefusedRunStartsNothing
<1>1. IInv /\ [Next]_vars => [\A r \in Run : status[r] \notin {Unset, 0} /\ child[r] = "none"
                                            => child'[r] = "none"]_vars
  <2> SUFFICES ASSUME IInv, Next, NEW r \in Run, status[r] \notin {Unset, 0},
                      child[r] = "none"
               PROVE child'[r] = "none"
    OBVIOUS
  <2> USE DEF IInv, TypeOK, StatusInv, localVars, leaseVars
  <2>1. ASSUME NEW q \in Run, Wrapper(q) PROVE child'[r] = "none"
    BY <2>1 DEF Wrapper, Invoke, AcquireMetadata, MetadataBusy, TakeLock, LockBusy, Report,
         WriteRecord, StartLease, LeaseAcquired, LeaseRefused, LeaseTimeout,
         StartDependencies, LaunchPlaybook, Fork, Release, CloseLocks, RemoveRecord
  <2>2. ASSUME NEW q \in Run, Child(q) PROVE child'[r] = "none"
    BY <2>2 DEF Child, DependenciesExit, ExecPlaybook, PlaybookExits, ChildExits
  <2>3. ASSUME NEW q \in Run, Proxmox(q) PROVE child'[r] = "none"
    BY <2>3 DEF Proxmox, RemoteAcquire, RemoteBusy, ConnectFails, RemoteRelease,
         StrandedExpires
  <2>4. ASSUME NEW q \in Run, RunFault(q) PROVE child'[r] = "none"
    BY <2>4 DEF RunFault, KillWrapper, Interrupt, DropSession
  <2>5. ASSUME NEW n \in Node, NodeVanishes(n) PROVE child'[r] = "none"
    BY <2>5 DEF NodeVanishes
  <2>6. QED BY <2>1, <2>2, <2>3, <2>4, <2>5 DEF Next
<1>2. QED BY Inductive, <1>1, PTL DEF Spec, RefusedRunStartsNothing

-----------------------------------------------------------------------------
(* The boundary implements ExecutionGate: forking the playbook is the       *)
(* gate's Start, and nothing else adds a playbook.                          *)

active == {r \in Run : PlaybookRuns(r)}

(* A playbook is forked only where the gate lets it start. *)
LEMMA GateStart ==
  ASSUME IInv, NEW r \in Run, LaunchPlaybook(r) PROVE Gate!Start(r)
<1> USE DEF IInv, TypeOK
<1>1. child' = [child EXCEPT ![r] = "forked"] /\ dropped' = dropped /\ pc[r] = "launch"
  BY DEF LaunchPlaybook, Fork, localVars
<1>2. ~PlaybookRuns(r) BY <1>1 DEF ChildInv, PlaybookRuns
<1>3. active' = active \cup {r} BY <1>1 DEF active, PlaybookRuns
<1>4. ASSUME NEW q \in active
      PROVE /\ ~Gate!LocalConflict(q, r)
            /\ Gate!FleetConflict(q, r) => q \in dropped \/ r \in dropped
  <2>1. q \in Run /\ q # r /\ PlaybookRuns(q) BY <1>2, <1>4 DEF active
  <2>2. "child" \in lockFd[q] /\ "wrapper" \in lockFd[r]
    BY <1>1, <2>1 DEF DescriptorInv, PlaybookRuns, Locked
  <2>3. ~Gate!LocalConflict(q, r) BY <2>1, <2>2 DEF CompatibleInv, Gate!LocalConflict
  <2>4. ASSUME Gate!FleetConflict(q, r), q \notin dropped, r \notin dropped PROVE FALSE
    <3>1. UsesFleetLease(q) /\ UsesFleetLease(r) BY <2>4 DEF Gate!FleetConflict, UsesFleetLease
    <3>2. fleet = q BY <2>1, <2>4, <3>1 DEF LeaseInv, SessionInv, PlaybookRuns
    <3>3. fleet = r BY <1>1, <2>4, <3>1 DEF LeaseInv, SessionInv
    <3>4. QED BY <2>1, <3>2, <3>3
  <2>5. QED BY <2>3, <2>4
<1>5. QED BY <1>1, <1>2, <1>3, <1>4 DEF Gate!Start, active

(* Every other step ends playbooks, lapses a run, or is invisible. *)
LEMMA GateStep == ASSUME IInv, [Next]_vars PROVE [Gate!Next]_(Gate!vars)
<1> USE DEF IInv, TypeOK, localVars, leaseVars
<1>1. ASSUME active' = active, dropped' = dropped PROVE UNCHANGED Gate!vars
  BY <1>1 DEF Gate!vars, active
<1>2. ASSUME NEW S \in SUBSET Run, active' = active \ S, dropped' = dropped PROVE Gate!Next
  BY <1>2 DEF Gate!Next, Gate!Stop, active
<1>3. ASSUME NEW r \in Run, active' = active, dropped' = dropped \cup {r} PROVE Gate!Next
  BY <1>3 DEF Gate!Next, Gate!Lapse, active
<1>4. ASSUME NEW r \in Run, Wrapper(r) PROVE [Gate!Next]_(Gate!vars)
  <2>1. CASE LaunchPlaybook(r)
    BY <2>1, GateStart DEF Gate!Next
  <2>2. CASE StartDependencies(r)
    <3>1. active' = active /\ dropped' = dropped
      BY <2>2 DEF StartDependencies, Fork, active, PlaybookRuns
    <3>2. QED BY <1>1, <3>1
  <2>3. CASE ~LaunchPlaybook(r) /\ ~StartDependencies(r)
    <3>1. child' = child /\ dropped' = dropped
      BY <1>4, <2>3
      DEF Wrapper, Invoke, AcquireMetadata, MetadataBusy, TakeLock, LockBusy, Report,
          WriteRecord, StartLease, LeaseAcquired, LeaseRefused, LeaseTimeout, Release,
          CloseLocks, RemoveRecord
    <3>2. QED BY <1>1, <3>1 DEF active, PlaybookRuns
  <2>4. QED BY <2>1, <2>2, <2>3
<1>5. ASSUME NEW r \in Run, Child(r) PROVE [Gate!Next]_(Gate!vars)
  <2>1. CASE ExecPlaybook(r)
    <3>1. active' = active /\ dropped' = dropped
      BY <2>1 DEF ExecPlaybook, active, PlaybookRuns
    <3>2. QED BY <1>1, <3>1
  <2>2. CASE DependenciesExit(r) \/ PlaybookExits(r)
    <3>1. active' = active \ {r} /\ dropped' = dropped
      BY <2>2 DEF DependenciesExit, PlaybookExits, ChildExits, active, PlaybookRuns
    <3>2. {r} \in SUBSET Run OBVIOUS
    <3>3. QED BY <1>2, <3>1, <3>2
  <2>3. QED BY <1>5, <2>1, <2>2 DEF Child
<1>6. ASSUME NEW r \in Run, Proxmox(r) PROVE [Gate!Next]_(Gate!vars)
  <2>1. child' = child /\ dropped' = dropped
    BY <1>6 DEF Proxmox, RemoteAcquire, RemoteBusy, ConnectFails, RemoteRelease,
         StrandedExpires
  <2>2. QED BY <1>1, <2>1 DEF active, PlaybookRuns
<1>7. ASSUME NEW r \in Run, RunFault(r) PROVE [Gate!Next]_(Gate!vars)
  <2>1. child' = child /\ (dropped' = dropped \/ dropped' = dropped \cup {r})
    BY <1>7 DEF RunFault, KillWrapper, Interrupt, DropSession
  <2>2. active' = active BY <2>1 DEF active, PlaybookRuns
  <2>3. QED BY <1>1, <1>3, <2>1, <2>2
<1>8. ASSUME NEW n \in Node, NodeVanishes(n) PROVE [Gate!Next]_(Gate!vars)
  <2> DEFINE lost == {r \in Run : NodeOf[r] = n /\ pc[r] # "idle"}
  <2>1. active' = active \ lost /\ dropped' = dropped
    BY <1>8 DEF NodeVanishes, active, PlaybookRuns
  <2>2. lost \in SUBSET Run OBVIOUS
  <2> HIDE DEF lost
  <2>3. QED BY <1>2, <2>1, <2>2
<1>9. CASE UNCHANGED vars
  BY <1>1, <1>9 DEF vars, active, PlaybookRuns
<1>10. QED BY <1>4, <1>5, <1>6, <1>7, <1>8, <1>9 DEF Next

(* The live execution boundary implements the execution gate: whatever is  *)
(* killed, cut off or late, no step of it starts a playbook the gate bars. *)
THEOREM ImplementsGate == Spec => GateSpec
<1>1. Init => Gate!Init BY DEF Init, Gate!Init, PlaybookRuns
<1>2. IInv /\ [Next]_vars => [Gate!Next]_(Gate!vars) BY GateStep
<1>3. QED BY Inductive, <1>1, <1>2, PTL DEF Spec, GateSpec, Gate!Spec
=============================================================================
