------------------------ MODULE LiveDependenciesProofs ------------------------
(***************************************************************************)
(* Theorems about LiveDependencies, for any commands, dependencies and     *)
(* bounds: the state is well typed, the installs of living commands never  *)
(* overlap, and a playbook keeps what it consumes.                         *)
(***************************************************************************)
EXTENDS LiveDependencies, TLAPS

Critical == {"begin", "check", "download", "extract", "verify"}
Installing == {"download", "extract", "verify"}

(* The dependency lock is held exactly by who is between Lock and Unlock.  *)
LockInv == \A c \in Command : pc[c] \in Critical <=> lock = c

(* Who holds the lock has seen the pins change last, if anybody has not.   *)
SteadyInv == lock # None /\ lock \notin steady => steady = {}

(* The pins that were read are those declared, unless they changed.        *)
PinsInv ==
  \A c \in Command : pc[c] \in Critical \ {"begin"} /\ c \in steady => pins[c] = declared

(* What is installed has a pin and is still to be done; before it is       *)
(* touched it is not at its pin, unless a stray one put it there.          *)
ItemInv ==
  \A c \in Command :
    /\ pc[c] \in Installing => item[c] \in names[c] /\ pins[c][item[c]] # None
    /\ pc[c] = "download" /\ c \in steady => record[item[c]] # pins[c][item[c]]

Present(d) == d \in whole \cup cut

(* A record without its files is that of the install under way.            *)
RecordInv ==
  \A d \in Dependency :
    record[d] # None => Present(d) \/ \E c \in Command : pc[c] = "extract" /\ item[c] = d

(* Who gets where, and what it has still to reconcile there.               *)
NamesInv ==
  \A c \in Command :
    /\ pc[c] = "declared" => c \in Validation
    /\ pc[c] \in {"key", "playbook"} => c \notin Validation /\ names[c] = {}
    /\ pc[c] = "lock" /\ c \notin Validation => names[c] = Consumes[c]

(* What it has reconciled stays as declared while the pins do.             *)
Reconciled(c) == pc[c] \in Critical \cup {"key", "playbook"} /\ c \in steady
KeptInv ==
  \A c \in Command \ Validation : Reconciled(c) =>
    \A d \in Consumes[c] \ names[c] : record[d] = declared[d] /\ Present(d)

IInv == /\ TypeOK /\ LockInv /\ SteadyInv /\ PinsInv
        /\ ItemInv /\ RecordInv /\ NamesInv /\ KeptInv

-----------------------------------------------------------------------------
(* Initially no command runs, and nothing is installed.                    *)
LEMMA InitInv == Init => IInv
<1> SUFFICES ASSUME Init PROVE IInv
  OBVIOUS
<1>1. TypeOK
  BY DependenciesAssumption DEF Init, TypeOK
<1>2. LockInv /\ SteadyInv /\ PinsInv
  BY DependenciesAssumption DEF Init, LockInv, SteadyInv, PinsInv, Critical, Validation
<1>3. ItemInv /\ RecordInv /\ NamesInv /\ KeptInv
  BY DEF Init, ItemInv, RecordInv, NamesInv, KeptInv, Reconciled, Critical, Installing
<1>4. QED
  BY <1>1, <1>2, <1>3 DEF IInv

(* A fault is within its bound. *)
LEMMA FaultIsCounted ==
  ASSUME TypeOK, Fault
  PROVE  faults' \in 0..MaxFaults
<1>1. faults \in 0..MaxFaults /\ MaxFaults \in Nat
  BY DependenciesAssumption DEF TypeOK
<1>2. QED
  BY <1>1 DEF Fault

(* A command that starts has nothing yet, and keeps nothing.               *)
LEMMA StartKeeps ==
  ASSUME IInv, NEW c \in Command, Start(c)
  PROVE  IInv'
<1> USE DEF Start, Goto, tree, Active
<1>1. TypeOK'
  <2>1. starts' \in 0..MaxStarts
    <3>1. starts \in 0..MaxStarts /\ MaxStarts \in Nat
      BY DependenciesAssumption DEF IInv, TypeOK
    <3>2. QED
      BY <3>1
  <2>2. Consumes[c] \in SUBSET Dependency
    BY DependenciesAssumption
  <2>3. QED
    BY <2>1, <2>2 DEF IInv, TypeOK
<1>2. LockInv' /\ SteadyInv' /\ PinsInv'
  BY DEF IInv, TypeOK, LockInv, SteadyInv, PinsInv, Critical
<1>3. ItemInv'
  BY DEF IInv, TypeOK, ItemInv, Installing
<1>4. RecordInv'
  BY DEF IInv, TypeOK, RecordInv, Present
<1>5. NamesInv'
  BY DEF IInv, TypeOK, NamesInv
<1>6. KeptInv'
  BY DEF IInv, TypeOK, KeptInv, Reconciled, Present
<1>7. QED
  BY <1>1, <1>2, <1>3, <1>4, <1>5, <1>6 DEF IInv

(* Only a validation reads the declared names, before it has the lock.     *)
LEMMA ReadNamesKeeps ==
  ASSUME IInv, NEW c \in Command, ReadNames(c)
  PROVE  IInv'
<1> USE DEF ReadNames, Goto, tree, bounds
<1>1. TypeOK'
  BY DEF IInv, TypeOK, Dependency
<1>2. LockInv' /\ SteadyInv' /\ PinsInv'
  BY DEF IInv, TypeOK, LockInv, SteadyInv, PinsInv, Critical
<1>3. ItemInv' /\ RecordInv' /\ NamesInv'
  BY DEF IInv, TypeOK, ItemInv, RecordInv, NamesInv, Present, Installing
<1>4. KeptInv'
  BY DEF IInv, TypeOK, KeptInv, NamesInv, Reconciled, Present, Critical
<1>5. QED
  BY <1>1, <1>2, <1>3, <1>4 DEF IInv

(* Nobody has the lock when it is taken; all is still to be reconciled.    *)
LEMMA LockKeeps ==
  ASSUME IInv, NEW c \in Command, Lock(c)
  PROVE  IInv'
<1> USE DEF Lock, Goto, tree, bounds
<1>1. TypeOK'
  BY DEF IInv, TypeOK
<1>2. LockInv' /\ SteadyInv' /\ PinsInv'
  BY DependenciesAssumption DEF IInv, TypeOK, LockInv, SteadyInv, PinsInv, Critical
<1>3. ItemInv' /\ RecordInv' /\ NamesInv'
  BY DEF IInv, TypeOK, ItemInv, RecordInv, NamesInv, Present, Installing
<1>4. KeptInv'
  BY DEF IInv, TypeOK, KeptInv, NamesInv, Reconciled, Present, Critical
<1>5. QED
  BY <1>1, <1>2, <1>3, <1>4 DEF IInv

(* The pins are read under the lock.                                       *)
LEMMA BeginKeeps ==
  ASSUME IInv, NEW c \in Command, Begin(c)
  PROVE  IInv'
<1> USE DEF Begin, Goto, tree, bounds
<1>1. TypeOK'
  BY DEF IInv, TypeOK
<1>2. LockInv' /\ SteadyInv' /\ PinsInv'
  BY DEF IInv, TypeOK, LockInv, SteadyInv, PinsInv, Critical
<1>3. ItemInv' /\ RecordInv' /\ NamesInv'
  BY DEF IInv, TypeOK, ItemInv, RecordInv, NamesInv, Present, Installing
<1>4. KeptInv'
  BY DEF IInv, TypeOK, KeptInv, Reconciled, Present, Critical
<1>5. QED
  BY <1>1, <1>2, <1>3, <1>4 DEF IInv

(* Where the lock holder goes on without it, or fails, nothing is lost.    *)
LEMMA UnlockKeeps ==
  ASSUME IInv, NEW c \in Command, NEW step \in {"failed", "done", "key", "playbook"},
         Unlock(c, step), pc[c] \in Critical \ {"extract"},
         step = "done" => c \in Validation,
         step \in {"key", "playbook"} => c \notin Validation /\ names[c] = {},
         UNCHANGED <<declared, tree, kind, names, pins, steady>>
  PROVE  /\ LockInv' /\ SteadyInv' /\ PinsInv'
         /\ ItemInv' /\ RecordInv' /\ NamesInv' /\ KeptInv'
<1> USE DEF Unlock, Goto, tree
<1>1. LockInv' /\ SteadyInv' /\ PinsInv'
  BY DependenciesAssumption DEF IInv, TypeOK, LockInv, SteadyInv, PinsInv, Critical
<1>2. ItemInv'
  BY DEF IInv, TypeOK, ItemInv, Installing
<1>3. RecordInv'
  BY DEF IInv, TypeOK, RecordInv, Present, Critical
<1>4. NamesInv'
  BY DEF IInv, TypeOK, NamesInv
<1>5. KeptInv'
  BY DEF IInv, TypeOK, KeptInv, Reconciled, Present, Critical
<1>6. QED
  BY <1>1, <1>2, <1>3, <1>4, <1>5

(* A dependency without a pin ends the command.                            *)
LEMMA UnpinnedKeeps ==
  ASSUME IInv, NEW c \in Command, NEW d \in Dependency, Unpinned(c, d)
  PROVE  IInv'
<1>1. TypeOK'
  BY DEF IInv, TypeOK, Unpinned, Fail, Unlock, Goto, tree, bounds
<1>2. QED
  BY <1>1, UnlockKeeps DEF IInv, Unpinned, Fail, Critical

(* What is at its pin has its files: nobody else is installing.            *)
LEMMA KeepKeeps ==
  ASSUME IInv, NEW c \in Command, NEW d \in Dependency, Keep(c, d)
  PROVE  IInv'
<1> USE DEF Keep, tree, bounds
<1>1. TypeOK'
  BY DEF IInv, TypeOK
<1>2. LockInv' /\ SteadyInv' /\ PinsInv'
  BY DEF IInv, LockInv, SteadyInv, PinsInv
<1>3. ItemInv' /\ RecordInv' /\ NamesInv'
  BY DEF IInv, TypeOK, ItemInv, RecordInv, NamesInv, Present, Installing
<1>4. Present(d)
  BY DEF IInv, TypeOK, RecordInv, LockInv, Critical
<1>5. c \in steady => record[d] = declared[d]
  BY DEF IInv, PinsInv, Critical
<1>6. KeptInv'
  BY <1>4, <1>5 DEF IInv, TypeOK, KeptInv, Reconciled, Present
<1>7. QED
  BY <1>1, <1>2, <1>3, <1>6 DEF IInv

(* An install begins for what is to be done and is not at its pin.         *)
LEMMA InstallKeeps ==
  ASSUME IInv, NEW c \in Command, NEW d \in Dependency, Install(c, d)
  PROVE  IInv'
<1> USE DEF Install, Goto, tree, bounds
<1>1. TypeOK'
  BY DEF IInv, TypeOK
<1>2. LockInv' /\ SteadyInv' /\ PinsInv'
  BY DEF IInv, TypeOK, LockInv, SteadyInv, PinsInv, Critical
<1>3. ItemInv'
  BY DEF IInv, TypeOK, ItemInv, Installing
<1>4. RecordInv'
  BY DEF IInv, TypeOK, RecordInv, Present
<1>5. NamesInv'
  BY DEF IInv, TypeOK, NamesInv
<1>6. KeptInv'
  BY DEF IInv, TypeOK, KeptInv, Reconciled, Present, Critical
<1>7. QED
  BY <1>1, <1>2, <1>3, <1>4, <1>5, <1>6 DEF IInv

(* The roles follow the collections, or nothing is left.                   *)
LEMMA KindDoneKeeps ==
  ASSUME IInv, NEW c \in Command, KindDone(c)
  PROVE  IInv'
<1> USE DEF KindDone, tree, bounds
<1>1. TypeOK'
  BY DEF IInv, TypeOK, Unlock, Goto
<1>2. CASE /\ Goto(c, "begin")
           /\ UNCHANGED <<lock, item>>
  <2> USE <1>2 DEF Goto
  <2>1. LockInv' /\ SteadyInv' /\ PinsInv'
    BY DEF IInv, TypeOK, LockInv, SteadyInv, PinsInv, Critical
  <2>2. ItemInv' /\ RecordInv' /\ NamesInv'
    BY DEF IInv, TypeOK, ItemInv, RecordInv, NamesInv, Present, Installing
  <2>3. KeptInv'
    BY DEF IInv, TypeOK, KeptInv, Reconciled, Present, Critical
  <2>4. QED
    BY <1>1, <2>1, <2>2, <2>3 DEF IInv
<1>3. CASE /\ names[c] = {}
           /\ Unlock(c, IF c \in Validation THEN "done" ELSE IF c \in UsesSsh THEN "key" ELSE "playbook")
  BY <1>1, <1>3, UnlockKeeps DEF IInv, Critical
<1>4. QED
  BY <1>2, <1>3

(* What is being installed is in use nowhere: with the lock held and every *)
(* pin read since the last change, it was not as declared.                 *)
LEMMA InstalledIsUnused ==
  ASSUME IInv, NEW c \in Command, pc[c] = "download",
         NEW o \in Command \ Validation, Reconciled(o)
  PROVE  item[c] \notin Consumes[o] \ names[o]
<1> SUFFICES ASSUME item[c] \in Consumes[o] \ names[o]
             PROVE  FALSE
  OBVIOUS
<1>1. lock = c
  BY DEF IInv, LockInv, Critical
<1>2. c \in steady
  BY <1>1, DependenciesAssumption DEF IInv, SteadyInv, Reconciled
<1>3. pins[c] = declared /\ record[item[c]] # pins[c][item[c]]
  BY <1>2 DEF IInv, PinsInv, ItemInv, Installing, Critical
<1>4. record[item[c]] = declared[item[c]]
  BY DEF IInv, KeptInv
<1>5. QED
  BY <1>3, <1>4

(* The old files go, and a collection's record names the new version.      *)
LEMMA ExtractKeeps ==
  ASSUME IInv, NEW c \in Command, Extract(c)
  PROVE  IInv'
<1> USE DEF Extract, ExtractedRecord, Goto, bounds
<1> DEFINE d == item[c]
<1>1. d \in names[c] /\ d \in Dependency /\ pins[c][d] # None /\ lock = c
  BY DEF IInv, TypeOK, ItemInv, LockInv, Installing, Critical
<1>2. TypeOK'
  BY <1>1 DEF IInv, TypeOK
<1>3. LockInv' /\ SteadyInv' /\ PinsInv'
  BY DEF IInv, TypeOK, LockInv, SteadyInv, PinsInv, Critical
<1>4. ItemInv'
  <2>1. \A o \in Command : o # c => pc[o] \notin Installing
    BY <1>1 DEF IInv, LockInv, Installing, Critical
  <2>2. QED
    BY <1>1, <2>1 DEF IInv, TypeOK, ItemInv, Installing
<1>5. RecordInv'
  <2>1. pc'[c] = "extract" /\ item'[c] = d
    BY DEF IInv, TypeOK
  <2>2. \A e \in Dependency \ {d} : record'[e] = record[e] /\ (Present(e) => Present(e)')
    BY <1>1 DEF IInv, TypeOK, Present
  <2>3. \A o \in Command : pc[o] = "extract" => pc'[o] = "extract" /\ item'[o] = item[o]
    BY DEF IInv, TypeOK
  <2>4. QED
    BY <2>1, <2>2, <2>3 DEF IInv, RecordInv
<1>6. NamesInv'
  BY DEF IInv, TypeOK, NamesInv
<1>7. KeptInv'
  <2> SUFFICES ASSUME NEW o \in Command \ Validation, Reconciled(o)',
                      NEW e \in (Consumes[o] \ names[o])'
               PROVE  (record[e] = declared[e] /\ Present(e))'
    BY DEF KeptInv
  <2>1. Reconciled(o) /\ e \in Consumes[o] \ names[o]
    BY DEF IInv, TypeOK, Reconciled, Critical
  <2>2. e # d /\ e \in Dependency
    BY <2>1, InstalledIsUnused, DependenciesAssumption
  <2>3. record[e] = declared[e] /\ Present(e)
    BY <2>1 DEF IInv, KeptInv
  <2>4. QED
    BY <1>1, <2>2, <2>3 DEF IInv, TypeOK, Present
<1>8. QED
  BY <1>2, <1>3, <1>4, <1>5, <1>6, <1>7 DEF IInv

(* The new files are there, with a record of the version installed, unless *)
(* a stray one worked on them too.                                         *)
LEMMA GalaxyDoneKeeps ==
  ASSUME IInv, NEW c \in Command, GalaxyDone(c)
  PROVE  IInv'
<1> USE DEF GalaxyDone, Goto, bounds
<1> DEFINE d == item[c]
<1>1. d \in names[c] /\ d \in Dependency /\ pins[c][d] # None /\ lock = c
  BY DEF IInv, TypeOK, ItemInv, LockInv, Installing, Critical
<1>2. TypeOK'
  BY <1>1 DEF IInv, TypeOK
<1>3. LockInv' /\ SteadyInv' /\ PinsInv'
  BY DEF IInv, TypeOK, LockInv, SteadyInv, PinsInv, Critical
<1>4. \A o \in Command : o # c => pc[o] \notin Installing
  BY <1>1 DEF IInv, LockInv, Installing, Critical
<1>5. ItemInv'
  BY <1>1, <1>4 DEF IInv, TypeOK, ItemInv, Installing
<1>6. RecordInv'
  <2>1. Present(d)'
    BY DEF Present
  <2>2. \A e \in Dependency \ {d} : record'[e] = record[e] /\ (Present(e) => Present(e)')
    BY <1>1 DEF IInv, TypeOK, Present
  <2>3. \A o \in Command : pc[o] = "extract" => o = c
    BY <1>4 DEF Installing
  <2>4. QED
    BY <2>1, <2>2, <2>3 DEF IInv, RecordInv
<1>7. NamesInv'
  BY DEF IInv, TypeOK, NamesInv
<1>8. KeptInv'
  <2> SUFFICES ASSUME NEW o \in Command \ Validation, Reconciled(o)',
                      NEW e \in (Consumes[o] \ names[o])'
               PROVE  (record[e] = declared[e] /\ Present(e))'
    BY DEF KeptInv
  <2>1. Reconciled(o) /\ e \in Consumes[o] \ names[o] /\ e \in Dependency
    BY DependenciesAssumption DEF IInv, TypeOK, Reconciled, Critical
  <2>2. record[e] = declared[e] /\ Present(e)
    BY <2>1 DEF IInv, KeptInv
  <2>3. c \in steady
    BY <1>1, <2>1, DependenciesAssumption DEF IInv, SteadyInv, Reconciled
  <2>4. pins[c] = declared
    BY <2>3 DEF IInv, PinsInv, Critical
  <2>5. QED
    BY <1>1, <2>1, <2>2, <2>4 DEF IInv, TypeOK, Present
<1>9. QED
  BY <1>2, <1>3, <1>5, <1>6, <1>7, <1>8 DEF IInv

(* ansible-galaxy did nothing, and says so or not.                         *)
LEMMA GalaxyFailsKeeps ==
  ASSUME IInv, NEW c \in Command, GalaxyFails(c)
  PROVE  IInv'
<1> USE DEF GalaxyFails, tree
<1>1. TypeOK'
  <2>1. faults' \in 0..MaxFaults
    BY FaultIsCounted DEF IInv
  <2>2. QED
    BY <2>1 DEF IInv, TypeOK, Fail, Unlock, Goto
<1>2. CASE Fail(c)
  BY <1>1, <1>2, UnlockKeeps DEF IInv, Fail, Critical
<1>3. CASE Goto(c, "verify") /\ UNCHANGED <<lock, item>>
  <2> USE <1>3 DEF Goto
  <2>1. LockInv' /\ SteadyInv' /\ PinsInv'
    BY DEF IInv, TypeOK, LockInv, SteadyInv, PinsInv, Critical
  <2>2. ItemInv' /\ RecordInv' /\ NamesInv'
    BY DEF IInv, TypeOK, ItemInv, RecordInv, NamesInv, Present, Installing
  <2>3. KeptInv'
    BY DEF IInv, TypeOK, KeptInv, Reconciled, Present, Critical
  <2>4. QED
    BY <1>1, <2>1, <2>2, <2>3 DEF IInv
<1>4. QED
  BY <1>2, <1>3

(* What is verified has its files: nobody else is installing.              *)
LEMMA VerifyKeeps ==
  ASSUME IInv, NEW c \in Command, Verify(c)
  PROVE  IInv'
<1> USE DEF Verify, tree, bounds
<1> DEFINE d == item[c]
<1>1. CASE Fail(c) /\ UNCHANGED names
  <2>1. TypeOK'
    BY <1>1 DEF IInv, TypeOK, Fail, Unlock, Goto
  <2>2. QED
    BY <1>1, <2>1, UnlockKeeps DEF IInv, Fail, Critical
<1>2. CASE /\ record[d] = pins[c][d]
           /\ Goto(c, "check") /\ item' = [item EXCEPT ![c] = None] /\ UNCHANGED lock
           /\ names' = [names EXCEPT ![c] = @ \ {d}]
  <2> USE <1>2 DEF Goto
  <2>1. LockInv' /\ SteadyInv' /\ PinsInv'
    BY DEF IInv, TypeOK, LockInv, SteadyInv, PinsInv, Critical
  <2>2. ItemInv' /\ RecordInv' /\ NamesInv'
    BY DEF IInv, TypeOK, ItemInv, RecordInv, NamesInv, Present, Installing
  <2>3. d \in names[c] /\ d \in Dependency /\ pins[c][d] # None
    BY DEF IInv, TypeOK, ItemInv, Installing
  <2>4. Present(d)
    BY <2>3 DEF IInv, TypeOK, RecordInv, LockInv, Critical
  <2>5. c \in steady => record[d] = declared[d]
    BY DEF IInv, PinsInv, Critical
  <2>6. KeptInv'
    BY <2>4, <2>5 DEF IInv, TypeOK, KeptInv, Reconciled, Present, Critical
  <2>7. TypeOK'
    BY DEF IInv, TypeOK
  <2>8. QED
    BY <2>1, <2>2, <2>6, <2>7 DEF IInv
<1>3. QED
  BY <1>1, <1>2

(* The key, then the playbook: neither touches a dependency.               *)
LEMMA RequireFleetKeyKeeps ==
  ASSUME IInv, NEW c \in Command, RequireFleetKey(c)
  PROVE  IInv'
<1> USE DEF RequireFleetKey, Goto, tree
<1>1. TypeOK'
  <2>1. faults' \in 0..MaxFaults
    BY FaultIsCounted DEF IInv, TypeOK
  <2>2. QED
    BY <2>1 DEF IInv, TypeOK
<1>2. LockInv' /\ SteadyInv' /\ PinsInv'
  BY DEF IInv, TypeOK, LockInv, SteadyInv, PinsInv, Critical
<1>3. ItemInv' /\ RecordInv' /\ NamesInv'
  BY DEF IInv, TypeOK, ItemInv, RecordInv, NamesInv, Present, Installing
<1>4. KeptInv'
  BY DEF IInv, TypeOK, KeptInv, Reconciled, Present, Critical
<1>5. QED
  BY <1>1, <1>2, <1>3, <1>4 DEF IInv

LEMMA PlaybookEndsKeeps ==
  ASSUME IInv, NEW c \in Command, PlaybookEnds(c)
  PROVE  IInv'
<1> USE DEF PlaybookEnds, Goto, tree, bounds
<1>1. TypeOK'
  BY DEF IInv, TypeOK
<1>2. LockInv' /\ SteadyInv' /\ PinsInv'
  BY DEF IInv, TypeOK, LockInv, SteadyInv, PinsInv, Critical
<1>3. ItemInv' /\ RecordInv' /\ NamesInv'
  BY DEF IInv, TypeOK, ItemInv, RecordInv, NamesInv, Present, Installing
<1>4. KeptInv'
  BY DEF IInv, TypeOK, KeptInv, Reconciled, Present, Critical
<1>5. QED
  BY <1>1, <1>2, <1>3, <1>4 DEF IInv

(* A killed command gives up the lock; the record of what it was           *)
(* installing may stay.                                                    *)
LEMMA KillKeeps ==
  ASSUME IInv, NEW c \in Command, Kill(c)
  PROVE  IInv'
<1> USE DEF Kill, Goto
<1>1. TypeOK'
  <2>1. faults' \in 0..MaxFaults
    BY FaultIsCounted DEF IInv
  <2>2. pc[c] = "extract" => item[c] \in Dependency
    BY DEF IInv, TypeOK, ItemInv, Installing
  <2>3. cut' \subseteq Dependency
    BY <2>2 DEF IInv, TypeOK
  <2>4. QED
    BY <2>1, <2>3 DEF IInv, TypeOK
<1>2. LockInv' /\ SteadyInv' /\ PinsInv'
  BY DependenciesAssumption DEF IInv, TypeOK, LockInv, SteadyInv, PinsInv, Critical
<1>3. ItemInv' /\ NamesInv'
  BY DEF IInv, TypeOK, ItemInv, NamesInv, Installing
<1>4. \A d \in Dependency : Present(d) => Present(d)'
  BY DEF Present
<1>5. RecordInv'
  <2> SUFFICES ASSUME NEW d \in Dependency, record[d] # None, ~Present(d)'
               PROVE  \E o \in Command : pc'[o] = "extract" /\ item'[o] = d
    BY DEF RecordInv
  <2>1. PICK o \in Command : pc[o] = "extract" /\ item[o] = d
    BY <1>4 DEF IInv, RecordInv
  <2>2. o # c
    BY <2>1 DEF Present
  <2>3. QED
    BY <2>1, <2>2 DEF IInv, TypeOK
<1>6. KeptInv'
  BY <1>4, DependenciesAssumption DEF IInv, TypeOK, KeptInv, Reconciled, Critical
<1>7. QED
  BY <1>1, <1>2, <1>3, <1>5, <1>6 DEF IInv

(* So does one killed alone; its ansible-galaxy has touched nothing yet,   *)
(* or what it extracts counts as cut.                                      *)
LEMMA KillAloneKeeps ==
  ASSUME IInv, NEW c \in Command, KillAlone(c)
  PROVE  IInv'
<1> USE DEF KillAlone, Unlock, Goto
<1>1. /\ item[c] \in Dependency /\ pins[c][item[c]] \in Version
      /\ pc[c] \in {"download", "extract"}
  BY DEF IInv, TypeOK, ItemInv, Installing
<1>2. TypeOK'
  <2>1. faults' \in 0..MaxFaults
    BY FaultIsCounted DEF IInv
  <2>2. faults' \in 1..MaxFaults
    <3>1. faults \in 0..MaxFaults /\ MaxFaults \in Nat /\ faults' = faults + 1
      BY DependenciesAssumption DEF IInv, TypeOK, Fault
    <3>2. QED
      BY <2>1, <3>1
  <2>3. stray' \subseteq Stray
    BY <1>1, <2>2 DEF IInv, TypeOK, Stray
  <2>4. cut' \subseteq Dependency
    BY <1>1 DEF IInv, TypeOK
  <2>5. QED
    BY <2>1, <2>3, <2>4 DEF IInv, TypeOK
<1>3. LockInv' /\ SteadyInv' /\ PinsInv'
  BY DependenciesAssumption DEF IInv, TypeOK, LockInv, SteadyInv, PinsInv, Critical
<1>4. ItemInv' /\ NamesInv'
  BY DEF IInv, TypeOK, ItemInv, NamesInv, Installing
<1>5. \A d \in Dependency : Present(d) => Present(d)'
  BY DEF Present
<1>6. RecordInv'
  <2> SUFFICES ASSUME NEW d \in Dependency, record[d] # None, ~Present(d)'
               PROVE  \E o \in Command : pc'[o] = "extract" /\ item'[o] = d
    BY DEF RecordInv
  <2>1. PICK o \in Command : pc[o] = "extract" /\ item[o] = d
    BY <1>5 DEF IInv, RecordInv
  <2>2. o # c
    BY <2>1 DEF Present
  <2>3. QED
    BY <2>1, <2>2 DEF IInv, TypeOK
<1>7. KeptInv'
  BY <1>5, DependenciesAssumption DEF IInv, TypeOK, KeptInv, Reconciled, Critical
<1>8. QED
  BY <1>2, <1>3, <1>4, <1>6, <1>7 DEF IInv

(* A stray ansible-galaxy touches what then counts as cut, and from then   *)
(* on no command that is under way relies on what is installed.            *)
LEMMA StraysKeep ==
  ASSUME IInv, NEW g \in stray, StrayExtracts(g) \/ StrayEnds(g)
  PROVE  IInv'
<1>1. g \in Stray /\ g.item \in Dependency /\ g.version \in Version
  BY DEF IInv, TypeOK, Stray
<1>2. UNCHANGED <<declared, key, lock, pc, kind, names, pins, item, bounds>>
  BY DEF StrayExtracts, StrayEnds
<1>3. /\ stray' \subseteq Stray
      /\ record' \in [Dependency -> Version \cup {None}]
      /\ whole' \subseteq Dependency
      /\ cut \subseteq cut' /\ cut' \subseteq Dependency
  <2>1. CASE StrayExtracts(g)
    <3>1. [g EXCEPT !.step = "extract"] \in Stray
      BY <1>1 DEF Stray
    <3>2. QED
      BY <1>1, <2>1, <3>1 DEF IInv, TypeOK, StrayExtracts, ExtractedRecord
  <2>2. CASE StrayEnds(g)
    BY <1>1, <2>2 DEF IInv, TypeOK, StrayEnds
  <2>3. QED
    BY <2>1, <2>2
<1>4. \/ steady' = {} /\ g.item \in cut'
      \/ UNCHANGED <<record, whole, cut, steady>>
  BY DEF StrayExtracts, StrayEnds
<1>5. \A d \in Dependency \ {g.item} : record'[d] = record[d] /\ (Present(d) => Present(d)')
  BY <1>1, <1>3 DEF IInv, TypeOK, StrayExtracts, ExtractedRecord, StrayEnds, Present
<1>6. steady' \subseteq steady
  BY <1>4
<1>7. TypeOK'
  BY <1>2, <1>3, <1>6 DEF IInv, TypeOK, bounds
<1>8. LockInv' /\ SteadyInv' /\ PinsInv' /\ NamesInv'
  BY <1>2, <1>4 DEF IInv, LockInv, SteadyInv, PinsInv, NamesInv
<1>9. CASE steady' = {} /\ g.item \in cut'
  <2>1. ItemInv' /\ KeptInv'
    BY <1>2, <1>9 DEF IInv, ItemInv, KeptInv, Reconciled
  <2>2. Present(g.item)'
    BY <1>9 DEF Present
  <2>3. RecordInv'
    BY <1>2, <1>5, <2>2 DEF IInv, RecordInv
  <2>4. QED
    BY <1>7, <1>8, <2>1, <2>3 DEF IInv
<1>10. CASE UNCHANGED <<record, whole, cut, steady>>
  <2>1. ItemInv' /\ RecordInv' /\ KeptInv'
    BY <1>2, <1>10 DEF IInv, ItemInv, RecordInv, Present, KeptInv, Reconciled
  <2>2. QED
    BY <1>7, <1>8, <2>1 DEF IInv
<1>11. QED
  BY <1>4, <1>9, <1>10

(* After a change of the pins no command relies on them.                   *)
LEMMA CommitKeeps ==
  ASSUME IInv, NEW d \in Dependency, Commit(d)
  PROVE  IInv'
<1> USE DEF Commit, tree
<1>1. TypeOK'
  <2>1. commits' \in 0..MaxCommits
    <3>1. commits \in 0..MaxCommits /\ MaxCommits \in Nat
      BY DependenciesAssumption DEF IInv, TypeOK
    <3>2. QED
      BY <3>1
  <2>2. QED
    BY <2>1 DEF IInv, TypeOK
<1>2. LockInv' /\ SteadyInv' /\ PinsInv'
  BY DEF IInv, LockInv, SteadyInv, PinsInv
<1>3. ItemInv' /\ RecordInv' /\ NamesInv'
  BY DEF IInv, ItemInv, RecordInv, NamesInv, Present
<1>4. KeptInv'
  BY DEF KeptInv, Reconciled
<1>5. QED
  BY <1>1, <1>2, <1>3, <1>4 DEF IInv

(* The fleet key is not a dependency; nor does a stutter touch one.        *)
LEMMA OthersKeep ==
  ASSUME IInv, ChangeKey \/ UNCHANGED vars
  PROVE  IInv'
<1> USE DEF ChangeKey, vars, tree, command, bounds
<1>1. TypeOK'
  <2>1. faults' \in 0..MaxFaults
    BY FaultIsCounted DEF IInv, TypeOK
  <2>2. QED
    BY <2>1 DEF IInv, TypeOK
<1>2. LockInv' /\ SteadyInv' /\ PinsInv'
  BY DEF IInv, LockInv, SteadyInv, PinsInv
<1>3. ItemInv' /\ RecordInv' /\ NamesInv' /\ KeptInv'
  BY DEF IInv, ItemInv, RecordInv, NamesInv, Present, KeptInv, Reconciled
<1>4. QED
  BY <1>1, <1>2, <1>3 DEF IInv

LEMMA NextKeeps == IInv /\ [Next]_vars => IInv'
<1> SUFFICES ASSUME IInv, [Next]_vars PROVE IInv'
  OBVIOUS
<1>1. ASSUME NEW c \in Command, Start(c) \/ PlaybookEnds(c) \/ Kill(c) \/ KillAlone(c) PROVE IInv'
  BY <1>1, StartKeeps, PlaybookEndsKeeps, KillKeeps, KillAloneKeeps
<1>2. ASSUME NEW c \in Command, ReadNames(c) \/ Lock(c) \/ Begin(c) \/ KindDone(c) PROVE IInv'
  BY <1>2, ReadNamesKeeps, LockKeeps, BeginKeeps, KindDoneKeeps
<1>3. ASSUME NEW c \in Command, NEW d \in Dependency,
             Unpinned(c, d) \/ Keep(c, d) \/ Install(c, d)
      PROVE  IInv'
  BY <1>3, UnpinnedKeeps, KeepKeeps, InstallKeeps
<1>4. ASSUME NEW c \in Command,
             Extract(c) \/ GalaxyDone(c) \/ GalaxyFails(c) \/ Verify(c) \/ RequireFleetKey(c)
      PROVE  IInv'
  BY <1>4, ExtractKeeps, GalaxyDoneKeeps, GalaxyFailsKeeps, VerifyKeeps, RequireFleetKeyKeeps
<1>5. QED
  BY <1>1, <1>2, <1>3, <1>4, CommitKeeps, StraysKeep, OthersKeep DEF Next, Reconcile

-----------------------------------------------------------------------------
LEMMA InvHolds == Spec => []IInv
BY InitInv, NextKeeps, PTL DEF Spec

(* The variables of the model have the types that TypeOK gives them.       *)
THEOREM TypeCorrect == Spec => []TypeOK
<1>1. IInv => TypeOK
  BY DEF IInv
<1>2. QED
  BY <1>1, InvHolds, PTL

(* _dependency_lock admits one living command at a time to an install, for *)
(* any number of commands, live or not, and whichever fail or are killed.  *)
(* Of an ansible-galaxy whose command was killed alone it says nothing.    *)
THEOREM OneInstallerHolds == Spec => []OneInstaller
<1>1. IInv => OneInstaller
  BY DEF IInv, LockInv, OneInstaller, Critical
<1>2. QED
  BY <1>1, InvHolds, PTL

(* A playbook that was started by live_dependencies.py has what it         *)
(* consumes as declared until it ends, unless a pin was changed or a stray *)
(* ansible-galaxy has gone on: no other command replaces it, though those  *)
(* may reconcile the same worktree.                                        *)
THEOREM PlaybookHasItsPinsHolds == Spec => []PlaybookHasItsPins
<1>1. ASSUME IInv PROVE PlaybookHasItsPins
  <2> SUFFICES ASSUME NEW c \in Command, pc[c] = "playbook", c \in steady,
                      NEW d \in Consumes[c]
               PROVE  record[d] = declared[d] /\ d \in whole \cup cut
    BY DEF PlaybookHasItsPins
  <2>1. c \notin Validation /\ names[c] = {}
    BY <1>1 DEF IInv, NamesInv
  <2>2. Reconciled(c)
    BY DEF Reconciled
  <2>3. QED
    BY <1>1, <2>1, <2>2 DEF IInv, KeptInv, Present
<1>2. QED
  BY <1>1, InvHolds, PTL
==============================================================================
