---------------------------- MODULE BlueprintSync ----------------------------
(***************************************************************************)
(* scripts/authentik_blueprint_sync.py apply: one run after another        *)
(* reconciles Authentik's blueprint instances with the deployed files.     *)
(* The run reads the instances once, then walks its plan: it finds each    *)
(* instance in that snapshot, creates or corrects it, asks Authentik to    *)
(* apply it and polls until the worker has; at the end it looks again.     *)
(* Authentik applies asynchronously, and on its own when a file changes.   *)
(*                                                                         *)
(* A blueprint stands for its planned name and its file; deployed files    *)
(* do not change during a run.  Left out: the report, error texts, the     *)
(* choice of the base URL, the fields of the policy binding.               *)
(***************************************************************************)
EXTENDS Naturals, Sequences, FiniteSets, SequencesExt, FiniteSetsExt

CONSTANTS
  Steps,       \* the blueprints in the order of blueprint_plan, flows included
  Flow,        \* those that are exported flows
  FlowUser,    \* FlowUser[f]: the blueprint whose providers use flow f
  Nav,         \* repo-auth-navidrome-password-change-sync
  NavPolicy,   \* the blueprint that creates the policy Nav binds
  Needs,       \* Needs[b]: the blueprints without whose objects b fails
  Wants,       \* Wants[b]: those b looks up for a field that may stay empty
  Stranger,    \* a name, and a path, that no plan has
  PK,          \* primary keys, an initial segment of the positive integers
  Hashed,      \* choices for the blueprints Authentik lists with a hash
  Listed,      \* choices for the blueprints Authentik lists exactly once
  Initial,     \* the instances that may exist before the first run
  NoPk, NoInstance,
  MaxFaults    \* bound on failed requests, failed applies and timeouts

Planned == Range(Steps)
Blueprint == Planned \ {Nav}
Name == Planned \cup {Stranger}

ASSUME PlanOK ==
  /\ Nav \in Planned /\ NavPolicy \in Blueprint /\ Stranger \notin Planned
  /\ Flow \subseteq Blueprint /\ FlowUser \in [Flow -> Blueprint]
  /\ Needs \in [Blueprint -> SUBSET Blueprint] /\ Wants \in [Blueprint -> SUBSET Blueprint]
  /\ MaxFaults \in Nat

(* Each name is in the plan once, after what it needs.                     *)
ASSUME OrderOK ==
  /\ Steps \in Seq(Range(Steps))
  /\ \A i, j \in 1..Len(Steps) : Steps[i] = Steps[j] => i = j
  /\ \A i \in 1..Len(Steps) :
       LET before == {Steps[j] : j \in 1..(i - 1)}
       IN IF Steps[i] = Nav THEN NavPolicy \in before \ Flow ELSE Needs[Steps[i]] \subseteq before

NoHash == <<>>
Hash == {NoHash} \cup (Name \X {"old", "new"})
Status == {"unknown", "successful", "error"}
Instance == [name : Name, path : Name, enabled : BOOLEAN, status : Status, hash : Hash]

(* Keys do not run out.  What is there before the first run has names of    *)
(* its own.                                                                *)
ASSUME KeysOK ==
  /\ IsFiniteSet(PK) /\ PK \subseteq Nat /\ Cardinality(PK) >= Cardinality(Name)
  /\ NoPk \notin PK /\ NoInstance \notin Instance
ASSUME ChoicesOK ==
  /\ Hashed \subseteq SUBSET Blueprint /\ Listed \subseteq SUBSET Blueprint
  /\ \A s \in Initial :
       /\ DOMAIN s \subseteq PK /\ \A k \in DOMAIN s : s[k] \in Instance
       /\ \A j, k \in DOMAIN s : s[j].name = s[k].name => j = k

VARIABLES
  inst,      \* inst[k]: the blueprint instance with primary key k
  queue,     \* the instances the worker has been asked to apply
  objects,   \* objects[b]: b's objects in Authentik, "blank" if they are of
             \* the present file but for a lookup that found nothing
  binding,   \* the policy binding of the password change flow
  hashed, listed,
  pc,
  plan, at,  \* the blueprints of the run's plan, and its place in Steps
  snap,      \* the run's copy of the instances
  byName, byPath,
  moved,     \* those whose last_applied differs from the run's copy
  changed,
  settled,   \* history: the plan of the last success, while nothing happens
  blame,     \* history: what has gone wrong in this run
  failing,   \* history: a planned instance was in error when the run began
  faults

authentik == <<inst, queue, objects, binding, hashed, listed>>
copy == <<snap, byName, byPath>>
history == <<settled, blame, failing, faults>>
vars == <<authentik, pc, plan, at, copy, moved, changed, history>>

Location == {"idle", "instances", "step", "nav", "apply", "wait", "final", "ok", "failed"}

TypeOK ==
  /\ inst \in [PK -> Instance \cup {NoInstance}]
  /\ snap \in [PK -> Instance \cup {NoInstance}]
  /\ queue \subseteq PK /\ moved \subseteq PK
  /\ objects \in [Blueprint -> {"none", "old", "blank", "new"}]
  /\ binding \in {"absent", "wrong", "right"}
  /\ hashed \subseteq Blueprint /\ listed \subseteq Blueprint
  /\ pc \in Location
  /\ plan \subseteq Planned
  /\ at \in 1..(Len(Steps) + 1)
  /\ byName \in [Name -> PK \cup {NoPk}] /\ byPath \in [Name -> PK \cup {NoPk}]
  /\ changed \in BOOLEAN /\ failing \in BOOLEAN
  /\ settled \subseteq Planned
  /\ blame \subseteq {"fault", "lookup", "listing"}
  /\ faults \in 0..MaxFaults

-----------------------------------------------------------------------------
Exists(k) == inst[k] # NoInstance

(* {item[field]: item for item in instances}: the last one wins. *)
IndexBy(field) ==
  [n \in Name |-> LET K == {k \in PK : Exists(k) /\ inst[k][field] = n}
                  IN IF K = {} THEN NoPk ELSE Max(K)]

Init ==
  /\ inst \in {[k \in PK |-> IF k \in DOMAIN s THEN s[k] ELSE NoInstance] : s \in Initial}
  /\ hashed \in Hashed /\ listed \in Listed
  /\ objects \in {o \in [Blueprint -> {"none", "old", "new"}] :
       \A b \in Blueprint :
         /\ o[b] = "none" <=> ~\E k \in PK : Exists(k) /\ inst[k].hash # NoHash /\ inst[k].hash[1] = b
         /\ o[b] = "new" => \E k \in PK : Exists(k) /\ inst[k].hash = <<b, "new">>
         /\ o[b] = "old" => ~\E k \in PK : Exists(k) /\ inst[k].hash = <<b, "new">>}
  /\ binding \in {"absent", "wrong", "right"}
  /\ queue = {} /\ moved = {}
  /\ pc = "idle" /\ plan = {} /\ at = 1
  /\ snap = [k \in PK |-> NoInstance]
  /\ byName = [n \in Name |-> NoPk] /\ byPath = [n \in Name |-> NoPk]
  /\ changed = FALSE /\ failing = FALSE /\ settled = {} /\ blame = {} /\ faults = 0

-----------------------------------------------------------------------------
(* Faults of the run: a request that fails with or without its effect, or  *)
(* the death of the script.                                                *)

Fault == faults < MaxFaults /\ faults' = faults + 1

Running == pc \in Location \ {"idle", "ok", "failed"}

(* The script raises: nothing more is done. *)
Raise(why) == pc' = "failed" /\ blame' = blame \cup why

FailRequest ==
  /\ Running
  /\ Fault
  /\ Raise({"fault"})
  /\ UNCHANGED <<authentik, plan, at, copy, moved, changed, settled, failing>>

(* A request with effect E takes effect, and its answer is lost. *)
LoseAnswer(E) ==
  /\ E
  /\ Fault
  /\ Raise({"fault"})
  /\ UNCHANGED <<plan, at, copy, moved, changed, settled, failing>>

-----------------------------------------------------------------------------
(* The plan and the snapshot. *)

(* blueprint_plan: only flows that a live provider uses are in it. *)
BlueprintPlan == {b \in Planned : b \in Flow => objects[FlowUser[b]] # "none"}

(* The run starts and reads Authentik's providers and flows. *)
CollectState ==
  /\ ~Running
  /\ pc' = "instances"
  /\ plan' = BlueprintPlan /\ at' = 1
  /\ changed' = FALSE /\ blame' = {}
  /\ UNCHANGED <<authentik, copy, moved, settled, failing, faults>>

GetInstances ==
  /\ pc = "instances"
  /\ snap' = inst /\ moved' = {}
  /\ byName' = IndexBy("name")
  /\ byPath' = IndexBy("path")
  /\ failing' = \E k \in PK : Exists(k) /\ inst[k].status = "error"
                                /\ {inst[k].name, inst[k].path} \cap plan # {}
  /\ pc' = "step"
  /\ UNCHANGED <<authentik, plan, at, changed, settled, blame, faults>>

-----------------------------------------------------------------------------
(* One step of the plan. *)

Current == Steps[at]
AtStep == pc = "step" /\ at <= Len(Steps) /\ Current \in plan
AtBlueprint == AtStep /\ Current # Nav

(* An exported flow that the plan of this run leaves out. *)
PassOver ==
  /\ pc = "step" /\ at <= Len(Steps) /\ Current \notin plan
  /\ at' = at + 1
  /\ UNCHANGED <<authentik, pc, plan, copy, moved, changed, history>>

AvailableHash(b) == IF b \in hashed THEN <<b, "new">> ELSE NoHash

(* Mutant: the path is looked up first. *)
InstanceFor_PathFirst(b) == IF byPath[b] # NoPk THEN byPath[b] ELSE byName[b]

(* instances_by_name.get(name) or instances_by_path.get(available_path) *)
InstanceFor(b) == IF byName[b] # NoPk THEN byName[b] ELSE byPath[b]

Mismatch(i, b) == i.name # b \/ i.path # b \/ ~i.enabled

(* Mutant: a missing hash counts as unchanged. *)
Unproven_TrustsMissingHash(i, b) ==
  i.status # "successful" \/ (AvailableHash(b) # NoHash /\ i.hash # AvailableHash(b))

(* Mutant: an instance in error with the right hash is left alone. *)
Unproven_IgnoresStatus(i, b) == AvailableHash(b) = NoHash \/ i.hash # AvailableHash(b)

(* A listing without a hash proves nothing: such a blueprint is applied.   *)
Unproven(i, b) ==
  i.status # "successful" \/ AvailableHash(b) = NoHash \/ i.hash # AvailableHash(b)

(* "Expected exactly one available blueprint". *)
NotAvailable ==
  /\ AtBlueprint
  /\ Current \notin listed
  /\ Raise({"listing"})
  /\ UNCHANGED <<authentik, plan, at, copy, moved, changed, settled, failing, faults>>

(* A lookup table after the instance k filed under old is filed under new. *)
Relabel(table, old, new, k) ==
  [n \in Name |-> IF n = new THEN k ELSE IF n = old THEN NoPk ELSE table[n]]

NextFree == Min({k \in PK : ~Exists(k)})

CreateEffect(b) ==
  /\ inst' = [inst EXCEPT ![NextFree] =
                [name |-> b, path |-> b, enabled |-> TRUE, status |-> "unknown", hash |-> NoHash]]
  /\ UNCHANGED <<queue, objects, binding, hashed, listed>>

CreateInstance ==
  /\ AtBlueprint /\ Current \in listed
  /\ InstanceFor(Current) = NoPk
  /\ \/ /\ CreateEffect(Current)
        /\ snap' = [snap EXCEPT ![NextFree] = inst'[NextFree]]
        /\ byName' = [byName EXCEPT ![Current] = NextFree]
        /\ byPath' = [byPath EXCEPT ![Current] = NextFree]
        /\ changed' = TRUE
        /\ pc' = "apply"
        /\ UNCHANGED <<plan, at, moved, history>>
     \/ LoseAnswer(CreateEffect(Current))

UpdateEffect(k, b) ==
  /\ inst' = [inst EXCEPT ![k] = [@ EXCEPT !.name = b, !.path = b, !.enabled = TRUE]]
  /\ UNCHANGED <<queue, objects, binding, hashed, listed>>

UpdateInstance ==
  LET k == InstanceFor(Current)
  IN /\ AtBlueprint /\ Current \in listed
     /\ k # NoPk
     /\ Mismatch(snap[k], Current)
     /\ \/ /\ UpdateEffect(k, Current)
           /\ snap' = [snap EXCEPT ![k] = inst'[k]]
           /\ moved' = moved \ {k}
           /\ byName' = Relabel(byName, snap[k].name, Current, k)
           /\ byPath' = Relabel(byPath, snap[k].path, Current, k)
           /\ changed' = TRUE
           /\ pc' = "apply"
           /\ UNCHANGED <<plan, at, history>>
        \/ LoseAnswer(UpdateEffect(k, Current))

(* The instance is as it should be: applied again, or left alone. *)
KeepInstance ==
  LET k == InstanceFor(Current)
  IN /\ AtBlueprint /\ Current \in listed
     /\ k # NoPk
     /\ ~Mismatch(snap[k], Current)
     /\ IF Unproven(snap[k], Current)
          THEN pc' = "apply" /\ UNCHANGED <<at, byName, byPath>>
          ELSE /\ at' = at + 1
               /\ byName' = [byName EXCEPT ![Current] = k]
               /\ byPath' = [byPath EXCEPT ![Current] = k]
               /\ UNCHANGED pc
     /\ UNCHANGED <<authentik, plan, snap, moved, changed, history>>

ApplyEffect(k) ==
  /\ queue' = queue \cup {k}
  /\ UNCHANGED <<inst, objects, binding, hashed, listed>>

(* Mutant: the next step does not wait for the result. *)
ApplyInstance_Unwaited ==
  LET k == InstanceFor(Current)
  IN /\ pc = "apply"
     /\ ApplyEffect(k)
     /\ pc' = "step" /\ at' = at + 1
     /\ UNCHANGED <<plan, copy, moved, changed, history>>

ApplyInstance ==
  LET k == InstanceFor(Current)
  IN /\ pc = "apply"
     /\ \/ ApplyEffect(k) /\ pc' = "wait"
           /\ UNCHANGED <<plan, at, copy, moved, changed, history>>
        \/ LoseAnswer(ApplyEffect(k))

-----------------------------------------------------------------------------
(* wait_for_instance: the polls that decide something. *)

WaitFails ==
  LET i == inst[InstanceFor(Current)]
  IN /\ pc = "wait"
     /\ \/ i.status = "error"
        \/ /\ i.status = "successful" /\ InstanceFor(Current) \in moved
           /\ AvailableHash(Current) # NoHash /\ i.hash # AvailableHash(Current)
     /\ Raise({})
     /\ UNCHANGED <<authentik, plan, at, copy, moved, changed, settled, failing, faults>>

(* Mutant: a status from before the request will do. *)
WaitSucceeds_AnyStatus ==
  LET k == InstanceFor(Current)
  IN /\ pc = "wait"
     /\ inst[k].status = "successful"
     /\ snap' = [snap EXCEPT ![k] = inst[k]]
     /\ moved' = moved \ {k}
     /\ changed' = TRUE
     /\ pc' = "step" /\ at' = at + 1
     /\ UNCHANGED <<authentik, plan, byName, byPath, history>>

WaitSucceeds ==
  LET k == InstanceFor(Current)
  IN /\ pc = "wait"
     /\ inst[k].status = "successful" /\ k \in moved
     /\ AvailableHash(Current) # NoHash => inst[k].hash = AvailableHash(Current)
     /\ snap' = [snap EXCEPT ![k] = inst[k]]
     /\ moved' = moved \ {k}
     /\ changed' = TRUE
     /\ pc' = "step" /\ at' = at + 1
     /\ UNCHANGED <<authentik, plan, byName, byPath, history>>

-----------------------------------------------------------------------------
(* The Navidrome step. *)

(* The binding is corrected or created; its policy and target are looked   *)
(* up first.                                                               *)
EnsureBinding ==
  /\ AtStep /\ Current = Nav
  /\ IF objects[NavPolicy] = "none"
       THEN Raise({"lookup"}) /\ UNCHANGED <<binding, changed, faults>>
       ELSE /\ binding' = "right"
            /\ \/ /\ pc' = "nav"
                  /\ changed' = (changed \/ binding # "right")
                  /\ UNCHANGED <<blame, faults>>
               \/ Fault /\ Raise({"fault"}) /\ UNCHANGED changed
  /\ UNCHANGED <<inst, queue, objects, hashed, listed, plan, at, copy, moved, settled, failing>>

DeleteEffect(k) ==
  /\ inst' = [inst EXCEPT ![k] = NoInstance]
  /\ queue' = queue \ {k}
  /\ UNCHANGED <<objects, binding, hashed, listed>>

(* An instance that an older plan made of it is deleted. *)
DeleteStaleInstance ==
  LET k == byName[Nav]
  IN /\ pc = "nav"
     /\ k # NoPk
     /\ \/ /\ DeleteEffect(k)
           /\ byName' = [byName EXCEPT ![Nav] = NoPk]
           /\ byPath' = [byPath EXCEPT ![snap[k].path] = NoPk]
           /\ changed' = TRUE
           /\ pc' = "step" /\ at' = at + 1
           /\ moved' = moved \ {k}
           /\ UNCHANGED <<plan, snap, history>>
        \/ LoseAnswer(DeleteEffect(k))

NoStaleInstance ==
  /\ pc = "nav"
  /\ byName[Nav] = NoPk
  /\ pc' = "step" /\ at' = at + 1
  /\ UNCHANGED <<authentik, plan, copy, moved, changed, history>>

-----------------------------------------------------------------------------
(* The final observation. *)

Expected == plan \ {Nav}

(* What the last listing has to show: none missing, all successful, and    *)
(* the expected hash where there is one.                                   *)
Verified ==
  /\ \A b \in Expected : \E k \in PK : Exists(k) /\ inst[k].name = b
  /\ \A k \in PK : Exists(k) /\ inst[k].name \in Expected =>
       /\ inst[k].status = "successful"
       /\ inst[k].name \in hashed => inst[k].hash = AvailableHash(inst[k].name)

FinalObservation ==
  /\ pc = "step" /\ at > Len(Steps)
  /\ IF Verified
       THEN pc' = "ok" /\ settled' = plan /\ UNCHANGED blame
       ELSE Raise({}) /\ UNCHANGED settled
  /\ UNCHANGED <<authentik, plan, at, copy, moved, changed, failing, faults>>

(* 120 s pass, or the worker has dropped the request. *)
Timeout ==
  /\ pc = "wait"
  /\ Fault
  /\ Raise({"fault"})
  /\ \/ UNCHANGED queue
     \/ queue' = queue \ {InstanceFor(Current)}
  /\ UNCHANGED <<inst, objects, binding, hashed, listed, plan, at, copy, moved, changed, settled, failing>>

-----------------------------------------------------------------------------
(* Authentik's worker. *)

(* A lookup that finds nothing gives null (docs/stacks-authentik.md:120),  *)
(* which fails where the field is required.                                *)
Applicable(b) == b \in Blueprint /\ \A n \in Needs[b] : objects[n] # "none"

(* It applies what it was asked to apply, or, on its own, an instance      *)
(* whose file is not the one applied last.  A disabled one is ignored.     *)
Due(k) ==
  /\ Exists(k) /\ inst[k].enabled
  /\ k \in queue \/ inst[k].hash # <<inst[k].path, "new">>

WorkerApplies(k) ==
  /\ Due(k)
  /\ Applicable(inst[k].path)
  /\ inst' = [inst EXCEPT ![k].status = "successful", ![k].hash = <<inst[k].path, "new">>]
  /\ objects' = [objects EXCEPT ![inst[k].path] =
                    IF \A n \in Wants[inst[k].path] : objects[n] # "none" THEN "new" ELSE "blank"]
  /\ queue' = queue \ {k}
  /\ moved' = moved \cup {k}
  /\ settled' = {}
  /\ UNCHANGED <<binding, hashed, listed, pc, plan, at, copy, changed, blame, failing, faults>>

(* A lookup finds nothing, the file is not there, or the import fails. *)
WorkerErrs(k) ==
  /\ Due(k)
  /\ \/ ~Applicable(inst[k].path) /\ blame' = blame \cup {"lookup"} /\ UNCHANGED faults
     \/ Applicable(inst[k].path) /\ Fault /\ blame' = blame \cup {"fault"}
  /\ inst' = [inst EXCEPT ![k].status = "error"]
  /\ queue' = queue \ {k}
  /\ settled' = {}
  /\ UNCHANGED <<objects, binding, hashed, listed, pc, plan, at, copy, moved, changed, failing>>

-----------------------------------------------------------------------------
Script ==
  \/ CollectState \/ GetInstances \/ PassOver
  \/ NotAvailable \/ CreateInstance \/ UpdateInstance \/ KeepInstance \/ ApplyInstance
  \/ WaitFails \/ WaitSucceeds
  \/ EnsureBinding \/ DeleteStaleInstance \/ NoStaleInstance
  \/ FinalObservation

Worker == \E k \in PK : WorkerApplies(k) \/ WorkerErrs(k)

Next == Script \/ FailRequest \/ Timeout \/ Worker

Spec == Init /\ [][Next]_vars

(* The nightly deployment runs the script again (docs/adr/0019), requests  *)
(* are answered, and the worker gets to every instance that is due.        *)
FairSpec ==
  /\ Spec
  /\ WF_vars(Script)
  /\ \A k \in PK : WF_vars(WorkerApplies(k))

-----------------------------------------------------------------------------
(* A run that reports success has every planned blueprint's present file   *)
(* applied, also where Authentik lists no hash to prove it by.             *)
SuccessIsTrue == pc = "ok" => \A b \in Expected : objects[b] \in {"blank", "new"}

(* No blueprint is applied, and Navidrome's policy not bound, before what  *)
(* they need exists, as far as the plan creates it: the order of the plan  *)
(* and the wait for each step.                                             *)
PrerequisitesFirst ==
  /\ pc \in {"apply", "wait"} => \A n \in Needs[Current] \cap Expected : objects[n] # "none"
  /\ AtStep /\ Current = Nav => objects[NavPolicy] # "none"

(* A run in which nothing went wrong succeeds: no reading of its own stale *)
(* copy makes it fail.  The exception is an instance that was in error     *)
(* before: its first poll may come before the worker, and raises on that.  *)
CleanRunSucceeds == pc = "failed" /\ blame = {} => failing

(* However runs are cut short and instances renamed or re-pointed, no two  *)
(* instances ever have the name of one blueprint.                          *)
OneInstancePerName ==
  \A j, k \in PK : j # k /\ Exists(j) /\ Exists(k) => inst[j].name # inst[k].name

(* A run over what the last success left, with every hash listed and the   *)
(* same plan, changes nothing and says so.                                 *)
Idempotent ==
  [][ pc' = "ok" /\ pc # "ok" /\ settled = plan /\ Expected \subseteq hashed => ~changed ]_vars

(* Where every file is listed once and the flows either exist or are used  *)
(* by a live provider, repeated runs get to a success whatever an earlier  *)
(* one broke off, dropped or left in error.                                *)
Reconcilable ==
  /\ listed = Blueprint
  /\ \A f \in Flow : objects[f] # "none" \/ objects[FlowUser[f]] # "none"

Converges == Reconcilable => []<>(pc = "ok")

(* The objects of a run that reports success are what the files say, as    *)
(* 25-default-auth-policies.yaml:28 does of the enrollment flow.           *)
SuccessIsComplete == pc = "ok" => \A b \in Expected : objects[b] = "new"
=============================================================================
