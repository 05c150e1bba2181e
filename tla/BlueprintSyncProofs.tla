------------------------- MODULE BlueprintSyncProofs -------------------------
(***************************************************************************)
(* Theorems about BlueprintSync, for any plan, any needs that its order    *)
(* respects, any instances with names of their own to begin with and any   *)
(* number of faults.                                                       *)
(***************************************************************************)
EXTENDS BlueprintSync, FiniteSetTheorems, WellFoundedInduction, TLAPS

Reconciling == pc \in {"step", "nav", "apply", "wait"}
Clean == blame = {} /\ ~failing

(* The present file of b has been applied at some time.                    *)
Applied(b) == objects[b] \in {"blank", "new"}

(* Whatever has a blueprint's new hash, now or in the run's copy, is of a  *)
(* file that was applied.                                                  *)
HashInv ==
  \A k \in PK, b \in Blueprint :
    /\ inst[k] # NoInstance /\ inst[k].hash = <<b, "new">> => Applied(b)
    /\ snap[k] # NoInstance /\ snap[k].hash = <<b, "new">> => Applied(b)

(* The lookup tables are those of the instances as they are: the names     *)
(* exactly, the paths as far as they go.                                   *)
TableInv ==
  Reconciling =>
    \A n \in Name :
      /\ byName[n] # NoPk => Exists(byName[n]) /\ inst[byName[n]].name = n
      /\ byName[n] = NoPk => \A k \in PK : Exists(k) => inst[k].name # n
      /\ byPath[n] # NoPk => Exists(byPath[n]) /\ inst[byPath[n]].path = n

(* What the run's copy still says truly of an instance.                    *)
CopyInv ==
  Reconciling =>
    \A k \in PK :
      /\ k \in moved => Exists(k) /\ inst[k].hash = <<inst[k].path, "new">>
      /\ Exists(k) =>
           /\ snap[k] # NoInstance
           /\ snap[k].name = inst[k].name /\ snap[k].path = inst[k].path
           /\ snap[k].enabled = inst[k].enabled
           /\ snap[k].hash = <<inst[k].path, "new">> => inst[k].hash = <<inst[k].path, "new">>
           /\ blame = {} /\ snap[k].status = "successful" => inst[k].status = "successful"

(* In a run where nothing has gone wrong no planned instance is in error.  *)
ErrorInv ==
  Reconciling /\ Clean =>
    \A k \in PK : Exists(k) /\ {inst[k].name, inst[k].path} \cap plan # {} =>
      inst[k].status # "error"

(* The instance that the run is about is the one that it found or made.    *)
StepInv ==
  /\ pc \in {"nav", "apply", "wait"} => at <= Len(Steps) /\ Current \in plan
  /\ pc = "nav" => Current = Nav
  /\ pc \in {"apply", "wait"} =>
       /\ Current # Nav
       /\ byName[Current] # NoPk /\ inst[byName[Current]].path = Current
  /\ Running => Nav \in plan /\ Planned \ Flow \subseteq plan

(* What the steps before this one have brought about.                      *)
Settled(b) ==
  /\ Applied(b)
  /\ byName[b] # NoPk /\ inst[byName[b]].path = b
  /\ Clean => /\ inst[byName[b]].status = "successful"
              /\ inst[byName[b]].hash = <<b, "new">>

DoneInv ==
  /\ Reconciling => \A j \in 1..(at - 1) : Steps[j] \in Expected => Settled(Steps[j])
  /\ pc = "instances" => at = 1
  /\ SuccessIsTrue

IInv ==
  /\ TypeOK /\ OneInstancePerName /\ HashInv /\ TableInv /\ CopyInv /\ ErrorInv
  /\ StepInv /\ DoneInv /\ CleanRunSucceeds

-----------------------------------------------------------------------------
(* The plan, the hashes and the keys. *)

(* The plan is a finite sequence of distinct names.                        *)
LEMMA PlanFacts ==
  /\ Len(Steps) \in Nat
  /\ \A i \in 1..Len(Steps) : Steps[i] \in Planned
  /\ \A b \in Planned : \E i \in 1..Len(Steps) : Steps[i] = b
  /\ \A i, j \in 1..Len(Steps) : Steps[i] = Steps[j] => i = j
  /\ Planned \subseteq Name /\ Nav \in Planned /\ Nav \notin Flow
  /\ NavPolicy \in Blueprint /\ NavPolicy \notin Flow /\ Flow \subseteq Planned
<1>1. Steps \in Seq(Range(Steps))
  BY OrderOK
<1>2. Len(Steps) \in Nat /\ DOMAIN Steps = 1..Len(Steps)
  BY <1>1
<1>3. Planned = {Steps[i] : i \in 1..Len(Steps)}
  BY <1>2 DEF Planned, Range
<1>4. PICK i \in 1..Len(Steps) : Steps[i] = Nav
  BY <1>3, PlanOK
<1>5. NavPolicy \notin Flow
  BY <1>4, OrderOK
<1>6. QED
  BY <1>2, <1>3, <1>5, PlanOK, OrderOK DEF Name, Blueprint

(* What Authentik lists is no hash, or that of the present file.           *)
LEMMA HashFacts ==
  /\ NoHash \in Hash
  /\ \A b \in Name : <<b, "new">> \in Hash
  /\ \A b : <<b, "new">> # NoHash
  /\ \A b \in Name : AvailableHash(b) \in {NoHash, <<b, "new">>}
BY DEF Hash, NoHash, AvailableHash

(* A finite set of keys has a largest and a smallest one.                  *)
LEMMA LargestKey ==
  ASSUME NEW S \in SUBSET PK, S # {}
  PROVE  Max(S) \in S
<1> DEFINE Above(x) == {y \in S : y > x}
           T == {Above(x) : x \in S}
           R == StrictSubsetOrdering(S)
<1>1. IsFiniteSet(S) /\ \A x \in S : x \in Int
  <2>1. IsFiniteSet(PK) /\ PK \subseteq Nat
    BY KeysOK
  <2>2. \A x \in S : x \in Int
    BY <2>1
  <2>3. QED
    BY <2>1, <2>2, FS_Subset
<1>2. PICK U \in T : \A V \in T : ~(<<V, U>> \in R)
  <2>1. IsWellFoundedOn(R, SUBSET S)
    BY <1>1, FS_StrictSubsetOrderingWellFounded, FS_FiniteSubsetsOfFinite
  <2>2. T \subseteq SUBSET S /\ T # {}
    OBVIOUS
  <2> HIDE DEF T, R
  <2>3. QED
    BY <2>1, <2>2, WFMin
<1>3. PICK x \in S : U = Above(x)
  BY <1>2
<1>4. ASSUME NEW y \in S, y > x PROVE FALSE
  <2>1. ~(y > y) /\ \A z \in S : z > y => z > x
    BY <1>1, <1>4
  <2>2. Above(y) \subseteq Above(x)
    BY <2>1
  <2>3. y \in Above(x) /\ y \notin Above(y)
    BY <1>4, <2>1
  <2>4. <<Above(y), Above(x)>> \in R
    BY <2>2, <2>3 DEF StrictSubsetOrdering
  <2>5. Above(y) \in T
    BY <1>4
  <2>6. QED
    BY <1>2, <1>3, <2>4, <2>5
<1>5. \A y \in S : x >= y
  BY <1>1, <1>4
<1>6. QED
  BY <1>5 DEF Max

LEMMA SmallestKey ==
  ASSUME NEW S \in SUBSET PK, S # {}
  PROVE  Min(S) \in S
<1> DEFINE Below(x) == {y \in S : y < x}
           T == {Below(x) : x \in S}
           R == StrictSubsetOrdering(S)
<1>1. IsFiniteSet(S) /\ \A x \in S : x \in Int
  <2>1. IsFiniteSet(PK) /\ PK \subseteq Nat
    BY KeysOK
  <2>2. \A x \in S : x \in Int
    BY <2>1
  <2>3. QED
    BY <2>1, <2>2, FS_Subset
<1>2. PICK U \in T : \A V \in T : ~(<<V, U>> \in R)
  <2>1. IsWellFoundedOn(R, SUBSET S)
    BY <1>1, FS_StrictSubsetOrderingWellFounded, FS_FiniteSubsetsOfFinite
  <2>2. T \subseteq SUBSET S /\ T # {}
    OBVIOUS
  <2> HIDE DEF T, R
  <2>3. QED
    BY <2>1, <2>2, WFMin
<1>3. PICK x \in S : U = Below(x)
  BY <1>2
<1>4. ASSUME NEW y \in S, y < x PROVE FALSE
  <2>1. ~(y < y) /\ \A z \in S : z < y => z < x
    BY <1>1, <1>4
  <2>2. Below(y) \subseteq Below(x)
    BY <2>1
  <2>3. y \in Below(x) /\ y \notin Below(y)
    BY <1>4, <2>1
  <2>4. <<Below(y), Below(x)>> \in R
    BY <2>2, <2>3 DEF StrictSubsetOrdering
  <2>5. Below(y) \in T
    BY <1>4
  <2>6. QED
    BY <1>2, <1>3, <2>4, <2>5
<1>5. \A y \in S : x <= y
  BY <1>1, <1>4
<1>6. QED
  BY <1>5 DEF Min

(* A name that no instance has leaves a key that no instance has.          *)
LEMMA FreeKey ==
  ASSUME TypeOK, OneInstancePerName, NEW b \in Name,
         \A k \in PK : Exists(k) => inst[k].name # b
  PROVE  NextFree \in PK /\ ~Exists(NextFree)
<1>1. IsFiniteSet(Name) /\ IsFiniteSet(Name \ {b}) /\ Cardinality(Name \ {b}) < Cardinality(PK)
  <2> DEFINE I == 1..Len(Steps)
  <2>1. IsFiniteSet(I)
    BY PlanFacts, FS_Interval
  <2>2. Steps \in Surjection(I, Planned)
    <3>1. Steps \in [I -> Planned] /\ \A x \in Planned : \E i \in I : Steps[i] = x
      BY PlanFacts, OrderOK DEF Planned
    <3>2. QED
      BY <3>1 DEF Surjection
  <2>3. IsFiniteSet(Planned)
    BY <2>1, <2>2, FS_Surjection
  <2>4. IsFiniteSet(Name)
    BY <2>3, FS_AddElement DEF Name
  <2>5. /\ IsFiniteSet(Name \ {b}) /\ Cardinality(Name \ {b}) = Cardinality(Name) - 1
        /\ Cardinality(Name) \in Nat /\ Cardinality(PK) \in Nat
    BY <2>4, KeysOK, FS_RemoveElement, FS_CardinalityType
  <2>6. QED
    BY <2>4, <2>5, KeysOK
<1>2. \E k \in PK : ~Exists(k)
  <2> SUFFICES ASSUME \A k \in PK : Exists(k) PROVE FALSE
    OBVIOUS
  <2> DEFINE f == [k \in PK |-> inst[k].name]
  <2>1. \A k \in PK : inst[k].name \in Name \ {b}
    BY DEF TypeOK, Exists, Instance
  <2>2. f \in [PK -> Name \ {b}]
    BY <2>1
  <2>3. \E j, k \in PK : j # k /\ f[j] = f[k]
    <3> HIDE DEF f
    <3>1. QED
      BY <1>1, <2>2, KeysOK, FS_PigeonHole
  <2>4. QED
    BY <2>3 DEF OneInstancePerName
<1>3. QED
  <2> DEFINE S == {k \in PK : ~Exists(k)}
  <2>1. S \in SUBSET PK /\ S # {}
    BY <1>2
  <2>2. Min(S) \in S
    BY <2>1, SmallestKey
  <2>3. QED
    BY <2>2 DEF NextFree

(* Each table entry is the key of an instance that has the field.          *)
LEMMA TablesOf ==
  ASSUME TypeOK, NEW field \in {"name", "path"}
  PROVE  /\ IndexBy(field) \in [Name -> PK \cup {NoPk}]
         /\ \A n \in Name :
              /\ IndexBy(field)[n] # NoPk =>
                   Exists(IndexBy(field)[n]) /\ inst[IndexBy(field)[n]][field] = n
              /\ IndexBy(field)[n] = NoPk => \A k \in PK : Exists(k) => inst[k][field] # n
<1> DEFINE K(n) == {k \in PK : Exists(k) /\ inst[k][field] = n}
<1>1. IndexBy(field) = [n \in Name |-> IF K(n) = {} THEN NoPk ELSE Max(K(n))]
  BY DEF IndexBy
<1>2. ASSUME NEW n \in Name, K(n) # {} PROVE Max(K(n)) \in K(n)
  BY <1>2, LargestKey
<1>3. NoPk \notin PK
  BY KeysOK
<1>4. ASSUME NEW n \in Name
      PROVE  /\ IndexBy(field)[n] \in PK \cup {NoPk}
             /\ IndexBy(field)[n] # NoPk =>
                  Exists(IndexBy(field)[n]) /\ inst[IndexBy(field)[n]][field] = n
             /\ IndexBy(field)[n] = NoPk => \A k \in PK : Exists(k) => inst[k][field] # n
  <2>1. CASE K(n) = {}
    BY <1>1, <2>1
  <2>2. CASE K(n) # {}
    BY <1>1, <1>2, <1>3, <2>2
  <2>3. QED
    BY <2>1, <2>2
<1>5. IndexBy(field) \in [Name -> PK \cup {NoPk}]
  BY <1>1, <1>4
<1>6. QED
  BY <1>4, <1>5

(* Any instances with names of their own may be there at first.            *)
LEMMA InitInv == Init => IInv
<1> SUFFICES ASSUME Init PROVE IInv
  OBVIOUS
<1>1. PICK s \in Initial : inst = [k \in PK |-> IF k \in DOMAIN s THEN s[k] ELSE NoInstance]
  BY DEF Init
<1>2. /\ DOMAIN s \subseteq PK /\ \A k \in DOMAIN s : s[k] \in Instance
      /\ \A j, k \in DOMAIN s : s[j].name = s[k].name => j = k
  BY ChoicesOK
<1>3. inst \in [PK -> Instance \cup {NoInstance}] /\ OneInstancePerName
  BY <1>1, <1>2 DEF OneInstancePerName, Exists
<1>4. faults \in 0..MaxFaults /\ at \in 1..(Len(Steps) + 1)
  <2>1. faults = 0 /\ at = 1 /\ Len(Steps) \in Nat /\ MaxFaults \in Nat
    BY PlanFacts, PlanOK DEF Init
  <2>2. QED
    BY <2>1
<1>5. hashed \subseteq Blueprint /\ listed \subseteq Blueprint
  BY ChoicesOK DEF Init
<1>6. TypeOK
  <2>1. /\ objects \in [Blueprint -> {"none", "old", "blank", "new"}]
        /\ snap \in [PK -> Instance \cup {NoInstance}]
        /\ byName \in [Name -> PK \cup {NoPk}] /\ byPath \in [Name -> PK \cup {NoPk}]
    BY DEF Init
  <2>2. /\ queue = {} /\ moved = {} /\ plan = {} /\ settled = {} /\ blame = {} /\ pc = "idle"
        /\ binding \in {"absent", "wrong", "right"} /\ changed = FALSE /\ failing = FALSE
    BY DEF Init
  <2>3. QED
    BY <1>3, <1>4, <1>5, <2>1, <2>2 DEF TypeOK, Location
<1>7. HashInv
  <2>1. ASSUME NEW k \in PK, NEW b \in Blueprint, Exists(k), inst[k].hash = <<b, "new">>
        PROVE  Applied(b)
    <3>1. inst[k].hash # NoHash /\ inst[k].hash[1] = b
      BY <2>1, HashFacts
    <3>2. /\ objects[b] \in {"none", "old", "new"}
          /\ objects[b] = "none" <=>
               ~\E j \in PK : Exists(j) /\ inst[j].hash # NoHash /\ inst[j].hash[1] = b
          /\ objects[b] = "old" => ~\E j \in PK : Exists(j) /\ inst[j].hash = <<b, "new">>
      BY <2>1 DEF Init
    <3>3. QED
      BY <2>1, <3>1, <3>2 DEF Applied
  <2>2. \A k \in PK : snap[k] = NoInstance
    BY DEF Init
  <2>3. QED
    BY <2>1, <2>2 DEF HashInv, Exists
<1>8. TableInv /\ CopyInv /\ ErrorInv /\ StepInv /\ DoneInv /\ CleanRunSucceeds
  BY DEF Init, TableInv, CopyInv, ErrorInv, StepInv, DoneInv, CleanRunSucceeds, SuccessIsTrue,
     Reconciling, Running
<1>9. QED
  BY <1>3, <1>6, <1>7, <1>8 DEF IInv

-----------------------------------------------------------------------------
(* Steps that end or go through a run without touching an instance. *)

(* A fault is counted.                                                     *)
LEMMA FaultBounded == ASSUME TypeOK, Fault PROVE faults' \in 0..MaxFaults
<1>1. faults \in 0..MaxFaults /\ MaxFaults \in Nat
  BY PlanOK DEF TypeOK
<1>2. QED
  BY <1>1 DEF Fault

(* A run that fails leaves instances with names of their own and no new    *)
(* hash.                                                                   *)
LEMMA FailedKeeps ==
  ASSUME IInv, pc' = "failed",
         UNCHANGED <<objects, hashed, listed, plan, at, copy, moved, changed, settled, failing>>,
         inst' \in [PK -> Instance \cup {NoInstance}], queue' \subseteq PK,
         binding' \in {"absent", "wrong", "right"},
         blame' \subseteq {"fault", "lookup", "listing"}, faults' \in 0..MaxFaults,
         blame' # {} \/ failing,
         OneInstancePerName',
         \A k \in PK : inst'[k] # NoInstance =>
           inst'[k].hash = NoHash \/ (inst[k] # NoInstance /\ inst'[k].hash = inst[k].hash)
  PROVE  IInv'
<1>1. TypeOK'
  BY DEF IInv, TypeOK, copy, Location
<1>2. HashInv'
  BY HashFacts DEF IInv, HashInv, Applied, copy
<1>3. TableInv' /\ CopyInv' /\ ErrorInv' /\ StepInv' /\ DoneInv'
  BY DEF TableInv, CopyInv, ErrorInv, StepInv, DoneInv, SuccessIsTrue, Reconciling, Running
<1>4. CleanRunSucceeds'
  BY DEF CleanRunSucceeds
<1>5. QED
  BY <1>1, <1>2, <1>3, <1>4 DEF IInv

(* A run that fails without touching an instance.                          *)
LEMMA RaiseKeeps ==
  ASSUME IInv, pc' = "failed",
         UNCHANGED <<inst, objects, hashed, listed, plan, at, copy, moved, changed, settled, failing>>,
         queue' \subseteq PK, binding' \in {"absent", "wrong", "right"},
         blame' \subseteq {"fault", "lookup", "listing"}, faults' \in 0..MaxFaults,
         blame' # {} \/ failing
  PROVE  IInv'
<1>1. inst \in [PK -> Instance \cup {NoInstance}] /\ inst' = inst
  BY DEF IInv, TypeOK
<1>2. OneInstancePerName'
  BY DEF IInv, OneInstancePerName, Exists
<1>3. QED
  BY <1>1, <1>2, FailedKeeps

LEMMA FailRequestKeeps == ASSUME IInv, FailRequest PROVE IInv'
<1>1. /\ pc' = "failed" /\ blame' = blame \cup {"fault"} /\ Fault
      /\ UNCHANGED <<authentik, plan, at, copy, moved, changed, settled, failing>>
  BY DEF FailRequest, Raise
<1>2. faults' \in 0..MaxFaults
  BY <1>1, FaultBounded DEF IInv
<1>3. QED
  BY <1>1, <1>2, RaiseKeeps DEF IInv, TypeOK, authentik

LEMMA NotAvailableKeeps == ASSUME IInv, NotAvailable PROVE IInv'
<1>1. /\ pc' = "failed" /\ blame' = blame \cup {"listing"}
      /\ UNCHANGED <<authentik, plan, at, copy, moved, changed, settled, failing, faults>>
  BY DEF NotAvailable, Raise
<1>2. QED
  BY <1>1, RaiseKeeps DEF IInv, TypeOK, authentik

LEMMA TimeoutKeeps == ASSUME IInv, Timeout PROVE IInv'
<1>1. /\ pc' = "failed" /\ blame' = blame \cup {"fault"} /\ Fault
      /\ UNCHANGED <<inst, objects, binding, hashed, listed>>
      /\ UNCHANGED <<plan, at, copy, moved, changed, settled, failing>>
      /\ queue' \subseteq queue
  BY DEF Timeout, Raise
<1>2. faults' \in 0..MaxFaults
  BY <1>1, FaultBounded DEF IInv
<1>3. QED
  BY <1>1, <1>2, RaiseKeeps DEF IInv, TypeOK

(* A run begins.                                                           *)
LEMMA CollectStateKeeps == ASSUME IInv, CollectState PROVE IInv'
<1>1. /\ pc' = "instances" /\ plan' = BlueprintPlan /\ at' = 1 /\ changed' = FALSE /\ blame' = {}
      /\ UNCHANGED <<inst, queue, objects, binding, hashed, listed>>
      /\ UNCHANGED <<copy, moved, settled, failing, faults>>
  BY DEF CollectState, authentik
<1>2. plan' \subseteq Planned /\ at' \in 1..(Len(Steps) + 1)
  BY <1>1, PlanFacts DEF BlueprintPlan
<1>3. TypeOK'
  BY <1>1, <1>2 DEF IInv, TypeOK, copy, Location
<1>4. OneInstancePerName' /\ HashInv'
  BY <1>1 DEF IInv, OneInstancePerName, Exists, HashInv, Applied, copy
<1>5. TableInv' /\ CopyInv' /\ ErrorInv' /\ DoneInv' /\ CleanRunSucceeds'
  BY <1>1 DEF TableInv, CopyInv, ErrorInv, DoneInv, SuccessIsTrue, Reconciling, CleanRunSucceeds
<1>6. StepInv'
  <2>1. Nav \in plan' /\ Planned \ Flow \subseteq plan'
    BY <1>1, PlanFacts DEF BlueprintPlan
  <2>2. QED
    BY <1>1, <2>1 DEF StepInv
<1>7. QED
  BY <1>3, <1>4, <1>5, <1>6 DEF IInv

(* A step of the run that touches no instance and no name.  The step that  *)
(* it leaves behind is settled.                                            *)
LEMMA RunStepKeeps ==
  ASSUME IInv, Reconciling, Reconciling', pc' \in Location,
         UNCHANGED <<inst, objects, hashed, listed, snap, byName, moved, plan>>,
         UNCHANGED <<settled, blame, failing, faults>>,
         queue' \subseteq PK, binding' \in {"absent", "wrong", "right"}, changed' \in BOOLEAN,
         \/ byPath' = byPath
         \/ \E n \in Name, k \in PK :
              byPath' = [byPath EXCEPT ![n] = k] /\ Exists(k) /\ inst[k].path = n,
         StepInv',
         \/ at' = at
         \/ /\ at' = at + 1 /\ at <= Len(Steps)
            /\ Steps[at] \in Expected => Settled(Steps[at])
  PROVE  IInv'
<1>1. at' \in 1..(Len(Steps) + 1)
  BY PlanFacts DEF IInv, TypeOK
<1>2. byPath' \in [Name -> PK \cup {NoPk}]
  BY DEF IInv, TypeOK
<1>3. TypeOK'
  BY <1>1, <1>2 DEF IInv, TypeOK
<1>4. OneInstancePerName' /\ HashInv' /\ CopyInv' /\ ErrorInv'
  BY DEF IInv, OneInstancePerName, Exists, HashInv, Applied, CopyInv, ErrorInv, Clean
<1>5. \A k : Exists(k)' <=> Exists(k)
  BY DEF Exists
<1>6. \A n \in Name : byPath'[n] # NoPk => Exists(byPath'[n]) /\ inst[byPath'[n]].path = n
  BY DEF IInv, TypeOK, TableInv
<1>7. TableInv'
  BY <1>5, <1>6 DEF IInv, TableInv
<1>8. \A b : Settled(b)' <=> Settled(b)
  BY DEF Settled, Applied, Clean
<1>9. ASSUME NEW j \in 1..(at' - 1), Steps[j] \in Expected PROVE Settled(Steps[j])
  <2>1. at \in Nat
    BY PlanFacts DEF IInv, TypeOK
  <2>2. j \in 1..(at - 1) \/ (j = at /\ at' = at + 1)
    BY <1>9, <2>1
  <2>3. QED
    BY <1>9, <2>2 DEF IInv, DoneInv
<1>10. DoneInv'
  BY <1>8, <1>9 DEF DoneInv, Expected, SuccessIsTrue, Reconciling
<1>11. CleanRunSucceeds'
  BY DEF CleanRunSucceeds, Reconciling
<1>12. QED
  BY <1>3, <1>4, <1>7, <1>10, <1>11 DEF IInv

(* A flow that the plan leaves out.                                        *)
LEMMA PassOverKeeps == ASSUME IInv, PassOver PROVE IInv'
<1>1. /\ pc = "step" /\ pc' = pc /\ at <= Len(Steps) /\ at' = at + 1 /\ Steps[at] \notin Expected
      /\ UNCHANGED <<inst, queue, objects, binding, hashed, listed, snap, byName, byPath>>
      /\ UNCHANGED <<plan, moved, changed, settled, blame, failing, faults>>
  BY DEF PassOver, Current, Expected, authentik, copy, history
<1>2. StepInv'
  BY <1>1 DEF IInv, StepInv, Running
<1>3. QED
  BY <1>1, <1>2, RunStepKeeps DEF IInv, TypeOK, Reconciling, Location

LEMMA NoStaleInstanceKeeps == ASSUME IInv, NoStaleInstance PROVE IInv'
<1>1. /\ pc = "nav" /\ pc' = "step" /\ at' = at + 1
      /\ UNCHANGED <<inst, queue, objects, binding, hashed, listed, snap, byName, byPath>>
      /\ UNCHANGED <<plan, moved, changed, settled, blame, failing, faults>>
  BY DEF NoStaleInstance, authentik, copy, history
<1>2. at <= Len(Steps) /\ Steps[at] \notin Expected
  BY <1>1 DEF IInv, StepInv, Current, Expected
<1>3. StepInv'
  BY <1>1 DEF IInv, StepInv, Running, Location
<1>4. QED
  BY <1>1, <1>2, <1>3, RunStepKeeps DEF IInv, TypeOK, Reconciling, Location

(* The binding is no instance.                                             *)
LEMMA EnsureBindingKeeps == ASSUME IInv, EnsureBinding PROVE IInv'
<1>1. /\ AtStep /\ Current = Nav
      /\ UNCHANGED <<inst, queue, objects, hashed, listed, plan, at, copy, moved, settled, failing>>
  BY DEF EnsureBinding
<1>2. CASE /\ pc' = "nav" /\ binding' = "right" /\ changed' = (changed \/ binding # "right")
           /\ UNCHANGED <<blame, faults>>
  <2>1. StepInv'
    BY <1>1, <1>2 DEF IInv, StepInv, AtStep, Running, Location, Current
  <2>2. changed' \in BOOLEAN
    BY <1>2
  <2>3. QED
    BY <1>1, <1>2, <2>1, <2>2, RunStepKeeps
       DEF IInv, TypeOK, AtStep, Reconciling, Location, copy
<1>3. CASE /\ binding' = "right" /\ Fault /\ Raise({"fault"}) /\ UNCHANGED changed
  <2>1. pc' = "failed" /\ blame' = blame \cup {"fault"} /\ faults' \in 0..MaxFaults
    BY <1>3, FaultBounded DEF Raise, IInv
  <2>2. QED
    BY <1>1, <1>3, <2>1, RaiseKeeps DEF IInv, TypeOK
<1>4. CASE Raise({"lookup"}) /\ UNCHANGED <<binding, changed, faults>>
  <2>1. pc' = "failed" /\ blame' = blame \cup {"lookup"}
    BY <1>4 DEF Raise
  <2>2. QED
    BY <1>1, <1>4, <2>1, RaiseKeeps DEF IInv, TypeOK
<1>5. QED
  BY <1>2, <1>3, <1>4 DEF EnsureBinding

(* The result of the last look.                                            *)
LEMMA FinalObservationKeeps == ASSUME IInv, FinalObservation PROVE IInv'
<1>1. /\ pc = "step" /\ at > Len(Steps)
      /\ UNCHANGED <<inst, queue, objects, binding, hashed, listed>>
      /\ UNCHANGED <<plan, at, copy, moved, changed, failing, faults>>
  BY DEF FinalObservation, authentik
<1>2. ASSUME NEW b \in Expected PROVE Settled(b) /\ b \in Name
  <2>1. PICK j \in 1..Len(Steps) : Steps[j] = b
    BY <1>2, PlanFacts DEF Expected, IInv, TypeOK
  <2>2. j \in 1..(at - 1)
    BY <1>1, PlanFacts DEF IInv, TypeOK
  <2>3. QED
    BY <1>1, <1>2, <2>1, <2>2, PlanFacts DEF IInv, DoneInv, Reconciling, Expected, TypeOK
<1>3. CASE pc' = "ok" /\ settled' = plan /\ UNCHANGED blame
  <2>1. TypeOK'
    BY <1>1, <1>3 DEF IInv, TypeOK, Location, copy
  <2>2. OneInstancePerName' /\ HashInv'
    BY <1>1 DEF IInv, OneInstancePerName, Exists, HashInv, Applied, copy
  <2>3. SuccessIsTrue'
    BY <1>1, <1>2 DEF SuccessIsTrue, Expected, Settled, Applied
  <2>4. TableInv' /\ CopyInv' /\ ErrorInv' /\ StepInv' /\ DoneInv' /\ CleanRunSucceeds'
    BY <1>3, <2>3 DEF TableInv, CopyInv, ErrorInv, StepInv, DoneInv, Reconciling, Running,
       CleanRunSucceeds
  <2>5. QED
    BY <2>1, <2>2, <2>4 DEF IInv
<1>4. CASE ~Verified /\ Raise({}) /\ UNCHANGED settled
  <2>1. pc' = "failed" /\ blame' = blame
    BY <1>4 DEF Raise
  <2>2. ASSUME Clean PROVE Verified
    <3>1. ASSUME NEW b \in Expected
          PROVE  /\ byName[b] \in PK /\ Exists(byName[b]) /\ inst[byName[b]].name = b
                 /\ inst[byName[b]].status = "successful"
                 /\ inst[byName[b]].hash = <<b, "new">>
      BY <1>1, <1>2, <2>2, <3>1 DEF Settled, IInv, TypeOK, TableInv, Reconciling
    <3>2. ASSUME NEW k \in PK, Exists(k), inst[k].name \in Expected
          PROVE  byName[inst[k].name] = k
      BY <3>1, <3>2 DEF IInv, OneInstancePerName
    <3>3. QED
      BY <3>1, <3>2 DEF Verified, AvailableHash
  <2>3. blame' # {} \/ failing
    BY <1>4, <2>1, <2>2 DEF Clean
  <2>4. QED
    BY <1>1, <1>4, <2>1, <2>3, RaiseKeeps DEF IInv, TypeOK
<1>5. QED
  BY <1>3, <1>4 DEF FinalObservation

(* The copy and the tables are exact when they are made.                   *)
LEMMA GetInstancesKeeps == ASSUME IInv, GetInstances PROVE IInv'
<1>1. /\ pc = "instances" /\ pc' = "step" /\ snap' = inst /\ moved' = {}
      /\ byName' = IndexBy("name") /\ byPath' = IndexBy("path")
      /\ failing' = \E k \in PK : Exists(k) /\ inst[k].status = "error"
                                    /\ {inst[k].name, inst[k].path} \cap plan # {}
      /\ UNCHANGED <<inst, queue, objects, binding, hashed, listed>>
      /\ UNCHANGED <<plan, at, changed, settled, blame, faults>>
  BY DEF GetInstances, authentik
<1>2. \A k : Exists(k)' <=> Exists(k)
  BY <1>1 DEF Exists
<1>3. TypeOK'
  <2>1. byName' \in [Name -> PK \cup {NoPk}] /\ byPath' \in [Name -> PK \cup {NoPk}]
    BY <1>1, TablesOf DEF IInv
  <2>2. failing' \in BOOLEAN
    BY <1>1
  <2>3. QED
    BY <1>1, <2>1, <2>2 DEF IInv, TypeOK, Location
<1>4. OneInstancePerName' /\ HashInv'
  BY <1>1 DEF IInv, OneInstancePerName, Exists, HashInv, Applied
<1>5. TableInv'
  <2>1. ASSUME NEW n \in Name
        PROVE  /\ byName'[n] # NoPk => Exists(byName'[n]) /\ inst[byName'[n]].name = n
               /\ byName'[n] = NoPk => \A k \in PK : Exists(k) => inst[k].name # n
               /\ byPath'[n] # NoPk => Exists(byPath'[n]) /\ inst[byPath'[n]].path = n
    <3>1. /\ IndexBy("name")[n] # NoPk =>
               Exists(IndexBy("name")[n]) /\ inst[IndexBy("name")[n]]["name"] = n
          /\ IndexBy("name")[n] = NoPk => \A k \in PK : Exists(k) => inst[k]["name"] # n
      BY <2>1, TablesOf DEF IInv
    <3>2. IndexBy("path")[n] # NoPk =>
               Exists(IndexBy("path")[n]) /\ inst[IndexBy("path")[n]]["path"] = n
      BY <2>1, TablesOf DEF IInv
    <3>3. QED
      BY <1>1, <3>1, <3>2
  <2>2. QED
    BY <1>1, <1>2, <2>1 DEF TableInv
<1>6. CopyInv' /\ ErrorInv'
  BY <1>1, <1>2 DEF CopyInv, ErrorInv, Clean, Exists
<1>7. StepInv' /\ CleanRunSucceeds'
  BY <1>1 DEF IInv, StepInv, Running, Location, CleanRunSucceeds
<1>8. DoneInv'
  BY <1>1 DEF IInv, DoneInv, SuccessIsTrue
<1>9. QED
  BY <1>3, <1>4, <1>5, <1>6, <1>7, <1>8 DEF IInv

-----------------------------------------------------------------------------
(* Steps that touch an instance. *)

(* The instance that a step finds has the blueprint's name or its path.    *)
LEMMA Looked ==
  ASSUME IInv, AtBlueprint
  PROVE  /\ Current \in Blueprint /\ Current \in Name /\ Current \in Expected /\ at \in 1..Len(Steps)
         /\ InstanceFor(Current) = NoPk =>
              \A k \in PK : Exists(k) => inst[k].name # Current
         /\ InstanceFor(Current) # NoPk =>
              /\ InstanceFor(Current) \in PK /\ Exists(InstanceFor(Current))
              /\ inst[InstanceFor(Current)].name = Current \/ inst[InstanceFor(Current)].path = Current
              /\ \A k \in PK \ {InstanceFor(Current)} : Exists(k) => inst[k].name # Current
<1>1. /\ at \in 1..Len(Steps) /\ Current \in plan /\ Current # Nav /\ pc = "step"
  BY PlanFacts DEF AtBlueprint, AtStep, IInv, TypeOK
<1>2. Current \in Blueprint /\ Current \in Name /\ Current \in Expected
  BY <1>1, PlanFacts DEF Blueprint, Expected, IInv, TypeOK
<1>3. byName[Current] \in PK \cup {NoPk} /\ byPath[Current] \in PK \cup {NoPk}
  BY <1>2 DEF IInv, TypeOK
<1>4. /\ byName[Current] # NoPk => Exists(byName[Current]) /\ inst[byName[Current]].name = Current
      /\ byName[Current] = NoPk => \A k \in PK : Exists(k) => inst[k].name # Current
      /\ byPath[Current] # NoPk => Exists(byPath[Current]) /\ inst[byPath[Current]].path = Current
  BY <1>1, <1>2 DEF IInv, TableInv, Reconciling
<1>5. CASE byName[Current] # NoPk
  <2>1. InstanceFor(Current) = byName[Current]
    BY <1>5 DEF InstanceFor
  <2>2. \A k \in PK \ {byName[Current]} : Exists(k) => inst[k].name # Current
    BY <1>3, <1>4, <1>5 DEF IInv, OneInstancePerName
  <2>3. QED
    BY <1>1, <1>2, <1>3, <1>4, <1>5, <2>1, <2>2
<1>6. CASE byName[Current] = NoPk
  <2>1. InstanceFor(Current) = byPath[Current]
    BY <1>6 DEF InstanceFor
  <2>2. QED
    BY <1>1, <1>2, <1>3, <1>4, <1>6, <2>1
<1>7. QED
  BY <1>5, <1>6

(* The instance that is applied has both.                                  *)
LEMMA WaitedFor ==
  ASSUME IInv, pc \in {"apply", "wait"}
  PROVE  /\ Current \in Blueprint /\ Current \in Name /\ Current \in Expected /\ at \in 1..Len(Steps)
         /\ InstanceFor(Current) = byName[Current]
         /\ byName[Current] \in PK /\ Exists(byName[Current])
         /\ inst[byName[Current]].name = Current /\ inst[byName[Current]].path = Current
<1>1. /\ at \in 1..Len(Steps) /\ Current \in plan /\ Current # Nav
      /\ byName[Current] # NoPk /\ inst[byName[Current]].path = Current
  BY PlanFacts DEF IInv, TypeOK, StepInv
<1>2. Current \in Blueprint /\ Current \in Name /\ Current \in Expected
  BY <1>1, PlanFacts DEF Blueprint, Expected, IInv, TypeOK
<1>3. QED
  BY <1>1, <1>2 DEF IInv, TypeOK, TableInv, Reconciling, InstanceFor

(* The worker is only asked.                                               *)
LEMMA ApplyInstanceKeeps == ASSUME IInv, ApplyInstance PROVE IInv'
<1>1. pc = "apply" /\ InstanceFor(Current) \in PK
  BY WaitedFor DEF ApplyInstance
<1>2. CASE /\ ApplyEffect(InstanceFor(Current)) /\ pc' = "wait"
           /\ UNCHANGED <<plan, at, copy, moved, changed, history>>
  <2>1. /\ queue' = queue \cup {InstanceFor(Current)}
        /\ UNCHANGED <<inst, objects, binding, hashed, listed, snap, byName, byPath>>
        /\ UNCHANGED <<plan, at, moved, changed, settled, blame, failing, faults>>
    BY <1>2 DEF ApplyEffect, copy, history
  <2>2. StepInv'
    BY <1>1, <1>2, <2>1 DEF IInv, StepInv, Running, Location, Current
  <2>3. QED
    BY <1>1, <1>2, <2>1, <2>2, RunStepKeeps DEF IInv, TypeOK, Reconciling, Location
<1>3. CASE LoseAnswer(ApplyEffect(InstanceFor(Current)))
  <2>1. /\ queue' = queue \cup {InstanceFor(Current)}
        /\ UNCHANGED <<inst, objects, binding, hashed, listed>>
        /\ pc' = "failed" /\ blame' = blame \cup {"fault"} /\ Fault
        /\ UNCHANGED <<plan, at, copy, moved, changed, settled, failing>>
    BY <1>3 DEF LoseAnswer, ApplyEffect, Raise
  <2>2. faults' \in 0..MaxFaults
    BY <2>1, FaultBounded DEF IInv
  <2>3. QED
    BY <1>1, <2>1, <2>2, RaiseKeeps DEF IInv, TypeOK
<1>4. QED
  BY <1>2, <1>3 DEF ApplyInstance

(* An instance that is left alone is proven to be applied.                 *)
LEMMA KeepInstanceKeeps == ASSUME IInv, KeepInstance PROVE IInv'
<1> DEFINE k == InstanceFor(Current)
<1>1. /\ AtBlueprint /\ pc = "step" /\ k # NoPk /\ ~Mismatch(snap[k], Current)
      /\ UNCHANGED <<inst, queue, objects, binding, hashed, listed, snap>>
      /\ UNCHANGED <<plan, moved, changed, settled, blame, failing, faults>>
  BY DEF KeepInstance, authentik, history, AtBlueprint, AtStep
<1>2. /\ k \in PK /\ Exists(k) /\ Current \in Name /\ Current \in Blueprint /\ at \in 1..Len(Steps)
      /\ Current \in Expected /\ Current \in plan /\ Current # Nav
  BY <1>1, Looked DEF AtBlueprint, AtStep
<1>3. snap[k] # NoInstance /\ inst[k].name = Current /\ inst[k].path = Current
  BY <1>1, <1>2 DEF IInv, CopyInv, Reconciling, Mismatch
<1>4. byName[Current] = k
  BY <1>1, <1>2, <1>3 DEF IInv, TableInv, Reconciling, InstanceFor
<1>5. CASE Unproven(snap[k], Current)
  <2>1. pc' = "apply" /\ UNCHANGED <<at, byName, byPath>>
    BY <1>5 DEF KeepInstance
  <2>2. StepInv'
    BY <1>1, <1>2, <1>3, <1>4, <2>1, KeysOK DEF IInv, StepInv, Running, Location, Current
  <2>3. QED
    BY <1>1, <2>1, <2>2, RunStepKeeps DEF IInv, TypeOK, Reconciling, Location
<1>6. CASE ~Unproven(snap[k], Current)
  <2>1. /\ at' = at + 1 /\ UNCHANGED pc
        /\ byName' = [byName EXCEPT ![Current] = k] /\ byPath' = [byPath EXCEPT ![Current] = k]
    BY <1>6 DEF KeepInstance
  <2>2. byName' = byName
    BY <1>2, <1>4, <2>1 DEF IInv, TypeOK
  <2>3. StepInv'
    BY <1>1, <2>1 DEF IInv, StepInv, Running
  <2>4. snap[k].status = "successful" /\ snap[k].hash = <<Current, "new">>
    BY <1>2, <1>6, HashFacts DEF Unproven
  <2>5. Settled(Current)
    BY <1>1, <1>2, <1>3, <1>4, <2>4, KeysOK
       DEF IInv, HashInv, CopyInv, Reconciling, Settled, Clean
  <2>6. \E n \in Name, j \in PK : byPath' = [byPath EXCEPT ![n] = j] /\ Exists(j) /\ inst[j].path = n
    <3> HIDE DEF k
    <3>1. QED
      BY <1>2, <1>3, <2>1
  <2>7. at <= Len(Steps) /\ Settled(Steps[at])
    BY <1>2, <2>5, PlanFacts DEF Current
  <2>8. pc = "step" /\ pc' = "step" /\ at' = at + 1
    BY <1>1, <2>1
  <2>9. QED
    BY <1>1, <2>2, <2>3, <2>6, <2>7, <2>8, RunStepKeeps DEF IInv, TypeOK, Reconciling, Location
<1>7. QED
  BY <1>5, <1>6

(* A wait that raises has a reason.                                        *)
LEMMA WaitFailsKeeps == ASSUME IInv, WaitFails PROVE IInv'
<1> DEFINE k == byName[Current]
<1>1. /\ pc = "wait" /\ pc' = "failed" /\ blame' = blame
      /\ UNCHANGED <<inst, queue, objects, binding, hashed, listed>>
      /\ UNCHANGED <<plan, at, copy, moved, changed, settled, failing, faults>>
  BY DEF WaitFails, Raise, authentik
<1>2. /\ InstanceFor(Current) = k /\ k \in PK /\ Exists(k) /\ Current \in Name /\ Current \in plan
      /\ inst[k].name = Current /\ inst[k].path = Current
  BY <1>1, WaitedFor DEF Expected
<1>3. \/ inst[k].status = "error"
      \/ k \in moved /\ AvailableHash(Current) # NoHash /\ inst[k].hash # AvailableHash(Current)
  BY <1>2 DEF WaitFails
<1>4. ASSUME Clean PROVE FALSE
  <2>1. inst[k].status # "error"
    BY <1>1, <1>2, <1>4 DEF IInv, ErrorInv, Reconciling
  <2>2. k \in moved => inst[k].hash = <<Current, "new">>
    BY <1>1, <1>2 DEF IInv, CopyInv, Reconciling
  <2>3. QED
    BY <1>2, <1>3, <2>1, <2>2, HashFacts
<1>5. QED
  BY <1>1, <1>4, RaiseKeeps DEF IInv, TypeOK, Clean

(* An instance is made under a key that was free.                          *)
LEMMA CreateInstanceKeeps == ASSUME IInv, CreateInstance PROVE IInv'
<1> DEFINE k == NextFree
           made == [name |-> Current, path |-> Current, enabled |-> TRUE,
                    status |-> "unknown", hash |-> NoHash]
<1>1. AtBlueprint /\ pc = "step" /\ InstanceFor(Current) = NoPk
  BY DEF CreateInstance, AtBlueprint, AtStep
<1>2. /\ Current \in Blueprint /\ Current \in Name /\ at \in 1..Len(Steps)
      /\ Current \in Expected /\ Current \in plan /\ Current # Nav
      /\ \A j \in PK : Exists(j) => inst[j].name # Current
  BY <1>1, Looked DEF AtBlueprint, AtStep
<1>3. k \in PK /\ ~Exists(k) /\ k # NoPk
  BY <1>2, FreeKey, KeysOK DEF IInv
<1>4. made \in Instance /\ made # NoInstance
  <2>1. made \in Instance
    BY <1>2, HashFacts DEF Instance, Status
  <2>2. QED
    BY <2>1, KeysOK
<1>5. /\ inst' = [inst EXCEPT ![k] = made]
      /\ UNCHANGED <<queue, objects, binding, hashed, listed>>
  BY DEF CreateInstance, CreateEffect, LoseAnswer
<1> HIDE DEF k, made
<1>6. /\ inst' \in [PK -> Instance \cup {NoInstance}] /\ inst'[k] = made
      /\ \A j \in PK \ {k} : inst'[j] = inst[j]
  BY <1>3, <1>4, <1>5 DEF IInv, TypeOK
<1>7. made.name = Current /\ made.path = Current /\ made.status = "unknown" /\ made.hash = NoHash
  BY DEF made
<1>8. OneInstancePerName'
  BY <1>2, <1>6, <1>7 DEF IInv, OneInstancePerName, Exists
<1>9. CASE LoseAnswer(CreateEffect(Current))
  <2>1. /\ pc' = "failed" /\ blame' = blame \cup {"fault"} /\ Fault
        /\ UNCHANGED <<plan, at, copy, moved, changed, settled, failing>>
    BY <1>9 DEF LoseAnswer, Raise
  <2>2. faults' \in 0..MaxFaults
    BY <2>1, FaultBounded DEF IInv
  <2>3. \A j \in PK : inst'[j] # NoInstance =>
           inst'[j].hash = NoHash \/ (inst[j] # NoInstance /\ inst'[j].hash = inst[j].hash)
    BY <1>6, <1>7
  <2>4. QED
    BY <1>5, <1>6, <1>8, <2>1, <2>2, <2>3, FailedKeeps DEF IInv, TypeOK
<1>10. CASE /\ CreateEffect(Current)
            /\ snap' = [snap EXCEPT ![k] = inst'[k]]
            /\ byName' = [byName EXCEPT ![Current] = k]
            /\ byPath' = [byPath EXCEPT ![Current] = k]
            /\ changed' = TRUE
            /\ pc' = "apply"
            /\ UNCHANGED <<plan, at, moved, history>>
  <2>1. /\ snap' \in [PK -> Instance \cup {NoInstance}] /\ snap'[k] = made
        /\ \A j \in PK \ {k} : snap'[j] = snap[j]
    BY <1>3, <1>4, <1>6, <1>10 DEF IInv, TypeOK
  <2>2. /\ byName' \in [Name -> PK \cup {NoPk}] /\ byName'[Current] = k
        /\ \A n \in Name \ {Current} : byName'[n] = byName[n]
    BY <1>2, <1>3, <1>10 DEF IInv, TypeOK
  <2>3. /\ byPath' \in [Name -> PK \cup {NoPk}] /\ byPath'[Current] = k
        /\ \A n \in Name \ {Current} : byPath'[n] = byPath[n]
    BY <1>2, <1>3, <1>10 DEF IInv, TypeOK
  <2>4. UNCHANGED <<plan, at, moved, settled, blame, failing, faults>> /\ pc' = "apply" /\ changed' = TRUE
    BY <1>10 DEF history
  <2>5. TypeOK'
    BY <1>5, <1>6, <2>1, <2>2, <2>3, <2>4 DEF IInv, TypeOK, Location
  <2>6. HashInv'
    BY <1>5, <1>6, <1>7, <2>1, HashFacts DEF IInv, HashInv, Applied
  <2>7. \A j \in PK : Exists(j)' <=> Exists(j) \/ j = k
    BY <1>3, <1>4, <1>6 DEF Exists
  <2>8. \A n \in Name : /\ byName[n] \in PK \cup {NoPk} /\ byPath[n] \in PK \cup {NoPk}
                        /\ byName[n] # NoPk => Exists(byName[n]) /\ inst[byName[n]].name = n
                        /\ byName[n] = NoPk => \A j \in PK : Exists(j) => inst[j].name # n
                        /\ byPath[n] # NoPk => Exists(byPath[n]) /\ inst[byPath[n]].path = n
    BY <1>1 DEF IInv, TypeOK, TableInv, Reconciling
  <2>9. TableInv'
    <3>1. ASSUME NEW n \in Name
          PROVE  /\ byName'[n] # NoPk => inst'[byName'[n]] # NoInstance /\ inst'[byName'[n]].name = n
                 /\ byName'[n] = NoPk => \A j \in PK : Exists(j)' => inst'[j].name # n
                 /\ byPath'[n] # NoPk => inst'[byPath'[n]] # NoInstance /\ inst'[byPath'[n]].path = n
      <4>1. CASE n = Current
        BY <1>3, <1>4, <1>6, <1>7, <2>2, <2>3, <2>7, <4>1
      <4>2. CASE n # Current
        BY <1>3, <1>6, <1>7, <2>2, <2>3, <2>7, <2>8, <4>2 DEF Exists
      <4>3. QED
        BY <4>1, <4>2
    <3>2. QED
      BY <3>1 DEF TableInv, Exists
  <2>10. CopyInv'
    <3>1. ASSUME NEW j \in PK, j # k PROVE j \in moved => Exists(j) /\ inst[j].hash = <<inst[j].path, "new">>
      BY <1>1 DEF IInv, CopyInv, Reconciling
    <3>2. k \notin moved
      BY <1>1, <1>3 DEF IInv, CopyInv, Reconciling
    <3>3. CopyInv /\ Reconciling
      BY <1>1 DEF IInv, Reconciling
    <3>4. ASSUME NEW j \in PK, j # k, Exists(j)
          PROVE  /\ snap[j] # NoInstance
                 /\ snap[j].name = inst[j].name /\ snap[j].path = inst[j].path
                 /\ snap[j].enabled = inst[j].enabled
                 /\ snap[j].hash = <<inst[j].path, "new">> => inst[j].hash = <<inst[j].path, "new">>
                 /\ blame = {} /\ snap[j].status = "successful" => inst[j].status = "successful"
      BY <3>3, <3>4 DEF CopyInv
    <3>5. QED
      BY <1>4, <1>6, <2>1, <2>4, <2>7, <3>1, <3>2, <3>4 DEF CopyInv
  <2>11. ErrorInv'
    BY <1>1, <1>6, <1>7, <2>4, <2>7 DEF IInv, ErrorInv, Clean, Reconciling
  <2>12. StepInv'
    BY <1>1, <1>2, <1>3, <1>6, <1>7, <2>2, <2>4 DEF IInv, StepInv, Running, Location, Current
  <2>13. ASSUME NEW j \in 1..(at - 1), Steps[j] \in Expected PROVE Settled(Steps[j])'
    <3>1. Settled(Steps[j]) /\ Steps[j] # Current /\ Steps[j] \in Name
      BY <1>1, <1>2, <2>13, PlanFacts DEF IInv, DoneInv, Reconciling, Current, TypeOK, Expected
    <3>2. byName'[Steps[j]] = byName[Steps[j]] /\ byName[Steps[j]] \in PK \ {k}
      BY <1>3, <2>2, <2>8, <3>1 DEF Settled
    <3>3. inst'[byName[Steps[j]]] = inst[byName[Steps[j]]]
      BY <1>6, <3>2
    <3>4. QED
      BY <1>5, <2>4, <3>1, <3>2, <3>3 DEF Settled, Applied, Clean
  <2>14. DoneInv'
    BY <1>1, <2>4, <2>13 DEF IInv, DoneInv, Expected, SuccessIsTrue, Reconciling
  <2>15. CleanRunSucceeds'
    BY <2>4 DEF CleanRunSucceeds
  <2>16. QED
    BY <1>8, <2>5, <2>6, <2>9, <2>10, <2>11, <2>12, <2>14, <2>15 DEF IInv
<1>11. QED
  BY <1>9, <1>10 DEF CreateInstance, k

(* An instance that was found is given the blueprint's name and path.      *)
LEMMA UpdateInstanceKeeps == ASSUME IInv, UpdateInstance PROVE IInv'
<1> DEFINE k == InstanceFor(Current)
           made == [inst[k] EXCEPT !.name = Current, !.path = Current, !.enabled = TRUE]
<1>1. AtBlueprint /\ pc = "step" /\ k # NoPk
  BY DEF UpdateInstance, AtBlueprint, AtStep
<1>2. /\ Current \in Blueprint /\ Current \in Name /\ at \in 1..Len(Steps)
      /\ Current \in Expected /\ Current \in plan /\ Current # Nav
      /\ k \in PK /\ Exists(k)
      /\ inst[k].name = Current \/ inst[k].path = Current
      /\ \A j \in PK \ {k} : Exists(j) => inst[j].name # Current
  BY <1>1, Looked DEF AtBlueprint, AtStep
<1>3. /\ inst' = [inst EXCEPT ![k] = made]
      /\ UNCHANGED <<queue, objects, binding, hashed, listed>>
  BY DEF UpdateInstance, UpdateEffect, LoseAnswer
<1>4. inst[k] \in Instance
  BY <1>2 DEF IInv, TypeOK, Exists
<1>5. /\ made \in Instance /\ made # NoInstance
      /\ made.name = Current /\ made.path = Current
      /\ made.status = inst[k].status /\ made.hash = inst[k].hash
  <2>1. made \in Instance
    BY <1>2, <1>4 DEF Instance
  <2>2. QED
    BY <1>4, <2>1, KeysOK DEF Instance
<1>6. \/ /\ snap' = [snap EXCEPT ![k] = inst'[k]]
         /\ moved' = moved \ {k}
         /\ byName' = Relabel(byName, snap[k].name, Current, k)
         /\ byPath' = Relabel(byPath, snap[k].path, Current, k)
         /\ changed' = TRUE
         /\ pc' = "apply"
         /\ UNCHANGED <<plan, at, history>>
      \/ LoseAnswer(UpdateEffect(k, Current))
  BY DEF UpdateInstance
<1> HIDE DEF k, made
<1>7. /\ inst' \in [PK -> Instance \cup {NoInstance}] /\ inst'[k] = made
      /\ \A j \in PK \ {k} : inst'[j] = inst[j]
  BY <1>2, <1>3, <1>5 DEF IInv, TypeOK
<1>8. \A j \in PK : Exists(j)' <=> Exists(j)
  BY <1>2, <1>5, <1>7 DEF Exists
<1>9. OneInstancePerName'
  BY <1>2, <1>5, <1>7, <1>8 DEF IInv, OneInstancePerName
<1>10. CASE LoseAnswer(UpdateEffect(k, Current))
  <2>1. /\ pc' = "failed" /\ blame' = blame \cup {"fault"} /\ Fault
        /\ UNCHANGED <<plan, at, copy, moved, changed, settled, failing>>
    BY <1>10 DEF LoseAnswer, Raise
  <2>2. faults' \in 0..MaxFaults
    BY <2>1, FaultBounded DEF IInv
  <2>3. \A j \in PK : inst'[j] # NoInstance =>
           inst'[j].hash = NoHash \/ (inst[j] # NoInstance /\ inst'[j].hash = inst[j].hash)
    BY <1>2, <1>5, <1>7 DEF Exists
  <2>4. QED
    BY <1>3, <1>7, <1>9, <2>1, <2>2, <2>3, FailedKeeps DEF IInv, TypeOK
<1>11. CASE /\ snap' = [snap EXCEPT ![k] = inst'[k]]
            /\ moved' = moved \ {k}
            /\ byName' = Relabel(byName, snap[k].name, Current, k)
            /\ byPath' = Relabel(byPath, snap[k].path, Current, k)
            /\ changed' = TRUE
            /\ pc' = "apply"
            /\ UNCHANGED <<plan, at, history>>
  <2>1. /\ snap' \in [PK -> Instance \cup {NoInstance}] /\ snap'[k] = made
        /\ \A j \in PK \ {k} : snap'[j] = snap[j]
    BY <1>2, <1>5, <1>7, <1>11 DEF IInv, TypeOK
  <2>2. snap[k].name = inst[k].name /\ snap[k].path = inst[k].path
    BY <1>1, <1>2 DEF IInv, CopyInv, Reconciling
  <2>3. \A n \in Name : /\ byName[n] \in PK \cup {NoPk} /\ byPath[n] \in PK \cup {NoPk}
                        /\ byName[n] # NoPk => Exists(byName[n]) /\ inst[byName[n]].name = n
                        /\ byName[n] = NoPk => \A j \in PK : Exists(j) => inst[j].name # n
                        /\ byPath[n] # NoPk => Exists(byPath[n]) /\ inst[byPath[n]].path = n
    BY <1>1 DEF IInv, TypeOK, TableInv, Reconciling
  <2>4. ASSUME NEW n \in Name
        PROVE  /\ byName'[n] = IF n = Current THEN k ELSE IF n = inst[k].name THEN NoPk ELSE byName[n]
               /\ byPath'[n] = IF n = Current THEN k ELSE IF n = inst[k].path THEN NoPk ELSE byPath[n]
    BY <1>11, <2>2 DEF Relabel
  <2>5. byName' \in [Name -> PK \cup {NoPk}] /\ byPath' \in [Name -> PK \cup {NoPk}]
    BY <1>2, <1>11, <2>3 DEF Relabel
  <2>6. UNCHANGED <<plan, at, settled, blame, failing, faults>> /\ pc' = "apply" /\ changed' = TRUE
    BY <1>11 DEF history
  <2>7. TypeOK'
    BY <1>3, <1>7, <1>11, <2>1, <2>5, <2>6 DEF IInv, TypeOK, Location
  <2>8. HashInv'
    <3>1. ASSUME NEW b \in Blueprint, made.hash = <<b, "new">> PROVE Applied(b)
      BY <1>2, <1>5, <3>1 DEF IInv, HashInv, Exists
    <3>2. QED
      BY <1>3, <1>7, <2>1, <3>1 DEF IInv, HashInv, Applied
  <2>9. TableInv'
    <3>1. ASSUME NEW n \in Name
          PROVE  /\ byName'[n] # NoPk => inst'[byName'[n]] # NoInstance /\ inst'[byName'[n]].name = n
                 /\ byName'[n] = NoPk => \A j \in PK : Exists(j)' => inst'[j].name # n
                 /\ byPath'[n] # NoPk => inst'[byPath'[n]] # NoInstance /\ inst'[byPath'[n]].path = n
      <4>1. CASE n = Current
        BY <1>1, <1>2, <1>5, <1>7, <1>8, <2>4, <4>1
      <4>2. CASE n # Current /\ n = inst[k].name
        <5>1. byName'[n] = NoPk
          BY <2>4, <4>2
        <5>2. \A j \in PK : Exists(j) => inst'[j].name # n
          BY <1>2, <1>5, <1>7, <4>2 DEF IInv, OneInstancePerName
        <5>3. byPath'[n] # NoPk => byPath'[n] \in PK \ {k} /\ Exists(byPath'[n]) /\ inst[byPath'[n]].path = n
          BY <2>3, <2>4, <4>2
        <5>4. QED
          BY <1>7, <1>8, <5>1, <5>2, <5>3 DEF Exists
      <4>3. CASE n # Current /\ n # inst[k].name
        <5>1. byName'[n] = byName[n]
          BY <2>4, <4>3
        <5>2. byName[n] # NoPk => byName[n] \in PK \ {k} /\ Exists(byName[n]) /\ inst[byName[n]].name = n
          BY <2>3, <4>3
        <5>3. byName[n] = NoPk => \A j \in PK : Exists(j) => inst'[j].name # n
          BY <1>5, <1>7, <2>3, <4>3
        <5>4. byPath'[n] # NoPk => byPath'[n] \in PK \ {k} /\ Exists(byPath'[n]) /\ inst[byPath'[n]].path = n
          BY <2>3, <2>4, <4>3
        <5>5. QED
          BY <1>7, <1>8, <5>1, <5>2, <5>3, <5>4 DEF Exists
      <4>4. QED
        BY <4>1, <4>2, <4>3
    <3>2. QED
      BY <3>1 DEF TableInv, Exists
  <2>10. CopyInv'
    <3>1. CopyInv /\ Reconciling
      BY <1>1 DEF IInv, Reconciling
    <3>2. ASSUME NEW j \in PK, j # k
          PROVE  /\ j \in moved => Exists(j) /\ inst[j].hash = <<inst[j].path, "new">>
                 /\ Exists(j) =>
                      /\ snap[j] # NoInstance
                      /\ snap[j].name = inst[j].name /\ snap[j].path = inst[j].path
                      /\ snap[j].enabled = inst[j].enabled
                      /\ snap[j].hash = <<inst[j].path, "new">> => inst[j].hash = <<inst[j].path, "new">>
                      /\ blame = {} /\ snap[j].status = "successful" => inst[j].status = "successful"
      BY <3>1, <3>2 DEF CopyInv
    <3>3. QED
      BY <1>5, <1>7, <1>8, <1>11, <2>1, <2>6, <3>2 DEF CopyInv
  <2>11. ErrorInv'
    <3>1. Clean => inst[k].status # "error"
      BY <1>1, <1>2 DEF IInv, ErrorInv, Reconciling
    <3>2. QED
      BY <1>1, <1>5, <1>7, <1>8, <2>6, <3>1 DEF IInv, ErrorInv, Clean, Reconciling
  <2>12. StepInv'
    BY <1>1, <1>2, <1>5, <1>7, <2>4, <2>6 DEF IInv, StepInv, Running, Location, Current
  <2>13. ASSUME NEW j \in 1..(at - 1), Steps[j] \in Expected PROVE Settled(Steps[j])'
    <3>1. Settled(Steps[j]) /\ Steps[j] # Current /\ Steps[j] \in Name
      BY <1>1, <1>2, <2>13, PlanFacts DEF IInv, DoneInv, Reconciling, Current, TypeOK, Expected
    <3>2. /\ byName[Steps[j]] \in PK /\ inst[byName[Steps[j]]].name = Steps[j]
          /\ inst[byName[Steps[j]]].path = Steps[j] /\ Exists(byName[Steps[j]])
      BY <2>3, <3>1 DEF Settled
    <3>3. byName[Steps[j]] # k
      BY <1>2, <3>1, <3>2
    <3>4. Steps[j] # inst[k].name
      BY <1>2, <3>2, <3>3 DEF IInv, OneInstancePerName
    <3>5. byName'[Steps[j]] = byName[Steps[j]] /\ inst'[byName[Steps[j]]] = inst[byName[Steps[j]]]
      BY <1>7, <2>4, <3>1, <3>2, <3>3, <3>4
    <3>6. QED
      BY <1>3, <2>6, <3>1, <3>5 DEF Settled, Applied, Clean
  <2>14. DoneInv'
    BY <1>1, <2>6, <2>13 DEF IInv, DoneInv, Expected, SuccessIsTrue, Reconciling
  <2>15. CleanRunSucceeds'
    BY <2>6 DEF CleanRunSucceeds
  <2>16. QED
    BY <1>9, <2>7, <2>8, <2>9, <2>10, <2>11, <2>12, <2>14, <2>15 DEF IInv
<1>12. QED
  BY <1>6, <1>10, <1>11

(* The worker has applied the instance after the run read it.              *)
LEMMA WaitSucceedsKeeps == ASSUME IInv, WaitSucceeds PROVE IInv'
<1> DEFINE k == byName[Current]
<1>1. /\ InstanceFor(Current) = k /\ k \in PK /\ Exists(k) /\ at \in 1..Len(Steps)
      /\ Current \in Name /\ Current \in Blueprint /\ Current \in Expected
      /\ inst[k].name = Current /\ inst[k].path = Current
  BY WaitedFor DEF WaitSucceeds
<1>2. /\ pc = "wait" /\ pc' = "step" /\ at' = at + 1 /\ changed' = TRUE
      /\ inst[k].status = "successful" /\ k \in moved
      /\ snap' = [snap EXCEPT ![k] = inst[k]] /\ moved' = moved \ {k}
      /\ UNCHANGED <<inst, queue, objects, binding, hashed, listed, byName, byPath>>
      /\ UNCHANGED <<plan, settled, blame, failing, faults>>
  BY <1>1 DEF WaitSucceeds, authentik, history
<1>3. inst[k].hash = <<Current, "new">>
  BY <1>1, <1>2 DEF IInv, CopyInv, Reconciling
<1>4. Settled(Current)
  BY <1>1, <1>2, <1>3, KeysOK DEF IInv, HashInv, Settled, Exists
<1>5. /\ snap' \in [PK -> Instance \cup {NoInstance}] /\ snap'[k] = inst[k]
      /\ \A j \in PK \ {k} : snap'[j] = snap[j]
  BY <1>1, <1>2 DEF IInv, TypeOK
<1>6. TypeOK'
  <2>1. at' \in 1..(Len(Steps) + 1)
    BY <1>1, <1>2, PlanFacts
  <2>2. QED
    BY <1>2, <1>5, <2>1 DEF IInv, TypeOK, Location
<1>7. OneInstancePerName' /\ TableInv' /\ ErrorInv'
  BY <1>2 DEF IInv, OneInstancePerName, Exists, TableInv, ErrorInv, Clean, Reconciling
<1>8. HashInv'
  BY <1>1, <1>2, <1>5 DEF IInv, HashInv, Applied, Exists
<1>9. CopyInv'
  <2>1. ASSUME NEW j \in PK
        PROVE  /\ j \in moved => Exists(j) /\ inst[j].hash = <<inst[j].path, "new">>
               /\ Exists(j) =>
                    /\ snap'[j] # NoInstance
                    /\ snap'[j].name = inst[j].name /\ snap'[j].path = inst[j].path
                    /\ snap'[j].enabled = inst[j].enabled
                    /\ snap'[j].hash = <<inst[j].path, "new">> => inst[j].hash = <<inst[j].path, "new">>
                    /\ blame = {} /\ snap'[j].status = "successful" => inst[j].status = "successful"
    <3>1. CASE j = k
      BY <1>1, <1>2, <1>3, <1>5, <3>1 DEF Exists
    <3>2. CASE j # k
      BY <1>2, <1>5, <3>2 DEF IInv, CopyInv, Reconciling
    <3>3. QED
      BY <3>1, <3>2
  <2>2. QED
    BY <1>2, <2>1 DEF CopyInv, Exists
<1>10. StepInv' /\ CleanRunSucceeds'
  BY <1>2 DEF IInv, StepInv, Running, Location, CleanRunSucceeds
<1>11. ASSUME NEW j \in 1..(at' - 1), Steps[j] \in Expected PROVE Settled(Steps[j])
  <2>1. j \in 1..(at - 1) \/ j = at
    BY <1>1, <1>2, <1>11, PlanFacts
  <2>2. QED
    BY <1>2, <1>4, <1>11, <2>1 DEF IInv, DoneInv, Reconciling, Current
<1>12. \A b : Settled(b)' <=> Settled(b)
  BY <1>2 DEF Settled, Applied, Clean
<1>13. DoneInv'
  BY <1>2, <1>11, <1>12 DEF DoneInv, Expected, SuccessIsTrue
<1>14. QED
  BY <1>6, <1>7, <1>8, <1>9, <1>10, <1>13 DEF IInv

(* The instance with Navidrome's name is nobody else's.                    *)
LEMMA DeleteStaleInstanceKeeps == ASSUME IInv, DeleteStaleInstance PROVE IInv'
<1> DEFINE k == byName[Nav]
<1>1. /\ pc = "nav" /\ k # NoPk
      /\ inst' = [inst EXCEPT ![k] = NoInstance] /\ queue' = queue \ {k}
      /\ UNCHANGED <<objects, binding, hashed, listed>>
  BY DEF DeleteStaleInstance, DeleteEffect, LoseAnswer
<1>2. /\ \/ /\ byName' = [byName EXCEPT ![Nav] = NoPk]
            /\ byPath' = [byPath EXCEPT ![snap[k].path] = NoPk]
            /\ changed' = TRUE
            /\ pc' = "step" /\ at' = at + 1
            /\ moved' = moved \ {k}
            /\ UNCHANGED <<plan, snap, settled, blame, failing, faults>>
         \/ LoseAnswer(DeleteEffect(k))
  BY DEF DeleteStaleInstance, history
<1>3. /\ k \in PK /\ Exists(k) /\ inst[k].name = Nav /\ Nav \in Name
      /\ at \in 1..Len(Steps) /\ Steps[at] = Nav
  BY <1>1, PlanFacts DEF IInv, TypeOK, TableInv, StepInv, Reconciling, Current
<1>4. /\ inst' \in [PK -> Instance \cup {NoInstance}] /\ inst'[k] = NoInstance
      /\ \A j \in PK \ {k} : inst'[j] = inst[j]
  BY <1>1, <1>3 DEF IInv, TypeOK
<1>5. OneInstancePerName'
  BY <1>4 DEF IInv, OneInstancePerName, Exists
<1>6. CASE LoseAnswer(DeleteEffect(k))
  <2>1. /\ pc' = "failed" /\ blame' = blame \cup {"fault"} /\ Fault
        /\ UNCHANGED <<plan, at, copy, moved, changed, settled, failing>>
    BY <1>6 DEF LoseAnswer, Raise
  <2>2. faults' \in 0..MaxFaults
    BY <2>1, FaultBounded DEF IInv
  <2>3. \A j \in PK : inst'[j] # NoInstance =>
           inst'[j].hash = NoHash \/ (inst[j] # NoInstance /\ inst'[j].hash = inst[j].hash)
    BY <1>4
  <2>4. QED
    BY <1>1, <1>4, <1>5, <2>1, <2>2, <2>3, FailedKeeps DEF IInv, TypeOK
<1>7. CASE /\ byName' = [byName EXCEPT ![Nav] = NoPk]
           /\ byPath' = [byPath EXCEPT ![snap[k].path] = NoPk]
           /\ changed' = TRUE
           /\ pc' = "step" /\ at' = at + 1
           /\ moved' = moved \ {k}
           /\ UNCHANGED <<plan, snap, settled, blame, failing, faults>>
  <2>1. snap[k].path = inst[k].path /\ inst[k].path \in Name
    BY <1>1, <1>3 DEF IInv, CopyInv, Reconciling, TypeOK, Instance, Exists
  <2>2. /\ byName' \in [Name -> PK \cup {NoPk}] /\ byName'[Nav] = NoPk
        /\ \A n \in Name \ {Nav} : byName'[n] = byName[n]
        /\ byPath' \in [Name -> PK \cup {NoPk}] /\ byPath'[inst[k].path] = NoPk
        /\ \A n \in Name \ {inst[k].path} : byPath'[n] = byPath[n]
    BY <1>3, <1>7, <2>1 DEF IInv, TypeOK
  <2>3. TypeOK'
    <3>1. at' \in 1..(Len(Steps) + 1) /\ queue' \subseteq PK /\ moved' \subseteq PK
      BY <1>1, <1>3, <1>7, PlanFacts DEF IInv, TypeOK
    <3>2. QED
      BY <1>1, <1>4, <1>7, <2>2, <3>1 DEF IInv, TypeOK, Location
  <2>4. HashInv'
    BY <1>1, <1>4, <1>7 DEF IInv, HashInv, Applied
  <2>5. \A j \in PK : Exists(j)' <=> Exists(j) /\ j # k
    BY <1>4 DEF Exists
  <2>6. \A n \in Name : /\ byName[n] \in PK \cup {NoPk} /\ byPath[n] \in PK \cup {NoPk}
                        /\ byName[n] # NoPk => Exists(byName[n]) /\ inst[byName[n]].name = n
                        /\ byName[n] = NoPk => \A j \in PK : Exists(j) => inst[j].name # n
                        /\ byPath[n] # NoPk => Exists(byPath[n]) /\ inst[byPath[n]].path = n
    BY <1>1 DEF IInv, TypeOK, TableInv, Reconciling
  <2>7. TableInv'
    <3>1. ASSUME NEW n \in Name
          PROVE  /\ byName'[n] # NoPk => inst'[byName'[n]] # NoInstance /\ inst'[byName'[n]].name = n
                 /\ byName'[n] = NoPk => \A j \in PK : Exists(j)' => inst'[j].name # n
                 /\ byPath'[n] # NoPk => inst'[byPath'[n]] # NoInstance /\ inst'[byPath'[n]].path = n
      <4>1. byPath'[n] # NoPk => byPath'[n] \in PK \ {k} /\ Exists(byPath'[n]) /\ inst[byPath'[n]].path = n
        BY <2>2, <2>6
      <4>2. CASE n = Nav
        <5>1. \A j \in PK \ {k} : Exists(j) => inst[j].name # Nav
          BY <1>3 DEF IInv, OneInstancePerName
        <5>2. QED
          BY <1>4, <2>2, <2>5, <4>1, <4>2, <5>1 DEF Exists
      <4>3. CASE n # Nav
        <5>1. byName'[n] = byName[n]
          BY <2>2, <4>3
        <5>2. byName[n] # NoPk => byName[n] \in PK \ {k} /\ Exists(byName[n]) /\ inst[byName[n]].name = n
          BY <1>3, <2>6, <4>3
        <5>3. byName[n] = NoPk => \A j \in PK : Exists(j) => inst[j].name # n
          BY <2>6
        <5>4. QED
          BY <1>4, <2>5, <4>1, <5>1, <5>2, <5>3 DEF Exists
      <4>4. QED
        BY <4>2, <4>3
    <3>2. QED
      BY <3>1 DEF TableInv, Exists
  <2>8. CopyInv'
    <3>1. CopyInv /\ Reconciling
      BY <1>1 DEF IInv, Reconciling
    <3>2. QED
      BY <1>4, <1>7, <2>5, <3>1 DEF CopyInv
  <2>9. ErrorInv'
    BY <1>1, <1>4, <1>7, <2>5 DEF IInv, ErrorInv, Clean, Reconciling
  <2>10. StepInv' /\ CleanRunSucceeds'
    BY <1>1, <1>7 DEF IInv, StepInv, Running, Location, CleanRunSucceeds
  <2>11. ASSUME NEW j \in 1..(at' - 1), Steps[j] \in Expected PROVE Settled(Steps[j])'
    <3>1. at' - 1 = at /\ at \in Nat
      BY <1>3, <1>7, PlanFacts
    <3>2. j \in 1..at /\ j # at
      BY <1>3, <2>11, <3>1 DEF Expected
    <3>3. j \in 1..(at - 1)
      BY <3>1, <3>2
    <3>4. Settled(Steps[j]) /\ Steps[j] # Nav /\ Steps[j] \in Name
      BY <1>1, <2>11, <3>3, PlanFacts DEF IInv, DoneInv, Reconciling, TypeOK, Expected
    <3>5. /\ byName[Steps[j]] \in PK \ {k} /\ byName'[Steps[j]] = byName[Steps[j]]
      BY <1>3, <2>2, <2>6, <3>4 DEF Settled
    <3>6. inst'[byName[Steps[j]]] = inst[byName[Steps[j]]]
      BY <1>4, <3>5
    <3>7. QED
      BY <1>1, <1>7, <3>4, <3>5, <3>6 DEF Settled, Applied, Clean
  <2>12. DoneInv'
    BY <1>7, <2>11 DEF DoneInv, Expected, SuccessIsTrue
  <2>13. QED
    BY <1>5, <2>3, <2>4, <2>7, <2>8, <2>9, <2>10, <2>12 DEF IInv
<1>8. QED
  BY <1>2, <1>6, <1>7

-----------------------------------------------------------------------------
(* The worker. *)

(* An apply brings about what hashes and statuses say.                     *)
LEMMA WorkerAppliesKeeps == ASSUME IInv, NEW k \in PK, WorkerApplies(k) PROVE IInv'
<1> DEFINE p == inst[k].path
           made == [inst[k] EXCEPT !.status = "successful", !.hash = <<p, "new">>]
<1>1. /\ Exists(k) /\ p \in Blueprint
      /\ inst' = [inst EXCEPT ![k] = made]
      /\ objects' = [objects EXCEPT ![p] =
                       IF \A n \in Wants[p] : objects[n] # "none" THEN "new" ELSE "blank"]
      /\ queue' = queue \ {k} /\ moved' = moved \cup {k} /\ settled' = {}
      /\ UNCHANGED <<binding, hashed, listed, pc, plan, at, snap, byName, byPath>>
      /\ UNCHANGED <<changed, blame, failing, faults>>
  BY DEF WorkerApplies, Due, Applicable, copy
<1>2. inst[k] \in Instance
  BY <1>1 DEF IInv, TypeOK, Exists
<1>3. /\ made \in Instance /\ made # NoInstance /\ made.name = inst[k].name /\ made.path = p
      /\ made.enabled = inst[k].enabled /\ made.status = "successful" /\ made.hash = <<p, "new">>
  <2>1. <<p, "new">> \in Hash /\ "successful" \in Status
    BY <1>2, HashFacts DEF Instance, Status
  <2>2. made \in Instance
    <3> DEFINE h == <<p, "new">>
    <3>1. h \in Hash
      BY <2>1
    <3> HIDE DEF h
    <3>2. [inst[k] EXCEPT !.status = "successful", !.hash = h] \in Instance
      BY <1>2, <2>1, <3>1 DEF Instance
    <3>3. QED
      BY <3>2 DEF h
  <2>3. QED
    BY <1>2, <2>2, KeysOK DEF Instance
<1> HIDE DEF made
<1>4. /\ inst' \in [PK -> Instance \cup {NoInstance}] /\ inst'[k] = made
      /\ \A j \in PK \ {k} : inst'[j] = inst[j]
  BY <1>1, <1>3 DEF IInv, TypeOK
<1>5. \A j \in PK : Exists(j)' <=> Exists(j)
  BY <1>1, <1>3, <1>4 DEF Exists
<1>6. /\ objects' \in [Blueprint -> {"none", "old", "blank", "new"}]
      /\ objects'[p] \in {"blank", "new"} /\ \A b \in Blueprint : Applied(b) => Applied(b)'
  <2>1. /\ \A b \in Blueprint \ {p} : objects'[b] = objects[b]
        /\ objects'[p] \in {"blank", "new"}
    BY <1>1 DEF IInv, TypeOK
  <2>2. \A b \in Blueprint : Applied(b) => Applied(b)'
    BY <2>1 DEF Applied
  <2>3. objects' \in [Blueprint -> {"none", "old", "blank", "new"}]
    BY <1>1 DEF IInv, TypeOK
  <2>4. QED
    BY <2>1, <2>2, <2>3
<1>7. TypeOK'
  BY <1>1, <1>4, <1>6 DEF IInv, TypeOK
<1>8. OneInstancePerName'
  BY <1>3, <1>4, <1>5 DEF IInv, OneInstancePerName
<1>9. HashInv'
  <2>1. \A b \in Blueprint : made.hash = <<b, "new">> => b = p
    BY <1>3
  <2>2. ASSUME NEW j \in PK, NEW b \in Blueprint
        PROVE  /\ inst'[j] # NoInstance /\ inst'[j].hash = <<b, "new">> => Applied(b)'
               /\ snap[j] # NoInstance /\ snap[j].hash = <<b, "new">> => Applied(b)'
    <3>1. inst[j] # NoInstance /\ inst[j].hash = <<b, "new">> => Applied(b)
      BY DEF IInv, HashInv
    <3>2. snap[j] # NoInstance /\ snap[j].hash = <<b, "new">> => Applied(b)
      BY DEF IInv, HashInv
    <3>3. b = p => Applied(b)'
      BY <1>6 DEF Applied
    <3>4. QED
      BY <1>4, <1>6, <2>1, <3>1, <3>2, <3>3
  <2>3. QED
    BY <1>1, <2>2 DEF HashInv
<1>10. TableInv'
  <2>1. \A n \in Name : byName[n] \in PK \cup {NoPk} /\ byPath[n] \in PK \cup {NoPk}
    BY DEF IInv, TypeOK
  <2>2. \A j \in PK : inst'[j].name = inst[j].name /\ inst'[j].path = inst[j].path
    BY <1>3, <1>4
  <2>3. \A j \in PK : inst'[j] # NoInstance <=> Exists(j)
    BY <1>5 DEF Exists
  <2>4. QED
    BY <1>1, <2>1, <2>2, <2>3 DEF IInv, TableInv, Reconciling, Exists
<1>11. CopyInv'
  <2>1. SUFFICES ASSUME Reconciling PROVE CopyInv'
    BY <1>1 DEF CopyInv, Reconciling
  <2>2. CopyInv
    BY DEF IInv
  <2>3. QED
    BY <1>1, <1>3, <1>4, <1>5, <2>1, <2>2 DEF CopyInv
<1>12. ErrorInv'
  <2>1. \A j \in PK : inst'[j].name = inst[j].name /\ inst'[j].path = inst[j].path
    BY <1>3, <1>4
  <2>2. \A j \in PK : inst'[j].status = "successful" \/ inst'[j].status = inst[j].status
    BY <1>3, <1>4
  <2>3. QED
    BY <1>1, <1>5, <2>1, <2>2 DEF IInv, ErrorInv, Clean, Reconciling
<1>13. StepInv'
  <2>1. pc \in {"apply", "wait"} => byName[Current] \in PK /\ inst'[byName[Current]].path = inst[byName[Current]].path
    BY <1>3, <1>4, WaitedFor
  <2>2. Current' = Current
    BY <1>1 DEF Current
  <2>3. QED
    BY <1>1, <2>1, <2>2 DEF IInv, StepInv, Running
<1>14. ASSUME NEW b \in Expected, Settled(b) PROVE Settled(b)'
  <2>1. b \in Blueprint /\ b \in Name /\ byName[b] \in PK
    BY <1>14, PlanFacts DEF Settled, IInv, TypeOK, Expected, Blueprint
  <2>2. CASE byName[b] = k
    BY <1>1, <1>3, <1>4, <1>6, <1>14, <2>1, <2>2 DEF Settled
  <2>3. CASE byName[b] # k
    BY <1>1, <1>4, <1>6, <1>14, <2>1, <2>3 DEF Settled, Clean
  <2>4. QED
    BY <2>2, <2>3
<1>15. DoneInv'
  <2>1. SuccessIsTrue'
    BY <1>1, <1>6 DEF IInv, TypeOK, DoneInv, SuccessIsTrue, Expected, Applied, Blueprint
  <2>2. QED
    BY <1>1, <1>14, <2>1 DEF IInv, DoneInv, Expected, Reconciling
<1>16. CleanRunSucceeds'
  BY <1>1 DEF IInv, CleanRunSucceeds
<1>17. QED
  BY <1>7, <1>8, <1>9, <1>10, <1>11, <1>12, <1>13, <1>15, <1>16 DEF IInv

(* An apply that fails is to blame for what follows.                       *)
LEMMA WorkerErrsKeeps == ASSUME IInv, NEW k \in PK, WorkerErrs(k) PROVE IInv'
<1> DEFINE made == [inst[k] EXCEPT !.status = "error"]
<1>1. /\ Exists(k)
      /\ inst' = [inst EXCEPT ![k] = made]
      /\ queue' = queue \ {k} /\ settled' = {}
      /\ blame' = blame \cup {"lookup"} \/ blame' = blame \cup {"fault"}
      /\ UNCHANGED <<objects, binding, hashed, listed, pc, plan, at, snap, byName, byPath>>
      /\ UNCHANGED <<moved, changed, failing>>
  BY DEF WorkerErrs, Due, copy
<1>2. inst[k] \in Instance
  BY <1>1 DEF IInv, TypeOK, Exists
<1>3. /\ made \in Instance /\ made # NoInstance /\ made.name = inst[k].name
      /\ made.path = inst[k].path /\ made.enabled = inst[k].enabled /\ made.hash = inst[k].hash
  <2>1. made \in Instance
    BY <1>2 DEF Instance, Status
  <2>2. QED
    BY <1>2, <2>1, KeysOK DEF Instance
<1> HIDE DEF made
<1>4. /\ inst' \in [PK -> Instance \cup {NoInstance}] /\ inst'[k] = made
      /\ \A j \in PK \ {k} : inst'[j] = inst[j]
  BY <1>1, <1>3 DEF IInv, TypeOK
<1>5. \A j \in PK : /\ inst'[j] # NoInstance <=> Exists(j)
                    /\ inst'[j].name = inst[j].name /\ inst'[j].path = inst[j].path
                    /\ inst'[j].enabled = inst[j].enabled /\ inst'[j].hash = inst[j].hash
  BY <1>1, <1>3, <1>4 DEF Exists
<1>6. blame' # {} /\ ~Clean'
  BY <1>1 DEF Clean
<1>7. faults' \in 0..MaxFaults
  BY FaultBounded DEF IInv, TypeOK, WorkerErrs
<1>8. TypeOK'
  BY <1>1, <1>4, <1>7 DEF IInv, TypeOK
<1>9. OneInstancePerName'
  BY <1>5 DEF IInv, OneInstancePerName, Exists
<1>10. HashInv'
  BY <1>1, <1>5 DEF IInv, HashInv, Applied, Exists
<1>11. TableInv'
  <2>1. \A n \in Name : byName[n] \in PK \cup {NoPk} /\ byPath[n] \in PK \cup {NoPk}
    BY DEF IInv, TypeOK
  <2>2. QED
    BY <1>1, <1>5, <2>1 DEF IInv, TableInv, Reconciling, Exists
<1>12. CopyInv'
  <2>1. SUFFICES ASSUME Reconciling PROVE CopyInv'
    BY <1>1 DEF CopyInv, Reconciling
  <2>2. CopyInv
    BY DEF IInv
  <2>3. QED
    BY <1>1, <1>5, <1>6, <2>1, <2>2 DEF CopyInv, Exists
<1>13. ErrorInv' /\ CleanRunSucceeds'
  BY <1>6 DEF ErrorInv, CleanRunSucceeds
<1>14. StepInv'
  <2>1. pc \in {"apply", "wait"} => inst'[byName[Current]].path = inst[byName[Current]].path
    BY <1>5, WaitedFor
  <2>2. Current' = Current
    BY <1>1 DEF Current
  <2>3. QED
    BY <1>1, <2>1, <2>2 DEF IInv, StepInv, Running
<1>15. ASSUME NEW b \in Expected, Settled(b) PROVE Settled(b)'
  <2>1. b \in Name /\ byName[b] \in PK
    BY <1>15, PlanFacts DEF Settled, IInv, TypeOK, Expected, Blueprint
  <2>2. QED
    BY <1>1, <1>5, <1>6, <1>15, <2>1 DEF Settled, Applied
<1>16. DoneInv'
  BY <1>1, <1>15 DEF IInv, DoneInv, Expected, Reconciling, SuccessIsTrue
<1>17. QED
  BY <1>8, <1>9, <1>10, <1>11, <1>12, <1>13, <1>14, <1>16 DEF IInv

-----------------------------------------------------------------------------
(* Every step keeps the invariant.                                         *)
LEMMA NextKeeps == ASSUME IInv, [Next]_vars PROVE IInv'
<1>1. CASE Next
  BY <1>1, CollectStateKeeps, GetInstancesKeeps, PassOverKeeps, NotAvailableKeeps,
     CreateInstanceKeeps, UpdateInstanceKeeps, KeepInstanceKeeps, ApplyInstanceKeeps,
     WaitFailsKeeps, WaitSucceedsKeeps, EnsureBindingKeeps, DeleteStaleInstanceKeeps,
     NoStaleInstanceKeeps, FinalObservationKeeps, FailRequestKeeps, TimeoutKeeps,
     WorkerAppliesKeeps, WorkerErrsKeeps DEF Next, Script, Worker
<1>2. CASE UNCHANGED vars
  <2>1. UNCHANGED <<inst, queue, objects, binding, hashed, listed, snap, byName, byPath>>
    BY <1>2 DEF vars, authentik, copy
  <2>2. UNCHANGED <<pc, plan, at, moved, changed, settled, blame, failing, faults>>
    BY <1>2 DEF vars, history
  <2>3. TypeOK' /\ OneInstancePerName' /\ HashInv'
    BY <2>1, <2>2 DEF IInv, TypeOK, OneInstancePerName, Exists, HashInv, Applied
  <2>4. TableInv' /\ CopyInv' /\ ErrorInv' /\ StepInv'
    BY <2>1, <2>2 DEF IInv, TableInv, CopyInv, ErrorInv, StepInv, Reconciling, Clean, Exists,
       Running, Current
  <2>5. DoneInv' /\ CleanRunSucceeds'
    BY <2>1, <2>2 DEF IInv, DoneInv, Settled, Applied, Clean, Reconciling, Expected,
       SuccessIsTrue, CleanRunSucceeds
  <2>6. QED
    BY <2>3, <2>4, <2>5 DEF IInv
<1>3. QED
  BY <1>1, <1>2

(* The inductive invariant: what a run knows of Authentik is what it has   *)
(* brought about, whatever the worker does meanwhile.                      *)
THEOREM InvHolds == Spec => []IInv
<1>1. Init => IInv
  BY InitInv
<1>2. IInv /\ [Next]_vars => IInv'
  BY NextKeeps
<1>3. QED
  BY <1>1, <1>2, PTL DEF Spec

(* Every variable keeps its type: the keys do not run out and the place in *)
(* the plan does not leave it.                                             *)
THEOREM TypeCorrect == Spec => []TypeOK
<1>1. IInv => TypeOK
  BY DEF IInv
<1>2. QED
  BY <1>1, InvHolds, PTL

(* No two instances ever have the name of one blueprint, whichever request *)
(* of whichever run is cut short.                                          *)
THEOREM NamesCorrect == Spec => []OneInstancePerName
<1>1. IInv => OneInstancePerName
  BY DEF IInv
<1>2. QED
  BY <1>1, InvHolds, PTL

(* A run that reports success has applied every planned blueprint's        *)
(* present file, also where Authentik lists no hash.                       *)
THEOREM SuccessCorrect == Spec => []SuccessIsTrue
<1>1. IInv => SuccessIsTrue
  BY DEF IInv, DoneInv
<1>2. QED
  BY <1>1, InvHolds, PTL

(* A run fails for a reason: a fault, a lookup that found nothing, a file  *)
(* that is not listed once, or an instance in error before.                *)
THEOREM CleanRunCorrect == Spec => []CleanRunSucceeds
<1>1. IInv => CleanRunSucceeds
  BY DEF IInv
<1>2. QED
  BY <1>1, InvHolds, PTL

(* Nothing is applied, nor Navidrome's policy bound, before what the plan  *)
(* creates for it exists.                                                  *)
THEOREM PrerequisitesCorrect == Spec => []PrerequisitesFirst
<1>1. ASSUME IInv, Reconciling, NEW n \in Expected, at \in 1..Len(Steps),
             n \in {Steps[j] : j \in 1..(at - 1)}
      PROVE  objects[n] # "none"
  BY <1>1 DEF IInv, DoneInv, Settled, Applied
<1>2. ASSUME IInv, pc \in {"apply", "wait"}, NEW n \in Needs[Current] \cap Expected
      PROVE  objects[n] # "none"
  <2>1. at \in 1..Len(Steps) /\ Current # Nav /\ Reconciling
    BY <1>2, WaitedFor DEF Reconciling, Expected
  <2>2. Needs[Current] \subseteq {Steps[j] : j \in 1..(at - 1)}
    BY <2>1, OrderOK DEF Current
  <2>3. QED
    BY <1>1, <1>2, <2>1, <2>2
<1>3. ASSUME IInv, AtStep, Current = Nav
      PROVE  objects[NavPolicy] # "none"
  <2>1. at \in 1..Len(Steps) /\ Reconciling
    BY <1>3, PlanFacts DEF AtStep, IInv, TypeOK, Reconciling
  <2>2. NavPolicy \in {Steps[j] : j \in 1..(at - 1)}
    BY <1>3, <2>1, OrderOK DEF Current
  <2>3. NavPolicy \in Expected
    BY <1>3, PlanFacts DEF IInv, StepInv, AtStep, Running, Location, Expected, Blueprint
  <2>4. QED
    BY <1>1, <1>3, <2>1, <2>2, <2>3
<1>4. IInv => PrerequisitesFirst
  BY <1>2, <1>3 DEF PrerequisitesFirst
<1>5. QED
  BY <1>4, InvHolds, PTL

-----------------------------------------------------------------------------
(* A run over what the last success left. *)

(* Everything that the plan says of b is there and proven.                 *)
Deployed(b) ==
  \E k \in PK :
    /\ Exists(k) /\ inst[k].name = b /\ inst[k].path = b /\ inst[k].enabled
    /\ inst[k].status = "successful"
    /\ b \in hashed => inst[k].hash = <<b, "new">>

NoNavInstance == \A k \in PK : Exists(k) => inst[k].name # Nav

(* The steps of this run leave their instance enabled, and Navidrome's     *)
(* step the binding right and no instance.                                 *)
EnabledInv ==
  /\ pc \in {"apply", "wait"} => inst[byName[Current]].enabled
  /\ Reconciling => \A j \in 1..(at - 1) : Steps[j] \in Expected => inst[byName[Steps[j]]].enabled
NavInv ==
  /\ pc = "nav" => binding = "right"
  /\ Reconciling => \A j \in 1..(at - 1) : Steps[j] = Nav => binding = "right" /\ NoNavInstance

(* What a success has left stays until the worker applies something.       *)
SettledInv ==
  settled # {} => /\ binding = "right" /\ NoNavInstance
                  /\ \A b \in settled \ {Nav} : Deployed(b)

(* A run with the same plan has done nothing so far.                       *)
QuietInv ==
  Running /\ settled = plan /\ Expected \subseteq hashed =>
    /\ ~changed /\ pc \notin {"apply", "wait"}
    /\ Reconciling => snap = inst

RepeatInv == EnabledInv /\ NavInv /\ SettledInv /\ QuietInv

(* What is deployed is found under its name.                               *)
LEMMA DeployedIsFound ==
  ASSUME IInv, Reconciling, NEW b \in Name, Deployed(b)
  PROVE  /\ byName[b] # NoPk /\ byName[b] \in PK /\ Exists(byName[b])
         /\ inst[byName[b]].name = b /\ inst[byName[b]].path = b /\ inst[byName[b]].enabled
         /\ inst[byName[b]].status = "successful"
         /\ b \in hashed => inst[byName[b]].hash = <<b, "new">>
<1>1. byName[b] # NoPk /\ byName[b] \in PK /\ Exists(byName[b]) /\ inst[byName[b]].name = b
  BY DEF IInv, TypeOK, TableInv, Deployed
<1>2. QED
  BY <1>1 DEF IInv, OneInstancePerName, Deployed

(* A step of a quiet run finds nothing to do.                              *)
LEMMA QuietStep ==
  ASSUME IInv, RepeatInv, AtBlueprint, settled = plan, Expected \subseteq hashed
  PROVE  /\ InstanceFor(Current) # NoPk
         /\ ~Mismatch(snap[InstanceFor(Current)], Current)
         /\ ~Unproven(snap[InstanceFor(Current)], Current)
<1>1. Current \in Expected /\ Current \in Name /\ Reconciling /\ Running
  BY Looked DEF AtBlueprint, AtStep, Reconciling, Running, Location
<1>2. Deployed(Current) /\ snap = inst
  BY <1>1 DEF RepeatInv, SettledInv, QuietInv, Expected
<1>3. InstanceFor(Current) = byName[Current]
  BY <1>1, <1>2, DeployedIsFound DEF InstanceFor
<1>4. Current \in hashed /\ AvailableHash(Current) = <<Current, "new">> /\ AvailableHash(Current) # NoHash
  BY <1>1, HashFacts DEF AvailableHash
<1>5. QED
  BY <1>1, <1>2, <1>3, <1>4, DeployedIsFound DEF Mismatch, Unproven

(* A run that ends keeps what is deployed, if its last request does.       *)
LEMMA EndRepeats ==
  ASSUME IInv, RepeatInv, pc' = "failed", UNCHANGED settled,
         binding' = binding \/ binding' = "right",
         NoNavInstance => NoNavInstance',
         \A b \in Blueprint : Deployed(b) => Deployed(b)'
  PROVE  RepeatInv'
<1>1. EnabledInv' /\ NavInv' /\ QuietInv'
  BY DEF EnabledInv, NavInv, QuietInv, Reconciling, Running
<1>2. SettledInv'
  <2>1. settled \ {Nav} \subseteq Blueprint
    BY DEF IInv, TypeOK, Blueprint
  <2>2. QED
    BY <2>1 DEF RepeatInv, SettledInv
<1>3. QED
  BY <1>1, <1>2 DEF RepeatInv

(* What is deployed depends on the instances alone.                        *)
LEMMA NothingTouched ==
  ASSUME UNCHANGED <<inst, hashed>>
  PROVE  (NoNavInstance' <=> NoNavInstance) /\ \A b : Deployed(b)' <=> Deployed(b)
BY DEF NoNavInstance, Deployed, Exists

LEMMA RaiseRepeats ==
  ASSUME IInv, RepeatInv, FailRequest \/ NotAvailable \/ Timeout \/ WaitFails
  PROVE  RepeatInv'
<1>1. pc' = "failed" /\ UNCHANGED <<inst, hashed, binding, settled>>
  BY DEF FailRequest, NotAvailable, Timeout, WaitFails, Raise, authentik
<1>2. QED
  BY <1>1, EndRepeats, NothingTouched

(* A run begins without a change.                                          *)
LEMMA CollectStateRepeats == ASSUME IInv, RepeatInv, CollectState PROVE RepeatInv'
<1>1. /\ pc' = "instances" /\ changed' = FALSE
      /\ UNCHANGED <<inst, hashed, binding, settled>>
  BY DEF CollectState, authentik
<1>2. SettledInv'
  BY <1>1, NothingTouched DEF RepeatInv, SettledInv
<1>3. QED
  BY <1>1, <1>2 DEF RepeatInv, EnabledInv, NavInv, QuietInv, Reconciling

(* The copy is exact when it is made.                                      *)
LEMMA GetInstancesRepeats == ASSUME IInv, RepeatInv, GetInstances PROVE RepeatInv'
<1>1. /\ pc = "instances" /\ pc' = "step" /\ at = 1 /\ snap' = inst
      /\ UNCHANGED <<inst, hashed, binding, settled, plan, at, changed>>
  BY DEF GetInstances, authentik, IInv, DoneInv
<1>2. SettledInv'
  BY <1>1, NothingTouched DEF RepeatInv, SettledInv
<1>3. EnabledInv' /\ NavInv'
  BY <1>1 DEF EnabledInv, NavInv
<1>4. QuietInv'
  BY <1>1 DEF RepeatInv, QuietInv, Expected, Running, Location
<1>5. QED
  BY <1>2, <1>3, <1>4 DEF RepeatInv

(* A step that changes no instance and no name, and in a quiet run goes on *)
(* to the next step or Navidrome's.                                        *)
LEMMA RunStepRepeats ==
  ASSUME IInv, RepeatInv, Reconciling, Reconciling',
         UNCHANGED <<inst, hashed, settled, plan, byName>>,
         binding' = binding \/ binding' = "right",
         pc' = "nav" => binding' = "right",
         pc' \in {"apply", "wait"} => inst[byName[Current]].enabled /\ at' = at,
         settled = plan /\ Expected \subseteq hashed =>
           snap' = snap /\ changed' = changed /\ pc' \notin {"apply", "wait"},
         \/ at' = at
         \/ /\ at' = at + 1 /\ at <= Len(Steps)
            /\ Steps[at] \in Expected => inst[byName[Steps[at]]].enabled
            /\ Steps[at] = Nav => binding = "right" /\ NoNavInstance
  PROVE  RepeatInv'
<1>1. ASSUME NEW j \in 1..(at' - 1) PROVE j \in 1..(at - 1) \/ (j = at /\ at' = at + 1)
  <2>1. at \in Nat
    BY PlanFacts DEF IInv, TypeOK
  <2>2. QED
    BY <1>1, <2>1
<1>2. EnabledInv'
  <2>1. pc' \in {"apply", "wait"} => inst'[byName'[Current']].enabled
    BY DEF Current
  <2>2. \A j \in 1..(at' - 1) : Steps[j] \in Expected => inst[byName[Steps[j]]].enabled
    BY <1>1 DEF RepeatInv, EnabledInv
  <2>3. QED
    BY <2>1, <2>2 DEF EnabledInv, Expected
<1>3. NavInv'
  <2>1. \A j \in 1..(at' - 1) : Steps[j] = Nav => binding' = "right" /\ NoNavInstance
    BY <1>1 DEF RepeatInv, NavInv
  <2>2. QED
    BY <2>1, NothingTouched DEF NavInv
<1>4. SettledInv'
  BY NothingTouched DEF RepeatInv, SettledInv
<1>5. QuietInv'
  BY DEF RepeatInv, QuietInv, Expected, Running, Reconciling, Location
<1>6. QED
  BY <1>2, <1>3, <1>4, <1>5 DEF RepeatInv

LEMMA PassOverRepeats == ASSUME IInv, RepeatInv, PassOver PROVE RepeatInv'
<1>1. /\ pc = "step" /\ pc' = "step" /\ at <= Len(Steps) /\ at' = at + 1 /\ Steps[at] \notin plan
      /\ UNCHANGED <<inst, hashed, binding, settled, plan, byName, snap, changed>>
  BY DEF PassOver, Current, authentik, copy, history
<1>2. Nav \in plan
  BY <1>1 DEF IInv, StepInv, Running, Location
<1>3. QED
  BY <1>1, <1>2, RunStepRepeats DEF Reconciling, Expected

LEMMA NoStaleInstanceRepeats == ASSUME IInv, RepeatInv, NoStaleInstance PROVE RepeatInv'
<1>1. /\ pc = "nav" /\ pc' = "step" /\ at' = at + 1 /\ byName[Nav] = NoPk
      /\ UNCHANGED <<inst, hashed, binding, settled, plan, byName, snap, changed>>
  BY DEF NoStaleInstance, authentik, copy, history
<1>2. at <= Len(Steps) /\ Steps[at] \notin Expected
  BY <1>1 DEF IInv, StepInv, Current, Expected
<1>3. binding = "right" /\ NoNavInstance
  BY <1>1, PlanFacts DEF RepeatInv, NavInv, IInv, TableInv, Reconciling, NoNavInstance
<1>4. QED
  BY <1>1, <1>2, <1>3, RunStepRepeats DEF Reconciling

LEMMA EnsureBindingRepeats == ASSUME IInv, RepeatInv, EnsureBinding PROVE RepeatInv'
<1>1. /\ pc = "step" /\ UNCHANGED <<inst, hashed, settled, plan, byName, snap, at>>
  BY DEF EnsureBinding, AtStep, copy
<1>2. CASE pc' = "nav" /\ binding' = "right" /\ changed' = (changed \/ binding # "right")
  <2>1. settled = plan => binding = "right"
    BY <1>1 DEF RepeatInv, SettledInv, IInv, StepInv, Running, Location
  <2>2. changed \in BOOLEAN
    BY DEF IInv, TypeOK
  <2>3. QED
    BY <1>1, <1>2, <2>1, <2>2, RunStepRepeats DEF Reconciling
<1>3. CASE pc' = "failed" /\ (binding' = binding \/ binding' = "right")
  BY <1>1, <1>3, EndRepeats, NothingTouched
<1>4. QED
  BY <1>2, <1>3 DEF EnsureBinding, Raise

LEMMA ApplyInstanceRepeats == ASSUME IInv, RepeatInv, ApplyInstance PROVE RepeatInv'
<1>1. pc = "apply" /\ UNCHANGED <<inst, hashed, binding, settled>>
  BY DEF ApplyInstance, ApplyEffect, LoseAnswer, history
<1>2. CASE pc' = "wait" /\ UNCHANGED <<plan, at, byName, snap, changed>>
  <2>1. ~(settled = plan /\ Expected \subseteq hashed)
    BY <1>1 DEF RepeatInv, QuietInv, Running, Location
  <2>2. QED
    BY <1>1, <1>2, <2>1, RunStepRepeats DEF RepeatInv, EnabledInv, Reconciling
<1>3. CASE pc' = "failed"
  BY <1>1, <1>3, EndRepeats, NothingTouched
<1>4. QED
  BY <1>2, <1>3 DEF ApplyInstance, LoseAnswer, Raise, copy

LEMMA WaitSucceedsRepeats == ASSUME IInv, RepeatInv, WaitSucceeds PROVE RepeatInv'
<1>1. /\ pc = "wait" /\ pc' = "step" /\ at' = at + 1
      /\ UNCHANGED <<inst, hashed, binding, settled, plan, byName>>
  BY DEF WaitSucceeds, authentik, history
<1>2. at <= Len(Steps) /\ Current # Nav
  BY <1>1, WaitedFor, PlanFacts DEF Expected
<1>3. ~(settled = plan /\ Expected \subseteq hashed)
  BY <1>1 DEF RepeatInv, QuietInv, Running, Location
<1>4. inst[byName[Current]].enabled
  BY <1>1 DEF RepeatInv, EnabledInv
<1>5. QED
  BY <1>1, <1>2, <1>3, <1>4, RunStepRepeats DEF Reconciling, Current

(* A quiet run leaves each instance alone.                                 *)
LEMMA KeepInstanceRepeats == ASSUME IInv, RepeatInv, KeepInstance PROVE RepeatInv'
<1> DEFINE k == InstanceFor(Current)
<1>1. /\ AtBlueprint /\ pc = "step" /\ k # NoPk /\ ~Mismatch(snap[k], Current)
      /\ UNCHANGED <<inst, hashed, binding, settled, plan, snap, changed>>
  BY DEF KeepInstance, authentik, history, AtBlueprint, AtStep
<1>2. /\ k \in PK /\ Exists(k) /\ Current \in Name /\ at \in 1..Len(Steps) /\ Current # Nav
  BY <1>1, Looked DEF AtBlueprint
<1>3. inst[k].name = Current /\ inst[k].enabled
  BY <1>1, <1>2 DEF IInv, CopyInv, Reconciling, Mismatch
<1>4. byName[Current] = k
  BY <1>1, <1>2, <1>3 DEF IInv, TableInv, Reconciling, InstanceFor
<1>5. CASE Unproven(snap[k], Current)
  <2>1. pc' = "apply" /\ UNCHANGED <<at, byName>>
    BY <1>5 DEF KeepInstance
  <2>2. ~(settled = plan /\ Expected \subseteq hashed)
    BY <1>1, <1>5, QuietStep
  <2>3. QED
    BY <1>1, <1>3, <1>4, <2>1, <2>2, RunStepRepeats DEF Reconciling
<1>6. CASE ~Unproven(snap[k], Current)
  <2>1. at' = at + 1 /\ UNCHANGED pc /\ byName' = [byName EXCEPT ![Current] = k]
    BY <1>6 DEF KeepInstance
  <2>2. byName' = byName
    BY <1>2, <1>4, <2>1 DEF IInv, TypeOK
  <2>3. at <= Len(Steps) /\ Steps[at] # Nav /\ inst[byName[Steps[at]]].enabled
    BY <1>2, <1>3, <1>4, PlanFacts DEF Current
  <2>4. QED
    BY <1>1, <2>1, <2>2, <2>3, RunStepRepeats DEF Reconciling
<1>7. QED
  BY <1>5, <1>6

(* What is made has a new name: no quiet run makes any.                    *)
LEMMA CreateInstanceRepeats == ASSUME IInv, RepeatInv, CreateInstance PROVE RepeatInv'
<1> DEFINE k == NextFree
           made == [name |-> Current, path |-> Current, enabled |-> TRUE,
                    status |-> "unknown", hash |-> NoHash]
<1>1. AtBlueprint /\ pc = "step" /\ InstanceFor(Current) = NoPk
  BY DEF CreateInstance, AtBlueprint, AtStep
<1>2. /\ Current \in Name /\ Current # Nav /\ at \in 1..Len(Steps)
      /\ \A j \in PK : Exists(j) => inst[j].name # Current
  BY <1>1, Looked DEF AtBlueprint
<1>3. k \in PK /\ ~Exists(k)
  BY <1>2, FreeKey DEF IInv
<1>4. inst' = [inst EXCEPT ![k] = made] /\ UNCHANGED <<binding, hashed>>
  BY DEF CreateInstance, CreateEffect, LoseAnswer
<1>5. \/ pc' = "failed" /\ UNCHANGED settled
      \/ /\ pc' = "apply" /\ byName' = [byName EXCEPT ![Current] = k]
         /\ UNCHANGED <<plan, at, settled>>
  BY DEF CreateInstance, LoseAnswer, Raise, history
<1> HIDE DEF k
<1>6. /\ inst'[k].name = Current /\ inst'[k].enabled
      /\ \A j \in PK \ {k} : inst'[j] = inst[j]
  BY <1>3, <1>4 DEF IInv, TypeOK
<1>7. NoNavInstance => NoNavInstance'
  BY <1>2, <1>6 DEF NoNavInstance, Exists
<1>8. ASSUME NEW b, Deployed(b) PROVE Deployed(b)'
  <2>1. PICK j \in PK : /\ Exists(j) /\ inst[j].name = b /\ inst[j].path = b /\ inst[j].enabled
                        /\ inst[j].status = "successful"
                        /\ b \in hashed => inst[j].hash = <<b, "new">>
    BY <1>8 DEF Deployed
  <2>2. inst'[j] = inst[j]
    BY <1>3, <1>6, <2>1
  <2>3. QED
    BY <1>4, <2>1, <2>2 DEF Deployed, Exists
<1>9. CASE pc' = "failed" /\ UNCHANGED settled
  BY <1>4, <1>7, <1>8, <1>9, EndRepeats
<1>10. CASE /\ pc' = "apply" /\ byName' = [byName EXCEPT ![Current] = k]
            /\ UNCHANGED <<plan, at, settled>>
  <2>1. ASSUME NEW j \in 1..(at - 1), Steps[j] \in Expected PROVE inst'[byName'[Steps[j]]].enabled
    <3>1. Settled(Steps[j]) /\ Steps[j] # Current /\ Steps[j] \in Name
      BY <1>1, <1>2, <2>1, PlanFacts DEF IInv, DoneInv, Reconciling, Current, TypeOK, Expected
    <3>2. byName'[Steps[j]] = byName[Steps[j]] /\ byName[Steps[j]] \in PK \ {k}
      BY <1>1, <1>3, <1>10, <3>1 DEF Settled, IInv, TypeOK, TableInv, Reconciling
    <3>3. QED
      BY <1>1, <1>6, <2>1, <3>2 DEF RepeatInv, EnabledInv, Reconciling
  <2>2. byName'[Current] = k /\ Current' = Current
    BY <1>2, <1>10 DEF IInv, TypeOK, Current
  <2>3. EnabledInv'
    BY <1>6, <1>10, <2>1, <2>2 DEF EnabledInv, Expected
  <2>4. NavInv'
    BY <1>1, <1>4, <1>7, <1>10 DEF RepeatInv, NavInv, Reconciling
  <2>5. SettledInv'
    BY <1>4, <1>7, <1>8, <1>10 DEF RepeatInv, SettledInv
  <2>6. ~(settled = plan /\ Expected \subseteq hashed)
    BY <1>1, QuietStep
  <2>7. QuietInv'
    BY <1>4, <1>10, <2>6 DEF QuietInv, Expected
  <2>8. QED
    BY <2>3, <2>4, <2>5, <2>7 DEF RepeatInv
<1>11. QED
  BY <1>5, <1>9, <1>10

(* What is corrected was not deployed under another name.                  *)
LEMMA UpdateInstanceRepeats == ASSUME IInv, RepeatInv, UpdateInstance PROVE RepeatInv'
<1> DEFINE k == InstanceFor(Current)
           made == [inst[k] EXCEPT !.name = Current, !.path = Current, !.enabled = TRUE]
<1>1. AtBlueprint /\ pc = "step" /\ k # NoPk /\ Mismatch(snap[k], Current)
  BY DEF UpdateInstance, AtBlueprint, AtStep
<1>2. /\ Current \in Name /\ Current # Nav /\ at \in 1..Len(Steps)
      /\ k \in PK /\ Exists(k)
      /\ inst[k].name = Current \/ inst[k].path = Current
  BY <1>1, Looked DEF AtBlueprint
<1>3. inst' = [inst EXCEPT ![k] = made] /\ UNCHANGED <<binding, hashed>>
  BY DEF UpdateInstance, UpdateEffect, LoseAnswer
<1>4. \/ pc' = "failed" /\ UNCHANGED settled
      \/ /\ pc' = "apply" /\ byName' = Relabel(byName, snap[k].name, Current, k)
         /\ UNCHANGED <<plan, at, settled>>
  BY DEF UpdateInstance, LoseAnswer, Raise, history
<1>5. inst[k] \in Instance
  BY <1>2 DEF IInv, TypeOK, Exists
<1>6. /\ made.name = Current /\ made.path = Current /\ made.enabled /\ made # NoInstance
      /\ made.status = inst[k].status /\ made.hash = inst[k].hash
  <2>1. made \in Instance
    BY <1>2, <1>5 DEF Instance
  <2>2. QED
    BY <1>5, <2>1, KeysOK DEF Instance
<1> HIDE DEF k, made
<1>7. inst'[k] = made /\ \A j \in PK \ {k} : inst'[j] = inst[j]
  BY <1>2, <1>3 DEF IInv, TypeOK
<1>8. NoNavInstance => NoNavInstance'
  BY <1>2, <1>6, <1>7 DEF NoNavInstance, Exists
<1>9. ASSUME NEW b, Deployed(b) PROVE Deployed(b)'
  <2>1. PICK j \in PK : /\ Exists(j) /\ inst[j].name = b /\ inst[j].path = b /\ inst[j].enabled
                        /\ inst[j].status = "successful"
                        /\ b \in hashed => inst[j].hash = <<b, "new">>
    BY <1>9 DEF Deployed
  <2>2. CASE j = k
    BY <1>2, <1>3, <1>6, <1>7, <2>1, <2>2 DEF Deployed, Exists
  <2>3. CASE j # k
    BY <1>3, <1>7, <2>1, <2>3 DEF Deployed, Exists
  <2>4. QED
    BY <2>2, <2>3
<1>10. CASE pc' = "failed" /\ UNCHANGED settled
  BY <1>3, <1>8, <1>9, <1>10, EndRepeats
<1>11. CASE /\ pc' = "apply" /\ byName' = Relabel(byName, snap[k].name, Current, k)
            /\ UNCHANGED <<plan, at, settled>>
  <2>1. snap[k].name = inst[k].name
    BY <1>1, <1>2 DEF IInv, CopyInv, Reconciling
  <2>2. ASSUME NEW j \in 1..(at - 1), Steps[j] \in Expected PROVE inst'[byName'[Steps[j]]].enabled
    <3>1. Settled(Steps[j]) /\ Steps[j] # Current /\ Steps[j] \in Name
      BY <1>1, <1>2, <2>2, PlanFacts DEF IInv, DoneInv, Reconciling, Current, TypeOK, Expected
    <3>2. /\ byName[Steps[j]] \in PK /\ inst[byName[Steps[j]]].name = Steps[j]
          /\ inst[byName[Steps[j]]].path = Steps[j] /\ Exists(byName[Steps[j]])
      BY <1>1, <3>1 DEF Settled, IInv, TypeOK, TableInv, Reconciling
    <3>3. byName[Steps[j]] # k
      BY <1>2, <3>1, <3>2
    <3>4. Steps[j] # inst[k].name
      BY <1>2, <3>2, <3>3 DEF IInv, OneInstancePerName
    <3>5. byName'[Steps[j]] = byName[Steps[j]] /\ inst'[byName[Steps[j]]] = inst[byName[Steps[j]]]
      BY <1>7, <1>11, <2>1, <3>1, <3>2, <3>3, <3>4 DEF Relabel
    <3>6. QED
      BY <1>1, <2>2, <3>5 DEF RepeatInv, EnabledInv, Reconciling
  <2>3. byName'[Current] = k /\ Current' = Current
    BY <1>2, <1>11 DEF Relabel, Current
  <2>4. EnabledInv'
    BY <1>6, <1>7, <1>11, <2>2, <2>3 DEF EnabledInv, Expected
  <2>5. NavInv'
    BY <1>1, <1>3, <1>8, <1>11 DEF RepeatInv, NavInv, Reconciling
  <2>6. SettledInv'
    BY <1>3, <1>8, <1>9, <1>11 DEF RepeatInv, SettledInv
  <2>7. ~(settled = plan /\ Expected \subseteq hashed)
    BY <1>1, QuietStep DEF k
  <2>8. QuietInv'
    BY <1>3, <1>11, <2>7 DEF QuietInv, Expected
  <2>9. QED
    BY <2>4, <2>5, <2>6, <2>8 DEF RepeatInv
<1>12. QED
  BY <1>4, <1>10, <1>11

(* After a success there is nothing to delete.                             *)
LEMMA DeleteStaleInstanceRepeats == ASSUME IInv, RepeatInv, DeleteStaleInstance PROVE RepeatInv'
<1> DEFINE k == byName[Nav]
<1>1. /\ pc = "nav" /\ k # NoPk /\ inst' = [inst EXCEPT ![k] = NoInstance]
      /\ UNCHANGED <<binding, hashed>>
  BY DEF DeleteStaleInstance, DeleteEffect, LoseAnswer
<1>2. \/ pc' = "failed" /\ UNCHANGED settled
      \/ /\ pc' = "step" /\ at' = at + 1 /\ byName' = [byName EXCEPT ![Nav] = NoPk]
         /\ UNCHANGED <<plan, settled>>
  BY DEF DeleteStaleInstance, LoseAnswer, Raise, history
<1>3. /\ k \in PK /\ Exists(k) /\ inst[k].name = Nav
      /\ at \in 1..Len(Steps) /\ Steps[at] = Nav /\ Nav \in plan
  BY <1>1, PlanFacts DEF IInv, TypeOK, TableInv, StepInv, Reconciling, Current
<1>4. inst'[k] = NoInstance /\ \A j \in PK \ {k} : inst'[j] = inst[j]
  BY <1>1, <1>3 DEF IInv, TypeOK
<1>5. NoNavInstance'
  BY <1>3, <1>4 DEF IInv, OneInstancePerName, NoNavInstance, Exists
<1>6. ASSUME NEW b \in Blueprint, Deployed(b) PROVE Deployed(b)'
  <2>1. PICK j \in PK : /\ Exists(j) /\ inst[j].name = b /\ inst[j].path = b /\ inst[j].enabled
                        /\ inst[j].status = "successful"
                        /\ b \in hashed => inst[j].hash = <<b, "new">>
    BY <1>6 DEF Deployed
  <2>2. inst'[j] = inst[j]
    BY <1>3, <1>4, <2>1 DEF Blueprint
  <2>3. QED
    BY <1>1, <2>1, <2>2 DEF Deployed, Exists
<1>7. CASE pc' = "failed" /\ UNCHANGED settled
  BY <1>1, <1>5, <1>6, <1>7, EndRepeats
<1>8. CASE /\ pc' = "step" /\ at' = at + 1 /\ byName' = [byName EXCEPT ![Nav] = NoPk]
           /\ UNCHANGED <<plan, settled>>
  <2>1. settled = {}
    BY <1>3 DEF RepeatInv, SettledInv, NoNavInstance
  <2>2. ASSUME NEW j \in 1..(at' - 1), Steps[j] \in Expected PROVE inst'[byName'[Steps[j]]].enabled
    <3>1. at' - 1 = at /\ at \in Nat
      BY <1>3, <1>8, PlanFacts
    <3>2. j \in 1..at /\ j # at
      BY <1>3, <2>2, <3>1 DEF Expected
    <3>3. j \in 1..(at - 1)
      BY <3>1, <3>2
    <3>4. Settled(Steps[j]) /\ Steps[j] # Nav /\ Steps[j] \in Name
      BY <1>1, <2>2, <3>3, PlanFacts DEF IInv, DoneInv, Reconciling, TypeOK, Expected
    <3>5. byName[Steps[j]] \in PK \ {k} /\ byName'[Steps[j]] = byName[Steps[j]]
      BY <1>1, <1>3, <1>8, <3>4 DEF Settled, IInv, TypeOK, TableInv, Reconciling
    <3>6. QED
      BY <1>1, <1>4, <2>2, <3>3, <3>5 DEF RepeatInv, EnabledInv, Reconciling
  <2>3. EnabledInv'
    BY <1>8, <2>2 DEF EnabledInv, Expected
  <2>4. NavInv'
    BY <1>1, <1>5, <1>8 DEF RepeatInv, NavInv
  <2>5. SettledInv' /\ QuietInv'
    BY <1>3, <1>8, <2>1 DEF SettledInv, QuietInv
  <2>6. QED
    BY <2>3, <2>4, <2>5 DEF RepeatInv
<1>9. QED
  BY <1>2, <1>7, <1>8

(* What a success leaves.                                                  *)
LEMMA FinalObservationRepeats == ASSUME IInv, RepeatInv, FinalObservation PROVE RepeatInv'
<1>1. pc = "step" /\ at > Len(Steps) /\ UNCHANGED <<inst, hashed, binding>>
  BY DEF FinalObservation, authentik
<1>2. CASE pc' = "failed" /\ UNCHANGED settled
  BY <1>1, <1>2, EndRepeats, NothingTouched
<1>3. CASE pc' = "ok" /\ settled' = plan /\ Verified
  <2>1. ASSUME NEW i \in 1..Len(Steps) PROVE i \in 1..(at - 1)
    BY <1>1, PlanFacts DEF IInv, TypeOK
  <2>2. ASSUME NEW b \in plan \ {Nav} PROVE Deployed(b)
    <3>1. b \in Name /\ b \in Expected
      BY <2>2, PlanFacts DEF IInv, TypeOK, Expected
    <3>2. PICK i \in 1..(at - 1) : Steps[i] = b
      BY <2>1, <2>2, PlanFacts DEF IInv, TypeOK
    <3>3. /\ byName[b] \in PK /\ Exists(byName[b]) /\ inst[byName[b]].name = b
          /\ inst[byName[b]].path = b /\ inst[byName[b]].enabled
      BY <1>1, <3>1, <3>2
         DEF IInv, DoneInv, Settled, TypeOK, TableInv, Reconciling, RepeatInv, EnabledInv
    <3>4. /\ inst[byName[b]].status = "successful"
          /\ b \in hashed => inst[byName[b]].hash = <<b, "new">>
      BY <1>3, <3>1, <3>3 DEF Verified, AvailableHash
    <3>5. QED
      BY <3>3, <3>4 DEF Deployed
  <2>3. binding = "right" /\ NoNavInstance
    <3>1. PICK i \in 1..(at - 1) : Steps[i] = Nav
      BY <2>1, PlanFacts
    <3>2. QED
      BY <1>1, <3>1 DEF RepeatInv, NavInv, Reconciling
  <2>4. SettledInv'
    BY <1>1, <1>3, <2>2, <2>3, NothingTouched DEF SettledInv
  <2>5. EnabledInv' /\ NavInv' /\ QuietInv'
    BY <1>3 DEF EnabledInv, NavInv, QuietInv, Reconciling, Running
  <2>6. QED
    BY <2>4, <2>5 DEF RepeatInv
<1>4. QED
  BY <1>2, <1>3 DEF FinalObservation, Raise

(* The worker disables nothing, renames nothing, and ends the calm.        *)
LEMMA WorkerRepeats == ASSUME IInv, RepeatInv, Worker PROVE RepeatInv'
<1>1. PICK k \in PK : WorkerApplies(k) \/ WorkerErrs(k)
  BY DEF Worker
<1>2. UNCHANGED <<binding, pc, plan, at, byName>> /\ settled' = {}
  BY <1>1 DEF WorkerApplies, WorkerErrs, copy
<1>3. \/ inst' = [inst EXCEPT ![k].status = "successful", ![k].hash = <<inst[k].path, "new">>]
      \/ inst' = [inst EXCEPT ![k].status = "error"]
  BY <1>1 DEF WorkerApplies, WorkerErrs
<1>4. Exists(k) /\ inst[k] \in Instance
  BY <1>1 DEF WorkerApplies, WorkerErrs, Due, Exists, IInv, TypeOK
<1>5. \A j \in PK : inst'[j].name = inst[j].name /\ inst'[j].enabled = inst[j].enabled
  BY <1>3, <1>4 DEF IInv, TypeOK, Instance
<1>6. \A j \in PK : Exists(j)' => Exists(j)
  BY <1>3, <1>4 DEF IInv, TypeOK, Exists
<1>7. EnabledInv'
  <2>1. pc \in {"apply", "wait"} => byName[Current] \in PK
    BY WaitedFor
  <2>2. ASSUME Reconciling, NEW j \in 1..(at - 1), Steps[j] \in Expected PROVE byName[Steps[j]] \in PK
    BY <2>2, PlanFacts DEF IInv, DoneInv, Settled, TypeOK, Expected
  <2>3. Current' = Current /\ Expected' = Expected /\ (Reconciling' <=> Reconciling)
    BY <1>2 DEF Current, Expected, Reconciling
  <2>4. QED
    BY <1>2, <1>5, <2>1, <2>2, <2>3 DEF RepeatInv, EnabledInv
<1>8. NavInv'
  BY <1>2, <1>5, <1>6 DEF RepeatInv, NavInv, Reconciling, NoNavInstance
<1>9. SettledInv' /\ QuietInv'
  <2>1. Running => Nav \in plan
    BY DEF IInv, StepInv
  <2>2. QED
    BY <1>2, <2>1 DEF SettledInv, QuietInv, Running
<1>10. QED
  BY <1>7, <1>8, <1>9 DEF RepeatInv

(* Every step keeps it.                                                    *)
LEMMA NextRepeats == ASSUME IInv, RepeatInv, [Next]_vars PROVE RepeatInv'
<1>1. CASE Next
  BY <1>1, CollectStateRepeats, GetInstancesRepeats, PassOverRepeats, RaiseRepeats,
     CreateInstanceRepeats, UpdateInstanceRepeats, KeepInstanceRepeats, ApplyInstanceRepeats,
     WaitSucceedsRepeats, EnsureBindingRepeats, DeleteStaleInstanceRepeats,
     NoStaleInstanceRepeats, FinalObservationRepeats, WorkerRepeats DEF Next, Script
<1>2. CASE UNCHANGED vars
  <2>1. UNCHANGED <<inst, binding, hashed, settled, plan, byName, snap, pc, at, changed>>
    BY <1>2 DEF vars, authentik, copy, history
  <2>2. SettledInv' /\ NavInv'
    BY <2>1, NothingTouched DEF RepeatInv, SettledInv, NavInv, Reconciling
  <2>3. EnabledInv' /\ QuietInv'
    BY <2>1 DEF RepeatInv, EnabledInv, QuietInv, Reconciling, Expected, Running, Current
  <2>4. QED
    BY <2>2, <2>3 DEF RepeatInv
<1>3. QED
  BY <1>1, <1>2

(* A run with the plan of the last success, nothing having been applied    *)
(* since and every hash listed, reports no change: it has made none.       *)
THEOREM RepeatCorrect == Spec => Idempotent
<1>1. Init => RepeatInv
  BY DEF Init, RepeatInv, EnabledInv, NavInv, SettledInv, QuietInv, Reconciling, Running
<1>2. IInv /\ RepeatInv /\ [Next]_vars => RepeatInv'
  BY NextRepeats
<1>3. ASSUME IInv, RepeatInv, [Next]_vars,
             pc' = "ok", pc # "ok", settled = plan, Expected \subseteq hashed
      PROVE  ~changed
  <2>1. Running
    BY <1>3 DEF Next, Script, Worker, vars, CollectState, GetInstances, PassOver, NotAvailable,
       AtBlueprint, AtStep, CreateInstance, UpdateInstance, KeepInstance, ApplyInstance, WaitFails,
       WaitSucceeds, EnsureBinding, DeleteStaleInstance, NoStaleInstance, FinalObservation,
       FailRequest, Timeout, WorkerApplies, WorkerErrs, Running, Location, Raise, LoseAnswer
  <2>2. QED
    BY <1>3, <2>1 DEF RepeatInv, QuietInv
<1>4. QED
  BY <1>1, <1>2, <1>3, InvHolds, PTL DEF Spec, Idempotent
==============================================================================
