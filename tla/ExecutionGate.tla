--------------------------- MODULE ExecutionGate ---------------------------
(***************************************************************************)
(* What the live execution boundary promises to everything above it: which *)
(* playbooks may run at the same time.  It knows nothing of flock, ssh,    *)
(* holder records or wrappers.                                             *)
(*                                                                         *)
(* A playbook on a control node never starts beside a conflicting one on   *)
(* the same node.  It starts beside a mutating playbook of another node    *)
(* only if one of the two has lapsed, that is, has lost its session with   *)
(* the Proxmox host (ADR-0024 accepts this: a run does not notice a lock   *)
(* that drops mid-run).                                                    *)
(***************************************************************************)
CONSTANTS
  Run,       \* invocations of run.sh, recover.sh and inspect.sh
  NodeOf,    \* the control node a run is invoked on
  Class      \* its lock class: "shared", "exclusive" or "exclusive-local"

VARIABLES
  active,    \* the runs whose playbook is executing
  lapsed     \* the runs that lost their fleet session

vars == <<active, lapsed>>

(* Two runs that the machine-local lock keeps apart. *)
LocalConflict(q, r) ==
  q # r /\ NodeOf[q] = NodeOf[r] /\ ~(Class[q] = "shared" /\ Class[r] = "shared")

(* Two runs that the fleet lock keeps apart. *)
FleetConflict(q, r) ==
  q # r /\ Class[q] = "exclusive" /\ Class[r] = "exclusive"

Init == active = {} /\ lapsed = {}

Start(r) ==
  /\ r \notin active
  /\ \A q \in active :
       /\ ~LocalConflict(q, r)
       /\ FleetConflict(q, r) => (q \in lapsed \/ r \in lapsed)
  /\ active' = active \cup {r}
  /\ UNCHANGED lapsed

(* Playbooks end one by one, or all those of a node that vanishes. *)
Stop(S) ==
  /\ active' = active \ S
  /\ UNCHANGED lapsed

Lapse(r) ==
  /\ lapsed' = lapsed \cup {r}
  /\ UNCHANGED active

Next ==
  \/ \E r \in Run : Start(r) \/ Lapse(r)
  \/ \E S \in SUBSET Run : Stop(S)

Spec == Init /\ [][Next]_vars
=============================================================================
