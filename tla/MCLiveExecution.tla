--------------------------- MODULE MCLiveExecution ---------------------------
(* Instances of LiveExecution for TLC.  Each run fixes its own control     *)
(* nodes, invocations and lock classes.                                    *)
EXTENDS LiveExecution, TLC

CONSTANTS n1, n2, r1, r2, r3

(* Two control nodes: a read and a mutating run on one, a mutating run on  *)
(* the other.                                                              *)
MCFleetNodeOf == (r1 :> n1) @@ (r2 :> n1) @@ (r3 :> n2)
MCFleetClass == (r1 :> "shared") @@ (r2 :> "exclusive") @@ (r3 :> "exclusive")

(* Two control nodes with one mutating run each. *)
MCPairNodeOf == (r1 :> n1) @@ (r2 :> n2)
MCPairClass == (r1 :> "exclusive") @@ (r2 :> "exclusive")
=============================================================================
