--------------------------- MODULE MCBlueprintSync ---------------------------
(* Instances of BlueprintSync for TLC: an exported flow, the default        *)
(* policies (25), which set the enrollment flow of the approval blueprint   *)
(* (26), which has Navidrome's policy too, the Navidrome step (27), and the *)
(* providers (30), which look up the exported flow.                         *)
EXTENDS BlueprintSync, TLC

MCSteps == <<"flow", "policies", "approval", "nav", "providers">>
MCFlowUser == "flow" :> "providers"
MCNeeds == [b \in Blueprint |-> IF b = "providers" THEN {"flow"} ELSE {}]
MCWants == [b \in Blueprint |-> IF b = "policies" THEN {"approval"} ELSE {}]

Fine(b) == [name |-> b, path |-> b, enabled |-> TRUE, status |-> "successful", hash |-> <<b, "new">>]

(* What earlier deployments, or somebody in Authentik's UI, may have left. *)
Variants(b) ==
  {Fine(b),
   [Fine(b) EXCEPT !.hash = <<b, "old">>],
   [Fine(b) EXCEPT !.enabled = FALSE, !.hash = <<b, "old">>],
   [Fine(b) EXCEPT !.status = "error"],
   [Fine(b) EXCEPT !.status = "unknown", !.hash = NoHash],
   [Fine(b) EXCEPT !.path = "stranger", !.hash = NoHash],
   [Fine(b) EXCEPT !.name = "stranger", !.hash = <<b, "old">>]}

(* A renamed blueprint: its old instance has the path, another the name. *)
Swapped == (1 :> [Fine("approval") EXCEPT !.name = "stranger", !.hash = <<"approval", "old">>])
             @@ (2 :> [Fine("approval") EXCEPT !.path = "stranger", !.hash = NoHash])

MCInitial ==
  {<<>>, Swapped}
    \cup {<<Fine("flow"), Fine("policies"), v, Fine("providers")>> : v \in Variants("approval")}
    \cup {<<Fine("flow"), Fine("policies"), Fine("approval"), v>> : v \in Variants("providers")}
    \cup {<<Fine("approval"), [Fine("nav") EXCEPT !.hash = NoHash], Fine("providers")>>}

(* The deployment that brings the policies and the approval flow. *)
MCIntroduced == {<<Fine("flow"), Fine("providers")>>}

MCHashed == {Blueprint, {"flow", "providers"}}
MCListed == {Blueprint, {"flow", "policies", "approval"}}
==============================================================================
