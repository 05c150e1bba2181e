----------------------------- MODULE MCStackSync -----------------------------
(* An instance of StackSync for TLC: a stack that declares a busy check,    *)
(* whose service is renamed or whose declaration is invalid, and a stack    *)
(* without one, whose tracked file changes or whose x-restart-on-change is  *)
(* refused.                                                                 *)
EXTENDS StackSync, TLC

CONSTANTS media, web

V(service, check, file) == [service |-> service, check |-> check, file |-> file]

MCSources ==
  (media :> {V("svc", "declared", 1), V("renamed", "declared", 2), V("svc", "invalid", 1)})
    @@ (web :> {V("svc", "none", 1), V("svc", "none", 2), V("svc", "broken", 1)})
==============================================================================
