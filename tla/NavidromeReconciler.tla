------------------------- MODULE NavidromeReconciler -------------------------
(***************************************************************************)
(* The accounts of Navidrome under its two writers: reconciler.py of the   *)
(* music stack, which lists the users of Authentik, then the accounts of   *)
(* Navidrome, and applies the plan it makes of both; and the expression    *)
(* policy of blueprint 26, which mirrors a changed password and runs       *)
(* inside Authentik.  Both read an account and write it back whole, while  *)
(* people edit users and accounts.                                         *)
(*                                                                         *)
(* Navidrome shows whether an account is off in a field whose name is one  *)
(* of three, or not in any of these.  An account made again under its name *)
(* counts as the same.  Left out: passwords, which the reconciler never    *)
(* writes, and paging.                                                     *)
(***************************************************************************)
EXTENDS Naturals, FiniteSets

CONSTANTS
  User,           \* user names, with or without an account
  Email,
  ApiUser,        \* the account both writers log in with
  Nobody,         \* no such user or account
  MaxChanges,     \* bound on edits of users and accounts, and passwords
  MaxFaults       \* bound on API calls that fail

ASSUME UserAssumption == ApiUser \in User /\ Email # {}
ASSUME BoundsAssumption == MaxChanges \in Nat /\ MaxFaults \in Nat

VARIABLES
  disabledField, \* the name of that field in this Navidrome, or "none"
  identity,   \* the users of Authentik
  account,    \* the accounts of Navidrome
  pc,         \* the reconciler: "sleep", "authentik", "navidrome" or "apply"
  users,      \* the users it has listed
  ops,        \* what is left of its plan: a set of <<user, action, payload>>
  seen,       \* seen[u]: what the policy read for u's new password
  mirroring,  \* the users whose password is being mirrored
  quiet,      \* history: since this pass began nothing was edited or failed
  changes, faults

people == <<disabledField, identity, account>>
reconciler == <<pc, users, ops>>
policy == <<seen, mirroring>>
vars == <<people, reconciler, policy, quiet, changes, faults>>

DisabledField == {"isDisabled", "disabled", "isActive", "none"}
Identity == [entitled : BOOLEAN, email : Email]
Account == [field : BOOLEAN, email : Email, admin : BOOLEAN]

ASSUME NobodyAssumption == Nobody \notin Identity \cup Account

TypeOK ==
  /\ disabledField \in DisabledField
  /\ identity \in [User -> Identity \cup {Nobody}]
  /\ account \in [User -> Account \cup {Nobody}]
  /\ pc \in {"sleep", "authentik", "navidrome", "apply"}
  /\ users \in [User -> Identity \cup {Nobody}]
  /\ ops \subseteq User \X {"create", "update"} \X Account
  /\ seen \in [User -> Account \cup {Nobody}]
  /\ mirroring \subseteq User /\ quiet \in BOOLEAN
  /\ changes \in 0..MaxChanges /\ faults \in 0..MaxFaults

-----------------------------------------------------------------------------
(* reconciler.py: plan *)

(* Whether an account is off, where it is shown and where it is not.       *)
Off(a) == IF disabledField = "isActive" THEN ~a.field ELSE a.field

(* Mutant: isActive is taken for a field that tells who is off. *)
ResolveDisabled_SamePolarity(a) == disabledField # "none" /\ a.field

(* _resolve_disabled_field: an account without such a field is on.         *)
ResolveDisabled(a) == disabledField # "none" /\ Off(a)

(* The field of an update; it is isDisabled where none was shown.          *)
DisabledValue(off) == IF disabledField = "isActive" THEN ~off ELSE off

NewAccount(email, admin) == [field |-> DisabledValue(FALSE), email |-> email, admin |-> admin]

(* _build_update_payload: the administrator bit as it was listed.          *)
UpdatePayload(a, email, off) == [field |-> DisabledValue(off), email |-> email, admin |-> a.admin]

(* Mutant: only an account that is off is updated. *)
PlanFor_IgnoresEmail(listed, accounts, u) ==
  LET a == accounts[u]
      i == listed[u]
  IN CASE i # Nobody /\ i.entitled /\ a = Nobody -> {<<u, "create", NewAccount(i.email, FALSE)>>}
       [] i # Nobody /\ i.entitled /\ a # Nobody /\ ResolveDisabled(a)
            -> {<<u, "update", UpdatePayload(a, i.email, FALSE)>>}
       [] i # Nobody /\ ~i.entitled /\ a # Nobody /\ ~ResolveDisabled(a)
            -> {<<u, "update", UpdatePayload(a, i.email, TRUE)>>}
       [] OTHER -> {}

(* plan_reconciliation, for one user of Authentik.  Entitled is who is     *)
(* active and in the group media.                                          *)
PlanFor(listed, accounts, u) ==
  LET a == accounts[u]
      i == listed[u]
  IN CASE i # Nobody /\ i.entitled /\ a = Nobody -> {<<u, "create", NewAccount(i.email, FALSE)>>}
       [] i # Nobody /\ i.entitled /\ a # Nobody /\ (ResolveDisabled(a) \/ a.email # i.email)
            -> {<<u, "update", UpdatePayload(a, i.email, FALSE)>>}
       [] i # Nobody /\ ~i.entitled /\ a # Nobody /\ ~ResolveDisabled(a)
            -> {<<u, "update", UpdatePayload(a, i.email, TRUE)>>}
       [] OTHER -> {}

Init ==
  /\ disabledField \in DisabledField
  /\ identity \in [User -> Identity \cup {Nobody}]
  /\ account = [u \in User |-> IF u = ApiUser THEN NewAccount(CHOOSE e \in Email : TRUE, TRUE) ELSE Nobody]
  /\ pc = "sleep" /\ users = [u \in User |-> Nobody] /\ ops = {}
  /\ seen = [u \in User |-> Nobody] /\ mirroring = {}
  /\ quiet = FALSE /\ changes = 0 /\ faults = 0

Fault == faults < MaxFaults /\ faults' = faults + 1

(* Every request to Navidrome logs in first.                               *)
LoggedIn == account[ApiUser] # Nobody /\ ~Off(account[ApiUser])

-----------------------------------------------------------------------------
(* reconciler.py: sync_once and main *)

StartPass ==
  /\ pc = "sleep"
  /\ pc' = "authentik" /\ quiet' = (mirroring = {})
  /\ UNCHANGED <<people, users, ops, policy, changes, faults>>

ListIdentities ==
  /\ pc = "authentik"
  /\ users' = identity /\ pc' = "navidrome"
  /\ UNCHANGED <<people, ops, policy, quiet, changes, faults>>

ListAccounts ==
  /\ pc = "navidrome" /\ LoggedIn
  /\ ops' = UNION {PlanFor(users, account, u) : u \in User}
  /\ pc' = "apply"
  /\ UNCHANGED <<people, users, policy, quiet, changes, faults>>

(* Any exception while listing ends the pass, not the loop.                *)
PassFails ==
  /\ \/ pc \in {"authentik", "navidrome"} /\ Fault
     \/ pc = "navidrome" /\ ~LoggedIn /\ UNCHANGED faults
  /\ pc' = "sleep" /\ quiet' = FALSE
  /\ users' = [u \in User |-> Nobody]
  /\ UNCHANGED <<people, ops, policy, changes>>

(* Navidrome refuses a name that is taken and an account that is gone.     *)
Accepted(action, u) == LoggedIn /\ (action = "create") = (account[u] = Nobody)

(* What is stored of a payload.  A Navidrome that did not show isDisabled  *)
(* may take it, or keep what it has, or turn the account on.               *)
Stored(u, payload) ==
  LET held == {a.field : a \in {account[u]} \ {Nobody}}
  IN IF disabledField = "none" THEN {[payload EXCEPT !.field = f] : f \in held \cup {payload.field, FALSE}}
     ELSE {payload}

(* One operation; an exception is logged and the next one follows.         *)
Apply(op) ==
  LET u == op[1]
  IN /\ pc = "apply" /\ op \in ops
     /\ ops' = ops \ {op}
     /\ \/ /\ Accepted(op[2], u) /\ UNCHANGED <<quiet, faults>>
           /\ \E a \in Stored(u, op[3]) : account' = [account EXCEPT ![u] = a]
        \/ ~Accepted(op[2], u) /\ quiet' = FALSE /\ UNCHANGED <<account, faults>>
        \/ Fault /\ quiet' = FALSE /\ UNCHANGED account
     /\ UNCHANGED <<disabledField, identity, pc, users, policy, changes>>

EndPass ==
  /\ pc = "apply" /\ ops = {}
  /\ pc' = "sleep"
  /\ users' = [u \in User |-> Nobody]
  /\ UNCHANGED <<people, ops, policy, quiet, changes, faults>>

-----------------------------------------------------------------------------
(* The policy, in a flow that has the new password of u.                   *)

Change == changes < MaxChanges /\ changes' = changes + 1

MirrorReads(u) ==
  /\ identity[u] # Nobody /\ u \notin mirroring
  /\ Change
  /\ LoggedIn
  /\ seen' = [seen EXCEPT ![u] = account[u]] /\ mirroring' = mirroring \cup {u}
  /\ quiet' = FALSE
  /\ UNCHANGED <<people, reconciler, faults>>

(* The policy writes isDisabled as it read it.  Under another name it      *)
(* sends nothing of the field, and Navidrome keeps it or turns it on.      *)
Mirrored(u) ==
  LET email == IF identity[u] # Nobody THEN identity[u].email ELSE seen[u].email
      written == [seen[u] EXCEPT !.email = email]
  IN IF disabledField = "isDisabled" THEN {written}
     ELSE {[written EXCEPT !.field = f] : f \in {account[u].field, DisabledValue(FALSE)}}

MirrorWrites(u) ==
  /\ u \in mirroring
  /\ mirroring' = mirroring \ {u} /\ seen' = [seen EXCEPT ![u] = Nobody]
  /\ quiet' = FALSE
  /\ \/ /\ seen[u] # Nobody /\ LoggedIn /\ account[u] # Nobody
        /\ \E a \in Mirrored(u) : account' = [account EXCEPT ![u] = a]
        /\ UNCHANGED faults
     \/ /\ seen[u] = Nobody /\ LoggedIn /\ account[u] = Nobody
        /\ \E e \in Email : /\ identity[u] # Nobody => e = identity[u].email
                            /\ account' = [account EXCEPT ![u] = NewAccount(e, FALSE)]
        /\ UNCHANGED faults
     \/ /\ ~LoggedIn \/ (seen[u] = Nobody) # (account[u] = Nobody)
        /\ UNCHANGED <<account, faults>>
     \/ Fault /\ UNCHANGED account
  /\ UNCHANGED <<disabledField, identity, reconciler, changes>>

-----------------------------------------------------------------------------
(* People. *)

EditIdentity(u) ==
  /\ Change
  /\ \E i \in Identity \cup {Nobody} : identity' = [identity EXCEPT ![u] = i]
  /\ quiet' = FALSE
  /\ UNCHANGED <<disabledField, account, reconciler, policy, faults>>

(* An operator in Navidrome: makes, edits or deletes an account.           *)
EditAccount(u) ==
  /\ Change
  /\ \E a \in Account \cup {Nobody} : account' = [account EXCEPT ![u] = a]
  /\ quiet' = FALSE
  /\ UNCHANGED <<disabledField, identity, reconciler, policy, faults>>

Pass ==
  \/ StartPass \/ ListIdentities \/ ListAccounts \/ PassFails \/ EndPass
  \/ \E op \in ops : Apply(op)

Next ==
  \/ Pass
  \/ \E u \in User : MirrorReads(u) \/ MirrorWrites(u) \/ EditIdentity(u) \/ EditAccount(u)

Spec == Init /\ [][Next]_vars

(* The loop goes on, its requests have a timeout, and so have a policy's.  *)
FairSpec == Spec /\ WF_vars(Pass) /\ \A u \in User : WF_vars(MirrorWrites(u))

-----------------------------------------------------------------------------
(* Who is entitled has an account, with the mail address of Authentik.     *)
Provided(u) ==
  identity[u] # Nobody /\ identity[u].entitled =>
    account[u] # Nobody /\ account[u].email = identity[u].email

(* The account that a user of Authentik should have.  Whether it is on is  *)
(* left open where Navidrome shows that in none of the three fields: there *)
(* every pass asks for each account of the others to be off, never sees    *)
(* that it is, and never turns one on again that is entitled.              *)
Right(u) ==
  /\ Provided(u)
  /\ disabledField # "none" /\ identity[u] # Nobody /\ account[u] # Nobody =>
       (Off(account[u]) <=> ~identity[u].entitled)

(* One pass is enough: after a pass in which nobody edited anything and no *)
(* request failed, every account is as Authentik has its user.             *)
CleanPassIsEnough == pc = "sleep" /\ quiet => \A u \in User : Right(u)

(* Once Authentik rests the accounts become right and stay so, whatever    *)
(* stale plans and passwords wrote, as long as the writers' own account    *)
(* works; a user of that name without the group media would end that.      *)
Converges ==
  []LoggedIn => <>[](\A u \in User : Right(u))
==============================================================================
