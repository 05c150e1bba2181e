---------------------- MODULE NavidromeReconcilerProofs ----------------------
(***************************************************************************)
(* Theorems about NavidromeReconciler, for any users, mail addresses and   *)
(* bounds, under each name of the disabled field and without one.          *)
(***************************************************************************)
EXTENDS NavidromeReconciler, TLAPS

(* The plan still to be carried out for a user is the one for the account  *)
(* as it is, and whoever has no operation left is right.                   *)
Planned(u) ==
  /\ \A op \in ops : op[1] = u => op \in PlanFor(identity, account, u)
  /\ (\A op \in ops : op[1] # u) => Right(u)

(* What a pass in which nothing is edited and nothing fails relies on: the *)
(* policy is not at work, the users it listed are those of Authentik, and  *)
(* its plan is not stale.                                                  *)
QuietInv ==
  quiet => /\ mirroring = {}
           /\ pc = "navidrome" => users = identity
           /\ pc = "apply" => \A u \in User : Planned(u)
           /\ pc = "sleep" => \A u \in User : Right(u)

IInv == TypeOK /\ QuietInv

-----------------------------------------------------------------------------
(* The field of an update, under each of its names.                        *)
LEMMA Values ==
  ASSUME NEW off \in BOOLEAN
  PROVE  /\ DisabledValue(off) \in BOOLEAN
         /\ disabledField = "isActive" => (DisabledValue(off) <=> ~off)
         /\ disabledField # "isActive" => (DisabledValue(off) <=> off)
BY DEF DisabledValue

(* A new account is on.                                                    *)
LEMMA NewAccounts ==
  ASSUME NEW e \in Email, NEW b \in BOOLEAN
  PROVE  /\ NewAccount(e, b) \in Account /\ NewAccount(e, b).email = e
         /\ ~Off(NewAccount(e, b))
<1> DEFINE v == DisabledValue(FALSE)
<1>1. /\ v \in BOOLEAN
      /\ disabledField = "isActive" => v
      /\ disabledField # "isActive" => ~v
  BY Values
<1>2. NewAccount(e, b) = [field |-> v, email |-> e, admin |-> b]
  BY DEF NewAccount
<1> HIDE DEF v
<1>3. NewAccount(e, b) \in Account
  BY <1>1, <1>2 DEF Account
<1>4. NewAccount(e, b).field = v /\ NewAccount(e, b).email = e
  BY <1>2
<1>5. QED
  BY <1>1, <1>3, <1>4 DEF Off

(* An update makes the account off or on, as it is meant to.               *)
LEMMA Payloads ==
  ASSUME NEW e \in Email, NEW off \in BOOLEAN, NEW a \in Account
  PROVE  /\ UpdatePayload(a, e, off) \in Account /\ UpdatePayload(a, e, off).email = e
         /\ Off(UpdatePayload(a, e, off)) <=> off
<1> DEFINE v == DisabledValue(off)
           m == a.admin
<1>1. /\ v \in BOOLEAN /\ m \in BOOLEAN
      /\ disabledField = "isActive" => (v <=> ~off)
      /\ disabledField # "isActive" => (v <=> off)
  BY Values DEF Account
<1>2. UpdatePayload(a, e, off) = [field |-> v, email |-> e, admin |-> m]
  BY DEF UpdatePayload
<1> HIDE DEF v, m
<1>3. UpdatePayload(a, e, off) \in Account
  BY <1>1, <1>2 DEF Account
<1>4. UpdatePayload(a, e, off).field = v /\ UpdatePayload(a, e, off).email = e
  BY <1>2
<1>5. QED
  BY <1>1, <1>3, <1>4 DEF Off

(* What is stored has the mail address that was sent, and is what was sent *)
(* where Navidrome shows the field.                                        *)
LEMMA StoredAccounts ==
  ASSUME TypeOK, NEW u \in User, NEW p \in Account, NEW a \in Stored(u, p)
  PROVE  a \in Account /\ a.email = p.email /\ (disabledField # "none" => a = p)
<1>1. CASE disabledField # "none"
  BY <1>1 DEF Stored
<1>2. CASE disabledField = "none"
  <2>1. account[u] # Nobody => account[u].field \in BOOLEAN
    BY DEF TypeOK, Account
  <2>2. p.field \in BOOLEAN
    BY DEF Account
  <2>3. PICK f \in BOOLEAN : a = [p EXCEPT !.field = f]
    BY <1>2, <2>1, <2>2 DEF Stored
  <2>4. QED
    BY <1>2, <2>3 DEF Account
<1>3. QED
  BY <1>1, <1>2

(* A user's plan has at most one operation; it makes the account right,    *)
(* and without one the account is right.                                   *)
Rights(u, a) ==
  /\ identity[u] # Nobody
  /\ identity[u].entitled => a.email = identity[u].email
  /\ Off(a) <=> ~identity[u].entitled

(* The plan for a user is one operation that makes the account right, or   *)
(* none is needed.                                                         *)
LEMMA PlanIsRight ==
  ASSUME TypeOK, NEW u \in User
  PROVE  \/ PlanFor(identity, account, u) = {} /\ Right(u)
         \/ \E action \in {"create", "update"}, a \in Account :
              PlanFor(identity, account, u) = {<<u, action, a>>} /\ Rights(u, a)
<1> DEFINE i == identity[u]
           a == account[u]
<1>1. i \in Identity \cup {Nobody} /\ a \in Account \cup {Nobody}
  BY DEF TypeOK
<1>2. CASE i = Nobody
  BY <1>2 DEF PlanFor, Right, Provided
<1>3. CASE i # Nobody /\ i.entitled /\ a = Nobody
  <2>1. i.email \in Email
    BY <1>1, <1>3 DEF Identity
  <2>2. PlanFor(identity, account, u) = {<<u, "create", NewAccount(i.email, FALSE)>>}
    BY <1>3 DEF PlanFor
  <2>3. NewAccount(i.email, FALSE) \in Account /\ Rights(u, NewAccount(i.email, FALSE))
    BY <1>3, <2>1, NewAccounts DEF Rights
  <2>4. QED
    BY <2>2, <2>3
<1>4. CASE i # Nobody /\ i.entitled /\ a # Nobody
  <2>1. i.email \in Email /\ a \in Account
    BY <1>1, <1>4 DEF Identity
  <2>2. CASE ResolveDisabled(a) \/ a.email # i.email
    <3>1. PlanFor(identity, account, u) = {<<u, "update", UpdatePayload(a, i.email, FALSE)>>}
      BY <1>4, <2>2 DEF PlanFor
    <3>2. UpdatePayload(a, i.email, FALSE) \in Account /\ Rights(u, UpdatePayload(a, i.email, FALSE))
      BY <1>4, <2>1, Payloads DEF Rights
    <3>3. QED
      BY <3>1, <3>2
  <2>3. CASE ~(ResolveDisabled(a) \/ a.email # i.email)
    <3>1. PlanFor(identity, account, u) = {}
      BY <1>4, <2>3 DEF PlanFor
    <3>2. QED
      BY <1>4, <2>3, <3>1 DEF Right, Provided, ResolveDisabled
  <2>4. QED
    BY <2>2, <2>3
<1>5. CASE i # Nobody /\ ~i.entitled
  <2>1. CASE a # Nobody /\ ~ResolveDisabled(a)
    <3>1. i.email \in Email /\ a \in Account
      BY <1>1, <1>5, <2>1 DEF Identity
    <3>2. PlanFor(identity, account, u) = {<<u, "update", UpdatePayload(a, i.email, TRUE)>>}
      BY <1>5, <2>1 DEF PlanFor
    <3>3. UpdatePayload(a, i.email, TRUE) \in Account /\ Rights(u, UpdatePayload(a, i.email, TRUE))
      BY <1>5, <3>1, Payloads DEF Rights
    <3>4. QED
      BY <3>2, <3>3
  <2>2. CASE ~(a # Nobody /\ ~ResolveDisabled(a))
    <3>1. PlanFor(identity, account, u) = {}
      BY <1>5, <2>2 DEF PlanFor
    <3>2. QED
      BY <1>5, <2>2, <3>1 DEF Right, Provided, ResolveDisabled
  <2>3. QED
    BY <2>1, <2>2
<1>6. QED
  BY <1>2, <1>3, <1>4, <1>5

(* A plan is made of operations, whatever was listed.                      *)
LEMMA PlanIsTyped ==
  ASSUME TypeOK, NEW u \in User
  PROVE  PlanFor(users, account, u) \subseteq User \X {"create", "update"} \X Account
<1> DEFINE i == users[u]
           a == account[u]
           O == User \X {"create", "update"} \X Account
<1>1. i \in Identity \cup {Nobody} /\ a \in Account \cup {Nobody}
  BY DEF TypeOK
<1>2. i # Nobody => i.email \in Email
  BY <1>1 DEF Identity
<1>3. CASE i # Nobody /\ a = Nobody
  <2>1. NewAccount(i.email, FALSE) \in Account
    BY <1>2, <1>3, NewAccounts
  <2>2. <<u, "create", NewAccount(i.email, FALSE)>> \in O
    BY <2>1
  <2>3. PlanFor(users, account, u) \in {{}, {<<u, "create", NewAccount(i.email, FALSE)>>}}
    BY <1>3 DEF PlanFor
  <2> HIDE DEF O
  <2>4. PlanFor(users, account, u) \subseteq O
    BY <2>2, <2>3
  <2>5. QED
    BY <2>4 DEF O
<1>4. CASE i # Nobody /\ a # Nobody
  <2>1. UpdatePayload(a, i.email, FALSE) \in Account /\ UpdatePayload(a, i.email, TRUE) \in Account
    BY <1>1, <1>2, <1>4, Payloads
  <2>2. /\ <<u, "update", UpdatePayload(a, i.email, FALSE)>> \in O
        /\ <<u, "update", UpdatePayload(a, i.email, TRUE)>> \in O
    BY <2>1
  <2>3. PlanFor(users, account, u) \in {{}, {<<u, "update", UpdatePayload(a, i.email, FALSE)>>},
                                             {<<u, "update", UpdatePayload(a, i.email, TRUE)>>}}
    BY <1>4 DEF PlanFor
  <2> HIDE DEF O
  <2>4. PlanFor(users, account, u) \subseteq O
    BY <2>2, <2>3
  <2>5. QED
    BY <2>4 DEF O
<1>5. CASE i = Nobody
  BY <1>5 DEF PlanFor
<1>6. QED
  BY <1>3, <1>4, <1>5

(* Faults and edits are within their bounds.                               *)
LEMMA FaultIsCounted ==
  ASSUME TypeOK
  PROVE  /\ Fault => faults' \in 0..MaxFaults
         /\ Change => changes' \in 0..MaxChanges
<1>1. faults \in 0..MaxFaults /\ changes \in 0..MaxChanges /\ MaxFaults \in Nat /\ MaxChanges \in Nat
  BY BoundsAssumption DEF TypeOK
<1>2. QED
  BY <1>1 DEF Fault, Change

-----------------------------------------------------------------------------
LEMMA InitInv == Init => IInv
<1> SUFFICES ASSUME Init PROVE IInv
  OBVIOUS
<1> USE DEF Init
<1>1. NewAccount(CHOOSE e \in Email : TRUE, TRUE) \in Account
  <2>1. (CHOOSE e \in Email : TRUE) \in Email
    BY UserAssumption
  <2>2. QED
    BY <2>1, NewAccounts
<1>2. account \in [User -> Account \cup {Nobody}]
  <2> DEFINE automation == NewAccount(CHOOSE e \in Email : TRUE, TRUE)
  <2>1. account = [u \in User |-> IF u = ApiUser THEN automation ELSE Nobody]
    OBVIOUS
  <2> HIDE DEF automation, Init
  <2>2. QED
    BY <1>1, <2>1 DEF automation
<1> HIDE DEF Init
<1>3. changes \in 0..MaxChanges /\ faults \in 0..MaxFaults
  BY BoundsAssumption DEF Init
<1>4. TypeOK
  BY <1>2, <1>3 DEF Init, TypeOK
<1>5. QED
  BY <1>4 DEF Init, QuietInv, IInv

(* One operation of the plan: the account becomes right, and the others'   *)
(* operations are still the right ones.                                    *)
LEMMA ApplyKeeps ==
  ASSUME IInv, NEW op \in ops, Apply(op)
  PROVE  IInv'
<1> USE DEF Apply
<1>1. op \in User \X {"create", "update"} \X Account /\ op[1] \in User /\ op[3] \in Account
  BY DEF IInv, TypeOK
<1>2. /\ pc = "apply" /\ ops' = ops \ {op}
      /\ UNCHANGED <<disabledField, identity, pc, users, policy, changes>>
      /\ \/ account' = account
         \/ \E a \in Stored(op[1], op[3]) : account' = [account EXCEPT ![op[1]] = a]
      /\ \/ quiet' = quiet /\ \E a \in Stored(op[1], op[3]) : account' = [account EXCEPT ![op[1]] = a]
         \/ quiet' = FALSE
  OBVIOUS
<1>3. faults' \in 0..MaxFaults
  BY FaultIsCounted DEF IInv, TypeOK
<1>4. TypeOK'
  <2>1. \A a \in Stored(op[1], op[3]) : a \in Account
    BY <1>1, StoredAccounts DEF IInv
  <2>2. QED
    BY <1>1, <1>2, <1>3, <2>1 DEF IInv, TypeOK, policy
<1> HIDE DEF Apply
<1>5. ASSUME quiet', NEW u \in User PROVE Planned(u)'
  <2>1. Planned(u) /\ Planned(op[1])
    BY <1>1, <1>2, <1>5 DEF IInv, QuietInv
  <2>2. CASE u = op[1]
    <3>1. op \in PlanFor(identity, account, u)
      BY <2>1, <2>2 DEF Planned
    <3>2. PICK action \in {"create", "update"}, a \in Account :
            PlanFor(identity, account, u) = {<<u, action, a>>} /\ Rights(u, a)
      BY <3>1, PlanIsRight DEF IInv
    <3> op = <<u, action, a>>
      BY <3>1, <3>2
    <3>3. \A o \in ops' : o[1] # u
      BY <1>2, <2>1, <3>2 DEF Planned
    <3>4. PICK stored \in Stored(u, a) : account' = [account EXCEPT ![u] = stored]
      BY <1>2, <1>5, <2>2
    <3>5. /\ account'[u] = stored /\ stored # Nobody /\ stored.email = a.email
          /\ disabledField # "none" => stored = a
      BY <3>2, <3>4, StoredAccounts, NobodyAssumption DEF IInv, TypeOK
    <3>6. Right(u)'
      BY <1>2, <3>2, <3>5 DEF Right, Provided, Rights, Off
    <3>7. QED
      BY <3>3, <3>6 DEF Planned
  <2>3. CASE u # op[1]
    <3>1. account'[u] = account[u]
      BY <1>1, <1>2, <2>3 DEF IInv, TypeOK
    <3>2. /\ PlanFor(identity, account, u)' = PlanFor(identity, account, u)
          /\ Right(u)' <=> Right(u)
      BY <1>2, <3>1 DEF PlanFor, NewAccount, UpdatePayload, DisabledValue, ResolveDisabled, Off, Right, Provided
    <3>3. QED
      BY <1>2, <2>1, <2>3, <3>2 DEF Planned
  <2>4. QED
    BY <2>2, <2>3
<1>6. QuietInv'
  BY <1>2, <1>5 DEF IInv, QuietInv, policy
<1>7. QED
  BY <1>4, <1>6 DEF IInv

(* The listing of the accounts, from which the plan is made.               *)
LEMMA ListAccountsKeeps ==
  ASSUME IInv, ListAccounts
  PROVE  IInv'
<1> USE DEF ListAccounts, people, policy
<1>1. TypeOK'
  <2>1. ops' \subseteq User \X {"create", "update"} \X Account
    BY PlanIsTyped DEF IInv
  <2>2. QED
    BY <2>1 DEF IInv, TypeOK
<1>2. ASSUME quiet, NEW u \in User PROVE Planned(u)'
  <2>1. ops' = UNION {PlanFor(identity, account, v) : v \in User}
    BY <1>2 DEF IInv, QuietInv
  <2>2. ASSUME NEW v \in User, NEW op \in PlanFor(identity, account, v) PROVE op[1] = v
    <3>1. PICK action \in {"create", "update"}, a \in Account :
            PlanFor(identity, account, v) = {<<v, action, a>>}
      BY <2>2, PlanIsRight DEF IInv
    <3>2. op = <<v, action, a>>
      BY <2>2, <3>1
    <3>3. QED
      BY <3>2
  <2>3. \A op \in ops' : op[1] = u => op \in PlanFor(identity, account, u)
    BY <2>1, <2>2
  <2>4. PlanFor(identity, account, u) # {} => \E op \in ops' : op[1] = u
    BY <2>1, <2>2
  <2>5. (\A op \in ops' : op[1] # u) => Right(u)
    BY <2>4, PlanIsRight DEF IInv
  <2>6. /\ PlanFor(identity, account, u)' = PlanFor(identity, account, u)
        /\ Right(u)' <=> Right(u)
    BY DEF PlanFor, NewAccount, UpdatePayload, DisabledValue, ResolveDisabled, Off, Right, Provided
  <2>7. QED
    BY <2>3, <2>5, <2>6 DEF Planned
<1>3. QuietInv'
  BY <1>2 DEF IInv, QuietInv
<1>4. QED
  BY <1>1, <1>3 DEF IInv

(* The other steps of a pass.                                              *)
LEMMA PassKeeps ==
  ASSUME IInv, StartPass \/ ListIdentities \/ PassFails \/ EndPass
  PROVE  IInv'
<1> USE DEF people, policy
<1>1. \A u \in User : UNCHANGED <<account, identity, disabledField>> => (Right(u)' <=> Right(u))
  BY DEF Right, Provided, Off
<1>2. CASE StartPass
  BY <1>2 DEF StartPass, IInv, TypeOK, QuietInv
<1>3. CASE ListIdentities
  BY <1>3 DEF ListIdentities, IInv, TypeOK, QuietInv
<1>4. CASE PassFails
  <2>1. faults' \in 0..MaxFaults
    BY <1>4, FaultIsCounted DEF PassFails, IInv, TypeOK
  <2>2. QED
    BY <1>4, <2>1 DEF PassFails, IInv, TypeOK, QuietInv
<1>5. CASE EndPass
  <2>1. quiet => \A u \in User : Right(u)
    BY <1>5 DEF EndPass, IInv, QuietInv, Planned
  <2>2. TypeOK'
    BY <1>5 DEF EndPass, IInv, TypeOK
  <2>3. QED
    BY <1>1, <1>5, <2>1, <2>2 DEF EndPass, IInv, QuietInv
<1>6. QED
  BY <1>2, <1>3, <1>4, <1>5

(* The policy and people: they end the quiet, and leave accounts typed.    *)
LEMMA OthersKeep ==
  ASSUME IInv, NEW u \in User,
         MirrorReads(u) \/ MirrorWrites(u) \/ EditIdentity(u) \/ EditAccount(u)
  PROVE  IInv'
<1> USE DEF people, policy, reconciler
<1>1. quiet' = FALSE
  BY DEF MirrorReads, MirrorWrites, EditIdentity, EditAccount
<1>2. Change => changes' \in 0..MaxChanges
  BY FaultIsCounted DEF IInv
<1>3. CASE MirrorReads(u)
  BY <1>2, <1>3 DEF MirrorReads, IInv, TypeOK, QuietInv
<1>4. CASE MirrorWrites(u)
  <2>1. faults' \in 0..MaxFaults
    BY <1>4, FaultIsCounted DEF MirrorWrites, IInv, TypeOK
  <2>2. ASSUME seen[u] # Nobody, account[u] # Nobody, NEW a \in Mirrored(u) PROVE a \in Account
    <3>1. seen[u] \in Account /\ account[u] \in Account
      BY <2>2 DEF IInv, TypeOK
    <3>2. identity[u] # Nobody => identity[u].email \in Email
      BY DEF IInv, TypeOK, Identity
    <3>3. DisabledValue(FALSE) \in BOOLEAN
      BY Values
    <3>4. QED
      BY <2>2, <3>1, <3>2, <3>3 DEF Mirrored, Account
  <2>3. \A e \in Email : NewAccount(e, FALSE) \in Account
    BY NewAccounts
  <2>4. account' \in [User -> Account \cup {Nobody}]
    BY <1>4, <2>2, <2>3 DEF MirrorWrites, IInv, TypeOK
  <2>5. QED
    BY <1>1, <1>4, <2>1, <2>4 DEF MirrorWrites, IInv, TypeOK, QuietInv
<1>5. CASE EditIdentity(u)
  BY <1>2, <1>5 DEF EditIdentity, IInv, TypeOK, QuietInv
<1>6. CASE EditAccount(u)
  BY <1>2, <1>6 DEF EditAccount, IInv, TypeOK, QuietInv
<1>7. QED
  BY <1>3, <1>4, <1>5, <1>6

(* The inductive invariant.                                                *)
THEOREM InvHolds == Spec => []IInv
<1>1. IInv /\ [Next]_vars => IInv'
  <2> SUFFICES ASSUME IInv, [Next]_vars PROVE IInv'
    OBVIOUS
  <2>1. CASE Next
    BY <2>1, ApplyKeeps, ListAccountsKeeps, PassKeeps, OthersKeep DEF Next, Pass
  <2>2. CASE UNCHANGED vars
    <3>1. \A u \in User : Planned(u)' <=> Planned(u)
      BY <2>2 DEF vars, people, reconciler, Planned, PlanFor, NewAccount, UpdatePayload, DisabledValue,
                  ResolveDisabled, Off, Right, Provided
    <3>2. \A u \in User : Right(u)' <=> Right(u)
      BY <2>2 DEF vars, people, Right, Provided, Off
    <3>3. QED
      BY <2>2, <3>1, <3>2 DEF vars, people, reconciler, policy, IInv, TypeOK, QuietInv
  <2>3. QED
    BY <2>1, <2>2
<1>2. QED
  BY <1>1, InitInv, PTL DEF Spec

(* The accounts, the plan and what the policy remembers are well typed.    *)
THEOREM TypeCorrect == Spec => []TypeOK
<1>1. IInv => TypeOK
  BY DEF IInv
<1>2. QED
  BY <1>1, InvHolds, PTL

(* After a pass in which nobody edited anything and no request failed,     *)
(* every account is as Authentik has its user; whether it is on only where *)
(* Navidrome shows that in one of the three fields.                        *)
THEOREM CleanPassCorrect == Spec => []CleanPassIsEnough
<1>1. IInv => CleanPassIsEnough
  BY DEF IInv, QuietInv, CleanPassIsEnough
<1>2. QED
  BY <1>1, InvHolds, PTL
==============================================================================
