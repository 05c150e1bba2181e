------------------------- MODULE VaultWorkflowProofs -------------------------
(***************************************************************************)
(* Proofs about VaultWorkflow, for any rotations, changes and number of    *)
(* faults.  What holds after a step depends on where the only operation    *)
(* under way is, so the invariant says what each place implies.            *)
(***************************************************************************)
EXTENDS VaultWorkflow, TLAPS

(* The operation has not yet printed how it ended. *)
Working(p) == pc[p] \notin {"idle", "exit", "cleanup", "done", "dead"}

(* vault.yml has the new key, and only vault.yml need have it. *)
Rolling(p) ==
  \/ pc[p] \in {"rekeyed", "verify", "publish", "published"}
  \/ pc[p] = "exit" /\ state[p] = "rekeyed"

(* Bitwarden has it too. *)
Forward(p) ==
  pc[p] \in {"apply", "check"} \/ (pc[p] = "exit" /\ state[p] = "live-may-be-new")

(* One operation is under way, at most. *)
Alone == \A p, q \in Op : ~Over(p) /\ ~Over(q) => p = q

(* A rotation and a change take different steps. *)
KindInv ==
  /\ \A p \in Rotation : pc[p] \notin {"stage", "encrypt", "replace"}
  /\ \A m \in Mutation :
       /\ pc[m] \in {"idle", "stage", "encrypt", "replace", "exit", "cleanup", "done", "dead"}
       /\ state[m] = ""

(* What the script has noted, and printed, at each place. *)
StateAt(p) ==
  /\ pc[p] \in {"idle", "generate", "backup", "rekey", "rekeyed", "cleanup", "done"}
       => state[p] = ""
  /\ pc[p] \in {"verify", "publish", "published"} => state[p] = "rekeyed"
  /\ pc[p] \in {"apply", "check"} => state[p] = "live-may-be-new"

OutcomeAt(p) ==
  /\ Working(p) \/ pc[p] = "idle" => outcome[p] = ""
  /\ pc[p] = "exit" => outcome[p] = "" \/ (outcome[p] = "pass" /\ state[p] = "")

StateInv == \A p \in Op : StateAt(p) /\ OutcomeAt(p)

(* What a rotation may rely on at each place: the files and its own copies. *)
RotationAt(p) ==
  /\ Rolling(p) \/ Forward(p) \/ pc[p] \in {"backup", "rekey"} => fresh[p] = p
  /\ Rolling(p) \/ Forward(p) => vault.key = p
  /\ pc[p] = "rekey" => copy[p] = vault
  /\ Rolling(p) \/ pc[p] = "rekey" => copy[p] \in backups
  /\ Rolling(p) => copy[p].content = vault.content /\ copy[p].key = live
  /\ Forward(p) \/ pc[p] = "published" => bitwarden = p

(* What a change may rely on: nothing else touches vault.yml meanwhile. *)
MutationAt(m) ==
  /\ pc[m] \in {"encrypt", "replace"} =>
       /\ copy[m] \in Ciphertext
       /\ vault.key = live /\ vault.content \subseteq copy[m].content
  /\ pc[m] = "replace" => copy[m].key = live /\ m \in copy[m].content

PlaceInv ==
  /\ \A p \in Rotation : RotationAt(p)
  /\ \A m \in Mutation : MutationAt(m)

(* The passphrase that Bitwarden has is not one whose rotation was rolled back. *)
Unpublished == \A p \in Rotation : bitwarden = p => outcome[p] # "rolled back"

(* Bitwarden opens vault.yml, or both it and the live file open a backup. *)
KeyInv ==
  Unpublished =>
    vault.key = bitwarden \/ (live = bitwarden /\ \E c \in backups : c.key = live)

IInv ==
  /\ TypeOK /\ Alone /\ KindInv /\ StateInv
  /\ PlaceInv /\ KeyInv /\ ChangesSurvive

-----------------------------------------------------------------------------
(* While an operation is under way, every other one is over. *)
LEMMA OthersAreOver ==
  ASSUME IInv, NEW p \in Op, ~Over(p)
  PROVE  \A q \in Op : q # p => Over(q)
BY DEF IInv, Alone

(* An operation that is over, and stays where it is, has nothing to keep. *)
LEMMA OthersAtRest ==
  ASSUME NEW p,
         \A q \in Op : q # p => Over(q) /\ pc'[q] = pc[q],
         p \in Rotation => RotationAt(p)', p \in Mutation => MutationAt(p)'
  PROVE  PlaceInv'
<1>1. ASSUME NEW q \in Op, q # p
      PROVE  pc'[q] \in {"idle", "done", "dead"}
  BY <1>1 DEF Over
<1>2. QED
  BY <1>1 DEF Op, PlaceInv, RotationAt, MutationAt, Rolling, Forward

(* A fault is within its bound. *)
LEMMA FaultIsCounted ==
  ASSUME TypeOK, Fault
  PROVE  faults' \in 0..MaxFaults
<1>1. faults \in 0..MaxFaults /\ MaxFaults \in Nat
  BY ConstantsOK DEF TypeOK
<1>2. QED
  BY <1>1 DEF Fault

(* An operation begins when every other one is over. *)
LEMMA BeginKeeps ==
  ASSUME IInv, NEW p \in Op, Begin(p)
  PROVE  IInv'
<1> USE DEF Goto, files
<1>1. p \in Op /\ Over(p)
  BY DEF Op, Over, Begin
<1>2. \A q \in Op : q # p => Over(q)
  BY DEF Begin
<1>3. /\ TypeOK /\ StateAt(p) /\ OutcomeAt(p) /\ KeyInv
      /\ ChangesSurvive
      /\ p \in Rotation => p \in Key /\ p \notin Mutation
      /\ p \in Rotation => RotationAt(p)
      /\ p \in Mutation => MutationAt(p)
  BY <1>1, ConstantsOK DEF IInv, StateInv, PlaceInv, Key
<1>4. \A q \in Op : q # p => /\ pc'[q] = pc[q] /\ state'[q] = state[q]
                            /\ outcome'[q] = outcome[q]
  BY <1>1, <1>3 DEF TypeOK, Begin
<1>5. TypeOK'
  <2>1. Fault => faults' \in 0..MaxFaults
    BY <1>3, FaultIsCounted
  <2>2. QED
    BY <1>1, <1>3, <2>1 DEF TypeOK, Location, Begin
<1>6. Alone'
  BY <1>2, <1>4 DEF Alone, Over
<1>7. KindInv'
  BY <1>1, <1>3, ConstantsOK DEF IInv, TypeOK, KindInv, Op, Begin
<1>8. StateInv'
  <2>1. StateAt(p)' /\ OutcomeAt(p)'
    BY <1>1, <1>3 DEF TypeOK, StateAt, OutcomeAt, Working, Begin
  <2>2. QED
    BY <1>4, <2>1 DEF IInv, StateInv, StateAt, OutcomeAt, Working
<1>9. PlaceInv'
  <2>1. p \in Rotation => RotationAt(p)'
    BY <1>1, <1>3 DEF TypeOK, StateAt, OutcomeAt, RotationAt, Rolling,
       Forward, Begin
  <2>2. p \in Mutation => MutationAt(p)'
    BY <1>1, <1>3 DEF IInv, KindInv, TypeOK, MutationAt, Ciphertext, Begin
  <2>3. QED
    BY <1>2, <1>3, <1>4, <2>1, <2>2, OthersAtRest
<1>10. KeyInv'
  BY <1>1, <1>3, <1>4 DEF TypeOK, OutcomeAt, KeyInv, Unpublished, Working, Op,
     Begin
<1>11. ChangesSurvive'
  BY <1>1, <1>3, <1>4 DEF TypeOK, OutcomeAt, ChangesSurvive, Working, Op,
     Begin
<1>12. QED
  BY <1>5, <1>6, <1>7, <1>8, <1>9, <1>10, <1>11 DEF IInv

(* The new passphrase is the rotation's own. *)
LEMMA GeneratePassphraseKeeps ==
  ASSUME IInv, NEW p \in Rotation, GeneratePassphrase(p)
  PROVE  IInv'
<1> USE DEF Goto, files
<1>1. p \in Op /\ ~Over(p)
  BY DEF Op, Over, GeneratePassphrase, GiveUp
<1>2. \A q \in Op : q # p => Over(q)
  BY <1>1, OthersAreOver
<1>3. /\ TypeOK /\ StateAt(p) /\ OutcomeAt(p) /\ KeyInv
      /\ ChangesSurvive /\ RotationAt(p)
      /\ p \in Key /\ p \notin Mutation
  BY <1>1, ConstantsOK DEF IInv, StateInv, PlaceInv, Key
<1>4. \A q \in Op : q # p => /\ pc'[q] = pc[q] /\ state'[q] = state[q]
                            /\ outcome'[q] = outcome[q]
  BY <1>1, <1>3 DEF TypeOK, GeneratePassphrase, GiveUp
<1>5. TypeOK'
  <2>1. Fault => faults' \in 0..MaxFaults
    BY <1>3, FaultIsCounted
  <2>2. QED
    BY <1>1, <1>3, <2>1 DEF TypeOK, Location, GeneratePassphrase, GiveUp
<1>6. Alone'
  BY <1>2, <1>4 DEF Alone, Over
<1>7. KindInv'
  BY <1>1, <1>3, ConstantsOK DEF IInv, TypeOK, KindInv, Op,
     GeneratePassphrase, GiveUp
<1>8. StateInv'
  <2>1. StateAt(p)' /\ OutcomeAt(p)'
    BY <1>1, <1>3 DEF TypeOK, StateAt, OutcomeAt, Working, GeneratePassphrase,
       GiveUp
  <2>2. QED
    BY <1>4, <2>1 DEF IInv, StateInv, StateAt, OutcomeAt, Working
<1>9. PlaceInv'
  <2>1. RotationAt(p)'
    BY <1>1, <1>3 DEF TypeOK, StateAt, OutcomeAt, RotationAt, Rolling,
       Forward, GeneratePassphrase, GiveUp
  <2>2. QED
    BY <1>2, <1>3, <1>4, <2>1, OthersAtRest
<1>10. KeyInv'
  BY <1>1, <1>3, <1>4 DEF TypeOK, OutcomeAt, KeyInv, Unpublished, Working, Op,
     GeneratePassphrase, GiveUp
<1>11. ChangesSurvive'
  BY <1>1, <1>3, <1>4 DEF TypeOK, OutcomeAt, ChangesSurvive, Working, Op,
     GeneratePassphrase, GiveUp
<1>12. QED
  BY <1>5, <1>6, <1>7, <1>8, <1>9, <1>10, <1>11 DEF IInv

(* The backup is vault.yml as it is, and stays so until the rekey. *)
LEMMA BackUpKeeps ==
  ASSUME IInv, NEW p \in Rotation, BackUp(p)
  PROVE  IInv'
<1> USE DEF Goto, files
<1>1. p \in Op /\ ~Over(p)
  BY DEF Op, Over, BackUp, GiveUp
<1>2. \A q \in Op : q # p => Over(q)
  BY <1>1, OthersAreOver
<1>3. /\ TypeOK /\ StateAt(p) /\ OutcomeAt(p) /\ KeyInv
      /\ ChangesSurvive /\ RotationAt(p)
      /\ p \in Key /\ p \notin Mutation
  BY <1>1, ConstantsOK DEF IInv, StateInv, PlaceInv, Key
<1>4. \A q \in Op : q # p => /\ pc'[q] = pc[q] /\ state'[q] = state[q]
                            /\ outcome'[q] = outcome[q]
  BY <1>1, <1>3 DEF TypeOK, BackUp, GiveUp
<1>5. TypeOK'
  <2>1. Fault => faults' \in 0..MaxFaults
    BY <1>3, FaultIsCounted
  <2>2. QED
    BY <1>1, <1>3, <2>1 DEF TypeOK, Location, RotationAt, BackUp, GiveUp
<1>6. Alone'
  BY <1>2, <1>4 DEF Alone, Over
<1>7. KindInv'
  BY <1>1, <1>3, ConstantsOK DEF IInv, TypeOK, KindInv, Op, BackUp, GiveUp
<1>8. StateInv'
  <2>1. StateAt(p)' /\ OutcomeAt(p)'
    BY <1>1, <1>3 DEF TypeOK, StateAt, OutcomeAt, Working, BackUp, GiveUp
  <2>2. QED
    BY <1>4, <2>1 DEF IInv, StateInv, StateAt, OutcomeAt, Working
<1>9. PlaceInv'
  <2>1. RotationAt(p)'
    BY <1>1, <1>3 DEF TypeOK, StateAt, OutcomeAt, RotationAt, Rolling,
       Forward, BackUp, GiveUp
  <2>2. QED
    BY <1>2, <1>3, <1>4, <2>1, OthersAtRest
<1>10. KeyInv'
  BY <1>1, <1>3, <1>4 DEF TypeOK, OutcomeAt, KeyInv, Unpublished, Working, Op,
     BackUp, GiveUp
<1>11. ChangesSurvive'
  BY <1>1, <1>3, <1>4 DEF TypeOK, OutcomeAt, ChangesSurvive, Working, Op,
     BackUp, GiveUp
<1>12. QED
  BY <1>5, <1>6, <1>7, <1>8, <1>9, <1>10, <1>11 DEF IInv

(* From the rekey on, the backup is what the live file opens. *)
LEMMA RekeyKeeps ==
  ASSUME IInv, NEW p \in Rotation, Rekey(p)
  PROVE  IInv'
<1> USE DEF Goto, files
<1>1. p \in Op /\ ~Over(p)
  BY DEF Op, Over, Rekey, Rekeys, GiveUp, LiveOpens
<1>2. \A q \in Op : q # p => Over(q)
  BY <1>1, OthersAreOver
<1>3. /\ TypeOK /\ StateAt(p) /\ OutcomeAt(p) /\ KeyInv
      /\ ChangesSurvive /\ RotationAt(p)
      /\ p \in Key /\ p \notin Mutation
  BY <1>1, ConstantsOK DEF IInv, StateInv, PlaceInv, Key
<1>4. \A q \in Op : q # p => /\ pc'[q] = pc[q] /\ state'[q] = state[q]
                            /\ outcome'[q] = outcome[q]
  BY <1>1, <1>3 DEF TypeOK, Rekey, Rekeys, GiveUp, LiveOpens
<1>5. TypeOK'
  <2>1. Fault => faults' \in 0..MaxFaults
    BY <1>3, FaultIsCounted
  <2>2. QED
    BY <1>1, <1>3, <2>1 DEF TypeOK, Location, RotationAt, Ciphertext, Rekey,
       Rekeys, GiveUp, LiveOpens
<1>6. Alone'
  BY <1>2, <1>4 DEF Alone, Over
<1>7. KindInv'
  BY <1>1, <1>3, ConstantsOK DEF IInv, TypeOK, KindInv, Op, Rekey, Rekeys,
     GiveUp, LiveOpens
<1>8. StateInv'
  <2>1. StateAt(p)' /\ OutcomeAt(p)'
    BY <1>1, <1>3 DEF TypeOK, StateAt, OutcomeAt, Working, Rekey, Rekeys,
       GiveUp, LiveOpens
  <2>2. QED
    BY <1>4, <2>1 DEF IInv, StateInv, StateAt, OutcomeAt, Working
<1>9. PlaceInv'
  <2>1. RotationAt(p)'
    <3>1. CASE vault' = vault /\ pc'[p] = "exit"
      BY <1>1, <1>3, <3>1 DEF TypeOK, StateAt, RotationAt, Rolling, Forward,
         Rekey, Rekeys, GiveUp
    <3>2. CASE Rekeys(p) /\ pc'[p] = "rekeyed" /\ UNCHANGED <<state, fresh, copy>>
      <4>1. vault'.key = p /\ vault'.content = vault.content /\ live = vault.key
        BY <1>1, <1>3, <3>2
           DEF TypeOK, Ciphertext, RotationAt, Rekey, Rekeys, GiveUp, LiveOpens
      <4>2. QED
        BY <1>3, <3>2, <4>1 DEF RotationAt, Rolling, Forward, Rekey, Rekeys
    <3>3. QED
      BY <1>1, <1>3, <3>1, <3>2 DEF TypeOK, Rekey, GiveUp
  <2>2. QED
    BY <1>2, <1>3, <1>4, <2>1, OthersAtRest
<1>10. KeyInv'
  <2>1. CASE vault' = vault
    BY <1>1, <1>3, <1>4, <2>1
       DEF TypeOK, OutcomeAt, KeyInv, Unpublished, Working, Op, Rekey, Rekeys, GiveUp
  <2>2. CASE vault' # vault
    <3>1. /\ bitwarden' = bitwarden /\ live' = live /\ backups' = backups
          /\ outcome' = outcome /\ live = vault.key
          /\ \E c \in backups : c.key = live
      BY <1>1, <1>3, <2>2 DEF Rekey, Rekeys, GiveUp, LiveOpens, RotationAt
    <3>2. QED
      BY <1>3, <3>1 DEF KeyInv, Unpublished
  <2>3. QED
    BY <2>1, <2>2
<1>11. ChangesSurvive'
  <2>1. vault'.content = vault.content /\ outcome' = outcome
    BY <1>3 DEF TypeOK, Ciphertext, Rekey, Rekeys, GiveUp
  <2>2. QED
    BY <1>3, <2>1 DEF ChangesSurvive
<1>12. QED
  BY <1>5, <1>6, <1>7, <1>8, <1>9, <1>10, <1>11 DEF IInv

(* The script notes that vault.yml has the new key. *)
LEMMA MarkRekeyedKeeps ==
  ASSUME IInv, NEW p \in Rotation, MarkRekeyed(p)
  PROVE  IInv'
<1> USE DEF Goto, files
<1>1. p \in Op /\ ~Over(p)
  BY DEF Op, Over, MarkRekeyed
<1>2. \A q \in Op : q # p => Over(q)
  BY <1>1, OthersAreOver
<1>3. /\ TypeOK /\ StateAt(p) /\ OutcomeAt(p) /\ KeyInv
      /\ ChangesSurvive /\ RotationAt(p)
      /\ p \in Key /\ p \notin Mutation
  BY <1>1, ConstantsOK DEF IInv, StateInv, PlaceInv, Key
<1>4. \A q \in Op : q # p => /\ pc'[q] = pc[q] /\ state'[q] = state[q]
                            /\ outcome'[q] = outcome[q]
  BY <1>1, <1>3 DEF TypeOK, MarkRekeyed
<1>5. TypeOK'
  <2>1. Fault => faults' \in 0..MaxFaults
    BY <1>3, FaultIsCounted
  <2>2. QED
    BY <1>1, <1>3, <2>1 DEF TypeOK, Location, MarkRekeyed
<1>6. Alone'
  BY <1>2, <1>4 DEF Alone, Over
<1>7. KindInv'
  BY <1>1, <1>3, ConstantsOK DEF IInv, TypeOK, KindInv, Op, MarkRekeyed
<1>8. StateInv'
  <2>1. StateAt(p)' /\ OutcomeAt(p)'
    BY <1>1, <1>3 DEF TypeOK, StateAt, OutcomeAt, Working, MarkRekeyed
  <2>2. QED
    BY <1>4, <2>1 DEF IInv, StateInv, StateAt, OutcomeAt, Working
<1>9. PlaceInv'
  <2>1. RotationAt(p)'
    BY <1>1, <1>3 DEF TypeOK, StateAt, OutcomeAt, RotationAt, Rolling,
       Forward, MarkRekeyed
  <2>2. QED
    BY <1>2, <1>3, <1>4, <2>1, OthersAtRest
<1>10. KeyInv'
  BY <1>1, <1>3, <1>4 DEF TypeOK, OutcomeAt, KeyInv, Unpublished, Working, Op,
     MarkRekeyed
<1>11. ChangesSurvive'
  BY <1>1, <1>3, <1>4 DEF TypeOK, OutcomeAt, ChangesSurvive, Working, Op,
     MarkRekeyed
<1>12. QED
  BY <1>5, <1>6, <1>7, <1>8, <1>9, <1>10, <1>11 DEF IInv

(* Verifying changes no file. *)
LEMMA VerifyNewKeeps ==
  ASSUME IInv, NEW p \in Rotation, VerifyNew(p)
  PROVE  IInv'
<1> USE DEF Goto, files
<1>1. p \in Op /\ ~Over(p)
  BY DEF Op, Over, VerifyNew, GiveUp
<1>2. \A q \in Op : q # p => Over(q)
  BY <1>1, OthersAreOver
<1>3. /\ TypeOK /\ StateAt(p) /\ OutcomeAt(p) /\ KeyInv
      /\ ChangesSurvive /\ RotationAt(p)
      /\ p \in Key /\ p \notin Mutation
  BY <1>1, ConstantsOK DEF IInv, StateInv, PlaceInv, Key
<1>4. \A q \in Op : q # p => /\ pc'[q] = pc[q] /\ state'[q] = state[q]
                            /\ outcome'[q] = outcome[q]
  BY <1>1, <1>3 DEF TypeOK, VerifyNew, GiveUp
<1>5. TypeOK'
  <2>1. Fault => faults' \in 0..MaxFaults
    BY <1>3, FaultIsCounted
  <2>2. QED
    BY <1>1, <1>3, <2>1 DEF TypeOK, Location, VerifyNew, GiveUp
<1>6. Alone'
  BY <1>2, <1>4 DEF Alone, Over
<1>7. KindInv'
  BY <1>1, <1>3, ConstantsOK DEF IInv, TypeOK, KindInv, Op, VerifyNew, GiveUp
<1>8. StateInv'
  <2>1. StateAt(p)' /\ OutcomeAt(p)'
    BY <1>1, <1>3 DEF TypeOK, StateAt, OutcomeAt, Working, VerifyNew, GiveUp
  <2>2. QED
    BY <1>4, <2>1 DEF IInv, StateInv, StateAt, OutcomeAt, Working
<1>9. PlaceInv'
  <2>1. RotationAt(p)'
    BY <1>1, <1>3 DEF TypeOK, StateAt, OutcomeAt, RotationAt, Rolling,
       Forward, VerifyNew, GiveUp
  <2>2. QED
    BY <1>2, <1>3, <1>4, <2>1, OthersAtRest
<1>10. KeyInv'
  BY <1>1, <1>3, <1>4 DEF TypeOK, OutcomeAt, KeyInv, Unpublished, Working, Op,
     VerifyNew, GiveUp
<1>11. ChangesSurvive'
  BY <1>1, <1>3, <1>4 DEF TypeOK, OutcomeAt, ChangesSurvive, Working, Op,
     VerifyNew, GiveUp
<1>12. QED
  BY <1>5, <1>6, <1>7, <1>8, <1>9, <1>10, <1>11 DEF IInv

(* Bitwarden gets the key that vault.yml has, or keeps its own. *)
LEMMA PublishToBitwardenKeeps ==
  ASSUME IInv, NEW p \in Rotation, PublishToBitwarden(p)
  PROVE  IInv'
<1> USE DEF Goto, files
<1>1. p \in Op /\ ~Over(p)
  BY DEF Op, Over, PublishToBitwarden, Command, GiveUp
<1>2. \A q \in Op : q # p => Over(q)
  BY <1>1, OthersAreOver
<1>3. /\ TypeOK /\ StateAt(p) /\ OutcomeAt(p) /\ KeyInv
      /\ ChangesSurvive /\ RotationAt(p)
      /\ p \in Key /\ p \notin Mutation
  BY <1>1, ConstantsOK DEF IInv, StateInv, PlaceInv, Key
<1>4. \A q \in Op : q # p => /\ pc'[q] = pc[q] /\ state'[q] = state[q]
                            /\ outcome'[q] = outcome[q]
  BY <1>1, <1>3 DEF TypeOK, PublishToBitwarden, Command, GiveUp
<1>5. TypeOK'
  <2>1. Fault => faults' \in 0..MaxFaults
    BY <1>3, FaultIsCounted
  <2>2. bitwarden' \in Key
    BY <1>3 DEF TypeOK, RotationAt, Rolling, PublishToBitwarden, Command
  <2>3. QED
    BY <1>1, <1>3, <2>1, <2>2 DEF TypeOK, Location, PublishToBitwarden,
       Command, GiveUp
<1>6. Alone'
  BY <1>2, <1>4 DEF Alone, Over
<1>7. KindInv'
  BY <1>1, <1>3, ConstantsOK DEF IInv, TypeOK, KindInv, Op,
     PublishToBitwarden, Command, GiveUp
<1>8. StateInv'
  <2>1. StateAt(p)' /\ OutcomeAt(p)'
    BY <1>1, <1>3 DEF TypeOK, StateAt, OutcomeAt, Working, PublishToBitwarden,
       Command, GiveUp
  <2>2. QED
    BY <1>4, <2>1 DEF IInv, StateInv, StateAt, OutcomeAt, Working
<1>9. PlaceInv'
  <2>1. RotationAt(p)'
    BY <1>1, <1>3 DEF TypeOK, StateAt, OutcomeAt, RotationAt, Rolling,
       Forward, PublishToBitwarden, Command, GiveUp
  <2>2. QED
    BY <1>2, <1>3, <1>4, <2>1, OthersAtRest
<1>10. KeyInv'
  <2>1. /\ vault' = vault /\ live' = live
        /\ backups' = backups /\ outcome' = outcome
        /\ bitwarden' = p \/ bitwarden' = bitwarden
        /\ vault.key = p
    BY <1>3 DEF RotationAt, Rolling, PublishToBitwarden, Command, GiveUp
  <2>2. QED
    BY <1>3, <2>1 DEF KeyInv, Unpublished
<1>11. ChangesSurvive'
  BY <1>1, <1>3, <1>4 DEF TypeOK, OutcomeAt, ChangesSurvive, Working, Op,
     PublishToBitwarden, Command, GiveUp
<1>12. QED
  BY <1>5, <1>6, <1>7, <1>8, <1>9, <1>10, <1>11 DEF IInv

(* From here the rotation is recovered forward. *)
LEMMA MarkPublishedKeeps ==
  ASSUME IInv, NEW p \in Rotation, MarkPublished(p)
  PROVE  IInv'
<1> USE DEF Goto, files
<1>1. p \in Op /\ ~Over(p)
  BY DEF Op, Over, MarkPublished
<1>2. \A q \in Op : q # p => Over(q)
  BY <1>1, OthersAreOver
<1>3. /\ TypeOK /\ StateAt(p) /\ OutcomeAt(p) /\ KeyInv
      /\ ChangesSurvive /\ RotationAt(p)
      /\ p \in Key /\ p \notin Mutation
  BY <1>1, ConstantsOK DEF IInv, StateInv, PlaceInv, Key
<1>4. \A q \in Op : q # p => /\ pc'[q] = pc[q] /\ state'[q] = state[q]
                            /\ outcome'[q] = outcome[q]
  BY <1>1, <1>3 DEF TypeOK, MarkPublished
<1>5. TypeOK'
  <2>1. Fault => faults' \in 0..MaxFaults
    BY <1>3, FaultIsCounted
  <2>2. QED
    BY <1>1, <1>3, <2>1 DEF TypeOK, Location, MarkPublished
<1>6. Alone'
  BY <1>2, <1>4 DEF Alone, Over
<1>7. KindInv'
  BY <1>1, <1>3, ConstantsOK DEF IInv, TypeOK, KindInv, Op, MarkPublished
<1>8. StateInv'
  <2>1. StateAt(p)' /\ OutcomeAt(p)'
    BY <1>1, <1>3 DEF TypeOK, StateAt, OutcomeAt, Working, MarkPublished
  <2>2. QED
    BY <1>4, <2>1 DEF IInv, StateInv, StateAt, OutcomeAt, Working
<1>9. PlaceInv'
  <2>1. RotationAt(p)'
    BY <1>1, <1>3 DEF TypeOK, StateAt, OutcomeAt, RotationAt, Rolling,
       Forward, MarkPublished
  <2>2. QED
    BY <1>2, <1>3, <1>4, <2>1, OthersAtRest
<1>10. KeyInv'
  BY <1>1, <1>3, <1>4 DEF TypeOK, OutcomeAt, KeyInv, Unpublished, Working, Op,
     MarkPublished
<1>11. ChangesSurvive'
  BY <1>1, <1>3, <1>4 DEF TypeOK, OutcomeAt, ChangesSurvive, Working, Op,
     MarkPublished
<1>12. QED
  BY <1>5, <1>6, <1>7, <1>8, <1>9, <1>10, <1>11 DEF IInv

(* The live file gets what Bitwarden holds, which is the new key. *)
LEMMA ApplyLiveKeeps ==
  ASSUME IInv, NEW p \in Rotation, ApplyLive(p)
  PROVE  IInv'
<1> USE DEF Goto, files
<1>1. p \in Op /\ ~Over(p)
  BY DEF Op, Over, ApplyLive, Command, GiveUp
<1>2. \A q \in Op : q # p => Over(q)
  BY <1>1, OthersAreOver
<1>3. /\ TypeOK /\ StateAt(p) /\ OutcomeAt(p) /\ KeyInv
      /\ ChangesSurvive /\ RotationAt(p)
      /\ p \in Key /\ p \notin Mutation
  BY <1>1, ConstantsOK DEF IInv, StateInv, PlaceInv, Key
<1>4. \A q \in Op : q # p => /\ pc'[q] = pc[q] /\ state'[q] = state[q]
                            /\ outcome'[q] = outcome[q]
  BY <1>1, <1>3 DEF TypeOK, ApplyLive, Command, GiveUp
<1>5. TypeOK'
  <2>1. Fault => faults' \in 0..MaxFaults
    BY <1>3, FaultIsCounted
  <2>2. QED
    BY <1>1, <1>3, <2>1 DEF TypeOK, Location, ApplyLive, Command, GiveUp
<1>6. Alone'
  BY <1>2, <1>4 DEF Alone, Over
<1>7. KindInv'
  BY <1>1, <1>3, ConstantsOK DEF IInv, TypeOK, KindInv, Op, ApplyLive,
     Command, GiveUp
<1>8. StateInv'
  <2>1. StateAt(p)' /\ OutcomeAt(p)'
    BY <1>1, <1>3 DEF TypeOK, StateAt, OutcomeAt, Working, ApplyLive, Command,
       GiveUp
  <2>2. QED
    BY <1>4, <2>1 DEF IInv, StateInv, StateAt, OutcomeAt, Working
<1>9. PlaceInv'
  <2>1. RotationAt(p)'
    BY <1>1, <1>3 DEF TypeOK, StateAt, OutcomeAt, RotationAt, Rolling,
       Forward, ApplyLive, Command, GiveUp
  <2>2. QED
    BY <1>2, <1>3, <1>4, <2>1, OthersAtRest
<1>10. KeyInv'
  BY <1>1, <1>3, <1>4 DEF TypeOK, OutcomeAt, KeyInv, Unpublished, Working, Op,
     ApplyLive, Command, GiveUp
<1>11. ChangesSurvive'
  BY <1>1, <1>3, <1>4 DEF TypeOK, OutcomeAt, ChangesSurvive, Working, Op,
     ApplyLive, Command, GiveUp
<1>12. QED
  BY <1>5, <1>6, <1>7, <1>8, <1>9, <1>10, <1>11 DEF IInv

(* PASS is printed only when the live file opens vault.yml. *)
LEMMA CheckLiveKeeps ==
  ASSUME IInv, NEW p \in Rotation, CheckLive(p)
  PROVE  IInv'
<1> USE DEF Goto, files
<1>1. p \in Op /\ ~Over(p)
  BY DEF Op, Over, CheckLive, GiveUp, LiveOpens, Passes
<1>2. \A q \in Op : q # p => Over(q)
  BY <1>1, OthersAreOver
<1>3. /\ TypeOK /\ StateAt(p) /\ OutcomeAt(p) /\ KeyInv
      /\ ChangesSurvive /\ RotationAt(p)
      /\ p \in Key /\ p \notin Mutation
  BY <1>1, ConstantsOK DEF IInv, StateInv, PlaceInv, Key
<1>4. \A q \in Op : q # p => /\ pc'[q] = pc[q] /\ state'[q] = state[q]
                            /\ outcome'[q] = outcome[q]
  BY <1>1, <1>3 DEF TypeOK, CheckLive, GiveUp, LiveOpens, Passes
<1>5. TypeOK'
  <2>1. Fault => faults' \in 0..MaxFaults
    BY <1>3, FaultIsCounted
  <2>2. QED
    BY <1>1, <1>3, <2>1 DEF TypeOK, Location, CheckLive, GiveUp, LiveOpens,
       Passes
<1>6. Alone'
  BY <1>2, <1>4 DEF Alone, Over
<1>7. KindInv'
  BY <1>1, <1>3, ConstantsOK DEF IInv, TypeOK, KindInv, Op, CheckLive, GiveUp,
     LiveOpens, Passes
<1>8. StateInv'
  <2>1. StateAt(p)' /\ OutcomeAt(p)'
    BY <1>1, <1>3 DEF TypeOK, StateAt, OutcomeAt, Working, CheckLive, GiveUp,
       LiveOpens, Passes
  <2>2. QED
    BY <1>4, <2>1 DEF IInv, StateInv, StateAt, OutcomeAt, Working
<1>9. PlaceInv'
  <2>1. RotationAt(p)'
    BY <1>1, <1>3 DEF TypeOK, StateAt, OutcomeAt, RotationAt, Rolling,
       Forward, CheckLive, GiveUp, LiveOpens, Passes
  <2>2. QED
    BY <1>2, <1>3, <1>4, <2>1, OthersAtRest
<1>10. KeyInv'
  BY <1>1, <1>3, <1>4 DEF TypeOK, OutcomeAt, KeyInv, Unpublished, Working, Op,
     CheckLive, GiveUp, LiveOpens, Passes
<1>11. ChangesSurvive'
  BY <1>1, <1>3, <1>4 DEF TypeOK, OutcomeAt, ChangesSurvive, Working, Op,
     CheckLive, GiveUp, LiveOpens, Passes
<1>12. QED
  BY <1>5, <1>6, <1>7, <1>8, <1>9, <1>10, <1>11 DEF IInv

(* What is staged has every change that vault.yml has. *)
LEMMA StageVaultKeeps ==
  ASSUME IInv, NEW p \in Mutation, StageVault(p)
  PROVE  IInv'
<1> USE DEF Goto, files
<1>1. p \in Op /\ ~Over(p)
  BY DEF Op, Over, StageVault, GiveUp, LiveOpens
<1>2. \A q \in Op : q # p => Over(q)
  BY <1>1, OthersAreOver
<1>3. /\ TypeOK /\ StateAt(p) /\ OutcomeAt(p) /\ KeyInv
      /\ ChangesSurvive /\ MutationAt(p)
      /\ p \notin Rotation
  BY <1>1, ConstantsOK DEF IInv, StateInv, PlaceInv, Key
<1>4. \A q \in Op : q # p => /\ pc'[q] = pc[q] /\ state'[q] = state[q]
                            /\ outcome'[q] = outcome[q]
  BY <1>1, <1>3 DEF TypeOK, StageVault, GiveUp, LiveOpens
<1>5. TypeOK'
  <2>1. Fault => faults' \in 0..MaxFaults
    BY <1>3, FaultIsCounted
  <2>2. QED
    BY <1>1, <1>3, <2>1 DEF TypeOK, Location, StageVault, GiveUp, LiveOpens
<1>6. Alone'
  BY <1>2, <1>4 DEF Alone, Over
<1>7. KindInv'
  BY <1>1, <1>3, ConstantsOK DEF IInv, TypeOK, KindInv, Op, StageVault,
     GiveUp, LiveOpens
<1>8. StateInv'
  <2>1. StateAt(p)' /\ OutcomeAt(p)'
    BY <1>1, <1>3 DEF TypeOK, StateAt, OutcomeAt, Working, StageVault, GiveUp,
       LiveOpens
  <2>2. QED
    BY <1>4, <2>1 DEF IInv, StateInv, StateAt, OutcomeAt, Working
<1>9. PlaceInv'
  <2>1. MutationAt(p)'
    BY <1>1, <1>3 DEF IInv, KindInv, TypeOK, MutationAt, Ciphertext,
       StageVault, GiveUp, LiveOpens
  <2>2. QED
    BY <1>2, <1>3, <1>4, <2>1, OthersAtRest
<1>10. KeyInv'
  BY <1>1, <1>3, <1>4 DEF TypeOK, OutcomeAt, KeyInv, Unpublished, Working, Op,
     StageVault, GiveUp, LiveOpens
<1>11. ChangesSurvive'
  BY <1>1, <1>3, <1>4 DEF TypeOK, OutcomeAt, ChangesSurvive, Working, Op,
     StageVault, GiveUp, LiveOpens
<1>12. QED
  BY <1>5, <1>6, <1>7, <1>8, <1>9, <1>10, <1>11 DEF IInv

(* What replaces vault.yml has the live key and one change more. *)
LEMMA EncryptChangeKeeps ==
  ASSUME IInv, NEW p \in Mutation, EncryptChange(p)
  PROVE  IInv'
<1> USE DEF Goto, files
<1>1. p \in Op /\ ~Over(p)
  BY DEF Op, Over, EncryptChange, GiveUp
<1>2. \A q \in Op : q # p => Over(q)
  BY <1>1, OthersAreOver
<1>3. /\ TypeOK /\ StateAt(p) /\ OutcomeAt(p) /\ KeyInv
      /\ ChangesSurvive /\ MutationAt(p)
      /\ p \notin Rotation
  BY <1>1, ConstantsOK DEF IInv, StateInv, PlaceInv, Key
<1>4. \A q \in Op : q # p => /\ pc'[q] = pc[q] /\ state'[q] = state[q]
                            /\ outcome'[q] = outcome[q]
  BY <1>1, <1>3 DEF TypeOK, EncryptChange, GiveUp
<1>5. TypeOK'
  <2>1. Fault => faults' \in 0..MaxFaults
    BY <1>3, FaultIsCounted
  <2>2. [key |-> live, content |-> copy[p].content \cup {p}] \in Ciphertext
    BY <1>3 DEF TypeOK, MutationAt, Ciphertext, EncryptChange
  <2>3. QED
    BY <1>1, <1>3, <2>1, <2>2 DEF TypeOK, Location, EncryptChange, GiveUp
<1>6. Alone'
  BY <1>2, <1>4 DEF Alone, Over
<1>7. KindInv'
  BY <1>1, <1>3, ConstantsOK DEF IInv, TypeOK, KindInv, Op, EncryptChange,
     GiveUp
<1>8. StateInv'
  <2>1. StateAt(p)' /\ OutcomeAt(p)'
    BY <1>1, <1>3 DEF TypeOK, StateAt, OutcomeAt, Working, EncryptChange,
       GiveUp
  <2>2. QED
    BY <1>4, <2>1 DEF IInv, StateInv, StateAt, OutcomeAt, Working
<1>9. PlaceInv'
  <2>1. MutationAt(p)'
    <3>1. CASE pc'[p] = "exit"
      BY <3>1 DEF MutationAt
    <3>2. CASE /\ copy'[p] = [key |-> live, content |-> copy[p].content \cup {p}]
               /\ UNCHANGED files
      <4>1. [key |-> live, content |-> copy[p].content \cup {p}] \in Ciphertext
        BY <1>3 DEF TypeOK, MutationAt, Ciphertext, EncryptChange
      <4>2. QED
        BY <1>3, <3>2, <4>1 DEF MutationAt, EncryptChange
    <3>3. QED
      BY <1>1, <1>3, <3>1, <3>2 DEF TypeOK, EncryptChange, GiveUp
  <2>2. QED
    BY <1>2, <1>3, <1>4, <2>1, OthersAtRest
<1>10. KeyInv'
  BY <1>1, <1>3, <1>4 DEF TypeOK, OutcomeAt, KeyInv, Unpublished, Working, Op,
     EncryptChange, GiveUp
<1>11. ChangesSurvive'
  BY <1>1, <1>3, <1>4 DEF TypeOK, OutcomeAt, ChangesSurvive, Working, Op,
     EncryptChange, GiveUp
<1>12. QED
  BY <1>5, <1>6, <1>7, <1>8, <1>9, <1>10, <1>11 DEF IInv

(* Replacing vault.yml keeps its key and every change in it. *)
LEMMA ReplaceVaultKeeps ==
  ASSUME IInv, NEW p \in Mutation, ReplaceVault(p)
  PROVE  IInv'
<1> USE DEF Goto, files
<1>1. p \in Op /\ ~Over(p)
  BY DEF Op, Over, ReplaceVault, GiveUp, Passes
<1>2. \A q \in Op : q # p => Over(q)
  BY <1>1, OthersAreOver
<1>3. /\ TypeOK /\ StateAt(p) /\ OutcomeAt(p) /\ KeyInv
      /\ ChangesSurvive /\ MutationAt(p)
      /\ p \notin Rotation
  BY <1>1, ConstantsOK DEF IInv, StateInv, PlaceInv, Key
<1>4. \A q \in Op : q # p => /\ pc'[q] = pc[q] /\ state'[q] = state[q]
                            /\ outcome'[q] = outcome[q]
  BY <1>1, <1>3 DEF TypeOK, ReplaceVault, GiveUp, Passes
<1>5. TypeOK'
  <2>1. Fault => faults' \in 0..MaxFaults
    BY <1>3, FaultIsCounted
  <2>2. QED
    BY <1>1, <1>3, <2>1 DEF TypeOK, Location, MutationAt, ReplaceVault,
       GiveUp, Passes
<1>6. Alone'
  BY <1>2, <1>4 DEF Alone, Over
<1>7. KindInv'
  BY <1>1, <1>3, ConstantsOK DEF IInv, TypeOK, KindInv, Op, ReplaceVault,
     GiveUp, Passes
<1>8. StateInv'
  <2>1. StateAt(p)' /\ OutcomeAt(p)'
    BY <1>1, <1>3 DEF TypeOK, StateAt, OutcomeAt, Working, ReplaceVault,
       GiveUp, Passes
  <2>2. QED
    BY <1>4, <2>1 DEF IInv, StateInv, StateAt, OutcomeAt, Working
<1>9. PlaceInv'
  <2>1. MutationAt(p)'
    BY <1>1, <1>3 DEF IInv, KindInv, TypeOK, MutationAt, Ciphertext,
       ReplaceVault, GiveUp, Passes
  <2>2. QED
    BY <1>2, <1>3, <1>4, <2>1, OthersAtRest
<1>10. KeyInv'
  <2>1. vault'.key = vault.key
    BY <1>3 DEF ReplaceVault, MutationAt
  <2>2. \A q \in Rotation : outcome'[q] = outcome[q]
    BY <1>3, <1>4 DEF Op
  <2>3. QED
    BY <1>3, <2>1, <2>2 DEF KeyInv, Unpublished, ReplaceVault
<1>11. ChangesSurvive'
  <2>1. vault.content \subseteq vault'.content
    BY <1>3 DEF ReplaceVault, MutationAt
  <2>2. outcome'[p] = "pass" => p \in vault'.content
    BY <1>1, <1>3 DEF TypeOK, OutcomeAt, Working, ReplaceVault, Passes,
       GiveUp, MutationAt
  <2>3. QED
    BY <1>3, <1>4, <2>1, <2>2 DEF ChangesSurvive, Op
<1>12. QED
  BY <1>5, <1>6, <1>7, <1>8, <1>9, <1>10, <1>11 DEF IInv

(* Rolling back restores the backup, rolling forward the live file. *)
LEMMA RecoverKeeps ==
  ASSUME IInv, NEW p \in Op, Recover(p)
  PROVE  IInv'
<1> USE DEF Goto, files
<1>1. p \in Op /\ ~Over(p)
  BY DEF Op, Over, Recover, Leaves, Says
<1>2. \A q \in Op : q # p => Over(q)
  BY <1>1, OthersAreOver
<1>3. /\ TypeOK /\ StateAt(p) /\ OutcomeAt(p) /\ KeyInv
      /\ ChangesSurvive
      /\ p \in Rotation => p \in Key /\ p \notin Mutation
      /\ p \in Rotation => RotationAt(p)
      /\ p \in Mutation => MutationAt(p)
  BY <1>1, ConstantsOK DEF IInv, StateInv, PlaceInv, Key
<1>4. \A q \in Op : q # p => /\ pc'[q] = pc[q] /\ state'[q] = state[q]
                            /\ outcome'[q] = outcome[q]
  BY <1>1, <1>3 DEF TypeOK, Recover, Leaves, Says
<1>5. TypeOK'
  <2>1. Fault => faults' \in 0..MaxFaults
    BY <1>3, FaultIsCounted
  <2>2. vault' \in Ciphertext /\ live' \in Key
    BY <1>1, <1>3 DEF IInv, KindInv, TypeOK, Op, RotationAt, Rolling, Forward, Recover
  <2>3. QED
    BY <1>1, <1>3, <2>1, <2>2 DEF TypeOK, Location, Recover, Leaves, Says
<1>6. Alone'
  BY <1>2, <1>4 DEF Alone, Over
<1>7. KindInv'
  BY <1>1, <1>3, ConstantsOK DEF IInv, TypeOK, KindInv, Op, Recover, Leaves,
     Says
<1>8. StateInv'
  <2>1. StateAt(p)' /\ OutcomeAt(p)'
    BY <1>1, <1>3 DEF TypeOK, StateAt, OutcomeAt, Working, Recover, Leaves,
       Says
  <2>2. QED
    BY <1>4, <2>1 DEF IInv, StateInv, StateAt, OutcomeAt, Working
<1>9. PlaceInv'
  <2>1. p \in Rotation => RotationAt(p)'
    BY <1>1, <1>3 DEF TypeOK, StateAt, OutcomeAt, RotationAt, Rolling,
       Forward, Recover, Leaves, Says
  <2>2. p \in Mutation => MutationAt(p)'
    BY <1>1, <1>3 DEF IInv, KindInv, TypeOK, MutationAt, Ciphertext, Recover,
       Leaves, Says
  <2>3. QED
    BY <1>2, <1>3, <1>4, <2>1, <2>2, OthersAtRest
<1>10. KeyInv'
  <2>1. /\ bitwarden' = bitwarden /\ backups' = backups
        /\ \A q \in Op : outcome[q] = "rolled back" => outcome'[q] = "rolled back"
    BY <1>1, <1>3, <1>4 DEF TypeOK, OutcomeAt, Recover, Leaves, Says
  <2>2. CASE vault' = vault /\ live' = live
    BY <1>3, <2>1, <2>2 DEF KeyInv, Unpublished, Op
  <2>3. CASE p \in Rotation /\ state[p] = "live-may-be-new"
    <3>1. vault.key = p /\ bitwarden = p /\ vault' = vault
      BY <1>3, <2>3 DEF RotationAt, Forward, Recover
    <3>2. QED
      BY <2>1, <3>1 DEF KeyInv
  <2>4. CASE p \in Rotation /\ state[p] = "rekeyed"
    <3>1. vault.key = p /\ live' = live
      BY <1>3, <2>4 DEF RotationAt, Rolling, Recover
    <3>2. CASE bitwarden = p /\ vault' # vault
      <4>1. outcome'[p] = "rolled back"
        BY <1>1, <1>3, <2>4, <3>2 DEF TypeOK, OutcomeAt, Recover, Leaves, Says
      <4>2. QED
        BY <2>1, <2>4, <3>2, <4>1 DEF KeyInv, Unpublished
    <3>3. CASE bitwarden # p
      BY <1>3, <2>1, <3>1, <3>3 DEF KeyInv, Unpublished, Op
    <3>4. QED
      BY <2>2, <3>1, <3>2, <3>3
  <2>5. QED
    BY <1>1, <1>3, <2>2, <2>3, <2>4 DEF IInv, KindInv, TypeOK, Op, Recover
<1>11. ChangesSurvive'
  <2>1. vault'.content = vault.content
    BY <1>1, <1>3 DEF IInv, KindInv, Op, RotationAt, Rolling, Recover
  <2>2. \A m \in Mutation : outcome'[m] = "pass" => outcome[m] = "pass"
    BY <1>1, <1>3, <1>4 DEF TypeOK, Op, Recover, Leaves, Says
  <2>3. QED
    BY <1>3, <2>1, <2>2 DEF ChangesSurvive
<1>12. QED
  BY <1>5, <1>6, <1>7, <1>8, <1>9, <1>10, <1>11 DEF IInv

(* Removing the workspace takes nothing that is still needed. *)
LEMMA CleanUpKeeps ==
  ASSUME IInv, NEW p \in Op, CleanUp(p)
  PROVE  IInv'
<1> USE DEF Goto, files
<1>1. p \in Op /\ ~Over(p)
  BY DEF Op, Over, CleanUp
<1>2. \A q \in Op : q # p => Over(q)
  BY <1>1, OthersAreOver
<1>3. /\ TypeOK /\ StateAt(p) /\ OutcomeAt(p) /\ KeyInv
      /\ ChangesSurvive
      /\ p \in Rotation => p \in Key /\ p \notin Mutation
      /\ p \in Rotation => RotationAt(p)
      /\ p \in Mutation => MutationAt(p)
  BY <1>1, ConstantsOK DEF IInv, StateInv, PlaceInv, Key
<1>4. \A q \in Op : q # p => /\ pc'[q] = pc[q] /\ state'[q] = state[q]
                            /\ outcome'[q] = outcome[q]
  BY <1>1, <1>3 DEF TypeOK, CleanUp
<1>5. TypeOK'
  <2>1. Fault => faults' \in 0..MaxFaults
    BY <1>3, FaultIsCounted
  <2>2. QED
    BY <1>1, <1>3, <2>1 DEF TypeOK, Location, CleanUp
<1>6. Alone'
  BY <1>2, <1>4 DEF Alone, Over
<1>7. KindInv'
  BY <1>1, <1>3, ConstantsOK DEF IInv, TypeOK, KindInv, Op, CleanUp
<1>8. StateInv'
  <2>1. StateAt(p)' /\ OutcomeAt(p)'
    BY <1>1, <1>3 DEF TypeOK, StateAt, OutcomeAt, Working, CleanUp
  <2>2. QED
    BY <1>4, <2>1 DEF IInv, StateInv, StateAt, OutcomeAt, Working
<1>9. PlaceInv'
  <2>1. p \in Rotation => RotationAt(p)'
    BY <1>1, <1>3 DEF TypeOK, StateAt, OutcomeAt, RotationAt, Rolling,
       Forward, CleanUp
  <2>2. p \in Mutation => MutationAt(p)'
    BY <1>1, <1>3 DEF IInv, KindInv, TypeOK, MutationAt, Ciphertext, CleanUp
  <2>3. QED
    BY <1>2, <1>3, <1>4, <2>1, <2>2, OthersAtRest
<1>10. KeyInv'
  BY <1>1, <1>3, <1>4 DEF TypeOK, OutcomeAt, KeyInv, Unpublished, Working, Op,
     CleanUp
<1>11. ChangesSurvive'
  BY <1>1, <1>3, <1>4 DEF TypeOK, OutcomeAt, ChangesSurvive, Working, Op,
     CleanUp
<1>12. QED
  BY <1>5, <1>6, <1>7, <1>8, <1>9, <1>10, <1>11 DEF IInv

(* A signal sends the operation to its EXIT trap. *)
LEMMA InterruptKeeps ==
  ASSUME IInv, NEW p \in Op, Interrupt(p)
  PROVE  IInv'
<1> USE DEF Goto, files
<1>1. p \in Op /\ ~Over(p)
  BY DEF Op, Over, Interrupt, GiveUp
<1>2. \A q \in Op : q # p => Over(q)
  BY <1>1, OthersAreOver
<1>3. /\ TypeOK /\ StateAt(p) /\ OutcomeAt(p) /\ KeyInv
      /\ ChangesSurvive
      /\ p \in Rotation => p \in Key /\ p \notin Mutation
      /\ p \in Rotation => RotationAt(p)
      /\ p \in Mutation => MutationAt(p)
  BY <1>1, ConstantsOK DEF IInv, StateInv, PlaceInv, Key
<1>4. \A q \in Op : q # p => /\ pc'[q] = pc[q] /\ state'[q] = state[q]
                            /\ outcome'[q] = outcome[q]
  BY <1>1, <1>3 DEF TypeOK, Interrupt, GiveUp
<1>5. TypeOK'
  <2>1. Fault => faults' \in 0..MaxFaults
    BY <1>3, FaultIsCounted
  <2>2. QED
    BY <1>1, <1>3, <2>1 DEF TypeOK, Location, Interrupt, GiveUp
<1>6. Alone'
  BY <1>2, <1>4 DEF Alone, Over
<1>7. KindInv'
  BY <1>1, <1>3, ConstantsOK DEF IInv, TypeOK, KindInv, Op, Interrupt, GiveUp
<1>8. StateInv'
  <2>1. StateAt(p)' /\ OutcomeAt(p)'
    BY <1>1, <1>3 DEF Over, TypeOK, StateAt, OutcomeAt, Working, Interrupt,
       GiveUp
  <2>2. QED
    BY <1>4, <2>1 DEF IInv, StateInv, StateAt, OutcomeAt, Working
<1>9. PlaceInv'
  <2>1. p \in Rotation => RotationAt(p)'
    BY <1>1, <1>3 DEF IInv, KindInv, Over, Location, TypeOK, StateAt,
       OutcomeAt, RotationAt, Rolling, Forward, Interrupt, GiveUp
  <2>2. p \in Mutation => MutationAt(p)'
    BY <1>1, <1>3 DEF IInv, KindInv, TypeOK, MutationAt, Ciphertext,
       Interrupt, GiveUp
  <2>3. QED
    BY <1>2, <1>3, <1>4, <2>1, <2>2, OthersAtRest
<1>10. KeyInv'
  BY <1>1, <1>3, <1>4 DEF TypeOK, OutcomeAt, KeyInv, Unpublished, Working, Op,
     Interrupt, GiveUp
<1>11. ChangesSurvive'
  BY <1>1, <1>3, <1>4 DEF TypeOK, OutcomeAt, ChangesSurvive, Working, Op,
     Interrupt, GiveUp
<1>12. QED
  BY <1>5, <1>6, <1>7, <1>8, <1>9, <1>10, <1>11 DEF IInv

(* A kill leaves the files as they are, or vault.yml rekeyed. *)
LEMMA KillKeeps ==
  ASSUME IInv, NEW p \in Op, Kill(p)
  PROVE  IInv'
<1> USE DEF Goto, files
<1>1. p \in Op /\ ~Over(p)
  BY DEF Op, Over, Kill, Rekeys, LiveOpens
<1>2. \A q \in Op : q # p => Over(q)
  BY <1>1, OthersAreOver
<1>3. /\ TypeOK /\ StateAt(p) /\ OutcomeAt(p) /\ KeyInv
      /\ ChangesSurvive
      /\ p \in Rotation => p \in Key /\ p \notin Mutation
      /\ p \in Rotation => RotationAt(p)
      /\ p \in Mutation => MutationAt(p)
  BY <1>1, ConstantsOK DEF IInv, StateInv, PlaceInv, Key
<1>4. \A q \in Op : q # p => /\ pc'[q] = pc[q] /\ state'[q] = state[q]
                            /\ outcome'[q] = outcome[q]
  BY <1>1, <1>3 DEF TypeOK, Kill, Rekeys, LiveOpens
<1>5. TypeOK'
  <2>1. Fault => faults' \in 0..MaxFaults
    BY <1>3, FaultIsCounted
  <2>2. vault' \in Ciphertext /\ UNCHANGED <<live, bitwarden, backups>>
    BY <1>1, <1>3 DEF IInv, KindInv, TypeOK, Op, Ciphertext, RotationAt, Kill, Rekeys
  <2>3. QED
    BY <1>1, <1>3, <2>1, <2>2 DEF TypeOK, Location, Kill
<1>6. Alone'
  BY <1>2, <1>4 DEF Alone, Over
<1>7. KindInv'
  BY <1>1, <1>3, ConstantsOK DEF IInv, TypeOK, KindInv, Op, Kill, Rekeys,
     LiveOpens
<1>8. StateInv'
  <2>1. StateAt(p)' /\ OutcomeAt(p)'
    BY <1>1, <1>3 DEF TypeOK, StateAt, OutcomeAt, Working, Kill, Rekeys,
       LiveOpens
  <2>2. QED
    BY <1>4, <2>1 DEF IInv, StateInv, StateAt, OutcomeAt, Working
<1>9. PlaceInv'
  <2>1. p \in Rotation => RotationAt(p)'
    BY <1>1, <1>3 DEF TypeOK, StateAt, OutcomeAt, RotationAt, Rolling,
       Forward, Kill, Rekeys, LiveOpens
  <2>2. p \in Mutation => MutationAt(p)'
    BY <1>1, <1>3 DEF IInv, KindInv, TypeOK, MutationAt, Ciphertext, Kill,
       Rekeys, LiveOpens
  <2>3. QED
    BY <1>2, <1>3, <1>4, <2>1, <2>2, OthersAtRest
<1>10. KeyInv'
  <2>1. CASE vault' = vault
    BY <1>1, <1>3, <1>4, <2>1
       DEF TypeOK, OutcomeAt, KeyInv, Unpublished, Working, Op, Kill, Rekeys
  <2>2. CASE vault' # vault
    <3>1. /\ bitwarden' = bitwarden /\ live' = live /\ backups' = backups
          /\ outcome' = outcome /\ live = vault.key
          /\ \E c \in backups : c.key = live
      BY <1>1, <1>3, <2>2 DEF IInv, KindInv, Op, Kill, Rekeys, LiveOpens, RotationAt
    <3>2. QED
      BY <1>3, <3>1 DEF KeyInv, Unpublished
  <2>3. QED
    BY <2>1, <2>2
<1>11. ChangesSurvive'
  <2>1. vault'.content = vault.content /\ outcome' = outcome
    BY <1>3 DEF TypeOK, Ciphertext, Kill, Rekeys
  <2>2. QED
    BY <1>3, <2>1 DEF ChangesSurvive
<1>12. QED
  BY <1>5, <1>6, <1>7, <1>8, <1>9, <1>10, <1>11 DEF IInv

(* A power loss ends whatever is under way. *)
LEMMA PowerLossKeeps ==
  ASSUME IInv, PowerLoss
  PROVE  IInv'
<1> USE DEF files
<1>1. \A p \in Op : /\ pc'[p] \in {"idle", "done", "dead"}
                    /\ ~Over(p) => pc'[p] = "dead"
                    /\ Over(p) => pc'[p] = pc[p]
                    /\ state'[p] = state[p] /\ outcome'[p] = outcome[p]
  BY DEF PowerLoss, Over
<1>2. TypeOK'
  <2>1. faults' \in 0..MaxFaults
    BY FaultIsCounted DEF IInv, PowerLoss
  <2>2. QED
    BY <2>1 DEF IInv, TypeOK, PowerLoss, Location
<1>3. Alone' /\ KindInv'
  BY <1>1 DEF IInv, Alone, KindInv, Op, Over
<1>4. StateInv'
  BY <1>1 DEF IInv, StateInv, StateAt, OutcomeAt, Working, Over
<1>5. PlaceInv'
  BY <1>1 DEF PlaceInv, RotationAt, MutationAt, Rolling, Forward, Op
<1>6. KeyInv' /\ ChangesSurvive'
  BY <1>1 DEF IInv, KeyInv, Unpublished, ChangesSurvive, PowerLoss, Op
<1>7. QED
  BY <1>2, <1>3, <1>4, <1>5, <1>6 DEF IInv

(* Applying the dotfiles gives the live file what Bitwarden holds. *)
LEMMA ChezmoiApplyKeeps ==
  ASSUME IInv, ChezmoiApply
  PROVE  IInv'
<1>1. \A p \in Op : pc[p] \in {"idle", "done", "dead"} /\ pc'[p] = pc[p]
  BY DEF ChezmoiApply, Over
<1>2. TypeOK'
  BY DEF IInv, TypeOK, ChezmoiApply
<1>3. Alone' /\ KindInv' /\ StateInv'
  BY DEF IInv, Alone, KindInv, StateInv, StateAt, OutcomeAt, Working, Over, ChezmoiApply
<1>4. PlaceInv'
  BY <1>1 DEF PlaceInv, RotationAt, MutationAt, Rolling, Forward, Op
<1>5. KeyInv' /\ ChangesSurvive'
  BY DEF IInv, KeyInv, Unpublished, ChangesSurvive, ChezmoiApply
<1>6. QED
  BY <1>2, <1>3, <1>4, <1>5 DEF IInv

(* Nothing is under way at first, and the three keys are the same. *)
LEMMA InitEstablishes == Init => IInv
<1> SUFFICES ASSUME Init PROVE IInv
  OBVIOUS
<1>1. TypeOK
  <2>1. vault \in Ciphertext
    BY DEF Init, Ciphertext, Key
  <2>2. faults \in 0..MaxFaults
    <3>1. faults = 0 /\ MaxFaults \in Nat
      BY ConstantsOK DEF Init
    <3>2. QED
      BY <3>1
  <2>3. QED
    BY <2>1, <2>2 DEF Init, TypeOK, Location, Key
<1>2. Alone /\ KindInv /\ StateInv
  BY DEF Init, Alone, KindInv, StateInv, StateAt, OutcomeAt, Working, Over, Op
<1>3. PlaceInv
  BY DEF Init, PlaceInv, RotationAt, MutationAt, Rolling, Forward, Op
<1>4. KeyInv /\ ChangesSurvive
  BY DEF Init, KeyInv, ChangesSurvive, Op
<1>5. QED
  BY <1>1, <1>2, <1>3, <1>4 DEF IInv

(* Every step keeps the invariant. *)
LEMMA StepKeeps == IInv /\ [Next]_vars => IInv'
<1> SUFFICES ASSUME IInv, [Next]_vars PROVE IInv'
  OBVIOUS
<1>1. ASSUME NEW p \in Op,
             Begin(p) \/ Recover(p) \/ CleanUp(p) \/ Interrupt(p) \/ Kill(p)
      PROVE  IInv'
  BY <1>1, BeginKeeps, RecoverKeeps, CleanUpKeeps, InterruptKeeps, KillKeeps
<1>2. ASSUME NEW p \in Rotation, Rotate(p)
      PROVE  IInv'
  BY <1>2, GeneratePassphraseKeeps, BackUpKeeps, RekeyKeeps, MarkRekeyedKeeps,
     VerifyNewKeeps, PublishToBitwardenKeeps, MarkPublishedKeeps, ApplyLiveKeeps,
     CheckLiveKeeps DEF Rotate
<1>3. ASSUME NEW m \in Mutation, Mutate(m)
      PROVE  IInv'
  BY <1>3, StageVaultKeeps, EncryptChangeKeeps, ReplaceVaultKeeps DEF Mutate
<1>4. CASE PowerLoss
  BY <1>4, PowerLossKeeps
<1>5. CASE ChezmoiApply
  BY <1>5, ChezmoiApplyKeeps
<1>6. CASE UNCHANGED vars
  BY <1>6 DEF vars, files, IInv, TypeOK, Alone, KindInv, StateInv, StateAt, OutcomeAt,
              Working, Over, PlaceInv, RotationAt, MutationAt, Rolling, Forward,
              KeyInv, Unpublished, ChangesSurvive
<1>7. QED
  BY <1>1, <1>2, <1>3, <1>4, <1>5, <1>6 DEF Next

(* The invariant holds throughout. *)
LEMMA InvariantHolds == Spec => []IInv
BY InitEstablishes, StepKeeps, PTL DEF Spec

-----------------------------------------------------------------------------
(* The variables of vault.sh keep their types. *)
THEOREM TypeCorrect == Spec => []TypeOK
<1>1. IInv => TypeOK
  BY DEF IInv
<1>2. QED
  BY <1>1, InvariantHolds, PTL

(* Whatever fails or dies, a passphrase that still exists opens vault.yml  *)
(* or a backup, unless a rotation that had reached Bitwarden was rolled    *)
(* back: Bitwarden's passphrase does.                                      *)
THEOREM SecretsSurviveHolds == Spec => []SecretsSurvive
<1>1. IInv => SecretsSurvive
  BY DEF IInv, KeyInv, Unpublished, SecretsSurvive, Passphrases
<1>2. QED
  BY <1>1, InvariantHolds, PTL

(* A change reported as made is still in vault.yml after any rotation,     *)
(* rolled back or not, and any other change.                               *)
THEOREM ChangesSurviveHolds == Spec => []ChangesSurvive
<1>1. IInv => ChangesSurvive
  BY DEF IInv
<1>2. QED
  BY <1>1, InvariantHolds, PTL

(* Only these actions print how a rotation ended. *)
LEMMA SpeaksAtTheEnd ==
  ASSUME IInv, [Next]_vars, NEW r \in Rotation, outcome'[r] # outcome[r]
  PROVE  Begin(r) \/ CheckLive(r) \/ Recover(r)
<1>1. TypeOK /\ r \in Op /\ r \notin Mutation
  BY ConstantsOK DEF IInv, Op
<1>2. ASSUME NEW p \in Op, Begin(p) \/ Recover(p)
      PROVE  Begin(r) \/ Recover(r)
  BY <1>1, <1>2 DEF TypeOK, Begin, Recover, Says
<1>3. ASSUME NEW p \in Op, CleanUp(p) \/ Interrupt(p) \/ Kill(p)
      PROVE  FALSE
  BY <1>3 DEF CleanUp, Interrupt, Kill, GiveUp
<1>4. ASSUME NEW p \in Rotation, Rotate(p)
      PROVE  CheckLive(r)
  <2>1. CASE CheckLive(p)
    BY <1>1, <2>1 DEF TypeOK, CheckLive, Passes, GiveUp
  <2>2. CASE ~CheckLive(p)
    BY <1>4, <2>2 DEF Rotate, GeneratePassphrase, BackUp, Rekey, MarkRekeyed, VerifyNew,
                      PublishToBitwarden, MarkPublished, ApplyLive, Command, GiveUp
  <2>3. QED
    BY <2>1, <2>2
<1>5. ASSUME NEW m \in Mutation, Mutate(m)
      PROVE  FALSE
  BY <1>1, <1>5 DEF TypeOK, Mutate, StageVault, EncryptChange, ReplaceVault, Passes, GiveUp
<1>6. CASE PowerLoss \/ ChezmoiApply \/ UNCHANGED vars
  BY <1>6 DEF PowerLoss, ChezmoiApply, vars
<1>7. QED
  BY <1>2, <1>3, <1>4, <1>5, <1>6 DEF Next

(* What a rotation says when it ends is so: after PASS and after either    *)
(* recovery the live file opens vault.yml, and after PASS or rolling       *)
(* forward both it and Bitwarden have the new passphrase.                  *)
THEOREM OutcomeIsTrueHolds == Spec => OutcomeIsTrue
<1> DEFINE Told(p) ==
      outcome'[p] # outcome[p] =>
        /\ outcome'[p] \in {"pass", "rolled back", "rolled forward"} => live' = vault'.key
        /\ outcome'[p] \in {"pass", "rolled forward"} => live' = p /\ bitwarden' = p
<1>1. ASSUME IInv, [Next]_vars, NEW r \in Rotation, outcome'[r] # outcome[r]
      PROVE  Told(r)
  <2>1. TypeOK /\ OutcomeAt(r) /\ RotationAt(r) /\ StateAt(r) /\ r \in Op
    BY <1>1 DEF IInv, StateInv, PlaceInv, Op
  <2>2. CASE Begin(r)
    BY <2>1, <2>2 DEF TypeOK, Begin
  <2>3. CASE CheckLive(r)
    BY <1>1, <2>1, <2>3
       DEF TypeOK, files, CheckLive, LiveOpens, Passes, GiveUp, RotationAt, Forward
  <2>4. CASE Recover(r)
    <3>1. CASE state[r] = "live-may-be-new" /\ outcome'[r] = "rolled forward"
      BY <2>1, <2>4, <3>1 DEF TypeOK, Recover, Leaves, Says, RotationAt, Forward
    <3>2. CASE state[r] = "rekeyed" /\ outcome'[r] = "rolled back"
      BY <2>1, <2>4, <3>2 DEF TypeOK, Recover, Leaves, Says, RotationAt, Rolling
    <3>3. CASE outcome'[r] \in {"fail", "critical"}
      BY <3>3
    <3>4. QED
      BY <1>1, <2>1, <2>4, <3>1, <3>2, <3>3 DEF TypeOK, Recover, Leaves, Says
  <2>5. QED
    BY <1>1, <2>2, <2>3, <2>4, SpeaksAtTheEnd
<1>2. IInv /\ [Next]_vars => [\A p \in Rotation : Told(p)]_vars
  BY <1>1
<1>3. QED
  BY <1>2, InvariantHolds, PTL DEF Spec, OutcomeIsTrue
=============================================================================
