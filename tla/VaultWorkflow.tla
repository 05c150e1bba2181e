---------------------------- MODULE VaultWorkflow ----------------------------
(***************************************************************************)
(* vault.sh: changing the vault (configure, edit, set, unset) and rotating *)
(* its passphrase.  Three things have to agree: the key vault.yml is       *)
(* encrypted with, the live passphrase file, and the Bitwarden item from   *)
(* which chezmoi regenerates that file.  No step changes them together.    *)
(*                                                                         *)
(* A command may fail with or without its effect.  A signal is acted upon  *)
(* between two commands: the script exits through its EXIT trap, which     *)
(* recovers a rotation and removes the workspace.  During the trap a       *)
(* signal kills; so does kill -9 at any time, and a power loss also takes  *)
(* the workspaces, which are in memory.                                    *)
(* One operation is made at a time.                                        *)
(*                                                                         *)
(* Left out: the read-only operations and rotate --dry-run, which works on *)
(* copies; merge, which builds the plaintext from git's index; what is in  *)
(* the vault but for which changes it has.  An ansible-vault rekey whose   *)
(* script is killed ends, one way or the other, before anything else is    *)
(* done.                                                                   *)
(***************************************************************************)
EXTENDS Naturals

CONSTANTS
  Rotation,    \* invocations of vault.sh rotate
  Mutation,    \* invocations that change the vault's content
  FirstKey,    \* the passphrase before any rotation
  NoKey,       \* no passphrase
  NoCiphertext,
  MaxFaults    \* bound on failures, signals, kills and power losses

Op == Rotation \cup Mutation

(* A rotation's passphrase is named after the rotation. *)
Key == Rotation \cup {FirstKey}

(* A ciphertext's content is the set of changes it has. *)
Ciphertext == [key : Key, content : SUBSET Mutation]

ASSUME ConstantsOK ==
  /\ Rotation \cap Mutation = {}
  /\ FirstKey \notin Op /\ NoKey \notin Key /\ NoCiphertext \notin Ciphertext
  /\ MaxFaults \in Nat

VARIABLES
  vault,      \* VAULT_FILE
  live,       \* PASS_FILE
  bitwarden,  \* the notes of dotfiles/ansible-vault-pass
  backups,    \* the backups of vault.yml under ~/.ansible
  pc,         \* pc[p]: where operation p is
  state,      \* state[p]: ROTATION_STATE
  fresh,      \* fresh[p]: the new passphrase in its workspace
  copy,       \* copy[p]: what it took from vault.yml (a rotation: its backup)
  outcome,    \* outcome[p]: what it printed
  faults

files == <<vault, live, bitwarden, backups>>
vars == <<files, pc, state, fresh, copy, outcome, faults>>

Location == {"idle", "generate", "backup", "rekey", "rekeyed", "verify", "publish",
             "published", "apply", "check", "stage", "encrypt", "replace",
             "exit", "cleanup", "done", "dead"}

TypeOK ==
  /\ vault \in Ciphertext
  /\ live \in Key /\ bitwarden \in Key
  /\ backups \in SUBSET Ciphertext
  /\ pc \in [Op -> Location]
  /\ state \in [Op -> {"", "rekeyed", "live-may-be-new"}]
  /\ fresh \in [Op -> Key \cup {NoKey}]
  /\ copy \in [Op -> Ciphertext \cup {NoCiphertext}]
  /\ outcome \in [Op -> {"", "pass", "fail", "rolled back", "rolled forward", "critical"}]
  /\ faults \in 0..MaxFaults

Init ==
  /\ vault = [key |-> FirstKey, content |-> {}]
  /\ live = FirstKey /\ bitwarden = FirstKey
  /\ backups = {}
  /\ pc = [p \in Op |-> "idle"]
  /\ state = [p \in Op |-> ""]
  /\ fresh = [p \in Op |-> NoKey]
  /\ copy = [p \in Op |-> NoCiphertext]
  /\ outcome = [p \in Op |-> ""]
  /\ faults = 0

Over(p) == pc[p] \in {"idle", "done", "dead"}

Goto(p, l) == pc' = [pc EXCEPT ![p] = l]

Fault == faults < MaxFaults /\ faults' = faults + 1

(* The operation exits with status 1. *)
GiveUp(p) ==
  /\ Goto(p, "exit")
  /\ UNCHANGED <<state, fresh, copy, outcome>>

(* A command that changes the files by Effect, then goes to l or exits. *)
Command(p, l, Effect) ==
  \/ Effect /\ Goto(p, l) /\ UNCHANGED <<state, fresh, copy, outcome, faults>>
  \/ Effect /\ GiveUp(p) /\ Fault
  \/ UNCHANGED files /\ GiveUp(p) /\ Fault

(* ansible-vault with the standard passphrase file. *)
LiveOpens == vault.key = live

-----------------------------------------------------------------------------
(* Starting. *)

(* The operator works on one thing at a time; vault.sh has no lock.  The   *)
(* preflight of a rotation and its confirmation may end it.                *)
Begin(p) ==
  /\ pc[p] = "idle"
  /\ \A q \in Op : Over(q)
  /\ \/ Goto(p, IF p \in Rotation THEN "generate" ELSE "stage") /\ UNCHANGED outcome
     \/ Goto(p, "done") /\ outcome' = [outcome EXCEPT ![p] = "fail"]
  /\ UNCHANGED <<files, state, fresh, copy, faults>>

-----------------------------------------------------------------------------
(* rotate_passphrase. *)

GeneratePassphrase(p) ==
  /\ pc[p] = "generate"
  /\ \/ /\ fresh' = [fresh EXCEPT ![p] = p]
        /\ Goto(p, "backup") /\ UNCHANGED <<state, copy, outcome, faults>>
     \/ GiveUp(p) /\ Fault
  /\ UNCHANGED files

(* Mutant: a backup that exists is kept. *)
BackUp_KeepsFirst(p) ==
  /\ pc[p] = "backup"
  /\ \/ /\ \E c \in (IF backups = {} THEN {vault} ELSE backups) :
             copy' = [copy EXCEPT ![p] = c] /\ backups' = backups \cup {c}
        /\ Goto(p, "rekey") /\ UNCHANGED <<state, fresh, outcome, faults>>
     \/ GiveUp(p) /\ Fault /\ UNCHANGED backups
  /\ UNCHANGED <<vault, live, bitwarden>>

(* Mutant: the backup is made in the workspace. *)
BackUp_InWorkspace(p) ==
  /\ pc[p] = "backup"
  /\ \/ /\ copy' = [copy EXCEPT ![p] = vault]
        /\ Goto(p, "rekey") /\ UNCHANGED <<state, fresh, outcome, faults>>
     \/ GiveUp(p) /\ Fault
  /\ UNCHANGED files

BackUp(p) ==
  /\ pc[p] = "backup"
  /\ \/ /\ copy' = [copy EXCEPT ![p] = vault]
        /\ backups' = backups \cup {vault}
        /\ Goto(p, "rekey") /\ UNCHANGED <<state, fresh, outcome, faults>>
     \/ GiveUp(p) /\ Fault /\ UNCHANGED backups
  /\ UNCHANGED <<vault, live, bitwarden>>

(* ansible-vault rekey replaces the file as a whole, or fails without.     *)
Rekeys(p) ==
  /\ vault' = [vault EXCEPT !.key = fresh[p]]
  /\ UNCHANGED <<live, bitwarden, backups>>

Rekey(p) ==
  /\ pc[p] = "rekey"
  /\ \/ LiveOpens /\ Rekeys(p) /\ Goto(p, "rekeyed")
        /\ UNCHANGED <<state, fresh, copy, outcome, faults>>
     \/ LiveOpens /\ GiveUp(p) /\ Fault /\ UNCHANGED files
     \/ ~LiveOpens /\ GiveUp(p) /\ UNCHANGED <<files, faults>>

(* ROTATION_STATE is assigned once the command is done. *)
MarkRekeyed(p) ==
  /\ pc[p] = "rekeyed"
  /\ state' = [state EXCEPT ![p] = "rekeyed"]
  /\ Goto(p, "verify")
  /\ UNCHANGED <<files, fresh, copy, outcome, faults>>

VerifyNew(p) ==
  /\ pc[p] = "verify"
  /\ \/ Goto(p, IF vault.key = fresh[p] THEN "publish" ELSE "exit")
        /\ UNCHANGED <<state, fresh, copy, outcome, faults>>
     \/ GiveUp(p) /\ Fault
  /\ UNCHANGED files

(* bw edit item; it may fail and yet have changed the item. *)
PublishToBitwarden(p) ==
  /\ pc[p] = "publish"
  /\ Command(p, "published", bitwarden' = fresh[p] /\ UNCHANGED <<vault, live, backups>>)

MarkPublished(p) ==
  /\ pc[p] = "published"
  /\ state' = [state EXCEPT ![p] = "live-may-be-new"]
  /\ Goto(p, "apply")
  /\ UNCHANGED <<files, fresh, copy, outcome, faults>>

(* chezmoi apply writes what Bitwarden holds; it may also say so and not   *)
(* have done it.                                                           *)
ApplyLive(p) ==
  /\ pc[p] = "apply"
  /\ \/ Command(p, "check", live' = bitwarden /\ UNCHANGED <<vault, bitwarden, backups>>)
     \/ Goto(p, "check") /\ Fault /\ UNCHANGED <<files, state, fresh, copy, outcome>>

Passes(p) ==
  /\ state' = [state EXCEPT ![p] = ""]
  /\ outcome' = [outcome EXCEPT ![p] = "pass"]
  /\ Goto(p, "exit")
  /\ UNCHANGED <<fresh, copy>>

(* Mutant: the vault is opened with the new passphrase once more. *)
CheckLive_WithNew(p) ==
  /\ pc[p] = "check"
  /\ \/ vault.key = fresh[p] /\ Passes(p) /\ UNCHANGED faults
     \/ vault.key # fresh[p] /\ GiveUp(p) /\ UNCHANGED faults
     \/ GiveUp(p) /\ Fault
  /\ UNCHANGED files

(* The authoritative check, with the live file alone. *)
CheckLive(p) ==
  /\ pc[p] = "check"
  /\ \/ LiveOpens /\ Passes(p) /\ UNCHANGED faults
     \/ ~LiveOpens /\ GiveUp(p) /\ UNCHANGED faults
     \/ LiveOpens /\ GiveUp(p) /\ Fault
  /\ UNCHANGED files

-----------------------------------------------------------------------------
(* run_mutation. *)

(* The vault is decrypted into the workspace. *)
StageVault(m) ==
  /\ pc[m] = "stage"
  /\ \/ /\ LiveOpens /\ UNCHANGED faults
        /\ copy' = [copy EXCEPT ![m] = vault]
        /\ Goto(m, "encrypt")
        /\ UNCHANGED <<state, fresh, outcome>>
     \/ ~LiveOpens /\ GiveUp(m) /\ UNCHANGED faults
     \/ LiveOpens /\ GiveUp(m) /\ Fault
  /\ UNCHANGED files

(* The changed plaintext is encrypted with the passphrase that is live     *)
(* now, beside vault.yml, and the workspace is removed.                    *)
EncryptChange(m) ==
  /\ pc[m] = "encrypt"
  /\ \/ /\ copy' = [copy EXCEPT ![m] =
                      [key |-> live, content |-> copy[m].content \cup {m}]]
        /\ Goto(m, "replace")
        /\ UNCHANGED <<state, fresh, outcome, faults>>
     \/ GiveUp(m) /\ Fault
  /\ UNCHANGED files

(* mv, with signals ignored. *)
ReplaceVault(m) ==
  /\ pc[m] = "replace"
  /\ \/ /\ vault' = copy[m]
        /\ Passes(m) /\ UNCHANGED faults
     \/ GiveUp(m) /\ Fault /\ UNCHANGED vault
  /\ UNCHANGED <<live, bitwarden, backups>>

-----------------------------------------------------------------------------
(* Leaving: cleanup_transaction_on_exit. *)

Says(p, o) == outcome' = [outcome EXCEPT ![p] = IF @ = "" THEN o ELSE @]

Leaves(p) ==
  /\ Goto(p, "cleanup")
  /\ state' = [state EXCEPT ![p] = ""]
  /\ UNCHANGED <<fresh, copy, bitwarden, backups>>

(* rotation_recover rolls back, or forward, or says that it could not. *)
Recover(p) ==
  /\ pc[p] = "exit"
  /\ Leaves(p)
  /\ \/ /\ state[p] = ""
        /\ Says(p, "fail") /\ UNCHANGED <<vault, live, faults>>
     \/ /\ state[p] = "rekeyed"
        /\ Says(p, "rolled back") /\ vault' = copy[p] /\ UNCHANGED <<live, faults>>
     \/ /\ state[p] = "live-may-be-new"
        /\ Says(p, "rolled forward") /\ live' = fresh[p] /\ UNCHANGED <<vault, faults>>
     \/ /\ state[p] # ""
        /\ Says(p, "critical") /\ Fault /\ UNCHANGED <<vault, live>>

(* The workspace and a ciphertext not yet in place are removed. *)
CleanUp(p) ==
  /\ pc[p] = "cleanup"
  /\ fresh' = [fresh EXCEPT ![p] = NoKey]
  /\ copy' = [copy EXCEPT ![p] = NoCiphertext]
  /\ Goto(p, "done")
  /\ UNCHANGED <<files, state, outcome, faults>>

-----------------------------------------------------------------------------
(* The environment. *)

(* HUP, INT or TERM, between two commands. *)
Interrupt(p) ==
  /\ ~Over(p) /\ pc[p] \notin {"exit", "cleanup"}
  /\ Fault
  /\ GiveUp(p) /\ UNCHANGED files

(* kill -9, or a signal during the trap.  A rekey under way may still      *)
(* take effect.                                                            *)
Kill(p) ==
  /\ ~Over(p)
  /\ Fault
  /\ Goto(p, "dead")
  /\ \/ UNCHANGED files
     \/ pc[p] = "rekey" /\ LiveOpens /\ Rekeys(p)
  /\ UNCHANGED <<state, fresh, copy, outcome>>

PowerLoss ==
  /\ \E p \in Op : ~Over(p) \/ fresh[p] # NoKey
  /\ Fault
  /\ pc' = [p \in Op |-> IF Over(p) THEN pc[p] ELSE "dead"]
  /\ fresh' = [p \in Op |-> NoKey]
  /\ UNCHANGED <<files, state, copy, outcome>>

(* The operator applies the dotfiles. *)
ChezmoiApply ==
  /\ \A p \in Op : Over(p)
  /\ live # bitwarden
  /\ live' = bitwarden
  /\ UNCHANGED <<vault, bitwarden, backups, pc, state, fresh, copy, outcome, faults>>

Rotate(p) ==
  \/ GeneratePassphrase(p) \/ BackUp(p) \/ Rekey(p) \/ MarkRekeyed(p) \/ VerifyNew(p)
  \/ PublishToBitwarden(p) \/ MarkPublished(p) \/ ApplyLive(p) \/ CheckLive(p)

Mutate(m) == StageVault(m) \/ EncryptChange(m) \/ ReplaceVault(m)

Next ==
  \/ \E p \in Op : Begin(p) \/ Recover(p) \/ CleanUp(p) \/ Interrupt(p) \/ Kill(p)
  \/ \E p \in Rotation : Rotate(p)
  \/ \E m \in Mutation : Mutate(m)
  \/ PowerLoss \/ ChezmoiApply

Spec == Init /\ [][Next]_vars

-----------------------------------------------------------------------------
(* Properties. *)

Passphrases == {live, bitwarden} \cup {fresh[p] : p \in Op}

(* The secrets are never lost, whatever fails or dies: a passphrase that   *)
(* still exists somewhere opens vault.yml or a backup of it.  The          *)
(* exception is a rotation that was rolled back although it had reached    *)
(* Bitwarden.                                                              *)
SecretsSurvive ==
  (\A p \in Rotation : bitwarden = p => outcome[p] # "rolled back")
    => \E c \in backups \cup {vault} : c.key \in Passphrases

(* What a rotation says when it ends is so: after PASS and after either    *)
(* recovery the live file opens vault.yml, and PASS or rolling forward     *)
(* means that both and Bitwarden have the new passphrase.                  *)
OutcomeIsTrue ==
  [][\A p \in Rotation : outcome'[p] # outcome[p] =>
       /\ outcome'[p] \in {"pass", "rolled back", "rolled forward"} => live' = vault'.key
       /\ outcome'[p] \in {"pass", "rolled forward"}
            => live' = p /\ bitwarden' = p]_vars

(* Rolling back undoes the rotation and nothing else: a change that was    *)
(* reported as made is still in vault.yml after any later operation.       *)
ChangesSurvive ==
  \A m \in Mutation : outcome[m] = "pass" => m \in vault.content

(* "vault.yml is only ever consistent as OLD/OLD or NEW/NEW" (vault.sh,    *)
(* rotation_recover): once a rotation is over and did not ask for help, the *)
(* live file opens the vault.                                              *)
EndsOldOrNew ==
  \A p \in Rotation : pc[p] = "done" /\ outcome[p] # "critical" => live = vault.key

(* "rekeyed -> the live file is still OLD, so roll BACK"; "live-may-be-new *)
(* -> Bitwarden already holds NEW" (vault.sh, rotation_recover): what was  *)
(* rolled back had not been published.                                     *)
RolledBackIsUnpublished ==
  \A p \in Rotation : outcome[p] = "rolled back" => bitwarden # p
=============================================================================
