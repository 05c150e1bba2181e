--------------------------- MODULE StackSyncProofs ---------------------------
(***************************************************************************)
(* Theorems about StackSync, for any stacks, versions, repositories and    *)
(* bounds.                                                                 *)
(***************************************************************************)
EXTENDS StackSync, TLAPS

(* Work that a probe saw defers its stack; only stacks that the repository *)
(* has are asked; only containers work.                                    *)
GateInv ==
  /\ working \subseteq Deferred \cap job
  /\ Running => Deferred \subseteq Known
  /\ \A s \in job : ran[s] # NoStack
  /\ killed = {}

(* What a run may write and start, and what it may stop.                   *)
ChoiceInv ==
  /\ pc \in {"probe", "host", "discover"} => desired = {} /\ stale = {} /\ ~itemFailed
  /\ Running =>
       /\ desired \subseteq Known \ Deferred /\ stale \cap Known = {}
       /\ filter # NoStack => desired \subseteq {filter} /\ stale = {}
       /\ ~sourceThere => stale = {}
       /\ pc \notin {"probe", "host", "discover"} => filter \in Known \cup {NoStack}

(* What a loop goes over.                                                  *)
LoopInv ==
  /\ pc = "probe" => todo \subseteq Declarations
  /\ pc \in {"down", "move"} => todo \subseteq stale
  /\ pc = "write" => todo \subseteq Found \X Part
  /\ pc \in {"up", "recreate"} => todo \subseteq desired

(* Unless the tracked file was written since, containers have the one on   *)
(* disk.                                                                   *)
FileInv ==
  \A s \in Stack \ touched :
    ran[s] # NoStack /\ disk[s] # NoStack => disk[s].file \in {0, ran[s].file}

WrittenOK(s) ==
  /\ <<s, "compose">> \notin todo =>
       disk[s] # NoStack /\ disk[s].service = repo[s].service /\ disk[s].check = repo[s].check
  /\ <<s, "file">> \notin todo => disk[s] # NoStack /\ disk[s].file = repo[s].file

UpOK(s) == ran[s] # NoStack /\ ran[s].service = repo[s].service

(* What the loops have done, as long as no item has failed.                *)
DoneInv ==
  /\ pc = "write" /\ ~itemFailed => \A s \in desired : WrittenOK(s)
  /\ pc \in {"up", "recreate", "ok"} =>
       \A s \in desired : repo[s] # NoStack /\ disk[s] = repo[s]
  /\ pc = "up" /\ ~itemFailed => \A s \in desired \ todo : UpOK(s)
  /\ pc \in {"recreate", "ok"} => \A s \in desired : UpOK(s)
  /\ pc = "recreate" /\ ~itemFailed => desired \cap touched \subseteq todo
  /\ pc = "ok" => desired \cap touched = {}

IInv == TypeOK /\ GateInv /\ ChoiceInv /\ LoopInv /\ FileInv /\ DoneInv

-----------------------------------------------------------------------------
(* Versions, directories and containers. *)

Name == {v.service : v \in Version} \cup {""}
Check == {"none", "declared", "invalid", "broken"}
Files == [service : Name, check : Check, file : Nat]

(* A version has a tracked file; a directory may hold the Compose file of  *)
(* one version and the tracked file of another.                            *)
LEMMA Directories ==
  /\ Version \subseteq Files /\ \A v \in Version : v.file # 0
  /\ Directory \subseteq Files /\ Version \subseteq Directory /\ Empty \in Directory
  /\ \A v, w \in Directory : [v EXCEPT !.file = w.file] \in Directory
<1> DEFINE V == Version \cup {Empty}
<1>0. ASSUME NEW v \in V, NEW w \in V PROVE [v EXCEPT !.file = w.file] \in Directory
  <2> DEFINE F(a, b) == [a EXCEPT !.file = b.file]
  <2>1. Directory = {F(a, b) : a, b \in V}
    BY DEF Directory
  <2> HIDE DEF F
  <2>2. F(v, w) \in Directory
    BY <1>0, <2>1
  <2>3. QED
    BY <2>2 DEF F
<1>1. ASSUME NEW v \in Version PROVE v \in Files /\ v.file # 0
  <2>1. PICK s \in Stack : v \in Sources[s]
    BY <1>1 DEF Version
  <2>2. v \in [service : STRING, check : Check, file : Nat \ {0}]
    BY <2>1, SourcesOK DEF Check
  <2>3. v = [service |-> v.service, check |-> v.check, file |-> v.file]
    BY <2>2
  <2>4. v.service \in Name
    BY <1>1 DEF Name
  <2>5. QED
    BY <2>2, <2>3, <2>4 DEF Files
<1>2. V \subseteq Files
  <2>1. "" \in Name /\ "none" \in Check
    BY DEF Name, Check
  <2>2. Empty \in Files
    BY <2>1 DEF Files, Empty
  <2>3. QED
    BY <1>1, <2>2
<1>3. ASSUME NEW v \in V, NEW w \in V PROVE [v EXCEPT !.file = w.file] \in Files
  BY <1>2, <1>3 DEF Files
<1>4. Directory \subseteq Files
  BY <1>3 DEF Directory
<1>5. ASSUME NEW v \in V PROVE v \in Directory
  <2>1. v = [v EXCEPT !.file = v.file]
    BY <1>2, <1>5 DEF Files
  <2>2. QED
    BY <1>0, <1>5, <2>1
<1>6. ASSUME NEW v \in Directory, NEW w \in Directory PROVE [v EXCEPT !.file = w.file] \in Directory
  <2>1. PICK a \in V, b \in V : v = [a EXCEPT !.file = b.file]
    BY <1>6 DEF Directory
  <2>2. PICK c \in V, d \in V : w = [c EXCEPT !.file = d.file]
    BY <1>6 DEF Directory
  <2>3. w.file = d.file
    BY <1>2, <2>2 DEF Files
  <2>4. [v EXCEPT !.file = w.file] = [a EXCEPT !.file = d.file]
    BY <1>2, <2>1, <2>3 DEF Files
  <2>5. [a EXCEPT !.file = d.file] \in Directory
    BY <1>0
  <2>6. QED
    BY <2>4, <2>5
<1>7. QED
  BY <1>1, <1>4, <1>5, <1>6

Containers == {Started(v) : v \in Directory}

(* What containers have of a directory. *)
LEMMA ContainersOf ==
  /\ \A v \in Directory : /\ v # NoStack
                          /\ Started(v) \in Containers
                          /\ Started(v) = [service |-> v.service, file |-> v.file]
  /\ NoStack \notin Containers
  /\ \A r \in Containers : r = [service |-> r.service, file |-> r.file]
  /\ \A r \in Containers, v \in Directory :
       /\ [r EXCEPT !.file = v.file] \in Containers
       /\ [r EXCEPT !.file = v.file].file = v.file
<1>1. ASSUME NEW v \in Directory
      PROVE  /\ v # NoStack /\ Started(v) \in Containers
             /\ Started(v) = [service |-> v.service, file |-> v.file]
  BY NoStackOK DEF Started, Containers
<1>2. NoStack \notin Containers
  BY NoStackOK DEF Containers
<1>3. ASSUME NEW r \in Containers PROVE r = [service |-> r.service, file |-> r.file]
  <2>1. PICK v \in Directory : r = Started(v)
    BY <1>3 DEF Containers
  <2>2. r = [service |-> v.service, file |-> v.file]
    BY <1>1, <2>1
  <2>3. QED
    BY <2>2
<1>4. ASSUME NEW r \in Containers, NEW v \in Directory
      PROVE  [r EXCEPT !.file = v.file] \in Containers /\ [r EXCEPT !.file = v.file].file = v.file
  <2>1. PICK w \in Directory : r = Started(w)
    BY <1>4 DEF Containers
  <2>2. r = [service |-> w.service, file |-> w.file]
    BY <1>1, <2>1
  <2> DEFINE x == [w EXCEPT !.file = v.file]
  <2>3. x \in Directory
    BY Directories
  <2>4. Started(x) = [service |-> x.service, file |-> x.file] /\ Started(x) \in Containers
    BY <1>1, <2>3
  <2>5. x.service = w.service /\ x.file = v.file
    BY Directories DEF Files
  <2>6. [r EXCEPT !.file = v.file] = [service |-> w.service, file |-> v.file]
    BY <2>2
  <2>7. QED
    BY <2>4, <2>5, <2>6
<1>5. QED
  BY <1>1, <1>2, <1>3, <1>4

(* Faults and commits are within their bounds. *)
LEMMA Bounded ==
  ASSUME TypeOK
  PROVE  /\ Fault => faults' \in 0..MaxFaults
         /\ commits < MaxCommits /\ commits' = commits + 1 => commits' \in 0..MaxCommits
<1>1. /\ faults \in 0..MaxFaults /\ commits \in 0..MaxCommits
      /\ MaxFaults \in Nat /\ MaxCommits \in Nat
  BY BoundsOK DEF TypeOK
<1>2. QED
  BY <1>1 DEF Fault

LEMMA InitInv == Init => IInv
<1> SUFFICES ASSUME Init PROVE IInv
  OBVIOUS
<1>1. repo \in [Stack -> Version \cup {NoStack}]
  BY DEF Init
<1>2. disk \in [Stack -> Directory \cup {NoStack}]
  BY <1>1, Directories DEF Init
<1>3. ran \in [Stack -> Containers \cup {NoStack}]
  <2>1. \A s \in Stack : Started(repo[s]) \in Containers \cup {NoStack}
    BY <1>1, Directories, ContainersOf DEF Started
  <2>2. ran = [s \in Stack |-> Started(repo[s])]
    BY DEF Init
  <2>3. QED
    BY <2>1, <2>2
<1>4. faults \in 0..MaxFaults /\ commits \in 0..MaxCommits
  <2>1. faults = 0 /\ commits = 0
    BY DEF Init
  <2>2. QED
    BY <2>1, BoundsOK
<1>5. TypeOK
  BY <1>1, <1>2, <1>3, <1>4 DEF Init, TypeOK, Containers
<1>6. FileInv
  <2>1. ASSUME NEW s \in Stack, disk[s] # NoStack PROVE disk[s].file = ran[s].file
    <3>1. disk[s] \in Directory /\ ran[s] = Started(disk[s])
      BY <1>2, <2>1 DEF Init
    <3>2. ran[s] = [service |-> disk[s].service, file |-> disk[s].file]
      BY <3>1, ContainersOf
    <3>3. QED
      BY <3>2
  <2>2. QED
    BY <2>1 DEF FileInv
<1>7. GateInv /\ ChoiceInv /\ LoopInv /\ DoneInv
  BY DEF Init, GateInv, Running, ChoiceInv, LoopInv, DoneInv
<1>8. QED
  BY <1>5, <1>6, <1>7 DEF IInv

-----------------------------------------------------------------------------
(* Each step keeps the invariant. *)

LEMMA StartRunKeeps == ASSUME IInv, StartRun PROVE IInv'
<1>1. TypeOK'
  BY DEF IInv, TypeOK, StartRun, world, Declarations
<1>2. GateInv'
  BY DEF IInv, TypeOK, GateInv, StartRun, world, Deferred
<1>3. ChoiceInv' /\ LoopInv'
  <2>1. Declarations' = Declarations
    BY DEF StartRun, world, Declarations, Declares
  <2>2. QED
    BY <2>1 DEF StartRun, ChoiceInv, LoopInv
<1>4. FileInv' /\ DoneInv'
  BY DEF IInv, StartRun, world, FileInv, DoneInv
<1>5. QED
  BY <1>1, <1>2, <1>3, <1>4 DEF IInv

(* A probe has one of the answers, and none of them overlooks work.        *)
LEMMA ProbeSeesWork ==
  ASSUME IInv, NEW s \in Stack
  PROVE  /\ Probed(s) \in {"idle", "busy", "check_failed", "not_deployed"}
         /\ s \in job => Probed(s) \in {"busy", "check_failed"}
<1>1. s \in job => ran[s] # NoStack /\ s \notin down
  BY DEF IInv, TypeOK, GateInv
<1>2. CASE repo[s].check = "invalid"
  BY <1>2 DEF Probed
<1>3. CASE repo[s].check # "invalid" /\ ran[s] = NoStack
  BY <1>1, <1>3 DEF Probed
<1>4. CASE /\ repo[s].check # "invalid" /\ ran[s] # NoStack
           /\ s \in down \/ ran[s].service # repo[s].service
  BY <1>4 DEF Probed
<1>5. CASE /\ repo[s].check # "invalid" /\ ran[s] # NoStack
           /\ ~(s \in down \/ ran[s].service # repo[s].service)
  BY <1>5 DEF Probed
<1>6. QED
  BY <1>2, <1>3, <1>4, <1>5

LEMMA ProbeStackKeeps == ASSUME IInv, NEW s \in Stack, ProbeStack(s) PROVE IInv'
<1>1. /\ pc = "probe" /\ pc' = pc /\ s \in todo /\ todo' = todo \ {s}
      /\ UNCHANGED <<world, choice, hostReason, work, killed, commits>>
      /\ working' = IF s \in job THEN working \cup {s} ELSE working
  BY DEF ProbeStack
<1>2. /\ answer' = [answer EXCEPT ![s] = answer'[s]]
      /\ answer'[s] \in {"idle", "busy", "check_failed", "not_deployed"}
      /\ s \in job => answer'[s] \in {"busy", "check_failed"}
  BY ProbeSeesWork DEF ProbeStack, IInv, TypeOK
<1>3. faults' \in 0..MaxFaults
  BY Bounded DEF ProbeStack, IInv, TypeOK
<1>4. s \in Known /\ Known' = Known /\ Declarations' = Declarations
  BY <1>1 DEF IInv, LoopInv, Declarations, Declares, Known, world
<1>5. TypeOK'
  BY <1>1, <1>2, <1>3 DEF IInv, TypeOK, world, choice, work
<1>6. Deferred' \subseteq Deferred \cup {s} /\ Deferred \ {s} \subseteq Deferred'
  BY <1>2 DEF IInv, TypeOK, Deferred
<1>7. s \in job => s \in Deferred'
  BY <1>2 DEF Deferred
<1>8. GateInv'
  <2>1. working' \subseteq Deferred' \cap job
    BY <1>1, <1>6, <1>7 DEF IInv, GateInv
  <2>2. QED
    BY <1>1, <1>4, <1>6, <2>1 DEF IInv, GateInv, Running, world
<1>9. ChoiceInv' /\ LoopInv'
  BY <1>1, <1>4 DEF IInv, ChoiceInv, LoopInv, Running, choice, work, world
<1>10. FileInv' /\ DoneInv'
  BY <1>1 DEF IInv, FileInv, DoneInv, world
<1>11. QED
  BY <1>5, <1>8, <1>9, <1>10 DEF IInv

(* The host's probe, leaving the host alone and a refused discovery change *)
(* no stack.                                                               *)
LEMMA ControlKeeps ==
  ASSUME IInv, ProbeHost \/ LeaveHost \/ DiscoveryFails
  PROVE  IInv'
<1>1. /\ UNCHANGED <<world, choice, todo, answer, work, history>> /\ hostReason' \in BOOLEAN
      /\ pc \in {"probe", "host", "discover"} /\ pc' \in {"host", "discover", "failed"}
  BY DEF ProbeHost, LeaveHost, DiscoveryFails, IInv, TypeOK, gate
<1>2. TypeOK'
  BY <1>1 DEF IInv, TypeOK, world, choice, work, history
<1>3. Deferred' = Deferred /\ Known' = Known
  BY <1>1 DEF Deferred, Known, world
<1>4. Running /\ GateInv' /\ ChoiceInv' /\ LoopInv'
  BY <1>1, <1>3 DEF IInv, GateInv, ChoiceInv, LoopInv, Running, world, choice, work, history
<1>5. FileInv' /\ DoneInv'
  BY <1>1 DEF IInv, FileInv, DoneInv, world
<1>6. QED
  BY <1>2, <1>4, <1>5 DEF IInv

(* The host is interrupted only when no stack of it is deferred, so that   *)
(* none of those that still work was at work when it was probed.           *)
LEMMA InterruptHostKeeps == ASSUME IInv, InterruptHost PROVE IInv'
<1>1. /\ pc = "host" /\ pc' = "discover" /\ Deferred = {}
      /\ job' = {} /\ touched' = {} /\ down' = {}
      /\ UNCHANGED <<repo, sourceThere, disk, choice, todo, gate, work, faults, commits>>
  BY DEF InterruptHost, HostDeferred, Interrupt, IInv, TypeOK
<1>2. working = {} /\ working' = {} /\ killed' = {}
  BY <1>1 DEF InterruptHost, Interrupt, IInv, GateInv
<1>3. ASSUME NEW s \in Stack
      PROVE  /\ ran'[s] \in Containers \cup {NoStack}
             /\ ran'[s] # NoStack /\ disk[s] # NoStack => ran'[s].file = disk[s].file
  <2>1. ran'[s] = IF ran[s] # NoStack /\ disk[s] # NoStack
                    THEN [ran[s] EXCEPT !.file = disk[s].file] ELSE ran[s]
    BY DEF InterruptHost
  <2>2. disk[s] \in Directory \cup {NoStack} /\ ran[s] \in Containers \cup {NoStack}
    BY DEF IInv, TypeOK, Containers
  <2>3. CASE ran[s] # NoStack /\ disk[s] # NoStack
    BY <2>1, <2>2, <2>3, ContainersOf
  <2>4. CASE ~(ran[s] # NoStack /\ disk[s] # NoStack)
    BY <2>1, <2>2, <2>4
  <2>5. QED
    BY <2>3, <2>4
<1>4. ran' \in [Stack -> Containers \cup {NoStack}]
  BY <1>3 DEF InterruptHost
<1>5. TypeOK'
  BY <1>1, <1>2, <1>4 DEF IInv, TypeOK, choice, gate, work, Containers
<1>6. Deferred' = Deferred /\ Known' = Known
  BY <1>1 DEF Deferred, Known, gate
<1>7. GateInv' /\ ChoiceInv' /\ LoopInv'
  BY <1>1, <1>2, <1>6 DEF IInv, GateInv, ChoiceInv, LoopInv, Running, choice, work
<1>8. FileInv' /\ DoneInv'
  BY <1>1, <1>3 DEF FileInv, DoneInv
<1>9. QED
  BY <1>5, <1>7, <1>8 DEF IInv

LEMMA DiscoverKeeps == ASSUME IInv, Discover PROVE IInv'
<1>1. /\ pc = "discover" /\ pc' = "down" /\ todo' = stale'
      /\ UNCHANGED <<world, choice, gate, itemFailed, history>>
      /\ Deferred' = Deferred /\ Known' = Known
  BY DEF Discover, Deferred, Known, gate, world
<1>2. /\ desired' \subseteq Known \ Deferred /\ stale' \cap Known = {} /\ stale' \subseteq Stack
      /\ filter # NoStack => desired' \subseteq {filter} /\ stale' = {}
      /\ ~sourceThere => stale' = {}
      /\ filter \in Known \cup {NoStack}
  BY DEF Discover, Refused, Deployed, Known
<1>3. Known \subseteq Stack
  BY DEF Known
<1>4. TypeOK'
  BY <1>1, <1>2, <1>3 DEF IInv, TypeOK, world, choice, gate, history
<1>5. GateInv' /\ ChoiceInv' /\ LoopInv'
  BY <1>1, <1>2 DEF IInv, GateInv, ChoiceInv, LoopInv, Running, world, choice, history
<1>6. FileInv' /\ DoneInv'
  BY <1>1 DEF IInv, FileInv, DoneInv, world
<1>7. QED
  BY <1>4, <1>5, <1>6 DEF IInv

-----------------------------------------------------------------------------
(* Stacks that a loop stops or starts are not deferred. *)

(* Containers that stop take no work with them that a probe saw.           *)
LEMMA NotDeferred ==
  ASSUME IInv, Running, NEW s \in Stack \ Deferred, Interrupt({s})
  PROVE  /\ killed' = {} /\ job' = job \ {s} /\ working' = working
<1>1. s \notin working
  BY DEF IInv, GateInv
<1>2. QED
  BY <1>1 DEF IInv, GateInv, Interrupt

LEMMA StopStaleKeeps == ASSUME IInv, NEW s \in Stack, StopStale(s) PROVE IInv'
<1>1. /\ pc = "down" /\ pc' = pc /\ s \in todo /\ todo' = todo \ {s}
      /\ UNCHANGED <<repo, sourceThere, disk, choice, gate, work, commits>>
      /\ Deferred' = Deferred /\ Known' = Known
  BY DEF StopStale, Deferred, Known, gate
<1>2. Running /\ s \notin Deferred
  BY <1>1 DEF IInv, GateInv, LoopInv, ChoiceInv, Running
<1>3. CASE /\ Interrupt({s})
           /\ ran' = [ran EXCEPT ![s] = NoStack] /\ touched' = touched \ {s} /\ down' = down \ {s}
           /\ UNCHANGED faults
  <2>1. killed' = {} /\ job' = job \ {s} /\ working' = working
    BY <1>2, <1>3, NotDeferred
  <2>2. TypeOK'
    BY <1>1, <1>3, <2>1 DEF IInv, TypeOK, choice, gate, work
  <2>3. s \notin working /\ ran'[s] = NoStack /\ \A t \in Stack \ {s} : ran'[t] = ran[t]
    BY <1>2, <1>3 DEF IInv, GateInv, TypeOK
  <2>4. GateInv' /\ ChoiceInv' /\ LoopInv'
    BY <1>1, <2>1, <2>3 DEF IInv, TypeOK, GateInv, ChoiceInv, LoopInv, Running, choice, work
  <2>5. FileInv' /\ DoneInv'
    BY <1>1, <1>3, <2>3 DEF IInv, FileInv, DoneInv
  <2>6. QED
    BY <2>2, <2>4, <2>5 DEF IInv
<1>4. CASE Fault /\ UNCHANGED <<ran, touched, down, job, working, killed>>
  <2>1. TypeOK'
    BY <1>1, <1>4, Bounded DEF IInv, TypeOK, choice, gate, work
  <2>2. GateInv' /\ ChoiceInv' /\ LoopInv'
    BY <1>1, <1>4 DEF IInv, GateInv, ChoiceInv, LoopInv, Running, choice, work
  <2>3. FileInv' /\ DoneInv'
    BY <1>1, <1>4 DEF IInv, FileInv, DoneInv
  <2>4. QED
    BY <2>1, <2>2, <2>3 DEF IInv
<1>5. QED
  BY <1>3, <1>4 DEF StopStale

(* The loop of docker compose down ends, and the loop of moves begins.     *)
LEMMA StaleStoppedKeeps == ASSUME IInv, StaleStopped PROVE IInv'
<1>1. /\ pc = "down" /\ pc' = "move" /\ todo' = stale
      /\ UNCHANGED <<world, choice, gate, work, history>>
      /\ Deferred' = Deferred /\ Known' = Known
  BY DEF StaleStopped, Deferred, Known, gate, world
<1>2. TypeOK'
  BY <1>1 DEF IInv, TypeOK, world, choice, gate, work, history
<1>3. GateInv' /\ ChoiceInv' /\ LoopInv'
  BY <1>1 DEF IInv, GateInv, ChoiceInv, LoopInv, Running, world, choice, work, history
<1>4. FileInv' /\ DoneInv'
  BY <1>1 DEF IInv, FileInv, DoneInv, world
<1>5. QED
  BY <1>2, <1>3, <1>4 DEF IInv

LEMMA MoveStaleKeeps == ASSUME IInv, NEW s \in Stack, MoveStale(s) PROVE IInv'
<1>1. /\ pc = "move" /\ pc' = pc /\ s \in todo /\ todo' = todo \ {s}
      /\ UNCHANGED <<repo, sourceThere, ran, touched, down, job, choice, gate, desired, stale>>
      /\ UNCHANGED <<working, killed, commits>>
      /\ Deferred' = Deferred /\ Known' = Known
  BY DEF MoveStale, Deferred, Known, gate
<1>2. /\ disk' = [disk EXCEPT ![s] = disk'[s]] /\ disk'[s] \in {disk[s], NoStack}
      /\ itemFailed' \in BOOLEAN /\ faults' \in 0..MaxFaults
  BY Bounded DEF MoveStale, IInv, TypeOK
<1>3. TypeOK'
  BY <1>1, <1>2 DEF IInv, TypeOK, choice, gate
<1>4. GateInv' /\ ChoiceInv' /\ LoopInv'
  BY <1>1 DEF IInv, GateInv, ChoiceInv, LoopInv, Running, choice
<1>5. FileInv' /\ DoneInv'
  BY <1>1, <1>2 DEF IInv, TypeOK, FileInv, DoneInv
<1>6. QED
  BY <1>3, <1>4, <1>5 DEF IInv

(* A loop that ends with a failure ends the run; otherwise the next begins *)
(* with its items.                                                         *)
LEMMA LoopEnds ==
  ASSUME IInv, NEW loop, NEW next, NEW items, EndLoop(loop, next, items),
         loop \in {"move", "write", "up", "recreate"},
         next \in {"plan", "up", "recreate", "ok"},
         items \subseteq Stack
  PROVE  /\ UNCHANGED <<world, choice, gate, work, history>>
         /\ Deferred' = Deferred /\ Known' = Known
         /\ Running /\ pc = loop /\ todo = {}
         /\ \/ itemFailed /\ pc' = "failed"
            \/ ~itemFailed /\ pc' = next /\ todo' = items
         /\ TypeOK' /\ GateInv' /\ ChoiceInv' /\ FileInv'
<1>1. UNCHANGED <<world, choice, gate, work, history>>
  BY DEF EndLoop
<1>2. Deferred' = Deferred /\ Known' = Known
  BY <1>1 DEF Deferred, Known, gate, world
<1>3. Running /\ pc = loop /\ todo = {}
  BY DEF EndLoop, Running
<1>4. \/ itemFailed /\ pc' = "failed" /\ todo' = todo
      \/ ~itemFailed /\ pc' = next /\ todo' = items
  BY DEF EndLoop
<1>5. TypeOK'
  BY <1>1, <1>3, <1>4 DEF IInv, TypeOK, world, choice, gate, work, history
<1>6. GateInv' /\ ChoiceInv' /\ FileInv'
  BY <1>1, <1>2, <1>3, <1>4
     DEF IInv, GateInv, ChoiceInv, FileInv, Running, world, choice, work, history
<1>7. QED
  BY <1>1, <1>2, <1>3, <1>4, <1>5, <1>6

LEMMA StaleMovedKeeps == ASSUME IInv, StaleMoved PROVE IInv'
<1>1. EndLoop("move", "plan", {})
  BY DEF StaleMoved
<1>2. /\ TypeOK' /\ GateInv' /\ ChoiceInv' /\ FileInv'
      /\ pc' \in {"failed", "plan"}
  BY <1>1, LoopEnds
<1>3. QED
  BY <1>2 DEF IInv, LoopInv, DoneInv

(* What is found includes what is desired, and nothing else is written.    *)
LEMMA FoundStacks ==
  ASSUME IInv, Running, pc \notin {"probe", "host", "discover"}
  PROVE  /\ desired \subseteq Found /\ Found \subseteq (Stack \cap Known) \ Deferred
         /\ filter \notin {NoStack, Namesake} => Found \subseteq {filter}
<1>1. /\ desired \subseteq Known \ Deferred /\ (filter # NoStack => desired \subseteq {filter})
      /\ filter \in Known \cup {NoStack}
  BY DEF IInv, ChoiceInv
<1>2. Known \subseteq Stack
  BY DEF Known
<1>3. QED
  BY <1>1, <1>2 DEF Found

LEMMA PlanFilesKeeps == ASSUME IInv, PlanFiles PROVE IInv'
<1>1. /\ pc = "plan" /\ UNCHANGED <<world, choice, gate, work, history>>
      /\ Deferred' = Deferred /\ Known' = Known
      /\ \/ pc' = "write" /\ todo' = Found \X Part
         \/ pc' = "failed" /\ todo' = todo
  BY DEF PlanFiles, Deferred, Known, gate, world
<1>2. /\ desired \subseteq Found /\ Found \X Part \subseteq Stack \X Part
      /\ Found' = Found
  BY <1>1, FoundStacks DEF Running, Found, choice
<1>3. TypeOK'
  BY <1>1, <1>2 DEF IInv, TypeOK, world, choice, gate, work, history
<1>4. GateInv' /\ ChoiceInv' /\ LoopInv'
  BY <1>1, <1>2 DEF IInv, GateInv, ChoiceInv, LoopInv, Running, world, choice, work, history
<1>5. FileInv'
  BY <1>1 DEF IInv, FileInv, world
<1>6. DoneInv'
  <2>1. ASSUME pc' = "write", NEW s \in desired PROVE WrittenOK(s)'
    BY <1>1, <1>2, <2>1 DEF WrittenOK, Part
  <2>2. QED
    BY <1>1, <2>1 DEF DoneInv, work
<1>7. QED
  BY <1>3, <1>4, <1>5, <1>6 DEF IInv

(* What writing one part leaves of a directory, or of none.                *)
LEMMA WrittenParts ==
  ASSUME IInv, NEW s \in Stack, repo[s] # NoStack, NEW part \in Part
  PROVE  LET w == Written(s, part)
         IN /\ w \in Directory
            /\ part = "compose" => /\ w.service = repo[s].service /\ w.check = repo[s].check
                                   /\ w.file = (IF disk[s] = NoStack THEN 0 ELSE disk[s].file)
            /\ part = "file" => /\ w.file = repo[s].file
                                /\ disk[s] # NoStack => /\ w.service = disk[s].service
                                                        /\ w.check = disk[s].check
<1> DEFINE old == IF disk[s] = NoStack THEN Empty ELSE disk[s]
<1>1. repo[s] \in Directory /\ repo[s] \in Files /\ old \in Directory /\ old \in Files
  BY Directories DEF IInv, TypeOK
<1>2. CASE part = "compose"
  <2>1. Written(s, part) = [repo[s] EXCEPT !.file = old.file]
    BY <1>2 DEF Written
  <2>2. old.file = IF disk[s] = NoStack THEN 0 ELSE disk[s].file
    BY DEF Empty
  <2>3. QED
    BY <1>1, <1>2, <2>1, <2>2, Directories DEF Files
<1>3. CASE part = "file"
  <2>1. Written(s, part) = [old EXCEPT !.file = repo[s].file]
    BY <1>3 DEF Written
  <2>2. QED
    BY <1>1, <1>3, <2>1, Directories DEF Files
<1>4. QED
  BY <1>2, <1>3 DEF Part

LEMMA WriteKeeps ==
  ASSUME IInv, NEW s \in Stack, NEW part \in Part, Write(s, part) PROVE IInv'
<1> DEFINE w == Written(s, part)
<1>1. /\ pc = "write" /\ pc' = pc /\ <<s, part>> \in todo /\ todo' = todo \ {<<s, part>>}
      /\ UNCHANGED <<repo, sourceThere, ran, down, job, choice, gate, desired, stale>>
      /\ UNCHANGED <<working, killed, commits>>
      /\ Deferred' = Deferred /\ Known' = Known
  BY DEF Write, Deferred, Known, gate
<1>2. /\ s \in Found /\ repo[s] # NoStack /\ disk[s] \in Directory \cup {NoStack}
      /\ Running /\ Found' = Found
  <2>1. Running /\ Found' = Found /\ s \in Found
    BY <1>1 DEF IInv, LoopInv, Running, Found, choice
  <2>2. QED
    BY <1>1, <2>1, FoundStacks DEF IInv, TypeOK, Known
<1>3. w \in Directory /\ w # NoStack
  BY <1>2, WrittenParts, ContainersOf
<1>4. CASE /\ disk' = [disk EXCEPT ![s] = w]
           /\ touched' = IF ran[s] # NoStack /\ part = "file" /\ w # disk[s]
                           THEN touched \cup {s} ELSE touched
           /\ UNCHANGED <<itemFailed, faults>>
  <2>1. disk'[s] = w /\ \A t \in Stack \ {s} : disk'[t] = disk[t]
    BY <1>4 DEF IInv, TypeOK
  <2>2. touched' \subseteq Stack
    BY <1>4 DEF IInv, TypeOK
  <2>3. TypeOK'
    BY <1>1, <1>3, <1>4, <2>2 DEF IInv, TypeOK, choice, gate
  <2>4. GateInv' /\ ChoiceInv' /\ LoopInv'
    BY <1>1, <1>2, <1>4 DEF IInv, GateInv, ChoiceInv, LoopInv, Running, choice
  <2>5. FileInv'
    <3>1. ASSUME s \notin touched', ran[s] # NoStack PROVE w.file \in {0, ran[s].file}
      <4>1. s \notin touched /\ (part = "file" => w = disk[s])
        BY <1>4, <3>1
      <4>2. disk[s] # NoStack => disk[s].file \in {0, ran[s].file}
        BY <3>1, <4>1 DEF IInv, FileInv
      <4>3. CASE part = "compose"
        BY <1>2, <4>2, <4>3, WrittenParts
      <4>4. CASE part = "file"
        BY <1>3, <4>1, <4>2, <4>4
      <4>5. QED
        BY <4>3, <4>4 DEF Part
    <3>2. ASSUME NEW t \in Stack \ touched', t # s, ran[t] # NoStack, disk[t] # NoStack
          PROVE  disk[t].file \in {0, ran[t].file}
      <4>1. t \notin touched
        BY <1>4, <3>2
      <4>2. QED
        BY <3>2, <4>1 DEF IInv, FileInv
    <3>3. QED
      BY <1>1, <2>1, <3>1, <3>2 DEF FileInv
  <2>6. DoneInv'
    <3>1. ASSUME ~itemFailed, s \in desired PROVE WrittenOK(s)'
      <4>1. WrittenOK(s)
        BY <1>1, <1>2, <3>1 DEF IInv, DoneInv
      <4>2. CASE part = "compose"
        <5>1. w.service = repo[s].service /\ w.check = repo[s].check
          BY <1>2, <4>2, WrittenParts
        <5>2. <<s, "file">> \notin todo => w.file = repo[s].file
          BY <1>2, <4>1, <4>2, WrittenParts DEF WrittenOK
        <5>3. <<s, "file">> \notin todo' => <<s, "file">> \notin todo
          BY <1>1, <4>2
        <5>4. QED
          BY <1>1, <1>3, <2>1, <5>1, <5>2, <5>3 DEF WrittenOK
      <4>3. CASE part = "file"
        <5>1. w.file = repo[s].file
          BY <1>2, <4>3, WrittenParts
        <5>2. <<s, "compose">> \notin todo =>
                w.service = repo[s].service /\ w.check = repo[s].check
          BY <1>2, <4>1, <4>3, WrittenParts DEF WrittenOK
        <5>3. <<s, "compose">> \notin todo' => <<s, "compose">> \notin todo
          BY <1>1, <4>3
        <5>4. QED
          BY <1>1, <1>3, <2>1, <5>1, <5>2, <5>3 DEF WrittenOK
      <4>4. QED
        BY <4>2, <4>3 DEF Part
    <3>2. ASSUME ~itemFailed, NEW t \in desired, t # s PROVE WrittenOK(t)'
      <4>1. WrittenOK(t) /\ t \in Stack
        BY <1>1, <3>2 DEF IInv, TypeOK, DoneInv
      <4>2. \A p \in Part : <<t, p>> \notin todo' => <<t, p>> \notin todo
        BY <1>1, <3>2
      <4>3. QED
        BY <1>1, <2>1, <3>2, <4>1, <4>2 DEF WrittenOK, Part
    <3>3. QED
      BY <1>1, <1>4, <3>1, <3>2 DEF DoneInv
  <2>7. QED
    BY <2>3, <2>4, <2>5, <2>6 DEF IInv
<1>5. CASE Fault /\ itemFailed' = TRUE /\ UNCHANGED <<disk, touched>>
  <2>1. TypeOK'
    BY <1>1, <1>5, Bounded DEF IInv, TypeOK, choice, gate
  <2>2. GateInv' /\ ChoiceInv' /\ LoopInv'
    BY <1>1, <1>2, <1>5 DEF IInv, GateInv, ChoiceInv, LoopInv, Running, choice
  <2>3. FileInv' /\ DoneInv'
    BY <1>1, <1>5 DEF IInv, FileInv, DoneInv
  <2>4. QED
    BY <2>1, <2>2, <2>3 DEF IInv
<1>6. QED
  BY <1>4, <1>5 DEF Write

LEMMA FilesWrittenKeeps == ASSUME IInv, FilesWritten PROVE IInv'
<1>1. EndLoop("write", "up", desired) /\ desired \subseteq Stack
  BY DEF FilesWritten, IInv, TypeOK
<1>2. /\ UNCHANGED <<world, choice, gate, work, history>>
      /\ Known' = Known /\ pc = "write" /\ todo = {}
      /\ \/ itemFailed /\ pc' = "failed"
         \/ ~itemFailed /\ pc' = "up" /\ todo' = desired
      /\ TypeOK' /\ GateInv' /\ ChoiceInv' /\ FileInv'
  BY <1>1, LoopEnds
<1>3. LoopInv'
  BY <1>2 DEF LoopInv, work
<1>4. ASSUME ~itemFailed, NEW s \in desired PROVE repo[s] # NoStack /\ disk[s] = repo[s]
  <2>1. WrittenOK(s)
    BY <1>2, <1>4 DEF IInv, DoneInv
  <2>2. /\ disk[s] # NoStack /\ disk[s].file = repo[s].file
        /\ disk[s].service = repo[s].service /\ disk[s].check = repo[s].check
    BY <1>2, <2>1 DEF WrittenOK
  <2>3. s \in Stack /\ repo[s] # NoStack
    BY <1>2, <1>4 DEF IInv, TypeOK, ChoiceInv, Known, Running
  <2>4. disk[s] \in Files /\ repo[s] \in Files
    BY <2>2, <2>3, Directories DEF IInv, TypeOK
  <2>5. QED
    BY <2>2, <2>3, <2>4 DEF Files
<1>5. DoneInv'
  BY <1>2, <1>4 DEF DoneInv, world, work
<1>6. QED
  BY <1>2, <1>3, <1>5 DEF IInv

(* A stack whose files are written restarts from them: its containers have *)
(* what the repository has, and its tracked file is no newer than they.    *)
LEMMA RestartKeeps ==
  ASSUME IInv, pc \in {"up", "recreate"}, NEW s \in desired, Restarted(s),
         UNCHANGED <<repo, sourceThere, disk, pc, choice, gate, desired, stale, commits>>,
         UNCHANGED <<itemFailed, faults>>, todo' = todo \ {s}
  PROVE  IInv'
<1>1. /\ Running /\ s \in Stack /\ s \notin Deferred
      /\ repo[s] # NoStack /\ disk[s] = repo[s] /\ disk[s] \in Directory
  BY Directories DEF IInv, TypeOK, ChoiceInv, DoneInv, Known, Running
<1>2. Deferred' = Deferred /\ Known' = Known
  BY DEF Deferred, Known, gate
<1>3. killed' = {} /\ job' = job \ {s} /\ working' = working
  BY <1>1, NotDeferred DEF Restarted
<1>4. /\ ran'[s] \in Containers /\ ran'[s] # NoStack
      /\ ran'[s].service = disk[s].service /\ ran'[s].file = disk[s].file
      /\ \A t \in Stack \ {s} : ran'[t] = ran[t]
      /\ ran' \in [Stack -> Containers \cup {NoStack}]
  <2>1. ran' = [ran EXCEPT ![s] = Started(disk[s])] /\ ran \in [Stack -> Containers \cup {NoStack}]
    BY DEF Restarted, IInv, TypeOK, Containers
  <2>2. /\ Started(disk[s]) \in Containers /\ NoStack \notin Containers
        /\ Started(disk[s]) = [service |-> disk[s].service, file |-> disk[s].file]
    BY <1>1, ContainersOf
  <2>3. QED
    BY <1>1, <2>1, <2>2
<1>5. touched' = touched \ {s} /\ down' = down \ {s}
  BY DEF Restarted
<1>6. TypeOK'
  BY <1>3, <1>4, <1>5 DEF IInv, TypeOK, choice, gate, Containers
<1>7. GateInv' /\ ChoiceInv' /\ LoopInv'
  BY <1>1, <1>2, <1>3, <1>4
     DEF IInv, TypeOK, GateInv, ChoiceInv, LoopInv, Running, choice
<1>8. FileInv'
  BY <1>4, <1>5 DEF IInv, FileInv
<1>9. UpOK(s)' /\ \A t \in Stack \ {s} : UpOK(t)' <=> UpOK(t)
  BY <1>1, <1>4 DEF UpOK
<1>10. DoneInv'
  BY <1>5, <1>9 DEF IInv, TypeOK, DoneInv
<1>11. QED
  BY <1>6, <1>7, <1>8, <1>10 DEF IInv

(* A docker compose that fails, or finds nothing to do, changes no stack.  *)
LEMMA LeftAloneKeeps ==
  ASSUME IInv, pc \in {"up", "recreate"}, NEW s \in desired,
         UNCHANGED <<ran, touched, down, job, working, killed>>,
         UNCHANGED <<repo, sourceThere, disk, pc, choice, gate, desired, stale, commits>>,
         todo' = todo \ {s}, faults' \in 0..MaxFaults,
         \/ itemFailed' = TRUE
         \/ itemFailed' = itemFailed /\ pc = "up" /\ UpOK(s)
  PROVE  IInv'
<1>1. Deferred' = Deferred /\ Known' = Known
  BY DEF Deferred, Known, gate
<1>2. TypeOK'
  BY DEF IInv, TypeOK, choice, gate
<1>3. GateInv' /\ ChoiceInv' /\ LoopInv'
  BY <1>1 DEF IInv, GateInv, ChoiceInv, LoopInv, Running, choice
<1>4. FileInv'
  BY DEF IInv, FileInv
<1>5. \A t \in Stack : UpOK(t)' <=> UpOK(t)
  BY DEF UpOK
<1>6. DoneInv'
  BY <1>5 DEF IInv, TypeOK, DoneInv
<1>7. QED
  BY <1>2, <1>3, <1>4, <1>6 DEF IInv

LEMMA UpKeeps == ASSUME IInv, NEW s \in Stack, Up(s) PROVE IInv'
<1>1. /\ pc = "up" /\ todo' = todo \ {s} /\ s \in desired
      /\ UNCHANGED <<repo, sourceThere, disk, pc, choice, gate, desired, stale, commits>>
  BY DEF Up, IInv, LoopInv
<1>2. CASE Restarted(s) /\ UNCHANGED <<itemFailed, faults>>
  BY <1>1, <1>2, RestartKeeps
<1>3. CASE Fault /\ itemFailed' = TRUE /\ UNCHANGED <<ran, touched, down, job, working, killed>>
  BY <1>1, <1>3, Bounded, LeftAloneKeeps DEF IInv
<1>4. CASE /\ ran[s] # NoStack /\ ran[s].service = disk[s].service
           /\ UNCHANGED <<ran, touched, down, job, working, killed, itemFailed, faults>>
  <2>1. UpOK(s) /\ faults' \in 0..MaxFaults
    BY <1>1, <1>4 DEF IInv, TypeOK, DoneInv, UpOK
  <2>2. QED
    BY <1>1, <1>4, <2>1, LeftAloneKeeps
<1>5. QED
  BY <1>2, <1>3, <1>4 DEF Up

LEMMA UpDoneKeeps == ASSUME IInv, UpDone PROVE IInv'
<1>1. EndLoop("up", "recreate", touched \cap desired) /\ touched \cap desired \subseteq Stack
  BY DEF UpDone, IInv, TypeOK
<1>2. /\ UNCHANGED <<world, choice, gate, work, history>>
      /\ pc = "up" /\ todo = {}
      /\ \/ itemFailed /\ pc' = "failed"
         \/ ~itemFailed /\ pc' = "recreate" /\ todo' = touched \cap desired
      /\ TypeOK' /\ GateInv' /\ ChoiceInv' /\ FileInv'
  BY <1>1, LoopEnds
<1>3. LoopInv'
  BY <1>2 DEF LoopInv, work
<1>4. \A t \in Stack : UpOK(t)' <=> UpOK(t)
  BY <1>2 DEF UpOK, world
<1>5. DoneInv'
  BY <1>2, <1>4 DEF IInv, TypeOK, DoneInv, world, work
<1>6. QED
  BY <1>2, <1>3, <1>5 DEF IInv

LEMMA RecreateKeeps == ASSUME IInv, NEW s \in Stack, Recreate(s) PROVE IInv'
<1>1. /\ pc = "recreate" /\ todo' = todo \ {s} /\ s \in desired
      /\ UNCHANGED <<repo, sourceThere, disk, pc, choice, gate, desired, stale, commits>>
  BY DEF Recreate, IInv, LoopInv
<1>2. CASE Restarted(s) /\ UNCHANGED <<itemFailed, faults>>
  BY <1>1, <1>2, RestartKeeps
<1>3. CASE Fault /\ itemFailed' = TRUE /\ UNCHANGED <<ran, touched, down, job, working, killed>>
  BY <1>1, <1>3, Bounded, LeftAloneKeeps DEF IInv
<1>4. QED
  BY <1>2, <1>3 DEF Recreate

LEMMA AllDoneKeeps == ASSUME IInv, AllDone PROVE IInv'
<1>1. EndLoop("recreate", "ok", {})
  BY DEF AllDone
<1>2. /\ UNCHANGED <<world, choice, gate, work, history>>
      /\ pc = "recreate" /\ todo = {}
      /\ \/ itemFailed /\ pc' = "failed"
         \/ ~itemFailed /\ pc' = "ok"
      /\ TypeOK' /\ GateInv' /\ ChoiceInv' /\ FileInv'
  BY <1>1, LoopEnds
<1>3. LoopInv'
  BY <1>2 DEF LoopInv
<1>4. \A t \in Stack : UpOK(t)' <=> UpOK(t)
  BY <1>2 DEF UpOK, world
<1>5. DoneInv'
  BY <1>2, <1>4 DEF IInv, TypeOK, DoneInv, world, work
<1>6. QED
  BY <1>2, <1>3, <1>5 DEF IInv

-----------------------------------------------------------------------------
(* A failed task, the repository, and the work in the containers. *)

LEMMA FailTaskKeeps == ASSUME IInv, FailTask PROVE IInv'
<1>1. /\ Running /\ pc' = "failed" /\ faults' \in 0..MaxFaults
      /\ UNCHANGED <<world, choice, todo, gate, work, working, killed, commits>>
      /\ Deferred' = Deferred
  BY Bounded DEF FailTask, IInv, Deferred, gate
<1>2. TypeOK'
  BY <1>1 DEF IInv, TypeOK, world, choice, gate, work
<1>3. GateInv' /\ ChoiceInv' /\ LoopInv'
  BY <1>1 DEF IInv, GateInv, ChoiceInv, LoopInv, Running, world
<1>4. FileInv' /\ DoneInv'
  BY <1>1 DEF IInv, FileInv, DoneInv, world
<1>5. QED
  BY <1>2, <1>3, <1>4 DEF IInv

LEMMA CommitKeeps == ASSUME IInv, Commit PROVE IInv'
<1>1. /\ pc' = "idle" /\ commits' \in 0..MaxCommits
      /\ UNCHANGED <<disk, ran, touched, down, job, choice, todo, gate, work>>
      /\ UNCHANGED <<working, killed, faults>>
      /\ Deferred' = Deferred
  BY Bounded DEF Commit, IInv, Deferred, gate
<1>2. repo' \in [Stack -> Version \cup {NoStack}] /\ sourceThere' \in BOOLEAN
  <2>1. CASE sourceThere' = ~sourceThere /\ UNCHANGED repo
    BY <2>1 DEF IInv, TypeOK
  <2>2. ASSUME NEW s \in Stack, NEW v \in Sources[s] \cup {NoStack},
               repo' = [repo EXCEPT ![s] = v], UNCHANGED sourceThere
        PROVE  repo' \in [Stack -> Version \cup {NoStack}] /\ sourceThere' \in BOOLEAN
    <3>1. v \in Version \cup {NoStack}
      BY <2>2 DEF Version
    <3>2. QED
      BY <2>2, <3>1 DEF IInv, TypeOK
  <2>3. QED
    BY <2>1, <2>2 DEF Commit
<1>3. TypeOK'
  BY <1>1, <1>2 DEF IInv, TypeOK, choice, gate, work
<1>4. GateInv' /\ ChoiceInv' /\ LoopInv'
  BY <1>1 DEF IInv, GateInv, ChoiceInv, LoopInv, Running
<1>5. FileInv' /\ DoneInv'
  BY <1>1 DEF IInv, FileInv, DoneInv
<1>6. QED
  BY <1>3, <1>4, <1>5 DEF IInv

(* Work that starts was not seen by a probe; work that ends or crashes was *)
(* not interrupted by the run.                                             *)
LEMMA OthersKeep ==
  ASSUME IInv, NEW s \in Stack, StartJob(s) \/ EndJob(s) \/ Crash(s)
  PROVE  IInv'
<1>1. /\ UNCHANGED <<repo, sourceThere, disk, ran, touched, pc, choice, todo, gate, work>>
      /\ UNCHANGED <<killed, commits>>
  BY DEF StartJob, EndJob, Crash, history
<1>2. Deferred' = Deferred /\ Known' = Known /\ Declarations' = Declarations
  BY <1>1 DEF Deferred, Known, Declarations, Declares, gate
<1>3. /\ down' \in {down, down \cup {s}} /\ job' \in {job, job \cup {s}, job \ {s}}
      /\ job' \subseteq Stack \ down' /\ (s \in job' => ran[s] # NoStack)
      /\ \/ working' = working /\ job \subseteq job'
         \/ working' = working \ {s} /\ job' = job \ {s}
  BY DEF StartJob, EndJob, Crash, history, IInv, TypeOK, GateInv
<1>4. faults' \in 0..MaxFaults
  BY Bounded DEF StartJob, EndJob, Crash, history, IInv, TypeOK
<1>5. TypeOK'
  BY <1>1, <1>3, <1>4 DEF IInv, TypeOK, choice, gate, work
<1>6. GateInv'
  BY <1>1, <1>2, <1>3 DEF IInv, GateInv, Running
<1>7. ChoiceInv' /\ LoopInv'
  BY <1>1, <1>2 DEF IInv, ChoiceInv, LoopInv, Running, Found, choice, work
<1>8. FileInv' /\ DoneInv'
  <2>1. \A t \in desired : (WrittenOK(t)' <=> WrittenOK(t)) /\ (UpOK(t)' <=> UpOK(t))
    BY <1>1 DEF WrittenOK, UpOK
  <2>2. QED
    BY <1>1, <2>1 DEF IInv, FileInv, DoneInv, work
<1>9. QED
  BY <1>5, <1>6, <1>7, <1>8 DEF IInv

LEMMA StutterKeeps == ASSUME IInv, UNCHANGED vars PROVE IInv'
<1>1. /\ UNCHANGED <<world, pc, choice, todo, gate, work, history>>
      /\ Deferred' = Deferred /\ Known' = Known /\ Declarations' = Declarations
  BY DEF vars, Deferred, Known, Declarations, Declares, world, gate
<1>2. TypeOK'
  BY <1>1 DEF IInv, TypeOK, world, choice, gate, work, history
<1>3. GateInv' /\ ChoiceInv' /\ LoopInv'
  BY <1>1 DEF IInv, GateInv, ChoiceInv, LoopInv, Running, Found, world, choice, work, history
<1>4. FileInv'
  BY <1>1 DEF IInv, FileInv, world
<1>5. \A s \in desired : (WrittenOK(s)' <=> WrittenOK(s)) /\ (UpOK(s)' <=> UpOK(s))
  BY <1>1 DEF WrittenOK, UpOK, world
<1>6. DoneInv'
  BY <1>1, <1>5 DEF IInv, DoneInv, world, work
<1>7. QED
  BY <1>2, <1>3, <1>4, <1>6 DEF IInv

(* Every step keeps the invariant.                                         *)
LEMMA NextKeeps == ASSUME IInv, [Next]_vars PROVE IInv'
<1>1. CASE StartRun
  BY <1>1, StartRunKeeps
<1>2. ASSUME NEW s \in Stack, ProbeStack(s) \/ StopStale(s) \/ MoveStale(s) \/ Up(s) \/ Recreate(s)
      PROVE  IInv'
  BY <1>2, ProbeStackKeeps, StopStaleKeeps, MoveStaleKeeps, UpKeeps, RecreateKeeps
<1>3. ASSUME NEW s \in Stack, NEW part \in Part, Write(s, part) PROVE IInv'
  BY <1>3, WriteKeeps
<1>4. CASE ProbeHost \/ LeaveHost \/ DiscoveryFails
  BY <1>4, ControlKeeps
<1>5. CASE InterruptHost \/ Discover
  BY <1>5, InterruptHostKeeps, DiscoverKeeps
<1>6. CASE StaleStopped \/ StaleMoved \/ PlanFiles \/ FilesWritten \/ UpDone \/ AllDone
  BY <1>6, StaleStoppedKeeps, StaleMovedKeeps, PlanFilesKeeps, FilesWrittenKeeps,
     UpDoneKeeps, AllDoneKeeps
<1>7. CASE FailTask \/ Commit
  BY <1>7, FailTaskKeeps, CommitKeeps
<1>8. ASSUME NEW s \in Stack, StartJob(s) \/ EndJob(s) \/ Crash(s) PROVE IInv'
  BY <1>8, OthersKeep
<1>9. CASE UNCHANGED vars
  BY <1>9, StutterKeeps
<1>10. QED
  BY <1>1, <1>2, <1>3, <1>4, <1>5, <1>6, <1>7, <1>8, <1>9 DEF Next, RunSteps

-----------------------------------------------------------------------------
(* The inductive invariant. *)
THEOREM InvHolds == Spec => []IInv
<1>1. IInv /\ [Next]_vars => IInv'
  BY NextKeeps
<1>2. QED
  BY InitInv, <1>1, PTL DEF Spec

(* The variables have their types, whatever the stacks and the faults.     *)
THEOREM TypeCorrect == Spec => []TypeOK
<1>1. IInv => TypeOK
  BY DEF IInv
<1>2. QED
  BY InvHolds, <1>1, PTL

(* No run interrupts work that was under way when it probed the stack,     *)
(* neither through the stack nor through the host.                         *)
THEOREM BusyWorkCorrect == Spec => []BusyWorkSurvives
<1>1. IInv => BusyWorkSurvives
  BY DEF IInv, GateInv, BusyWorkSurvives
<1>2. QED
  BY InvHolds, <1>1, PTL

(* A run that ends well leaves every stack that it took on written and     *)
(* running as the repository has it, its present tracked file included.    *)
THEOREM SuccessCorrect == Spec => []SuccessIsDeployed
<1>1. ASSUME IInv, pc = "ok", NEW s \in desired PROVE UpToDate(s)
  <2>1. /\ s \in Stack \ touched /\ repo[s] # NoStack /\ disk[s] = repo[s]
        /\ ran[s] # NoStack /\ ran[s].service = repo[s].service
    BY <1>1 DEF IInv, TypeOK, DoneInv, UpOK
  <2>2. /\ repo[s] \in Version /\ repo[s] \in Directory /\ repo[s].file # 0
        /\ ran[s] \in Containers
    BY <1>1, <2>1, Directories DEF IInv, TypeOK, Containers
  <2>3. ran[s].file = repo[s].file
    BY <1>1, <2>1, <2>2 DEF IInv, FileInv
  <2>4. ran[s] = [service |-> ran[s].service, file |-> ran[s].file]
    BY <2>2, ContainersOf
  <2>5. Started(repo[s]) = [service |-> repo[s].service, file |-> repo[s].file]
    BY <2>2, ContainersOf
  <2>6. QED
    BY <2>1, <2>3, <2>4, <2>5 DEF UpToDate
<1>2. IInv => SuccessIsDeployed
  BY <1>1 DEF SuccessIsDeployed
<1>3. QED
  BY InvHolds, <1>2, PTL

-----------------------------------------------------------------------------
(* What a step of a run changes: a stack that it stops, writes or starts,  *)
(* or all of them through a host that nothing defers.                      *)
LEMMA StepChanges ==
  ASSUME IInv, [Next]_vars, Running, NEW s \in Stack
  PROVE  \/ disk'[s] = disk[s] /\ ran'[s] = ran[s]
         \/ pc = "host" /\ Deferred = {}
         \/ s \in stale
         \/ s \in desired
         \/ ran'[s] = ran[s] /\ disk'[s] # NoStack /\ s \in Found
            /\ pc \notin {"probe", "host", "discover"}
<1>1. CASE UNCHANGED <<disk, ran>>
  BY <1>1
<1>2. CASE InterruptHost
  BY <1>2 DEF InterruptHost, HostDeferred
<1>3. ASSUME NEW t \in Stack, StopStale(t) \/ MoveStale(t) \/ Up(t) \/ Recreate(t)
      PROVE  \/ disk'[s] = disk[s] /\ ran'[s] = ran[s]
             \/ s \in stale \cup desired
  <2>1. t \in stale \cup desired
    BY <1>3 DEF StopStale, MoveStale, Up, Recreate, IInv, LoopInv
  <2>2. /\ disk' = disk \/ disk' = [disk EXCEPT ![t] = NoStack]
        /\ \/ ran' = ran
           \/ ran' = [ran EXCEPT ![t] = NoStack]
           \/ ran' = [ran EXCEPT ![t] = Started(disk[t])]
    BY <1>3 DEF StopStale, MoveStale, Up, Recreate, Restarted
  <2>3. QED
    BY <2>1, <2>2 DEF IInv, TypeOK
<1>4. ASSUME NEW t \in Stack, NEW part \in Part, Write(t, part)
      PROVE  \/ disk'[s] = disk[s] /\ ran'[s] = ran[s]
             \/ ran'[s] = ran[s] /\ disk'[s] # NoStack /\ s \in Found
                /\ pc \notin {"probe", "host", "discover"}
  <2>1. t \in Found /\ pc = "write"
    BY <1>4 DEF Write, IInv, LoopInv
  <2>2. ran' = ran /\ (disk' = disk \/ disk' = [disk EXCEPT ![t] = Written(t, part)])
    BY <1>4 DEF Write
  <2>3. repo[t] # NoStack
    BY <2>1, FoundStacks DEF Running, Known
  <2>4. Written(t, part) # NoStack
    BY <2>3, WrittenParts, ContainersOf
  <2>5. QED
    BY <2>1, <2>2, <2>4 DEF IInv, TypeOK
<1>5. CASE \/ StartRun \/ FailTask \/ Commit \/ ProbeHost \/ LeaveHost \/ DiscoveryFails
           \/ Discover \/ PlanFiles \/ StaleStopped
  BY <1>1, <1>5 DEF StartRun, FailTask, Commit, ProbeHost, LeaveHost, DiscoveryFails, Discover,
     PlanFiles, StaleStopped, world
<1>6. CASE StaleMoved \/ FilesWritten \/ UpDone \/ AllDone
  BY <1>1, <1>6 DEF StaleMoved, FilesWritten, UpDone, AllDone, EndLoop, world
<1>7. ASSUME NEW t \in Stack, ProbeStack(t) \/ StartJob(t) \/ EndJob(t) \/ Crash(t)
      PROVE  UNCHANGED <<disk, ran>>
  BY <1>7 DEF ProbeStack, StartJob, EndJob, Crash, world
<1>8. CASE UNCHANGED vars
  BY <1>1, <1>8 DEF vars, world
<1>9. QED
  BY <1>1, <1>2, <1>3, <1>4, <1>5, <1>6, <1>7, <1>8 DEF Next, RunSteps

(* A deferred stack keeps its files and its containers.                    *)
THEOREM DeferralCorrect == Spec => DeferredIsUntouched
<1>1. ASSUME IInv, [Next]_vars, Running, NEW s \in Deferred
      PROVE  disk'[s] = disk[s] /\ ran'[s] = ran[s]
  <2>1. s \in Stack /\ s \notin stale /\ s \notin desired
    BY <1>1 DEF Deferred, IInv, GateInv, ChoiceInv
  <2>2. s \notin Found
    BY <1>1 DEF Found
  <2>3. QED
    BY <1>1, <2>1, <2>2, StepChanges
<1>2. IInv /\ [Next]_vars =>
        [ \A s \in Deferred : Running => disk'[s] = disk[s] /\ (ran'[s] = ran[s]) ]_vars
  BY <1>1
<1>3. QED
  BY InvHolds, <1>2, PTL DEF Spec, DeferredIsUntouched

(* A run with a filter starts, stops and quarantines no other stack, and   *)
(* one that finds no stack sources none; files of other stacks are written *)
(* only under the filter that is the host's name, and never a deferred     *)
(* stack's.                                                                *)
THEOREM FilterCorrect == Spec => OthersAreLeftAlone
<1>1. ASSUME IInv, [Next]_vars, Running, pc # "host", NEW s \in Stack,
             filter \notin {NoStack, s} \/ ~sourceThere
      PROVE  /\ ran'[s] = ran[s]
             /\ disk'[s] = disk[s] \/ (sourceThere /\ filter = Namesake /\ FilesOnly(s))
  <2>1. s \notin stale /\ s \notin desired
    BY <1>1 DEF IInv, ChoiceInv, Known
  <2>2. CASE s \in Found /\ disk'[s] # NoStack /\ pc \notin {"probe", "host", "discover"}
    <3>1. s \in Known /\ s \notin Deferred /\ (filter \notin {NoStack, Namesake} => s = filter)
      BY <1>1, <2>2, FoundStacks
    <3>2. sourceThere
      BY <3>1 DEF Known
    <3>3. QED
      BY <1>1, <2>1, <2>2, <3>1, <3>2, StepChanges DEF FilesOnly
  <2>3. CASE ~(s \in Found /\ disk'[s] # NoStack /\ pc \notin {"probe", "host", "discover"})
    BY <1>1, <2>1, <2>3, StepChanges
  <2>4. QED
    BY <2>2, <2>3
<1>2. IInv /\ [Next]_vars =>
        [ Running /\ pc # "host" =>
            \A s \in Stack : (filter \notin {NoStack, s} \/ ~sourceThere) =>
              /\ ran'[s] = ran[s]
              /\ disk'[s] = disk[s] \/ (sourceThere /\ filter = Namesake /\ FilesOnly(s)) ]_vars
  BY <1>1
<1>3. QED
  BY InvHolds, <1>2, PTL DEF Spec, OthersAreLeftAlone
==============================================================================
