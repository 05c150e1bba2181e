---------------------------- MODULE MCLxcLifecycle ----------------------------
(* Instances of LxcLifecycle for TLC: which guests there are, what         *)
(* inventory says of them, and which commands the operator may give.       *)
EXTENDS LxcLifecycle

CONSTANTS h1, h2, h3, old, new

MCDesired == [h \in Host |-> new]

MCRank == [h \in Host |-> CASE h = h1 -> 1 [] h = h2 -> 2 [] h = h3 -> 3]

Plain(intent) == [intent |-> intent, check |-> FALSE, override |-> FALSE, self |-> FALSE]

(* ./run.sh *)
MCFull == {Plain("full")}

(* ./run.sh, ./run.sh --check, ./run.sh provision *)
MCFullCheckProvision ==
  MCFull \cup {[Plain("full") EXCEPT !.check = TRUE], Plain("provision_only")}

(* Every intent; --interrupt-busy; --include-controller. *)
MCEvery ==
  {Plain(i) : i \in Intent}
    \cup {[Plain("full") EXCEPT !.override = TRUE], [Plain("full") EXCEPT !.self = TRUE]}
==============================================================================
