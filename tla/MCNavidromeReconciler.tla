------------------------ MODULE MCNavidromeReconciler ------------------------
(* An instance of NavidromeReconciler for TLC: a user, the account of the   *)
(* writers and two mail addresses.                                          *)
EXTENDS NavidromeReconciler

CONSTANTS alice, automation
==============================================================================
