---------------------------- MODULE MCHostConfig ----------------------------
(* An instance of HostConfig for TLC: two sections and a wait of some      *)
(* attempts.                                                               *)
EXTENDS HostConfig

MCSections == <<"idmap", "bind_mounts">>
=============================================================================
