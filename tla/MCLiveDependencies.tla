-------------------------- MODULE MCLiveDependencies --------------------------
(* An instance of LiveDependencies for TLC: a deployment that consumes a    *)
(* collection and a role, an inspection that consumes the collection, and   *)
(* a validation, which installs every declared collection.                  *)
EXTENDS LiveDependencies, TLC

CONSTANTS site, inspect, validate, proxmox, docker

MCLockClass == site :> "exclusive" @@ inspect :> "shared" @@ validate :> "none"
MCConsumes == site :> {proxmox, docker} @@ inspect :> {proxmox} @@ validate :> {}
==============================================================================
