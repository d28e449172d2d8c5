---------------------------- MODULE MCVncTargets ----------------------------
(***************************************************************************)
(* Instances of VncTargets for TLC: two VMs of one host, whose proxies may *)
(* get the same port one after the other.                                  *)
(***************************************************************************)
EXTENDS VncTargets, TLC
=============================================================================
