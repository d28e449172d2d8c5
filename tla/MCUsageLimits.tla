---------------------------- MODULE MCUsageLimits ----------------------------
(***************************************************************************)
(* Instances of UsageLimits for TLC.  The template is a small VM, as are   *)
(* the VMs the user has; the limits allow two of them, or one.             *)
(***************************************************************************)
EXTENDS UsageLimits, TLC

MCTemplate == [cpu |-> 2, cores |-> 1, mem |-> 1024, size |-> 2]
MCLimits == {[cpu |-> 2, mem |-> 2, disk |-> 4], [cpu |-> 1, mem |-> 1, disk |-> 2]}
Symmetry == Permutations(VMs) \cup Permutations(Web)
=============================================================================
