--------------------------- MODULE MCVmLifecycle ---------------------------
(***************************************************************************)
(* Instances of VmLifecycle for TLC.  A life and a week last a day or two, *)
(* so that a VM is stopped on one day, refused a start on the next and     *)
(* deleted on the last.  The nightly job visits the pool of alice; that of *)
(* bob, where a run has it, is one get_pools leaves out.                   *)
(***************************************************************************)
EXTENDS VmLifecycle, TLC
=============================================================================
