----------------------------- MODULE MCSettings -----------------------------
(***************************************************************************)
(* Instances of Settings for TLC: one name for a pool, as the requests on  *)
(* different names do not meet.                                            *)
(***************************************************************************)
EXTENDS Settings, TLC
=============================================================================
