------------------------- MODULE MCSessionTimeouts -------------------------
(***************************************************************************)
(* Instances of SessionTimeouts for TLC: alice owns the VMs, and has every *)
(* request to them.                                                        *)
(***************************************************************************)
EXTENDS SessionTimeouts, TLC

CONSTANTS alice

OwnPool == [n \in Names |-> n]
AlicesVMs == [v \in VMs |-> alice]
EveryVM == [u \in Users |-> VMs]
WebSymmetry == Permutations(Web)
VMSymmetry == Permutations(VMs)
=============================================================================
