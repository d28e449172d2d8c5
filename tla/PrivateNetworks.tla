-------------------------- MODULE PrivateNetworks --------------------------
(***************************************************************************)
(* What ensure_student_network promises its callers: the first call for a  *)
(* user gives him a vnet and a subnet nobody else has, all at once, and    *)
(* every call answers with what he was given, for ever.                    *)
(***************************************************************************)
CONSTANTS
  Users, Vnets, Subnets,
  Callers,   \* the jobs and requests that ask for networks
  None

VARIABLES
  network,   \* user |-> his [vnet, subnet], or None
  answer     \* caller |-> the [user, vnet, subnet] it has been told, or None

vars == <<network, answer>>

Init ==
  /\ network = [u \in Users |-> None]
  /\ answer = [c \in Callers |-> None]

Shared(n, m) == n.vnet = m.vnet \/ n.subnet = m.subnet

\* What may be, or has been, given to u.
Given(u, n) ==
  \/ network[u] = n
  \/ /\ network[u] = None
     /\ \A x \in Users : network[x] # None => ~ Shared(n, network[x])

Ensure(c, u) ==
  /\ answer[c] = None
  /\ \E n \in [vnet : Vnets, subnet : Subnets] :
       /\ answer' = [answer EXCEPT ![c] = [user |-> u, vnet |-> n.vnet, subnet |-> n.subnet]]
       /\ Given(u, n)
       /\ network' = [network EXCEPT ![u] = n]

\* The caller has used its answer, or died with it.
Return(c) ==
  /\ answer[c] # None
  /\ answer' = [answer EXCEPT ![c] = None]
  /\ UNCHANGED network

Next == \E c \in Callers : Return(c) \/ \E u \in Users : Ensure(c, u)

Spec == Init /\ [][Next]_vars
-----------------------------------------------------------------------------
Nets == [vnet : Vnets, subnet : Subnets]

TypeOK ==
  /\ network \in [Users -> Nets \cup {None}]
  /\ answer \in [Callers -> [user : Users, vnet : Vnets, subnet : Subnets] \cup {None}]

\* No two users have anything in common.
Private ==
  \A u, x \in Users :
    u # x /\ network[u] # None /\ network[x] # None => ~ Shared(network[u], network[x])

\* Every caller has been told what its user has.
ToldTruly ==
  \A c \in Callers :
    answer[c] # None =>
      network[answer[c].user] = [vnet |-> answer[c].vnet, subnet |-> answer[c].subnet]

\* Two callers that ask for one user are told the same, and two that ask for
\* different users nothing that is the same.
AnswersAgree ==
  \A c, d \in Callers :
    answer[c] # None /\ answer[d] # None =>
      IF answer[c].user = answer[d].user THEN answer[c] = answer[d]
                                         ELSE ~ Shared(answer[c], answer[d])

\* What a user has been given he keeps.
Kept == [][\A u \in Users : network[u] # None => network'[u] = network[u]]_vars
=============================================================================
