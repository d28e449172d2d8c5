------------------------ MODULE PrivateNetworks_proofs ------------------------
(***************************************************************************)
(* What the callers of PrivateNetworks, and so, while no vnet is removed by*)
(* hand, those of ensure_student_network may rely on.                      *)
(***************************************************************************)
EXTENDS PrivateNetworks, TLAPS

Promise == TypeOK /\ Private /\ ToldTruly

LEMMA EnsureKeeps ==
  ASSUME None \notin Nets, Promise, NEW c \in Callers, NEW u \in Users, Ensure(c, u)
  PROVE  Promise' /\ \A x \in Users : network[x] # None => network'[x] = network[x]
<1>1. PICK n \in Nets :
        /\ answer' = [answer EXCEPT ![c] = [user |-> u, vnet |-> n.vnet, subnet |-> n.subnet]]
        /\ Given(u, n)
        /\ network' = [network EXCEPT ![u] = n]
  BY DEF Ensure, Nets
<1>2. n # None /\ n = [vnet |-> n.vnet, subnet |-> n.subnet]
  BY DEF Nets
<1>3. /\ network \in [Users -> Nets \cup {None}]
      /\ answer \in [Callers -> [user : Users, vnet : Vnets, subnet : Subnets] \cup {None}]
  BY DEF Promise, TypeOK
<1>4. \A x \in Users : network[x] # None => network'[x] = network[x]
  BY <1>1, <1>3 DEF Given
<1>5. TypeOK'
  BY <1>1, <1>3 DEF TypeOK, Nets
<1>6. Private'
  <2> SUFFICES ASSUME NEW x \in Users, NEW y \in Users, x # y,
                      network'[x] # None, network'[y] # None
               PROVE  ~ Shared(network'[x], network'[y])
    BY DEF Private
  <2>1. CASE x # u /\ y # u
    BY <1>1, <1>3, <2>1 DEF Promise, Private
  <2>2. ASSUME NEW z \in Users, z # u, network[z] # None
        PROVE  ~ Shared(n, network[z]) /\ ~ Shared(network[z], n)
    BY <1>1, <1>2, <2>2 DEF Given, Promise, Private, Shared
  <2> QED
    BY <1>1, <1>3, <2>1, <2>2
<1>7. ToldTruly'
  <2> SUFFICES ASSUME NEW d \in Callers, answer'[d] # None
               PROVE  network'[answer'[d].user]
                        = [vnet |-> answer'[d].vnet, subnet |-> answer'[d].subnet]
    BY DEF ToldTruly
  <2>1. CASE d = c
    BY <1>1, <1>2, <1>3, <2>1
  <2>2. CASE d # c
    <3>1. /\ answer'[d] = answer[d] /\ answer[d].user \in Users
          /\ network[answer[d].user] = [vnet |-> answer[d].vnet, subnet |-> answer[d].subnet]
          /\ network[answer[d].user] \in Nets
      BY <1>1, <1>3, <2>2 DEF Promise, ToldTruly, Nets
    <3> QED
      BY <1>4, <3>1
  <2> QED
    BY <2>1, <2>2
<1> QED
  BY <1>4, <1>5, <1>6, <1>7 DEF Promise

LEMMA NextKeeps ==
  ASSUME None \notin Nets, Promise, [Next]_vars
  PROVE  Promise' /\ \A x \in Users : network[x] # None => network'[x] = network[x]
<1>1. ASSUME NEW c \in Callers, NEW u \in Users, Ensure(c, u)
      PROVE  Promise' /\ \A x \in Users : network[x] # None => network'[x] = network[x]
  BY <1>1, EnsureKeeps
<1>2. ASSUME network' = network, \A c \in Callers : answer'[c] \in {answer[c], None},
             answer' \in [Callers -> [user : Users, vnet : Vnets, subnet : Subnets] \cup {None}]
      PROVE  Promise'
  BY <1>2 DEF Promise, TypeOK, Private, ToldTruly
<1>3. ASSUME NEW c \in Callers, Return(c) PROVE Promise'
  BY <1>2, <1>3 DEF Return, Promise, TypeOK
<1>4. CASE UNCHANGED vars
  BY <1>2, <1>4 DEF vars, Promise, TypeOK
<1> QED
  BY <1>1, <1>3, <1>4 DEF Next, Return, vars

\* Whoever has been told of a network - the job that attaches a VM, or the
\* request that adds an interface - knows the one of its user: two callers of
\* ensure_student_network are told the same for one user, and nothing in common
\* for two.
THEOREM CallersAgree ==
  ASSUME None \notin Nets
  PROVE  Spec => []AnswersAgree
<1>1. Init => Promise
  BY DEF Init, Promise, TypeOK, Private, ToldTruly
<1>2. Promise /\ [Next]_vars => Promise'
  BY NextKeeps
<1>3. Promise => AnswersAgree
  <2> SUFFICES ASSUME Promise, NEW c \in Callers, NEW d \in Callers,
                      answer[c] # None, answer[d] # None
               PROVE  IF answer[c].user = answer[d].user THEN answer[c] = answer[d]
                                                         ELSE ~ Shared(answer[c], answer[d])
    BY DEF AnswersAgree
  <2>1. /\ answer[c] \in [user : Users, vnet : Vnets, subnet : Subnets]
        /\ answer[d] \in [user : Users, vnet : Vnets, subnet : Subnets]
    BY DEF Promise, TypeOK
  <2>2. /\ network[answer[c].user] = [vnet |-> answer[c].vnet, subnet |-> answer[c].subnet]
        /\ network[answer[d].user] = [vnet |-> answer[d].vnet, subnet |-> answer[d].subnet]
    BY DEF Promise, ToldTruly
  <2>3. CASE answer[c].user = answer[d].user
    BY <2>1, <2>2, <2>3
  <2>4. CASE answer[c].user # answer[d].user
    <3>1. network[answer[c].user] \in Nets /\ network[answer[d].user] \in Nets
      BY <2>1, <2>2 DEF Nets
    <3>2. ~ Shared(network[answer[c].user], network[answer[d].user])
      BY <2>1, <2>4, <3>1 DEF Promise, Private
    <3> QED
      BY <2>2, <2>4, <3>2 DEF Shared
  <2> QED
    BY <2>3, <2>4
<1> QED
  BY <1>1, <1>2, <1>3, PTL DEF Spec

\* What a user has been given he keeps, and no other user is given any of it.
THEOREM NetworksAreKept ==
  ASSUME None \notin Nets
  PROVE  Spec => []Private /\ Kept
<1>1. Init => Promise
  BY DEF Init, Promise, TypeOK, Private, ToldTruly
<1>2. Promise /\ [Next]_vars =>
        Promise' /\ \A u \in Users : network[u] # None => network'[u] = network[u]
  BY NextKeeps
<1>3. Promise => Private
  BY DEF Promise
<1> QED
  BY <1>1, <1>2, <1>3, PTL DEF Spec, Kept
===============================================================================
