------------------------ MODULE StudentNetwork_proofs ------------------------
(***************************************************************************)
(* Proofs about StudentNetwork, for any number of users, jobs, subnets,    *)
(* attempts, failed calls and unread listings.                             *)
(***************************************************************************)
EXTENDS StudentNetwork, TLAPS

USE SubnetsAssumption, BoundsAssumption, VnetOfAssumption

\* The absent value is none of the values it stands in for.
LEMMA NoneIsNothing ==
  None \notin Users /\ None \notin Vnets /\ None \notin Subnets /\ None \notin Rows
BY NoneAssumption DEF Rows

\* What a job may hold: a row, nothing, or a row half built.
LEMMA NetsType ==
  /\ Rows \subseteq Nets /\ NoNet \in Nets
  /\ \A n \in Rows : n.id \in 1 .. MaxId /\ n.vnet \in Vnets /\ n.subnet \in Subnets
  /\ \A n \in Nets, v \in Vnets :
       /\ [id |-> n.id, vnet |-> v, subnet |-> None] \in Nets
       /\ [id |-> n.id, vnet |-> v, subnet |-> None].vnet = v
       /\ [id |-> n.id, vnet |-> v, subnet |-> None].id = n.id
  /\ \A i \in 1 .. MaxId, v \in Vnets, s \in Subnets :
       [id |-> i, vnet |-> v, subnet |-> s] \in Rows
BY DEF Rows, Nets, NoNet

\* A step of one job disturbs the types of that job only.
LEMMA OneJobMoves ==
  ASSUME JobType, NEW w \in Workers, JobTypes', HoldsWhatItNeeds(w)',
         \A x \in Workers \ {w} : /\ pc'[x] = pc[x] /\ user'[x] = user[x]
                                  /\ net'[x] = net[x] /\ mode'[x] = mode[x]
  PROVE  JobType'
BY DEF JobType, HoldsWhatItNeeds, Rows, Building

\* A job that ends leaves a worker that is well-typed and has no user.
LEMMA EndType ==
  ASSUME JobType, NEW w \in Workers, End(w)
  PROVE  JobType'
<1>1. /\ pc' = [pc EXCEPT ![w] = "idle"]
      /\ user' = [user EXCEPT ![w] = None]
      /\ net' = [net EXCEPT ![w] = NoNet]
      /\ mode' = [mode EXCEPT ![w] = "adopt"]
      /\ reserved' = [reserved EXCEPT ![w] = {}]
      /\ attempts' = [attempts EXCEPT ![w] = 0]
  BY DEF End, Goto
<1>2. JobTypes'
  BY <1>1, NetsType DEF JobType, JobTypes, JobStates
<1>3. HoldsWhatItNeeds(w)'
  BY <1>1 DEF JobType, JobTypes, HoldsWhatItNeeds, Building
<1> QED
  BY <1>1, <1>2, <1>3, OneJobMoves DEF JobType, JobTypes

LEMMA InitType == Init => TypeOK
BY DEF Init, TypeOK, DbType, ProxmoxType, JobType, JobTypes, HoldsWhatItNeeds,
   JobStates, Building, NoNet, Nets, Stages

\* The types are inductive, one step per action.
LEMMA NextType ==
  ASSUME TypeOK, [Next]_vars
  PROVE  TypeOK'
<1> USE DEF TypeOK, JobType, JobTypes
<1>1. ASSUME NEW w \in Workers, NEW u \in Users, Begin(w, u) PROVE TypeOK'
  <2>1. pc' \in [Workers -> JobStates]
    BY <1>1 DEF Goto, JobStates, Building, Begin
  <2>2. /\ user' \in [Workers -> Users \cup {None}]
        /\ mode' \in [Workers -> {"adopt", "repair", "collided", "new"}]
        /\ reserved' \in [Workers -> SUBSET Subnets]
        /\ attempts' \in [Workers -> 0 .. MaxAttempts]
    BY <1>1 DEF Begin
  <2>3. net' \in [Workers -> Nets]
    <3>1. row[u] # None => row[u] \in Nets
      BY NetsType DEF DbType
    <3> QED
      BY <1>1, <3>1 DEF Begin
  <2>4. HoldsWhatItNeeds(w)'
    BY <1>1, NoneIsNothing, NetsType DEF HoldsWhatItNeeds, Goto, Building, DbType, Begin
  <2>5. \A x \in Workers \ {w} : /\ pc'[x] = pc[x] /\ user'[x] = user[x]
                                 /\ net'[x] = net[x] /\ mode'[x] = mode[x]
    BY <1>1 DEF Goto, Begin
  <2>6. JobType'
    BY <2>1, <2>2, <2>3, <2>4, <2>5, OneJobMoves DEF JobType, JobTypes
  <2>7. DbType'
    BY <1>1 DEF DbType, HoldsWhatItNeeds, Building, Begin, db
  <2>8. ProxmoxType'
    BY <1>1, NetsType DEF ProxmoxType, HoldsWhatItNeeds, Building, Begin, proxmox, bounds
  <2> QED
    BY <1>1, <2>6, <2>7, <2>8 DEF TypeOK, Begin, proxmox, bounds
<1>2. ASSUME NEW w \in Workers, FindByAlias(w) PROVE TypeOK'
  <2>1. pc' \in [Workers -> JobStates]
    BY <1>2 DEF Goto, JobStates, Building, FindByAlias, AdoptNothing
  <2>2. /\ user' \in [Workers -> Users \cup {None}]
        /\ mode' \in [Workers -> {"adopt", "repair", "collided", "new"}]
        /\ reserved' \in [Workers -> SUBSET Subnets]
        /\ attempts' \in [Workers -> 0 .. MaxAttempts]
    BY <1>2 DEF FindByAlias, AdoptNothing
  <2>3. net' \in [Workers -> Nets]
    <3>1. ASSUME NEW v \in Vnets,
                 net' = [net EXCEPT ![w] = [id |-> @.id, vnet |-> v, subnet |-> None]]
          PROVE  net' \in [Workers -> Nets]
      <4>1. [id |-> net[w].id, vnet |-> v, subnet |-> None] \in Nets
        BY NetsType
      <4> QED
        BY <3>1, <4>1
    <3> QED
      BY <1>2, <3>1 DEF FindByAlias
  <2>4. HoldsWhatItNeeds(w)'
    BY <1>2, NoneIsNothing, NetsType DEF HoldsWhatItNeeds, Goto, Building, FindByAlias, AdoptNothing
  <2>5. \A x \in Workers \ {w} : /\ pc'[x] = pc[x] /\ user'[x] = user[x]
                                 /\ net'[x] = net[x] /\ mode'[x] = mode[x]
    BY <1>2 DEF Goto, FindByAlias, AdoptNothing
  <2>6. JobType'
    BY <2>1, <2>2, <2>3, <2>4, <2>5, OneJobMoves DEF JobType, JobTypes
  <2>7. DbType'
    BY <1>2 DEF DbType, HoldsWhatItNeeds, Building, FindByAlias, AdoptNothing, db
  <2>8. ProxmoxType'
    BY <1>2, NetsType DEF ProxmoxType, HoldsWhatItNeeds, Building, FindByAlias, AdoptNothing,
       proxmox, Unread
  <2> QED
    BY <1>2, <2>6, <2>7, <2>8 DEF TypeOK, FindByAlias, AdoptNothing,
       proxmox, Unread
<1>3. ASSUME NEW w \in Workers, NEW s \in Subnets, AdoptSave(w, s) PROVE TypeOK'
  <2>1. pc' \in [Workers -> JobStates]
    BY <1>3 DEF Goto, JobStates, Building, AdoptSave
  <2>2. /\ user' \in [Workers -> Users \cup {None}]
        /\ mode' \in [Workers -> {"adopt", "repair", "collided", "new"}]
        /\ reserved' \in [Workers -> SUBSET Subnets]
        /\ attempts' \in [Workers -> 0 .. MaxAttempts]
    BY <1>3 DEF AdoptSave
  <2>3. net' \in [Workers -> Nets] /\ net'[w] \in Rows
    <3>1. net[w].vnet \in Vnets /\ (mode[w] = "collided" => net[w].id \in 1 .. MaxId)
      BY <1>3 DEF HoldsWhatItNeeds, AdoptSave
    <3>2. CASE mode[w] = "collided"
      <4>1. [id |-> net[w].id, vnet |-> net[w].vnet, subnet |-> s] \in Rows
        BY <3>1, <3>2, NetsType
      <4>2. net' = [net EXCEPT ![w] = [id |-> net[w].id, vnet |-> net[w].vnet, subnet |-> s]]
        BY <1>3, <3>2 DEF AdoptSave
      <4> QED
        BY <4>1, <4>2, NetsType
    <3>3. CASE mode[w] # "collided"
      <4>1. nextId \in 1 .. MaxId
        BY <1>3, <3>3 DEF AdoptSave, DbType
      <4>2. [id |-> nextId, vnet |-> net[w].vnet, subnet |-> s] \in Rows
        BY <3>1, <4>1, NetsType
      <4>3. net' = [net EXCEPT ![w] = [id |-> nextId, vnet |-> net[w].vnet, subnet |-> s]]
        BY <1>3, <3>3 DEF AdoptSave
      <4> QED
        BY <4>2, <4>3, NetsType
    <3> QED
      BY <3>2, <3>3
  <2>4. HoldsWhatItNeeds(w)'
    BY <1>3, <2>3, NoneIsNothing, NetsType DEF HoldsWhatItNeeds, Goto, Building, AdoptSave
  <2>5. \A x \in Workers \ {w} : /\ pc'[x] = pc[x] /\ user'[x] = user[x]
                                 /\ net'[x] = net[x] /\ mode'[x] = mode[x]
    BY <1>3 DEF Goto, AdoptSave
  <2>6. JobType'
    BY <2>1, <2>2, <2>3, <2>4, <2>5, OneJobMoves DEF JobType, JobTypes
  <2>7. DbType'
    BY <1>3, <2>3 DEF DbType, HoldsWhatItNeeds, AdoptSave
  <2>8. ProxmoxType'
    BY <1>3, NetsType DEF ProxmoxType, HoldsWhatItNeeds, Building, AdoptSave, proxmox, bounds
  <2> QED
    BY <1>3, <2>6, <2>7, <2>8 DEF TypeOK, AdoptSave, proxmox, bounds
<1>4. ASSUME NEW w \in Workers, AdoptRefused(w) PROVE TypeOK'
  BY <1>4, EndType DEF AdoptRefused, DbType, ProxmoxType, db, proxmox, bounds
<1>5. ASSUME NEW w \in Workers, AdoptEmpty(w) PROVE TypeOK'
  <2>1. pc' \in [Workers -> JobStates]
    BY <1>5 DEF Goto, JobStates, Building, AdoptEmpty, AdoptNothing
  <2>2. /\ user' \in [Workers -> Users \cup {None}]
        /\ mode' \in [Workers -> {"adopt", "repair", "collided", "new"}]
        /\ reserved' \in [Workers -> SUBSET Subnets]
        /\ attempts' \in [Workers -> 0 .. MaxAttempts]
    BY <1>5 DEF AdoptEmpty, AdoptNothing
  <2>3. net' \in [Workers -> Nets]
    BY <1>5 DEF AdoptEmpty, AdoptNothing
  <2>4. HoldsWhatItNeeds(w)'
    BY <1>5, NoneIsNothing, NetsType DEF HoldsWhatItNeeds, Goto, Building, AdoptEmpty, AdoptNothing
  <2>5. \A x \in Workers \ {w} : /\ pc'[x] = pc[x] /\ user'[x] = user[x]
                                 /\ net'[x] = net[x] /\ mode'[x] = mode[x]
    BY <1>5 DEF Goto, AdoptEmpty, AdoptNothing
  <2>6. JobType'
    BY <2>1, <2>2, <2>3, <2>4, <2>5, OneJobMoves DEF JobType, JobTypes
  <2>7. DbType'
    BY <1>5 DEF DbType, HoldsWhatItNeeds, Building, AdoptEmpty, AdoptNothing, db
  <2>8. ProxmoxType'
    BY <1>5, NetsType DEF ProxmoxType, HoldsWhatItNeeds, Building, AdoptEmpty, AdoptNothing,
       proxmox, Unread
  <2> QED
    BY <1>5, <2>6, <2>7, <2>8 DEF TypeOK, AdoptEmpty, AdoptNothing,
       proxmox, Unread
<1>6. ASSUME NEW w \in Workers, Check(w) PROVE TypeOK'
  <2>1. pc' \in [Workers -> JobStates]
    BY <1>6 DEF Goto, JobStates, Building, Check
  <2>2. /\ user' \in [Workers -> Users \cup {None}]
        /\ mode' \in [Workers -> {"adopt", "repair", "collided", "new"}]
        /\ reserved' \in [Workers -> SUBSET Subnets]
        /\ attempts' \in [Workers -> 0 .. MaxAttempts]
    BY <1>6 DEF Check
  <2>3. net' \in [Workers -> Nets]
    BY <1>6 DEF Check
  <2>4. HoldsWhatItNeeds(w)'
    BY <1>6, NoneIsNothing, NetsType DEF HoldsWhatItNeeds, Goto, Building, Check
  <2>5. \A x \in Workers \ {w} : /\ pc'[x] = pc[x] /\ user'[x] = user[x]
                                 /\ net'[x] = net[x] /\ mode'[x] = mode[x]
    BY <1>6 DEF Goto, Check
  <2>6. JobType'
    BY <2>1, <2>2, <2>3, <2>4, <2>5, OneJobMoves DEF JobType, JobTypes
  <2>7. DbType'
    BY <1>6 DEF DbType, HoldsWhatItNeeds, Building, Check, db
  <2>8. ProxmoxType'
    BY <1>6, NetsType DEF ProxmoxType, HoldsWhatItNeeds, Building, Check, proxmox, Unread
  <2> QED
    BY <1>6, <2>6, <2>7, <2>8 DEF TypeOK, Check, proxmox, Unread
<1>7. ASSUME NEW w \in Workers, DropRow(w) PROVE TypeOK'
  <2>1. CASE End(w)
    <3>1. JobType'
      BY <2>1, EndType
    <3>2. DbType' /\ ProxmoxType'
      BY <1>7 DEF DropRow, DbType, ProxmoxType, HoldsWhatItNeeds, proxmox
    <3> QED
      BY <1>7, <3>1, <3>2 DEF DropRow, bounds
  <2>2. CASE ~ End(w)
    <3>1. pc' \in [Workers -> JobStates]
      BY <1>7, <2>2 DEF Goto, JobStates, Building, DropRow
    <3>2. /\ user' \in [Workers -> Users \cup {None}]
          /\ mode' \in [Workers -> {"adopt", "repair", "collided", "new"}]
          /\ reserved' \in [Workers -> SUBSET Subnets]
          /\ attempts' \in [Workers -> 0 .. MaxAttempts]
      BY <1>7, <2>2 DEF DropRow
    <3>3. net' \in [Workers -> Nets]
      <4>1. net' = [net EXCEPT ![w] = NoNet]
        BY <1>7, <2>2 DEF DropRow
      <4> QED
        BY <4>1, NetsType
    <3>4. HoldsWhatItNeeds(w)'
      BY <1>7, <2>2, NoneIsNothing, NetsType DEF HoldsWhatItNeeds, Goto, Building, DropRow
    <3>5. \A x \in Workers \ {w} : /\ pc'[x] = pc[x] /\ user'[x] = user[x]
                                   /\ net'[x] = net[x] /\ mode'[x] = mode[x]
      BY <1>7, <2>2 DEF Goto, DropRow
    <3>6. JobType'
      BY <3>1, <3>2, <3>3, <3>4, <3>5, OneJobMoves DEF JobType, JobTypes
    <3>7. DbType'
      BY <1>7, <2>2 DEF DbType, HoldsWhatItNeeds, Building, DropRow
    <3>8. ProxmoxType'
      BY <1>7, <2>2, NetsType DEF ProxmoxType, HoldsWhatItNeeds, Building, DropRow, proxmox, bounds
    <3> QED
      BY <1>7, <2>2, <3>6, <3>7, <3>8 DEF TypeOK, DropRow, proxmox, bounds
  <2> QED
    BY <2>1, <2>2
<1>8. ASSUME NEW w \in Workers, NEW listed \in SUBSET Subnets, NEW s \in Subnets,
             Allocate(w, listed, s) PROVE TypeOK'
  <2>1. pc' \in [Workers -> JobStates]
    BY <1>8 DEF Goto, JobStates, Building, Allocate
  <2>2. /\ user' \in [Workers -> Users \cup {None}]
        /\ mode' \in [Workers -> {"adopt", "repair", "collided", "new"}]
        /\ reserved' \in [Workers -> SUBSET Subnets]
        /\ attempts' \in [Workers -> 0 .. MaxAttempts]
    BY <1>8 DEF Allocate
  <2>3. net' \in [Workers -> Nets] /\ net'[w] \in Rows
    <3>1. nextId \in 1 .. MaxId
      BY <1>8 DEF Allocate, DbType
    <3>2. [id |-> nextId, vnet |-> VnetOf[nextId], subnet |-> s] \in Rows
      BY <3>1, NetsType
    <3> QED
      BY <1>8, <3>2, NetsType DEF Allocate
  <2>4. HoldsWhatItNeeds(w)'
    BY <1>8, <2>3, NoneIsNothing, NetsType DEF HoldsWhatItNeeds, Goto, Building, Allocate
  <2>5. \A x \in Workers \ {w} : /\ pc'[x] = pc[x] /\ user'[x] = user[x]
                                 /\ net'[x] = net[x] /\ mode'[x] = mode[x]
    BY <1>8 DEF Goto, Allocate
  <2>6. JobType'
    BY <2>1, <2>2, <2>3, <2>4, <2>5, OneJobMoves DEF JobType, JobTypes
  <2>7. DbType'
    BY <1>8, <2>3 DEF DbType, HoldsWhatItNeeds, Allocate
  <2>8. ProxmoxType'
    BY <1>8, NetsType DEF ProxmoxType, HoldsWhatItNeeds, Building, Allocate, proxmox,
       Listing, Unread
  <2> QED
    BY <1>8, <2>6, <2>7, <2>8 DEF TypeOK, Allocate, proxmox, Listing, Unread
<1>9. ASSUME NEW w \in Workers, NEW listed \in SUBSET Subnets,
             AllocateFails(w, listed) PROVE TypeOK'
  BY <1>9, EndType DEF AllocateFails, Listing, Unread, DbType, ProxmoxType, db, proxmox
<1>10. ASSUME NEW w \in Workers, EnsureVnet(w) PROVE TypeOK'
  <2>1. pc' \in [Workers -> JobStates]
    BY <1>10 DEF Goto, JobStates, Building, EnsureVnet
  <2>2. /\ user' \in [Workers -> Users \cup {None}]
        /\ mode' \in [Workers -> {"adopt", "repair", "collided", "new"}]
        /\ reserved' \in [Workers -> SUBSET Subnets]
        /\ attempts' \in [Workers -> 0 .. MaxAttempts]
    BY <1>10 DEF EnsureVnet
  <2>3. net' \in [Workers -> Nets]
    BY <1>10 DEF EnsureVnet
  <2>4. HoldsWhatItNeeds(w)'
    BY <1>10, NoneIsNothing, NetsType DEF HoldsWhatItNeeds, Goto, Building, EnsureVnet
  <2>5. \A x \in Workers \ {w} : /\ pc'[x] = pc[x] /\ user'[x] = user[x]
                                 /\ net'[x] = net[x] /\ mode'[x] = mode[x]
    BY <1>10 DEF Goto, EnsureVnet
  <2>6. JobType'
    BY <2>1, <2>2, <2>3, <2>4, <2>5, OneJobMoves DEF JobType, JobTypes
  <2>7. DbType'
    BY <1>10 DEF DbType, HoldsWhatItNeeds, Building, EnsureVnet, db
  <2>8. ProxmoxType'
    BY <1>10, NetsType DEF ProxmoxType, HoldsWhatItNeeds, Building, EnsureVnet, bounds
  <2> QED
    BY <1>10, <2>6, <2>7, <2>8 DEF TypeOK, EnsureVnet, bounds
<1>11. ASSUME NEW w \in Workers, EnsureSubnet(w) PROVE TypeOK'
  <2>1. pc' \in [Workers -> JobStates]
    BY <1>11 DEF Goto, JobStates, Building, EnsureSubnet
  <2>2. /\ user' \in [Workers -> Users \cup {None}]
        /\ mode' \in [Workers -> {"adopt", "repair", "collided", "new"}]
        /\ reserved' \in [Workers -> SUBSET Subnets]
        /\ attempts' \in [Workers -> 0 .. MaxAttempts]
    BY <1>11 DEF EnsureSubnet
  <2>3. net' \in [Workers -> Nets]
    BY <1>11 DEF EnsureSubnet
  <2>4. HoldsWhatItNeeds(w)'
    BY <1>11, NoneIsNothing, NetsType DEF HoldsWhatItNeeds, Goto, Building, EnsureSubnet
  <2>5. \A x \in Workers \ {w} : /\ pc'[x] = pc[x] /\ user'[x] = user[x]
                                 /\ net'[x] = net[x] /\ mode'[x] = mode[x]
    BY <1>11 DEF Goto, EnsureSubnet
  <2>6. JobType'
    BY <2>1, <2>2, <2>3, <2>4, <2>5, OneJobMoves DEF JobType, JobTypes
  <2>7. DbType'
    BY <1>11 DEF DbType, HoldsWhatItNeeds, Building, EnsureSubnet, db
  <2>8. ProxmoxType'
    BY <1>11, NetsType DEF ProxmoxType, HoldsWhatItNeeds, Building, EnsureSubnet, bounds
  <2> QED
    BY <1>11, <2>6, <2>7, <2>8 DEF TypeOK, EnsureSubnet, bounds
<1>12. ASSUME NEW w \in Workers, Collide(w) PROVE TypeOK'
  <2>1. pc' \in [Workers -> JobStates]
    BY <1>12 DEF Goto, JobStates, Building, Collide
  <2>2. /\ user' \in [Workers -> Users \cup {None}]
        /\ mode' \in [Workers -> {"adopt", "repair", "collided", "new"}]
        /\ reserved' \in [Workers -> SUBSET Subnets]
        /\ attempts' \in [Workers -> 0 .. MaxAttempts]
    <3>1. net[w] \in Rows
      BY <1>12 DEF HoldsWhatItNeeds, Building, Collide
    <3>2. reserved[w] \cup {net[w].subnet} \in SUBSET Subnets
      BY <3>1, NetsType
    <3> QED
      BY <1>12, <3>2 DEF Collide
  <2>3. net' \in [Workers -> Nets]
    BY <1>12, NetsType DEF Collide
  <2>4. HoldsWhatItNeeds(w)'
    BY <1>12, NoneIsNothing, NetsType DEF HoldsWhatItNeeds, Goto, Building, Collide
  <2>5. \A x \in Workers \ {w} : /\ pc'[x] = pc[x] /\ user'[x] = user[x]
                                 /\ net'[x] = net[x] /\ mode'[x] = mode[x]
    BY <1>12 DEF Goto, Collide
  <2>6. JobType'
    BY <2>1, <2>2, <2>3, <2>4, <2>5, OneJobMoves DEF JobType, JobTypes
  <2>7. DbType'
    BY <1>12 DEF DbType, HoldsWhatItNeeds, Building, Collide, db
  <2>8. ProxmoxType'
    BY <1>12, NetsType DEF ProxmoxType, HoldsWhatItNeeds, Building, Collide, proxmox, bounds
  <2> QED
    BY <1>12, <2>6, <2>7, <2>8 DEF TypeOK, Collide, proxmox, bounds
<1>13. ASSUME NEW w \in Workers, EnsureRule(w) PROVE TypeOK'
  <2>1. pc' \in [Workers -> JobStates]
    BY <1>13 DEF Goto, JobStates, Building, EnsureRule
  <2>2. /\ user' \in [Workers -> Users \cup {None}]
        /\ mode' \in [Workers -> {"adopt", "repair", "collided", "new"}]
        /\ reserved' \in [Workers -> SUBSET Subnets]
        /\ attempts' \in [Workers -> 0 .. MaxAttempts]
    BY <1>13 DEF EnsureRule
  <2>3. net' \in [Workers -> Nets]
    BY <1>13 DEF EnsureRule
  <2>4. HoldsWhatItNeeds(w)'
    BY <1>13, NoneIsNothing, NetsType DEF HoldsWhatItNeeds, Goto, Building, EnsureRule
  <2>5. \A x \in Workers \ {w} : /\ pc'[x] = pc[x] /\ user'[x] = user[x]
                                 /\ net'[x] = net[x] /\ mode'[x] = mode[x]
    BY <1>13 DEF Goto, EnsureRule
  <2>6. JobType'
    BY <2>1, <2>2, <2>3, <2>4, <2>5, OneJobMoves DEF JobType, JobTypes
  <2>7. DbType'
    BY <1>13 DEF DbType, HoldsWhatItNeeds, Building, EnsureRule, db
  <2>8. ProxmoxType'
    BY <1>13, NetsType DEF ProxmoxType, HoldsWhatItNeeds, Building, EnsureRule, bounds
  <2> QED
    BY <1>13, <2>6, <2>7, <2>8 DEF TypeOK, EnsureRule, bounds
<1>14. ASSUME NEW w \in Workers, ApplySdn(w) PROVE TypeOK'
  <2>1. pc' \in [Workers -> JobStates]
    BY <1>14 DEF Goto, JobStates, Building, ApplySdn
  <2>2. /\ user' \in [Workers -> Users \cup {None}]
        /\ mode' \in [Workers -> {"adopt", "repair", "collided", "new"}]
        /\ reserved' \in [Workers -> SUBSET Subnets]
        /\ attempts' \in [Workers -> 0 .. MaxAttempts]
    BY <1>14 DEF ApplySdn
  <2>3. net' \in [Workers -> Nets]
    BY <1>14 DEF ApplySdn
  <2>4. HoldsWhatItNeeds(w)'
    BY <1>14, NoneIsNothing, NetsType DEF HoldsWhatItNeeds, Goto, Building, ApplySdn
  <2>5. \A x \in Workers \ {w} : /\ pc'[x] = pc[x] /\ user'[x] = user[x]
                                 /\ net'[x] = net[x] /\ mode'[x] = mode[x]
    BY <1>14 DEF Goto, ApplySdn
  <2>6. JobType'
    BY <2>1, <2>2, <2>3, <2>4, <2>5, OneJobMoves DEF JobType, JobTypes
  <2>7. DbType'
    BY <1>14 DEF DbType, HoldsWhatItNeeds, Building, ApplySdn, db
  <2>8. ProxmoxType'
    BY <1>14 DEF ProxmoxType, ApplySdn, AskForApply, Stages
  <2> QED
    BY <1>14, <2>6, <2>7, <2>8 DEF TypeOK, ApplySdn, bounds
<1>15. ASSUME NEW w \in Workers, Commit(w) PROVE TypeOK'
  <2>1. pc' \in [Workers -> JobStates]
    BY <1>15 DEF Goto, JobStates, Building, Commit
  <2>2. /\ user' \in [Workers -> Users \cup {None}]
        /\ mode' \in [Workers -> {"adopt", "repair", "collided", "new"}]
        /\ reserved' \in [Workers -> SUBSET Subnets]
        /\ attempts' \in [Workers -> 0 .. MaxAttempts]
    BY <1>15 DEF Commit
  <2>3. net' \in [Workers -> Nets]
    BY <1>15 DEF Commit
  <2>4. HoldsWhatItNeeds(w)'
    BY <1>15, NoneIsNothing, NetsType DEF HoldsWhatItNeeds, Goto, Building, Commit
  <2>5. \A x \in Workers \ {w} : /\ pc'[x] = pc[x] /\ user'[x] = user[x]
                                 /\ net'[x] = net[x] /\ mode'[x] = mode[x]
    BY <1>15 DEF Goto, Commit
  <2>6. JobType'
    BY <2>1, <2>2, <2>3, <2>4, <2>5, OneJobMoves DEF JobType, JobTypes
  <2>7. DbType'
    BY <1>15 DEF DbType, HoldsWhatItNeeds, Building, Commit
  <2>8. ProxmoxType'
    BY <1>15, NetsType DEF ProxmoxType, HoldsWhatItNeeds, Building, Commit, proxmox, bounds
  <2> QED
    BY <1>15, <2>6, <2>7, <2>8 DEF TypeOK, Commit, proxmox, bounds
<1>16. ASSUME NEW w \in Workers, Attach(w) PROVE TypeOK'
  BY <1>16, EndType DEF Attach, DbType, ProxmoxType, db, proxmox, bounds
<1>17. ASSUME NEW w \in Workers, Fail(w) PROVE TypeOK'
  BY <1>17, EndType DEF Fail, DbType, ProxmoxType, db, proxmox
<1>18. ASSUME NEW v \in Vnets, Remove(v) PROVE TypeOK'
  <2>1. ProxmoxType'
    BY <1>18 DEF Remove, ProxmoxType, Stages
  <2>2. DbType' /\ JobType'
    BY <1>18 DEF Remove, DbType, HoldsWhatItNeeds, db, job
  <2> QED
    BY <1>18, <2>1, <2>2 DEF Remove
<1>19. ASSUME NEW outcome \in {"live", "failed"}, ApplyEnds(outcome) PROVE TypeOK'
  <2>1. ProxmoxType'
    BY <1>19 DEF ApplyEnds, ProxmoxType, Stages
  <2>2. DbType' /\ JobType'
    BY <1>19 DEF ApplyEnds, DbType, HoldsWhatItNeeds, db, job
  <2> QED
    BY <1>19, <2>1, <2>2 DEF ApplyEnds
<1>20. CASE UNCHANGED vars
  BY <1>20 DEF vars, DbType, ProxmoxType, HoldsWhatItNeeds, db, proxmox, job, bounds
<1> QED
  BY <1>1, <1>2, <1>3, <1>4, <1>5, <1>6, <1>7, <1>8, <1>9, <1>10, <1>11, <1>12, <1>13,
     <1>14, <1>15, <1>16, <1>17, <1>18, <1>19, <1>20 DEF Next, JobStep

\* The types hold always, for every value of the constants.
THEOREM NetworkTypeCorrect == Spec => []TypeOK
<1>1. Init => TypeOK
  BY InitType
<1>2. TypeOK /\ [Next]_vars => TypeOK'
  BY NextType
<1> QED
  BY <1>1, <1>2, PTL DEF Spec

-----------------------------------------------------------------------------
\* A step after which nothing is held that was not held before.
LEMMA NothingNewHeld ==
  ASSUME VnetsHeldByOne, nextId \in 1 .. MaxId + 1, nextId' \in 1 .. MaxId + 1,
         nextId' >= nextId, \A u \in Users, v \in Vnets : Holds(u, v)' => Holds(u, v)
  PROVE  VnetsHeldByOne'
<1>1. \A i \in nextId' .. MaxId : i \in nextId .. MaxId /\ VnetOf[i] \in Vnets
  BY BoundsAssumption, VnetOfAssumption
<1> QED
  BY <1>1 DEF VnetsHeldByOne

\* A job that ends lets go of what it held.
LEMMA EndHolds ==
  ASSUME TypeOK, VnetsHeldByOne, NEW w \in Workers, End(w), UNCHANGED <<row, nextId, alias>>
  PROVE  VnetsHeldByOne'
<1>1. user' = [user EXCEPT ![w] = None] /\ net' = [net EXCEPT ![w] = NoNet]
  BY DEF End
<1>2. /\ \A x \in Workers \ {w} : user'[x] = user[x] /\ net'[x] = net[x]
      /\ user'[w] \notin Users
  BY <1>1, NoneIsNothing DEF TypeOK, JobType, JobTypes
<1>3. \A u \in Users, v \in Vnets : Holds(u, v)' => Holds(u, v)
  BY <1>2 DEF Holds
<1> QED
  BY <1>3, NothingNewHeld DEF TypeOK, DbType

\* Every step leaves each vnet to the user who holds it.
LEMMA NextHeldByOne ==
  ASSUME TypeOK, VnetsHeldByOne, [Next]_vars
  PROVE  VnetsHeldByOne'
<1> nextId \in 1 .. MaxId + 1
  BY DEF TypeOK, DbType
<1> USE DEF TypeOK, JobType, JobTypes
<1>1. ASSUME NEW w \in Workers, NEW x \in Users, Begin(w, x) PROVE VnetsHeldByOne'
  <2>1. \A y \in Workers \ {w} : user'[y] = user[y] /\ net'[y] = net[y]
    BY <1>1 DEF Begin
  <2>2. \/ net'[w] = NoNet \/ (row[x] # None /\ net'[w] = row[x])
    BY <1>1 DEF Begin, HoldsWhatItNeeds
  <2>3. user'[w] = x /\ NoNet.vnet \notin Vnets /\ UNCHANGED <<row, nextId, alias>>
    BY <1>1, NoneIsNothing DEF Begin, NoNet, db, proxmox
  <2>4. \A u \in Users, v \in Vnets : Holds(u, v)' => Holds(u, v)
    BY <2>1, <2>2, <2>3 DEF Holds
  <2> QED
    BY <2>3, <2>4, NothingNewHeld
<1>2. ASSUME NEW w \in Workers, FindByAlias(w) PROVE VnetsHeldByOne'
  <2>1. \A y \in Workers \ {w} : user'[y] = user[y] /\ net'[y] = net[y]
    BY <1>2 DEF FindByAlias
  <2>2. \/ net'[w] = net[w]
        \/ \E v \in Vnets : alias[v] = user[w] /\ net'[w].vnet = v
    <3>1. ASSUME NEW v \in Vnets,
                 net' = [net EXCEPT ![w] = [id |-> @.id, vnet |-> v, subnet |-> None]]
          PROVE  net'[w].vnet = v
      BY <3>1
    <3> QED
      BY <1>2, <3>1 DEF FindByAlias
  <2>3. user' = user /\ UNCHANGED <<row, nextId, alias>>
    BY <1>2 DEF FindByAlias, db, proxmox
  <2>4. \A u \in Users, v \in Vnets : Holds(u, v)' => Holds(u, v)
    BY <2>1, <2>2, <2>3 DEF Holds
  <2> QED
    BY <2>3, <2>4, NothingNewHeld
<1>3. ASSUME NEW w \in Workers, NEW s \in Subnets, AdoptSave(w, s) PROVE VnetsHeldByOne'
  <2>1. \A y \in Workers \ {w} : user'[y] = user[y] /\ net'[y] = net[y]
    BY <1>3 DEF AdoptSave
  <2>2. net'[w].vnet = net[w].vnet
    BY <1>3 DEF AdoptSave
  <2>3. /\ user' = user /\ user[w] \in Users /\ alias' = alias
        /\ row' = [row EXCEPT ![user[w]] = net'[w]]
        /\ nextId' \in 1 .. MaxId + 1 /\ nextId' >= nextId
    BY <1>3 DEF AdoptSave, HoldsWhatItNeeds, proxmox
  <2>4. \A u \in Users : row'[u] = row[u] \/ (u = user[w] /\ row'[u] = net'[w])
    BY <2>3 DEF DbType
  <2>5. ASSUME NEW u \in Users, NEW v \in Vnets, Holds(u, v)'
        PROVE  Holds(u, v)
    <3>1. CASE alias'[v] = u
      BY <2>3, <3>1 DEF Holds
    <3>2. CASE row'[u] # None /\ row'[u].vnet = v
      BY <2>2, <2>4, <3>2 DEF Holds
    <3>3. CASE \E y \in Workers : user'[y] = u /\ net'[y].vnet = v
      BY <2>1, <2>2, <2>3, <3>3 DEF Holds
    <3> QED
      BY <2>5, <3>1, <3>2, <3>3 DEF Holds
  <2> QED
    BY <2>3, <2>5, NothingNewHeld
<1>4. ASSUME NEW w \in Workers, AdoptRefused(w) PROVE VnetsHeldByOne'
  BY <1>4, EndHolds DEF AdoptRefused, db, proxmox
<1>5. ASSUME NEW w \in Workers, AdoptEmpty(w) PROVE VnetsHeldByOne'
  BY <1>5, NothingNewHeld DEF AdoptEmpty, db, proxmox, Holds
<1>6. ASSUME NEW w \in Workers, Check(w) PROVE VnetsHeldByOne'
  BY <1>6, NothingNewHeld DEF Check, db, proxmox, Holds
<1>7. ASSUME NEW w \in Workers, DropRow(w) PROVE VnetsHeldByOne'
  <2>1. CASE End(w) /\ UNCHANGED row
    BY <1>7, <2>1, EndHolds DEF DropRow, proxmox
  <2>2. CASE ~ (End(w) /\ UNCHANGED row)
    <3>1. /\ row' = [row EXCEPT ![user[w]] = None] /\ net' = [net EXCEPT ![w] = NoNet]
          /\ UNCHANGED <<user, alias, nextId>>
      BY <1>7, <2>2 DEF DropRow, proxmox
    <3>2. /\ \A x \in Workers : net'[x] = net[x] \/ net'[x].vnet \notin Vnets
          /\ \A u \in Users : row'[u] = row[u] \/ row'[u] = None
      BY <3>1, NoneIsNothing DEF NoNet, DbType
    <3>3. \A u \in Users, v \in Vnets : Holds(u, v)' => Holds(u, v)
      BY <3>1, <3>2 DEF Holds
    <3> QED
      BY <3>1, <3>3, NothingNewHeld
  <2> QED
    BY <2>1, <2>2
<1>8. ASSUME NEW w \in Workers, NEW listed \in SUBSET Subnets, NEW s \in Subnets,
             Allocate(w, listed, s) PROVE VnetsHeldByOne'
  <2>1. \A y \in Workers \ {w} : user'[y] = user[y] /\ net'[y] = net[y]
    BY <1>8 DEF Allocate
  <2>2. /\ nextId \in 1 .. MaxId /\ nextId' = nextId + 1
        /\ UNCHANGED <<row, user, alias>>
    BY <1>8 DEF Allocate, proxmox
  <2>3. net'[w].vnet = VnetOf[nextId] /\ VnetOf[nextId] \in Vnets
    BY <1>8, <2>2, VnetOfAssumption DEF Allocate
  <2>4. \A u \in Users, v \in Vnets :
          Holds(u, v)' => Holds(u, v) \/ (u = user[w] /\ v = VnetOf[nextId])
    BY <2>1, <2>2, <2>3 DEF Holds
  <2>5. \A u \in Users : ~ Holds(u, VnetOf[nextId])
    BY <2>2 DEF VnetsHeldByOne
  <2>6. \A v \in Vnets : \A u, x \in Users : Holds(u, v)' /\ Holds(x, v)' => u = x
    BY <2>4, <2>5 DEF VnetsHeldByOne
  <2>7. \A i \in nextId' .. MaxId :
          i \in nextId .. MaxId /\ VnetOf[i] # VnetOf[nextId] /\ VnetOf[i] \in Vnets
    BY <2>2, VnetOfAssumption, BoundsAssumption
  <2>8. \A i \in nextId' .. MaxId : \A u \in Users : ~ Holds(u, VnetOf[i])'
    BY <2>4, <2>7 DEF VnetsHeldByOne
  <2> QED
    BY <2>6, <2>8 DEF VnetsHeldByOne
<1>9. ASSUME NEW w \in Workers, NEW listed \in SUBSET Subnets,
             AllocateFails(w, listed) PROVE VnetsHeldByOne'
  BY <1>9, EndHolds DEF AllocateFails, db, proxmox
<1>10. ASSUME NEW w \in Workers, EnsureVnet(w) PROVE VnetsHeldByOne'
  <2>1. \A v \in Vnets : alias'[v] = alias[v] \/ (v = net[w].vnet /\ alias'[v] = user[w])
    BY <1>10 DEF EnsureVnet, ProxmoxType
  <2>2. UNCHANGED <<row, nextId, user, net>>
    BY <1>10 DEF EnsureVnet, db
  <2>3. \A u \in Users, v \in Vnets : Holds(u, v)' => Holds(u, v)
    BY <2>1, <2>2 DEF Holds
  <2> QED
    BY <2>2, <2>3, NothingNewHeld
<1>11. ASSUME NEW w \in Workers, EnsureSubnet(w) PROVE VnetsHeldByOne'
  BY <1>11, NothingNewHeld DEF EnsureSubnet, db, Holds
<1>12. ASSUME NEW w \in Workers, Collide(w) PROVE VnetsHeldByOne'
  <2>1. \A x \in Workers : net'[x] = net[x] \/ net'[x].vnet \notin Vnets
    BY <1>12, NoneIsNothing DEF Collide, NoNet
  <2>2. UNCHANGED <<row, nextId, user, alias>>
    BY <1>12 DEF Collide, db, proxmox
  <2>3. \A u \in Users, v \in Vnets : Holds(u, v)' => Holds(u, v)
    BY <2>1, <2>2 DEF Holds
  <2> QED
    BY <2>2, <2>3, NothingNewHeld
<1>13. ASSUME NEW w \in Workers, EnsureRule(w) PROVE VnetsHeldByOne'
  BY <1>13, NothingNewHeld DEF EnsureRule, db, Holds
<1>14. ASSUME NEW w \in Workers, ApplySdn(w) PROVE VnetsHeldByOne'
  BY <1>14, NothingNewHeld DEF ApplySdn, db, Holds
<1>15. ASSUME NEW w \in Workers, Commit(w) PROVE VnetsHeldByOne'
  <2>1. \A u \in Users : row'[u] = row[u] \/ (u = user[w] /\ row'[u] = net[w])
    BY <1>15 DEF Commit, DbType
  <2>2. UNCHANGED <<nextId, alias, user, net>>
    BY <1>15 DEF Commit, proxmox
  <2>3. \A u \in Users, v \in Vnets : Holds(u, v)' => Holds(u, v)
    BY <2>1, <2>2 DEF Holds
  <2> QED
    BY <2>2, <2>3, NothingNewHeld
<1>16. ASSUME NEW w \in Workers, Attach(w) PROVE VnetsHeldByOne'
  BY <1>16, EndHolds DEF Attach, db, proxmox
<1>17. ASSUME NEW w \in Workers, Fail(w) PROVE VnetsHeldByOne'
  BY <1>17, EndHolds DEF Fail, db, proxmox
<1>18. ASSUME NEW r \in Vnets, Remove(r) PROVE VnetsHeldByOne'
  <2>1. /\ \A v \in Vnets : alias'[v] = alias[v] \/ alias'[v] = None
        /\ UNCHANGED <<row, nextId, user, net>>
    BY <1>18 DEF Remove, ProxmoxType, db, job
  <2>2. \A u \in Users, v \in Vnets : Holds(u, v)' => Holds(u, v)
    BY <2>1, NoneIsNothing DEF Holds
  <2> QED
    BY <2>1, <2>2, NothingNewHeld
<1>19. ASSUME NEW outcome \in {"live", "failed"}, ApplyEnds(outcome) PROVE VnetsHeldByOne'
  BY <1>19, NothingNewHeld DEF ApplyEnds, db, job, Holds
<1>20. CASE UNCHANGED vars
  BY <1>20, NothingNewHeld DEF vars, db, proxmox, job, Holds
<1> QED
  BY <1>1, <1>2, <1>3, <1>4, <1>5, <1>6, <1>7, <1>8, <1>9, <1>10, <1>11, <1>12, <1>13,
     <1>14, <1>15, <1>16, <1>17, <1>18, <1>19, <1>20 DEF Next, JobStep

\* No two users are given the same vnet, however many jobs interleave, fail or
\* find vnets removed (VnetsPrivate).
THEOREM VnetsArePrivate == Spec => []VnetsPrivate
<1>1. Init => VnetsHeldByOne
  BY NoneIsNothing, VnetOfAssumption DEF Init, VnetsHeldByOne, Holds, NoNet
<1>2. TypeOK /\ VnetsHeldByOne /\ [Next]_vars => VnetsHeldByOne'
  BY NextHeldByOne
<1>3. TypeOK /\ VnetsHeldByOne => VnetsPrivate
  <2> SUFFICES ASSUME TypeOK, VnetsHeldByOne, NEW u \in Users, NEW x \in Users, u # x,
                      row[u] # None, row[x] # None
               PROVE  row[u].vnet # row[x].vnet
    BY DEF VnetsPrivate
  <2>1. row[u].vnet \in Vnets
    BY NetsType DEF TypeOK, DbType
  <2> QED
    BY <2>1 DEF VnetsHeldByOne, Holds
<1> QED
  BY <1>1, <1>2, <1>3, NetworkTypeCorrect, PTL DEF Spec

-----------------------------------------------------------------------------
(* Without removals                                                        *)

\* What Proxmox has, it keeps.
ProxmoxGrows ==
  /\ \A s \in Subnets : subnetOf[s] # None => subnetOf'[s] = subnetOf[s]
  /\ \A v \in Vnets : alias[v] # None => alias'[v] # None
  /\ rules \subseteq rules'
  /\ \A v \in Vnets : stageV[v] # "pending" => stageV'[v] # "pending"
  /\ \A s \in Subnets : stageS[s] # "pending" => stageS'[s] # "pending"

LEMMA NextGrows ==
  ASSUME TypeOK, MaxRemovals = 0, [Next]_vars
  PROVE  ProxmoxGrows
<1> USE DEF TypeOK, ProxmoxType, ProxmoxGrows
<1>1. ASSUME NEW w \in Workers, EnsureVnet(w) PROVE ProxmoxGrows
  <2>1. user[w] # None
    BY <1>1, NoneIsNothing DEF EnsureVnet, JobType, HoldsWhatItNeeds
  <2> QED
    BY <1>1, <2>1 DEF EnsureVnet
<1>2. ASSUME NEW w \in Workers, EnsureSubnet(w) PROVE ProxmoxGrows
  BY <1>2 DEF EnsureSubnet, Collides
<1>3. ASSUME NEW w \in Workers, EnsureRule(w) PROVE ProxmoxGrows
  BY <1>3 DEF EnsureRule
<1>4. ASSUME NEW w \in Workers, ApplySdn(w) PROVE ProxmoxGrows
  BY <1>4 DEF ApplySdn, AskForApply
<1>5. ASSUME NEW v \in Vnets, Remove(v) PROVE FALSE
  BY <1>5 DEF Remove
<1>6. CASE UNCHANGED proxmox
  BY <1>6 DEF proxmox
<1>7. ASSUME NEW outcome \in {"live", "failed"}, ApplyEnds(outcome) PROVE ProxmoxGrows
  BY <1>7 DEF ApplyEnds
<1>8. ASSUME NEW w \in Workers, JobStep(w) \/ Fail(w) \/ \E u \in Users : Begin(w, u)
      PROVE  \/ EnsureVnet(w) \/ EnsureSubnet(w) \/ EnsureRule(w) \/ ApplySdn(w)
             \/ UNCHANGED proxmox
  BY <1>8 DEF JobStep, Fail, Begin, FindByAlias, AdoptSave, AdoptRefused, AdoptEmpty,
     Check, DropRow, Allocate, AllocateFails, Collide, Commit, Attach
<1> QED
  BY <1>1, <1>2, <1>3, <1>4, <1>5, <1>6, <1>7, <1>8 DEF Next, vars

\* A network that Proxmox was asked to apply stays so, whatever the task comes to.
LEMMA AppliedStays ==
  ASSUME ProxmoxType, ProxmoxGrows, NEW n \in Rows, Applied(n)
  PROVE  Applied(n)'
<1>1. n.vnet \in Vnets /\ n.subnet \in Subnets /\ n.vnet # None
  BY NetsType, NoneIsNothing
<1> QED
  BY <1>1 DEF Applied, ProxmoxGrows, ProxmoxType

\* A step of another job leaves a job settled, if it leaves its user's row.
LEMMA OthersStaySettled ==
  ASSUME TypeOK, ProxmoxGrows, NEW x \in Workers, JobSettled(x),
         pc'[x] = pc[x], user'[x] = user[x], net'[x] = net[x], mode'[x] = mode[x],
         Inserting(x) => row'[user[x]] = None
  PROVE  JobSettled(x)'
<1>1. pc[x] \in Building => net[x] \in Rows /\ net[x].vnet \in Vnets /\ net[x].vnet # None
                            /\ net[x].subnet \in Subnets
  BY NetsType, NoneIsNothing DEF TypeOK, JobType, HoldsWhatItNeeds
<1>2. mode[x] = "repair" => pc[x] \in Building
  BY DEF TypeOK, JobType, JobTypes, HoldsWhatItNeeds, JobSettled, JobStates
<1>3. mode[x] = "repair" \/ pc[x] \in {"rule", "apply", "commit", "attach"}
        => subnetOf'[net[x].subnet] = net[x].vnet
  BY <1>1, <1>2 DEF JobSettled, ProxmoxGrows, Building
<1>4. pc[x] \in {"subnet", "rule", "apply"} => alias'[net[x].vnet] # None
  BY <1>1 DEF JobSettled, ProxmoxGrows, Building
<1>5. pc[x] = "apply" => net[x].vnet \in rules'
  BY DEF JobSettled, ProxmoxGrows
<1>6. pc[x] = "commit" \/ (pc[x] = "attach" /\ mode[x] # "adopt") => Applied(net[x])'
  BY <1>1, AppliedStays DEF JobSettled, Building, TypeOK
<1>7. Inserting(x)' <=> Inserting(x)
  BY DEF Inserting
<1> QED
  BY <1>3, <1>4, <1>5, <1>6, <1>7 DEF JobSettled

\* The rows stay defined when none changes.
LEMMA RowsStayDefined ==
  ASSUME TypeOK, ProxmoxGrows, RowsDefined, row' = row
  PROVE  RowsDefined'
<1>1. \A u \in Users : row[u] # None =>
        row[u].vnet \in Vnets /\ row[u].vnet # None /\ row[u].subnet \in Subnets
  BY NetsType, NoneIsNothing DEF TypeOK, DbType
<1> QED
  BY <1>1 DEF RowsDefined, ProxmoxGrows

\* A step of w that inserts nothing new and leaves the rows leaves the others.
LEMMA OneJobSettles ==
  ASSUME TypeOK, ProxmoxGrows, NetworksSettled, NEW w \in Workers, row' = row,
         \A x \in Workers \ {w} : /\ pc'[x] = pc[x] /\ user'[x] = user[x]
                                  /\ net'[x] = net[x] /\ mode'[x] = mode[x],
         JobSettled(w)', Inserting(w)' => Inserting(w) /\ user'[w] = user[w]
  PROVE  NetworksSettled'
<1>1. RowsDefined'
  BY RowsStayDefined DEF NetworksSettled
<1>2. \A x \in Workers : JobSettled(x)'
  BY OthersStaySettled DEF NetworksSettled, JobSettled
<1>3. InsertsAlone'
  BY DEF NetworksSettled, InsertsAlone, Inserting
<1> QED
  BY <1>1, <1>2, <1>3 DEF NetworksSettled

\* A job that ends has nothing left to settle.
LEMMA EndSettles ==
  ASSUME TypeOK, ProxmoxGrows, NetworksSettled, NEW w \in Workers, End(w), row' = row
  PROVE  NetworksSettled'
<1>1. /\ \A x \in Workers \ {w} : /\ pc'[x] = pc[x] /\ user'[x] = user[x]
                                  /\ net'[x] = net[x] /\ mode'[x] = mode[x]
      /\ pc'[w] = "idle" /\ mode'[w] = "adopt"
  BY DEF End, Goto, TypeOK, JobType, JobTypes
<1>2. JobSettled(w)' /\ ~ Inserting(w)'
  BY <1>1 DEF JobSettled, Inserting
<1> QED
  BY <1>1, <1>2, OneJobSettles

\* Every step keeps the rows defined and the jobs settled.
LEMMA NextSettles ==
  ASSUME TypeOK, MaxRemovals = 0, NetworksSettled, [Next]_vars
  PROVE  NetworksSettled'
<1>0. ProxmoxGrows
  BY NextGrows
<1> USE DEF TypeOK, JobType, JobTypes
<1> DEFINE OthersKeep(w) ==
      \A x \in Workers \ {w} : /\ pc'[x] = pc[x] /\ user'[x] = user[x]
                               /\ net'[x] = net[x] /\ mode'[x] = mode[x]
<1>1. ASSUME NEW w \in Workers, NEW u \in Users, Begin(w, u) PROVE NetworksSettled'
  <2>1. OthersKeep(w) /\ row' = row
    BY <1>1 DEF Begin, Goto, db
  <2>2. \/ pc'[w] = "adopt" /\ mode'[w] = "adopt"
        \/ /\ pc'[w] = "check" /\ mode'[w] = "repair"
           /\ row[u] # None /\ net'[w] = row[u] /\ subnetOf' = subnetOf
    BY <1>1 DEF Begin, Goto, HoldsWhatItNeeds, proxmox
  <2>3. JobSettled(w)' /\ ~ Inserting(w)'
    BY <2>2 DEF JobSettled, Inserting, NetworksSettled, RowsDefined
  <2> QED
    BY <1>0, <2>1, <2>3, OneJobSettles
<1>2. ASSUME NEW w \in Workers, FindByAlias(w) \/ AdoptEmpty(w) PROVE NetworksSettled'
  <2>1. OthersKeep(w) /\ row' = row /\ mode'[w] = mode[w]
    BY <1>2 DEF FindByAlias, AdoptEmpty, AdoptNothing, Goto, db
  <2>2. mode[w] = "adopt"
    BY <1>2 DEF FindByAlias, AdoptEmpty, HoldsWhatItNeeds, NetworksSettled, JobSettled
  <2>3. pc'[w] \in {"adopt_save", "allocate"}
    BY <1>2, <2>2 DEF FindByAlias, AdoptEmpty, AdoptNothing, Goto
  <2>4. JobSettled(w)' /\ ~ Inserting(w)'
    BY <2>1, <2>2, <2>3 DEF JobSettled, Inserting
  <2> QED
    BY <1>0, <2>1, <2>4, OneJobSettles
<1>3. ASSUME NEW w \in Workers, NEW s \in Subnets, AdoptSave(w, s) PROVE NetworksSettled'
  <2>1. OthersKeep(w) /\ UNCHANGED proxmox
    BY <1>3 DEF AdoptSave, Goto
  <2>2. mode[w] # "collided" /\ Inserts(w)
    BY <1>3 DEF AdoptSave, NetworksSettled, JobSettled
  <2>3. /\ user[w] \in Users /\ row' = [row EXCEPT ![user[w]] = net'[w]]
        /\ pc'[w] = "attach" /\ mode'[w] = "adopt"
    BY <1>3 DEF AdoptSave, Goto, HoldsWhatItNeeds
  <2>4. net'[w].vnet = net[w].vnet /\ net'[w].subnet = s /\ subnetOf[s] = net[w].vnet
    BY <1>3, <2>2 DEF AdoptSave
  <2>5. RowsDefined'
    BY <2>1, <2>3, <2>4 DEF RowsDefined, NetworksSettled, DbType, proxmox
  <2>6. JobSettled(w)' /\ ~ Inserting(w)'
    BY <2>1, <2>3, <2>4 DEF JobSettled, Inserting, proxmox
  <2>7. \A x \in Workers \ {w} : Inserting(x) => user[x] # user[w]
    BY <2>2, <2>3 DEF Inserts, Inserting
  <2>8. \A x \in Workers \ {w} : Inserting(x) => row'[user[x]] = row[user[x]]
    BY <2>3, <2>7 DEF DbType
  <2>9. \A x \in Workers \ {w} : Inserting(x) => row'[user[x]] = None
    BY <2>8 DEF NetworksSettled, JobSettled
  <2>10. \A x \in Workers : JobSettled(x)'
    BY <1>0, <2>1, <2>6, <2>9, OthersStaySettled DEF NetworksSettled
  <2>11. InsertsAlone'
    BY <2>1, <2>6 DEF NetworksSettled, InsertsAlone, Inserting
  <2> QED
    BY <2>5, <2>10, <2>11 DEF NetworksSettled
<1>4. ASSUME NEW w \in Workers, AdoptRefused(w) PROVE NetworksSettled'
  BY <1>0, <1>4, EndSettles DEF AdoptRefused, db
<1>5. ASSUME NEW w \in Workers, Check(w) PROVE NetworksSettled'
  <2>1. OthersKeep(w) /\ row' = row /\ UNCHANGED proxmox /\ mode' = mode /\ net' = net
    BY <1>5 DEF Check, Goto, db
  <2>2. mode[w] = "repair" /\ subnetOf[net[w].subnet] = net[w].vnet
    BY <1>5 DEF Check, HoldsWhatItNeeds, NetworksSettled, JobSettled
  <2>3. pc'[w] = "vnet" \/ (pc'[w] = "attach" /\ Applied(net[w]))
    BY <1>5 DEF Check, Goto
  <2>4. Applied(net[w])' = Applied(net[w])
    BY <2>1 DEF Applied, proxmox
  <2>5. JobSettled(w)' /\ ~ Inserting(w)'
    BY <2>1, <2>2, <2>3, <2>4 DEF JobSettled, Inserting, proxmox
  <2> QED
    BY <1>0, <2>1, <2>5, OneJobSettles
<1>6. ASSUME NEW w \in Workers, DropRow(w) PROVE FALSE
  BY <1>6 DEF DropRow, NetworksSettled, JobSettled
<1>7. ASSUME NEW w \in Workers, NEW listed \in SUBSET Subnets, NEW s \in Subnets,
             Allocate(w, listed, s) PROVE NetworksSettled'
  <2>1. OthersKeep(w) /\ row' = row /\ user' = user
    BY <1>7 DEF Allocate, Goto
  <2>2. /\ row[user[w]] = None /\ pc'[w] = "vnet" /\ mode'[w] = "new"
        /\ \A x \in Workers \ {w} : Inserting(x) => user[x] # user[w]
    BY <1>7 DEF Allocate, Goto, Inserts, Inserting
  <2>3. JobSettled(w)'
    BY <2>1, <2>2 DEF JobSettled
  <2>4. \A x \in Workers : JobSettled(x)'
    BY <1>0, <2>1, <2>3, OthersStaySettled DEF NetworksSettled, JobSettled
  <2>5. InsertsAlone'
    BY <2>1, <2>2 DEF NetworksSettled, InsertsAlone, Inserting
  <2>6. RowsDefined'
    BY <1>0, <2>1, RowsStayDefined DEF NetworksSettled
  <2> QED
    BY <2>4, <2>5, <2>6 DEF NetworksSettled
<1>8. ASSUME NEW w \in Workers, NEW listed \in SUBSET Subnets,
             AllocateFails(w, listed) PROVE NetworksSettled'
  BY <1>0, <1>8, EndSettles DEF AllocateFails, db
<1>9. ASSUME NEW w \in Workers, EnsureVnet(w) PROVE NetworksSettled'
  <2>1. OthersKeep(w) /\ row' = row /\ UNCHANGED <<mode, net, user, subnetOf>>
    BY <1>9 DEF EnsureVnet, Goto, db
  <2>2. /\ pc[w] = "vnet" /\ pc'[w] = "subnet" /\ net[w].vnet \in Vnets
        /\ user[w] # None
    BY <1>9, NetsType, NoneIsNothing DEF EnsureVnet, Goto, HoldsWhatItNeeds, Building
  <2>3. alias'[net[w].vnet] # None
    BY <1>9, <2>2 DEF EnsureVnet, ProxmoxType
  <2>4. JobSettled(w)'
    BY <2>1, <2>2, <2>3 DEF JobSettled, NetworksSettled, Inserting
  <2> QED
    BY <1>0, <2>1, <2>2, <2>4, OneJobSettles DEF Inserting
<1>10. ASSUME NEW w \in Workers, EnsureSubnet(w) PROVE NetworksSettled'
  <2>1. OthersKeep(w) /\ row' = row /\ UNCHANGED <<mode, net, user, alias>>
    BY <1>10 DEF EnsureSubnet, Goto, db
  <2>2. pc[w] = "subnet" /\ pc'[w] = "rule" /\ net[w].subnet \in Subnets
    BY <1>10, NetsType DEF EnsureSubnet, Goto, HoldsWhatItNeeds, Building
  <2>3. subnetOf'[net[w].subnet] = net[w].vnet
    BY <1>10, <2>2 DEF EnsureSubnet, ProxmoxType
  <2>4. JobSettled(w)'
    BY <2>1, <2>2, <2>3 DEF JobSettled, NetworksSettled, Inserting
  <2> QED
    BY <1>0, <2>1, <2>2, <2>4, OneJobSettles DEF Inserting
<1>11. ASSUME NEW w \in Workers, Collide(w) PROVE NetworksSettled'
  <2>1. OthersKeep(w) /\ row' = row
    BY <1>11 DEF Collide, Goto, db
  <2>2. pc'[w] = "allocate" /\ mode'[w] = "adopt"
    BY <1>11 DEF Collide, Collides, Goto, NetworksSettled, JobSettled
  <2>3. JobSettled(w)' /\ ~ Inserting(w)'
    BY <2>2 DEF JobSettled, Inserting
  <2> QED
    BY <1>0, <2>1, <2>3, OneJobSettles
<1>12. ASSUME NEW w \in Workers, EnsureRule(w) PROVE NetworksSettled'
  <2>1. /\ OthersKeep(w) /\ row' = row /\ UNCHANGED <<mode, net, user, alias, subnetOf>>
        /\ net[w].vnet \in rules'
    BY <1>12 DEF EnsureRule, Goto, db
  <2>2. pc[w] = "rule" /\ pc'[w] = "apply"
    BY <1>12 DEF EnsureRule, Goto
  <2>3. JobSettled(w)'
    BY <2>1, <2>2 DEF JobSettled, NetworksSettled, Inserting
  <2> QED
    BY <1>0, <2>1, <2>2, <2>3, OneJobSettles DEF Inserting
<1>13. ASSUME NEW w \in Workers, ApplySdn(w) PROVE NetworksSettled'
  <2>1. /\ OthersKeep(w) /\ row' = row
        /\ UNCHANGED <<mode, net, user, alias, subnetOf, rules>>
    BY <1>13 DEF ApplySdn, Goto, db
  <2>2. /\ pc[w] = "apply" /\ pc'[w] \in {"commit", "attach"}
        /\ pc'[w] = "commit" => mode[w] = "new"
        /\ pc'[w] = "attach" => mode[w] # "new"
    BY <1>13 DEF ApplySdn, Goto
  <2>3. net[w].vnet \in Vnets /\ net[w].vnet # None /\ net[w].subnet \in Subnets
    BY <2>2, NetsType, NoneIsNothing DEF HoldsWhatItNeeds, Building
  <2>4. Applied(net[w])'
    BY <1>13, <2>1, <2>2, <2>3
    DEF ApplySdn, AskForApply, Applied, ProxmoxType, NetworksSettled, JobSettled
  <2>5. JobSettled(w)'
    BY <2>1, <2>2, <2>4 DEF JobSettled, NetworksSettled, Inserting
  <2> QED
    BY <1>0, <2>1, <2>2, <2>5, OneJobSettles DEF Inserting
<1>14. ASSUME NEW w \in Workers, Commit(w) PROVE NetworksSettled'
  <2>1. OthersKeep(w) /\ UNCHANGED <<mode, net, user>> /\ UNCHANGED proxmox
    BY <1>14 DEF Commit, Goto
  <2>2. /\ pc[w] = "commit" /\ mode[w] = "new" /\ pc'[w] = "attach" /\ user[w] \in Users
        /\ row' = [row EXCEPT ![user[w]] = net[w]]
    BY <1>14 DEF Commit, Goto, HoldsWhatItNeeds
  <2>3. subnetOf[net[w].subnet] = net[w].vnet /\ Applied(net[w])
    BY <2>2 DEF NetworksSettled, JobSettled
  <2>4. RowsDefined'
    BY <2>1, <2>2, <2>3 DEF RowsDefined, NetworksSettled, DbType, proxmox
  <2>5. Applied(net[w])'
    BY <2>1, <2>3 DEF Applied, proxmox
  <2>6. JobSettled(w)' /\ ~ Inserting(w)'
    BY <2>1, <2>2, <2>3, <2>5 DEF JobSettled, Inserting, proxmox
  <2>7. \A x \in Workers \ {w} : Inserting(x) => user[x] # user[w]
    BY <2>2 DEF NetworksSettled, InsertsAlone, Inserting
  <2>8. \A x \in Workers \ {w} : Inserting(x) => row'[user[x]] = row[user[x]]
    BY <2>2, <2>7 DEF DbType
  <2>9. ASSUME NEW x \in Workers PROVE JobSettled(x)'
    <3>1. CASE x = w
      BY <2>6, <3>1
    <3>2. CASE x # w
      <4>1. JobSettled(x) /\ (Inserting(x) => row[user[x]] = None)
        BY DEF NetworksSettled, JobSettled
      <4>2. Inserting(x) => row'[user[x]] = None
        BY <2>8, <3>2, <4>1
      <4>3. pc'[x] = pc[x] /\ user'[x] = user[x] /\ net'[x] = net[x] /\ mode'[x] = mode[x]
        BY <2>1, <3>2 DEF OthersKeep
      <4> QED
        BY <1>0, <4>1, <4>2, <4>3, OthersStaySettled
    <3> QED
      BY <3>1, <3>2
  <2>10. InsertsAlone'
    BY <2>1, <2>6 DEF NetworksSettled, InsertsAlone, Inserting
  <2> QED
    BY <2>4, <2>9, <2>10 DEF NetworksSettled
<1>15. ASSUME NEW w \in Workers, Attach(w) PROVE NetworksSettled'
  BY <1>0, <1>15, EndSettles DEF Attach, db
<1>16. ASSUME NEW w \in Workers, Fail(w) PROVE NetworksSettled'
  BY <1>0, <1>16, EndSettles DEF Fail, db
<1>17. ASSUME NEW v \in Vnets, Remove(v) PROVE FALSE
  BY <1>17 DEF Remove
<1>18. ASSUME NEW outcome \in {"live", "failed"}, ApplyEnds(outcome) PROVE NetworksSettled'
  <2>1. UNCHANGED <<row, job>>
    BY <1>18 DEF ApplyEnds, db
  <2>2. \A x \in Workers : JobSettled(x)'
    BY <1>0, <2>1, OthersStaySettled DEF NetworksSettled, JobSettled, job
  <2>3. RowsDefined' /\ InsertsAlone'
    BY <1>0, <2>1, RowsStayDefined DEF NetworksSettled, InsertsAlone, Inserting, job
  <2> QED
    BY <2>2, <2>3 DEF NetworksSettled
<1>19. CASE UNCHANGED vars
  BY <1>19 DEF vars, db, proxmox, job, NetworksSettled, RowsDefined, InsertsAlone,
     JobSettled, Inserting, Applied
<1> QED
  BY <1>1, <1>2, <1>3, <1>4, <1>5, <1>6, <1>7, <1>8, <1>9, <1>10, <1>11, <1>12, <1>13,
     <1>14, <1>15, <1>16, <1>17, <1>18, <1>19 DEF Next, JobStep

\* The invariant of the three theorems below.
LEMMA AlwaysSettled ==
  ASSUME MaxRemovals = 0
  PROVE  Spec => []NetworksSettled
<1>1. Init => NetworksSettled
  BY NoneIsNothing DEF Init, NetworksSettled, RowsDefined, InsertsAlone, JobSettled,
     Inserting
<1>2. TypeOK /\ NetworksSettled /\ [Next]_vars => NetworksSettled'
  BY NextSettles
<1> QED
  BY <1>1, <1>2, NetworkTypeCorrect, PTL DEF Spec

\* No two users are given the same subnet while no vnet is removed by hand
\* (SubnetsPrivate): a row's subnet is defined on its vnet, which is his alone.
THEOREM SubnetsArePrivate ==
  ASSUME MaxRemovals = 0
  PROVE  Spec => []SubnetsPrivate
<1>1. VnetsPrivate /\ NetworksSettled => SubnetsPrivate
  BY DEF VnetsPrivate, NetworksSettled, RowsDefined, SubnetsPrivate
<1> QED
  BY <1>1, VnetsArePrivate, AlwaysSettled, PTL

\* A job that allocated its network, or found its row, is told of one that has its
\* subnet and its rule and that Proxmox was asked to apply, while no vnet is
\* removed by hand (AppliedUnlessAdopted); that the task has succeeded nobody
\* checks, and this does not say.
THEOREM NetworkIsApplied ==
  ASSUME MaxRemovals = 0
  PROVE  Spec => []AppliedUnlessAdopted
<1>1. NetworksSettled => AppliedUnlessAdopted
  BY DEF NetworksSettled, JobSettled, AppliedUnlessAdopted
<1> QED
  BY <1>1, AlwaysSettled, PTL

\* No step takes a row away, or changes it.
LEMMA RowsStay ==
  ASSUME TypeOK, NetworksSettled, [Next]_vars, NEW u \in Users, row[u] # None
  PROVE  row'[u] = row[u]
<1> USE DEF TypeOK, DbType
<1>1. ASSUME NEW w \in Workers, NEW s \in Subnets, AdoptSave(w, s)
      PROVE  row'[u] = row[u]
  <2>1. row[user[w]] = None
    BY <1>1 DEF AdoptSave, Inserts, NetworksSettled, JobSettled
  <2> QED
    BY <1>1, <2>1 DEF AdoptSave
<1>2. ASSUME NEW w \in Workers, Commit(w) PROVE row'[u] = row[u]
  <2>1. row[user[w]] = None
    BY <1>2 DEF Commit, JobType, HoldsWhatItNeeds, NetworksSettled, JobSettled, Inserting
  <2> QED
    BY <1>2, <2>1 DEF Commit
<1>3. ASSUME NEW w \in Workers, DropRow(w) PROVE FALSE
  BY <1>3 DEF DropRow, NetworksSettled, JobSettled
<1>4. ASSUME NEW w \in Workers, JobStep(w) \/ Fail(w) \/ \E x \in Users : Begin(w, x)
      PROVE  \/ \E s \in Subnets : AdoptSave(w, s)
             \/ Commit(w) \/ DropRow(w) \/ UNCHANGED row
  BY <1>4 DEF JobStep, Fail, Begin, FindByAlias, AdoptRefused, AdoptEmpty, Check,
     Allocate, AllocateFails, EnsureVnet, EnsureSubnet, Collide, EnsureRule, ApplySdn,
     Attach, db
<1>5. ASSUME NEW v \in Vnets, Remove(v) PROVE UNCHANGED row
  BY <1>5 DEF Remove, db
<1>6. ASSUME NEW outcome \in {"live", "failed"}, ApplyEnds(outcome) PROVE UNCHANGED row
  BY <1>6 DEF ApplyEnds, db
<1> QED
  BY <1>1, <1>2, <1>3, <1>4, <1>5, <1>6 DEF Next, vars, db

\* The network a user once has is his for good while no vnet is removed by
\* hand (NetworkStable).
THEOREM NetworkIsStable ==
  ASSUME MaxRemovals = 0
  PROVE  Spec => NetworkStable
<1>1. TypeOK /\ NetworksSettled /\ [Next]_vars
        => [\A u \in Users : row[u] # None => row'[u] = row[u]]_vars
  BY RowsStay
<1> QED
  BY <1>1, NetworkTypeCorrect, AlwaysSettled, PTL DEF Spec, NetworkStable

-----------------------------------------------------------------------------
(* The refinement                                                          *)

\* A step of one worker leaves the others, and what they are told, alone.
LEMMA OneWorkerSteps ==
  ASSUME TypeOK, NEW w \in Workers,
         JobStep(w) \/ Fail(w) \/ \E u \in Users : Begin(w, u)
  PROVE  \A x \in Workers \ {w} : /\ pc'[x] = pc[x] /\ user'[x] = user[x]
                                  /\ net'[x] = net[x] /\ mode'[x] = mode[x]
<1> USE DEF TypeOK, JobType, JobTypes
<1>1. CASE End(w)
  BY <1>1 DEF End, Goto
<1>2. CASE (\E u \in Users : Begin(w, u)) \/ FindByAlias(w) \/ AdoptEmpty(w)
  BY <1>2 DEF Begin, FindByAlias, AdoptEmpty, AdoptNothing, Goto
<1>3. CASE \E s \in Subnets : AdoptSave(w, s)
  BY <1>3 DEF AdoptSave, Goto
<1>4. CASE Check(w) \/ DropRow(w) \/ Collide(w) \/ Commit(w)
  BY <1>1, <1>4 DEF Check, DropRow, Collide, Commit, Goto
<1>5. CASE \E listed \in SUBSET Subnets, s \in Subnets : Allocate(w, listed, s)
  BY <1>5 DEF Allocate, Goto
<1>6. CASE EnsureVnet(w) \/ EnsureSubnet(w) \/ EnsureRule(w) \/ ApplySdn(w)
  BY <1>6 DEF EnsureVnet, EnsureSubnet, EnsureRule, ApplySdn, Goto
<1> QED
  BY <1>1, <1>2, <1>3, <1>4, <1>5, <1>6 DEF JobStep, Fail, AdoptRefused, AllocateFails, Attach

\* The row a job repairs stays as the job holds it.
LEMMA NextRepairs ==
  ASSUME TypeOK, NetworksSettled, RepairsTheRow, [Next]_vars
  PROVE  RepairsTheRow'
<1> USE DEF TypeOK, JobType, JobTypes
<1> SUFFICES ASSUME NEW w \in Workers, mode'[w] = "repair"
             PROVE  row'[user'[w]] = net'[w]
  BY DEF RepairsTheRow
<1>1. CASE mode[w] = "repair" /\ user'[w] = user[w] /\ net'[w] = net[w]
  <2>1. pc[w] \in Building
    BY <1>1 DEF HoldsWhatItNeeds, JobStates, NetworksSettled, JobSettled
  <2>2. user[w] \in Users /\ row[user[w]] # None
    BY <1>1, <2>1, NoneIsNothing DEF HoldsWhatItNeeds, RepairsTheRow, Building
  <2> QED
    BY <1>1, <2>2, RowsStay DEF RepairsTheRow
<1>2. ASSUME NEW u \in Users, Begin(w, u) PROVE row'[user'[w]] = net'[w]
  BY <1>2 DEF Begin, db, HoldsWhatItNeeds
<1>3. CASE End(w)
  BY <1>3 DEF End
<1>4. CASE FindByAlias(w) \/ AdoptEmpty(w) \/ (\E s \in Subnets : AdoptSave(w, s))
  BY <1>4 DEF FindByAlias, AdoptEmpty, AdoptSave, HoldsWhatItNeeds
<1>5. CASE \/ \E listed \in SUBSET Subnets, s \in Subnets : Allocate(w, listed, s)
           \/ DropRow(w) \/ Collide(w)
  BY <1>1, <1>3, <1>5 DEF Allocate, DropRow, Collide
<1>6. CASE Check(w) \/ EnsureVnet(w) \/ EnsureSubnet(w) \/ EnsureRule(w) \/ ApplySdn(w)
           \/ Commit(w)
  BY <1>1, <1>6 DEF Check, EnsureVnet, EnsureSubnet, EnsureRule, ApplySdn, Commit
<1>7. ASSUME NEW x \in Workers, x # w, JobStep(x) \/ Fail(x) \/ \E u \in Users : Begin(x, u)
      PROVE  row'[user'[w]] = net'[w]
  <2>1. user'[w] = user[w] /\ net'[w] = net[w] /\ mode'[w] = mode[w]
    BY <1>7, OneWorkerSteps
  <2> QED
    BY <1>1, <2>1
<1>8. CASE UNCHANGED job
  BY <1>1, <1>8 DEF job
<1> QED
  BY <1>2, <1>3, <1>4, <1>5, <1>6, <1>7, <1>8
  DEF Next, JobStep, Fail, AdoptRefused, AllocateFails, Attach, Remove, ApplyEnds, vars

\* A job reaches the state in which it hands out its network, and the rows
\* say so by then: that is a step of PrivateNetworks.
LEMMA GivingEnsures ==
  ASSUME TypeOK, NEW w \in Workers, VnetsPrivate', SubnetsPrivate',
         pc[w] # "attach", pc' = [pc EXCEPT ![w] = "attach"],
         user[w] \in Users, user'[w] = user[w], net'[w] \in Rows,
         \A x \in Workers \ {w} : user'[x] = user[x] /\ net'[x] = net[x],
         row' = [row EXCEPT ![user[w]] = net'[w]],
         row[user[w]] = None \/ row[user[w]] = net'[w]
  PROVE  Networks!Ensure(w, user[w])
<1> USE DEF TypeOK, DbType, JobType, JobTypes
<1> DEFINE u == user[w]
           n == [vnet |-> net'[w].vnet, subnet |-> net'[w].subnet]
<1>1. n \in [vnet : Vnets, subnet : Subnets] /\ net'[w] # None
  BY NetsType, NoneIsNothing
<1>2. toldTo[w] = None
  BY DEF toldTo
<1>3. toldTo' = [toldTo EXCEPT ![w] = [user |-> u, vnet |-> n.vnet, subnet |-> n.subnet]]
  <2>1. /\ pc'[w] = "attach" /\ user'[w] = u
        /\ \A x \in Workers \ {w} : pc'[x] = pc[x] /\ user'[x] = user[x] /\ net'[x] = net[x]
    OBVIOUS
  <2>2. toldTo' = [x \in Workers |->
                     IF x = w THEN [user |-> u, vnet |-> n.vnet, subnet |-> n.subnet]
                              ELSE toldTo[x]]
    BY <2>1 DEF toldTo
  <2> QED
    BY <2>2 DEF toldTo
<1>4. givenTo' = [givenTo EXCEPT ![u] = n]
  BY <1>1 DEF givenTo
<1>5. Networks!Given(u, n)
  <2>1. CASE row[u] = net'[w]
    BY <1>1, <2>1 DEF Networks!Given, givenTo
  <2>2. CASE row[u] = None
    <3>1. givenTo[u] = None
      BY <2>2 DEF givenTo
    <3>2. ASSUME NEW x \in Users, givenTo[x] # None
          PROVE  ~ Networks!Shared(n, givenTo[x])
      <4>1. x # u /\ row[x] # None
        BY <3>1, <3>2 DEF givenTo
      <4>2. row'[x] = row[x] /\ row'[u] = net'[w]
        BY <4>1
      <4>3. row[x].vnet # net'[w].vnet /\ row[x].subnet # net'[w].subnet
        BY <1>1, <4>1, <4>2 DEF VnetsPrivate, SubnetsPrivate
      <4> QED
        BY <4>1, <4>3 DEF givenTo, Networks!Shared
    <3> QED
      BY <3>1, <3>2 DEF Networks!Given
  <2> QED
    BY <2>1, <2>2
<1> QED
  BY <1>1, <1>2, <1>3, <1>4, <1>5 DEF Networks!Ensure

\* A job that hands its network out, or dies with it, returns.
LEMMA EndReturns ==
  ASSUME TypeOK, NEW w \in Workers, End(w), row' = row
  PROVE  Networks!Return(w) \/ UNCHANGED <<givenTo, toldTo>>
<1> USE DEF TypeOK, JobType, JobTypes
<1>1. givenTo' = givenTo
  BY DEF givenTo
<1>2. /\ pc'[w] = "idle"
      /\ \A x \in Workers \ {w} : pc'[x] = pc[x] /\ user'[x] = user[x] /\ net'[x] = net[x]
  BY DEF End, Goto
<1>3. toldTo' = [toldTo EXCEPT ![w] = None]
  BY <1>2 DEF toldTo
<1>4. CASE pc[w] = "attach"
  <2>1. toldTo[w] \in [user : Users, vnet : Vnets, subnet : Subnets]
    BY <1>4, NetsType DEF toldTo, HoldsWhatItNeeds, Building
  <2> QED
    BY <1>1, <1>3, <2>1, NoneAssumption DEF Networks!Return
<1>5. CASE pc[w] # "attach"
  BY <1>1, <1>2, <1>5 DEF toldTo
<1> QED
  BY <1>4, <1>5

\* Whatever else a job does is not seen.
LEMMA BuildingIsHidden ==
  ASSUME TypeOK, NEW w \in Workers, row' = row, pc[w] # "attach", pc'[w] # "attach",
         \A x \in Workers \ {w} : pc'[x] = pc[x] /\ user'[x] = user[x] /\ net'[x] = net[x]
  PROVE  UNCHANGED <<givenTo, toldTo>>
BY DEF givenTo, toldTo

\* Each step of a job is one of PrivateNetworks, or is not seen there.
LEMMA NextImplements ==
  ASSUME TypeOK, NetworksSettled, RepairsTheRow, VnetsPrivate', SubnetsPrivate',
         MaxRemovals = 0, [Next]_vars
  PROVE  [Networks!Next]_<<givenTo, toldTo>>
<1> USE DEF TypeOK, DbType, JobType, JobTypes
<1>1. ASSUME NEW w \in Workers, JobStep(w) \/ Fail(w) \/ \E u \in Users : Begin(w, u)
      PROVE  \/ Networks!Return(w) \/ \E u \in Users : Networks!Ensure(w, u)
             \/ UNCHANGED <<givenTo, toldTo>>
  <2>0. \A x \in Workers \ {w} : pc'[x] = pc[x] /\ user'[x] = user[x] /\ net'[x] = net[x]
    BY <1>1, OneWorkerSteps
  <2>1. CASE End(w) /\ UNCHANGED row
    BY <2>1, EndReturns
  <2>2. CASE Begin(w, user'[w]) \/ FindByAlias(w) \/ AdoptEmpty(w) \/ Collide(w)
    <3>1. row' = row /\ pc[w] # "attach" /\ pc'[w] # "attach"
      BY <2>2 DEF Begin, FindByAlias, AdoptEmpty, AdoptNothing, Collide, Goto, db
    <3> QED
      BY <2>0, <3>1, BuildingIsHidden
  <2>3. CASE EnsureVnet(w) \/ EnsureSubnet(w) \/ EnsureRule(w)
    <3>1. row' = row /\ pc[w] # "attach" /\ pc'[w] # "attach"
      BY <2>3 DEF EnsureVnet, EnsureSubnet, EnsureRule, Goto, db
    <3> QED
      BY <2>0, <3>1, BuildingIsHidden
  <2>4. CASE \E listed \in SUBSET Subnets, s \in Subnets : Allocate(w, listed, s)
    <3>1. row' = row /\ pc[w] # "attach" /\ pc'[w] # "attach"
      BY <2>4 DEF Allocate, Goto
    <3> QED
      BY <2>0, <3>1, BuildingIsHidden
  <2>5. ASSUME NEW s \in Subnets, AdoptSave(w, s) PROVE Networks!Ensure(w, user[w])
    <3>1. /\ mode[w] # "collided" /\ row[user[w]] = None /\ user[w] \in Users
          /\ net[w].vnet \in Vnets /\ nextId \in 1 .. MaxId
      BY <2>5 DEF AdoptSave, Inserts, NetworksSettled, JobSettled, HoldsWhatItNeeds
    <3>2. net'[w] = [id |-> nextId, vnet |-> net[w].vnet, subnet |-> s]
      BY <2>5, <3>1 DEF AdoptSave
    <3>3. net'[w] \in Rows
      BY <3>1, <3>2, NetsType
    <3>4. /\ pc' = [pc EXCEPT ![w] = "attach"] /\ pc[w] # "attach" /\ user'[w] = user[w]
          /\ row' = [row EXCEPT ![user[w]] = net'[w]]
      BY <2>5 DEF AdoptSave, Goto
    <3> QED
      BY <2>0, <3>1, <3>3, <3>4, GivingEnsures
  <2>6. CASE Commit(w)
    <3>1. row[user[w]] = None /\ user[w] \in Users /\ net[w] \in Rows
      BY <2>6 DEF Commit, NetworksSettled, JobSettled, Inserting, HoldsWhatItNeeds, Building
    <3>2. /\ pc' = [pc EXCEPT ![w] = "attach"] /\ pc[w] # "attach"
          /\ UNCHANGED <<user, net>> /\ row' = [row EXCEPT ![user[w]] = net[w]]
      BY <2>6 DEF Commit, Goto
    <3>3. Networks!Ensure(w, user[w])
      BY <3>1, <3>2, GivingEnsures
    <3> QED
      BY <3>1, <3>3
  <2>7. CASE Check(w) \/ ApplySdn(w)
    <3>1. CASE pc'[w] # "attach"
      <4>1. row' = row /\ pc[w] # "attach"
        BY <2>7 DEF Check, ApplySdn, db
      <4> QED
        BY <2>0, <3>1, <4>1, BuildingIsHidden
    <3>2. CASE pc'[w] = "attach"
      <4>1. /\ pc[w] # "attach" /\ pc' = [pc EXCEPT ![w] = "attach"]
            /\ UNCHANGED <<user, net, row>>
        BY <2>7, <3>2 DEF Check, ApplySdn, Goto, db
      <4>2. mode[w] = "repair" /\ user[w] \in Users /\ net[w] \in Rows
        BY <2>7, <3>2 DEF Check, ApplySdn, Goto, HoldsWhatItNeeds, Building
      <4>3. row[user[w]] = net[w]
        BY <4>2 DEF RepairsTheRow
      <4>4. row' = [row EXCEPT ![user[w]] = net'[w]]
        BY <4>1, <4>2, <4>3
      <4>5. Networks!Ensure(w, user[w])
        BY <4>1, <4>2, <4>3, <4>4, GivingEnsures
      <4> QED
        BY <4>2, <4>5
    <3> QED
      BY <3>1, <3>2
  <2>8. ~ DropRow(w)
    BY DEF DropRow, NetworksSettled, JobSettled
  <2>9. ASSUME NEW u \in Users, Begin(w, u) PROVE Begin(w, user'[w])
    BY <2>9 DEF Begin
  <2>10. ASSUME NEW s \in Subnets, AdoptSave(w, s) PROVE user[w] \in Users
    BY <2>10 DEF AdoptSave, HoldsWhatItNeeds
  <2> QED
    BY <1>1, <2>1, <2>2, <2>3, <2>4, <2>5, <2>6, <2>7, <2>8, <2>9, <2>10
    DEF JobStep, Fail, AdoptRefused, AllocateFails, Attach, db
<1>2. ASSUME NEW v \in Vnets, Remove(v) PROVE FALSE
  BY <1>2 DEF Remove
<1>3. ASSUME NEW outcome \in {"live", "failed"}, ApplyEnds(outcome)
      PROVE  UNCHANGED <<givenTo, toldTo>>
  BY <1>3 DEF ApplyEnds, db, job, givenTo, toldTo
<1>4. CASE UNCHANGED vars
  BY <1>4 DEF vars, db, job, givenTo, toldTo
<1> QED
  BY <1>1, <1>2, <1>3, <1>4 DEF Next, Networks!Next

\* While no vnet is removed by hand, the calls and rows of
\* ensure_student_network are an implementation of PrivateNetworks: each user
\* is given one network, all at once and for ever, that shares neither vnet nor
\* subnet with another's, and every job is told of that one (ImplementsNetworks).
THEOREM NetworksAreImplemented ==
  ASSUME MaxRemovals = 0
  PROVE  Spec => ImplementsNetworks
<1>1. Init => Networks!Init /\ RepairsTheRow
  BY DEF Init, Networks!Init, givenTo, toldTo, RepairsTheRow
<1>2. TypeOK /\ NetworksSettled /\ RepairsTheRow /\ [Next]_vars => RepairsTheRow'
  BY NextRepairs
<1>3. TypeOK /\ NetworksSettled /\ RepairsTheRow /\ VnetsPrivate' /\ SubnetsPrivate'
        /\ [Next]_vars => [Networks!Next]_<<givenTo, toldTo>>
  BY NextImplements
<1> QED
  BY <1>1, <1>2, <1>3, NetworkTypeCorrect, AlwaysSettled, VnetsArePrivate, SubnetsArePrivate,
     PTL DEF Spec, ImplementsNetworks, Networks!Spec, Networks!vars
=============================================================================
