--------------------------- MODULE StudentNetwork ---------------------------
(***************************************************************************)
(* ensure_student_network: before a VM is created, or gets an interface,   *)
(* its user must have a private network - a row of student_network in      *)
(* Postgres and, in the SDN of Proxmox, a vnet with one subnet and a       *)
(* firewall group rule.  Nothing spans the two: a job commits its row      *)
(* last, Proxmox refuses a subnet that is defined already, and a job that  *)
(* finds no row looks for a vnet that bears the user's alias.  RQ jobs and *)
(* web requests interleave, and any call may fail or its process be killed.*)
(***************************************************************************)
EXTENDS Integers

CONSTANTS
  Users,
  Vnets,
  Subnets,       \* the subnets of SDN_BASE_CIDR, as numbers in their order
  MaxId,         \* bound on the serial column of student_network
  VnetOf,        \* _build_vnet_id: row id |-> vnet name
  MaxAttempts,   \* SDN_SUBNET_ALLOCATE_ATTEMPTS
  Workers,       \* the RQ and gunicorn workers, one call each at a time
  MaxFaults,     \* bound on failed writes and killed processes
  MaxUnread,     \* bound on listings that fail and are taken for empty ones
  MaxRemovals,   \* bound on vnets an administrator removes in Proxmox
  None

ASSUME SubnetsAssumption == Subnets \subseteq Nat
ASSUME BoundsAssumption ==
  /\ MaxId \in Nat /\ MaxAttempts \in Nat /\ MaxFaults \in Nat
  /\ MaxUnread \in Nat /\ MaxRemovals \in Nat
\* Row ids are never reused and SDN_VNET_MAX_LEN cuts no digit off.
ASSUME VnetOfAssumption ==
  /\ VnetOf \in [1 .. MaxId -> Vnets]
  /\ \A i, j \in 1 .. MaxId : VnetOf[i] = VnetOf[j] => i = j
ASSUME NoneAssumption ==
  /\ None \notin Users \cup Vnets \cup Subnets \cup Nat
  /\ None \notin [id : Nat, vnet : Vnets, subnet : Subnets]
  /\ None \notin [user : Users, vnet : Vnets, subnet : Subnets]

VARIABLES
  row,       \* committed rows: user |-> [id, vnet, subnet], or None
  nextId,    \* the sequence behind the id column; no rollback takes it back
  alias,     \* vnet |-> the user its alias names, None if there is no vnet
  subnetOf,  \* subnet |-> the vnet it is defined on, or None
  rules,     \* the vnets that have the firewall group rule
  stageV,    \* vnet, or subnet |-> how far it is from being real: no apply
  stageS,    \* of it was asked for, one runs, has failed or has succeeded
  pc, user,
  net,       \* the row a job has loaded or is building
  mode,      \* "adopt", "repair", "collided" or "new": the branch it is in
  reserved,  \* the subnets that collided in it
  attempts,
  faults, unread, removals

db      == <<row, nextId>>
proxmox == <<alias, subnetOf, rules, stageV, stageS>>
job     == <<pc, user, net, mode, reserved, attempts>>
bounds  == <<faults, unread, removals>>
vars    == <<db, proxmox, job, bounds>>

NoNet == [id |-> None, vnet |-> None, subnet |-> None]
Rows  == [id : 1 .. MaxId, vnet : Vnets, subnet : Subnets]
Nets  == [id : 1 .. MaxId \cup {None}, vnet : Vnets \cup {None},
          subnet : Subnets \cup {None}]
Stages == {"pending", "asked", "failed", "live"}

Init ==
  /\ row = [u \in Users |-> None] /\ nextId = 1
  /\ alias = [v \in Vnets |-> None]
  /\ subnetOf = [s \in Subnets |-> None]
  /\ rules = {}
  /\ stageV = [v \in Vnets |-> "pending"]
  /\ stageS = [s \in Subnets |-> "pending"]
  /\ pc = [w \in Workers |-> "idle"]
  /\ user = [w \in Workers |-> None]
  /\ net = [w \in Workers |-> NoNet]
  /\ mode = [w \in Workers |-> "adopt"]
  /\ reserved = [w \in Workers |-> {}]
  /\ attempts = [w \in Workers |-> 0]
  /\ faults = 0 /\ unread = 0 /\ removals = 0

-----------------------------------------------------------------------------
Goto(w, state) == pc' = [pc EXCEPT ![w] = state]

\* The job returns, fails or is killed; its open transaction is rolled back.
End(w) ==
  /\ Goto(w, "idle")
  /\ user' = [user EXCEPT ![w] = None]
  /\ net' = [net EXCEPT ![w] = NoNet]
  /\ mode' = [mode EXCEPT ![w] = "adopt"]
  /\ reserved' = [reserved EXCEPT ![w] = {}]
  /\ attempts' = [attempts EXCEPT ![w] = 0]

\* A listing fails, and _list_vnets or _get_vnet_subnets answers [].
Unread == unread < MaxUnread /\ unread' = unread + 1

\* Faulty: without the unique constraint on username.
InsertsUnchecked(w) == TRUE

\* username is unique: an insert waits for the one of another transaction,
\* and fails if the user has a row by then.
Inserts(w) ==
  /\ row[user[w]] = None
  /\ \A x \in Workers \ {w} :
       ~ (user[x] = user[w] /\ mode[x] = "new" /\ pc[x] # "attach")

\* An update, or a delete, of the row a job has loaded needs it to be there.
Updates(w) == row[user[w]] # None /\ row[user[w]].id = net[w].id

\* Faulty: the job starts without the row it found.
BeginLosesRow(w, u) ==
  /\ pc[w] = "idle"
  /\ user' = [user EXCEPT ![w] = u]
  /\ Goto(w, IF row[u] = None THEN "adopt" ELSE "check")
  /\ UNCHANGED <<db, proxmox, net, mode, reserved, attempts, bounds>>

\* get_student_network, and the branch on what it returns.
Begin(w, u) ==
  /\ pc[w] = "idle"
  /\ user' = [user EXCEPT ![w] = u]
  /\ \/ row[u] = None /\ Goto(w, "adopt") /\ UNCHANGED <<net, mode>>
     \/ /\ row[u] # None /\ Goto(w, "check")
        /\ net' = [net EXCEPT ![w] = row[u]]
        /\ mode' = [mode EXCEPT ![w] = "repair"]
  /\ UNCHANGED <<db, proxmox, reserved, attempts, bounds>>

\* Where an adoption that found nothing goes on.
AdoptNothing(w) ==
  Goto(w, IF mode[w] = "collided" THEN "drop" ELSE "allocate")

\* Faulty: any vnet that somebody has will do.
FindAnyVnet(w) ==
  /\ pc[w] = "adopt"
  /\ \/ \E v \in Vnets :
          /\ alias[v] # None
          /\ net' = [net EXCEPT ![w] = [id |-> @.id, vnet |-> v, subnet |-> None]]
          /\ Goto(w, "adopt_save")
     \/ /\ \A v \in Vnets : alias[v] = None
        /\ AdoptNothing(w)
        /\ UNCHANGED net
  /\ UNCHANGED <<db, proxmox, user, mode, reserved, attempts, bounds>>

\* _find_vnet_by_alias; the order Proxmox lists its vnets in is not ours.
FindByAlias(w) ==
  /\ pc[w] = "adopt"
  /\ \/ \E v \in Vnets :
          /\ alias[v] = user[w]
          /\ net' = [net EXCEPT ![w] = [id |-> @.id, vnet |-> v, subnet |-> None]]
          /\ Goto(w, "adopt_save")
          /\ UNCHANGED unread
     \/ /\ \/ (\A v \in Vnets : alias[v] # user[w]) /\ UNCHANGED unread
           \/ Unread
        /\ AdoptNothing(w)
        /\ UNCHANGED net
  /\ UNCHANGED <<db, proxmox, user, mode, reserved, attempts, faults, removals>>

\* _save_entry, with a subnet of the vnet: after a collision an update of the
\* row, else an insert, which draws an id.
AdoptSave(w, s) ==
  /\ pc[w] = "adopt_save" /\ subnetOf[s] = net[w].vnet
  /\ \/ /\ mode[w] = "collided" /\ Updates(w)
        /\ net' = [net EXCEPT ![w] = [id |-> @.id, vnet |-> @.vnet, subnet |-> s]]
        /\ UNCHANGED nextId
     \/ /\ mode[w] # "collided" /\ Inserts(w) /\ nextId <= MaxId
        /\ net' = [net EXCEPT ![w] = [id |-> nextId, vnet |-> @.vnet, subnet |-> s]]
        /\ nextId' = nextId + 1
  /\ row' = [row EXCEPT ![user[w]] = net'[w]]
  /\ mode' = [mode EXCEPT ![w] = "adopt"]
  /\ Goto(w, "attach")
  /\ UNCHANGED <<proxmox, user, reserved, attempts, bounds>>

\* IntegrityError or StaleDataError: another job was first.
AdoptRefused(w) ==
  /\ pc[w] = "adopt_save" /\ \E s \in Subnets : subnetOf[s] = net[w].vnet
  /\ \/ mode[w] = "collided" /\ ~ Updates(w)
     \/ mode[w] # "collided" /\ (row[user[w]] # None \/ nextId > MaxId)
  /\ End(w)
  /\ UNCHANGED <<db, proxmox, bounds>>

\* A vnet without a subnet is not adopted.
AdoptEmpty(w) ==
  /\ pc[w] = "adopt_save"
  /\ \/ (\A s \in Subnets : subnetOf[s] # net[w].vnet) /\ UNCHANGED unread
     \/ Unread
  /\ AdoptNothing(w)
  /\ UNCHANGED <<db, proxmox, user, net, mode, reserved, attempts, faults, removals>>

\* The vnet, its subnet and its rule are defined, and Proxmox has been asked
\* to apply them.
Applied(n) ==
  /\ alias[n.vnet] # None /\ stageV[n.vnet] # "pending"
  /\ subnetOf[n.subnet] = n.vnet /\ stageS[n.subnet] # "pending"
  /\ n.vnet \in rules

\* And it has done so.
Live(n) == Applied(n) /\ stageV[n.vnet] = "live" /\ stageS[n.subnet] = "live"

\* Faulty: a network that has a row is believed to be there.
CheckTrustsRow(w) ==
  /\ pc[w] = "check"
  /\ Goto(w, "attach")
  /\ UNCHANGED <<db, proxmox, user, net, mode, reserved, attempts, bounds>>

\* _vnet_ready, which reads the pending marks: when Proxmox takes them off,
\* with the request or with the end of its task, is not said here.  A listing
\* that fails makes a ready network look incomplete.
Check(w) ==
  /\ pc[w] = "check"
  /\ \/ Applied(net[w]) /\ Goto(w, "attach") /\ UNCHANGED unread
     \/ ~ Live(net[w]) /\ Goto(w, "vnet") /\ UNCHANGED unread
     \/ Unread /\ Goto(w, "vnet")
  /\ UNCHANGED <<db, proxmox, user, net, mode, reserved, attempts, faults, removals>>

\* After a collision on the network of the row: give the row up.
DropRow(w) ==
  /\ pc[w] = "drop"
  /\ \/ /\ Updates(w)
        /\ row' = [row EXCEPT ![user[w]] = None]
        /\ Goto(w, "allocate")
        /\ net' = [net EXCEPT ![w] = NoNet]
        /\ mode' = [mode EXCEPT ![w] = "adopt"]
        /\ UNCHANGED <<user, reserved, attempts>>
     \/ ~ Updates(w) /\ End(w) /\ UNCHANGED row               \* StaleDataError
  /\ UNCHANGED <<nextId, proxmox, bounds>>

\* allocate_student_subnet: not in a committed row, not listed by Proxmox.
FreeSubnets(w, listed) ==
  {s \in Subnets :
     /\ \A u \in Users : row[u] # None => row[u].subnet # s
     /\ s \notin listed \cup reserved[w]}

Listing(listed) ==
  \/ listed = {s \in Subnets : subnetOf[s] # None} /\ UNCHANGED unread
  \/ listed = {} /\ Unread

\* The first free subnet, and the flush of a new row with a new id.
Allocate(w, listed, s) ==
  /\ pc[w] = "allocate" /\ Listing(listed)
  /\ attempts[w] < MaxAttempts /\ nextId <= MaxId /\ Inserts(w)
  /\ s \in FreeSubnets(w, listed) /\ \A t \in FreeSubnets(w, listed) : s <= t
  /\ net' = [net EXCEPT ![w] = [id |-> nextId, vnet |-> VnetOf[nextId], subnet |-> s]]
  /\ nextId' = nextId + 1
  /\ attempts' = [attempts EXCEPT ![w] = @ + 1]
  /\ mode' = [mode EXCEPT ![w] = "new"]
  /\ Goto(w, "vnet")
  /\ UNCHANGED <<row, proxmox, user, reserved, faults, removals>>

\* Nothing is free, the attempts are used up, or another job was first.
AllocateFails(w, listed) ==
  /\ pc[w] = "allocate" /\ Listing(listed)
  /\ \/ FreeSubnets(w, listed) = {} \/ attempts[w] = MaxAttempts
     \/ row[user[w]] # None \/ nextId > MaxId
  /\ End(w)
  /\ UNCHANGED <<db, proxmox, faults, removals>>

EnsureVnet(w) ==
  /\ pc[w] = "vnet"
  /\ alias' = [alias EXCEPT ![net[w].vnet] = IF @ = None THEN user[w] ELSE @]
  /\ Goto(w, "subnet")
  /\ UNCHANGED <<db, subnetOf, rules, stageV, stageS, user, net, mode, reserved,
                 attempts, bounds>>

Collides(n) == subnetOf[n.subnet] \notin {None, n.vnet}

\* Faulty: "already defined" is a success, whatever vnet has the subnet.
EnsureSubnetAnywhere(w) ==
  /\ pc[w] = "subnet"
  /\ subnetOf' = [subnetOf EXCEPT ![net[w].subnet] =
                    IF @ = None THEN net[w].vnet ELSE @]
  /\ Goto(w, "rule")
  /\ UNCHANGED <<db, alias, rules, stageV, stageS, user, net, mode, reserved,
                 attempts, bounds>>

\* Proxmox defines a subnet once; on the same vnet, once is enough.
EnsureSubnet(w) ==
  /\ pc[w] = "subnet" /\ ~ Collides(net[w])
  /\ subnetOf' = [subnetOf EXCEPT ![net[w].subnet] = net[w].vnet]
  /\ Goto(w, "rule")
  /\ UNCHANGED <<db, alias, rules, stageV, stageS, user, net, mode, reserved,
                 attempts, bounds>>

\* SubnetCollision: roll the new row back and try the next subnet, or look
\* for another network for the row there is.
Collide(w) ==
  /\ pc[w] = "subnet" /\ Collides(net[w])
  /\ reserved' = [reserved EXCEPT ![w] = @ \cup {net[w].subnet}]
  /\ \/ /\ mode[w] = "new"
        /\ Goto(w, "allocate")
        /\ mode' = [mode EXCEPT ![w] = "adopt"]
        /\ net' = [net EXCEPT ![w] = NoNet]
     \/ /\ mode[w] = "repair"
        /\ Goto(w, "adopt")
        /\ mode' = [mode EXCEPT ![w] = "collided"]
        /\ UNCHANGED net
  /\ UNCHANGED <<db, proxmox, user, attempts, bounds>>

EnsureRule(w) ==
  /\ pc[w] = "rule"
  /\ rules' = rules \cup {net[w].vnet}
  /\ Goto(w, "apply")
  /\ UNCHANGED <<db, alias, subnetOf, stageV, stageS, user, net, mode, reserved,
                 attempts, bounds>>

\* What is defined and not live yet is being applied from here on.
AskForApply ==
  /\ stageV' = [v \in Vnets |-> IF alias[v] # None /\ stageV[v] # "live"
                                THEN "asked" ELSE stageV[v]]
  /\ stageS' = [s \in Subnets |-> IF subnetOf[s] # None /\ stageS[s] # "live"
                                  THEN "asked" ELSE stageS[s]]

\* Faulty: what was built is handed out, and no row says so.
ApplyWithoutCommit(w) ==
  /\ pc[w] = "apply"
  /\ AskForApply
  /\ Goto(w, "attach")
  /\ UNCHANGED <<db, alias, subnetOf, rules, user, net, mode, reserved, attempts,
                 bounds>>

\* Proxmox answers with the id of its task, a string: apply_sdn waits for the
\* task of a dict only, so it goes on at once.
ApplySdn(w) ==
  /\ pc[w] = "apply"
  /\ AskForApply
  /\ Goto(w, IF mode[w] = "new" THEN "commit" ELSE "attach")
  /\ UNCHANGED <<db, alias, subnetOf, rules, user, net, mode, reserved, attempts,
                 bounds>>

\* The task ends, in one way or the other, and nobody looks at it.
ApplyEnds(outcome) ==
  /\ (\E v \in Vnets : stageV[v] = "asked") \/ \E s \in Subnets : stageS[s] = "asked"
  /\ \/ outcome = "live" /\ UNCHANGED faults
     \/ outcome = "failed" /\ faults < MaxFaults /\ faults' = faults + 1
  /\ stageV' = [v \in Vnets |-> IF stageV[v] = "asked" THEN outcome ELSE stageV[v]]
  /\ stageS' = [s \in Subnets |-> IF stageS[s] = "asked" THEN outcome ELSE stageS[s]]
  /\ UNCHANGED <<db, alias, subnetOf, rules, job, unread, removals>>

Commit(w) ==
  /\ pc[w] = "commit"
  /\ row' = [row EXCEPT ![user[w]] = net[w]]
  /\ Goto(w, "attach")
  /\ UNCHANGED <<nextId, proxmox, user, net, mode, reserved, attempts, bounds>>

\* The caller puts the VM on the vnet it was given.
Attach(w) ==
  /\ pc[w] = "attach"
  /\ End(w)
  /\ UNCHANGED <<db, proxmox, bounds>>

\* A write or the request to apply fails, or the process is killed.
Fail(w) ==
  /\ pc[w] # "idle" /\ faults < MaxFaults
  /\ faults' = faults + 1
  /\ End(w)
  /\ UNCHANGED <<db, proxmox, unread, removals>>

\* An administrator removes a vnet by hand.
Remove(v) ==
  /\ alias[v] # None /\ removals < MaxRemovals
  /\ removals' = removals + 1
  /\ alias' = [alias EXCEPT ![v] = None]
  /\ subnetOf' = [s \in Subnets |-> IF subnetOf[s] = v THEN None ELSE subnetOf[s]]
  /\ rules' = rules \ {v}
  /\ stageV' = [stageV EXCEPT ![v] = "pending"]
  /\ stageS' = [s \in Subnets |-> IF subnetOf[s] = v THEN "pending" ELSE stageS[s]]
  /\ UNCHANGED <<db, job, faults, unread>>

JobStep(w) ==
  \/ FindByAlias(w) \/ AdoptRefused(w) \/ AdoptEmpty(w) \/ Check(w) \/ DropRow(w)
  \/ \E s \in Subnets : AdoptSave(w, s)
  \/ \E listed \in SUBSET Subnets :
       AllocateFails(w, listed) \/ \E s \in Subnets : Allocate(w, listed, s)
  \/ EnsureVnet(w) \/ EnsureSubnet(w) \/ Collide(w) \/ EnsureRule(w)
  \/ ApplySdn(w) \/ Commit(w) \/ Attach(w)

Next ==
  \/ \E w \in Workers : JobStep(w) \/ Fail(w) \/ \E u \in Users : Begin(w, u)
  \/ \E outcome \in {"live", "failed"} : ApplyEnds(outcome)
  \/ \E v \in Vnets : Remove(v)

Spec == Init /\ [][Next]_vars

-----------------------------------------------------------------------------
DbType ==
  /\ row \in [Users -> Rows \cup {None}]
  /\ nextId \in 1 .. MaxId + 1

ProxmoxType ==
  /\ alias \in [Vnets -> Users \cup {None}]
  /\ subnetOf \in [Subnets -> Vnets \cup {None}]
  /\ rules \subseteq Vnets
  /\ stageV \in [Vnets -> Stages] /\ stageS \in [Subnets -> Stages]

\* What a job holds in each of its states.
Building  == {"check", "vnet", "subnet", "rule", "apply", "commit", "attach"}
JobStates == {"idle", "adopt", "adopt_save", "drop", "allocate"} \cup Building

JobTypes ==
  /\ pc \in [Workers -> JobStates]
  /\ user \in [Workers -> Users \cup {None}]
  /\ net \in [Workers -> Nets]
  /\ mode \in [Workers -> {"adopt", "repair", "collided", "new"}]
  /\ reserved \in [Workers -> SUBSET Subnets]
  /\ attempts \in [Workers -> 0 .. MaxAttempts]

HoldsWhatItNeeds(w) ==
  /\ pc[w] = "idle" => user[w] = None /\ net[w] = NoNet /\ mode[w] = "adopt"
  /\ pc[w] # "idle" => user[w] \in Users
  /\ pc[w] = "adopt_save" => net[w].vnet \in Vnets
  /\ pc[w] \in Building => net[w] \in Rows
  /\ mode[w] = "collided" => net[w].id \in 1 .. MaxId
  /\ pc[w] \in {"vnet", "subnet", "rule", "apply"} => mode[w] \in {"repair", "new"}
  /\ pc[w] \in {"adopt", "adopt_save", "allocate"} => mode[w] \in {"adopt", "collided"}
  /\ pc[w] = "check" => mode[w] = "repair"
  /\ pc[w] = "commit" => mode[w] = "new"

JobType == JobTypes /\ \A w \in Workers : HoldsWhatItNeeds(w)

\* Every variable keeps to its values: an idle worker has no user
\* and no network, a job has a user, and one that builds or hands out a
\* network has all of it.
TypeOK ==
  /\ DbType /\ ProxmoxType /\ JobType
  /\ faults \in 0 .. MaxFaults /\ unread \in 0 .. MaxUnread
  /\ removals \in 0 .. MaxRemovals

\* No two users are ever given the same vnet (sdn.py:386-491), however jobs
\* interleave, collide, fail between two calls or find their vnet removed.
VnetsPrivate ==
  \A u, x \in Users :
    u # x /\ row[u] # None /\ row[x] # None => row[u].vnet # row[x].vnet

\* No two users are given the same subnet, although no constraint of the
\* table says so and two jobs may pick the same one: Proxmox arbitrates.
SubnetsPrivate ==
  \A u, x \in Users :
    u # x /\ row[u] # None /\ row[x] # None => row[u].subnet # row[x].subnet

\* The network of a user, which his VMs are wired to, never changes.
NetworkStable ==
  [][\A u \in Users : row[u] # None => row'[u] = row[u]]_vars

\* A job that allocated its network, or found its row, gets a vnet that has its
\* subnet and is firewalled, and of which nothing still waits to be applied
\* (sdn.py:427-491).  Whether it is live is another matter: the task may still
\* run, or have failed, since sdn.py:360-366 never waits for it.
AppliedUnlessAdopted ==
  \A w \in Workers : pc[w] = "attach" /\ mode[w] # "adopt" => Applied(net[w])

\* README.md: "VMnet firewall security groups applied per-pool (per-user)".
AttachedIsFirewalled ==
  \A w \in Workers : pc[w] = "attach" => net[w].vnet \in rules

\* What the rows give to each user, and what each job is about to be told.
givenTo ==
  [u \in Users |-> IF row[u] = None THEN None
                   ELSE [vnet |-> row[u].vnet, subnet |-> row[u].subnet]]
toldTo ==
  [w \in Workers |-> IF pc[w] # "attach" THEN None
                     ELSE [user |-> user[w], vnet |-> net[w].vnet,
                           subnet |-> net[w].subnet]]

\* While no administrator removes vnets, the calls, rows and rollbacks of this
\* module come to what PrivateNetworks says: one step gives a user his network,
\* and whoever is told of it - by the branch that allocates, adopts or repairs -
\* is told the same (sdn.py:386-491).
Networks == INSTANCE PrivateNetworks WITH
  Callers <- Workers, network <- givenTo, answer <- toldTo

ImplementsNetworks == Networks!Spec

-----------------------------------------------------------------------------
(* Why these hold: the inductive invariants of the proofs.                 *)

Holds(u, v) ==
  \/ alias[v] = u
  \/ row[u] # None /\ row[u].vnet = v
  \/ \E w \in Workers : user[w] = u /\ net[w].vnet = v

\* Whatever names a vnet - an alias, a row, a job - names it for one user,
\* and nothing names the vnets of ids that are not drawn yet.
VnetsHeldByOne ==
  /\ \A v \in Vnets : \A u, x \in Users : Holds(u, v) /\ Holds(x, v) => u = x
  /\ \A i \in nextId .. MaxId : \A u \in Users : ~ Holds(u, VnetOf[i])

Inserting(w) ==
  mode[w] = "new" /\ pc[w] \in {"vnet", "subnet", "rule", "apply", "commit"}

\* While no vnet is removed, a row names a subnet that is defined on its vnet.
RowsDefined ==
  \A u \in Users : row[u] # None => subnetOf[row[u].subnet] = row[u].vnet

\* Then no job collides on its own row, what its calls have brought about
\* stays, and the row it inserts is its user's only one.
JobSettled(w) ==
  /\ mode[w] # "collided" /\ pc[w] # "drop"
  /\ mode[w] = "repair" \/ pc[w] \in {"rule", "apply", "commit", "attach"}
       => subnetOf[net[w].subnet] = net[w].vnet
  /\ pc[w] \in {"subnet", "rule", "apply"} => alias[net[w].vnet] # None
  /\ pc[w] = "apply" => net[w].vnet \in rules
  /\ pc[w] = "commit" \/ (pc[w] = "attach" /\ mode[w] # "adopt") => Applied(net[w])
  /\ Inserting(w) => row[user[w]] = None

InsertsAlone ==
  \A w, x \in Workers : w # x /\ Inserting(w) /\ Inserting(x) => user[w] # user[x]

\* A job that repairs holds the row of its user as it is.
RepairsTheRow ==
  \A w \in Workers : mode[w] = "repair" => row[user[w]] = net[w]

NetworksSettled ==
  RowsDefined /\ InsertsAlone /\ \A w \in Workers : JobSettled(w)
=============================================================================
