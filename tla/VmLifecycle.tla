---------------------------- MODULE VmLifecycle ----------------------------
(***************************************************************************)
(* The life of a VM: jobs create it, or clone it from a template, under    *)
(* the lowest id that Proxmox has free; a row of vm_expiration, keyed by   *)
(* that id, says when it expires; a requested job deletes it, or a nightly *)
(* one that stops VMs on their date and deletes them a week later.  Ids    *)
(* are reused and nothing ties a row, or a queued request, to the VM that  *)
(* had the id when it was written.  Jobs wait in a queue; web requests,    *)
(* Proxmox tasks, guests and administrators go on beside them.             *)
(*                                                                         *)
(* A date is kept as the age of its row, in days, up to the last age it is *)
(* compared with; time is unbounded.                                       *)
(***************************************************************************)
EXTENDS Integers, Sequences

CONSTANTS
  Ids,           \* VM ids
  Pools,         \* the pools VMs are made in
  Expiring,      \* those that get_pools returns to the nightly job
  Workers,       \* RQ workers
  Web,           \* gunicorn workers, one request each at a time
  Kinds,         \* how VMs are made: a subset of {"create", "template"}
  Life,          \* VM_EXPIRE_MONTHS, in days
  Week,          \* days between the date of a VM and its deletion
  MaxVMs,        \* bound on the VMs made
  MaxByHand,     \* bound on those of them an administrator makes
  AdminRemoves,  \* whether administrators remove VMs, too
  MaxQueue,      \* bound on the jobs that wait
  MaxFaults,     \* bound on killed jobs, failed calls and failed tasks
  None

Procs == Workers \cup Web
MaxAge == Life + Week

ASSUME IdsAssumption == Ids \subseteq Nat
ASSUME PoolsAssumption == Expiring \subseteq Pools
ASSUME ProcsAssumption == Workers \cap Web = {}
ASSUME KindsAssumption == Kinds \subseteq {"create", "template"}
ASSUME BoundsAssumption ==
  /\ Life \in Nat /\ Week \in Nat \ {0} /\ MaxVMs \in Nat /\ MaxByHand \in Nat
  /\ MaxQueue \in Nat /\ MaxFaults \in Nat /\ AdminRemoves \in BOOLEAN
ASSUME NoneAssumption == None \notin Nat \cup Pools

VARIABLES
  at,        \* Proxmox: id |-> the VM that has it, or None
  row,       \* vm_expiration: id |-> the age of its row, or None
  queue,     \* the jobs that wait
  pc, job,   \* where each process is, and the job, or request, it is at
  id,        \* the id it is working on
  left,      \* the pools the nightly job still has to visit
  todo,      \* the ids it found in the pool it is at
  made, byHand, faults,
  since      \* history: the days since a creating job removed the row of its id

db      == <<row>>
proxmox == <<at, made, byHand>>
locals  == <<job, id, left, todo, since>>
vars    == <<at, row, queue, pc, locals, made, byHand, faults>>

Serials == 1 .. MaxVMs
Ages == 0 .. MaxAge
Tasks == {"none", "create", "start", "stop", "destroy"}

\* The interface net0 of a VM is on the vnet of its user or on the bridge of the
\* template it was cloned from; a template may have no net0.
Bridges == {"own", "template", "none"}

VMs == [vm : Serials, pool : Pools, byHand : BOOLEAN, age : Ages,
        on : BOOLEAN, net0 : Bridges, task : Tasks]

\* What waits in the queue: vm is history, the VM a delete was asked for.
Jobs == [kind : Kinds \cup {"delete", "nightly"}, pool : Pools \cup {None},
         id : Ids \cup {None}, vm : Serials \cup {None}]
Idle == [kind |-> "idle", pool |-> None, id |-> None, vm |-> None]
Start == [kind |-> "start", pool |-> None, id |-> None, vm |-> None]

Init ==
  /\ at = [i \in Ids |-> None]
  /\ row = [i \in Ids |-> None]
  /\ queue = <<>>
  /\ pc = [p \in Procs |-> "idle"]
  /\ job = [p \in Procs |-> Idle]
  /\ id = [p \in Procs |-> None]
  /\ left = [p \in Procs |-> {}]
  /\ todo = [p \in Procs |-> {}]
  /\ since = [p \in Procs |-> 0]
  /\ made = 0 /\ byHand = 0 /\ faults = 0

-----------------------------------------------------------------------------
Goto(p, state) == pc' = [pc EXCEPT ![p] = state]

\* The job or request returns, fails or is killed.
End(p) ==
  /\ Goto(p, "idle")
  /\ job' = [job EXCEPT ![p] = Idle]
  /\ id' = [id EXCEPT ![p] = None]
  /\ left' = [left EXCEPT ![p] = {}]
  /\ todo' = [todo EXCEPT ![p] = {}]
  /\ since' = [since EXCEPT ![p] = 0]

Fault == faults < MaxFaults /\ faults' = faults + 1

Exists(i) == at[i] # None
Free(i) == Exists(i) /\ at[i].task = "none"       \* no task locks it
Post(i, task) == at' = [at EXCEPT ![i].task = task]

Older(age) == IF age = MaxAge THEN age ELSE age + 1

Enqueue(entry) == Len(queue) < MaxQueue /\ queue' = Append(queue, entry)

-----------------------------------------------------------------------------
(* Requests                                                                *)

RequestVm(kind, pool) ==
  /\ made < MaxVMs
  /\ Enqueue([kind |-> kind, pool |-> pool, id |-> None, vm |-> None])
  /\ UNCHANGED <<proxmox, db, pc, locals, faults>>

\* The id is checked against the VMs of the user now, and used later.
RequestDelete(i) ==
  /\ Exists(i)
  /\ Enqueue([kind |-> "delete", pool |-> None, id |-> i, vm |-> at[i].vm])
  /\ UNCHANGED <<proxmox, db, pc, locals, faults>>

\* The scheduler, every night; a run that still waits is not queued again.
\* With ENABLE_VM_EXPIRATION set, that is: by default nothing ever expires.
ScheduleNightly ==
  /\ \A k \in 1 .. Len(queue) : queue[k].kind # "nightly"
  /\ Enqueue([kind |-> "nightly", pool |-> None, id |-> None, vm |-> None])
  /\ UNCHANGED <<proxmox, db, pc, locals, faults>>

\* vm_power start, with vm.expire before the VM is started; resume does the same.
RequestStart(p, i) ==
  /\ pc[p] = "idle" /\ Exists(i)
  /\ Goto(p, "expire")
  /\ job' = [job EXCEPT ![p] = Start]
  /\ id' = [id EXCEPT ![p] = i]
  /\ UNCHANGED <<proxmox, db, queue, left, todo, since, faults>>

\* start is refused, or its retries given up, where the VM is gone.
PowerOn(p) ==
  /\ pc[p] = "power"
  /\ \/ Free(id[p]) /\ Post(id[p], "start")
     \/ ~ Exists(id[p]) /\ UNCHANGED at
  /\ End(p)
  /\ UNCHANGED <<made, byHand, db, queue, faults>>

-----------------------------------------------------------------------------
(* get_vm_expire, called by each kind of job and by the start request      *)

\* Faulty: a VM is deleted on its date.
NightlyDeletesAtOnce(age) == IF age >= Life THEN "status" ELSE "next"

\* Faulty: days <= 0 is tested before days <= -7.
NightlyOnlyStops(age) == IF age >= Life THEN "halt" ELSE "next"

\* What the nightly job does with a VM: delete it, stop it, or pass on.
NightlyAction(age) ==
  CASE age >= Life + Week -> "status"
    [] age >= Life /\ age < Life + Week -> "halt"
    [] age < Life -> "next"

\* Where its caller goes on, given the age of the row.
Continue(p, age) ==
  CASE job[p].kind = "template" -> Goto(p, "config") /\ UNCHANGED locals
    [] job[p].kind = "create" -> End(p)
    [] job[p].kind = "start" /\ age > Life -> End(p)           \* 'expired', 400
    [] job[p].kind = "start" /\ age <= Life -> Goto(p, "power") /\ UNCHANGED locals
    [] job[p].kind = "nightly" -> Goto(p, NightlyAction(age)) /\ UNCHANGED locals

ReadExpire(p) ==
  /\ pc[p] = "expire"
  /\ \/ row[id[p]] # None /\ Continue(p, row[id[p]])
     \/ row[id[p]] = None /\ Goto(p, "insert") /\ UNCHANGED locals
  /\ UNCHANGED <<proxmox, db, queue, faults>>

\* id is the primary key: whoever inserts second fails.
InsertExpire(p) ==
  /\ pc[p] = "insert"
  /\ \/ /\ row[id[p]] = None
        /\ row' = [row EXCEPT ![id[p]] = 0]
        /\ Continue(p, 0)
     \/ row[id[p]] # None /\ UNCHANGED row /\ End(p)
  /\ UNCHANGED <<proxmox, queue, faults>>

-----------------------------------------------------------------------------
(* The worker takes a job                                                  *)

\* Faulty: the id of a delete job is not passed on.
BeginForgetsId(p) ==
  /\ pc[p] = "idle" /\ queue # <<>>
  /\ queue' = Tail(queue)
  /\ job' = [job EXCEPT ![p] = Head(queue)]
  /\ Goto(p, CASE Head(queue).kind \in Kinds -> "draw"
               [] Head(queue).kind = "delete" -> "status"
               [] Head(queue).kind = "nightly" -> "pools")
  /\ UNCHANGED <<proxmox, db, id, left, todo, since, faults>>

\* Its forked process starts with nothing but the arguments of the job.
Begin(p) ==
  /\ pc[p] = "idle" /\ queue # <<>>
  /\ queue' = Tail(queue)
  /\ job' = [job EXCEPT ![p] = Head(queue)]
  /\ \/ /\ Head(queue).kind \in Kinds /\ Goto(p, "draw")
        /\ UNCHANGED <<id, left>>
     \/ /\ Head(queue).kind = "delete" /\ Goto(p, "status")
        /\ id' = [id EXCEPT ![p] = Head(queue).id]
        /\ UNCHANGED left
     \/ /\ Head(queue).kind = "nightly" /\ Goto(p, "pools")
        /\ left' = [left EXCEPT ![p] = Expiring]
        /\ UNCHANGED id
  /\ UNCHANGED <<proxmox, db, todo, since, faults>>

-----------------------------------------------------------------------------
(* create_vm_task and setup_template_task                                  *)

\* nextid answers the lowest free id, and reserves nothing.
DrawId(p) ==
  /\ pc[p] = "draw"
  /\ \/ \E i \in Ids :
          /\ ~ Exists(i) /\ \A k \in Ids : ~ Exists(k) => i <= k
          /\ id' = [id EXCEPT ![p] = i]
          /\ Goto(p, "drop")
          /\ UNCHANGED <<job, left, todo, since>>
     \/ (\A i \in Ids : Exists(i)) /\ End(p)
  /\ UNCHANGED <<proxmox, db, queue, faults>>

\* Faulty: the row of the VM that had the id before is kept.
KeepRow(p) ==
  /\ pc[p] = "drop"
  /\ Goto(p, "post")
  /\ UNCHANGED <<proxmox, row, queue, locals, faults>>

\* "Make sure lingering expirations are deleted"
DropRow(p) ==
  /\ pc[p] = "drop"
  /\ row' = [row EXCEPT ![id[p]] = None]
  /\ Goto(p, "post")
  /\ UNCHANGED <<proxmox, queue, locals, faults>>

\* create_vm puts net0 on the vnet; a clone has the net0 of its template, if any.
FirstBridges(p) == IF job[p].kind = "create" THEN {"own"} ELSE {"template", "none"}

NewVm(p, net0) ==
  [vm |-> made + 1, pool |-> job[p].pool, byHand |-> FALSE, age |-> since[p],
   on |-> FALSE, net0 |-> net0, task |-> "create"]

\* qemu.create and clone are refused if the id has been taken meanwhile.
PostVm(p) ==
  /\ pc[p] = "post"
  /\ \/ /\ ~ Exists(id[p]) /\ made < MaxVMs
        /\ made' = made + 1
        /\ \E net0 \in FirstBridges(p) : at' = [at EXCEPT ![id[p]] = NewVm(p, net0)]
        /\ since' = [since EXCEPT ![p] = 0]
        /\ Goto(p, "wait")
        /\ UNCHANGED <<job, id, left, todo>>
     \/ (Exists(id[p]) \/ made = MaxVMs) /\ End(p) /\ UNCHANGED <<at, made>>
  /\ UNCHANGED <<byHand, db, queue, faults>>

\* Faulty: a clone is configured like a new VM.
ProvisionedAsNew(p) ==
  /\ pc[p] = "wait" /\ Free(id[p])
  /\ Goto(p, "expire")
  /\ UNCHANGED <<proxmox, db, queue, locals, faults>>

\* is_provisioned: the VM takes a configuration.
Provisioned(p) ==
  /\ pc[p] = "wait" /\ Free(id[p])
  /\ Goto(p, IF job[p].kind = "template" THEN "wire" ELSE "expire")
  /\ UNCHANGED <<proxmox, db, queue, locals, faults>>

\* It takes too long, or the VM is gone: "Failed to provision, deleting."
NotProvisioned(p) ==
  /\ pc[p] = "wait"
  /\ \/ ~ Exists(id[p]) /\ UNCHANGED faults
     \/ Exists(id[p]) /\ ~ Free(id[p]) /\ Fault
  /\ Goto(p, "status")
  /\ UNCHANGED <<proxmox, db, queue, locals>>

\* A call that configures a VM; retried while a task locks it.
Configures(p) == Free(id[p]) \/ ~ Exists(id[p])

\* set_net_bridge puts net0 on the vnet of the user.  Without a net0 it does
\* nothing and answers False, which the job does not look at.
Wire(p) ==
  /\ pc[p] = "wire"
  /\ \/ /\ Free(id[p]) /\ at[id[p]].net0 # "none"
        /\ at' = [at EXCEPT ![id[p]].net0 = "own"]
        /\ Goto(p, "expire")
        /\ UNCHANGED locals
     \/ /\ Exists(id[p]) /\ at[id[p]].net0 = "none"
        /\ Goto(p, "expire")
        /\ UNCHANGED <<at, locals>>
     \/ ~ Exists(id[p]) /\ End(p) /\ UNCHANGED at
  /\ UNCHANGED <<made, byHand, db, queue, faults>>

\* CPU, memory and cloud-init, and the start that ends setup_template_task.
ConfigureAndStart(p) ==
  /\ pc[p] = "config" /\ Configures(p)
  /\ \/ Exists(id[p]) /\ Post(id[p], "start")
     \/ ~ Exists(id[p]) /\ UNCHANGED at
  /\ End(p)
  /\ UNCHANGED <<made, byHand, db, queue, faults>>

-----------------------------------------------------------------------------
(* delete_vm_task: a job, or a call of another job                         *)

\* vm.status is read once, whatever the loop that follows a stop does.
ReadStatus(p) ==
  /\ pc[p] = "status"
  /\ \/ ~ Exists(id[p]) /\ End(p)
     \/ /\ Exists(id[p])
        /\ Goto(p, IF at[id[p]].on THEN "stop" ELSE "destroy")
        /\ UNCHANGED locals
  /\ UNCHANGED <<proxmox, db, queue, faults>>

StopFirst(p) ==
  /\ pc[p] = "stop" /\ Configures(p)
  /\ \/ Exists(id[p]) /\ Post(id[p], "stop") /\ Goto(p, "destroy") /\ UNCHANGED locals
     \/ ~ Exists(id[p]) /\ End(p) /\ UNCHANGED at
  /\ UNCHANGED <<made, byHand, db, queue, faults>>

\* Proxmox destroys no VM that runs, or is gone: the job fails.
Destroy(p) ==
  /\ pc[p] = "destroy" /\ Configures(p)
  /\ \/ /\ Exists(id[p]) /\ ~ at[id[p]].on
        /\ Post(id[p], "destroy") /\ Goto(p, "unrow") /\ UNCHANGED locals
     \/ ~ (Exists(id[p]) /\ ~ at[id[p]].on) /\ End(p) /\ UNCHANGED at
  /\ UNCHANGED <<made, byHand, db, queue, faults>>

\* delete_vm_expire, and back to the nightly job.
DeleteRow(p) ==
  /\ pc[p] = "unrow"
  /\ row' = [row EXCEPT ![id[p]] = None]
  /\ \/ job[p].kind = "nightly" /\ Goto(p, "next") /\ UNCHANGED locals
     \/ job[p].kind # "nightly" /\ End(p)
  /\ UNCHANGED <<proxmox, queue, faults>>

-----------------------------------------------------------------------------
(* process_expiring_vms_task                                               *)

NextPool(p, pool) ==
  /\ pc[p] = "pools" /\ pool \in left[p]
  /\ left' = [left EXCEPT ![p] = @ \ {pool}]
  /\ todo' = [todo EXCEPT ![p] = {i \in Ids : Exists(i) /\ at[i].pool = pool}]
  /\ Goto(p, "next")
  /\ UNCHANGED <<proxmox, db, queue, job, id, since, faults>>

NextVm(p, i) ==
  /\ pc[p] = "next" /\ i \in todo[p]
  /\ todo' = [todo EXCEPT ![p] = @ \ {i}]
  /\ id' = [id EXCEPT ![p] = i]
  /\ Goto(p, "expire")
  /\ UNCHANGED <<proxmox, db, queue, job, left, since, faults>>

\* On its date a VM is stopped; one that is gone ends the whole run.
StopExpired(p) ==
  /\ pc[p] = "halt" /\ Configures(p)
  /\ \/ Exists(id[p]) /\ Post(id[p], "stop") /\ Goto(p, "next") /\ UNCHANGED locals
     \/ ~ Exists(id[p]) /\ End(p) /\ UNCHANGED at
  /\ UNCHANGED <<made, byHand, db, queue, faults>>

PoolDone(p) ==
  /\ pc[p] = "next" /\ todo[p] = {}
  /\ Goto(p, "pools")
  /\ id' = [id EXCEPT ![p] = None]
  /\ UNCHANGED <<proxmox, db, queue, job, left, todo, since, faults>>

NightDone(p) ==
  /\ pc[p] = "pools" /\ left[p] = {}
  /\ End(p)
  /\ UNCHANGED <<proxmox, db, queue, faults>>

\* A call fails for good, or the process is killed.
Fail(p) ==
  /\ pc[p] # "idle" /\ Fault
  /\ End(p)
  /\ UNCHANGED <<proxmox, db, queue>>

-----------------------------------------------------------------------------
(* Proxmox, guests, administrators and the calendar                        *)

\* A task does its work.
TaskEnds(i) ==
  /\ Exists(i) /\ at[i].task # "none"
  /\ at' = [at EXCEPT ![i] =
       CASE at[i].task = "create" -> [at[i] EXCEPT !.task = "none"]
         [] at[i].task = "start" -> [at[i] EXCEPT !.task = "none", !.on = TRUE]
         [] at[i].task = "stop" -> [at[i] EXCEPT !.task = "none", !.on = FALSE]
         [] at[i].task = "destroy" -> None]
  /\ UNCHANGED <<made, byHand, db, queue, pc, locals, faults>>

\* A task fails; Proxmox clears up after a VM it could not make.
TaskFails(i) ==
  /\ Exists(i) /\ at[i].task # "none" /\ Fault
  /\ at' = [at EXCEPT ![i] = IF @.task = "create" THEN None ELSE [@ EXCEPT !.task = "none"]]
  /\ UNCHANGED <<made, byHand, db, queue, pc, locals>>

\* The guest, or its owner, shuts the VM down.
ShutDown(i) ==
  /\ Free(i) /\ at[i].on
  /\ at' = [at EXCEPT ![i].on = FALSE]
  /\ UNCHANGED <<made, byHand, db, queue, pc, locals, faults>>

MakeByHand(i, pool) ==
  /\ ~ Exists(i) /\ made < MaxVMs /\ byHand < MaxByHand
  /\ made' = made + 1 /\ byHand' = byHand + 1
  /\ at' = [at EXCEPT ![i] =
       [vm |-> made + 1, pool |-> pool, byHand |-> TRUE, age |-> 0,
        on |-> FALSE, net0 |-> "none", task |-> "none"]]
  /\ UNCHANGED <<db, queue, pc, locals, faults>>

RemoveByHand(i) ==
  /\ AdminRemoves /\ Free(i) /\ ~ at[i].on
  /\ at' = [at EXCEPT ![i] = None]
  /\ UNCHANGED <<made, byHand, db, queue, pc, locals, faults>>

NextDay ==
  /\ row' = [i \in Ids |-> IF row[i] = None THEN None ELSE Older(row[i])]
  /\ at' = [i \in Ids |-> IF at[i] = None THEN None
                          ELSE [at[i] EXCEPT !.age = Older(@)]]
  /\ since' = [p \in Procs |-> IF pc[p] = "post" THEN Older(since[p]) ELSE since[p]]
  /\ UNCHANGED <<made, byHand, queue, pc, job, id, left, todo, faults>>

-----------------------------------------------------------------------------
JobStep(p) ==
  \/ Begin(p) \/ DrawId(p) \/ DropRow(p) \/ PostVm(p)
  \/ Provisioned(p) \/ NotProvisioned(p) \/ Wire(p) \/ ConfigureAndStart(p)
  \/ ReadStatus(p) \/ StopFirst(p) \/ Destroy(p) \/ DeleteRow(p)
  \/ \E pool \in Pools : NextPool(p, pool)
  \/ \E i \in Ids : NextVm(p, i)
  \/ StopExpired(p) \/ PoolDone(p) \/ NightDone(p)

ExpireStep(p) == ReadExpire(p) \/ InsertExpire(p)

Next ==
  \/ \E kind \in Kinds, pool \in Pools : RequestVm(kind, pool)
  \/ ScheduleNightly
  \/ \E p \in Workers : JobStep(p)
  \/ \E p \in Web : PowerOn(p) \/ \E i \in Ids : RequestStart(p, i)
  \/ \E p \in Procs : ExpireStep(p) \/ Fail(p)
  \/ \E i \in Ids : \/ RequestDelete(i) \/ TaskEnds(i) \/ TaskFails(i)
                    \/ ShutDown(i) \/ RemoveByHand(i)
                    \/ \E pool \in Pools : MakeByHand(i, pool)
  \/ NextDay

Spec == Init /\ [][Next]_vars

(***************************************************************************)
(* The worker keeps taking jobs, the scheduler queues the nightly one when *)
(* there is room, Proxmox ends its tasks, and days pass.  Strong fairness, *)
(* because a call waits while tasks lock its VM, and the queue may be full *)
(* in between.  Nothing is asked of users, administrators or requests.     *)
(***************************************************************************)
Fairness ==
  /\ \A p \in Workers : SF_vars(JobStep(p) \/ ExpireStep(p))
  /\ SF_vars(ScheduleNightly)
  /\ \A i \in Ids : WF_vars(TaskEnds(i))
  /\ WF_vars(NextDay)

FairSpec == Spec /\ Fairness

-----------------------------------------------------------------------------
Creating == {"draw", "drop", "post", "wait", "wire", "config"}
Deleting == {"status", "stop", "destroy"}
States == {"idle", "expire", "insert", "power", "unrow", "pools", "next", "halt"}
            \cup Creating \cup Deleting

\* Every variable keeps to its values, and a process knows the id it works on.
TypeOK ==
  /\ at \in [Ids -> VMs \cup {None}]
  /\ row \in [Ids -> Ages \cup {None}]
  /\ queue \in Seq(Jobs) /\ Len(queue) <= MaxQueue
  /\ pc \in [Procs -> States]
  /\ job \in [Procs -> Jobs \cup {Idle, Start}]
  /\ id \in [Procs -> Ids \cup {None}]
  /\ \A p \in Procs : pc[p] \notin {"idle", "draw", "pools", "next"} => id[p] \in Ids
  /\ left \in [Procs -> SUBSET Pools] /\ todo \in [Procs -> SUBSET Ids]
  /\ since \in [Procs -> Ages]
  /\ made \in 0 .. MaxVMs /\ byHand \in 0 .. MaxByHand /\ faults \in 0 .. MaxFaults

\* The VM that Proxstar made under an id, if it is there.
MadeHere(i) == Exists(i) /\ ~ at[i].byHand

\* create_vm: "Make sure lingering expirations are deleted" - no VM that
\* Proxstar made goes by a date written for the VM that had its id before,
\* although rows outlive VMs and requests write rows for ids that are gone.
ExpiryIsItsOwn ==
  \A i \in Ids : MadeHere(i) /\ row[i] # None => row[i] <= at[i].age

\* The nightly job stops a VM no earlier than its date, and deletes it no
\* earlier than a week after, however long ago it listed the pool.
NightlyKeepsItsTime ==
  \A p \in Workers :
    job[p].kind = "nightly" /\ pc[p] \in Deleting \cup {"halt"} /\ MadeHere(id[p])
      => at[id[p]].age >= IF pc[p] = "halt" THEN Life ELSE Life + Week

\* With ENABLE_VM_EXPIRATION set (tasks.py:128), every VM of a pool the nightly
\* job visits is gone in the end, whatever fails on the way and however often
\* its row is lost.
EveryVmExpires ==
  \A i \in Ids, n \in Serials :
    (Exists(i) /\ at[i].vm = n /\ at[i].pool \in Expiring)
      ~> ~ (Exists(i) /\ at[i].vm = n)

\* script.js: "Are you sure you want to delete ${vmname}?"
DeletesWhatWasAsked ==
  \A p \in Workers :
    job[p].kind = "delete" /\ pc[p] = "destroy" /\ MadeHere(id[p])
      => at[id[p]].vm = job[p].vm

\* The net0 of a clone may be on the bridge of its template while the job that
\* makes it waits, but a job leaves none there for good, whoever starts, stops
\* or deletes the VM meanwhile, unless something failed (tasks.py:209-222).  The
\* other interfaces of a template stay where they are, and if it has no net0 no
\* interface is moved (vm.py:303-305): of those this says nothing.
OnlyFailuresLeaveUnwired ==
  \A i \in Ids :
    MadeHere(i) /\ at[i].net0 = "template" =>
      faults > 0 \/ \E p \in Workers : id[p] = i /\ pc[p] \in {"wait", "wire"}

-----------------------------------------------------------------------------
(* Why these hold: the inductive invariants of the proofs.                 *)

\* A job that makes a VM has the pool for it, one that deletes has its id.
Complete(entry) ==
  /\ entry.kind \in Kinds => entry.pool \in Pools
  /\ entry.kind = "delete" => entry.id \in Ids

\* A web process only starts VMs; where a worker is tells what its job is.
RequestFits(p) ==
  pc[p] # "idle" => pc[p] \in {"expire", "insert", "power"} /\ job[p].kind = "start"

JobFits(p) ==
  /\ pc[p] # "power" /\ job[p].kind # "start" /\ Complete(job[p])
  /\ pc[p] \in {"draw", "drop", "post", "wait"} => job[p].kind \in Kinds
  /\ pc[p] \in {"wire", "config"} => job[p].kind = "template"
  /\ pc[p] \in {"pools", "next", "halt"} => job[p].kind = "nightly"
  /\ pc[p] \in {"expire", "insert"} => job[p].kind \in {"create", "template", "nightly"}

JobsFit ==
  /\ \A p \in Web : RequestFits(p)
  /\ \A p \in Workers : JobFits(p)
  /\ queue \in Seq({entry \in Jobs : Complete(entry)})

\* A row that a job finds under the id it is about to post was written after
\* the job removed the one that was there.
RowsAreYoung ==
  /\ ExpiryIsItsOwn
  /\ \A p \in Workers :
       pc[p] = "post" /\ row[id[p]] # None => row[id[p]] <= since[p]

\* Who has yet to move the net0 of a VM is the job that clones it, or one that
\* clones into the id it was lost from.
UnwiredIsAwaited ==
  \A i \in Ids :
    MadeHere(i) /\ at[i].net0 = "template" =>
      faults > 0 \/ \E p \in Workers :
        id[p] = i /\ pc[p] \in {"wait", "wire"} /\ job[p].kind = "template"
=============================================================================
