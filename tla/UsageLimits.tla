----------------------------- MODULE UsageLimits -----------------------------
(***************************************************************************)
(* What one user may use.  The VMs of his pool that are running count with *)
(* their cores and memory, all of them with their disks, and a request that*)
(* asks for more is refused if the sum would exceed his limits.  Usage is  *)
(* computed once per request, from Proxmox; what the request then does, it *)
(* does later, in another call or in a job, and on the configuration the VM*)
(* has by then.  Disks are attached in the first slot that was free in the *)
(* configuration read before.  Calls are repeated when no answer comes.    *)
(*                                                                         *)
(* The requests are the user's own: RTPs have no limits, and VMs of shared *)
(* pools count for nobody.                                                 *)
(***************************************************************************)
EXTENDS Integers, FiniteSets, Functions

CONSTANTS
  VMs,           \* the ids his VMs can have
  Slots,         \* virtio0, virtio1, ...
  Cores, Mems,   \* numbers of cores, and of megabytes, that are asked for
  Sizes,         \* sizes of disks, in gigabytes
  Template,      \* [cpu, cores, mem, size] of the template VMs are cloned from
  Limits,        \* the limits an admin may set: cores and gigabytes
  Web,           \* requests in progress, with the jobs they queue
  MaxRequests,   \* bound on the requests that take more than one step
  MaxFaults,     \* bound on requests that fail and answers that are lost
  None

ASSUME SlotsAssumption == Slots \subseteq Nat /\ 0 \in Slots
ASSUME AmountsAssumption ==
  /\ Cores \subseteq Nat \ {0} /\ Mems \subseteq Nat \ {0} /\ Sizes \subseteq Nat \ {0}
  /\ Template \in [cpu : Nat \ {0}, cores : Nat \ {0}, mem : Nat \ {0}, size : Nat \ {0}]
  /\ Limits \subseteq [cpu : Nat, mem : Nat, disk : Nat]
ASSUME BoundsAssumption == MaxRequests \in Nat /\ MaxFaults \in Nat
ASSUME NoneAssumption ==
  /\ None \notin VMs \cup Nat
  /\ None \notin [status : {"stopped", "running", "suspended"}, cpu : Nat, cores : Nat,
                  mem : Nat, disk : [Slots -> Nat]]
ASSUME FiniteAssumption == IsFiniteSet(VMs) /\ IsFiniteSet(Slots)

VARIABLES
  vm,       \* Proxmox: id |-> [status, cpu, cores, mem, disk], or None: cpu is
            \* the cores of all sockets (VM.cpu), cores those of one of them
            \* (config['cores']); a slot with nothing in it has size 0
  unused,   \* disks that are detached and still there, for each VM
  limit,    \* his row of usage_limit, or the default
  pc, req,  \* where each request is, and what it asks for
  taken,    \* the slots taken in the configuration it has read
  requests, faults,
  fresh     \* history: the requests since whose check neither the VMs nor the
            \* limits have changed, but by themselves

locals == <<pc, req, taken, requests>>
vars   == <<vm, unused, limit, locals, faults, fresh>>

Idle == [vm |-> None, cpu |-> 0, mem |-> 0, size |-> 0, slot |-> None]
NoDisk == [k \in Slots |-> 0]

\* A VM as it is made, with one socket, and as it is cloned.
NewVm(cpu, mem, size) ==
  [status |-> "stopped", cpu |-> cpu, cores |-> cpu, mem |-> mem,
   disk |-> [NoDisk EXCEPT ![0] = size]]
Clone == [NewVm(Template.cpu, Template.mem, Template.size) EXCEPT !.cores = Template.cores]

\* VM.set_cpu: that many cores, and one socket.
WithCpu(m, cpu) == [m EXCEPT !.cpu = cpu, !.cores = cpu]
WithMem(m, mem) == [m EXCEPT !.mem = mem]

Exists(v) == vm[v] # None
Running(v) == Exists(v) /\ vm[v].status = "running"
Disks(v) == {k \in Slots : vm[v].disk[k] > 0}

Init ==
  /\ vm \in [VMs -> {None, Clone} \cup {WithCpu(Clone, c) : c \in Cores}]
  /\ unused = [v \in VMs |-> 0]
  /\ limit \in Limits
  /\ pc = [p \in Web |-> "idle"] /\ req = [p \in Web |-> Idle]
  /\ taken = [p \in Web |-> {}]
  /\ requests = 0 /\ faults = 0
  /\ fresh = {}

-----------------------------------------------------------------------------
(* User.usage and User.check_usage                                         *)

\* What each VM counts with.
CpuOf  == [v \in VMs |-> IF Running(v) THEN vm[v].cpu ELSE 0]
MemOf  == [v \in VMs |-> IF Running(v) THEN vm[v].mem ELSE 0]
DiskOf == [v \in VMs |-> IF Exists(v) THEN SumFunction(vm[v].disk) ELSE 0]

UsedCpu  == SumFunction(CpuOf)
UsedMem  == SumFunction(MemOf)
UsedDisk == SumFunction(DiskOf)

\* Memory in use is cut to gigabytes.
CpuFits(cpu)   == UsedCpu + cpu <= limit.cpu
MemFits(mem)   == (UsedMem \div 1024) * 1024 + mem <= limit.mem * 1024
DiskFits(size) == UsedDisk + size <= limit.disk

\* Faulty: disks are not looked at.
CheckCpuAndMem(cpu, mem, size) == CpuFits(cpu) /\ MemFits(mem)

\* None of the three would be exceeded.
Check(cpu, mem, size) == CpuFits(cpu) /\ MemFits(mem) /\ DiskFits(size)

-----------------------------------------------------------------------------
Goto(p, state) == pc' = [pc EXCEPT ![p] = state]

Fault == faults < MaxFaults /\ faults' = faults + 1

MayAsk(p) == pc[p] = "idle" /\ requests < MaxRequests

\* A request has come and has passed its check, if it makes one.
Ask(p, state, v, cpu, mem, size, slot) ==
  /\ requests' = requests + 1
  /\ Goto(p, state)
  /\ req' = [req EXCEPT ![p] = [vm |-> v, cpu |-> cpu, mem |-> mem,
                                size |-> size, slot |-> slot]]
  /\ fresh' = fresh \cup {p}
  /\ UNCHANGED <<vm, unused, limit, taken, faults>>

\* The request, or its job, is over.
End(p) ==
  /\ Goto(p, "idle")
  /\ req' = [req EXCEPT ![p] = Idle]
  /\ taken' = [taken EXCEPT ![p] = {}]
  /\ fresh' = IF vm' = vm THEN fresh \ {p} ELSE {}
  /\ UNCHANGED requests

\* It goes on, and knows what it has changed itself.
GoOn(p, state) ==
  /\ Goto(p, state)
  /\ fresh' = IF vm' = vm THEN fresh ELSE fresh \cap {p}
  /\ UNCHANGED requests

-----------------------------------------------------------------------------
(* vm_power                                                                *)

\* What is checked for are the cores of one socket, whatever it will count with.
Start(p, v) ==
  /\ MayAsk(p) /\ Exists(v) /\ Check(vm[v].cores, vm[v].mem, 0)
  /\ Ask(p, "start", v, 0, 0, 0, None)

\* resume is not checked.
Resume(p, v) == MayAsk(p) /\ Exists(v) /\ Ask(p, "resume", v, 0, 0, 0, None)

\* Proxmox starts what is stopped; both start what was suspended to disk.
PowerOn(p) ==
  /\ pc[p] \in {"start", "resume"}
  /\ LET v == req[p].vm
         from == IF pc[p] = "start" THEN {"stopped", "suspended"} ELSE {"suspended"}
     IN  IF Exists(v) /\ vm[v].status \in from
         THEN vm' = [vm EXCEPT ![v].status = "running"]
         ELSE UNCHANGED vm
  /\ End(p)
  /\ UNCHANGED <<unused, limit, faults>>

\* stop, shutdown and a guest that powers off; suspend (to disk).
PowerOff(v, status) ==
  /\ Running(v)
  /\ vm' = [vm EXCEPT ![v].status = status]
  /\ fresh' = {}
  /\ UNCHANGED <<unused, limit, locals, faults>>

-----------------------------------------------------------------------------
(* vm_cpu and vm_mem                                                       *)

SetCpu(p, v, cores) ==
  /\ MayAsk(p) /\ Exists(v)
  /\ \/ cores < vm[v].cpu
     \/ Check(IF Running(v) THEN cores - vm[v].cpu ELSE cores, 0, 0)
  /\ Ask(p, "cpu", v, cores, 0, 0, None)

\* The memory is asked for in gigabytes, and checked as if it were megabytes.
\* None at all is refused by Proxmox.
SetMem(p, v, mem) ==
  /\ MayAsk(p) /\ Exists(v)
  /\ LET gb == mem \div 1024
         cur == vm[v].mem \div 1024
     IN  /\ gb > 0
         /\ gb < cur \/ Check(0, IF Running(v) THEN gb - cur ELSE gb, 0)
         /\ Ask(p, "mem", v, 0, gb * 1024, 0, None)

\* Proxmox changes no VM that is suspended to disk.
Changeable(v) == Exists(v) /\ vm[v].status # "suspended"

Configure(p) ==
  /\ pc[p] \in {"cpu", "mem"}
  /\ LET v == req[p].vm
     IN  IF Changeable(v)
         THEN vm' = [vm EXCEPT ![v] = IF pc[p] = "cpu" THEN WithCpu(@, req[p].cpu)
                                                       ELSE WithMem(@, req[p].mem)]
         ELSE UNCHANGED vm
  /\ End(p)
  /\ UNCHANGED <<unused, limit, faults>>

-----------------------------------------------------------------------------
(* create_disk, resize_disk, delete_disk                                   *)

CreateDisk(p, v, size) ==
  /\ MayAsk(p) /\ Exists(v) /\ Check(0, 0, size)
  /\ Ask(p, "disk", v, 0, 0, size, None)

\* Faulty: as many disks as there are, so many slots are taken.
SlotByCount(v) == {k \in Slots : k = Cardinality(Disks(v))}

\* The first free one, if there is one.
FreeSlot(v) == {k \in Slots \ Disks(v) : \A j \in Slots \ Disks(v) : k <= j}

\* VM.create_disk reads the configuration, once for all attempts.
PickSlot(p) ==
  /\ pc[p] = "disk"
  /\ UNCHANGED <<vm, unused, limit, faults>>
  /\ LET v == req[p].vm
     IN  IF Exists(v) /\ FreeSlot(v) # {}
         THEN /\ req' = [req EXCEPT ![p].slot = CHOOSE k \in FreeSlot(v) : TRUE]
              /\ taken' = [taken EXCEPT ![p] = Disks(v)]
              /\ GoOn(p, "attach")
         ELSE End(p)

\* A new disk takes the slot; one that has it becomes an unused one.
NewDisk(v, k, size) ==
  /\ vm' = [vm EXCEPT ![v].disk[k] = size]
  /\ unused' = [unused EXCEPT ![v] = IF k \in Disks(v) THEN @ + 1 ELSE @]

Attach(p) ==
  /\ pc[p] \in {"attach", "attach again"}
  /\ IF Changeable(req[p].vm) THEN NewDisk(req[p].vm, req[p].slot, req[p].size)
                              ELSE UNCHANGED <<vm, unused>>
  /\ End(p)
  /\ UNCHANGED <<limit, faults>>

ResizeDisk(p, v, k, size) ==
  /\ MayAsk(p) /\ Exists(v) /\ Check(0, 0, size)
  /\ Ask(p, "resize", v, 0, 0, size, k)

\* The size is a difference.
Grow(v, k, size) ==
  /\ vm' = [vm EXCEPT ![v].disk[k] = @ + size]
  /\ UNCHANGED unused

Resize(p) ==
  /\ pc[p] \in {"resize", "resize again"}
  /\ IF Changeable(req[p].vm) /\ req[p].slot \in Disks(req[p].vm)
     THEN Grow(req[p].vm, req[p].slot, req[p].size)
     ELSE UNCHANGED <<vm, unused>>
  /\ End(p)
  /\ UNCHANGED <<limit, faults>>

\* The call is done, but its answer does not come: it is made once more.
LoseAnswer(p) ==
  /\ pc[p] \in {"attach", "resize"} /\ Fault /\ Changeable(req[p].vm)
  /\ \/ /\ pc[p] = "attach"
        /\ NewDisk(req[p].vm, req[p].slot, req[p].size)
        /\ Goto(p, "attach again")
     \/ /\ pc[p] = "resize" /\ req[p].slot \in Disks(req[p].vm)
        /\ Grow(req[p].vm, req[p].slot, req[p].size)
        /\ Goto(p, "resize again")
  /\ fresh' = {}
  /\ UNCHANGED <<limit, req, taken, requests>>

DeleteDisk(v, k) ==
  /\ Changeable(v) /\ k \in Disks(v)
  /\ vm' = [vm EXCEPT ![v].disk[k] = 0]
  /\ unused' = [unused EXCEPT ![v] = @ + 1]
  /\ fresh' = {}
  /\ UNCHANGED <<limit, locals, faults>>

-----------------------------------------------------------------------------
(* create, create_vm_task and setup_template_task; delete_vm_task          *)

\* The disk of a clone is asked for like any other, whatever its template has.
Create(p, kind, cpu, mem, size) ==
  /\ MayAsk(p) /\ Check(cpu, mem, size)
  /\ Ask(p, kind, None, cpu, mem, size, None)

\* One worker runs the jobs.
CreateVm(p, v) ==
  /\ pc[p] \in {"create", "template"} /\ ~ Exists(v)
  /\ \A q \in Web : pc[q] \notin {"clone", "set up", "launch"}
  /\ UNCHANGED <<unused, limit, faults>>
  /\ \/ /\ pc[p] = "create"
        /\ vm' = [vm EXCEPT ![v] = NewVm(req[p].cpu, req[p].mem, req[p].size)]
        /\ End(p)
     \/ /\ pc[p] = "template"
        /\ vm' = [vm EXCEPT ![v] = Clone]
        /\ req' = [req EXCEPT ![p].vm = v]
        /\ GoOn(p, "clone")
        /\ UNCHANGED taken

\* is_provisioned tries whether the VM can be changed yet: what it has in
\* several sockets, it has in one then.  The job does not wait for ever.
Provision(p) ==
  /\ pc[p] = "clone"
  /\ UNCHANGED <<unused, limit, faults>>
  /\ LET v == req[p].vm
     IN  IF Changeable(v)
         THEN /\ vm' = [vm EXCEPT ![v] = WithCpu(@, @.cpu)]
              /\ GoOn(p, "set up")
              /\ UNCHANGED <<req, taken>>
         ELSE UNCHANGED vm /\ End(p)

\* set_cpu, set_mem.
SetUpClone(p) ==
  /\ pc[p] = "set up"
  /\ UNCHANGED <<unused, limit, faults>>
  /\ LET v == req[p].vm
     IN  IF Changeable(v)
         THEN /\ vm' = [vm EXCEPT ![v] = WithMem(WithCpu(@, req[p].cpu), req[p].mem)]
              /\ GoOn(p, "launch")
              /\ UNCHANGED <<req, taken>>
         ELSE UNCHANGED vm /\ End(p)

\* The job starts the VM, with no check of its own.
Launch(p) ==
  /\ pc[p] = "launch"
  /\ vm' = IF Exists(req[p].vm) THEN [vm EXCEPT ![req[p].vm].status = "running"] ELSE vm
  /\ End(p)
  /\ UNCHANGED <<unused, limit, faults>>

DeleteVm(v) ==
  /\ Exists(v) /\ vm[v].status = "stopped"
  /\ vm' = [vm EXCEPT ![v] = None]
  /\ unused' = [unused EXCEPT ![v] = 0]
  /\ fresh' = {}
  /\ UNCHANGED <<limit, locals, faults>>

-----------------------------------------------------------------------------
\* set_user_usage_limits.
SetLimits(l) ==
  /\ limit' = l
  /\ fresh' = {}
  /\ UNCHANGED <<vm, unused, locals, faults>>

\* A call fails for good, or the process is killed.
Fail(p) ==
  /\ pc[p] # "idle" /\ Fault
  /\ UNCHANGED <<vm, unused, limit>>
  /\ End(p)

Next ==
  \/ \E p \in Web :
       \/ PowerOn(p) \/ Configure(p) \/ PickSlot(p) \/ Attach(p) \/ Resize(p)
       \/ LoseAnswer(p) \/ Provision(p) \/ SetUpClone(p) \/ Launch(p) \/ Fail(p)
       \/ \E v \in VMs :
            \/ Start(p, v) \/ Resume(p, v) \/ CreateVm(p, v)
            \/ \E c \in Cores : SetCpu(p, v, c)
            \/ \E m \in Mems : SetMem(p, v, m)
            \/ \E s \in Sizes : CreateDisk(p, v, s)
            \/ \E k \in Slots, s \in Sizes : ResizeDisk(p, v, k, s)
       \/ \E kind \in {"create", "template"}, c \in Cores, m \in Mems, s \in Sizes :
            Create(p, kind, c, m, s)
  \/ \E v \in VMs :
       \/ DeleteVm(v)
       \/ \E status \in {"stopped", "suspended"} : PowerOff(v, status)
       \/ \E k \in Slots : DeleteDisk(v, k)
  \/ \E l \in Limits : SetLimits(l)

Spec == Init /\ [][Next]_vars

-----------------------------------------------------------------------------
States == {"idle", "start", "resume", "cpu", "mem", "disk", "attach",
           "attach again", "resize", "resize again", "create", "template",
           "clone", "set up", "launch"}

Machines == [status : {"stopped", "running", "suspended"}, cpu : Cores \cup {Template.cpu},
             cores : Nat \ {0}, mem : Nat \ {0}, disk : [Slots -> Nat]]

\* Every variable keeps to its values, and a disk is attached to a slot that
\* was free in the configuration read.
TypeOK ==
  /\ vm \in [VMs -> Machines \cup {None}]
  /\ unused \in [VMs -> Nat] /\ limit \in Limits
  /\ pc \in [Web -> States]
  /\ req \in [Web -> [vm : VMs \cup {None}, cpu : Nat, mem : Nat, size : Nat,
                      slot : Slots \cup {None}]]
  /\ taken \in [Web -> SUBSET Slots]
  /\ \A p \in Web : req[p].slot \notin taken[p]
  /\ requests \in 0 .. MaxRequests /\ faults \in 0 .. MaxFaults
  /\ fresh \subseteq Web

\* It is p that acts, on readings that do not hold any more, or not checked.
Excused(p, unchecked) == pc'[p] # pc[p] /\ (p \notin fresh \/ unchecked)

SeveralSockets(v) == vm[v].cores # vm[v].cpu

CpuHolds ==
  UsedCpu' > UsedCpu /\ UsedCpu' > limit.cpu =>
    \E p \in Web : Excused(p, \/ pc[p] = "resume"
                              \/ pc[p] = "start" /\ SeveralSockets(req[p].vm))
MemHolds ==
  UsedMem' > UsedMem /\ UsedMem' > limit.mem * 1024 + 1023 =>
    \E p \in Web : Excused(p, pc[p] \in {"resume", "mem"})
DiskHolds ==
  UsedDisk' > UsedDisk /\ UsedDisk' > limit.disk =>
    \E p \in Web : Excused(p, pc[p] = "template" /\ req[p].size < Template.size)

\* A request whose readings still hold when it acts takes its user past no
\* limit - for memory, by no whole gigabyte - in whatever order requests, jobs
\* and lost answers come.  Beyond that go resume, which is not checked, a start
\* of a VM with several sockets, of which one is checked, vm_mem, whose check
\* mistakes the unit, and a clone with a larger disk than was asked for
\* (__init__.py:686, 729-735, 785, 806, 1005; vm.py:34).
LimitsHold == [][CpuHolds /\ MemHolds /\ DiskHolds]_vars

DisksKept ==
  \A v \in VMs :
    (unused'[v] > unused[v] /\ Disks(v) = (Disks(v))') =>
      \E p \in Web : req[p].vm = v /\ pc'[p] # pc[p] /\ taken[p] # Disks(v)

\* A disk takes the place of another only if the disks of the VM have changed
\* since the request read its configuration: by another request, or by its own
\* first attempt (vm.py:399-406).
DisksStay == [][DisksKept]_vars

-----------------------------------------------------------------------------
(***************************************************************************)
(* Why these hold: the inductive invariant of the proofs                   *)
(***************************************************************************)

\* A request knows what the steps before it are to have told it, and has read
\* a configuration only while it is attaching a disk.
RequestsFit ==
  \A p \in Web :
    /\ pc[p] \notin {"idle", "create", "template"} => req[p].vm \in VMs
    /\ pc[p] \in {"cpu", "create", "template", "clone", "set up"} => req[p].cpu \in Cores
    /\ pc[p] \in {"mem", "create", "template", "clone", "set up"} => req[p].mem \in Nat \ {0}
    /\ pc[p] \in {"attach", "attach again", "resize", "resize again"} => req[p].slot \in Slots
    /\ pc[p] \notin {"attach", "attach again"} => taken[p] = {}

\* What p's check has found still holds: what it asks for is not there yet, and
\* would fit.
StillFits(p) ==
  LET r == req[p]
      v == r.vm
  IN  /\ pc[p] = "start" => Exists(v) /\ CpuFits(vm[v].cores) /\ MemFits(vm[v].mem)
      /\ pc[p] = "cpu" =>
           Exists(v) /\ (Running(v) => r.cpu < vm[v].cpu \/ CpuFits(r.cpu - vm[v].cpu))
      /\ pc[p] \in {"disk", "attach", "resize", "create", "template"} => DiskFits(r.size)
      /\ pc[p] \in {"template", "clone", "set up", "launch"} => CpuFits(r.cpu) /\ MemFits(r.mem)
      /\ pc[p] \in {"clone", "set up", "launch"} => Exists(v) /\ vm[v].status = "stopped"
      /\ pc[p] = "launch" => vm[v].cpu = r.cpu /\ vm[v].mem = r.mem
      /\ pc[p] \notin {"attach again", "resize again"}

ChecksHold == \A p \in fresh : StillFits(p)
=============================================================================
