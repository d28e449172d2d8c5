# Proxstar in TLA+

Proxstar is a web front end that lets students make and run virtual machines on
a Proxmox cluster.  This directory holds TLA+ models of it, the TLC
configurations that check them, and theorems about them checked by TLAPS.
All paths are relative to the repository.

The program is small; what is hard about it is that its state lies in four
places that share no transaction.  Web requests (gunicorn, two workers by
default, `config.py:145`) and RQ jobs (one worker, which forks a process per
job, `docker-compose.yml`) read and write **Postgres** (VM expirations, usage
limits, networks, shared pools, caches), **Redis** (session timers, VNC tokens,
the job queue), the **file** of websockify targets, and **Proxmox** itself,
whose API answers with tasks that finish later or fail.  Every handler is a
sequence of such calls, and any other process, an administrator at the Proxmox
interface or a guest that shuts itself down may act between two of them.

## The parts

| Component | State | Operations | Model |
|---|---|---|---|
| Session timeouts (`session.py`, `tasks.py:282-336`, `__init__.py:222-345, 687-738`) | Redis `session_start`, `session_shutdown` | power on and off, `/session`, admin expire and warn, the enforcement job | `SessionTimeouts` |
| Student SDN networks (`sdn.py`, `db.py`, `models.py`) | table `student_network`; SDN vnets, subnets, firewall rules | `ensure_student_network` | `StudentNetwork`, `PrivateNetworks` |
| VM provisioning and deletion (`tasks.py:63-123, 177-244`, `vm.py`) | RQ jobs, Proxmox VMs, their ids | create, set up from template, delete | `VmLifecycle` |
| VM expiration (`db.py:39-67`, `tasks.py:126-160`) | table `vm_expiration` | lookup (which inserts), delete, the nightly job | `VmLifecycle` |
| VNC console targets (`vnc.py`, `__init__.py:667-762, 1207-1222`, `tasks.py:261-279`) | target file, Redis `vnc_token` | open, delete, clean up | `VncTargets` |
| Usage limits (`user.py:81-119`, `__init__.py:775-859, 972-1054`) | table `usage_limit`; what Proxmox says is used | check, set, and the requests that are checked | `UsageLimits` |
| Web database sessions (`__init__.py:159-162`, `db.py`) | one SQLAlchemy session per gunicorn worker, never rolled back | settings requests | `Settings` |
| Shared pools and users (`__init__.py:1057-1066, 1116-1204`, `db.py:155-216, 267-299`) | tables and Proxmox pools | create, modify, delete, ignore, allow | `Settings` |
| Pool cache, template list (`db.py:117-129, 219-264`, `proxmox.py:68-107`) | two tables | rebuild, synchronise, edit | `Settings` |
| VM configuration (cores, memory, disks) | none of its own | calls on Proxmox | `UsageLimits` |
| VM configuration (boot order, interfaces, ISO drives, cloud-init) | none of its own | single Proxmox calls | not modelled |
| Listing and name algorithms (`user.py:30-68`, `util.py`, `sdn.py:100-110`, `proxmox.py:117-131`) | none | pure functions | not modelled |
| Job scheduling (`__init__.py:177-216`) | rq-scheduler | registration at import | fairness of the modules |
| Authentication, user interface, configuration | none that changes | | inputs of the models |

How they meet: a create request checks the usage limits and queues a job; the
job secures the user's network, takes a VM id, creates the VM, waits for it and
writes its expiration.  Powering a VM on starts the owner's session; opening a
console makes a VNC target; powering off, deleting or expiring a VM undoes each
of these with separate calls.  Periodic jobs (sessions, pool cache, VNC
cleanup, templates, and nightly expirations) work on the same state.

What is hard about each component, line by line, is the list `hazards` of
`PROJECT.json`.  A hazard names the properties that would catch it, where some do.
Many of them the code is simply exposed to, and a property that holds can only
name them as its exceptions: it then shows that they are the only way to go wrong,
and does not catch them.  Such a hazard has a note that says so.

What makes each component correct:

* sessions: a running VM has a timer; timers of live sessions are not set back
  by chance; VMs are stopped only a grace period after they were asked; an
  expired session ends; an idle one is cleared;
* networks: two users never share a vnet or a subnet; a user's network never
  changes; what is handed out exists and is firewalled;
* VM life cycle: no VM goes by the date of another, every VM expires in the
  end and none before its time, nothing but what was asked for is deleted;
* VNC: a token leads to the VM it was given for, or nowhere;
* usage: what a user runs stays within his limits, as of when he asked; no disk
  is put in the place of another;
* shared pools: a row has its pool, a pool has its row, but for failures;
* caches and lists: what an admin entered is kept, and pages show what there is.

## SessionTimeouts

`start` and `shutdown` are the two Redis keys by name, `on` and `task` what
Proxmox has of each VM: whether its status reads running or paused, and the
task that holds its lock.  Each process (`Web` requests, `Workers` jobs) has a
control state `pc` and the locals of its handler: `left` (names still to visit),
`who`, `todo` and `seen` (the scan over a pool's VMs), `read` (the job's
`session_start`).  One action is one Redis or Proxmox call with the branch that
follows it, so everything may happen between the `exists` and the `set` of
`_ensure_session_started`, or between the status reads of two VMs.

| Code | Actions |
|---|---|
| `vm_power` start, resume; `_ensure_session_started` | `PowerOn`, `EnsureSession`, `SetStart` |
| `vm_power` stop, shutdown, suspend; `_clear_session_if_idle` | `PowerOff`, `ReadStatus`, `StatusUnreadable`, `DownDecide`, `ClearStart`, `ClearShutdown` |
| `session_info` | `Poll`, `ReadStatus`, `PollDecide`, ... |
| `_expire_all_sessions`, `_shorten_all_sessions` | `BeginAdmin`, `ExpireSession`, `ReadRemaining`, `ShortenSession`, `DeleteMarker`, `EndAdmin` |
| `enforce_session_timeouts_task` | `BeginEnforcement`, `NextPool`, `EnforceIdle`, `EnforceRunning`, `EnforceExpired`, `MarkShutdown`, `AskShutdown`, `HardStop`, `PoolDone`, `EndEnforcement` |
| gunicorn and RQ timeouts, uncaught exceptions | `Crash` |
| Proxmox, guests, `setup_template_task` | `PveStart`, `PveStop`, `PveNoEffect`, `GuestOff`, `StartOutside` |

Abstractions.  The code stores timestamps and uses only their distance to now;
the model stores the distance, an *age*, which stops counting at the one value
it is compared with.  Time is therefore unbounded and the state space finite.
Pools are visited in any order, which contains the sorted one.  A user's name
and the id of his pool may differ, as `sanitize_pool_name` makes them (`PoolOf`),
and a user may act on VMs of other pools (`Controls`), as an RTP may.  The
variables `missed`, `since`, `forced` and `round` are history: no action's guard
reads them.

Properties, beside the types:

* `HardStopAfterGrace`: VMs are hard-stopped only a full grace period after the
  last round of shutdown requests for their pool.  Marker, test and stop come
  from different runs of the job, with clears and admin resets between them.
* `TimerRestartsOnlyInTheGap`: test and set of a session are two calls.  A live
  timer is set back by an admin, or by a process whose read is at least as old
  as the session it replaces: never by more than the gap.
* `SessionKeptWhileRunning`: a session is cleared only by a handler that looked
  at every VM of the pool; a VM that runs nonetheless came up after it was
  looked at, or did not answer.
* `RunningGetsSession`, `OvertimeEnds`, `IdleSessionEnds` (liveness): whatever
  the races leave behind, the job repairs.  `OvertimeEnds` is about a bounded
  number of failures and of admin requests: each "expire" deletes the marker
  and postpones the hard stop, so an admin who repeats it postpones it for ever,
  and a job killed in every run never reaches the last pools.

That each VM it stops was itself asked to shut down, the job does not see to: it
stops every VM that runs when the grace period is over, also one that came up
after the round of requests.  `HardStopAfterGrace` is therefore about the pool.

**Fairness** (`FairSpec`).  Strong fairness for each RQ worker: the scheduler
queues enforcement every `SESSION_CHECK_INTERVAL` and the worker runs it;
strong, because its call is retried while other tasks hold the VM's lock.  Weak
fairness for Proxmox tasks, which end, one way or another, and for time.
Nothing for users, guests, requests or pages: no property relies on anybody
polling.  A guest may ignore every shutdown request.

## StudentNetwork

`row` and `nextId` are the committed table and its id sequence; `alias`,
`subnetOf` and `rules` what the SDN of Proxmox holds, `stageV` and `stageS` how
far each vnet and subnet is: pending, asked to be applied, live, or failed to be.
A job has `pc`, its `user`, the row it loaded or builds (`net`), the branch it is
in (`mode`), and the subnets that collided (`reserved`, `attempts`).  Workers are
RQ jobs and web requests alike, since `create_net_interface` (`__init__.py:922`)
calls `ensure_student_network` too.

| Code | Actions |
|---|---|
| `get_student_network` and the branch on it | `Begin` |
| `_adopt_existing_network` | `FindByAlias`, `AdoptSave`, `AdoptRefused`, `AdoptEmpty` |
| the repair branch, `_vnet_ready` | `Check`, `EnsureVnet`, `EnsureSubnet`, `EnsureRule`, `ApplySdn` |
| a collision in it | `Collide`, `FindByAlias`, `AdoptSave`, ..., `DropRow` |
| the allocation loop | `Allocate`, `AllocateFails`, `EnsureVnet`, ..., `Collide`, `Commit` |
| the caller, which attaches the VM | `Attach` |
| the Proxmox task that applies | `ApplyEnds` |
| failing writes, RQ and gunicorn timeouts | `Fail` |
| a listing that fails and is read as empty | `Unread`, in the actions that list |
| an administrator at the Proxmox interface | `Remove` |

Abstractions.  Postgres is its unique index on `username`: an insert waits for
an open one of the same user, and fails once it is committed (`Inserts`); an
uncommitted row is seen by nobody else; ids drawn are never given back.
Proxmox defines a subnet once, and applies everything pending at a time.  It answers
an apply request with the id of a task, as a string; `apply_sdn` would wait for a
task that comes in a dict (`sdn.py:361-365`), so it goes on at once and `ApplyEnds`
comes whenever it comes, well or not.  `_vnet_ready` looks at the pending marks;
whether Proxmox takes them off with the request or with the end of its task is left
open: `Check` may find ready what has been asked for, and may find incomplete what
is not live.  A job
reads its own row and a listing in one step where no branch lies between them.
The zone is taken to exist.  Vnet names are what `_build_vnet_id` makes of ids,
taken to be injective (`VnetOfAssumption`): with a prefix so long that the limit
cuts digits off they are not.  A "subnet collision" with the job's *own* subnet
needs four listings to fail in one job and is not modelled.

Properties, beside the types:

* `VnetsPrivate`, `SubnetsPrivate`: no two users are given the same vnet or the
  same subnet, although no constraint of the table says so, two jobs may pick
  the same subnet at once and jobs die between any two calls.
* `NetworkStable`: the network of a user never changes once it is committed.
* `AppliedUnlessAdopted`: what the repair and the allocation branch hand out is
  defined, with its subnet and its firewall rule, and Proxmox has been asked to
  apply all of it, whatever other jobs did meanwhile.  That it is live the code does
  not see to: a VM may be put on a vnet whose task still runs, or has failed.

`AttachedIsFirewalled` says the last of *every* network handed out, as
`README.md:8` of the repository does.  It fails: a job that ends after it
defined the subnet and before the rule leaves a vnet that the next job adopts
without looking at its rule.

What this amounts to for a caller is `PrivateNetworks`, where a call gives a user
a vnet and a subnet nobody else has, in one step, and every later call answers
with the same.  `StudentNetwork` implements it (`ImplementsNetworks`) with a user's
committed row as his `network` and what a job at `Attach` holds as its `answer`:
allocation, the SDN calls, collisions, adoption and failed jobs are stutters, and
the step that gives the network is the commit, or the return where the row was
there already.  It is checked, and proved, without removals by hand.  What a
caller may rely on then follows from `PrivateNetworks` alone: two callers for one
user are told the same network (`AnswersAgree`), and what a user has been given he
keeps, and nobody else is given any of it (`Kept`, `Private`).

When administrators remove vnets by hand, `VnetsPrivate` still holds.
`SubnetsPrivate` does not promise as much: a subnet removed between one job's
definition of it and its commit is free in Proxmox and in the table, and a second
job may take it.  `NetworkStable` cannot hold with removals, since a row whose
subnet went to somebody else is given up by design.

## VmLifecycle

`at` is what Proxmox has under each id: the VM, with its pool, whether it runs,
where its interface `net0` is, on its user's vnet ("own"), on the bridge of its
template or nowhere, if it has none, and the task that locks it; `row` is the
table `vm_expiration`, and `queue` the RQ queue.  A process has `pc`, its `job`,
the `id` it works on and, in the nightly job, the pools and VMs still to visit
(`left`, `todo`).  VMs have a serial number and an age, which no guard of the code
reads: they say *which* VM has an id, and since when.  `since` counts the days
between the removal of an id's old row and the creation of the VM, and `vm` of a
queued delete is the VM its sender meant; both are history.

| Code | Actions |
|---|---|
| `create`, `delete`, the scheduler's `process_expiring_vms` | `RequestVm`, `RequestDelete`, `ScheduleNightly` |
| `vm_power` start and resume, as far as they concern the date | `RequestStart`, `ReadExpire`, `InsertExpire`, `PowerOn` |
| the worker takes a job | `Begin` |
| `create_vm_task`, `create_vm` | `DrawId`, `DropRow`, `PostVm`, `Provisioned`, `NotProvisioned`, `ReadExpire`, `InsertExpire` |
| `setup_template_task`, `clone_vm` | the same with `Wire` and `ConfigureAndStart` |
| `delete_vm_task`, as a job or called by another | `ReadStatus`, `StopFirst`, `Destroy`, `DeleteRow` |
| `process_expiring_vms_task` | `NextPool`, `NextVm`, `ReadExpire`, `NightlyAction`, `StopExpired`, `PoolDone`, `NightDone`, and the actions of `delete_vm_task` |
| RQ and gunicorn timeouts, calls that fail for good | `Fail` |
| Proxmox, guests, administrators, the calendar | `TaskEnds`, `TaskFails`, `ShutDown`, `MakeByHand`, `RemoveByHand`, `NextDay` |

Abstractions.  A date is kept as the age of its row in days, which stops counting
at the last value it is compared with, a week past the date: the date is `Life`
days after the row was written, the nightly job stops a VM from then on, the start
request refuses it one day later, and the nightly job deletes it `Week` days
later.  Both jobs that make VMs begin with `ensure_student_network`, which is
`StudentNetwork`; a run of theirs that fails there has not come to this module's
state.  `ENABLE_VM_EXPIRATION` is taken to be set (`tasks.py:128`,
`__init__.py:187, 682`); by default it is not, the nightly job does nothing and
nothing expires.  A VM that is suspended counts as one that is off. The retries of
a call wait for the task that locks the VM (`Configures`); a call that fails in
spite of them is `Fail`.  `vm.status` is cached on first use, so `delete_vm_task`
never sees the VM it stopped come down: the model reads the status once.  The bare
`except` of `is_provisioned` takes any failure, the one that means the job's time
is over included, for "not yet".  Usage limits, names and the VNC target belong to
other parts.

Properties, beside the types:

* `ExpiryIsItsOwn`: rows are keyed by id, they outlive VMs, start requests write
  rows for ids whose VM is gone, and ids are reused.  Still no VM Proxstar made
  goes by a date older than itself.
* `NightlyKeepsItsTime`: the nightly job, which lists a pool and then takes its
  ids one by one, stops no VM before its date and deletes none before a week
  after.  It is about the one RQ worker of `docker-compose.yml`; with two, the VM
  under an id may be deleted and another made between the job's read and its
  call.
* `EveryVmExpires` (liveness): jobs killed after the VM was made and before its
  row was written, rows lost, stops that fail, a nightly run that one VM ends for
  all others: every VM in a visited pool is gone in the end.
* `OnlyFailuresLeaveUnwired`: the `net0` of a clone is on the bridge of its template
  until the job changes it, and its owner may start it before (`tasks.py:209-222`).
  Whatever starts, stops or deletes it meanwhile, no job is done and leaves it
  there, unless something failed.  A template without a `net0` gives a VM that
  `set_net_bridge` leaves as it is, and whose job goes on (`vm.py:303-305`); it, and
  other interfaces of a template, are not what the property is about.

One statement of the repository does not hold: `DeletesWhatWasAsked`
(`static/js/script.js:1544`, which asks for the VM by name).  A delete is queued by
id, and finds what has the id when it runs.  In the run that shows it nobody makes or
removes a VM by hand (`MaxByHand`, `AdminRemoves`): the two deletions are requests for
one VM, and the creation between them gives its id away.

**Fairness** (`FairSpec`).  Strong fairness for the RQ worker, whose calls wait
while tasks lock their VM, and for the scheduler, which finds the queue full in
between; weak fairness for Proxmox tasks and for days.  Nothing for users,
requests and administrators: the nightly job alone brings `EveryVmExpires` about.

## VncTargets

`file` is the file websockify reads its targets from, a sequence of lines with a
token and a port; `stored` has the token Redis keeps for each VM.  A request has
`pc`, its `vm`, the `token` it has read or drawn, its `port`, the `lines` it has
read and the `keys` its cleanup has still to pass.

| Code | Actions |
|---|---|
| `vm_console`, `open_vnc_session` | `OpenSession` |
| `add_vnc_target` | `LookUpHost`, `AppendTarget` |
| the reply, after the token is kept in Redis | `StoreToken` |
| `vm_power` stop, shutdown, suspend, pause | `PowerOff`, `ForgetToken` |
| `delete_vnc_target` | `ReadTargets`, `Truncate`, `Rewrite` |
| `next(...)` over the targets | `FirstWithPort`, `FirstWithToken` |
| `cleanup_vnc`, from `cleanup_vnc_task` | `BeginCleanup`, `DeleteKey`, `EndCleanup` |
| calls that raise, gunicorn timeouts | `Fail` |

Abstractions.  Tokens are numbered as they are drawn; 32 random characters do not
repeat.  A host and its port are one value.  A line is written whole, and a
rewrite overwrites, from the start, as many lines as it writes (`Overwrite`): an
append that comes between truncation and rewrite is partly or wholly covered.
Opening a proxy takes any port, since Proxmox uses a port again when its viewer
is gone.  The nightly job's removal (`tasks.py:147-152`) raises before it touches
file or key, and is no action.

Properties, beside the types:

* `ConsoleKeepsTarget`: the token Redis has for a VM has its line in the file.
  What excuses a missing line is named by history: since the last cleanup two
  requests were at work at a time, or one died (`disturbed`), or the token was
  given to a second VM because its port was in the file already (`shared`), and
  left with that VM.
* `SessionsAllEnd` (liveness): lines a deletion writes back after a cleanup and
  keys set behind its scan go with a later cleanup.

**Fairness** (`FairSpec`).  Weak for requests that have begun, which end or are
killed; strong for the cleanup, which the scheduler has requested every hour and
which needs a free worker.  Nothing for users.

## Settings

The tables `row` (shared pools), `ignored`, `listed` (pool cache) and `disk`
(templates), and of Proxmox the pools (`pve`), those with VMs (`used`) and the
templates in `TEMPLATE_POOL` (`offered`).  A gunicorn worker has `pc` and `key`,
and is `broken` from the first flush that fails until it is replaced.  The one
RQ worker has its `job`, what it has `found` and what is `todo`, and the writes of
its transaction: `flushed`, which lock their rows, and `pending`, which the next
query flushes.

| Code | Actions |
|---|---|
| `ignored_pools`, `allowed_users` | `AddIgnored`, `InsertIgnored`, `DropIgnored`, `DeleteIgnored` |
| `create_shared_pool`, `add_shared_pool` | `CreatePool`, `GetPool`, `InsertPool` |
| `modify_shared_pool` | `ModifyPool`, `UpdatePool` |
| `delete_shared_pool` | `DeletePool`, `DeletePoolRow`, `DeleteProxmoxPool` |
| `delete_user`, `User.delete` | `DeleteUser` |
| `User.vms`, from pages (`list_vms`, `vms_api`) and the cache job | `MakePool`, in `ViewPool`, `VisitPool` |
| `template_edit`, `set_template_info` | `EditTemplate`, `SetTemplateInfo` |
| `generate_pool_cache_task` | `ListPools`, `VisitPool`, `StorePoolCache` |
| `sync_templates_task` | `ListTemplates`, `ReadTemplate`, `CommitTemplates` |
| flushes and calls that fail, killed jobs, gunicorn | `RequestFails`, `JobFails`, `Restart` |
| Proxmox | `PutVm`, `OfferTemplate` |

Abstractions.  The members of a pool, the name of a template and the numbers in
the cache are left out: nothing here depends on them.  `allowed_users` is a table
like `ignored_pools`, handled by the same code, and is not modelled twice.  A job
may begin at any time, so the refresh a request queues is no action.
`delete_user` counts the pool only; the page offers it for every cached pool
without VMs, shared ones included (`templates/list_pools.html:68-71`).

Properties, beside the types:

* `RowHasPool`: a shared pool's row has its pool in Proxmox; without it
  `User.allowed_vms` raises for every member.  Rows are made after the pool and
  deleted before it; `orphaned` names the rows for which that is not enough.
* `PoolHasRow`: a pool without a row is in some request's hands, or was left behind
  by what `stranded` names: a deletion Proxmox refused, a request that failed, a
  broken worker, or a visit, by the cache job or by a page, that made the pool again.
  It stays among them until it is deleted or has a row.
* `EnteredSizeKept`: a sync that read the row before an admin entered a size may
  replace it; one that read it after does not.
* `OfferedTemplateKept`: a row goes only with a template Proxmox had stopped
  offering when the job asked, not with a pool that could not be read.
* `PagesFollow` (liveness): whatever fails, cache and template list catch up with
  what stays as it is.

**Fairness** (`FairSpec`).  Strong for both periodic jobs, which share one worker,
weak for their steps and for requests that have begun.  Nothing for `Restart`:
pages do not depend on a broken worker.

## UsageLimits

One user: `vm` is what Proxmox has under the ids of his VMs (status, `cpu`, the
cores of all sockets, `cores`, those of one, memory, the disk in each slot),
`unused` how many detached disks each has, `limit` his limits.  A request has
`pc`, what it asks for (`req`), and the slots `taken` in the configuration it
read.

| Code | Actions |
|---|---|
| `User.usage` | `CpuOf`, `MemOf`, `DiskOf`, `UsedCpu`, `UsedMem`, `UsedDisk` |
| `User.check_usage` | `CpuFits`, `MemFits`, `DiskFits`, `Check` |
| `vm_power` | `Start`, `Resume`, `PowerOn`, `PowerOff` |
| `vm_cpu`, `vm_mem` | `SetCpu`, `SetMem`, `Configure` |
| `create_disk`, `VM.create_disk` | `CreateDisk`, `PickSlot`, `Attach` |
| `resize_disk`, `VM.resize_disk` | `ResizeDisk`, `Resize` |
| `delete_disk` | `DeleteDisk` |
| `create`, `create_vm_task`, `setup_template_task` | `Create`, `CreateVm`, `Clone`, `NewVm`, `Provision`, `SetUpClone`, `Launch` |
| `delete_vm_task` | `DeleteVm` |
| `set_limits` | `SetLimits` |
| a lost answer, repeated by `@retry`; failures | `LoseAnswer`, `Fail` |

Abstractions.  The reads of a check and the check are one step: usage is computed
once per request.  Between it and what the request does, everything may happen.
Memory keeps its units, megabytes in Proxmox and gigabytes in limits and in
`vm_mem`, with the code's roundings.  Repeating a call is modelled where it makes
a difference: a relative resize, and a disk attached to a slot.  Sizes in the
slots are whole gigabytes.  Proxmox refuses a VM without memory, so a request for
none changes nothing and is no action.

Properties, beside the types:

* `LimitsHold`: a request for which neither VMs nor limits have changed since its
  check (`fresh`) does not take its user past a limit; memory may go past by less
  than a gigabyte, which the check cuts off.  Beyond that go `resume`, which is
  not checked, `vm_mem`, which passes gigabytes where megabytes are meant
  (`__init__.py:806`), the start of a VM with several sockets, of which one is checked
  and all count (`__init__.py:686`, `vm.py:34`), and a clone whose template has a
  larger disk than was asked for.  A clone has the sockets of its template until
  `is_provisioned` or `set_cpu` gives it one, and keeps them if its job dies before.
  The exceptions are in the property by name, so that no other goes
  unnoticed.
* `DisksStay`: a disk takes the slot of another only if the VM's disks have changed
  since the request read them.

## Runs

| Run | Instance | Shows |
|---|---|---|
| `sessions_races` | 1 VM, 2 requests, 1 job, 1 fault | types, `HardStopAfterGrace`, `TimerRestartsOnlyInTheGap`, `SessionKeptWhileRunning` |
| `sessions_admin` | 2 VMs of one pool, 1 request, 1 job, expire and warn, `Timeout` = 1, `Warn` = 0 | the same but the types, with scans that have a middle, while an admin resets all sessions |
| `sessions_liveness` | 1 VM, 1 request, 1 job, 1 fault, `FairSpec` | the three liveness properties |
| `network_races` | 2 users, 2 workers, 3 ids, 3 subnets, 2 faults, 1 failed listing | all four safety properties, and `ImplementsNetworks` |
| `network_removals` | 2 users, 2 workers, 3 ids, 2 subnets, 1 fault, 2 removals | `VnetsPrivate` along the repair, collision, adoption and give-up branches |
| `network_adopted` | 2 users, 1 worker, 1 fault | violation of `AttachedIsFirewalled` |
| `vm_races` | 2 ids, 2 VMs, one of them perhaps an administrator's, 1 request, 1 worker | types, `ExpiryIsItsOwn`, `NightlyKeepsItsTime` |
| `vm_expires` | 1 id, 2 VMs cloned, 2 pools of which 1 is visited, 1 fault, `FairSpec` | `EveryVmExpires`, `OnlyFailuresLeaveUnwired` |
| `vm_delete_reused` | 2 ids, 2 VMs, 2 queued jobs, nothing by hand | violation of `DeletesWhatWasAsked` |
| `consoles_races` | 2 VMs, 2 ports, 2 requests, 3 consoles, 1 fault, `FairSpec` | types, `ConsoleKeepsTarget`, `SessionsAllEnd` |
| `settings_races` | 1 pool name, there or not, 1 template, 2 workers, 3 requests, 1 fault, `FairSpec` | types and the five properties of `Settings` |
| `usage_races` | 2 VMs with 2 slots and up to 2 sockets, 2 requests, 1 fault, 2 rows of limits | types, `LimitsHold`, `DisksStay` |

The bounds.  `Timeout` = 2, `Grace` = 1 and `Warn` = 1 give a fresh, a shortened
and an expired session (`Timeout` = 1 leaves out the middle one, and "warn" with
`Warn` = 0 then leaves no time at all), and a grace period that is over or not;
ages saturate, so no behaviour is cut off in time.  Two requests and a job are the
most that can meet in one test-and-set gap, and one fault puts a crash, a failed
call or a failed task at any point.  `MaxId`, `MaxFaults`, `MaxUnread` and
`MaxRemovals` bound the ids drawn, failures, failed listings and removals: three
ids are one per user and one more, for a job that fails and tries again; two
failures reach an adoption and a failure in it, or a failed apply and a dead job;
two removals take the vnets of both users.  A job that would draw an id beyond
`MaxId` fails. `network_removals` has fewer subnets than ids, so that allocation
runs into exhaustion; a row is given up only where two jobs picked one subnet and
the vnet of the first is then removed, hence its two workers.  In `VmLifecycle`,
`MaxVMs`, `MaxByHand`, `MaxQueue` and `MaxFaults` bound the VMs made, those among
them made by hand, the jobs that wait and the failures, and `AdminRemoves` says
whether administrators remove VMs: two VMs are the old and the new owner of an id,
on one id or on two; one waiting job beside the one that runs is enough for every
order of two, and `vm_delete_reused` has the third it needs.  One day of life and
one or two to a week put the stop, the refused start and the deletion on days of
their own.  In `VncTargets`, `MaxOpens` = 3 has a console opened on the port of
one that was closed and a third beside them; two VMs and two ports are the two
that can be confused.  In `Settings`, requests on different names, and jobs on
different templates, do not meet: one of each, with `MaxRequests` = 3 requests in
two workers, gives a creation between two deletions of a pool that is there at the
start, besides any number of visits; the sizes are not known, entered, and the one
Proxmox tells.  In `UsageLimits`, limits allow two of the smallest VMs or one, and
memory comes in a whole gigabyte and a half, so that each rounding shows;
`MaxRequests` = 2 lets two checks pass on the same usage. `MaxFaults` is 1 in all
three: one failure, at any point.  Symmetry is over requests, workers, VMs and
users, which no definition tells apart, and only in runs without liveness.  No
system here may stop: deadlock is checked in every run.

## Proofs

Each module with a specification has one of proofs, which extends it and holds
for every value of the constants that the module's assumptions allow: any number
of names, VMs, users, workers, requests, subnets, slots, faults and attempts, any
timeout, limit or lifetime.  Every invariant and every action property of a
passing run is a theorem, and so is the refinement; each is proved from an
inductive invariant that TLC had checked before, with one step of the proof per
action.  The invariants stand at the end of their modules.

What a theorem assumes beyond the constants:

* one RQ worker, as in `docker-compose.yml`: `GraceHolds` and `NightlyIsOnTime`.
  With two, one job's round begins after the other decided to stop, or one
  deletes and another makes a VM between a nightly read and the call it led to;
* no removals by hand (`MaxRemovals = 0`): `SubnetsArePrivate`, `NetworkIsApplied`,
  `NetworkIsStable`, `NetworksAreImplemented`, for the reasons given above;
* that `None` is no network: `CallersAgree`, `NetworksAreKept`.

**Types** (`TypeCorrect`, `NetworkTypeCorrect`, `VmTypeCorrect`,
`ConsoleTypesCorrect`, `SettingsTypeCorrect`, `UsageTypesCorrect`).  A type
invariant alone is not inductive: a request that writes under a key needs to have
one.  The strengthening says which locals a process holds in each of its states
(`RequestsFit`, `JobsFit`, `KeysFit`, `JobFits`).  `VncTargets` also needs
`OpensCountTokens`, that every request that may still draw a token is an opening
that was counted.  The proof for `UsageLimits` is why `SetMem` must ask for some
memory: without that the invariant does not hold of a machine.

**SessionTimeouts_proofs**

* `GraceHolds` (`HardStopAfterGrace`), from `MarkerIsRound`: a marker found in
  Redis is as old as the last round.
* `TimerHolds` (`TimerRestartsOnlyInTheGap`), from `PendingStartIsFresh`: a
  session that has come up between a process's read and its write is no older
  than the read.
* `SessionKept` (`SessionKeptWhileRunning`), from `NothingSeenMeansMissed`: a
  handler that has seen nothing run has missed all that does, or has yet to look.

**StudentNetwork_proofs and PrivateNetworks_proofs**

* `VnetsArePrivate` (`VnetsPrivate`), for any number of removals, from
  `VnetsHeldByOne`: whatever names a vnet - an alias, a row, a job - names it for
  one user, and nothing names the vnets of ids not drawn yet.
* `SubnetsArePrivate`, `NetworkIsApplied`, `NetworkIsStable`, from
  `NetworksSettled`: every row names a subnet defined on its vnet, no job collides
  on its own row, what a job's calls brought about stays, and a job that inserts
  is its user's only one.
* `NetworksAreImplemented` (`ImplementsNetworks`): the initial states are those of
  `PrivateNetworks`, and every step is an `Ensure`, a `Return` or a stutter.  On
  top of `NetworksSettled` it needs `RepairsTheRow`, that a job in the repair
  branch works on its user's row and no older copy, and that vnets and subnets
  are private after the step, since `Ensure` gives nobody what another has.
* `CallersAgree` and `NetworksAreKept`, of the abstract specification, from
  `ToldTruly`: every caller has been told what its user has.

**VmLifecycle_proofs**

* `ExpiryStaysItsOwn` (`ExpiryIsItsOwn`), for any number of workers, from
  `RowsAreYoung`.  That no row is older than its VM does not tell that it stays so
  when a VM comes up under an id with a row: a job about to post a VM has removed
  the row that was there, and one it finds was written since.
* `NightlyIsOnTime` (`NightlyKeepsItsTime`): what the job read of a date stays
  true while it is on its way to the call.  VMs and rows age together, and with
  one worker nobody else makes a VM meanwhile, so the VM that is there is the one
  whose date was read, or one made by hand; the bound on its age then comes from
  `RowsAreYoung`.
* `UnwiredOnlyAfterFailure` (`OnlyFailuresLeaveUnwired`), from `UnwiredIsAwaited`:
  the job that has yet to move the `net0` of a VM is one that clones, in the states
  where it still will.

**VncTargets_proofs**

* `ConsolesKeepTheirTargets` (`ConsoleKeepsTarget`), from `TokensAreDrawn` and
  `Undisturbed`.  While requests overlap, nothing can be said of what one of them
  has read, so the invariant is about the others: one request is at work at a
  time, and what it knows - the lines it has read, the keys it has passed, the
  token it is about to keep - is still so (`StillSo`).  `TokensAreDrawn` makes a
  new token different from every one that is in the file, in Redis or with a
  request.

**Settings_proofs**

* `RowsHavePools` (`RowHasPool`), from `OneAtAPool`: but for the `orphaned`, a pool
  is not there, or is there with its row, or is in the hands of one request, which
  makes or removes it.  That there is one request only is what Proxmox refusing to
  make a pool twice, and the row's deletion before the pool's, amount to.
* `PoolsHaveRows` (`PoolHasRow`), which is inductive with the types.
* `OfferedTemplatesAreKept` (`OfferedTemplateKept`), from `JobFits`: what the job
  has not found was not offered when it asked.
* `EnteredSizesAreKept` (`EnteredSizeKept`), from `WritesUnknown`: what the job has
  flushed or will flush is for a template it found without a known size, or one
  that was edited after.

**UsageLimits_proofs**

* `LimitsAreKept` (`LimitsHold`), from `ChecksHold`: while a request is `fresh`,
  what its check found is still so, what it asked for still fits and is not there
  yet, and a clone on its way is stopped, with what was asked for once it is
  configured, in however many sockets it came (`StillFits`).  A request's own
  steps keep this up to the call that brings the increase; any step that changes
  what is used ends the freshness of the others.  The four exceptions are in the
  property.
* `DisksAreKept` (`DisksStay`), from the types: a request's slot is not among
  those its configuration had `taken`.

`LimitsAreKept` is about sums over the disks of a VM and over the VMs of a user,
which are `SumFunction` of the community modules, a fold.  `SumFacts` proves what it
needs of it: that a sum is a number, and changes by as much as one value does.
The induction theorems of the library take the property as an operator, which the
provers cannot instantiate.  `SumFacts` gets around that with a set in the place
of the property (`SubsetInduction`), from the well-foundedness of the numbers:
among the subsets that are not in the set there is a smallest.

What stays with TLC.  Liveness and fairness, which are beyond the prover:
`RunningGetsSession`, `OvertimeEnds`, `IdleSessionEnds`, `EveryVmExpires`,
`SessionsAllEnd`, `PagesFollow`.  The two statements that fail,
`AttachedIsFirewalled` and `DeletesWhatWasAsked`, have their counterexamples.

## What is left

1. What of `SubnetsPrivate` and `AppliedUnlessAdopted` survives removals by hand: a
   user's subnet is his while its vnet has not been removed since he was given it.
   The proofs have it for `MaxRemovals = 0` only.
2. `NightlyKeepsItsTime` for several workers, with the ids a second job may have
   reused between read and call excepted by name, as `VncTargets` does.
3. `CallersAgree` and `NetworksAreKept` carried over to `StudentNetwork` through
   the refinement, as statements about its rows and its jobs.

## Not modelled

* Listing and name algorithms: `sanitize_pool_name`, the hostname check, the filter
  of `User.vms`, which changes the list it runs over (`user.py:44-46`: of two
  neighbouring VMs without a name one stays, and the sort raises).  They are pure
  functions, for unit tests.
* A limit of zero, which makes `usage_percent` divide by it and ends the cache job
  (`user.py:103`): in `Settings`, a job that fails in every run, which the fairness
  excludes.
* A user who acts on VMs of another's pool, with two names in Redis:
  `SessionTimeouts` has it (`PoolOf`, `Controls`) and the proofs cover it; its
  instances have one name, since two make the runs too long.
* Boot order, interfaces, ISO drives, cloud-init, authentication and the user
  interface: single calls on the Proxmox API, or inputs, that keep no state of
  Proxstar's own.
