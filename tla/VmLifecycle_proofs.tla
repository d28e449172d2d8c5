------------------------- MODULE VmLifecycle_proofs -------------------------
(***************************************************************************)
(* Proofs about VmLifecycle, for any number of ids, pools, workers, web    *)
(* processes and days, any length of the queue and any number of VMs and   *)
(* failures; the last one is for the one worker that the code starts.      *)
(***************************************************************************)
EXTENDS VmLifecycle, SequenceTheorems, TLAPS

-----------------------------------------------------------------------------
(* Types                                                                   *)

\* The part of the types that is about processes, and that about Proxmox.
ProcTypes ==
  /\ pc \in [Procs -> States]
  /\ job \in [Procs -> Jobs \cup {Idle, Start}]
  /\ id \in [Procs -> Ids \cup {None}]
  /\ left \in [Procs -> SUBSET Pools] /\ todo \in [Procs -> SUBSET Ids]
  /\ since \in [Procs -> Ages]

KnowsItsId(p) == pc[p] \notin {"idle", "draw", "pools", "next"} => id[p] \in Ids

ProxmoxType == at \in [Ids -> VMs \cup {None}] /\ made \in 0 .. MaxVMs

Fits(p) == (p \in Web => RequestFits(p)) /\ (p \in Workers => JobFits(p))

QueueType == queue \in Seq({entry \in Jobs : Complete(entry)}) /\ Len(queue) <= MaxQueue

ProcsOK == ProcTypes /\ \A p \in Procs : KnowsItsId(p) /\ Fits(p)

Parts ==
  /\ ProcsOK /\ ProxmoxType /\ QueueType
  /\ row \in [Ids -> Ages \cup {None}]
  /\ byHand \in 0 .. MaxByHand /\ faults \in 0 .. MaxFaults

LEMMA TypeParts == TypeOK /\ JobsFit <=> Parts
<1>1. queue \in Seq({entry \in Jobs : Complete(entry)}) => queue \in Seq(Jobs)
  OBVIOUS
<1>2. (\A p \in Web : RequestFits(p)) /\ (\A p \in Workers : JobFits(p))
        <=> \A p \in Procs : Fits(p)
  BY DEF Procs, Fits
<1> QED
  BY <1>1, <1>2
  DEF TypeOK, JobsFit, Parts, ProcsOK, ProcTypes, ProxmoxType, QueueType, KnowsItsId

\* Ages, and what grows with the days.
LEMMA AgesType ==
  /\ 0 \in Ages /\ Life \in Nat /\ Week \in Nat /\ Week > 0 /\ MaxAge = Life + Week
  /\ \A age \in Ages : age \in Nat /\ age <= MaxAge /\ Older(age) \in Ages /\ age <= Older(age)
  /\ \A a, b \in Ages : a <= b => Older(a) <= Older(b)
BY BoundsAssumption DEF Ages, MaxAge, Older

\* A step of one process disturbs the types of that process only.
LEMMA OneMoves ==
  ASSUME ProcTypes, \A x \in Procs : KnowsItsId(x) /\ Fits(x),
         NEW p \in Procs, KnowsItsId(p)', Fits(p)',
         \A x \in Procs \ {p} : pc'[x] = pc[x] /\ job'[x] = job[x] /\ id'[x] = id[x]
  PROVE  \A x \in Procs : KnowsItsId(x)' /\ Fits(x)'
BY DEF KnowsItsId, Fits, RequestFits, JobFits, Complete

LEMMA NobodyMoves ==
  ASSUME ProcsOK, since' \in [Procs -> Ages], UNCHANGED <<pc, job, id, left, todo>>
  PROVE  ProcsOK'
BY DEF ProcsOK, ProcTypes, KnowsItsId, Fits, RequestFits, JobFits, Complete

LEMMA SameQueue ==
  ASSUME QueueType, UNCHANGED queue
  PROVE  QueueType'
BY DEF QueueType, Complete

\* A job or request that ends leaves an idle process.
LEMMA EndType ==
  ASSUME ProcsOK, NEW p \in Procs, End(p)
  PROVE  ProcsOK'
<1>1. ProcTypes'
  BY AgesType DEF ProcsOK, ProcTypes, End, Goto, States
<1>2. /\ pc'[p] = "idle" /\ job'[p] = Idle
      /\ \A x \in Procs \ {p} : pc'[x] = pc[x] /\ job'[x] = job[x] /\ id'[x] = id[x]
  BY DEF ProcsOK, ProcTypes, End, Goto
<1>3. KnowsItsId(p)' /\ Fits(p)'
  BY <1>2, KindsAssumption DEF KnowsItsId, Fits, RequestFits, JobFits, Complete, Idle
<1> QED
  BY <1>1, <1>2, <1>3, OneMoves DEF ProcsOK

\* A process that goes on with what it has.
LEMMA GotoType ==
  ASSUME ProcsOK, NEW p \in Procs, NEW s \in States, Goto(p, s), UNCHANGED locals,
         KnowsItsId(p)', Fits(p)'
  PROVE  ProcsOK'
<1>1. ProcTypes'
  BY DEF ProcsOK, ProcTypes, Goto, locals
<1>2. \A x \in Procs \ {p} : pc'[x] = pc[x] /\ job'[x] = job[x] /\ id'[x] = id[x]
  BY DEF ProcsOK, ProcTypes, Goto, locals
<1> QED
  BY <1>1, <1>2, OneMoves DEF ProcsOK

\* The states a worker may go on to with what it has, given its job.
LEMMA WorkerGoesOn ==
  ASSUME ProcsOK, NEW p \in Workers, NEW s \in States, Goto(p, s), UNCHANGED locals,
         pc[p] \notin {"idle", "draw", "pools", "next"},
         s # "power",
         s \in {"draw", "drop", "post", "wait"} => job[p].kind \in Kinds,
         s \in {"wire", "config"} => job[p].kind = "template",
         s \in {"pools", "next", "halt"} => job[p].kind = "nightly",
         s \in {"expire", "insert"} => job[p].kind \in {"create", "template", "nightly"}
  PROVE  ProcsOK'
<1>1. p \in Procs /\ p \notin Web
  BY ProcsAssumption DEF Procs
<1>2. KnowsItsId(p)' /\ Fits(p)'
  BY <1>1 DEF Goto, locals, KnowsItsId, Fits, JobFits, Complete, ProcsOK, ProcTypes
<1> QED
  BY <1>1, <1>2, GotoType

\* Where the caller of get_vm_expire goes on.
LEMMA ContinueCases ==
  ASSUME ProcsOK, NEW p \in Procs, pc[p] \in {"expire", "insert"}, NEW age \in Ages,
         Continue(p, age)
  PROVE  \/ End(p)
         \/ job[p].kind = "template" /\ Goto(p, "config") /\ UNCHANGED locals
         \/ job[p].kind = "start" /\ Goto(p, "power") /\ UNCHANGED locals
         \/ /\ job[p].kind = "nightly" /\ UNCHANGED locals
            /\ \/ age >= Life + Week /\ Goto(p, "status")
               \/ age >= Life /\ Goto(p, "halt")
               \/ Goto(p, "next")
<1>1. job[p].kind \in {"create", "template", "start", "nightly"}
  BY DEF ProcsOK, Fits, RequestFits, JobFits, Procs
<1>2. age > Life \/ age <= Life
  BY AgesType
<1>3. CASE job[p].kind = "template"
  BY <1>3 DEF Continue
<1>4. CASE job[p].kind = "create"
  BY <1>4 DEF Continue
<1>5. CASE job[p].kind = "start" /\ age > Life
  <2>1. ~ (age <= Life)
    BY <1>5, AgesType
  <2> QED
    BY <1>5, <2>1 DEF Continue
<1>6. CASE job[p].kind = "start" /\ age <= Life
  <2>1. ~ (age > Life)
    BY <1>6, AgesType
  <2> QED
    BY <1>6, <2>1 DEF Continue
<1>7. CASE job[p].kind = "nightly"
  <2>1. Goto(p, NightlyAction(age)) /\ UNCHANGED locals
    BY <1>7 DEF Continue
  <2>2. \/ age >= Life + Week /\ NightlyAction(age) = "status"
        \/ age >= Life /\ NightlyAction(age) = "halt"
        \/ NightlyAction(age) = "next"
    BY AgesType DEF NightlyAction
  <2> QED
    BY <1>7, <2>1, <2>2
<1> QED
  BY <1>1, <1>2, <1>3, <1>4, <1>5, <1>6, <1>7

LEMMA ContinueType ==
  ASSUME ProcsOK, NEW p \in Procs, pc[p] \in {"expire", "insert"}, NEW age \in Ages,
         Continue(p, age)
  PROVE  ProcsOK'
<1>1. CASE End(p)
  BY <1>1, EndType
<1>2. CASE job[p].kind = "start" /\ Goto(p, "power") /\ UNCHANGED locals
  <2>1. p \in Web /\ p \notin Workers
    BY <1>2, ProcsAssumption DEF Procs, ProcsOK, Fits, JobFits
  <2>2. KnowsItsId(p)' /\ Fits(p)'
    BY <1>2, <2>1 DEF Goto, locals, KnowsItsId, Fits, RequestFits, ProcsOK, ProcTypes
  <2> QED
    BY <1>2, <2>2, GotoType DEF States
<1>3. ASSUME NEW s \in {"config", "status", "halt", "next"}, Goto(p, s), UNCHANGED locals,
             s = "config" => job[p].kind = "template",
             s # "config" => job[p].kind = "nightly"
      PROVE  ProcsOK'
  <2>1. p \in Workers /\ s \in States
    BY <1>3 DEF Procs, ProcsOK, Fits, RequestFits, States, Creating, Deleting
  <2> QED
    BY <1>3, <2>1, WorkerGoesOn
<1> QED
  BY <1>1, <1>2, <1>3, ContinueCases

\* The head of the queue is a job, whole, and the rest is a queue.
LEMMA QueueTypes ==
  ASSUME QueueType
  PROVE  /\ queue # <<>> => /\ Head(queue) \in Jobs /\ Complete(Head(queue))
                            /\ Tail(queue) \in Seq({entry \in Jobs : Complete(entry)})
                            /\ Len(Tail(queue)) <= MaxQueue
         /\ \A entry \in Jobs : Complete(entry) /\ Enqueue(entry) => QueueType'
<1>1. MaxQueue \in Nat
  BY BoundsAssumption
<1>2. ASSUME queue # <<>>
      PROVE  /\ Head(queue) \in Jobs /\ Complete(Head(queue))
             /\ Tail(queue) \in Seq({entry \in Jobs : Complete(entry)})
             /\ Len(Tail(queue)) <= MaxQueue
  <2>1. /\ Head(queue) \in {entry \in Jobs : Complete(entry)}
        /\ Tail(queue) \in Seq({entry \in Jobs : Complete(entry)})
        /\ Len(Tail(queue)) = Len(queue) - 1 /\ Len(queue) \in Nat
    BY <1>2, HeadTailProperties DEF QueueType
  <2> QED
    BY <1>1, <2>1 DEF QueueType
<1>3. ASSUME NEW entry \in Jobs, Complete(entry), Enqueue(entry)
      PROVE  QueueType'
  <2>1. /\ Append(queue, entry) \in Seq({e \in Jobs : Complete(e)})
        /\ Len(Append(queue, entry)) = Len(queue) + 1
    BY <1>3, AppendProperties DEF QueueType
  <2>2. Len(queue) \in Nat
    BY DEF QueueType
  <2>3. Len(queue) < MaxQueue /\ queue' = Append(queue, entry)
    BY <1>3 DEF Enqueue
  <2> QED
    BY <1>1, <2>1, <2>2, <2>3 DEF QueueType, Complete
<1> QED
  BY <1>2, <1>3

\* What Proxmox does to the VM of one id.
LEMMA AtType ==
  ASSUME ProxmoxType
  PROVE  /\ \A i \in Ids : Exists(i) =>
              /\ at[i] \in VMs
              /\ \A task \in Tasks : Post(i, task) => at' \in [Ids -> VMs \cup {None}]
         /\ \A i \in Ids, vm \in VMs \cup {None} :
              at' = [at EXCEPT ![i] = vm] => at' \in [Ids -> VMs \cup {None}]
<1>1. ASSUME NEW i \in Ids, Exists(i) PROVE at[i] \in VMs
  BY <1>1 DEF ProxmoxType, Exists
<1>2. ASSUME NEW i \in Ids, Exists(i), NEW task \in Tasks, Post(i, task)
      PROVE  at' \in [Ids -> VMs \cup {None}]
  <2>1. [at[i] EXCEPT !.task = task] \in VMs
    BY <1>1, <1>2 DEF VMs
  <2> QED
    BY <1>2, <2>1 DEF Post, ProxmoxType
<1> QED
  BY <1>1, <1>2 DEF ProxmoxType

LEMMA InitType == Init => TypeOK /\ JobsFit
<1> SUFFICES Init => Parts
  BY TypeParts
<1> HAVE Init
<1>1. ProcTypes
  BY AgesType DEF Init, ProcTypes, States
<1>2. \A p \in Procs : KnowsItsId(p) /\ Fits(p)
  BY KindsAssumption DEF Init, Procs, KnowsItsId, Fits, RequestFits, JobFits, Complete, Idle
<1>3. QueueType
  BY EmptySeq, BoundsAssumption DEF Init, QueueType
<1> QED
  BY <1>1, <1>2, <1>3, BoundsAssumption DEF Init, Parts, ProcsOK, ProxmoxType

\* The types are inductive, together with what each process is at, one step
\* per action.
LEMMA NextType ==
  ASSUME TypeOK, JobsFit, [Next]_vars
  PROVE  TypeOK' /\ JobsFit'
<1> SUFFICES Parts'
  BY TypeParts, PTL
<1> Parts
  BY TypeParts
<1> USE DEF Parts
<1>1. ASSUME NEW kind \in Kinds, NEW pool \in Pools, RequestVm(kind, pool)
      PROVE  Parts'
  <2>1. [kind |-> kind, pool |-> pool, id |-> None, vm |-> None] \in Jobs
    BY DEF Jobs
  <2>2. Complete([kind |-> kind, pool |-> pool, id |-> None, vm |-> None])
    BY KindsAssumption DEF Complete
  <2>3. QueueType'
    BY <1>1, <2>1, <2>2, QueueTypes DEF RequestVm
  <2> QED
    BY <1>1, <2>3, NobodyMoves
    DEF RequestVm, proxmox, db, locals, ProxmoxType, ProcsOK, ProcTypes
<1>2. ASSUME NEW i \in Ids, RequestDelete(i) PROVE Parts'
  <2>1. at[i].vm \in Serials
    BY <1>2, AtType DEF RequestDelete, VMs
  <2>2. [kind |-> "delete", pool |-> None, id |-> i, vm |-> at[i].vm] \in Jobs
    BY <2>1 DEF Jobs
  <2>3. Complete([kind |-> "delete", pool |-> None, id |-> i, vm |-> at[i].vm])
    BY KindsAssumption DEF Complete
  <2>4. QueueType'
    BY <1>2, <2>2, <2>3, QueueTypes DEF RequestDelete
  <2> QED
    BY <1>2, <2>4, NobodyMoves
    DEF RequestDelete, proxmox, db, locals, ProxmoxType, ProcsOK, ProcTypes
<1>3. CASE ScheduleNightly
  <2>1. [kind |-> "nightly", pool |-> None, id |-> None, vm |-> None] \in Jobs
    BY DEF Jobs
  <2>2. Complete([kind |-> "nightly", pool |-> None, id |-> None, vm |-> None])
    BY KindsAssumption DEF Complete
  <2>3. QueueType'
    BY <1>3, <2>1, <2>2, QueueTypes DEF ScheduleNightly
  <2> QED
    BY <1>3, <2>3, NobodyMoves
    DEF ScheduleNightly, proxmox, db, locals, ProxmoxType, ProcsOK, ProcTypes
<1>4. ASSUME NEW p \in Web, NEW i \in Ids, RequestStart(p, i) PROVE Parts'
  <2>1. p \in Procs /\ p \notin Workers
    BY ProcsAssumption DEF Procs
  <2>2. ProcTypes'
    BY <1>4, <2>1 DEF RequestStart, Goto, ProcsOK, ProcTypes, States
  <2>3. KnowsItsId(p)' /\ Fits(p)'
    BY <1>4, <2>1
    DEF RequestStart, Goto, KnowsItsId, Fits, RequestFits, Start, ProcsOK, ProcTypes
  <2>4. \A x \in Procs \ {p} : pc'[x] = pc[x] /\ job'[x] = job[x] /\ id'[x] = id[x]
    BY <1>4, <2>1 DEF RequestStart, Goto, ProcsOK, ProcTypes
  <2>5. ProcsOK'
    BY <2>1, <2>2, <2>3, <2>4, OneMoves DEF ProcsOK
  <2> QED
    BY <1>4, <2>5, SameQueue DEF RequestStart, proxmox, db, ProxmoxType
<1>5. ASSUME NEW p \in Web, PowerOn(p) PROVE Parts'
  <2>1. id[p] \in Ids
    BY <1>5 DEF PowerOn, ProcsOK, KnowsItsId, Procs
  <2>2. at' \in [Ids -> VMs \cup {None}]
    BY <1>5, <2>1, AtType DEF PowerOn, ProxmoxType, Free, Tasks
  <2>3. ProcsOK'
    BY <1>5, EndType DEF PowerOn, Procs
  <2> QED
    BY <1>5, <2>2, <2>3, SameQueue DEF PowerOn, db, ProxmoxType
<1>6. ASSUME NEW p \in Procs, ReadExpire(p) PROVE Parts'
  <2>1. id[p] \in Ids
    BY <1>6 DEF ReadExpire, ProcsOK, KnowsItsId
  <2>2. CASE row[id[p]] # None /\ Continue(p, row[id[p]])
    <3>1. row[id[p]] \in Ages
      BY <2>1, <2>2
    <3>2. ProcsOK'
      BY <1>6, <2>2, <3>1, ContinueType DEF ReadExpire
    <3> QED
      BY <1>6, <3>2, SameQueue DEF ReadExpire, proxmox, db, ProxmoxType
  <2>3. CASE Goto(p, "insert") /\ UNCHANGED locals
    <3>1. KnowsItsId(p)' /\ Fits(p)'
      BY <1>6, <2>1, <2>3 DEF ReadExpire, Goto, locals, KnowsItsId, Fits, RequestFits,
         JobFits, Complete, ProcsOK, ProcTypes
    <3>2. ProcsOK'
      BY <2>3, <3>1, GotoType DEF States
    <3> QED
      BY <1>6, <3>2, SameQueue DEF ReadExpire, proxmox, db, ProxmoxType
  <2> QED
    BY <1>6, <2>2, <2>3 DEF ReadExpire
<1>7. ASSUME NEW p \in Procs, InsertExpire(p) PROVE Parts'
  <2>1. ProcsOK'
    BY <1>7, ContinueType, EndType, AgesType DEF InsertExpire
  <2>2. row' \in [Ids -> Ages \cup {None}]
    BY <1>7, AgesType DEF InsertExpire
  <2> QED
    BY <1>7, <2>1, <2>2, SameQueue DEF InsertExpire, proxmox, ProxmoxType
<1>8. ASSUME NEW p \in Procs, Fail(p) PROVE Parts'
  <2>1. faults' \in 0 .. MaxFaults
    BY <1>8, BoundsAssumption DEF Fail, Fault
  <2> QED
    BY <1>8, <2>1, EndType, SameQueue DEF Fail, proxmox, db, ProxmoxType
<1>9. ASSUME NEW p \in Workers, Begin(p) PROVE Parts'
  <2>1. p \in Procs /\ p \notin Web
    BY ProcsAssumption DEF Procs
  <2>2. Head(queue) \in Jobs /\ Complete(Head(queue)) /\ QueueType'
    BY <1>9, QueueTypes DEF Begin, QueueType, Complete
  <2>3. ProcTypes'
    BY <1>9, <2>1, <2>2, PoolsAssumption DEF Begin, Goto, ProcsOK, ProcTypes, States,
       Creating, Deleting, Complete
  <2>4. Head(queue).kind \in Kinds \cup {"delete", "nightly"}
    BY <2>2 DEF Jobs
  <2>5. job'[p] = Head(queue)
    BY <1>9, <2>1 DEF Begin, ProcsOK, ProcTypes
  <2>6. \/ Head(queue).kind \in Kinds /\ pc'[p] = "draw"
        \/ Head(queue).kind = "delete" /\ pc'[p] = "status" /\ id'[p] \in Ids
        \/ Head(queue).kind = "nightly" /\ pc'[p] = "pools"
    BY <1>9, <2>1, <2>2 DEF Begin, Goto, ProcsOK, ProcTypes, Complete
  <2>7. KnowsItsId(p)' /\ Fits(p)'
    BY <2>1, <2>2, <2>4, <2>5, <2>6, KindsAssumption DEF KnowsItsId, Fits, JobFits, Complete
  <2>8. \A x \in Procs \ {p} : pc'[x] = pc[x] /\ job'[x] = job[x] /\ id'[x] = id[x]
    BY <1>9, <2>1 DEF Begin, Goto, ProcsOK, ProcTypes
  <2>9. ProcsOK'
    BY <2>1, <2>3, <2>7, <2>8, OneMoves DEF ProcsOK
  <2> QED
    BY <1>9, <2>2, <2>9 DEF Begin, proxmox, db, ProxmoxType
<1>10. ASSUME NEW p \in Workers, DrawId(p) PROVE Parts'
  <2>1. p \in Procs /\ p \notin Web
    BY ProcsAssumption DEF Procs
  <2>2. CASE End(p)
    BY <1>10, <2>1, <2>2, EndType, SameQueue DEF DrawId, proxmox, db, ProxmoxType
  <2>3. ASSUME NEW i \in Ids, id' = [id EXCEPT ![p] = i], Goto(p, "drop"),
               UNCHANGED <<job, left, todo, since>>
        PROVE  Parts'
    <3>1. ProcTypes'
      BY <2>1, <2>3 DEF Goto, ProcsOK, ProcTypes, States, Creating
    <3>2. KnowsItsId(p)' /\ Fits(p)'
      BY <1>10, <2>1, <2>3
      DEF DrawId, Goto, KnowsItsId, Fits, JobFits, Complete, ProcsOK, ProcTypes
    <3>3. \A x \in Procs \ {p} : pc'[x] = pc[x] /\ job'[x] = job[x] /\ id'[x] = id[x]
      BY <2>1, <2>3 DEF Goto, ProcsOK, ProcTypes
    <3>4. ProcsOK'
      BY <2>1, <3>1, <3>2, <3>3, OneMoves DEF ProcsOK
    <3> QED
      BY <1>10, <3>4, SameQueue DEF DrawId, proxmox, db, ProxmoxType
  <2> QED
    BY <1>10, <2>2, <2>3 DEF DrawId
<1>11. ASSUME NEW p \in Workers, DropRow(p) PROVE Parts'
  <2>1. ProcsOK'
    BY <1>11, WorkerGoesOn DEF DropRow, Creating, States, ProcsOK, Fits, JobFits, Procs
  <2>2. row' \in [Ids -> Ages \cup {None}]
    BY <1>11 DEF DropRow
  <2> QED
    BY <1>11, <2>1, <2>2, SameQueue DEF DropRow, proxmox, ProxmoxType
<1>12. ASSUME NEW p \in Workers, PostVm(p) PROVE Parts'
  <2>1. p \in Procs /\ p \notin Web
    BY ProcsAssumption DEF Procs
  <2>2. CASE End(p) /\ UNCHANGED <<at, made>>
    BY <1>12, <2>1, <2>2, EndType, SameQueue DEF PostVm, db, ProxmoxType
  <2>3. CASE /\ ~ Exists(id[p]) /\ made < MaxVMs /\ made' = made + 1
             /\ \E net0 \in FirstBridges(p) : at' = [at EXCEPT ![id[p]] = NewVm(p, net0)]
             /\ since' = [since EXCEPT ![p] = 0]
             /\ Goto(p, "wait") /\ UNCHANGED <<job, id, left, todo>>
    <3>1. id[p] \in Ids /\ job[p].pool \in Pools /\ since[p] \in Ages
      BY <1>12, <2>1
      DEF PostVm, ProcsOK, ProcTypes, KnowsItsId, Fits, JobFits, Complete
    <3>2. made + 1 \in Serials /\ made' \in 0 .. MaxVMs
      BY <2>3, BoundsAssumption DEF ProxmoxType, Serials
    <3>3. \A net0 \in FirstBridges(p) : NewVm(p, net0) \in VMs
      BY <3>1, <3>2 DEF NewVm, FirstBridges, VMs, Tasks, Bridges
    <3>4. ProxmoxType'
      BY <2>3, <3>1, <3>2, <3>3, AtType DEF ProxmoxType
    <3>5. ProcTypes'
      BY <2>1, <2>3, AgesType DEF Goto, ProcsOK, ProcTypes, States, Creating
    <3>6. KnowsItsId(p)' /\ Fits(p)'
      BY <1>12, <2>1, <2>3, <3>1
      DEF PostVm, Goto, KnowsItsId, Fits, JobFits, Complete, ProcsOK, ProcTypes
    <3>7. \A x \in Procs \ {p} : pc'[x] = pc[x] /\ job'[x] = job[x] /\ id'[x] = id[x]
      BY <2>1, <2>3 DEF Goto, ProcsOK, ProcTypes
    <3>8. ProcsOK'
      BY <2>1, <3>5, <3>6, <3>7, OneMoves DEF ProcsOK
    <3> QED
      BY <1>12, <3>4, <3>8, SameQueue DEF PostVm, db
  <2> QED
    BY <1>12, <2>2, <2>3 DEF PostVm
<1>13. ASSUME NEW p \in Workers, Provisioned(p) PROVE Parts'
  <2>1. job[p].kind \in Kinds /\ Kinds \subseteq {"create", "template"}
    BY <1>13, KindsAssumption DEF Provisioned, ProcsOK, Fits, JobFits, Procs
  <2>2. CASE job[p].kind = "template"
    BY <1>13, <2>2, WorkerGoesOn, SameQueue
    DEF Provisioned, Creating, States, proxmox, db, ProxmoxType
  <2>3. CASE job[p].kind # "template"
    BY <1>13, <2>1, <2>3, WorkerGoesOn, SameQueue
    DEF Provisioned, Creating, States, proxmox, db, ProxmoxType
  <2> QED
    BY <2>2, <2>3
<1>14. ASSUME NEW p \in Workers, NotProvisioned(p) PROVE Parts'
  <2>1. faults' \in 0 .. MaxFaults
    BY <1>14, BoundsAssumption DEF NotProvisioned, Fault
  <2>2. ProcsOK'
    BY <1>14, WorkerGoesOn DEF NotProvisioned, Deleting, States
  <2> QED
    BY <1>14, <2>1, <2>2, SameQueue DEF NotProvisioned, proxmox, db, ProxmoxType
<1>15. ASSUME NEW p \in Workers, Wire(p) PROVE Parts'
  <2>1. id[p] \in Ids /\ job[p].kind = "template"
    BY <1>15 DEF Wire, ProcsOK, KnowsItsId, Fits, JobFits, Procs
  <2>2. CASE End(p) /\ UNCHANGED at
    BY <1>15, <2>2, EndType, SameQueue DEF Wire, db, ProxmoxType, Procs
  <2>3. CASE /\ Exists(id[p]) /\ at' = [at EXCEPT ![id[p]].net0 = "own"]
             /\ Goto(p, "expire") /\ UNCHANGED locals
    <3>1. [at[id[p]] EXCEPT !.net0 = "own"] \in VMs
      BY <2>1, <2>3, AtType DEF VMs, Bridges
    <3>2. at' \in [Ids -> VMs \cup {None}]
      BY <2>1, <2>3, <3>1, AtType
    <3>3. ProcsOK'
      BY <1>15, <2>1, <2>3, WorkerGoesOn DEF Wire, States
    <3> QED
      BY <1>15, <3>2, <3>3, SameQueue DEF Wire, db, ProxmoxType
  <2>4. CASE UNCHANGED <<at, locals>> /\ Goto(p, "expire")
    <3>1. ProcsOK'
      BY <1>15, <2>1, <2>4, WorkerGoesOn DEF Wire, States
    <3> QED
      BY <1>15, <2>4, <3>1, SameQueue DEF Wire, db, ProxmoxType
  <2> QED
    BY <1>15, <2>2, <2>3, <2>4 DEF Wire, Free
<1>16. ASSUME NEW p \in Workers, ConfigureAndStart(p) PROVE Parts'
  <2>1. id[p] \in Ids
    BY <1>16 DEF ConfigureAndStart, ProcsOK, KnowsItsId, Procs
  <2>2. at' \in [Ids -> VMs \cup {None}]
    BY <1>16, <2>1, AtType DEF ConfigureAndStart, ProxmoxType, Tasks
  <2>3. ProcsOK'
    BY <1>16, EndType DEF ConfigureAndStart, Procs
  <2> QED
    BY <1>16, <2>2, <2>3, SameQueue DEF ConfigureAndStart, db, ProxmoxType
<1>17. ASSUME NEW p \in Workers, ReadStatus(p) PROVE Parts'
  <2>1. CASE End(p)
    BY <1>17, <2>1, EndType, SameQueue DEF ReadStatus, proxmox, db, ProxmoxType, Procs
  <2>2. CASE /\ Goto(p, IF at[id[p]].on THEN "stop" ELSE "destroy")
             /\ UNCHANGED locals
    <3>1. ProcsOK'
      BY <1>17, <2>2, WorkerGoesOn DEF ReadStatus, Deleting, States
    <3> QED
      BY <1>17, <3>1, SameQueue DEF ReadStatus, proxmox, db, ProxmoxType
  <2> QED
    BY <1>17, <2>1, <2>2 DEF ReadStatus
<1>18. ASSUME NEW p \in Workers, StopFirst(p) PROVE Parts'
  <2>1. id[p] \in Ids
    BY <1>18 DEF StopFirst, ProcsOK, KnowsItsId, Procs
  <2>2. at' \in [Ids -> VMs \cup {None}]
    BY <1>18, <2>1, AtType DEF StopFirst, ProxmoxType, Tasks
  <2>3. ProcsOK'
    BY <1>18, EndType, WorkerGoesOn DEF StopFirst, Deleting, States, Procs
  <2> QED
    BY <1>18, <2>2, <2>3, SameQueue DEF StopFirst, db, ProxmoxType
<1>19. ASSUME NEW p \in Workers, Destroy(p) PROVE Parts'
  <2>1. id[p] \in Ids
    BY <1>19 DEF Destroy, ProcsOK, KnowsItsId, Procs
  <2>2. at' \in [Ids -> VMs \cup {None}]
    BY <1>19, <2>1, AtType DEF Destroy, ProxmoxType, Tasks
  <2>3. ProcsOK'
    BY <1>19, EndType, WorkerGoesOn DEF Destroy, Deleting, States, Procs
  <2> QED
    BY <1>19, <2>2, <2>3, SameQueue DEF Destroy, db, ProxmoxType
<1>20. ASSUME NEW p \in Workers, DeleteRow(p) PROVE Parts'
  <2>1. row' \in [Ids -> Ages \cup {None}]
    BY <1>20 DEF DeleteRow
  <2>2. ProcsOK'
    BY <1>20, EndType, WorkerGoesOn DEF DeleteRow, States, Procs
  <2> QED
    BY <1>20, <2>1, <2>2, SameQueue DEF DeleteRow, proxmox, ProxmoxType
<1>21. ASSUME NEW p \in Workers, NEW pool \in Pools, NextPool(p, pool) PROVE Parts'
  <2>1. p \in Procs /\ p \notin Web
    BY ProcsAssumption DEF Procs
  <2>2. ProcTypes'
    BY <1>21, <2>1 DEF NextPool, Goto, ProcsOK, ProcTypes, States
  <2>3. KnowsItsId(p)' /\ Fits(p)'
    BY <1>21, <2>1
    DEF NextPool, Goto, KnowsItsId, Fits, JobFits, Complete, ProcsOK, ProcTypes
  <2>4. \A x \in Procs \ {p} : pc'[x] = pc[x] /\ job'[x] = job[x] /\ id'[x] = id[x]
    BY <1>21, <2>1 DEF NextPool, Goto, ProcsOK, ProcTypes
  <2>5. ProcsOK'
    BY <2>1, <2>2, <2>3, <2>4, OneMoves DEF ProcsOK
  <2> QED
    BY <1>21, <2>5, SameQueue DEF NextPool, proxmox, db, ProxmoxType
<1>22. ASSUME NEW p \in Workers, NEW i \in Ids, NextVm(p, i) PROVE Parts'
  <2>1. p \in Procs /\ p \notin Web
    BY ProcsAssumption DEF Procs
  <2>2. ProcTypes'
    BY <1>22, <2>1 DEF NextVm, Goto, ProcsOK, ProcTypes, States
  <2>3. KnowsItsId(p)' /\ Fits(p)'
    BY <1>22, <2>1
    DEF NextVm, Goto, KnowsItsId, Fits, JobFits, Complete, ProcsOK, ProcTypes
  <2>4. \A x \in Procs \ {p} : pc'[x] = pc[x] /\ job'[x] = job[x] /\ id'[x] = id[x]
    BY <1>22, <2>1 DEF NextVm, Goto, ProcsOK, ProcTypes
  <2>5. ProcsOK'
    BY <2>1, <2>2, <2>3, <2>4, OneMoves DEF ProcsOK
  <2> QED
    BY <1>22, <2>5, SameQueue DEF NextVm, proxmox, db, ProxmoxType
<1>23. ASSUME NEW p \in Workers, StopExpired(p) PROVE Parts'
  <2>1. id[p] \in Ids /\ job[p].kind = "nightly"
    BY <1>23 DEF StopExpired, ProcsOK, KnowsItsId, Fits, JobFits, Procs
  <2>2. at' \in [Ids -> VMs \cup {None}]
    BY <1>23, <2>1, AtType DEF StopExpired, ProxmoxType, Tasks
  <2>3. ProcsOK'
    BY <1>23, <2>1, EndType, WorkerGoesOn DEF StopExpired, States, Procs
  <2> QED
    BY <1>23, <2>2, <2>3, SameQueue DEF StopExpired, db, ProxmoxType
<1>24. ASSUME NEW p \in Workers, PoolDone(p) PROVE Parts'
  <2>1. p \in Procs /\ p \notin Web
    BY ProcsAssumption DEF Procs
  <2>2. ProcTypes'
    BY <1>24, <2>1 DEF PoolDone, Goto, ProcsOK, ProcTypes, States
  <2>3. KnowsItsId(p)' /\ Fits(p)'
    BY <1>24, <2>1
    DEF PoolDone, Goto, KnowsItsId, Fits, JobFits, Complete, ProcsOK, ProcTypes
  <2>4. \A x \in Procs \ {p} : pc'[x] = pc[x] /\ job'[x] = job[x] /\ id'[x] = id[x]
    BY <1>24, <2>1 DEF PoolDone, Goto, ProcsOK, ProcTypes
  <2>5. ProcsOK'
    BY <2>1, <2>2, <2>3, <2>4, OneMoves DEF ProcsOK
  <2> QED
    BY <1>24, <2>5, SameQueue DEF PoolDone, proxmox, db, ProxmoxType
<1>25. ASSUME NEW p \in Workers, NightDone(p) PROVE Parts'
  BY <1>25, EndType, SameQueue DEF NightDone, proxmox, db, ProxmoxType, Procs
<1>26. ASSUME NEW i \in Ids, TaskEnds(i) PROVE Parts'
  <2>1. at[i] \in VMs /\ at[i].task \in Tasks \ {"none"}
    BY <1>26, AtType DEF TaskEnds, VMs
  <2>2. /\ [at[i] EXCEPT !.task = "none"] \in VMs
        /\ [at[i] EXCEPT !.task = "none", !.on = TRUE] \in VMs
        /\ [at[i] EXCEPT !.task = "none", !.on = FALSE] \in VMs
    BY <2>1 DEF VMs, Tasks
  <2>3. \E vm \in VMs \cup {None} : at' = [at EXCEPT ![i] = vm]
    <3>1. CASE at[i].task = "create"
      BY <1>26, <2>2, <3>1 DEF TaskEnds
    <3>2. CASE at[i].task = "start"
      BY <1>26, <2>2, <3>2 DEF TaskEnds
    <3>3. CASE at[i].task = "stop"
      BY <1>26, <2>2, <3>3 DEF TaskEnds
    <3>4. CASE at[i].task = "destroy"
      BY <1>26, <3>4 DEF TaskEnds
    <3> QED
      BY <2>1, <3>1, <3>2, <3>3, <3>4 DEF Tasks
  <2>4. at' \in [Ids -> VMs \cup {None}]
    BY <2>3, AtType
  <2> QED
    BY <1>26, <2>4, NobodyMoves, SameQueue
    DEF TaskEnds, db, locals, ProxmoxType, ProcsOK, ProcTypes
<1>27. ASSUME NEW i \in Ids, TaskFails(i) PROVE Parts'
  <2>1. at[i] \in VMs
    BY <1>27, AtType DEF TaskFails
  <2>2. [at[i] EXCEPT !.task = "none"] \in VMs
    BY <2>1 DEF VMs, Tasks
  <2>3. at' = [at EXCEPT ![i] = IF at[i].task = "create" THEN None
                                ELSE [at[i] EXCEPT !.task = "none"]]
    BY <1>27 DEF TaskFails
  <2>4. at' \in [Ids -> VMs \cup {None}]
    BY <2>2, <2>3, AtType
  <2>5. faults' \in 0 .. MaxFaults
    BY <1>27, BoundsAssumption DEF TaskFails, Fault
  <2> QED
    BY <1>27, <2>4, <2>5, NobodyMoves, SameQueue
    DEF TaskFails, db, locals, ProxmoxType, ProcsOK, ProcTypes
<1>28. ASSUME NEW i \in Ids, ShutDown(i) PROVE Parts'
  <2>1. [at[i] EXCEPT !.on = FALSE] \in VMs
    BY <1>28, AtType DEF ShutDown, Free, VMs
  <2>2. at' \in [Ids -> VMs \cup {None}]
    BY <1>28, <2>1, AtType DEF ShutDown
  <2> QED
    BY <1>28, <2>2, NobodyMoves, SameQueue
    DEF ShutDown, db, locals, ProxmoxType, ProcsOK, ProcTypes
<1>29. ASSUME NEW i \in Ids, RemoveByHand(i) PROVE Parts'
  <2>1. at' \in [Ids -> VMs \cup {None}]
    BY <1>29, AtType DEF RemoveByHand
  <2> QED
    BY <1>29, <2>1, NobodyMoves, SameQueue
    DEF RemoveByHand, db, locals, ProxmoxType, ProcsOK, ProcTypes
<1>30. ASSUME NEW i \in Ids, NEW pool \in Pools, MakeByHand(i, pool) PROVE Parts'
  <2>1. made + 1 \in Serials /\ made' \in 0 .. MaxVMs /\ byHand' \in 0 .. MaxByHand
    BY <1>30, BoundsAssumption DEF MakeByHand, ProxmoxType, Serials
  <2>2. [vm |-> made + 1, pool |-> pool, byHand |-> TRUE, age |-> 0,
         on |-> FALSE, net0 |-> "none", task |-> "none"] \in VMs
    BY <2>1, AgesType DEF VMs, Tasks, Bridges
  <2>3. at' \in [Ids -> VMs \cup {None}]
    BY <1>30, <2>2, AtType DEF MakeByHand
  <2> QED
    BY <1>30, <2>1, <2>3, NobodyMoves, SameQueue
    DEF MakeByHand, db, locals, ProxmoxType, ProcsOK, ProcTypes
<1>31. CASE NextDay
  <2>1. row' \in [Ids -> Ages \cup {None}]
    BY <1>31, AgesType DEF NextDay
  <2>2. \A i \in Ids : at[i] # None => [at[i] EXCEPT !.age = Older(@)] \in VMs
    <3> SUFFICES ASSUME NEW i \in Ids, at[i] # None
                 PROVE  [at[i] EXCEPT !.age = Older(at[i].age)] \in VMs
      OBVIOUS
    <3>1. at[i] \in VMs /\ Older(at[i].age) \in Ages
      BY AgesType, AtType DEF Exists, VMs
    <3> QED
      BY <3>1 DEF VMs
  <2>3. at' \in [Ids -> VMs \cup {None}]
    BY <1>31, <2>2 DEF NextDay
  <2>4. since' \in [Procs -> Ages]
    BY <1>31, AgesType DEF NextDay, ProcsOK, ProcTypes
  <2> QED
    BY <1>31, <2>1, <2>3, <2>4, NobodyMoves, SameQueue DEF NextDay, ProxmoxType
<1>32. CASE UNCHANGED vars
  BY <1>32, NobodyMoves, SameQueue DEF vars, locals, ProxmoxType, ProcsOK, ProcTypes
<1> QED
  BY <1>1, <1>2, <1>3, <1>4, <1>5, <1>6, <1>7, <1>8, <1>9, <1>10, <1>11, <1>12, <1>13,
     <1>14, <1>15, <1>16, <1>17, <1>18, <1>19, <1>20, <1>21, <1>22, <1>23, <1>24, <1>25,
     <1>26, <1>27, <1>28, <1>29, <1>30, <1>31, <1>32 DEF Next, JobStep, ExpireStep

\* Every variable keeps to its values, and every process that is past the
\* states in which it looks for a VM has the id of one (TypeOK).
THEOREM VmTypeCorrect == Spec => []TypeOK
BY InitType, NextType, PTL DEF Spec

LEMMA JobsAlwaysFit == Spec => [](TypeOK /\ JobsFit)
BY InitType, NextType, PTL DEF Spec

-----------------------------------------------------------------------------
(* What a step may do                                                      *)

\* The VM under an id goes, or stays what it was but for having its net0 moved.
Keeps(i) ==
  \/ at'[i] = None
  \/ /\ Exists(i)
     /\ at'[i].byHand = at[i].byHand /\ at'[i].age = at[i].age
     /\ at'[i].net0 = at[i].net0 \/ at'[i].net0 = "own"

\* A task that is posted, or a flag that is set, leaves the VM what it was.
LEMMA ChangeKeeps ==
  ASSUME ProxmoxType, NEW i \in Ids, Exists(i),
         \/ \E task \in Tasks : Post(i, task)
         \/ at' = [at EXCEPT ![i].net0 = "own"]
         \/ at' = [at EXCEPT ![i].on = FALSE]
  PROVE  \A k \in Ids : Keeps(k)
<1>1. at[i] \in VMs
  BY AtType
<1>2. \/ \E task \in Tasks : at'[i] = [at[i] EXCEPT !.task = task]
      \/ at'[i] = [at[i] EXCEPT !.net0 = "own"]
      \/ at'[i] = [at[i] EXCEPT !.on = FALSE]
  BY DEF Post, ProxmoxType
<1>3. /\ at'[i].byHand = at[i].byHand /\ at'[i].age = at[i].age
      /\ at'[i].net0 = at[i].net0 \/ at'[i].net0 = "own"
  BY <1>1, <1>2 DEF VMs
<1>4. \A k \in Ids \ {i} : at'[k] = at[k]
  BY DEF Post, ProxmoxType
<1> QED
  BY <1>3, <1>4 DEF Keeps, Exists

LEMMA SameKeeps ==
  ASSUME UNCHANGED at
  PROVE  \A i \in Ids : Keeps(i)
BY DEF Keeps, Exists

\* The VM that a step of job p puts under i is the one the job makes.
Makes(p, i) ==
  /\ pc[p] = "post" /\ id[p] = i /\ pc'[p] = "wait" /\ id'[p] = i
  /\ job'[p] = job[p] /\ job[p].kind \in Kinds /\ row' = row
  /\ at'[i].age = since[p] /\ (job[p].kind = "create" => at'[i].net0 = "own")

\* But for a day that passes, a step leaves each VM what it was, or puts the
\* one a job makes, or one an administrator makes, under a free id.
LEMMA VmStep ==
  ASSUME TypeOK, JobsFit, [Next]_vars, NEW i \in Ids
  PROVE  \/ Keeps(i) \/ NextDay
         \/ \E p \in Workers : Makes(p, i)
         \/ Exists(i)' /\ at'[i].byHand = TRUE
<1> Parts
  BY TypeParts
<1> USE DEF Parts
<1>1. ASSUME NEW p \in Web, PowerOn(p) PROVE Keeps(i)
  <2>1. id[p] \in Ids
    BY <1>1 DEF PowerOn, ProcsOK, KnowsItsId, Procs
  <2> QED
    BY <1>1, <2>1, ChangeKeeps, SameKeeps DEF PowerOn, Free, Tasks
<1>2. ASSUME NEW p \in Workers, PostVm(p)
      PROVE  Keeps(i) \/ Makes(p, i)
  <2>1. id[p] \in Ids /\ job[p].kind \in Kinds /\ p \in Procs
    BY <1>2 DEF PostVm, ProcsOK, KnowsItsId, Fits, JobFits, Procs
  <2>2. CASE UNCHANGED at
    BY <2>2, SameKeeps
  <2>3. CASE /\ \E net0 \in FirstBridges(p) : at' = [at EXCEPT ![id[p]] = NewVm(p, net0)]
             /\ Goto(p, "wait") /\ UNCHANGED <<job, id>>
    <3>1. CASE i = id[p]
      BY <1>2, <2>1, <2>3, <3>1
      DEF PostVm, Makes, NewVm, FirstBridges, Goto, db, ProcsOK, ProcTypes, ProxmoxType
    <3>2. CASE i # id[p]
      BY <2>1, <2>3, <3>2 DEF Keeps, Exists, ProxmoxType
    <3> QED
      BY <3>1, <3>2
  <2> QED
    BY <1>2, <2>2, <2>3 DEF PostVm
<1>3. ASSUME NEW p \in Workers,
             Wire(p) \/ ConfigureAndStart(p) \/ StopFirst(p) \/ Destroy(p) \/ StopExpired(p)
      PROVE  Keeps(i)
  <2>1. id[p] \in Ids
    BY <1>3 DEF Wire, ConfigureAndStart, StopFirst, Destroy, StopExpired, ProcsOK, KnowsItsId, Procs
  <2>2. \/ UNCHANGED at
        \/ Exists(id[p]) /\ \/ \E task \in Tasks : Post(id[p], task)
                            \/ at' = [at EXCEPT ![id[p]].net0 = "own"]
    BY <1>3 DEF Wire, ConfigureAndStart, StopFirst, Destroy, StopExpired, Free, Tasks
  <2> QED
    BY <2>1, <2>2, ChangeKeeps, SameKeeps
<1>4. ASSUME NEW k \in Ids, TaskEnds(k) PROVE Keeps(i)
  <2>1. at[k] \in VMs /\ at[k].task \in Tasks \ {"none"}
    BY <1>4, AtType DEF TaskEnds, VMs
  <2>2. \/ at'[k] = None
        \/ at'[k] = [at[k] EXCEPT !.task = "none"]
        \/ at'[k] = [at[k] EXCEPT !.task = "none", !.on = TRUE]
        \/ at'[k] = [at[k] EXCEPT !.task = "none", !.on = FALSE]
    <3>1. CASE at[k].task = "create"
      BY <1>4, <3>1 DEF TaskEnds, ProxmoxType
    <3>2. CASE at[k].task = "start"
      BY <1>4, <3>2 DEF TaskEnds, ProxmoxType
    <3>3. CASE at[k].task = "stop"
      BY <1>4, <3>3 DEF TaskEnds, ProxmoxType
    <3>4. CASE at[k].task = "destroy"
      BY <1>4, <3>4 DEF TaskEnds, ProxmoxType
    <3> QED
      BY <2>1, <3>1, <3>2, <3>3, <3>4 DEF Tasks
  <2>3. i # k => at'[i] = at[i]
    BY <1>4 DEF TaskEnds, ProxmoxType
  <2>4. at'[k] # None => at'[k].byHand = at[k].byHand /\ at'[k].age = at[k].age
                         /\ at'[k].net0 = at[k].net0
    BY <2>1, <2>2 DEF VMs
  <2> QED
    BY <1>4, <2>3, <2>4 DEF TaskEnds, Keeps, Exists
<1>5. ASSUME NEW k \in Ids, TaskFails(k) PROVE Keeps(i)
  <2>1. at[k] \in VMs
    BY <1>5, AtType DEF TaskFails
  <2>2. at'[k] = None \/ at'[k] = [at[k] EXCEPT !.task = "none"]
    BY <1>5 DEF TaskFails, ProxmoxType
  <2>3. i # k => at'[i] = at[i]
    BY <1>5 DEF TaskFails, ProxmoxType
  <2> QED
    BY <1>5, <2>1, <2>2, <2>3 DEF TaskFails, Keeps, Exists, VMs
<1>6. ASSUME NEW k \in Ids, ShutDown(k) PROVE Keeps(i)
  BY <1>6, ChangeKeeps DEF ShutDown, Free
<1>7. ASSUME NEW k \in Ids, RemoveByHand(k) PROVE Keeps(i)
  BY <1>7 DEF RemoveByHand, Keeps, Exists, ProxmoxType
<1>8. ASSUME NEW k \in Ids, NEW pool \in Pools, MakeByHand(k, pool)
      PROVE  Keeps(i) \/ (Exists(i)' /\ at'[i].byHand = TRUE)
  BY <1>8 DEF MakeByHand, Keeps, Exists, ProxmoxType
<1>9. ASSUME NEW p \in Workers, JobStep(p), ~ PostVm(p)
      PROVE  \/ UNCHANGED at
             \/ Wire(p) \/ ConfigureAndStart(p) \/ StopFirst(p) \/ Destroy(p) \/ StopExpired(p)
  BY <1>9 DEF JobStep, Begin, DrawId, DropRow, Provisioned, NotProvisioned, ReadStatus,
     DeleteRow, NextPool, NextVm, PoolDone, NightDone, proxmox
<1>10. ASSUME NEW p \in Procs, ReadExpire(p) \/ InsertExpire(p) \/ Fail(p)
       PROVE  UNCHANGED at
  BY <1>10 DEF ReadExpire, InsertExpire, Fail, proxmox
<1>11. ASSUME \/ \E kind \in Kinds, pool \in Pools : RequestVm(kind, pool)
              \/ \E k \in Ids : RequestDelete(k) \/ \E p \in Web : RequestStart(p, k)
              \/ ScheduleNightly \/ UNCHANGED vars
       PROVE  UNCHANGED at
  BY <1>11 DEF RequestVm, RequestDelete, RequestStart, ScheduleNightly, vars, proxmox
<1> QED
  BY <1>1, <1>2, <1>3, <1>4, <1>5, <1>6, <1>7, <1>8, <1>9, <1>10, <1>11, SameKeeps
  DEF Next, ExpireStep

\* Rows are removed or begin with age 0; only days make them older.
LEMMA RowStep ==
  ASSUME TypeOK, JobsFit, [Next]_vars, NEW i \in Ids
  PROVE  NextDay \/ row'[i] \in {row[i], None, 0}
<1> Parts
  BY TypeParts
<1> USE DEF Parts
<1>1. ASSUME NEW p \in Procs, InsertExpire(p) PROVE row'[i] \in {row[i], None, 0}
  BY <1>1 DEF InsertExpire
<1>2. ASSUME NEW p \in Workers, DropRow(p) \/ DeleteRow(p)
      PROVE  row'[i] \in {row[i], None, 0}
  BY <1>2 DEF DropRow, DeleteRow
<1>3. ASSUME NEW p \in Workers, JobStep(p)
      PROVE  UNCHANGED row \/ DropRow(p) \/ DeleteRow(p)
  BY <1>3 DEF JobStep, Begin, DrawId, PostVm, Provisioned, NotProvisioned, Wire,
     ConfigureAndStart, ReadStatus, StopFirst, Destroy, NextPool, NextVm, StopExpired,
     PoolDone, NightDone, db
<1>4. ASSUME NEW p \in Procs, ReadExpire(p) \/ Fail(p) PROVE UNCHANGED row
  BY <1>4 DEF ReadExpire, Fail, db
<1>5. ASSUME \/ \E kind \in Kinds, pool \in Pools : RequestVm(kind, pool)
             \/ \E p \in Web : PowerOn(p) \/ \E k \in Ids : RequestStart(p, k)
             \/ ScheduleNightly \/ UNCHANGED vars
      PROVE  UNCHANGED row
  BY <1>5 DEF RequestVm, PowerOn, RequestStart, ScheduleNightly, vars, db
<1>6. ASSUME NEW k \in Ids,
             \/ RequestDelete(k) \/ TaskEnds(k) \/ TaskFails(k) \/ ShutDown(k)
             \/ RemoveByHand(k) \/ \E pool \in Pools : MakeByHand(k, pool)
      PROVE  UNCHANGED row
  BY <1>6 DEF RequestDelete, TaskEnds, TaskFails, ShutDown, RemoveByHand, MakeByHand, db
<1> QED
  BY <1>1, <1>2, <1>3, <1>4, <1>5, <1>6 DEF Next, ExpireStep

\* A step of one process leaves the others where they are.
Stays(p) == pc'[p] = pc[p] /\ job'[p] = job[p] /\ id'[p] = id[p]

LEMMA OtherStays ==
  ASSUME ProcsOK, row \in [Ids -> Ages \cup {None}], NEW p \in Procs, NEW q \in Procs, p # q,
         \/ JobStep(q) \/ ExpireStep(q) \/ Fail(q) \/ PowerOn(q)
         \/ \E i \in Ids : RequestStart(q, i)
  PROVE  Stays(p) /\ since'[p] = since[p]
<1> USE DEF ProcsOK, ProcTypes, Stays
<1>1. CASE End(q)
  BY <1>1 DEF End, Goto
<1>2. CASE (\E s \in States : Goto(q, s)) /\ UNCHANGED locals
  BY <1>2 DEF Goto, locals
<1>3. CASE Begin(q) \/ DrawId(q) \/ PostVm(q)
  BY <1>1, <1>3 DEF Begin, DrawId, PostVm, Goto
<1>4. CASE PoolDone(q) \/ (\E pool \in Pools : NextPool(q, pool))
  BY <1>4 DEF PoolDone, NextPool, Goto
<1>5. CASE \E i \in Ids : NextVm(q, i) \/ RequestStart(q, i)
  BY <1>5 DEF NextVm, RequestStart, Goto
<1>6. CASE ExpireStep(q)
  <2>1. \/ \E age \in Ages : Continue(q, age) /\ pc[q] \in {"expire", "insert"}
        \/ Goto(q, "insert") /\ UNCHANGED locals
        \/ End(q)
    BY <1>6, AgesType DEF ExpireStep, ReadExpire, InsertExpire, KnowsItsId
  <2>2. "insert" \in States /\ "config" \in States /\ "power" \in States
        /\ "status" \in States /\ "halt" \in States /\ "next" \in States
    BY DEF States, Creating, Deleting
  <2>3. CASE \E age \in Ages : Continue(q, age) /\ pc[q] \in {"expire", "insert"}
    <3>1. End(q) \/ ((\E s \in States : Goto(q, s)) /\ UNCHANGED locals)
      BY <2>2, <2>3, ContinueCases
    <3> QED
      BY <1>1, <1>2, <3>1
  <2> QED
    BY <1>1, <1>2, <2>1, <2>2, <2>3
<1>7. CASE DropRow(q) \/ Provisioned(q) \/ NotProvisioned(q)
  BY <1>2, <1>7 DEF DropRow, Provisioned, NotProvisioned, States, Creating, Deleting
<1>8. CASE Wire(q) \/ ConfigureAndStart(q) \/ DeleteRow(q) \/ StopExpired(q)
  BY <1>1, <1>2, <1>8 DEF Wire, ConfigureAndStart, DeleteRow, StopExpired, States
<1>9. CASE ReadStatus(q) \/ StopFirst(q) \/ Destroy(q)
  BY <1>1, <1>2, <1>9 DEF ReadStatus, StopFirst, Destroy, States, Deleting
<1> QED
  BY <1>1, <1>3, <1>4, <1>5, <1>6, <1>7, <1>8, <1>9
  DEF JobStep, NightDone, Fail, PowerOn

\* A worker takes a step of its own, or stays where it is.
LEMMA WorkerStep ==
  ASSUME TypeOK, JobsFit, [Next]_vars, NEW p \in Workers
  PROVE  \/ JobStep(p) \/ ExpireStep(p) \/ Fail(p)
         \/ Stays(p) /\ (NextDay \/ since'[p] = since[p])
<1> Parts
  BY TypeParts
<1>1. p \in Procs /\ p \notin Web
  BY ProcsAssumption DEF Procs
<1>2. ASSUME NEW q \in Procs, p # q,
             \/ JobStep(q) \/ ExpireStep(q) \/ Fail(q) \/ PowerOn(q)
             \/ \E i \in Ids : RequestStart(q, i)
      PROVE  Stays(p) /\ since'[p] = since[p]
  BY <1>1, <1>2, OtherStays DEF Parts
<1>3. ASSUME \/ \E kind \in Kinds, pool \in Pools : RequestVm(kind, pool)
             \/ \E i \in Ids : \/ RequestDelete(i) \/ TaskEnds(i) \/ TaskFails(i)
                               \/ ShutDown(i) \/ RemoveByHand(i)
                               \/ \E pool \in Pools : MakeByHand(i, pool)
             \/ ScheduleNightly \/ UNCHANGED vars
      PROVE  Stays(p) /\ since'[p] = since[p]
  <2>1. UNCHANGED <<pc, locals>>
    BY <1>3 DEF RequestVm, RequestDelete, TaskEnds, TaskFails, ShutDown, RemoveByHand,
       MakeByHand, ScheduleNightly, vars
  <2> QED
    BY <2>1 DEF Stays, locals
<1>4. ASSUME NextDay PROVE Stays(p)
  BY <1>4 DEF NextDay, Stays
<1>5. \A q \in Workers : q \in Procs
  BY DEF Procs
<1>6. \A q \in Web : q \in Procs
  BY DEF Procs
<1> QED
  BY <1>1, <1>2, <1>3, <1>4, <1>5, <1>6 DEF Next

-----------------------------------------------------------------------------
(* Expiry dates                                                            *)

\* Whoever is about to post has just removed the row of the id, or was.
LEMMA PostStep ==
  ASSUME TypeOK, JobsFit, [Next]_vars, NEW p \in Workers, pc'[p] = "post"
  PROVE  \/ DropRow(p) /\ id'[p] = id[p]
         \/ Stays(p) /\ pc[p] = "post" /\ (NextDay \/ since'[p] = since[p])
<1> Parts
  BY TypeParts
<1>1. p \in Procs
  BY DEF Procs
<1>2. CASE Stays(p) /\ (NextDay \/ since'[p] = since[p])
  BY <1>2 DEF Stays
<1>3. CASE ExpireStep(p)
  <2>1. CASE ReadExpire(p) \/ InsertExpire(p)
    <3>1. \/ \E age \in Ages : Continue(p, age) /\ pc[p] \in {"expire", "insert"}
          \/ Goto(p, "insert")
          \/ End(p)
      BY <1>1, <2>1, AgesType DEF ReadExpire, InsertExpire, Parts, ProcsOK, KnowsItsId
    <3>2. pc'[p] # "post"
      BY <1>1, <3>1, ContinueCases DEF Parts, ProcsOK, ProcTypes, End, Goto
    <3> QED
      BY <3>2
  <2> QED
    BY <1>3, <2>1 DEF ExpireStep
<1>4. CASE JobStep(p) /\ ~ DropRow(p)
  <2>1. pc'[p] # "post"
    BY <1>1, <1>4 DEF JobStep, Begin, DrawId, PostVm, Provisioned, NotProvisioned, Wire,
       ConfigureAndStart, ReadStatus, StopFirst, Destroy, DeleteRow, NextPool, NextVm,
       StopExpired, PoolDone, NightDone, End, Goto, Parts, ProcsOK, ProcTypes
  <2> QED
    BY <2>1
<1>5. CASE Fail(p)
  BY <1>1, <1>5 DEF Fail, End, Goto, Parts, ProcsOK, ProcTypes
<1>6. CASE DropRow(p)
  BY <1>1, <1>6 DEF DropRow, locals
<1> QED
  BY <1>2, <1>3, <1>4, <1>5, <1>6, WorkerStep

\* No row under the id of a VM is older than the VM, whoever wrote it.
LEMMA NextYoung ==
  ASSUME TypeOK, JobsFit, TypeOK', RowsAreYoung, [Next]_vars
  PROVE  RowsAreYoung'
<1> Parts /\ Parts'
  <2>1. Parts
    BY TypeParts
  <2>2. row' \in [Ids -> Ages \cup {None}] /\ at' \in [Ids -> VMs \cup {None}]
    BY DEF TypeOK
  <2> QED
    BY <2>1, NextType, TypeParts, PTL
<1>1. ASSUME NEW i \in Ids, MadeHere(i)', row'[i] # None PROVE row'[i] <= at'[i].age
  <2>1. at'[i] \in VMs /\ at'[i].age \in Ages
    BY <1>1 DEF MadeHere, Exists, Parts, ProxmoxType, VMs
  <2>2. CASE NextDay
    <3>1. /\ at[i] # None /\ at'[i] = [at[i] EXCEPT !.age = Older(at[i].age)]
          /\ row[i] # None /\ row'[i] = Older(row[i])
      BY <1>1, <2>2 DEF NextDay, MadeHere, Exists
    <3>2. at[i] \in VMs /\ at[i].age \in Ages /\ row[i] \in Ages
      BY <3>1 DEF Parts, ProxmoxType, VMs
    <3>3. at'[i].age = Older(at[i].age) /\ at'[i].byHand = at[i].byHand
      BY <3>1, <3>2 DEF VMs
    <3>4. row[i] <= at[i].age
      BY <1>1, <3>1, <3>3 DEF RowsAreYoung, ExpiryIsItsOwn, MadeHere, Exists
    <3> QED
      BY <3>1, <3>2, <3>3, <3>4, AgesType
  <2>3. CASE Keeps(i) /\ row'[i] \in {row[i], None, 0}
    <3>1. MadeHere(i) /\ at'[i].age = at[i].age
      BY <1>1, <2>3 DEF Keeps, MadeHere, Exists
    <3>2. CASE row'[i] = 0
      BY <2>1, <3>2, AgesType
    <3>3. CASE row'[i] = row[i]
      BY <1>1, <3>1, <3>3 DEF RowsAreYoung, ExpiryIsItsOwn
    <3> QED
      BY <1>1, <2>3, <3>2, <3>3
  <2>4. ASSUME NEW p \in Workers, Makes(p, i) PROVE row'[i] <= at'[i].age
    BY <1>1, <2>4 DEF Makes, RowsAreYoung
  <2>5. ~ (Exists(i)' /\ at'[i].byHand = TRUE)
    BY <1>1 DEF MadeHere
  <2> QED
    BY <2>2, <2>3, <2>4, <2>5, VmStep, RowStep
<1>2. ASSUME NEW p \in Workers, pc'[p] = "post", row'[id'[p]] # None
      PROVE  row'[id'[p]] <= since'[p]
  <2>1. p \in Procs /\ id'[p] \in Ids /\ since'[p] \in Ages
    BY <1>2 DEF Procs, Parts, ProcsOK, ProcTypes, KnowsItsId
  <2>2. CASE DropRow(p) /\ id'[p] = id[p]
    BY <1>2, <2>1, <2>2 DEF DropRow, Parts
  <2>3. CASE Stays(p) /\ pc[p] = "post" /\ NextDay
    <3>1. /\ row[id[p]] # None /\ row'[id'[p]] = Older(row[id[p]])
          /\ since'[p] = Older(since[p])
      BY <1>2, <2>1, <2>3 DEF Stays, NextDay
    <3>2. row[id[p]] \in Ages /\ since[p] \in Ages
      BY <2>1, <2>3, <3>1 DEF Stays, Parts, ProcsOK, ProcTypes
    <3> QED
      BY <2>3, <3>1, <3>2, AgesType DEF RowsAreYoung
  <2>4. CASE Stays(p) /\ pc[p] = "post" /\ since'[p] = since[p] /\ ~ NextDay
    <3>1. row'[id[p]] \in {row[id[p]], 0}
      BY <1>2, <2>1, <2>4, RowStep DEF Stays
    <3> QED
      BY <1>2, <2>1, <2>4, <3>1, AgesType DEF Stays, RowsAreYoung
  <2> QED
    BY <1>2, <2>2, <2>3, <2>4, PostStep
<1> QED
  BY <1>1, <1>2 DEF RowsAreYoung, ExpiryIsItsOwn

\* No VM that Proxstar made goes by a date written before the job that made
\* it had removed the row of its id (ExpiryIsItsOwn), however jobs, requests,
\* the nightly job and administrators interleave and fail.
THEOREM ExpiryStaysItsOwn == Spec => []ExpiryIsItsOwn
<1>1. Init => RowsAreYoung
  BY DEF Init, RowsAreYoung, ExpiryIsItsOwn, MadeHere, Exists, Procs
<1>2. TypeOK /\ JobsFit /\ RowsAreYoung /\ [Next]_vars => RowsAreYoung'
  BY NextYoung, NextType
<1>3. RowsAreYoung => ExpiryIsItsOwn
  BY DEF RowsAreYoung
<1> QED
  BY <1>1, <1>2, <1>3, JobsAlwaysFit, PTL DEF Spec

-----------------------------------------------------------------------------
(* VMs on the bridge of their template                                     *)

\* A job that clones stays with its VM until its net0 is moved, it is gone or a step failed.
LEMMA ClonerStep ==
  ASSUME TypeOK, JobsFit, [Next]_vars, NEW p \in Workers, NEW i \in Ids, id[p] = i,
         pc[p] \in {"wait", "wire"}, job[p].kind = "template"
  PROVE  \/ pc'[p] \in {"wait", "wire"} /\ id'[p] = i /\ job'[p] = job[p]
         \/ faults' > 0 \/ at'[i] = None \/ at'[i].net0 # "template"
<1> Parts
  BY TypeParts
<1>1. p \in Procs
  BY DEF Procs
<1>2. CASE Stays(p)
  BY <1>2 DEF Stays
<1>3. CASE Fail(p)
  BY <1>3 DEF Fail, Fault, Parts
<1>4. CASE Provisioned(p)
  BY <1>1, <1>4 DEF Provisioned, Goto, locals, Parts, ProcsOK, ProcTypes
<1>5. CASE NotProvisioned(p)
  <2>1. at' = at
    BY <1>5 DEF NotProvisioned, proxmox
  <2>2. at[i] = None \/ faults' = faults + 1
    BY <1>5 DEF NotProvisioned, Fault, Exists
  <2> QED
    BY <2>1, <2>2 DEF Parts
<1>6. CASE Wire(p)
  <2>1. CASE Exists(i) /\ at' = [at EXCEPT ![i].net0 = "own"]
    <3>1. at[i] \in VMs /\ at'[i] = [at[i] EXCEPT !.net0 = "own"]
      BY <2>1, AtType DEF Parts, ProxmoxType
    <3> QED
      BY <3>1 DEF VMs
  <2>2. CASE (~ Exists(i) \/ at[i].net0 = "none") /\ UNCHANGED at
    BY <2>2 DEF Exists
  <2> QED
    BY <1>6, <2>1, <2>2 DEF Wire, Free
<1>7. CASE JobStep(p) \/ ExpireStep(p)
  BY <1>4, <1>5, <1>6, <1>7 DEF JobStep, ExpireStep, ReadExpire, InsertExpire, Begin,
     DrawId, DropRow, PostVm, ConfigureAndStart, ReadStatus, StopFirst, Destroy,
     DeleteRow, NextPool, NextVm, StopExpired, PoolDone, NightDone
<1> QED
  BY <1>2, <1>3, <1>7, WorkerStep

LEMMA FaultsGrow ==
  ASSUME TypeOK, [Next]_vars
  PROVE  faults' >= faults
<1>1. faults \in Nat
  BY DEF TypeOK
<1>2. ASSUME NEW p \in Workers, JobStep(p) PROVE faults' = faults \/ faults' = faults + 1
  BY <1>2 DEF JobStep, Begin, DrawId, DropRow, PostVm, Provisioned, NotProvisioned, Wire,
     ConfigureAndStart, ReadStatus, StopFirst, Destroy, DeleteRow, NextPool, NextVm,
     StopExpired, PoolDone, NightDone, Fault
<1>3. CASE \/ \E p \in Procs : ExpireStep(p) \/ Fail(p)
           \/ \E p \in Web : PowerOn(p) \/ \E i \in Ids : RequestStart(p, i)
  BY <1>1, <1>3 DEF ExpireStep, ReadExpire, InsertExpire, Fail, Fault, PowerOn, RequestStart
<1>4. CASE \/ \E kind \in Kinds, pool \in Pools : RequestVm(kind, pool)
           \/ \E i \in Ids : RequestDelete(i) \/ TaskEnds(i) \/ ShutDown(i) \/ RemoveByHand(i)
           \/ ScheduleNightly \/ NextDay \/ UNCHANGED vars
  <2>1. UNCHANGED faults
    BY <1>4 DEF RequestVm, RequestDelete, TaskEnds, ShutDown, RemoveByHand,
       ScheduleNightly, NextDay, vars
  <2> QED
    BY <1>1, <2>1
<1>5. CASE \E i \in Ids : TaskFails(i) \/ \E pool \in Pools : MakeByHand(i, pool)
  BY <1>1, <1>5 DEF TaskFails, Fault, MakeByHand
<1> QED
  BY <1>1, <1>2, <1>3, <1>4, <1>5 DEF Next

LEMMA NextAwaits ==
  ASSUME TypeOK, JobsFit, UnwiredIsAwaited, [Next]_vars
  PROVE  UnwiredIsAwaited'
<1> SUFFICES ASSUME NEW i \in Ids, MadeHere(i)', at'[i].net0 = "template", ~ (faults' > 0)
             PROVE  \E p \in Workers :
                      id'[p] = i /\ pc'[p] \in {"wait", "wire"} /\ job'[p].kind = "template"
  BY DEF UnwiredIsAwaited
<1> Parts
  BY TypeParts
<1>1. ~ (faults > 0)
  <2>1. faults' >= faults
    BY FaultsGrow
  <2>2. faults \in Nat /\ faults' \in Nat
    BY NextType DEF Parts, TypeOK
  <2> QED
    BY <2>1, <2>2
<1>2. CASE Keeps(i) \/ NextDay
  <2>1. MadeHere(i) /\ at[i].net0 = "template"
    <3>1. CASE Keeps(i)
      BY <3>1 DEF Keeps, MadeHere, Exists
    <3>2. CASE NextDay
      <4>1. at[i] # None /\ at'[i] = [at[i] EXCEPT !.age = Older(at[i].age)]
        BY <3>2 DEF NextDay, MadeHere, Exists
      <4>2. at[i] \in VMs
        BY <4>1 DEF Parts, ProxmoxType
      <4> QED
        BY <4>1, <4>2 DEF MadeHere, Exists, VMs
    <3> QED
      BY <1>2, <3>1, <3>2
  <2>2. PICK p \in Workers :
          id[p] = i /\ pc[p] \in {"wait", "wire"} /\ job[p].kind = "template"
    BY <1>1, <2>1 DEF UnwiredIsAwaited
  <2>3. pc'[p] \in {"wait", "wire"} /\ id'[p] = id[p] /\ job'[p] = job[p]
    BY <2>2, ClonerStep DEF MadeHere, Exists
  <2> QED
    BY <2>2, <2>3
<1>3. ASSUME NEW p \in Workers, Makes(p, i)
      PROVE  id'[p] = i /\ pc'[p] \in {"wait", "wire"} /\ job'[p].kind = "template"
  BY <1>3, KindsAssumption DEF Makes
<1>4. ~ (Exists(i)' /\ at'[i].byHand = TRUE)
  BY DEF MadeHere
<1> QED
  BY <1>2, <1>3, <1>4, VmStep

\* When nothing failed, a VM whose net0 is on the bridge of its template has a
\* job that is about to move it (OnlyFailuresLeaveUnwired), with any number of
\* workers and whoever deletes, starts or stops it in between.
THEOREM UnwiredOnlyAfterFailure == Spec => []OnlyFailuresLeaveUnwired
<1>1. Init => UnwiredIsAwaited
  BY DEF Init, UnwiredIsAwaited, MadeHere, Exists
<1>2. TypeOK /\ JobsFit /\ UnwiredIsAwaited /\ [Next]_vars => UnwiredIsAwaited'
  BY NextAwaits
<1>3. UnwiredIsAwaited => OnlyFailuresLeaveUnwired
  BY DEF UnwiredIsAwaited, OnlyFailuresLeaveUnwired
<1> QED
  BY <1>1, <1>2, <1>3, JobsAlwaysFit, PTL DEF Spec

-----------------------------------------------------------------------------
(* The nightly job                                                         *)

\* It stops or deletes a VM after it has read its row, or written a new one.
LEMMA NightlyStep ==
  ASSUME TypeOK, JobsFit, [Next]_vars, NEW p \in Workers,
         job'[p].kind = "nightly", pc'[p] \in Deleting \cup {"halt"}
  PROVE  \/ /\ job[p].kind = "nightly" /\ pc[p] \in Deleting \cup {"halt"}
            /\ id'[p] = id[p] /\ (pc'[p] = "halt" <=> pc[p] = "halt")
         \/ /\ UNCHANGED at /\ id'[p] = id[p] /\ id[p] \in Ids
            /\ \/ row[id[p]] # None /\ row[id[p]] >= Life
                    /\ (pc'[p] # "halt" => row[id[p]] >= Life + Week)
               \/ Life = 0 /\ pc'[p] = "halt"
<1> USE DEF Deleting
<1> Parts
  BY TypeParts
<1>1. p \in Procs
  BY DEF Procs
<1>2. CASE Stays(p)
  BY <1>2 DEF Stays
<1>3. ASSUME End(p) PROVE FALSE
  BY <1>1, <1>3 DEF End, Goto, Parts, ProcsOK, ProcTypes
<1>4. ASSUME NEW age \in Ages, Continue(p, age), pc[p] \in {"expire", "insert"}
      PROVE  /\ id'[p] = id[p] /\ id[p] \in Ids /\ age >= Life
             /\ pc'[p] # "halt" => age >= Life + Week
  <2>1. id[p] \in Ids
    BY <1>1, <1>4 DEF Parts, ProcsOK, KnowsItsId
  <2>2. \/ UNCHANGED locals /\ age >= Life + Week /\ pc'[p] = "status"
        \/ UNCHANGED locals /\ age >= Life /\ pc'[p] = "halt"
        \/ pc'[p] \in {"config", "power", "next"}
    BY <1>1, <1>3, <1>4, ContinueCases DEF Parts, ProcsOK, ProcTypes, Goto
  <2> QED
    BY <2>1, <2>2, <1>4, AgesType DEF locals
<1>5. CASE ReadExpire(p)
  <2>1. CASE row[id[p]] # None /\ Continue(p, row[id[p]])
    <3>1. row[id[p]] \in Ages
      BY <1>1, <1>5, <2>1 DEF ReadExpire, Parts, ProcsOK, KnowsItsId
    <3> QED
      BY <1>4, <1>5, <2>1, <3>1 DEF ReadExpire, proxmox
  <2>2. CASE Goto(p, "insert")
    BY <1>1, <2>2 DEF Goto, Parts, ProcsOK, ProcTypes
  <2> QED
    BY <1>5, <2>1, <2>2 DEF ReadExpire
<1>6. CASE InsertExpire(p)
  <2>1. CASE Continue(p, 0)
    <3>1. id'[p] = id[p] /\ id[p] \in Ids /\ 0 >= Life /\ (pc'[p] # "halt" => 0 >= Life + Week)
      BY <1>4, <1>6, <2>1, AgesType DEF InsertExpire
    <3> QED
      BY <1>6, <3>1, AgesType DEF InsertExpire, proxmox
  <2> QED
    BY <1>3, <1>6, <2>1 DEF InsertExpire
<1>7. CASE Begin(p)
  BY <1>1, <1>7, KindsAssumption DEF Begin, Goto, Parts, ProcsOK, ProcTypes
<1>8. CASE NotProvisioned(p)
  BY <1>1, <1>8, KindsAssumption DEF NotProvisioned, locals, Parts, ProcsOK, Fits, JobFits
<1>9. CASE ReadStatus(p) \/ StopFirst(p) \/ Destroy(p)
  BY <1>1, <1>3, <1>9 DEF ReadStatus, StopFirst, Destroy, Goto, locals, Parts, ProcsOK, ProcTypes
<1>10. CASE DrawId(p) \/ DropRow(p) \/ PostVm(p) \/ Provisioned(p) \/ Wire(p)
            \/ ConfigureAndStart(p) \/ DeleteRow(p)
  BY <1>1, <1>3, <1>10 DEF DrawId, DropRow, PostVm, Provisioned, Wire, ConfigureAndStart,
     DeleteRow, Goto, Parts, ProcsOK, ProcTypes
<1>11. CASE \/ \E pool \in Pools : NextPool(p, pool)
            \/ \E i \in Ids : NextVm(p, i)
            \/ StopExpired(p) \/ PoolDone(p) \/ NightDone(p)
  BY <1>1, <1>3, <1>11 DEF NextPool, NextVm, StopExpired, PoolDone, NightDone, Goto,
     Parts, ProcsOK, ProcTypes
<1>12. CASE Fail(p)
  BY <1>3, <1>12 DEF Fail
<1> QED
  BY <1>2, <1>5, <1>6, <1>7, <1>8, <1>9, <1>10, <1>11, <1>12, WorkerStep
  DEF JobStep, ExpireStep

\* A VM it is about to stop, or delete, was old enough when it looked, only
\* grows older, and is not replaced: the one worker makes no other meanwhile.
LEMMA NextKeepsTime ==
  ASSUME TypeOK, JobsFit, RowsAreYoung, NightlyKeepsItsTime, [Next]_vars,
         \A p, q \in Workers : p = q
  PROVE  NightlyKeepsItsTime'
<1> SUFFICES ASSUME NEW p \in Workers, job'[p].kind = "nightly",
                    pc'[p] \in Deleting \cup {"halt"},
                    at'[id'[p]] # None, ~ at'[id'[p]].byHand
             PROVE  at'[id'[p]].age >= IF pc'[p] = "halt" THEN Life ELSE Life + Week
  BY DEF NightlyKeepsItsTime, MadeHere, Exists, Deleting
<1> Parts
  BY TypeParts
<1>1. ASSUME NEW i \in Ids, id[p] = i, id'[p] = i, job[p].kind = "nightly",
             pc[p] \in Deleting \cup {"halt"}, pc'[p] = "halt" <=> pc[p] = "halt"
      PROVE  at'[i].age >= IF pc'[p] = "halt" THEN Life ELSE Life + Week
  <2>1. CASE Keeps(i) \/ NextDay
    <3>1. at[i] \in VMs /\ at[i] # None /\ ~ at[i].byHand
          /\ at'[i].age \in {at[i].age, Older(at[i].age)}
      <4>1. CASE Keeps(i)
        BY <1>1, <4>1 DEF Keeps, Exists, Parts, ProxmoxType
      <4>2. CASE NextDay
        <5>1. at[i] # None /\ at'[i] = [at[i] EXCEPT !.age = Older(at[i].age)]
          BY <1>1, <4>2 DEF NextDay
        <5>2. at[i] \in VMs
          BY <5>1 DEF Parts, ProxmoxType
        <5>3. at'[i].byHand = at[i].byHand /\ at'[i].age = Older(at[i].age)
          BY <5>1, <5>2 DEF VMs
        <5> QED
          BY <1>1, <5>1, <5>2, <5>3
      <4> QED
        BY <2>1, <4>1, <4>2
    <3>2. at[i].age \in Ages
      BY <3>1 DEF VMs
    <3>3. at[i].age >= IF pc[p] = "halt" THEN Life ELSE Life + Week
      BY <1>1, <3>1 DEF NightlyKeepsItsTime, MadeHere, Exists
    <3> QED
      BY <1>1, <3>1, <3>2, <3>3, AgesType
  <2>2. ASSUME NEW q \in Workers, Makes(q, i) PROVE FALSE
    <3>1. pc[p] = "post"
      BY <2>2 DEF Makes
    <3> QED
      BY <1>1, <3>1 DEF Deleting
  <2>3. ~ (Exists(i)' /\ at'[i].byHand = TRUE)
    BY <1>1
  <2> QED
    BY <2>1, <2>2, <2>3, VmStep
<1>2. ASSUME NEW i \in Ids, id[p] = i, id'[p] = i, UNCHANGED at,
             \/ row[i] # None /\ row[i] >= Life /\ (pc'[p] # "halt" => row[i] >= Life + Week)
             \/ Life = 0 /\ pc'[p] = "halt"
      PROVE  at'[i].age >= IF pc'[p] = "halt" THEN Life ELSE Life + Week
  <2>1. MadeHere(i) /\ at'[i] = at[i]
    BY <1>2 DEF MadeHere, Exists
  <2>2. at[i].age \in Ages
    BY <2>1, AtType DEF MadeHere, VMs, Parts
  <2>3. row[i] # None => row[i] <= at[i].age /\ row[i] \in Ages
    BY <2>1 DEF RowsAreYoung, ExpiryIsItsOwn, Parts
  <2> QED
    BY <1>2, <2>1, <2>2, <2>3, AgesType
<1>3. pc[p] \in Deleting \cup {"halt"} => id[p] \in Ids
  BY DEF Parts, ProcsOK, KnowsItsId, Procs, Deleting
<1> QED
  BY <1>1, <1>2, <1>3, NightlyStep

\* With one worker, as the image starts it, the nightly job stops no VM of
\* Proxstar's before its date and deletes none before a week after, although
\* it lists the pool first and looks at the rows one by one (NightlyKeepsItsTime).
THEOREM NightlyIsOnTime ==
  ASSUME \A p, q \in Workers : p = q
  PROVE  Spec => []NightlyKeepsItsTime
<1>1. Init => RowsAreYoung /\ NightlyKeepsItsTime
  BY DEF Init, RowsAreYoung, ExpiryIsItsOwn, NightlyKeepsItsTime, MadeHere, Exists, Procs,
     Deleting
<1>2. TypeOK /\ JobsFit /\ RowsAreYoung /\ [Next]_vars => RowsAreYoung'
  BY NextYoung, NextType
<1>3. /\ TypeOK /\ JobsFit /\ RowsAreYoung /\ NightlyKeepsItsTime /\ [Next]_vars
      => NightlyKeepsItsTime'
  BY NextKeepsTime
<1> QED
  BY <1>1, <1>2, <1>3, JobsAlwaysFit, PTL DEF Spec
=============================================================================
