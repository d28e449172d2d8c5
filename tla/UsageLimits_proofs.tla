------------------------- MODULE UsageLimits_proofs -------------------------
(***************************************************************************)
(* Proofs about UsageLimits, for any limits, any number of VMs, slots,     *)
(* requests in progress, failures and lost answers.                        *)
(***************************************************************************)
EXTENDS UsageLimits, SumFacts

\* When the size of one disk changes, all of them together change by as much.
LEMMA DisksSum ==
  ASSUME NEW disks \in [Slots -> Nat], NEW k \in Slots, NEW size \in Nat
  PROVE  SumFunction([disks EXCEPT ![k] = size]) = SumFunction(disks) - disks[k] + size
<1>1. IsFiniteSet(Slots)
  BY FiniteAssumption
<1> QED
  BY <1>1, SumChanges, Zenon

USE SlotsAssumption, BoundsAssumption

-----------------------------------------------------------------------------
(* Types                                                                   *)

StoreTypes ==
  /\ vm \in [VMs -> Machines \cup {None}] /\ unused \in [VMs -> Nat] /\ limit \in Limits
  /\ faults \in 0 .. MaxFaults

Requests == [vm : VMs \cup {None}, cpu : Nat, mem : Nat, size : Nat, slot : Slots \cup {None}]

RequestTypes ==
  /\ pc \in [Web -> States]
  /\ req \in [Web -> Requests]
  /\ taken \in [Web -> SUBSET Slots]
  /\ \A p \in Web : req[p].slot \notin taken[p]
  /\ requests \in 0 .. MaxRequests
  /\ fresh \subseteq Web

RequestsOK == RequestTypes /\ RequestsFit
Typed == StoreTypes /\ RequestsOK

LEMMA TypeParts == TypeOK /\ RequestsFit <=> Typed
BY DEF TypeOK, Typed, StoreTypes, RequestsOK, RequestTypes, Requests

\* The absent value is no machine, no id and no slot, and Idle asks for nothing.
LEMMA NoneIsNothing ==
  None \notin VMs /\ None \notin Slots /\ None \notin Machines /\ Idle \in Requests
<1>1. None \notin VMs /\ None \notin Nat
  BY NoneAssumption
<1>2. None \notin Machines
  BY NoneAssumption, AmountsAssumption DEF Machines
<1>3. Idle \in Requests
  BY DEF Idle, Requests
<1> QED
  BY <1>1, <1>2, <1>3

\* A clone has the configuration of its template, or the one asked for.
LEMMA NewMachine ==
  ASSUME NEW cpu \in Cores \cup {Template.cpu}, NEW mem \in Nat \ {0}, NEW size \in Nat
  PROVE  NewVm(cpu, mem, size) \in Machines
<1>1. [NoDisk EXCEPT ![0] = size] \in [Slots -> Nat]
  BY DEF NoDisk
<1>2. cpu \in Nat \ {0}
  BY AmountsAssumption
<1> QED
  BY <1>1, <1>2 DEF Machines, NewVm

LEMMA CloneMachine == Clone \in Machines
<1> DEFINE m == NewVm(Template.cpu, Template.mem, Template.size)
<1>1. /\ Template.cpu \in Cores \cup {Template.cpu} /\ Template.cores \in Nat \ {0}
      /\ Template.mem \in Nat \ {0} /\ Template.size \in Nat
  BY AmountsAssumption
<1>2. m \in Machines
  BY <1>1, NewMachine
<1>3. Clone = [m EXCEPT !.cores = Template.cores]
  BY DEF Clone
<1> HIDE DEF m
<1> QED
  BY <1>1, <1>2, <1>3 DEF Machines

\* There are no more requests than there may be.
LEMMA OneMore ==
  ASSUME requests \in 0 .. MaxRequests, requests < MaxRequests, requests' = requests + 1
  PROVE  requests' \in 0 .. MaxRequests
OBVIOUS

LEMMA FaultType ==
  ASSUME faults \in 0 .. MaxFaults, Fault
  PROVE  faults' \in 0 .. MaxFaults
BY DEF Fault

\* A request comes with what it asks for.
LEMMA AskType ==
  ASSUME RequestsOK, NEW p \in Web, NEW state \in States \ {"idle", "attach", "attach again"},
         NEW v \in VMs \cup {None}, NEW cpu \in Nat, NEW mem \in Nat, NEW size \in Nat,
         NEW slot \in Slots \cup {None},
         MayAsk(p), Ask(p, state, v, cpu, mem, size, slot),
         state \notin {"create", "template"} => v \in VMs,
         state \in {"cpu", "create", "template", "clone", "set up"} => cpu \in Cores,
         state \in {"mem", "create", "template", "clone", "set up"} => mem \in Nat \ {0},
         state \in {"resize", "resize again"} => slot \in Slots
  PROVE  RequestsOK'
<1> DEFINE r == [vm |-> v, cpu |-> cpu, mem |-> mem, size |-> size, slot |-> slot]
<1>1. r \in Requests
  BY DEF Requests
<1>2. taken[p] = {} /\ pc[p] = "idle"
  BY DEF RequestsOK, RequestsFit, MayAsk
<1>3. /\ pc' = [pc EXCEPT ![p] = state] /\ req' = [req EXCEPT ![p] = r] /\ taken' = taken
      /\ requests' = requests + 1 /\ requests < MaxRequests /\ fresh' = fresh \cup {p}
  BY DEF MayAsk, Ask, Goto
<1>4. /\ r.vm = v /\ r.cpu = cpu /\ r.mem = mem /\ r.slot = slot
  OBVIOUS
<1> HIDE DEF r
<1>5. RequestTypes'
  <2>1. /\ pc' \in [Web -> States] /\ req' \in [Web -> Requests]
        /\ taken' \in [Web -> SUBSET Slots] /\ fresh' \subseteq Web
    BY <1>1, <1>3 DEF RequestsOK, RequestTypes
  <2>2. \A q \in Web : req'[q].slot \notin taken'[q]
    BY <1>2, <1>3 DEF RequestsOK, RequestTypes
  <2>3. requests' \in 0 .. MaxRequests
    BY <1>3, OneMore DEF RequestsOK, RequestTypes
  <2> QED
    BY <2>1, <2>2, <2>3 DEF RequestTypes
<1>6. RequestsFit'
  BY <1>2, <1>3, <1>4 DEF RequestsOK, RequestTypes, RequestsFit
<1> QED
  BY <1>5, <1>6 DEF RequestsOK

LEMMA EndType ==
  ASSUME RequestsOK, NEW p \in Web, End(p)
  PROVE  RequestsOK'
<1>1. RequestTypes'
  BY NoneIsNothing DEF RequestsOK, RequestTypes, End, Goto, States
<1>2. RequestsFit'
  BY DEF RequestsOK, RequestTypes, RequestsFit, End, Goto
<1> QED
  BY <1>1, <1>2 DEF RequestsOK

\* A request goes on with what it was asked for.
LEMMA GoOnType ==
  ASSUME RequestsOK, NEW p \in Web, NEW state \in States \ {"create", "template"},
         pc' = [pc EXCEPT ![p] = state], UNCHANGED <<req, taken, requests>>, fresh' \subseteq fresh,
         req[p].vm \in VMs,
         state \in {"cpu", "clone", "set up"} => req[p].cpu \in Cores,
         state \in {"mem", "clone", "set up"} => req[p].mem \in Nat \ {0},
         state \in {"attach", "attach again", "resize", "resize again"} => req[p].slot \in Slots,
         state \notin {"attach", "attach again"} => taken[p] = {}
  PROVE  RequestsOK'
BY DEF RequestsOK, RequestTypes, RequestsFit

\* Nothing that is asked for changes.
LEMMA SameRequests ==
  ASSUME RequestsOK, UNCHANGED <<pc, req, taken, requests>>, fresh' \subseteq fresh
  PROVE  RequestsOK'
BY DEF RequestsOK, RequestTypes, RequestsFit

\* What a machine is changed into is one.
LEMMA ChangedMachine ==
  ASSUME NEW m \in Machines
  PROVE  /\ \A status \in {"stopped", "running", "suspended"} :
              [m EXCEPT !.status = status] \in Machines
         /\ \A cpu \in Cores \cup {Template.cpu} : WithCpu(m, cpu) \in Machines
         /\ \A mem \in Nat \ {0} : WithMem(m, mem) \in Machines
         /\ \A k \in Slots, size \in Nat : [m EXCEPT !.disk[k] = size] \in Machines
BY AmountsAssumption DEF Machines, WithCpu, WithMem

LEMMA InitType == Init => TypeOK /\ RequestsFit
<1> SUFFICES Init => Typed
  BY TypeParts
<1> HAVE Init
<1>1. Clone \in Machines /\ \A c \in Cores : WithCpu(Clone, c) \in Machines
  BY CloneMachine, ChangedMachine
<1>2. StoreTypes
  BY <1>1 DEF Init, StoreTypes
<1>3. RequestsOK
  BY NoneIsNothing DEF Init, RequestsOK, RequestTypes, RequestsFit, States
<1> QED
  BY <1>2, <1>3 DEF Typed

\* The types are inductive, together with what requests know, one step per
\* action; those that only ask are one.
LEMMA AsksType ==
  ASSUME Typed, NEW p \in Web,
         \/ \E v \in VMs :
              \/ Start(p, v) \/ Resume(p, v)
              \/ \E c \in Cores : SetCpu(p, v, c)
              \/ \E m \in Mems : SetMem(p, v, m)
              \/ \E s \in Sizes : CreateDisk(p, v, s)
              \/ \E k \in Slots, s \in Sizes : ResizeDisk(p, v, k, s)
         \/ \E kind \in {"create", "template"}, c \in Cores, m \in Mems, s \in Sizes :
              Create(p, kind, c, m, s)
  PROVE  Typed'
<1> USE DEF Typed
<1>0. Cores \subseteq Nat /\ Mems \subseteq Nat \ {0} /\ Sizes \subseteq Nat
  BY AmountsAssumption
<1>1. SUFFICES RequestsOK'
  BY DEF Start, Resume, SetCpu, SetMem, CreateDisk, ResizeDisk, Create, Ask, StoreTypes
<1>2. ASSUME NEW v \in VMs, Start(p, v) \/ Resume(p, v) PROVE RequestsOK'
  BY <1>2, AskType DEF Start, Resume, States
<1>3. ASSUME NEW v \in VMs, NEW c \in Cores, SetCpu(p, v, c) PROVE RequestsOK'
  BY <1>0, <1>3, AskType DEF SetCpu, States
<1>4. ASSUME NEW v \in VMs, NEW m \in Mems, SetMem(p, v, m) PROVE RequestsOK'
  <2> DEFINE gb == m \div 1024
  <2>1. gb \in Nat
    BY <1>0
  <2>2. gb > 0 /\ MayAsk(p) /\ Ask(p, "mem", v, 0, gb * 1024, 0, None)
    BY <1>4 DEF SetMem
  <2> HIDE DEF gb
  <2> DEFINE mem == gb * 1024
  <2>3. mem \in Nat \ {0} /\ Ask(p, "mem", v, 0, mem, 0, None)
    BY <2>1, <2>2
  <2> HIDE DEF mem
  <2> QED
    BY <2>2, <2>3, AskType DEF States
<1>5. ASSUME NEW v \in VMs, NEW s \in Sizes, CreateDisk(p, v, s) PROVE RequestsOK'
  BY <1>0, <1>5, AskType DEF CreateDisk, States
<1>6. ASSUME NEW v \in VMs, NEW k \in Slots, NEW s \in Sizes, ResizeDisk(p, v, k, s)
      PROVE  RequestsOK'
  BY <1>0, <1>6, AskType DEF ResizeDisk, States
<1>7. ASSUME NEW kind \in {"create", "template"}, NEW c \in Cores, NEW m \in Mems,
             NEW s \in Sizes, Create(p, kind, c, m, s)
      PROVE  RequestsOK'
  <2>1. m \in Nat \ {0} /\ c \in Nat /\ s \in Nat
    BY <1>0
  <2> QED
    BY <1>7, <2>1, AskType DEF Create, States
<1> QED
  BY <1>2, <1>3, <1>4, <1>5, <1>6, <1>7

LEMMA ActionsType ==
  ASSUME Typed, NEW p \in Web,
         \/ PowerOn(p) \/ Configure(p) \/ PickSlot(p) \/ Attach(p) \/ Resize(p)
         \/ LoseAnswer(p) \/ Provision(p) \/ SetUpClone(p) \/ Launch(p) \/ Fail(p)
         \/ \E v \in VMs : CreateVm(p, v)
  PROVE  Typed'
<1> USE DEF Typed
<1>0. /\ RequestTypes /\ RequestsFit
      /\ req[p].vm \in VMs \cup {None} /\ req[p].size \in Nat
      /\ req[p].cpu \in Nat /\ req[p].mem \in Nat
      /\ \A v \in VMs : Exists(v) => vm[v] \in Machines
  BY DEF RequestsOK, RequestTypes, Requests, StoreTypes, Exists
<1> DEFINE v == req[p].vm
<1>1. CASE PowerOn(p)
  <2>1. v \in VMs
    BY <1>0, <1>1 DEF PowerOn, RequestsFit
  <2>2. vm' \in [VMs -> Machines \cup {None}]
    <3>1. CASE UNCHANGED vm
      BY <3>1 DEF StoreTypes
    <3>2. CASE Exists(v) /\ vm' = [vm EXCEPT ![v].status = "running"]
      BY <1>0, <2>1, <3>2, ChangedMachine DEF StoreTypes
    <3> QED
      BY <1>1, <3>1, <3>2 DEF PowerOn
  <2> QED
    BY <1>1, <2>2, EndType DEF PowerOn, StoreTypes
<1>2. CASE Configure(p)
  <2>1. v \in VMs
    BY <1>0, <1>2 DEF Configure, RequestsFit
  <2>2. vm' \in [VMs -> Machines \cup {None}]
    <3>1. CASE Changeable(v)
      <4>1. vm[v] \in Machines
        BY <1>0, <2>1, <3>1 DEF Changeable
      <4>2. CASE pc[p] = "cpu"
        <5>1. WithCpu(vm[v], req[p].cpu) \in Machines
          BY <1>0, <4>1, <4>2, ChangedMachine DEF RequestsFit
        <5> QED
          BY <1>2, <2>1, <3>1, <4>2, <5>1 DEF Configure, StoreTypes
      <4>3. CASE pc[p] = "mem"
        <5>1. WithMem(vm[v], req[p].mem) \in Machines
          BY <1>0, <4>1, <4>3, ChangedMachine DEF RequestsFit
        <5> QED
          BY <1>2, <2>1, <3>1, <4>3, <5>1 DEF Configure, StoreTypes
      <4> QED
        BY <1>2, <4>2, <4>3 DEF Configure
    <3>2. CASE ~ Changeable(v)
      BY <1>2, <3>2 DEF Configure, StoreTypes
    <3> QED
      BY <3>1, <3>2
  <2> QED
    BY <1>2, <2>2, EndType DEF Configure, StoreTypes
<1>3. CASE PickSlot(p)
  <2>1. CASE End(p)
    BY <1>3, <2>1, EndType DEF PickSlot, StoreTypes
  <2>2. CASE FreeSlot(v) # {} /\ GoOn(p, "attach")
             /\ req' = [req EXCEPT ![p].slot = CHOOSE k \in FreeSlot(v) : TRUE]
             /\ taken' = [taken EXCEPT ![p] = Disks(v)]
    <3>1. PICK k \in FreeSlot(v) : req' = [req EXCEPT ![p].slot = k]
      BY <2>2
    <3>2. k \in Slots /\ k \notin Disks(v) /\ Disks(v) \subseteq Slots
      BY <3>1 DEF FreeSlot, Disks
    <3>3. v \in VMs /\ vm' = vm
      BY <1>0, <1>3 DEF PickSlot, RequestsFit
    <3>4. /\ pc' = [pc EXCEPT ![p] = "attach"] /\ UNCHANGED <<requests, fresh>>
      BY <2>2, <3>3 DEF GoOn, Goto
    <3>5. /\ req'[p].slot = k /\ req'[p] \in Requests /\ req'[p].vm = v
          /\ \A q \in Web \ {p} : req'[q] = req[q]
          /\ req' \in [Web -> Requests]
      BY <1>0, <3>1, <3>2 DEF RequestTypes, Requests
    <3>6. RequestTypes'
      BY <1>0, <2>2, <3>2, <3>4, <3>5 DEF RequestTypes, States
    <3>7. RequestsFit'
      BY <1>0, <2>2, <3>2, <3>3, <3>4, <3>5 DEF RequestTypes, RequestsFit
    <3> QED
      BY <1>3, <3>6, <3>7 DEF PickSlot, StoreTypes, RequestsOK
  <2> QED
    BY <1>3, <2>1, <2>2 DEF PickSlot
<1>4. ASSUME v \in VMs, NEW k \in Slots, Changeable(v), NewDisk(v, k, req[p].size)
      PROVE  vm' \in [VMs -> Machines \cup {None}] /\ unused' \in [VMs -> Nat]
  <2>1. vm[v] \in Machines /\ unused[v] \in Nat
    BY <1>0, <1>4 DEF Changeable, StoreTypes
  <2>2. vm' \in [VMs -> Machines \cup {None}]
    BY <1>0, <1>4, <2>1, ChangedMachine DEF NewDisk, StoreTypes
  <2>3. unused' = unused \/ unused' = [unused EXCEPT ![v] = unused[v] + 1]
    BY <1>4 DEF NewDisk, StoreTypes
  <2> QED
    BY <1>4, <2>1, <2>2, <2>3 DEF StoreTypes
<1>5. ASSUME v \in VMs, NEW k \in Slots, Changeable(v), Grow(v, k, req[p].size)
      PROVE  vm' \in [VMs -> Machines \cup {None}] /\ unused' \in [VMs -> Nat]
  <2>1. vm[v] \in Machines /\ vm[v].disk[k] + req[p].size \in Nat
    BY <1>0, <1>5 DEF Changeable, Machines
  <2>2. vm' = [vm EXCEPT ![v] = [vm[v] EXCEPT !.disk[k] = vm[v].disk[k] + req[p].size]]
    BY <1>5, <2>1 DEF Grow, StoreTypes, Machines
  <2> DEFINE size == vm[v].disk[k] + req[p].size
  <2>3. size \in Nat /\ vm' = [vm EXCEPT ![v] = [vm[v] EXCEPT !.disk[k] = size]]
    BY <2>1, <2>2
  <2> HIDE DEF size
  <2>4. [vm[v] EXCEPT !.disk[k] = size] \in Machines
    BY <1>5, <2>1, <2>3, ChangedMachine
  <2> QED
    BY <1>5, <2>3, <2>4 DEF Grow, StoreTypes
<1>6. CASE Attach(p)
  <2>1. v \in VMs /\ req[p].slot \in Slots
    BY <1>0, <1>6 DEF Attach, RequestsFit
  <2>2. vm' \in [VMs -> Machines \cup {None}] /\ unused' \in [VMs -> Nat]
    BY <1>4, <1>6, <2>1 DEF Attach, StoreTypes
  <2> QED
    BY <1>6, <2>2, EndType DEF Attach, StoreTypes
<1>7. CASE Resize(p)
  <2>1. v \in VMs /\ req[p].slot \in Slots
    BY <1>0, <1>7 DEF Resize, RequestsFit
  <2>2. vm' \in [VMs -> Machines \cup {None}] /\ unused' \in [VMs -> Nat]
    BY <1>5, <1>7, <2>1 DEF Resize, StoreTypes
  <2> QED
    BY <1>7, <2>2, EndType DEF Resize, StoreTypes
<1>8. CASE LoseAnswer(p)
  <2>1. v \in VMs /\ req[p].slot \in Slots
    BY <1>0, <1>8 DEF LoseAnswer, RequestsFit
  <2>2. vm' \in [VMs -> Machines \cup {None}] /\ unused' \in [VMs -> Nat]
    BY <1>4, <1>5, <1>8, <2>1 DEF LoseAnswer
  <2>3. \/ pc[p] = "attach" /\ Goto(p, "attach again")
        \/ pc[p] = "resize" /\ Goto(p, "resize again")
    BY <1>8 DEF LoseAnswer
  <2>4. RequestsOK'
    BY <1>0, <1>8, <2>1, <2>3, GoOnType DEF LoseAnswer, Goto, RequestsFit, States
  <2>5. faults' \in 0 .. MaxFaults
    <3>1. Fault
      BY <1>8 DEF LoseAnswer
    <3> QED
      BY <3>1, FaultType DEF StoreTypes
  <2> QED
    BY <1>8, <2>2, <2>4, <2>5 DEF LoseAnswer, StoreTypes
<1>9. CASE SetUpClone(p)
  <2>1. v \in VMs /\ req[p].cpu \in Cores /\ req[p].mem \in Nat \ {0}
    BY <1>0, <1>9 DEF SetUpClone, RequestsFit
  <2>2. CASE Changeable(v)
    <3>1. vm[v] \in Machines
      BY <1>0, <2>1, <2>2 DEF Changeable
    <3>2. vm' = [vm EXCEPT ![v] = WithMem(WithCpu(vm[v], req[p].cpu), req[p].mem)]
      BY <1>9, <2>2 DEF SetUpClone
    <3>3. vm' \in [VMs -> Machines \cup {None}]
      BY <2>1, <3>1, <3>2, ChangedMachine DEF StoreTypes
    <3>4. RequestsOK'
      BY <1>0, <1>9, <2>1, <2>2, GoOnType DEF SetUpClone, GoOn, Goto, RequestsFit, States
    <3> QED
      BY <1>9, <3>3, <3>4 DEF SetUpClone, StoreTypes
  <2>3. CASE ~ Changeable(v)
    BY <1>9, <2>3, EndType DEF SetUpClone, StoreTypes
  <2> QED
    BY <2>2, <2>3
<1>13. CASE Provision(p)
  <2>1. v \in VMs /\ req[p].cpu \in Cores /\ req[p].mem \in Nat \ {0}
    BY <1>0, <1>13 DEF Provision, RequestsFit
  <2>2. CASE Changeable(v)
    <3>1. vm[v] \in Machines
      BY <1>0, <2>1, <2>2 DEF Changeable
    <3>2. vm' = [vm EXCEPT ![v] = WithCpu(vm[v], vm[v].cpu)]
      BY <1>13, <2>2 DEF Provision
    <3>3. WithCpu(vm[v], vm[v].cpu) \in Machines
      BY <3>1, ChangedMachine DEF Machines
    <3>4. vm' \in [VMs -> Machines \cup {None}]
      BY <2>1, <3>2, <3>3 DEF StoreTypes
    <3>5. RequestsOK'
      BY <1>0, <1>13, <2>1, <2>2, GoOnType DEF Provision, GoOn, Goto, RequestsFit, States
    <3> QED
      BY <1>13, <3>4, <3>5 DEF Provision, StoreTypes
  <2>3. CASE ~ Changeable(v)
    BY <1>13, <2>3, EndType DEF Provision, StoreTypes
  <2> QED
    BY <2>2, <2>3
<1>10. CASE Launch(p)
  <2>1. v \in VMs
    BY <1>0, <1>10 DEF Launch, RequestsFit
  <2>2. vm' \in [VMs -> Machines \cup {None}]
    BY <1>0, <1>10, <2>1, ChangedMachine DEF Launch, StoreTypes
  <2> QED
    BY <1>10, <2>2, EndType DEF Launch, StoreTypes
<1>11. CASE Fail(p)
  BY <1>11, EndType, FaultType DEF Fail, StoreTypes
<1>12. ASSUME NEW w \in VMs, CreateVm(p, w) PROVE Typed'
  <2>1. CASE pc[p] = "create"
    <3>1. req[p].cpu \in Cores /\ req[p].mem \in Nat \ {0}
      BY <1>0, <2>1 DEF RequestsFit
    <3>2. NewVm(req[p].cpu, req[p].mem, req[p].size) \in Machines
      BY <1>0, <3>1, NewMachine
    <3>3. /\ vm' = [vm EXCEPT ![w] = NewVm(req[p].cpu, req[p].mem, req[p].size)]
          /\ End(p)
      BY <1>12, <2>1 DEF CreateVm
    <3>4. vm' \in [VMs -> Machines \cup {None}]
      BY <3>2, <3>3 DEF StoreTypes
    <3> QED
      BY <1>12, <3>3, <3>4, EndType DEF CreateVm, StoreTypes
  <2>2. CASE pc[p] = "template"
    <3>1. req[p].cpu \in Cores /\ req[p].mem \in Nat \ {0} /\ taken[p] = {}
      BY <1>0, <2>2 DEF RequestsFit
    <3>2. /\ vm' = [vm EXCEPT ![w] = Clone]
          /\ req' = [req EXCEPT ![p].vm = w] /\ GoOn(p, "clone") /\ taken' = taken
      BY <1>12, <2>2 DEF CreateVm
    <3>3. vm' \in [VMs -> Machines \cup {None}]
      BY <3>2, CloneMachine DEF StoreTypes
    <3>4. /\ pc' = [pc EXCEPT ![p] = "clone"] /\ requests' = requests /\ fresh' \subseteq fresh
      BY <3>2 DEF GoOn, Goto
    <3>5. /\ req'[p].vm = w /\ req'[p].cpu = req[p].cpu /\ req'[p].mem = req[p].mem
          /\ req'[p].slot = req[p].slot
          /\ \A q \in Web \ {p} : req'[q] = req[q]
          /\ req' \in [Web -> Requests]
      BY <1>0, <3>2 DEF RequestTypes, Requests
    <3>6. RequestTypes'
      BY <1>0, <3>2, <3>4, <3>5 DEF RequestTypes, States
    <3>7. RequestsFit'
      BY <1>0, <3>1, <3>2, <3>4, <3>5 DEF RequestTypes, RequestsFit
    <3> QED
      BY <1>12, <3>3, <3>6, <3>7 DEF CreateVm, StoreTypes, RequestsOK
  <2> QED
    BY <1>12, <2>1, <2>2 DEF CreateVm
<1> QED
  BY <1>1, <1>2, <1>3, <1>6, <1>7, <1>8, <1>9, <1>10, <1>11, <1>12, <1>13

LEMMA NextType ==
  ASSUME TypeOK, RequestsFit, [Next]_vars
  PROVE  TypeOK' /\ RequestsFit'
<1> SUFFICES Typed'
  BY TypeParts, PTL
<1> Typed
  BY TypeParts
<1> USE DEF Typed
<1>1. ASSUME NEW v \in VMs, DeleteVm(v) PROVE Typed'
  <2>1. RequestsOK'
    BY <1>1, SameRequests DEF DeleteVm, locals
  <2> QED
    BY <1>1, <2>1 DEF DeleteVm, StoreTypes
<1>2. ASSUME NEW v \in VMs, NEW status \in {"stopped", "suspended"}, PowerOff(v, status)
      PROVE  Typed'
  <2>1. RequestsOK'
    BY <1>2, SameRequests DEF PowerOff, locals
  <2>2. vm' \in [VMs -> Machines \cup {None}]
    BY <1>2, ChangedMachine DEF PowerOff, Running, Exists, StoreTypes
  <2> QED
    BY <1>2, <2>1, <2>2 DEF PowerOff, StoreTypes
<1>3. ASSUME NEW v \in VMs, NEW k \in Slots, DeleteDisk(v, k) PROVE Typed'
  <2>1. RequestsOK'
    BY <1>3, SameRequests DEF DeleteDisk, locals
  <2>2. vm' \in [VMs -> Machines \cup {None}] /\ unused' \in [VMs -> Nat]
    <3>1. vm[v] \in Machines /\ unused[v] + 1 \in Nat
      BY <1>3 DEF DeleteDisk, Changeable, Exists, StoreTypes
    <3>2. vm' = [vm EXCEPT ![v] = [vm[v] EXCEPT !.disk[k] = 0]]
      BY <1>3, <3>1 DEF DeleteDisk, StoreTypes
    <3>3. [vm[v] EXCEPT !.disk[k] = 0] \in Machines
      BY <3>1, ChangedMachine
    <3> QED
      BY <1>3, <3>1, <3>2, <3>3 DEF DeleteDisk, StoreTypes
  <2> QED
    BY <1>3, <2>1, <2>2 DEF DeleteDisk, StoreTypes
<1>4. ASSUME NEW l \in Limits, SetLimits(l) PROVE Typed'
  <2>1. RequestsOK'
    BY <1>4, SameRequests DEF SetLimits, locals
  <2> QED
    BY <1>4, <2>1 DEF SetLimits, StoreTypes
<1>5. CASE UNCHANGED vars
  <2>1. RequestsOK'
    BY <1>5, SameRequests DEF vars, locals
  <2> QED
    BY <1>5, <2>1 DEF vars, StoreTypes
<1> HIDE DEF Typed
<1> QED
  BY <1>1, <1>2, <1>3, <1>4, <1>5, AsksType, ActionsType DEF Next

\* Every variable keeps to its values, whatever requests, jobs and lost answers
\* do: memory and cores are never none, and a disk goes to a slot that was free
\* in the configuration its request has read (VM.create_disk).
THEOREM UsageTypesCorrect == Spec => []TypeOK
<1>1. Init => TypeOK /\ RequestsFit
  BY InitType
<1>2. TypeOK /\ RequestsFit /\ [Next]_vars => (TypeOK /\ RequestsFit)'
  BY NextType
<1> QED
  BY <1>1, <1>2, PTL DEF Spec

-----------------------------------------------------------------------------
(* Disks stay                                                              *)

\* A disk that loses its place was not among those its request has read.
LEMMA NextKeepsDisks ==
  ASSUME Typed, [Next]_vars
  PROVE  DisksKept
<1> SUFFICES ASSUME NEW v \in VMs, unused'[v] > unused[v], Disks(v) = (Disks(v))'
             PROVE  \E p \in Web : req[p].vm = v /\ pc'[p] # pc[p] /\ taken[p] # Disks(v)
  BY DEF DisksKept
<1>0. /\ unused \in [VMs -> Nat] /\ vm \in [VMs -> Machines \cup {None}]
      /\ RequestTypes /\ RequestsFit
  BY DEF Typed, StoreTypes, RequestsOK
<1>1. ~ UNCHANGED unused
  BY <1>0
<1>2. ASSUME NEW p \in Web, NewDisk(req[p].vm, req[p].slot, req[p].size), pc'[p] # pc[p]
      PROVE  \E q \in Web : req[q].vm = v /\ pc'[q] # pc[q] /\ taken[q] # Disks(v)
  <2>1. req[p].vm = v /\ req[p].slot \in Disks(v)
    BY <1>0, <1>2 DEF NewDisk
  <2>2. req[p].slot \notin taken[p]
    BY <1>0 DEF RequestTypes
  <2> QED
    BY <1>2, <2>1, <2>2
<1>3. ASSUME NEW p \in Web, Attach(p)
      PROVE  \E q \in Web : req[q].vm = v /\ pc'[q] # pc[q] /\ taken[q] # Disks(v)
  <2>1. pc'[p] # pc[p]
    BY <1>0, <1>3 DEF Attach, End, Goto, RequestTypes
  <2> QED
    BY <1>1, <1>2, <1>3, <2>1 DEF Attach
<1>4. ASSUME NEW p \in Web, LoseAnswer(p)
      PROVE  \E q \in Web : req[q].vm = v /\ pc'[q] # pc[q] /\ taken[q] # Disks(v)
  <2>1. pc'[p] # pc[p] /\ NewDisk(req[p].vm, req[p].slot, req[p].size)
    BY <1>0, <1>1, <1>4 DEF LoseAnswer, Goto, Grow, RequestTypes
  <2> QED
    BY <1>2, <2>1
<1>5. ASSUME NEW w \in VMs, NEW k \in Slots, DeleteDisk(w, k) PROVE FALSE
  <2>1. w = v
    BY <1>0, <1>5 DEF DeleteDisk
  <2>2. vm[v] \in Machines /\ vm' = [vm EXCEPT ![v].disk[k] = 0] /\ k \in Disks(v)
    BY <1>0, <1>5, <2>1 DEF DeleteDisk, Changeable, Exists
  <2>3. vm'[v].disk[k] = 0
    BY <1>0, <2>2 DEF Machines
  <2> QED
    BY <2>2, <2>3 DEF Disks
<1>6. ASSUME NEW w \in VMs, DeleteVm(w) PROVE FALSE
  BY <1>0, <1>6 DEF DeleteVm
<1>7. \A p \in Web :
        ~ \/ PowerOn(p) \/ Configure(p) \/ PickSlot(p) \/ Resize(p)
          \/ Provision(p) \/ SetUpClone(p) \/ Launch(p) \/ Fail(p)
          \/ \E w \in VMs : CreateVm(p, w)
  BY <1>1 DEF PowerOn, Configure, PickSlot, Resize, Grow, Provision, SetUpClone, Launch, Fail,
     CreateVm
<1>8. \A p \in Web, w \in VMs :
        /\ ~ Start(p, w) /\ ~ Resume(p, w)
        /\ \A c \in Cores : ~ SetCpu(p, w, c)
        /\ \A m \in Mems : ~ SetMem(p, w, m)
        /\ \A s \in Sizes : ~ CreateDisk(p, w, s)
        /\ \A k \in Slots, s \in Sizes : ~ ResizeDisk(p, w, k, s)
  BY <1>1 DEF Start, Resume, SetCpu, SetMem, CreateDisk, ResizeDisk, Ask
<1>9. /\ \A p \in Web, kind \in {"create", "template"}, c \in Cores, m \in Mems, s \in Sizes :
           ~ Create(p, kind, c, m, s)
      /\ \A w \in VMs, status \in {"stopped", "suspended"} : ~ PowerOff(w, status)
      /\ \A l \in Limits : ~ SetLimits(l)
      /\ ~ UNCHANGED vars
  BY <1>1 DEF Create, Ask, PowerOff, SetLimits, vars
<1> QED
  BY <1>3, <1>4, <1>5, <1>6, <1>7, <1>8, <1>9 DEF Next

\* A disk takes the place of another only if the VM's disks have changed since
\* its request read the configuration, as it does once for all its attempts:
\* by another request, or by an attempt whose answer was lost (vm.py:399-406).
THEOREM DisksAreKept == Spec => DisksStay
<1>1. Init => Typed
  BY InitType, TypeParts
<1>2. Typed /\ [Next]_vars => Typed' /\ DisksKept
  <2> SUFFICES ASSUME Typed, [Next]_vars PROVE Typed' /\ DisksKept
    OBVIOUS
  <2>1. Typed'
    BY NextType, TypeParts, PTL
  <2> QED
    BY <2>1, NextKeepsDisks
<1> QED
  BY <1>1, <1>2, PTL DEF Spec, DisksStay

-----------------------------------------------------------------------------
(* Usage                                                                   *)

\* What a machine counts with.
CpuIn(m)  == IF m # None /\ m.status = "running" THEN m.cpu ELSE 0
MemIn(m)  == IF m # None /\ m.status = "running" THEN m.mem ELSE 0
DiskIn(m) == IF m # None THEN SumFunction(m.disk) ELSE 0

LEMMA MachineUsage ==
  ASSUME NEW m \in Machines \cup {None}
  PROVE  CpuIn(m) \in Nat /\ MemIn(m) \in Nat /\ DiskIn(m) \in Nat
<1>1. CASE m = None
  BY <1>1 DEF CpuIn, MemIn, DiskIn
<1>2. CASE m # None
  <2>1. m.cpu \in Nat /\ m.mem \in Nat /\ m.disk \in [Slots -> Nat]
    BY <1>2, AmountsAssumption DEF Machines
  <2>2. SumFunction(m.disk) \in Nat
    BY <2>1, SumType, FiniteAssumption
  <2> QED
    BY <1>2, <2>1, <2>2 DEF CpuIn, MemIn, DiskIn
<1> QED
  BY <1>1, <1>2

LEMMA UsageType ==
  ASSUME StoreTypes
  PROVE  /\ CpuOf \in [VMs -> Nat] /\ MemOf \in [VMs -> Nat] /\ DiskOf \in [VMs -> Nat]
         /\ \A v \in VMs : /\ CpuOf[v] = CpuIn(vm[v]) /\ MemOf[v] = MemIn(vm[v])
                           /\ DiskOf[v] = DiskIn(vm[v])
         /\ UsedCpu \in Nat /\ UsedMem \in Nat /\ UsedDisk \in Nat
         /\ limit.cpu \in Nat /\ limit.mem \in Nat /\ limit.disk \in Nat
<1>1. \A v \in VMs : CpuIn(vm[v]) \in Nat /\ MemIn(vm[v]) \in Nat /\ DiskIn(vm[v]) \in Nat
  BY MachineUsage DEF StoreTypes
<1>2. /\ CpuOf = [v \in VMs |-> CpuIn(vm[v])] /\ MemOf = [v \in VMs |-> MemIn(vm[v])]
      /\ DiskOf = [v \in VMs |-> DiskIn(vm[v])]
  BY DEF CpuOf, MemOf, DiskOf, CpuIn, MemIn, DiskIn, Running, Exists
<1>3. CpuOf \in [VMs -> Nat] /\ MemOf \in [VMs -> Nat] /\ DiskOf \in [VMs -> Nat]
  BY <1>1, <1>2
<1>4. UsedCpu \in Nat /\ UsedMem \in Nat /\ UsedDisk \in Nat
  BY <1>3, SumType, FiniteAssumption DEF UsedCpu, UsedMem, UsedDisk
<1>5. limit.cpu \in Nat /\ limit.mem \in Nat /\ limit.disk \in Nat
  BY AmountsAssumption DEF StoreTypes
<1> QED
  BY <1>2, <1>3, <1>4, <1>5

\* When one machine changes, usage changes by what it counts with.
LEMMA OneMachineChanges ==
  ASSUME StoreTypes, NEW v \in VMs, NEW m \in Machines \cup {None}, vm' = [vm EXCEPT ![v] = m]
  PROVE  /\ UsedCpu' = UsedCpu - CpuIn(vm[v]) + CpuIn(m)
         /\ UsedMem' = UsedMem - MemIn(vm[v]) + MemIn(m)
         /\ UsedDisk' = UsedDisk - DiskIn(vm[v]) + DiskIn(m)
<1>1. CpuIn(m) \in Nat /\ MemIn(m) \in Nat /\ DiskIn(m) \in Nat
  BY MachineUsage
<1>2. \A w \in VMs : vm'[w] = IF w = v THEN m ELSE vm[w]
  BY DEF StoreTypes
<1>3. /\ CpuOf' = [w \in VMs |-> IF w = v THEN CpuIn(m) ELSE CpuOf[w]]
      /\ MemOf' = [w \in VMs |-> IF w = v THEN MemIn(m) ELSE MemOf[w]]
      /\ DiskOf' = [w \in VMs |-> IF w = v THEN DiskIn(m) ELSE DiskOf[w]]
  BY <1>2 DEF CpuOf, MemOf, DiskOf, CpuIn, MemIn, DiskIn, Running, Exists
<1>4. /\ CpuOf' = [CpuOf EXCEPT ![v] = CpuIn(m)]
      /\ MemOf' = [MemOf EXCEPT ![v] = MemIn(m)]
      /\ DiskOf' = [DiskOf EXCEPT ![v] = DiskIn(m)]
  BY <1>3, UsageType
<1>5. /\ CpuOf \in [VMs -> Nat] /\ MemOf \in [VMs -> Nat] /\ DiskOf \in [VMs -> Nat]
      /\ CpuOf[v] = CpuIn(vm[v]) /\ MemOf[v] = MemIn(vm[v]) /\ DiskOf[v] = DiskIn(vm[v])
      /\ IsFiniteSet(VMs)
  BY UsageType, FiniteAssumption
<1>6. SumFunction(CpuOf') = SumFunction(CpuOf) - CpuOf[v] + CpuIn(m)
  BY <1>1, <1>4, <1>5, SumChanges, Zenon
<1>7. SumFunction(MemOf') = SumFunction(MemOf) - MemOf[v] + MemIn(m)
  BY <1>1, <1>4, <1>5, SumChanges, Zenon
<1>8. SumFunction(DiskOf') = SumFunction(DiskOf) - DiskOf[v] + DiskIn(m)
  BY <1>1, <1>4, <1>5, SumChanges, Zenon
<1> QED
  BY <1>5, <1>6, <1>7, <1>8 DEF UsedCpu, UsedMem, UsedDisk

LEMMA SameUsage ==
  ASSUME vm' = vm
  PROVE  UNCHANGED <<UsedCpu, UsedMem, UsedDisk>>
BY DEF UsedCpu, UsedMem, UsedDisk, CpuOf, MemOf, DiskOf, Running, Exists

\* A machine in another state, one with a disk of another size, and one that is
\* configured anew.
Switched(m, status) == [m EXCEPT !.status = status]
Resized(m, k, size) == [m EXCEPT !.disk[k] = size]
Configured(m, cpu, mem) == WithMem(WithCpu(m, cpu), mem)

LEMMA DiskChanges ==
  ASSUME NEW m \in Machines, NEW k \in Slots, NEW size \in Nat
  PROVE  /\ Resized(m, k, size) \in Machines
         /\ CpuIn(Resized(m, k, size)) = CpuIn(m) /\ MemIn(Resized(m, k, size)) = MemIn(m)
         /\ DiskIn(Resized(m, k, size)) = DiskIn(m) - m.disk[k] + size
         /\ m.disk[k] \in Nat /\ DiskIn(m) \in Nat
<1> DEFINE n == [m EXCEPT !.disk[k] = size]
<1>1. n \in Machines /\ m # None /\ n # None
  BY ChangedMachine, NoneIsNothing
<1>2. /\ n.status = m.status /\ n.cpu = m.cpu /\ n.mem = m.mem
      /\ n.disk = [m.disk EXCEPT ![k] = size]
      /\ m.disk \in [Slots -> Nat] /\ IsFiniteSet(Slots)
  BY FiniteAssumption DEF Machines
<1>3. n = Resized(m, k, size)
  BY DEF Resized
<1> HIDE DEF n
<1>4. SumFunction(n.disk) = SumFunction(m.disk) - m.disk[k] + size
  <2>1. SumFunction([m.disk EXCEPT ![k] = size]) = SumFunction(m.disk) - m.disk[k] + size
    BY <1>2, DisksSum, Zenon
  <2> QED
    BY <1>2, <2>1, Zenon
<1>5. SumFunction(m.disk) \in Nat /\ m.disk[k] \in Nat
  BY <1>2, SumType, FiniteAssumption
<1>6. CpuIn(n) = CpuIn(m) /\ MemIn(n) = MemIn(m)
  BY <1>1, <1>2 DEF CpuIn, MemIn
<1>7. DiskIn(n) = DiskIn(m) - m.disk[k] + size /\ DiskIn(m) \in Nat
  BY <1>1, <1>4, <1>5 DEF DiskIn
<1> QED
  BY <1>1, <1>3, <1>5, <1>6, <1>7

\* A machine that has just been made counts with its disk only.
LEMMA NewUsage ==
  ASSUME NEW cpu \in Cores \cup {Template.cpu}, NEW mem \in Nat \ {0}, NEW size \in Nat
  PROVE  /\ NewVm(cpu, mem, size) \in Machines /\ NewVm(cpu, mem, size).status = "stopped"
         /\ CpuIn(NewVm(cpu, mem, size)) = 0 /\ MemIn(NewVm(cpu, mem, size)) = 0
         /\ DiskIn(NewVm(cpu, mem, size)) = size
<1> DEFINE n == NewVm(cpu, mem, size)
<1>1. n \in Machines /\ n # None
  BY NewMachine, NoneIsNothing
<1>2. NoDisk \in [Slots -> Nat] /\ NoDisk[0] = 0 /\ \A k \in Slots : NoDisk[k] = 0
      /\ 0 \in Slots /\ IsFiniteSet(Slots)
  BY FiniteAssumption DEF NoDisk
<1>3. SumFunction(NoDisk) = 0
  BY <1>2, SumOfZeros, FiniteAssumption
<1>4. SumFunction([NoDisk EXCEPT ![0] = size]) = 0 - 0 + size
  <2>1. SumFunction([NoDisk EXCEPT ![0] = size]) = SumFunction(NoDisk) - NoDisk[0] + size
    BY <1>2, DisksSum
  <2> QED
    BY <1>2, <1>3, <2>1
<1>5. n.status = "stopped" /\ n.disk = [NoDisk EXCEPT ![0] = size]
  BY DEF NewVm
<1> QED
  BY <1>1, <1>4, <1>5 DEF CpuIn, MemIn, DiskIn

LEMMA CloneUsage ==
  /\ Clone \in Machines /\ Clone.status = "stopped"
  /\ CpuIn(Clone) = 0 /\ MemIn(Clone) = 0 /\ DiskIn(Clone) = Template.size
<1> DEFINE m == NewVm(Template.cpu, Template.mem, Template.size)
<1>1. /\ Template.cpu \in Cores \cup {Template.cpu}
      /\ Template.mem \in Nat \ {0} /\ Template.size \in Nat
  BY AmountsAssumption
<1>2. m \in Machines /\ m.status = "stopped" /\ DiskIn(m) = Template.size
  BY <1>1, NewUsage
<1>3. Clone = [m EXCEPT !.cores = Template.cores]
  BY DEF Clone
<1> HIDE DEF m
<1>4. Clone.status = "stopped" /\ Clone.disk = m.disk
  BY <1>2, <1>3 DEF Machines
<1>5. Clone \in Machines /\ Clone # None /\ m # None
  BY <1>2, CloneMachine, NoneIsNothing
<1> QED
  BY <1>2, <1>4, <1>5 DEF CpuIn, MemIn, DiskIn

LEMMA StatusChanges ==
  ASSUME NEW m \in Machines, NEW status \in {"stopped", "running", "suspended"}
  PROVE  /\ Switched(m, status) \in Machines /\ DiskIn(Switched(m, status)) = DiskIn(m)
         /\ CpuIn(Switched(m, status)) = IF status = "running" THEN m.cpu ELSE 0
         /\ MemIn(Switched(m, status)) = IF status = "running" THEN m.mem ELSE 0
<1> DEFINE n == [m EXCEPT !.status = status]
<1>1. n \in Machines /\ m # None /\ n # None
  BY ChangedMachine, NoneIsNothing
<1>2. n.status = status /\ n.cpu = m.cpu /\ n.mem = m.mem /\ n.disk = m.disk
  BY DEF Machines
<1>3. n = Switched(m, status)
  BY DEF Switched
<1> HIDE DEF n
<1> QED
  BY <1>1, <1>2, <1>3 DEF CpuIn, MemIn, DiskIn

LEMMA CpuChanges ==
  ASSUME NEW m \in Machines, NEW cpu \in Cores \cup {Template.cpu}
  PROVE  /\ WithCpu(m, cpu) \in Machines /\ WithCpu(m, cpu).status = m.status
         /\ WithCpu(m, cpu).cpu = cpu /\ WithCpu(m, cpu).mem = m.mem
         /\ CpuIn(WithCpu(m, cpu)) = IF m.status = "running" THEN cpu ELSE 0
         /\ MemIn(WithCpu(m, cpu)) = MemIn(m) /\ DiskIn(WithCpu(m, cpu)) = DiskIn(m)
<1> DEFINE n == WithCpu(m, cpu)
<1>1. n \in Machines /\ m # None /\ n # None
  BY ChangedMachine, NoneIsNothing
<1>2. n.status = m.status /\ n.cpu = cpu /\ n.mem = m.mem /\ n.disk = m.disk
  BY DEF Machines, WithCpu
<1> HIDE DEF n
<1>3. /\ CpuIn(n) = IF m.status = "running" THEN cpu ELSE 0
      /\ MemIn(n) = MemIn(m) /\ DiskIn(n) = DiskIn(m)
  BY <1>1, <1>2 DEF CpuIn, MemIn, DiskIn
<1> QED
  BY <1>1, <1>2, <1>3 DEF n

LEMMA MemChanges ==
  ASSUME NEW m \in Machines, NEW mem \in Nat \ {0}
  PROVE  /\ WithMem(m, mem) \in Machines /\ WithMem(m, mem).status = m.status
         /\ WithMem(m, mem).cpu = m.cpu /\ WithMem(m, mem).mem = mem
         /\ MemIn(WithMem(m, mem)) = IF m.status = "running" THEN mem ELSE 0
         /\ CpuIn(WithMem(m, mem)) = CpuIn(m) /\ DiskIn(WithMem(m, mem)) = DiskIn(m)
<1> DEFINE n == WithMem(m, mem)
<1>1. n \in Machines /\ m # None /\ n # None
  BY ChangedMachine, NoneIsNothing
<1>2. n.status = m.status /\ n.cpu = m.cpu /\ n.mem = mem /\ n.disk = m.disk
  BY DEF Machines, WithMem
<1> HIDE DEF n
<1>3. /\ MemIn(n) = IF m.status = "running" THEN mem ELSE 0
      /\ CpuIn(n) = CpuIn(m) /\ DiskIn(n) = DiskIn(m)
  BY <1>1, <1>2 DEF CpuIn, MemIn, DiskIn
<1> QED
  BY <1>1, <1>2, <1>3 DEF n

LEMMA ConfigurationChanges ==
  ASSUME NEW m \in Machines, NEW cpu \in Cores \cup {Template.cpu}, NEW mem \in Nat \ {0}
  PROVE  /\ Configured(m, cpu, mem) \in Machines /\ DiskIn(Configured(m, cpu, mem)) = DiskIn(m)
         /\ Configured(m, cpu, mem).status = m.status
         /\ Configured(m, cpu, mem).cpu = cpu /\ Configured(m, cpu, mem).mem = mem
         /\ m.status # "running" =>
              CpuIn(Configured(m, cpu, mem)) = 0 /\ MemIn(Configured(m, cpu, mem)) = 0
<1> DEFINE n == WithCpu(m, cpu)
<1>1. /\ n \in Machines /\ n.status = m.status /\ n.cpu = cpu
      /\ CpuIn(n) = (IF m.status = "running" THEN cpu ELSE 0) /\ DiskIn(n) = DiskIn(m)
  BY CpuChanges
<1>2. Configured(m, cpu, mem) = WithMem(n, mem)
  BY DEF Configured
<1> HIDE DEF n
<1> QED
  BY <1>1, <1>2, MemChanges

LEMMA ConfiguredStatus ==
  ASSUME NEW m \in Machines, NEW cpu \in Cores \cup {Template.cpu}, NEW mem \in Nat \ {0}
  PROVE  Configured(m, cpu, mem).status = m.status
  BY ConfigurationChanges

LEMMA ConfiguredDisks ==
  ASSUME NEW m \in Machines, NEW cpu \in Cores \cup {Template.cpu}, NEW mem \in Nat \ {0}
  PROVE  DiskIn(Configured(m, cpu, mem)) = DiskIn(m)
  BY ConfigurationChanges

-----------------------------------------------------------------------------
(* Limits hold                                                             *)

\* A step may take usage past a limit if a request is excused that takes it,
\* and none of which the usage does not go up does.
LEMMA ExcusedCpu ==
  ASSUME NEW p \in Web, pc'[p] # pc[p],
         \/ p \notin fresh \/ pc[p] = "resume"
         \/ pc[p] = "start" /\ SeveralSockets(req[p].vm)
  PROVE  CpuHolds
BY DEF CpuHolds, Excused

LEMMA ExcusedMem ==
  ASSUME NEW p \in Web, pc'[p] # pc[p], p \notin fresh \/ pc[p] \in {"resume", "mem"}
  PROVE  MemHolds
BY DEF MemHolds, Excused

LEMMA ExcusedDisk ==
  ASSUME NEW p \in Web, pc'[p] # pc[p],
         p \notin fresh \/ (pc[p] = "template" /\ req[p].size < Template.size)
  PROVE  DiskHolds
BY DEF DiskHolds, Excused

LEMMA SameUsageHolds ==
  ASSUME StoreTypes, vm' = vm
  PROVE  CpuHolds /\ MemHolds /\ DiskHolds
<1>1. UNCHANGED <<UsedCpu, UsedMem, UsedDisk>>
  BY SameUsage
<1>2. UsedCpu \in Nat /\ UsedMem \in Nat /\ UsedDisk \in Nat
  BY UsageType
<1>3. ~ (UsedCpu' > UsedCpu) /\ ~ (UsedMem' > UsedMem) /\ ~ (UsedDisk' > UsedDisk)
  BY <1>1, <1>2
<1> QED
  BY <1>3 DEF CpuHolds, MemHolds, DiskHolds

\* What a machine counts with goes up by no more than what fits, or not at all.
LEMMA CpuStaysWithin ==
  ASSUME StoreTypes, NEW v \in VMs, NEW m \in Machines \cup {None}, vm' = [vm EXCEPT ![v] = m],
         \/ CpuIn(m) <= CpuIn(vm[v])
         \/ CpuFits(CpuIn(m) - CpuIn(vm[v]))
  PROVE  CpuHolds
<1>1. UsedCpu' = UsedCpu - CpuIn(vm[v]) + CpuIn(m)
  BY OneMachineChanges
<1>2. vm[v] \in Machines \cup {None}
  BY DEF StoreTypes
<1>3. UsedCpu \in Nat /\ CpuIn(m) \in Nat /\ CpuIn(vm[v]) \in Nat /\ limit.cpu \in Nat
  BY <1>2, UsageType, MachineUsage
<1>4. ~ (UsedCpu' > UsedCpu) \/ ~ (UsedCpu' > limit.cpu)
  BY <1>1, <1>3 DEF CpuFits
<1> QED
  BY <1>4 DEF CpuHolds

LEMMA MemStaysWithin ==
  ASSUME StoreTypes, NEW v \in VMs, NEW m \in Machines \cup {None}, vm' = [vm EXCEPT ![v] = m],
         \/ MemIn(m) <= MemIn(vm[v])
         \/ MemFits(MemIn(m) - MemIn(vm[v]))
  PROVE  MemHolds
<1>1. UsedMem' = UsedMem - MemIn(vm[v]) + MemIn(m)
  BY OneMachineChanges
<1>2. vm[v] \in Machines \cup {None}
  BY DEF StoreTypes
<1>3. UsedMem \in Nat /\ MemIn(m) \in Nat /\ MemIn(vm[v]) \in Nat /\ limit.mem \in Nat
  BY <1>2, UsageType, MachineUsage
<1>4. UsedMem <= (UsedMem \div 1024) * 1024 + 1023
  BY <1>3
<1>5. ~ (UsedMem' > UsedMem) \/ ~ (UsedMem' > limit.mem * 1024 + 1023)
  BY <1>1, <1>3, <1>4 DEF MemFits
<1> QED
  BY <1>5 DEF MemHolds

LEMMA DiskStaysWithin ==
  ASSUME StoreTypes, NEW v \in VMs, NEW m \in Machines \cup {None}, vm' = [vm EXCEPT ![v] = m],
         \/ DiskIn(m) <= DiskIn(vm[v])
         \/ DiskFits(DiskIn(m) - DiskIn(vm[v]))
  PROVE  DiskHolds
<1>1. UsedDisk' = UsedDisk - DiskIn(vm[v]) + DiskIn(m)
  BY OneMachineChanges
<1>2. vm[v] \in Machines \cup {None}
  BY DEF StoreTypes
<1>3. UsedDisk \in Nat /\ DiskIn(m) \in Nat /\ DiskIn(vm[v]) \in Nat /\ limit.disk \in Nat
  BY <1>2, UsageType, MachineUsage
<1>4. ~ (UsedDisk' > UsedDisk) \/ ~ (UsedDisk' > limit.disk)
  BY <1>1, <1>3 DEF DiskFits
<1> QED
  BY <1>4 DEF DiskHolds

\* What fits, does so also if less than that is asked for.
LEMMA LessFits ==
  ASSUME StoreTypes, NEW most \in Nat, NEW less \in Int, less <= most
  PROVE  /\ CpuFits(most) => CpuFits(less)
         /\ MemFits(most) => MemFits(less)
         /\ DiskFits(most) => DiskFits(less)
<1>1. /\ UsedCpu \in Nat /\ UsedMem \in Nat /\ UsedDisk \in Nat
      /\ limit.cpu \in Nat /\ limit.mem \in Nat /\ limit.disk \in Nat
  BY UsageType
<1>2. CpuFits(most) => CpuFits(less)
  BY <1>1 DEF CpuFits
<1>3. MemFits(most) => MemFits(less)
  BY <1>1 DEF MemFits
<1>4. DiskFits(most) => DiskFits(less)
  BY <1>1 DEF DiskFits
<1> QED
  BY <1>2, <1>3, <1>4

\* The machine a request is about, as the actions change it.
LEMMA Machine ==
  ASSUME StoreTypes, NEW v \in VMs, Exists(v)
  PROVE  /\ vm[v] \in Machines /\ vm[v] # None
         /\ vm[v].cpu \in Nat /\ vm[v].mem \in Nat
         /\ CpuIn(vm[v]) = IF Running(v) THEN vm[v].cpu ELSE 0
         /\ MemIn(vm[v]) = IF Running(v) THEN vm[v].mem ELSE 0
         /\ DiskIn(vm[v]) \in Nat
<1>1. vm[v] \in Machines /\ vm[v] # None
  BY DEF StoreTypes, Exists
<1>2. vm[v].cpu \in Nat /\ vm[v].mem \in Nat /\ DiskIn(vm[v]) \in Nat
  BY <1>1, AmountsAssumption, MachineUsage DEF Machines
<1> QED
  BY <1>1, <1>2 DEF CpuIn, MemIn, Running, Exists

\* A machine with the same disks, or one that counts with the same cores and
\* memory, is within the limits.
LEMMA SameDisksWithin ==
  ASSUME StoreTypes, NEW v \in VMs, NEW m \in Machines, vm' = [vm EXCEPT ![v] = m],
         DiskIn(m) = DiskIn(vm[v])
  PROVE  DiskHolds
<1>1. vm[v] \in Machines \cup {None} /\ m \in Machines \cup {None}
  BY DEF StoreTypes
<1>2. DiskIn(m) <= DiskIn(vm[v])
  BY <1>1, MachineUsage
<1> QED
  BY <1>1, <1>2, DiskStaysWithin

LEMMA SameCountWithin ==
  ASSUME StoreTypes, NEW v \in VMs, NEW m \in Machines, vm' = [vm EXCEPT ![v] = m],
         CpuIn(m) = CpuIn(vm[v]), MemIn(m) = MemIn(vm[v])
  PROVE  CpuHolds /\ MemHolds
<1>1. vm[v] \in Machines \cup {None} /\ m \in Machines \cup {None}
  BY DEF StoreTypes
<1>2. CpuIn(m) <= CpuIn(vm[v]) /\ MemIn(m) <= MemIn(vm[v])
  BY <1>1, MachineUsage
<1> QED
  BY <1>1, <1>2, CpuStaysWithin, MemStaysWithin

\* A request that starts a VM has checked for all of it, unless it has several
\* sockets, and the VM that a job starts has what was checked for.
LEMMA StartsWithin ==
  ASSUME Typed, ChecksHold, NEW p \in Web, PowerOn(p) \/ Launch(p)
  PROVE  CpuHolds /\ MemHolds /\ DiskHolds
<1> DEFINE v == req[p].vm
           m == Switched(vm[v], "running")
<1>0. /\ StoreTypes /\ RequestTypes /\ RequestsFit /\ v \in VMs /\ pc'[p] # pc[p]
  BY DEF Typed, RequestsOK, RequestTypes, RequestsFit, PowerOn, Launch, End, Goto
<1>1. CASE vm' = vm
  BY <1>0, <1>1, SameUsageHolds
<1>2. CASE Exists(v) /\ vm' = [vm EXCEPT ![v] = m]
  <2>1. /\ m \in Machines /\ DiskIn(m) = DiskIn(vm[v])
        /\ CpuIn(m) = vm[v].cpu /\ MemIn(m) = vm[v].mem
    BY <1>0, <1>2, Machine, StatusChanges
  <2>2. /\ vm[v] \in Machines /\ DiskIn(vm[v]) \in Nat /\ vm[v].cpu \in Nat /\ vm[v].mem \in Nat
        /\ CpuIn(vm[v]) \in 0 .. vm[v].cpu /\ MemIn(vm[v]) \in 0 .. vm[v].mem
    BY <1>0, <1>2, Machine
  <2> HIDE DEF m
  <2>3. DiskHolds
    BY <1>0, <1>2, <2>1, SameDisksWithin
  <2>4. CASE p \notin fresh \/ pc[p] = "resume"
    BY <1>0, <2>3, <2>4, ExcusedCpu, ExcusedMem
  <2>5. CASE p \in fresh /\ pc[p] # "resume"
    <3>1. StillFits(p) /\ pc[p] \in {"start", "launch"}
      BY <2>5 DEF ChecksHold, PowerOn, Launch
    <3>2. /\ MemFits(vm[v].mem)
          /\ CpuFits(vm[v].cpu) \/ (pc[p] = "start" /\ SeveralSockets(v))
      BY <3>1 DEF StillFits, SeveralSockets
    <3>3. /\ vm[v].cpu - CpuIn(vm[v]) \in Int /\ vm[v].cpu - CpuIn(vm[v]) <= vm[v].cpu
          /\ vm[v].mem - MemIn(vm[v]) \in Int /\ vm[v].mem - MemIn(vm[v]) <= vm[v].mem
      BY <2>2
    <3>4. MemFits(vm[v].mem - MemIn(vm[v]))
      BY <1>0, <2>2, <3>2, <3>3, LessFits
    <3>5. MemHolds
      BY <1>0, <1>2, <2>1, <3>4, MemStaysWithin
    <3>6. CASE CpuFits(vm[v].cpu)
      <4>1. CpuFits(vm[v].cpu - CpuIn(vm[v]))
        BY <1>0, <2>2, <3>3, <3>6, LessFits
      <4> QED
        BY <1>0, <1>2, <2>1, <2>3, <3>5, <4>1, CpuStaysWithin
    <3>7. CASE pc[p] = "start" /\ SeveralSockets(v)
      BY <1>0, <2>3, <3>5, <3>7, ExcusedCpu
    <3> QED
      BY <3>2, <3>6, <3>7
  <2> QED
    BY <2>4, <2>5
<1>3. Exists(v) /\ vm' # vm => vm' = [vm EXCEPT ![v] = m]
  BY <1>0 DEF PowerOn, Launch, StoreTypes, Switched
<1>4. ~ Exists(v) => vm' = vm
  BY DEF PowerOn, Launch
<1> QED
  BY <1>1, <1>2, <1>3, <1>4

\* vm_cpu has checked for what the VM gets more, if it runs.
LEMMA ConfiguresWithin ==
  ASSUME Typed, ChecksHold, NEW p \in Web, Configure(p)
  PROVE  CpuHolds /\ MemHolds /\ DiskHolds
<1> DEFINE v == req[p].vm
           m == IF pc[p] = "cpu" THEN WithCpu(vm[v], req[p].cpu) ELSE WithMem(vm[v], req[p].mem)
<1>0. /\ StoreTypes /\ RequestTypes /\ RequestsFit /\ v \in VMs /\ pc'[p] # pc[p]
      /\ req[p].cpu \in Nat /\ pc[p] \in {"cpu", "mem"}
      /\ pc[p] = "cpu" => req[p].cpu \in Cores
      /\ pc[p] = "mem" => req[p].mem \in Nat \ {0}
  BY DEF Typed, RequestsOK, RequestTypes, RequestsFit, Requests, Configure, End, Goto
<1>1. CASE ~ Changeable(v)
  <2>1. vm' = vm
    BY <1>1 DEF Configure
  <2> QED
    BY <1>0, <2>1, SameUsageHolds
<1>2. CASE Changeable(v)
  <2>1. /\ Exists(v) /\ vm[v] \in Machines /\ CpuIn(vm[v]) \in Nat /\ MemIn(vm[v]) \in Nat
        /\ vm[v].cpu \in Nat
        /\ CpuIn(vm[v]) = IF Running(v) THEN vm[v].cpu ELSE 0
        /\ Running(v) <=> vm[v].status = "running"
    BY <1>0, <1>2, Machine DEF Changeable, Running
  <2>2. vm' = [vm EXCEPT ![v] = m]
    BY <1>2 DEF Configure
  <2>3. /\ m \in Machines /\ DiskIn(m) = DiskIn(vm[v])
        /\ pc[p] = "mem" => CpuIn(m) = CpuIn(vm[v])
        /\ pc[p] = "cpu" => /\ MemIn(m) = MemIn(vm[v])
                            /\ CpuIn(m) = IF Running(v) THEN req[p].cpu ELSE 0
    BY <1>0, <2>1, CpuChanges, MemChanges
  <2> HIDE DEF m
  <2>4. DiskHolds
    BY <1>0, <2>2, <2>3, SameDisksWithin
  <2>5. CASE p \notin fresh
    BY <1>0, <2>4, <2>5, ExcusedCpu, ExcusedMem
  <2>6. CASE p \in fresh /\ pc[p] = "mem"
    <3>1. CpuIn(m) <= CpuIn(vm[v])
      BY <2>1, <2>3, <2>6
    <3> QED
      BY <1>0, <2>2, <2>3, <2>4, <2>6, <3>1, CpuStaysWithin, ExcusedMem
  <2>7. CASE p \in fresh /\ pc[p] = "cpu"
    <3>1. MemIn(m) <= MemIn(vm[v])
      BY <2>1, <2>3, <2>7
    <3>2. Running(v) => req[p].cpu < vm[v].cpu \/ CpuFits(req[p].cpu - vm[v].cpu)
      BY <2>7 DEF ChecksHold, StillFits
    <3>3. CpuIn(m) <= CpuIn(vm[v]) \/ CpuFits(CpuIn(m) - CpuIn(vm[v]))
      BY <1>0, <2>1, <2>3, <2>7, <3>2
    <3> QED
      BY <1>0, <2>2, <2>3, <2>4, <3>1, <3>3, CpuStaysWithin, MemStaysWithin
  <2> QED
    BY <1>0, <2>5, <2>6, <2>7
<1> QED
  BY <1>1, <1>2

\* create_disk and resize_disk have checked for what is added, once.
LEMMA DisksWithin ==
  ASSUME Typed, ChecksHold, NEW p \in Web, Attach(p) \/ Resize(p) \/ LoseAnswer(p)
  PROVE  CpuHolds /\ MemHolds /\ DiskHolds
<1> DEFINE v == req[p].vm
           k == req[p].slot
           d == vm[v].disk[k]
<1>0. /\ StoreTypes /\ RequestTypes /\ RequestsFit /\ v \in VMs /\ k \in Slots
      /\ pc'[p] # pc[p] /\ req[p].size \in Nat
      /\ pc[p] \in {"attach", "attach again", "resize", "resize again"}
  BY DEF Typed, RequestsOK, RequestTypes, RequestsFit, Requests, Attach, Resize, LoseAnswer,
     End, Goto
<1>1. CASE vm' = vm
  BY <1>0, <1>1, SameUsageHolds
<1>2. CASE vm' # vm
  <2>1. Exists(v)
    BY <1>2 DEF Attach, Resize, LoseAnswer, Changeable
  <2>2. vm[v] \in Machines /\ d \in Nat
    BY <1>0, <2>1, Machine DEF Machines
  <2>3. PICK size \in {req[p].size, d + req[p].size} :
          vm' = [vm EXCEPT ![v] = Resized(vm[v], k, size)]
    BY <1>0, <1>2, <2>2 DEF Attach, Resize, LoseAnswer, NewDisk, Grow, StoreTypes, Machines, Resized
  <2> DEFINE m == Resized(vm[v], k, size)
  <2>4. size \in Nat /\ size - d <= req[p].size
    <3> HIDE DEF d
    <3>1. size = req[p].size \/ size = d + req[p].size
      BY <2>3
    <3>2. req[p].size \in Nat /\ d \in Nat
      BY <1>0, <2>2
    <3> QED
      BY <3>1, <3>2
  <2>5. /\ m \in Machines /\ CpuIn(m) = CpuIn(vm[v]) /\ MemIn(m) = MemIn(vm[v])
        /\ DiskIn(m) = DiskIn(vm[v]) - d + size /\ DiskIn(vm[v]) \in Nat
    BY <1>0, <2>2, <2>4, DiskChanges
  <2>6. vm' = [vm EXCEPT ![v] = m]
    BY <2>3
  <2> HIDE DEF m, d
  <2>7. CpuHolds /\ MemHolds
    BY <1>0, <2>5, <2>6, SameCountWithin
  <2>8. CASE p \notin fresh
    BY <1>0, <2>7, <2>8, ExcusedDisk
  <2>9. CASE p \in fresh
    <3>1. StillFits(p)
      BY <2>9 DEF ChecksHold
    <3>2. pc[p] \in {"attach", "resize"}
      BY <1>0, <3>1 DEF StillFits
    <3>3. DiskFits(req[p].size)
      BY <3>1, <3>2 DEF StillFits
    <3>4. DiskIn(m) - DiskIn(vm[v]) = size - d /\ size - d \in Int
      BY <2>2, <2>4, <2>5
    <3>5. DiskFits(DiskIn(m) - DiskIn(vm[v]))
      BY <1>0, <2>4, <3>3, <3>4, LessFits
    <3> QED
      BY <1>0, <2>5, <2>6, <2>7, <3>5, DiskStaysWithin
  <2> QED
    BY <2>8, <2>9
<1> QED
  BY <1>1, <1>2

\* A VM that is made is stopped, and has the disk that was asked for, or its
\* template's.
LEMMA MakesWithin ==
  ASSUME Typed, ChecksHold, NEW p \in Web, NEW v \in VMs, CreateVm(p, v)
  PROVE  CpuHolds /\ MemHolds /\ DiskHolds
<1>0. /\ StoreTypes /\ RequestTypes /\ RequestsFit /\ req[p].size \in Nat
      /\ pc[p] \in {"create", "template"} /\ pc'[p] # pc[p]
      /\ CpuIn(vm[v]) = 0 /\ MemIn(vm[v]) = 0 /\ DiskIn(vm[v]) = 0
  BY DEF Typed, RequestsOK, RequestTypes, Requests, CreateVm, End, GoOn, Goto, Exists,
     CpuIn, MemIn, DiskIn
<1>1. ASSUME NEW m \in Machines, NEW size \in Nat,
             vm' = [vm EXCEPT ![v] = m], CpuIn(m) = 0, MemIn(m) = 0, DiskIn(m) = size,
             size <= req[p].size \/ (pc[p] = "template" /\ req[p].size < Template.size)
      PROVE  CpuHolds /\ MemHolds /\ DiskHolds
  <2>1. CpuHolds /\ MemHolds
    BY <1>0, <1>1, SameCountWithin
  <2>2. CASE p \notin fresh \/ (pc[p] = "template" /\ req[p].size < Template.size)
    BY <1>0, <2>1, <2>2, ExcusedDisk
  <2>3. CASE p \in fresh /\ size <= req[p].size
    <3>1. DiskFits(req[p].size)
      BY <1>0, <2>3 DEF ChecksHold, StillFits
    <3>2. DiskFits(size) /\ DiskIn(m) - DiskIn(vm[v]) = size
      BY <1>0, <1>1, <2>3, <3>1, LessFits
    <3> QED
      BY <1>0, <1>1, <2>1, <3>2, DiskStaysWithin
  <2> QED
    BY <1>1, <2>2, <2>3
<1>2. CASE pc[p] = "create"
  <2>1. req[p].cpu \in Cores \cup {Template.cpu} /\ req[p].mem \in Nat \ {0}
    BY <1>0, <1>2 DEF RequestsFit
  <2> DEFINE m == NewVm(req[p].cpu, req[p].mem, req[p].size)
  <2>2. m \in Machines /\ CpuIn(m) = 0 /\ MemIn(m) = 0 /\ DiskIn(m) = req[p].size
    BY <1>0, <2>1, NewUsage
  <2>3. vm' = [vm EXCEPT ![v] = m]
    BY <1>2 DEF CreateVm
  <2> HIDE DEF m
  <2>4. req[p].size \in Nat /\ req[p].size <= req[p].size
    BY <1>0
  <2> QED
    BY <1>1, <2>2, <2>3, <2>4
<1>3. CASE pc[p] = "template"
  <2>1. Template.size \in Nat
    BY AmountsAssumption
  <2>2. /\ Clone \in Machines /\ CpuIn(Clone) = 0 /\ MemIn(Clone) = 0
        /\ DiskIn(Clone) = Template.size
    BY CloneUsage
  <2>3. vm' = [vm EXCEPT ![v] = Clone]
    BY <1>3 DEF CreateVm
  <2>4. Template.size <= req[p].size \/ req[p].size < Template.size
    BY <1>0, <2>1
  <2> QED
    BY <1>1, <1>3, <2>1, <2>2, <2>3, <2>4
<1> QED
  BY <1>0, <1>2, <1>3

\* is_provisioned gives a clone the cores it has already.
LEMMA ProvisionWithin ==
  ASSUME Typed, NEW p \in Web, Provision(p)
  PROVE  CpuHolds /\ MemHolds /\ DiskHolds
<1> DEFINE v == req[p].vm
           m == WithCpu(vm[v], vm[v].cpu)
<1>0. StoreTypes /\ v \in VMs
  BY DEF Typed, RequestsOK, RequestsFit, Provision
<1>1. CASE ~ Changeable(v)
  <2>1. vm' = vm
    BY <1>1 DEF Provision
  <2> QED
    BY <1>0, <2>1, SameUsageHolds
<1>2. CASE Changeable(v)
  <2>1. Exists(v) /\ vm[v] \in Machines /\ vm[v] # None
    BY <1>0, <1>2, Machine DEF Changeable
  <2>2. vm' = [vm EXCEPT ![v] = m]
    BY <1>2 DEF Provision
  <2>3. vm[v].cpu \in Cores \cup {Template.cpu}
    BY <2>1 DEF Machines
  <2>4. /\ m \in Machines /\ MemIn(m) = MemIn(vm[v]) /\ DiskIn(m) = DiskIn(vm[v])
        /\ CpuIn(m) = IF vm[v].status = "running" THEN vm[v].cpu ELSE 0
    BY <2>1, <2>3, CpuChanges
  <2> HIDE DEF m
  <2>5. CpuIn(m) = CpuIn(vm[v])
    BY <2>1, <2>4 DEF CpuIn
  <2> QED
    BY <1>0, <2>2, <2>4, <2>5, SameCountWithin, SameDisksWithin
<1> QED
  BY <1>1, <1>2

\* A clone gets what was asked for before it runs.
LEMMA SetUpWithin ==
  ASSUME Typed, ChecksHold, NEW p \in Web, SetUpClone(p)
  PROVE  CpuHolds /\ MemHolds /\ DiskHolds
<1> DEFINE v == req[p].vm
           m == Configured(vm[v], req[p].cpu, req[p].mem)
<1>0. /\ StoreTypes /\ RequestTypes /\ RequestsFit /\ v \in VMs /\ pc'[p] # pc[p]
      /\ pc[p] = "set up" /\ req[p].cpu \in Cores \cup {Template.cpu} /\ req[p].mem \in Nat \ {0}
  BY DEF Typed, RequestsOK, RequestTypes, RequestsFit, SetUpClone, End, GoOn, Goto
<1>1. CASE ~ Changeable(v)
  <2>1. vm' = vm
    BY <1>1 DEF SetUpClone
  <2> QED
    BY <1>0, <2>1, SameUsageHolds
<1>2. CASE Changeable(v)
  <2>1. Exists(v) /\ vm[v] \in Machines /\ DiskIn(vm[v]) \in Nat
    BY <1>0, <1>2, Machine DEF Changeable
  <2>2. vm' = [vm EXCEPT ![v] = m]
    BY <1>2 DEF SetUpClone, Configured
  <2>3. /\ m \in Machines /\ DiskIn(m) = DiskIn(vm[v])
        /\ vm[v].status # "running" => CpuIn(m) = 0 /\ MemIn(m) = 0
    <3>1. /\ vm[v] \in Machines /\ req[p].cpu \in Cores \cup {Template.cpu}
          /\ req[p].mem \in Nat \ {0}
      BY <1>0, <2>1
    <3>2. m \in Machines
      BY <3>1, ConfigurationChanges, Zenon
    <3>3. DiskIn(m) = DiskIn(vm[v])
      BY <3>1, ConfiguredDisks, Zenon
    <3>4. vm[v].status # "running" => CpuIn(m) = 0
      BY <3>1, ConfigurationChanges, Zenon
    <3>5. vm[v].status # "running" => MemIn(m) = 0
      BY <3>1, ConfigurationChanges, Zenon
    <3> QED
      BY <3>2, <3>3, <3>4, <3>5
  <2> HIDE DEF m
  <2>4. DiskHolds
    BY <1>0, <2>2, <2>3, SameDisksWithin
  <2>5. CASE p \notin fresh
    BY <1>0, <2>4, <2>5, ExcusedCpu, ExcusedMem
  <2>6. CASE p \in fresh
    <3>1. vm[v].status = "stopped"
      BY <1>0, <2>6 DEF ChecksHold, StillFits
    <3>2. CpuIn(m) = CpuIn(vm[v]) /\ MemIn(m) = MemIn(vm[v])
      BY <2>3, <3>1 DEF CpuIn, MemIn
    <3> QED
      BY <1>0, <2>2, <2>3, <2>4, <3>2, SameCountWithin
  <2> QED
    BY <2>5, <2>6
<1> QED
  BY <1>1, <1>2

\* What others do takes no more.
LEMMA OthersWithin ==
  ASSUME Typed, NEW v \in VMs,
         \/ DeleteVm(v)
         \/ \E status \in {"stopped", "suspended"} : PowerOff(v, status)
         \/ \E k \in Slots : DeleteDisk(v, k)
  PROVE  CpuHolds /\ MemHolds /\ DiskHolds
<1>0. StoreTypes
  BY DEF Typed
<1>1. Exists(v)
  BY DEF DeleteVm, PowerOff, Running, DeleteDisk, Changeable
<1>2. vm[v] \in Machines /\ CpuIn(vm[v]) \in Nat /\ MemIn(vm[v]) \in Nat /\ DiskIn(vm[v]) \in Nat
  BY <1>0, <1>1, Machine, MachineUsage
<1>3. ASSUME NEW m \in Machines \cup {None}, vm' = [vm EXCEPT ![v] = m],
             CpuIn(m) <= CpuIn(vm[v]), MemIn(m) <= MemIn(vm[v]), DiskIn(m) <= DiskIn(vm[v])
      PROVE  CpuHolds /\ MemHolds /\ DiskHolds
  BY <1>0, <1>3, CpuStaysWithin, MemStaysWithin, DiskStaysWithin
<1>4. CASE DeleteVm(v)
  <2>1. CpuIn(None) = 0 /\ MemIn(None) = 0 /\ DiskIn(None) = 0
    BY DEF CpuIn, MemIn, DiskIn
  <2>2. vm' = [vm EXCEPT ![v] = None]
    BY <1>4 DEF DeleteVm
  <2>3. /\ None \in Machines \cup {None}
        /\ CpuIn(None) <= CpuIn(vm[v]) /\ MemIn(None) <= MemIn(vm[v])
        /\ DiskIn(None) <= DiskIn(vm[v])
    BY <1>2, <2>1
  <2> QED
    BY <1>3, <2>2, <2>3
<1>5. ASSUME NEW status \in {"stopped", "suspended"}, PowerOff(v, status)
      PROVE  CpuHolds /\ MemHolds /\ DiskHolds
  <2> DEFINE m == Switched(vm[v], status)
  <2>1. m \in Machines /\ DiskIn(m) = DiskIn(vm[v]) /\ CpuIn(m) = 0 /\ MemIn(m) = 0
    BY <1>2, StatusChanges
  <2>2. vm' = [vm EXCEPT ![v] = m]
    BY <1>0, <1>5 DEF PowerOff, StoreTypes, Switched
  <2> HIDE DEF m
  <2>3. /\ m \in Machines \cup {None}
        /\ CpuIn(m) <= CpuIn(vm[v]) /\ MemIn(m) <= MemIn(vm[v]) /\ DiskIn(m) <= DiskIn(vm[v])
    BY <1>2, <2>1
  <2> QED
    BY <1>3, <2>2, <2>3
<1>6. ASSUME NEW k \in Slots, DeleteDisk(v, k)
      PROVE  CpuHolds /\ MemHolds /\ DiskHolds
  <2> DEFINE m == Resized(vm[v], k, 0)
  <2>1. /\ m \in Machines /\ CpuIn(m) = CpuIn(vm[v]) /\ MemIn(m) = MemIn(vm[v])
        /\ DiskIn(m) = DiskIn(vm[v]) - vm[v].disk[k] + 0 /\ vm[v].disk[k] \in Nat
    BY <1>2, DiskChanges, 0 \in Nat
  <2>2. vm' = [vm EXCEPT ![v] = m]
    BY <1>0, <1>6 DEF DeleteDisk, StoreTypes, Resized
  <2> HIDE DEF m
  <2>3. /\ m \in Machines \cup {None}
        /\ CpuIn(m) <= CpuIn(vm[v]) /\ MemIn(m) <= MemIn(vm[v]) /\ DiskIn(m) <= DiskIn(vm[v])
    BY <1>2, <2>1
  <2> QED
    BY <1>3, <2>2, <2>3
<1> QED
  BY <1>4, <1>5, <1>6

-----------------------------------------------------------------------------
(* What was checked holds until the request acts, or something changes     *)

\* What a request has checked still holds if nothing has changed.
LEMMA NothingChanges ==
  ASSUME NEW q \in Web, StillFits(q), vm' = vm, limit' = limit,
         pc'[q] = pc[q], req'[q] = req[q]
  PROVE  StillFits(q)'
<1>1. UsedCpu' = UsedCpu /\ UsedMem' = UsedMem /\ UsedDisk' = UsedDisk
  BY SameUsage
<1>2. CASE pc[q] = "start"
  <2>1. Exists(req[q].vm) /\ CpuFits(vm[req[q].vm].cores) /\ MemFits(vm[req[q].vm].mem)
    BY <1>2 DEF StillFits
  <2> QED
    BY <1>1, <1>2, <2>1 DEF StillFits, CpuFits, MemFits, Exists
<1>3. CASE pc[q] = "cpu"
  <2>1. /\ Exists(req[q].vm)
        /\ Running(req[q].vm) =>
             req[q].cpu < vm[req[q].vm].cpu \/ CpuFits(req[q].cpu - vm[req[q].vm].cpu)
    BY <1>3 DEF StillFits
  <2> QED
    BY <1>1, <1>3, <2>1 DEF StillFits, CpuFits, Exists, Running
<1>4. CASE pc[q] \in {"disk", "attach", "resize", "create"}
  <2>1. DiskFits(req[q].size)
    BY <1>4 DEF StillFits
  <2> QED
    BY <1>1, <1>4, <2>1 DEF StillFits, DiskFits
<1>5. CASE pc[q] \in {"template", "clone", "set up", "launch"}
  <2>1. CpuFits(req[q].cpu)' /\ MemFits(req[q].mem)'
    <3>1. CpuFits(req[q].cpu) /\ MemFits(req[q].mem)
      BY <1>5 DEF StillFits
    <3> QED
      BY <1>1, <3>1 DEF CpuFits, MemFits
  <2>2. pc[q] = "template" => DiskFits(req[q].size)'
    <3>1. pc[q] = "template" => DiskFits(req[q].size)
      BY DEF StillFits
    <3> QED
      BY <1>1, <3>1 DEF DiskFits
  <2>3. pc[q] \in {"clone", "set up", "launch"} =>
          Exists(req[q].vm)' /\ vm'[req[q].vm].status = "stopped"
    BY DEF StillFits, Exists
  <2>4. pc[q] = "launch" => vm'[req[q].vm].cpu = req[q].cpu /\ vm'[req[q].vm].mem = req[q].mem
    BY DEF StillFits
  <2> QED
    BY <1>5, <2>1, <2>2, <2>3, <2>4 DEF StillFits
<1>6. CASE pc[q] \notin {"start", "cpu", "disk", "attach", "resize", "create",
                         "template", "clone", "set up", "launch"}
  BY <1>6 DEF StillFits
<1> QED
  BY <1>2, <1>3, <1>4, <1>5, <1>6

\* So do the checks of all of them, if that of the one that acts does.
LEMMA OthersKeep ==
  ASSUME ChecksHold, NEW p \in Web, limit' = limit, fresh \subseteq Web,
         \A q \in Web \ {p} : pc'[q] = pc[q] /\ req'[q] = req[q],
         \/ vm' = vm /\ fresh' \subseteq fresh \cup {p}
         \/ fresh' \subseteq {p},
         p \in fresh' => StillFits(p)'
  PROVE  ChecksHold'
<1>1. ASSUME NEW q \in fresh', q # p PROVE StillFits(q)'
  <2>1. q \in fresh /\ q \in Web /\ vm' = vm
    BY <1>1
  <2>2. StillFits(q) /\ pc'[q] = pc[q] /\ req'[q] = req[q]
    BY <1>1, <2>1 DEF ChecksHold
  <2> QED
    BY <2>1, <2>2, NothingChanges
<1> QED
  BY <1>1 DEF ChecksHold

LEMMA EndKeeps ==
  ASSUME Typed, ChecksHold, NEW p \in Web, End(p), limit' = limit
  PROVE  ChecksHold'
<1>1. /\ fresh \subseteq Web /\ p \notin fresh'
      /\ \A q \in Web \ {p} : pc'[q] = pc[q] /\ req'[q] = req[q]
      /\ (vm' = vm /\ fresh' \subseteq fresh \cup {p}) \/ fresh' \subseteq {p}
  BY DEF Typed, RequestsOK, RequestTypes, End, Goto
<1> QED
  BY <1>1, OthersKeep

LEMMA GoOnKeeps ==
  ASSUME Typed, ChecksHold, NEW p \in Web, NEW state, GoOn(p, state), limit' = limit,
         \A q \in Web \ {p} : req'[q] = req[q],
         p \in fresh => StillFits(p)'
  PROVE  ChecksHold'
<1>1. /\ fresh \subseteq Web /\ (p \in fresh' => p \in fresh)
      /\ \A q \in Web \ {p} : pc'[q] = pc[q] /\ req'[q] = req[q]
      /\ (vm' = vm /\ fresh' \subseteq fresh \cup {p}) \/ fresh' \subseteq {p}
  BY DEF Typed, RequestsOK, RequestTypes, GoOn, Goto
<1> QED
  BY <1>1, OthersKeep

\* A request that comes has its check before it.
LEMMA AskKeeps ==
  ASSUME Typed, ChecksHold, NEW p \in Web, NEW state, NEW v, NEW cpu, NEW mem, NEW size, NEW slot,
         Ask(p, state, v, cpu, mem, size, slot),
         StillFits(p)'
  PROVE  ChecksHold'
<1>1. /\ fresh \subseteq Web /\ limit' = limit
      /\ \A q \in Web \ {p} : pc'[q] = pc[q] /\ req'[q] = req[q]
      /\ vm' = vm /\ fresh' \subseteq fresh \cup {p}
  BY DEF Typed, RequestsOK, RequestTypes, Ask, Goto
<1> QED
  BY <1>1, OthersKeep

LEMMA Asked ==
  ASSUME Typed, NEW p \in Web, NEW state, NEW v, NEW cpu, NEW mem, NEW size, NEW slot,
         Ask(p, state, v, cpu, mem, size, slot)
  PROVE  /\ pc'[p] = state
         /\ req'[p].vm = v /\ req'[p].cpu = cpu /\ req'[p].mem = mem /\ req'[p].size = size
         /\ vm' = vm /\ limit' = limit /\ UNCHANGED <<UsedCpu, UsedMem, UsedDisk>>
<1>1. vm' = vm
  BY DEF Ask
<1>2. UNCHANGED <<UsedCpu, UsedMem, UsedDisk>>
  BY <1>1, SameUsage
<1> QED
  BY <1>1, <1>2 DEF Typed, RequestsOK, RequestTypes, Ask, Goto

\* vm_power, vm_cpu, vm_mem, create_disk, resize_disk and create ask for what
\* fits; resume and vm_mem are excused.
LEMMA AsksCheck ==
  ASSUME Typed, ChecksHold, NEW p \in Web,
         \/ \E v \in VMs :
              \/ Start(p, v) \/ Resume(p, v)
              \/ \E c \in Cores : SetCpu(p, v, c)
              \/ \E m \in Mems : SetMem(p, v, m)
              \/ \E s \in Sizes : CreateDisk(p, v, s)
              \/ \E k \in Slots, s \in Sizes : ResizeDisk(p, v, k, s)
         \/ \E kind \in {"create", "template"}, c \in Cores, m \in Mems, s \in Sizes :
              Create(p, kind, c, m, s)
  PROVE  ChecksHold'
<1>1. ASSUME NEW v \in VMs, Start(p, v) PROVE ChecksHold'
  <2>1. /\ Ask(p, "start", v, 0, 0, 0, None) /\ Exists(v)
        /\ CpuFits(vm[v].cores) /\ MemFits(vm[v].mem)
    BY <1>1 DEF Start, Check
  <2>2. /\ pc'[p] = "start" /\ req'[p].vm = v
        /\ vm' = vm /\ limit' = limit /\ UNCHANGED <<UsedCpu, UsedMem, UsedDisk>>
    BY <2>1, Asked
  <2>3. StillFits(p)'
    BY <2>1, <2>2 DEF StillFits, CpuFits, MemFits, Exists
  <2> QED
    BY <2>1, <2>3, AskKeeps
<1>2. ASSUME NEW v \in VMs, Resume(p, v) PROVE ChecksHold'
  <2>1. Ask(p, "resume", v, 0, 0, 0, None)
    BY <1>2 DEF Resume
  <2>2. pc'[p] = "resume"
    BY <2>1, Asked
  <2>3. StillFits(p)'
    BY <2>2 DEF StillFits
  <2> QED
    BY <2>1, <2>3, AskKeeps
<1>3. ASSUME NEW v \in VMs, NEW c \in Cores, SetCpu(p, v, c) PROVE ChecksHold'
  <2>1. /\ Ask(p, "cpu", v, c, 0, 0, None) /\ Exists(v)
        /\ Running(v) => c < vm[v].cpu \/ CpuFits(c - vm[v].cpu)
    BY <1>3 DEF SetCpu, Check
  <2>2. /\ pc'[p] = "cpu" /\ req'[p].vm = v /\ req'[p].cpu = c
        /\ vm' = vm /\ limit' = limit /\ UNCHANGED <<UsedCpu, UsedMem, UsedDisk>>
    BY <2>1, Asked
  <2>3. StillFits(p)'
    BY <2>1, <2>2 DEF StillFits, CpuFits, Exists, Running
  <2> QED
    BY <2>1, <2>3, AskKeeps
<1>4. ASSUME NEW v \in VMs, NEW m \in Mems, SetMem(p, v, m) PROVE ChecksHold'
  <2>1. PICK mem : Ask(p, "mem", v, 0, mem, 0, None)
    BY <1>4 DEF SetMem
  <2>2. pc'[p] = "mem"
    BY <2>1, Asked
  <2>3. StillFits(p)'
    BY <2>2 DEF StillFits
  <2> QED
    BY <2>1, <2>3, AskKeeps
<1>5. ASSUME NEW v \in VMs, NEW s \in Sizes, CreateDisk(p, v, s) PROVE ChecksHold'
  <2>1. Ask(p, "disk", v, 0, 0, s, None) /\ DiskFits(s)
    BY <1>5 DEF CreateDisk, Check
  <2>2. /\ pc'[p] = "disk" /\ req'[p].size = s
        /\ vm' = vm /\ limit' = limit /\ UNCHANGED <<UsedCpu, UsedMem, UsedDisk>>
    BY <2>1, Asked
  <2>3. StillFits(p)'
    BY <2>1, <2>2 DEF StillFits, DiskFits
  <2> QED
    BY <2>1, <2>3, AskKeeps
<1>6. ASSUME NEW v \in VMs, NEW k \in Slots, NEW s \in Sizes, ResizeDisk(p, v, k, s)
      PROVE  ChecksHold'
  <2>1. Ask(p, "resize", v, 0, 0, s, k) /\ DiskFits(s)
    BY <1>6 DEF ResizeDisk, Check
  <2>2. /\ pc'[p] = "resize" /\ req'[p].size = s
        /\ vm' = vm /\ limit' = limit /\ UNCHANGED <<UsedCpu, UsedMem, UsedDisk>>
    BY <2>1, Asked
  <2>3. StillFits(p)'
    BY <2>1, <2>2 DEF StillFits, DiskFits
  <2> QED
    BY <2>1, <2>3, AskKeeps
<1>7. ASSUME NEW kind \in {"create", "template"}, NEW c \in Cores, NEW m \in Mems, NEW s \in Sizes,
             Create(p, kind, c, m, s)
      PROVE  ChecksHold'
  <2>1. Ask(p, kind, None, c, m, s, None) /\ CpuFits(c) /\ MemFits(m) /\ DiskFits(s)
    BY <1>7 DEF Create, Check
  <2>2. /\ pc'[p] = kind /\ req'[p].cpu = c /\ req'[p].mem = m /\ req'[p].size = s
        /\ vm' = vm /\ limit' = limit /\ UNCHANGED <<UsedCpu, UsedMem, UsedDisk>>
    BY <2>1, Asked
  <2>3. DiskFits(s)' /\ CpuFits(c)' /\ MemFits(m)'
    BY <2>1, <2>2 DEF CpuFits, MemFits, DiskFits
  <2>4. DiskFits(req[p].size)' /\ CpuFits(req[p].cpu)' /\ MemFits(req[p].mem)'
    BY <2>2, <2>3 DEF CpuFits, MemFits, DiskFits
  <2>5. pc'[p] \in {"create", "template"}
    BY <2>2
  <2>6. StillFits(p)'
    BY <2>4, <2>5 DEF StillFits
  <2> QED
    BY <2>1, <2>6, AskKeeps
<1> QED
  BY <1>1, <1>2, <1>3, <1>4, <1>5, <1>6, <1>7

\* VM.create_disk reads the configuration: what it adds is still to be added.
LEMMA PickSlotKeeps ==
  ASSUME Typed, ChecksHold, NEW p \in Web, PickSlot(p)
  PROVE  ChecksHold'
<1>0. limit' = limit /\ vm' = vm /\ pc[p] = "disk" /\ req \in [Web -> Requests]
      /\ pc \in [Web -> States]
  BY DEF PickSlot, Typed, RequestsOK, RequestTypes
<1>1. CASE End(p)
  BY <1>0, <1>1, EndKeeps
<1>2. CASE GoOn(p, "attach") /\ \E k \in Slots : req' = [req EXCEPT ![p].slot = k]
  <2>1. pc'[p] = "attach" /\ req'[p].size = req[p].size
        /\ \A q \in Web \ {p} : req'[q] = req[q]
    BY <1>0, <1>2 DEF GoOn, Goto, Requests
  <2>2. ASSUME p \in fresh PROVE StillFits(p)'
    <3>1. DiskFits(req[p].size)
      BY <1>0, <2>2 DEF ChecksHold, StillFits
    <3>2. DiskFits(req[p].size)'
      BY <1>0, <2>1, <3>1, SameUsage DEF DiskFits
    <3> QED
      BY <2>1, <3>2 DEF StillFits
  <2> QED
    BY <1>0, <1>2, <2>1, <2>2, GoOnKeeps
<1>3. FreeSlot(req[p].vm) # {} => (CHOOSE k \in FreeSlot(req[p].vm) : TRUE) \in Slots
  BY DEF FreeSlot
<1> QED
  BY <1>1, <1>2, <1>3 DEF PickSlot

\* A clone that has been made is stopped, and what was checked for it is not
\* there yet.
LEMMA CreateVmKeeps ==
  ASSUME Typed, ChecksHold, NEW p \in Web, NEW v \in VMs, CreateVm(p, v)
  PROVE  ChecksHold'
<1>0. /\ limit' = limit /\ req \in [Web -> Requests] /\ pc \in [Web -> States] /\ StoreTypes
      /\ pc[p] \in {"create", "template"}
      /\ CpuIn(vm[v]) = 0 /\ MemIn(vm[v]) = 0
  BY DEF CreateVm, Typed, RequestsOK, RequestTypes, Exists, CpuIn, MemIn
<1>1. CASE pc[p] = "create"
  BY <1>0, <1>1, EndKeeps DEF CreateVm
<1>2. CASE pc[p] = "template"
  <2>1. /\ vm' = [vm EXCEPT ![v] = Clone] /\ GoOn(p, "clone")
        /\ req' = [req EXCEPT ![p].vm = v]
    BY <1>2 DEF CreateVm
  <2>2. Clone \in Machines /\ Clone.status = "stopped" /\ CpuIn(Clone) = 0 /\ MemIn(Clone) = 0
    BY CloneUsage
  <2>3. UsedCpu' = UsedCpu /\ UsedMem' = UsedMem
    <3>1. UsedCpu' = UsedCpu - CpuIn(vm[v]) + CpuIn(Clone)
          /\ UsedMem' = UsedMem - MemIn(vm[v]) + MemIn(Clone)
      BY <1>0, <2>1, <2>2, OneMachineChanges
    <3>2. UsedCpu \in Nat /\ UsedMem \in Nat
      BY <1>0, UsageType
    <3> QED
      BY <1>0, <2>2, <3>1, <3>2
  <2>4. /\ pc'[p] = "clone" /\ req'[p].vm = v
        /\ req'[p].cpu = req[p].cpu /\ req'[p].mem = req[p].mem
        /\ \A q \in Web \ {p} : req'[q] = req[q]
    BY <1>0, <2>1 DEF GoOn, Goto, Requests
  <2>5. Exists(v)' /\ vm'[v].status = "stopped"
    BY <1>0, <2>1, <2>2, NoneIsNothing DEF Exists, StoreTypes
  <2>6. ASSUME p \in fresh PROVE StillFits(p)'
    <3>1. CpuFits(req[p].cpu) /\ MemFits(req[p].mem)
      BY <1>2, <2>6 DEF ChecksHold, StillFits
    <3>2. CpuFits(req[p].cpu)' /\ MemFits(req[p].mem)'
      BY <1>0, <2>3, <2>4, <3>1 DEF CpuFits, MemFits
    <3>3. Exists(req[p].vm)' /\ vm'[req'[p].vm].status = "stopped"
      BY <2>4, <2>5 DEF Exists
    <3> QED
      BY <2>4, <3>2, <3>3 DEF StillFits
  <2> QED
    BY <1>0, <2>1, <2>4, <2>6, GoOnKeeps
<1> QED
  BY <1>0, <1>1, <1>2

\* is_provisioned changes nothing a check has looked at: the clone is not
\* running.
LEMMA ProvisionKeeps ==
  ASSUME Typed, ChecksHold, NEW p \in Web, Provision(p)
  PROVE  ChecksHold'
<1> DEFINE v == req[p].vm
           m == WithCpu(vm[v], vm[v].cpu)
<1>0. /\ StoreTypes /\ limit' = limit /\ v \in VMs /\ pc \in [Web -> States] /\ pc[p] = "clone"
  BY DEF Typed, RequestsOK, RequestTypes, RequestsFit, Provision
<1>1. CASE ~ Changeable(v)
  BY <1>0, <1>1, EndKeeps DEF Provision
<1>2. CASE Changeable(v)
  <2>1. Exists(v) /\ vm[v] \in Machines
    BY <1>0, <1>2, Machine DEF Changeable
  <2>2. vm' = [vm EXCEPT ![v] = m]
    BY <1>2 DEF Provision
  <2>3. GoOn(p, "set up") /\ req' = req
    BY <1>2 DEF Provision
  <2>4. pc'[p] = "set up"
    BY <1>0, <2>3 DEF GoOn, Goto
  <2>5. vm[v].cpu \in Cores \cup {Template.cpu}
    BY <2>1 DEF Machines
  <2>6. /\ m \in Machines /\ m.status = vm[v].status /\ MemIn(m) = MemIn(vm[v])
        /\ CpuIn(m) = IF vm[v].status = "running" THEN vm[v].cpu ELSE 0
    BY <2>1, <2>5, CpuChanges
  <2> HIDE DEF m
  <2>7. vm'[v] = m
    BY <1>0, <2>2 DEF StoreTypes
  <2>8. ASSUME p \in fresh PROVE StillFits(p)'
    <3>1. vm[v].status = "stopped" /\ CpuFits(req[p].cpu) /\ MemFits(req[p].mem)
      BY <1>0, <2>8 DEF ChecksHold, StillFits
    <3>2. CpuIn(vm[v]) = 0 /\ CpuIn(m) = 0
      BY <2>6, <3>1 DEF CpuIn
    <3>3. UsedCpu' = UsedCpu /\ UsedMem' = UsedMem
      <4>1. UsedCpu' = UsedCpu - CpuIn(vm[v]) + CpuIn(m)
            /\ UsedMem' = UsedMem - MemIn(vm[v]) + MemIn(m)
        BY <1>0, <2>2, <2>6, OneMachineChanges
      <4>2. UsedCpu \in Nat /\ UsedMem \in Nat /\ MemIn(m) \in Nat
        BY <1>0, <2>6, UsageType, MachineUsage
      <4> QED
        BY <2>6, <3>2, <4>1, <4>2
    <3>4. CpuFits(req[p].cpu)' /\ MemFits(req[p].mem)'
      <4>1. limit' = limit /\ req' = req
        BY <1>0, <2>3
      <4> QED
        BY <3>1, <3>3, <4>1 DEF CpuFits, MemFits
    <3>5. Exists(req[p].vm)' /\ vm'[req'[p].vm].status = "stopped"
      BY <2>3, <2>6, <2>7, <3>1, NoneIsNothing DEF Exists
    <3> QED
      BY <2>4, <3>4, <3>5 DEF StillFits
  <2> QED
    BY <1>0, <2>3, <2>8, GoOnKeeps
<1> QED
  BY <1>1, <1>2

\* set_cpu and set_mem give the clone what was checked for, while it is stopped.
LEMMA SetUpKeeps ==
  ASSUME Typed, ChecksHold, NEW p \in Web, SetUpClone(p)
  PROVE  ChecksHold'
<1> DEFINE v == req[p].vm
           m == Configured(vm[v], req[p].cpu, req[p].mem)
<1>0. /\ StoreTypes /\ limit' = limit /\ v \in VMs /\ pc \in [Web -> States]
      /\ pc[p] = "set up" /\ req[p].cpu \in Cores \cup {Template.cpu} /\ req[p].mem \in Nat \ {0}
  BY DEF Typed, RequestsOK, RequestTypes, RequestsFit, SetUpClone
<1>1. CASE ~ Changeable(v)
  BY <1>0, <1>1, EndKeeps DEF SetUpClone
<1>2. CASE Changeable(v)
  <2>1. Exists(v) /\ vm[v] \in Machines
    BY <1>0, <1>2, Machine DEF Changeable
  <2>2. vm' = [vm EXCEPT ![v] = m]
    BY <1>2 DEF SetUpClone, Configured
  <2>3. GoOn(p, "launch") /\ req' = req
    BY <1>2 DEF SetUpClone
  <2>4. pc'[p] = "launch"
    BY <1>0, <2>3 DEF GoOn, Goto
  <2>5. /\ m \in Machines /\ m.status = vm[v].status /\ m.cpu = req[p].cpu /\ m.mem = req[p].mem
        /\ vm[v].status # "running" => CpuIn(m) = 0 /\ MemIn(m) = 0
    <3>1. /\ vm[v] \in Machines /\ req[p].cpu \in Cores \cup {Template.cpu}
          /\ req[p].mem \in Nat \ {0}
      BY <1>0, <2>1
    <3>2. m \in Machines
      BY <3>1, ConfigurationChanges, Zenon
    <3>3. m.status = vm[v].status
      BY <3>1, ConfiguredStatus, Zenon
    <3>4. m.cpu = req[p].cpu
      BY <3>1, ConfigurationChanges, Zenon
    <3>5. m.mem = req[p].mem
      BY <3>1, ConfigurationChanges, Zenon
    <3>6. vm[v].status # "running" => CpuIn(m) = 0
      BY <3>1, ConfigurationChanges, Zenon
    <3>7. vm[v].status # "running" => MemIn(m) = 0
      BY <3>1, ConfigurationChanges, Zenon
    <3> QED
      BY <3>2, <3>3, <3>4, <3>5, <3>6, <3>7
  <2> HIDE DEF m
  <2>6. vm'[v] = m
    BY <1>0, <2>2 DEF StoreTypes
  <2>7. ASSUME p \in fresh PROVE StillFits(p)'
    <3>1. vm[v].status = "stopped" /\ CpuFits(req[p].cpu) /\ MemFits(req[p].mem)
      BY <1>0, <2>7 DEF ChecksHold, StillFits
    <3>2. CpuIn(vm[v]) = 0 /\ MemIn(vm[v]) = 0 /\ CpuIn(m) = 0 /\ MemIn(m) = 0
      BY <2>5, <3>1 DEF CpuIn, MemIn
    <3>3. UsedCpu' = UsedCpu /\ UsedMem' = UsedMem
      <4>1. UsedCpu' = UsedCpu - CpuIn(vm[v]) + CpuIn(m)
            /\ UsedMem' = UsedMem - MemIn(vm[v]) + MemIn(m)
        BY <1>0, <2>2, <2>5, OneMachineChanges
      <4>2. UsedCpu \in Nat /\ UsedMem \in Nat
        BY <1>0, UsageType
      <4> QED
        BY <3>2, <4>1, <4>2
    <3>4. CpuFits(req[p].cpu)' /\ MemFits(req[p].mem)'
      <4>1. limit' = limit /\ req' = req
        BY <1>0, <2>3
      <4> QED
        BY <3>1, <3>3, <4>1 DEF CpuFits, MemFits
    <3>5. Exists(req[p].vm)' /\ vm'[req'[p].vm].status = "stopped"
      BY <2>3, <2>5, <2>6, <3>1, NoneIsNothing DEF Exists
    <3>6. vm'[req'[p].vm].cpu = req'[p].cpu /\ vm'[req'[p].vm].mem = req'[p].mem
      BY <2>3, <2>5, <2>6
    <3> QED
      BY <2>4, <3>4, <3>5, <3>6 DEF StillFits
  <2> QED
    BY <1>0, <2>3, <2>7, GoOnKeeps
<1> QED
  BY <1>1, <1>2

LEMMA NextChecks ==
  ASSUME Typed, ChecksHold, [Next]_vars
  PROVE  ChecksHold'
<1>1. ASSUME fresh' = {} PROVE ChecksHold'
  BY <1>1 DEF ChecksHold
<1>2. ASSUME NEW p \in Web,
             \/ PowerOn(p) \/ Configure(p) \/ Attach(p) \/ Resize(p) \/ Launch(p) \/ Fail(p)
      PROVE  ChecksHold'
  <2>1. End(p) /\ limit' = limit
    BY <1>2 DEF PowerOn, Configure, Attach, Resize, Launch, Fail
  <2> QED
    BY <2>1, EndKeeps
<1>3. ASSUME NEW p \in Web, LoseAnswer(p) PROVE ChecksHold'
  BY <1>1, <1>3 DEF LoseAnswer
<1>4. ASSUME NEW v \in VMs,
             \/ DeleteVm(v)
             \/ \E status \in {"stopped", "suspended"} : PowerOff(v, status)
             \/ \E k \in Slots : DeleteDisk(v, k)
      PROVE  ChecksHold'
  BY <1>1, <1>4 DEF DeleteVm, PowerOff, DeleteDisk
<1>5. ASSUME NEW l \in Limits, SetLimits(l) PROVE ChecksHold'
  BY <1>1, <1>5 DEF SetLimits
<1>6. CASE UNCHANGED vars
  <2>1. /\ vm' = vm /\ limit' = limit /\ fresh' = fresh /\ pc' = pc /\ req' = req
        /\ fresh \subseteq Web
    BY <1>6 DEF vars, locals, Typed, RequestsOK, RequestTypes
  <2>2. ASSUME NEW q \in fresh PROVE StillFits(q)'
    <3>1. q \in Web /\ StillFits(q)
      BY <2>1 DEF ChecksHold
    <3> QED
      BY <2>1, <3>1, NothingChanges
  <2> QED
    BY <2>1, <2>2 DEF ChecksHold
<1> QED
  BY <1>2, <1>3, <1>4, <1>5, <1>6, PickSlotKeeps, CreateVmKeeps, ProvisionKeeps,
     SetUpKeeps, AsksCheck DEF Next

-----------------------------------------------------------------------------
\* Every step keeps within the limits, or is excused.
LEMMA NextWithin ==
  ASSUME Typed, ChecksHold, [Next]_vars
  PROVE  CpuHolds /\ MemHolds /\ DiskHolds
<1>0. StoreTypes
  BY DEF Typed
<1>1. ASSUME vm' = vm PROVE CpuHolds /\ MemHolds /\ DiskHolds
  BY <1>0, <1>1, SameUsageHolds
<1>2. ASSUME NEW p \in Web,
             \/ PickSlot(p) \/ Fail(p)
             \/ \E v \in VMs :
                  \/ Start(p, v) \/ Resume(p, v)
                  \/ \E c \in Cores : SetCpu(p, v, c)
                  \/ \E m \in Mems : SetMem(p, v, m)
                  \/ \E s \in Sizes : CreateDisk(p, v, s)
                  \/ \E k \in Slots, s \in Sizes : ResizeDisk(p, v, k, s)
             \/ \E kind \in {"create", "template"}, c \in Cores, m \in Mems, s \in Sizes :
                  Create(p, kind, c, m, s)
      PROVE  CpuHolds /\ MemHolds /\ DiskHolds
  <2>1. vm' = vm
    BY <1>2 DEF PickSlot, Fail, Start, Resume, SetCpu, SetMem, CreateDisk, ResizeDisk, Create, Ask
  <2> QED
    BY <1>1, <2>1
<1>3. ASSUME NEW l \in Limits, SetLimits(l) PROVE CpuHolds /\ MemHolds /\ DiskHolds
  BY <1>1, <1>3 DEF SetLimits
<1>4. CASE UNCHANGED vars
  BY <1>1, <1>4 DEF vars
<1> QED
  BY <1>2, <1>3, <1>4, StartsWithin, ConfiguresWithin, DisksWithin, MakesWithin,
     ProvisionWithin, SetUpWithin, OthersWithin DEF Next

\* A request whose readings still hold when it acts takes its user past no
\* limit, in whatever order the requests, the jobs they queue and the lost
\* answers come (User.check_usage, create_vm_task, setup_template_task).
\* Beyond go resume, which is not checked, a start of a VM with several sockets,
\* of which one is checked, vm_mem, whose check mistakes the unit, and a clone
\* whose template has a larger disk than was asked for.
THEOREM LimitsAreKept == Spec => LimitsHold
<1> DEFINE Inv == TypeOK /\ RequestsFit /\ ChecksHold
<1>1. Init => Inv
  <2>1. Init => ChecksHold
    BY DEF Init, ChecksHold
  <2> QED
    BY <2>1, InitType
<1>2. Inv /\ [Next]_vars => Inv' /\ CpuHolds /\ MemHolds /\ DiskHolds
  <2> SUFFICES ASSUME Inv, [Next]_vars PROVE Inv' /\ CpuHolds /\ MemHolds /\ DiskHolds
    OBVIOUS
  <2>1. Typed
    BY TypeParts
  <2>2. (TypeOK /\ RequestsFit)'
    BY NextType
  <2>3. ChecksHold'
    BY <2>1, NextChecks
  <2>4. CpuHolds /\ MemHolds /\ DiskHolds
    BY <2>1, NextWithin
  <2> QED
    BY <2>2, <2>3, <2>4
<1> QED
  BY <1>1, <1>2, PTL DEF Spec, LimitsHold
=============================================================================
