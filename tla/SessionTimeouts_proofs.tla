----------------------- MODULE SessionTimeouts_proofs -----------------------
(***************************************************************************)
(* Proofs about SessionTimeouts, for every set of names, VMs, requests and *)
(* jobs and for every length of the session and of the grace period.       *)
(***************************************************************************)
EXTENDS SessionTimeouts, TLAPS

USE NamesAssumption, ProcsAssumption, TimeAssumption, NoneAssumption

\* An age stays in its range as it grows.
LEMMA OlderType ==
  ASSUME NEW cap \in Nat, NEW age \in AgesUpTo(cap)
  PROVE  Older(age, cap) \in AgesUpTo(cap)
BY DEF Older, AgesUpTo

LEMMA PoolVMsType == \A n : PoolVMs(n) \subseteq VMs
BY DEF PoolVMs

\* A process that finishes a pool or a request leaves no trace in its locals.
LEMMA FinishType ==
  ASSUME ProcsType, NEW p \in Procs, Finish(p)
  PROVE  ProcsType'
<1>1. pc' \in [Procs -> States]
  BY DEF ProcsType, Finish, Goto, States, JobStates
<1>2. who' = [who EXCEPT ![p] = None] /\ pc'[p] \in {"idle", "pools"}
  BY DEF ProcsType, Finish, Forget, Goto
<1>3. \A q \in Procs \ {p} : pc'[q] = pc[q] /\ who'[q] = who[q]
  BY <1>2 DEF ProcsType, Finish, Goto
<1>4. \A q \in Procs : pc'[q] \notin {"idle", "pools", "expire", "warn"}
                         => who'[q] \in Names
  BY <1>2, <1>3 DEF ProcsType
<1>5. /\ left' \in [Procs -> SUBSET Names]
      /\ who' \in [Procs -> Names \cup {None}]
  BY <1>2 DEF ProcsType, Finish
<1>6. /\ todo' \in [Procs -> SUBSET VMs]
      /\ seen' \in [Procs -> SUBSET VMs]
      /\ missed' \in [Procs -> SUBSET VMs]
  BY DEF ProcsType, Finish, Forget
<1>7. read' \in [Procs -> AgesUpTo(Timeout)] /\ since' \in [Procs -> 0 .. Timeout]
  BY DEF ProcsType, Finish, Forget, AgesUpTo
<1> QED
  BY <1>1, <1>4, <1>5, <1>6, <1>7 DEF ProcsType

LEMMA InitTypeOK == Init => TypeOK
BY DEF Init, TypeOK, RedisType, ProxmoxType, ProcsType, HistoryType, AgesUpTo, States

-----------------------------------------------------------------------------
LEMMA WebStepTypeOK ==
  ASSUME TypeOK, NEW p \in Web, WebStep(p)
  PROVE  TypeOK'
<1> p \in Procs
  BY DEF Procs
<1> USE DEF TypeOK, RedisType, ProxmoxType, HistoryType
<1>1. ASSUME NEW n \in Users, Poll(p, n) PROVE TypeOK'
  BY <1>1, PoolVMsType DEF Poll, BeginScan, redis, proxmox, history, ProcsType,
     States, WebStates, Goto
<1>2. ASSUME NEW n \in Users, NEW v \in VMs, PowerOn(p, n, v) PROVE TypeOK'
  BY <1>2 DEF PowerOn, Post, redis, history, ProcsType, States, WebStates, Goto
<1>3. ASSUME NEW n \in Users, NEW v \in VMs, PowerOff(p, n, v) PROVE TypeOK'
  BY <1>3, PoolVMsType DEF PowerOff, Post, BeginScan, redis, history, ProcsType,
     States, WebStates, Goto
<1>4. ASSUME NEW a \in AdminActions, BeginAdmin(p, a) PROVE TypeOK'
  BY <1>4 DEF BeginAdmin, redis, proxmox, history, ProcsType, States, WebStates, Goto
<1>5. CASE EnsureSession(p)
  <2>1. CASE Finish(p)
    BY <1>5, <2>1, FinishType DEF EnsureSession, redis, proxmox, history
  <2>2. CASE ~ Finish(p)
    BY <1>5, <2>2 DEF EnsureSession, redis, proxmox, history, ProcsType, States, Goto
  <2> QED BY <2>1, <2>2
<1>6. CASE DownDecide(p)
  <2>1. CASE Finish(p)
    BY <1>6, <2>1, FinishType DEF DownDecide, redis, proxmox, history
  <2>2. CASE ~ Finish(p)
    BY <1>6, <2>2 DEF DownDecide, redis, proxmox, history, ProcsType, States, Goto
  <2> QED BY <2>1, <2>2
<1>7. CASE PollDecide(p)
  <2>1. CASE Finish(p)
    BY <1>7, <2>1, FinishType DEF PollDecide, redis, proxmox, history
  <2>2. CASE ~ Finish(p)
    BY <1>7, <2>2 DEF PollDecide, redis, proxmox, history, ProcsType, States, Goto
  <2> QED BY <2>1, <2>2
<1>8. ASSUME NEW n \in Names, ExpireSession(p, n) PROVE TypeOK'
  BY <1>8 DEF ExpireSession, AdminWrite, proxmox, AgesUpTo, ProcsType, States,
     WebStates, Goto
<1>9. ASSUME NEW n \in Names, ReadRemaining(p, n) PROVE TypeOK'
  BY <1>9 DEF ReadRemaining, redis, proxmox, history, ProcsType, States, WebStates, Goto
<1>10. CASE ShortenSession(p)
  BY <1>10 DEF ShortenSession, AdminWrite, proxmox, AgesUpTo, ProcsType, States,
     WebStates, Goto
<1>11. CASE DeleteMarker(p)
  BY <1>11 DEF DeleteMarker, Deleting, proxmox, history, AgesUpTo, ProcsType,
     States, WebStates, Goto
<1>12. CASE EndAdmin(p)
  BY <1>12 DEF EndAdmin, redis, proxmox, history, ProcsType, States, Goto
<1> QED
  BY <1>1, <1>2, <1>3, <1>4, <1>5, <1>6, <1>7, <1>8, <1>9, <1>10, <1>11, <1>12
  DEF WebStep

LEMMA WorkerStepTypeOK ==
  ASSUME TypeOK, NEW w \in Workers, WorkerStep(w)
  PROVE  TypeOK'
<1> w \in Procs
  BY DEF Procs
<1> USE DEF TypeOK, RedisType, ProxmoxType, HistoryType
<1>1. CASE BeginEnforcement(w)
  BY <1>1 DEF BeginEnforcement, redis, proxmox, history, ProcsType, States,
     JobStates, Goto, Pools
<1>2. CASE EndEnforcement(w)
  BY <1>2 DEF EndEnforcement, redis, proxmox, history, ProcsType, States, Goto
<1>3. ASSUME NEW k \in Names, NextPool(w, k) PROVE TypeOK'
  BY <1>3, PoolVMsType DEF NextPool, BeginScan, redis, proxmox, history, ProcsType,
     States, JobStates, Goto
<1>4. CASE EnforceIdle(w)
  <2>1. CASE Finish(w)
    BY <1>4, <2>1, FinishType DEF EnforceIdle, redis, proxmox, history
  <2>2. CASE ~ Finish(w)
    BY <1>4, <2>2 DEF EnforceIdle, Decided, redis, proxmox, history, ProcsType,
       States, Goto
  <2> QED BY <2>1, <2>2
<1>5. CASE EnforceRunning(w)
  <2>1. CASE Finish(w)
    BY <1>5, <2>1, FinishType DEF EnforceRunning, redis, proxmox, history
  <2>2. CASE ~ Finish(w)
    BY <1>5, <2>2 DEF EnforceRunning, Decided, redis, proxmox, history, ProcsType,
       States, Goto
  <2> QED BY <2>1, <2>2
<1>6. CASE EnforceExpired(w)
  <2>1. CASE Finish(w)
    BY <1>6, <2>1, FinishType DEF EnforceExpired, redis, proxmox, history
  <2>2. CASE ~ Finish(w)
    BY <1>6, <2>2 DEF EnforceExpired, Decided, redis, proxmox, history, ProcsType,
       States, JobStates, Goto
  <2> QED BY <2>1, <2>2
<1>7. CASE MarkShutdown(w)
  BY <1>7 DEF MarkShutdown, proxmox, ProcsType, States, JobStates, Goto, AgesUpTo
<1>8. CASE PoolDone(w)
  BY <1>8, FinishType DEF PoolDone, redis, proxmox, history
<1>9. ASSUME NEW v \in VMs, AskShutdown(w, v) PROVE TypeOK'
  BY <1>9 DEF AskShutdown, Post, Fault, redis, history, ProcsType
<1>10. ASSUME NEW v \in VMs, HardStop(w, v) PROVE TypeOK'
  BY <1>10 DEF HardStop, Post, Fault, redis, history, ProcsType
<1> QED
  BY <1>1, <1>2, <1>3, <1>4, <1>5, <1>6, <1>7, <1>8, <1>9, <1>10 DEF WorkerStep

LEMMA ProcStepTypeOK ==
  ASSUME TypeOK, NEW p \in Procs, ProcStep(p)
  PROVE  TypeOK'
<1> USE DEF TypeOK, RedisType, ProxmoxType, HistoryType
<1>1. ASSUME NEW v \in VMs, ReadStatus(p, v) PROVE TypeOK'
  <2>1. (IF ReadsOn(v) THEN seen[p] \cup {v} ELSE seen[p]) \in SUBSET VMs
    BY DEF ProcsType
  <2> QED
    BY <1>1, <2>1 DEF ReadStatus, redis, proxmox, history, ProcsType
<1>2. CASE SetStart(p)
  <2>1. ProcsType'
    BY <1>2, FinishType DEF SetStart
  <2>2. RedisType'
    <3>1. 0 \in AgesUpTo(Timeout)
      BY DEF AgesUpTo
    <3> QED
      BY <1>2, <3>1 DEF SetStart
  <2> QED
    BY <1>2, <2>1, <2>2 DEF SetStart, proxmox
<1>3. CASE ClearStart(p)
  BY <1>3 DEF ClearStart, proxmox, ProcsType, AgesUpTo, States, Goto
<1>4. CASE ClearShutdown(p)
  BY <1>4, FinishType DEF ClearShutdown, proxmox, history, ProcsType, AgesUpTo
<1> QED
  BY <1>1, <1>2, <1>3, <1>4 DEF ProcStep

LEMMA FaultTypeOK ==
  ASSUME TypeOK, NEW p \in Procs,
         Crash(p) \/ \E v \in VMs : StatusUnreadable(p, v)
  PROVE  TypeOK'
<1> USE DEF TypeOK, RedisType, ProxmoxType, HistoryType, Fault
<1>1. CASE Crash(p)
  BY <1>1 DEF Crash, Goto, Forget, redis, proxmox, history, ProcsType, States, AgesUpTo
<1>2. ASSUME NEW v \in VMs, StatusUnreadable(p, v) PROVE TypeOK'
  BY <1>2 DEF StatusUnreadable, redis, proxmox, history, ProcsType
<1> QED
  BY <1>1, <1>2

LEMMA ProxmoxTypeOK ==
  ASSUME TypeOK, NEW v \in VMs, PveStep(v) \/ GuestOff(v) \/ StartOutside(v)
  PROVE  TypeOK'
<1> USE DEF TypeOK, RedisType, ProxmoxType, HistoryType
<1>1. CASE PveStart(v)
  BY <1>1 DEF PveStart, redis, history, ProcsType
<1>2. CASE PveStop(v)
  BY <1>2 DEF PveStop, redis, procs, history, ProcsType
<1>3. CASE PveNoEffect(v)
  BY <1>3 DEF PveNoEffect, Fault, redis, procs, history, ProcsType
<1>4. CASE GuestOff(v)
  BY <1>4 DEF GuestOff, redis, procs, history, ProcsType
<1>5. CASE StartOutside(v)
  BY <1>5 DEF StartOutside, Post, redis, procs, history, ProcsType
<1> QED
  BY <1>1, <1>2, <1>3, <1>4, <1>5 DEF PveStep

LEMMA TickTypeOK ==
  ASSUME TypeOK, Tick
  PROVE  TypeOK'
<1>1. RedisType' /\ HistoryType'
  BY OlderType DEF TypeOK, RedisType, HistoryType, Tick
<1>2. ProxmoxType' /\ faults' \in 0 .. MaxFaults
  BY DEF TypeOK, ProxmoxType, Tick, proxmox
<1>3. read' \in [Procs -> AgesUpTo(Timeout)]
  BY OlderType DEF TypeOK, ProcsType, Tick
<1>4. since' \in [Procs -> 0 .. Timeout]
  <2>1. \A a \in 0 .. Timeout : Older(a, Timeout) \in 0 .. Timeout
    BY DEF Older
  <2> QED BY <2>1 DEF TypeOK, ProcsType, Tick
<1> QED
  BY <1>1, <1>2, <1>3, <1>4 DEF TypeOK, ProcsType, Tick

LEMMA StepTypeOK == TypeOK /\ [Next]_vars => TypeOK'
<1> SUFFICES ASSUME TypeOK, [Next]_vars PROVE TypeOK'
  OBVIOUS
<1>1. CASE UNCHANGED vars
  BY <1>1 DEF vars, redis, proxmox, procs, history, TypeOK, RedisType, ProxmoxType,
     ProcsType, HistoryType
<1>2. CASE Next
  BY <1>2, WebStepTypeOK, WorkerStepTypeOK, ProcStepTypeOK, FaultTypeOK,
     ProxmoxTypeOK, TickTypeOK DEF Next
<1> QED
  BY <1>1, <1>2

\* TypeOK holds in every reachable state (the requests and the job of
\* __init__.py and tasks.py never touch a key whose name they do not hold).
THEOREM TypeCorrect == Spec => []TypeOK
<1> QED
  BY InitTypeOK, StepTypeOK, PTL DEF Spec

-----------------------------------------------------------------------------
(* A step of one process leaves the locals of the others alone             *)

OthersStay(p) ==
  \A q \in Procs \ {p} :
    /\ pc'[q] = pc[q] /\ who'[q] = who[q] /\ todo'[q] = todo[q]
    /\ seen'[q] = seen[q] /\ read'[q] = read[q]
    /\ missed'[q] = missed[q] /\ since'[q] = since[q]

LEMMA FinishIsLocal ==
  ASSUME TypeOK, NEW p \in Procs, Finish(p)
  PROVE  OthersStay(p)
BY DEF TypeOK, ProcsType, Finish, Forget, Goto, OthersStay

LEMMA ProcessesAreSequential ==
  ASSUME TypeOK, NEW p \in Procs,
         \/ WebStep(p) \/ WorkerStep(p) \/ ProcStep(p) \/ Crash(p)
         \/ \E v \in VMs : StatusUnreadable(p, v)
  PROVE  OthersStay(p)
<1> USE DEF TypeOK, ProcsType, Goto
<1>1. CASE WebStep(p)
  <2>1. CASE Finish(p)
    BY <2>1, FinishIsLocal
  <2>2. ASSUME NEW n \in Users, Poll(p, n) PROVE OthersStay(p)
    BY <2>2 DEF Poll, BeginScan, OthersStay
  <2>3. ASSUME NEW n \in Users, NEW v \in VMs, PowerOn(p, n, v) \/ PowerOff(p, n, v)
        PROVE  OthersStay(p)
    BY <2>3 DEF PowerOn, PowerOff, BeginScan, OthersStay
  <2>4. ASSUME NEW a \in AdminActions, BeginAdmin(p, a) PROVE OthersStay(p)
    BY <2>4 DEF BeginAdmin, OthersStay
  <2>5. CASE ~ Finish(p) /\ (EnsureSession(p) \/ DownDecide(p) \/ PollDecide(p))
    BY <2>5 DEF EnsureSession, DownDecide, PollDecide, OthersStay
  <2>6. ASSUME NEW n \in Names, ExpireSession(p, n) \/ ReadRemaining(p, n)
        PROVE  OthersStay(p)
    BY <2>6 DEF ExpireSession, ReadRemaining, AdminWrite, OthersStay
  <2>7. CASE ShortenSession(p) \/ DeleteMarker(p) \/ EndAdmin(p)
    BY <2>7 DEF ShortenSession, DeleteMarker, EndAdmin, AdminWrite, OthersStay
  <2> QED
    BY <1>1, <2>1, <2>2, <2>3, <2>4, <2>5, <2>6, <2>7 DEF WebStep
<1>2. CASE WorkerStep(p)
  <2>1. CASE Finish(p)
    BY <2>1, FinishIsLocal
  <2>2. CASE BeginEnforcement(p) \/ EndEnforcement(p) \/ MarkShutdown(p)
    BY <2>2 DEF BeginEnforcement, EndEnforcement, MarkShutdown, OthersStay
  <2>3. ASSUME NEW k \in Names, NextPool(p, k) PROVE OthersStay(p)
    BY <2>3 DEF NextPool, BeginScan, OthersStay
  <2>4. CASE ~ Finish(p) /\ (EnforceIdle(p) \/ EnforceRunning(p) \/ EnforceExpired(p))
    BY <2>4 DEF EnforceIdle, EnforceRunning, EnforceExpired, OthersStay
  <2>5. ASSUME NEW v \in VMs, AskShutdown(p, v) \/ HardStop(p, v)
        PROVE  OthersStay(p)
    BY <2>5 DEF AskShutdown, HardStop, OthersStay
  <2> QED
    BY <1>2, <2>1, <2>2, <2>3, <2>4, <2>5 DEF WorkerStep, PoolDone
<1>3. CASE ProcStep(p)
  <2>1. CASE Finish(p)
    BY <2>1, FinishIsLocal
  <2>2. ASSUME NEW v \in VMs, ReadStatus(p, v) PROVE OthersStay(p)
    BY <2>2 DEF ReadStatus, OthersStay
  <2>3. CASE ClearStart(p)
    BY <2>3 DEF ClearStart, OthersStay
  <2> QED
    BY <1>3, <2>1, <2>2, <2>3 DEF ProcStep, SetStart, ClearShutdown
<1>4. CASE Crash(p)
  BY <1>4 DEF Crash, Forget, OthersStay
<1>5. ASSUME NEW v \in VMs, StatusUnreadable(p, v) PROVE OthersStay(p)
  BY <1>5 DEF StatusUnreadable, OthersStay
<1> QED
  BY <1>1, <1>2, <1>3, <1>4, <1>5

-----------------------------------------------------------------------------
(* The grace period                                                        *)

GraceInv == TypeOK /\ MarkerIsRound /\ HardStopAfterGrace

\* docker-compose.yml runs one RQ worker.
OneWorker == \A w1, w2 \in Workers : w1 = w2

LEMMA InitGraceInv == Init => GraceInv
BY InitTypeOK DEF Init, GraceInv, MarkerIsRound, HardStopAfterGrace, Procs

\* A step that neither ages nor writes the markers, and sends no job to its
\* hard stops, keeps the invariant.
LEMMA GraceFrame ==
  ASSUME TypeOK, MarkerIsRound, HardStopAfterGrace,
         UNCHANGED <<shutdown, round>>,
         \A w \in Workers : pc'[w] = "stop" => pc[w] = "stop" /\ who'[w] = who[w]
  PROVE  MarkerIsRound' /\ HardStopAfterGrace'
BY DEF MarkerIsRound, HardStopAfterGrace

LEMMA FinishNotStop ==
  ASSUME TypeOK, NEW p \in Procs, Finish(p)
  PROVE  /\ pc'[p] # "stop"
         /\ \A w \in Workers : pc'[w] = "stop" => pc[w] = "stop" /\ who'[w] = who[w]
BY DEF TypeOK, ProcsType, Finish, Forget, Goto, Procs

LEMMA WebStepGrace ==
  ASSUME GraceInv, NEW p \in Web, WebStep(p)
  PROVE  MarkerIsRound' /\ HardStopAfterGrace'
<1> USE DEF GraceInv
<1>1. \A w \in Workers : pc'[w] = pc[w] /\ who'[w] = who[w]
  BY ProcessesAreSequential DEF OthersStay, Procs
<1>2. CASE DeleteMarker(p)
  <2>1. MarkerIsRound'
    BY <1>2 DEF DeleteMarker, MarkerIsRound, history, TypeOK, RedisType
  <2>2. HardStopAfterGrace'
    BY <1>1, <1>2 DEF DeleteMarker, HardStopAfterGrace, history
  <2> QED BY <2>1, <2>2
<1>3. CASE ~ DeleteMarker(p)
  <2>1. UNCHANGED <<shutdown, round>>
    BY <1>3 DEF WebStep, Poll, PowerOn, PowerOff, BeginAdmin, EnsureSession,
       DownDecide, PollDecide, ExpireSession, ReadRemaining, ShortenSession,
       EndAdmin, AdminWrite, redis, history
  <2> QED BY <1>1, <2>1, GraceFrame
<1> QED
  BY <1>2, <1>3

LEMMA WorkerStepGrace ==
  ASSUME OneWorker, GraceInv, NEW w \in Workers, WorkerStep(w)
  PROVE  MarkerIsRound' /\ HardStopAfterGrace'
<1> w \in Procs /\ \A x \in Workers : x \in Procs
  BY DEF Procs
<1> USE DEF GraceInv, TypeOK, ProcsType
<1>1. CASE BeginEnforcement(w) \/ EndEnforcement(w)
  BY <1>1, GraceFrame DEF BeginEnforcement, EndEnforcement, Goto, redis, history
<1>2. ASSUME NEW k \in Names, NextPool(w, k)
      PROVE  MarkerIsRound' /\ HardStopAfterGrace'
  BY <1>2, GraceFrame DEF NextPool, BeginScan, Goto, redis, history
<1>3. CASE EnforceIdle(w) \/ EnforceRunning(w) \/ PoolDone(w)
  <2>1. UNCHANGED <<shutdown, round>>
    BY <1>3 DEF EnforceIdle, EnforceRunning, PoolDone, redis, history
  <2>2. CASE Finish(w)
    BY <2>1, <2>2, GraceFrame, FinishNotStop
  <2>3. CASE ~ Finish(w)
    <3>1. \E state \in {"clear_start", "set_start"} : Goto(w, state) /\ UNCHANGED who
      BY <1>3, <2>3 DEF EnforceIdle, EnforceRunning, PoolDone
    <3> QED
      BY <2>1, <3>1, GraceFrame DEF Goto
  <2> QED
    BY <2>2, <2>3
<1>4. CASE EnforceExpired(w)
  <2>1. CASE Finish(w)
    BY <1>4, <2>1, GraceFrame, FinishNotStop DEF EnforceExpired, redis, history
  <2>2. CASE Goto(w, "mark") /\ UNCHANGED who
    BY <1>4, <2>2, GraceFrame DEF EnforceExpired, Goto, redis, history
  <2>3. CASE Goto(w, "stop") /\ UNCHANGED who /\ GraceOver(shutdown[who[w]])
    <3>1. who[w] \in Names
      BY <1>4 DEF EnforceExpired, Decided
    <3>2. round[who[w]] = Grace
      <4> DEFINE age == shutdown[who[w]]
      <4>1. age # None /\ age >= Grace
        BY <2>3 DEF GraceOver
      <4>2. age \in 0 .. Grace \cup {None}
        BY <3>1 DEF RedisType, AgesUpTo
      <4>3. age = Grace
        <5> HIDE DEF age, TypeOK, ProcsType, GraceInv
        <5> QED BY <4>1, <4>2, TimeAssumption
      <4>4. round[who[w]] = age
        BY <3>1, <4>1 DEF MarkerIsRound
      <4> QED BY <4>3, <4>4
    <3>3. \A x \in Workers : x = w
      BY DEF OneWorker
    <3> QED
      BY <1>4, <2>3, <3>2, <3>3
      DEF EnforceExpired, MarkerIsRound, HardStopAfterGrace, redis, history
  <2> QED
    BY <1>4, <2>1, <2>2, <2>3 DEF EnforceExpired
<1>5. CASE MarkShutdown(w)
  <2>1. MarkerIsRound'
    BY <1>5 DEF MarkShutdown, MarkerIsRound, RedisType, HistoryType
  <2>2. \A x \in Workers : pc'[x] = "ask"
    BY <1>5 DEF MarkShutdown, Goto, OneWorker
  <2> QED
    BY <2>1, <2>2 DEF HardStopAfterGrace
<1>6. ASSUME NEW v \in VMs, AskShutdown(w, v) \/ HardStop(w, v)
      PROVE  MarkerIsRound' /\ HardStopAfterGrace'
  BY <1>6, GraceFrame DEF AskShutdown, HardStop, redis, history
<1> QED
  BY <1>1, <1>2, <1>3, <1>4, <1>5, <1>6 DEF WorkerStep

LEMMA ProcStepGrace ==
  ASSUME GraceInv, NEW p \in Procs, ProcStep(p)
  PROVE  MarkerIsRound' /\ HardStopAfterGrace'
<1> USE DEF GraceInv
<1>1. CASE ClearShutdown(p)
  <2>1. MarkerIsRound'
    BY <1>1 DEF ClearShutdown, MarkerIsRound, history, TypeOK, RedisType
  <2>2. HardStopAfterGrace'
    BY <1>1, FinishNotStop DEF ClearShutdown, HardStopAfterGrace, history
  <2> QED BY <2>1, <2>2
<1>2. CASE SetStart(p)
  BY <1>2, FinishNotStop, GraceFrame DEF SetStart
<1>3. CASE ClearStart(p)
  BY <1>3, GraceFrame DEF ClearStart, Goto, TypeOK, ProcsType, Procs
<1>4. ASSUME NEW v \in VMs, ReadStatus(p, v)
      PROVE  MarkerIsRound' /\ HardStopAfterGrace'
  BY <1>4, GraceFrame DEF ReadStatus, redis, history
<1> QED
  BY <1>1, <1>2, <1>3, <1>4 DEF ProcStep

LEMMA TickGrace ==
  ASSUME GraceInv, Tick
  PROVE  MarkerIsRound' /\ HardStopAfterGrace'
<1>1. MarkerIsRound'
  BY DEF GraceInv, MarkerIsRound, Tick, Older
<1>2. HardStopAfterGrace'
  <2> SUFFICES ASSUME NEW w \in Workers, pc'[w] = "stop"
               PROVE  round'[who'[w]] = Grace
    BY DEF HardStopAfterGrace
  <2>1. pc[w] = "stop" /\ who'[w] = who[w] /\ who[w] \in Names
    BY DEF Tick, GraceInv, TypeOK, ProcsType, Procs
  <2>2. round[who[w]] = Grace
    BY <2>1 DEF GraceInv, HardStopAfterGrace
  <2> QED
    BY <2>1, <2>2 DEF Tick, Older
<1> QED
  BY <1>1, <1>2

LEMMA StepGraceInv == OneWorker /\ GraceInv /\ [Next]_vars => GraceInv'
<1> SUFFICES ASSUME OneWorker, GraceInv, [Next]_vars PROVE GraceInv'
  OBVIOUS
<1>1. TypeOK'
  BY StepTypeOK DEF GraceInv
<1>2. MarkerIsRound' /\ HardStopAfterGrace'
  <2>1. CASE UNCHANGED vars
    BY <2>1, GraceFrame DEF vars, redis, procs, history, GraceInv
  <2>2. ASSUME NEW p \in Procs, Crash(p) \/ \E v \in VMs : StatusUnreadable(p, v)
        PROVE  MarkerIsRound' /\ HardStopAfterGrace'
    BY <2>2, GraceFrame DEF GraceInv, Crash, StatusUnreadable, Goto, Forget, redis,
       history, TypeOK, ProcsType, Procs
  <2>3. ASSUME NEW v \in VMs, PveStep(v) \/ GuestOff(v) \/ StartOutside(v)
        PROVE  MarkerIsRound' /\ HardStopAfterGrace'
    BY <2>3, GraceFrame DEF GraceInv, PveStep, PveStart, PveStop, PveNoEffect,
       GuestOff, StartOutside, procs, redis, history
  <2> QED
    BY <2>1, <2>2, <2>3, WebStepGrace, WorkerStepGrace, ProcStepGrace, TickGrace
    DEF Next
<1> QED
  BY <1>1, <1>2 DEF GraceInv

\* With one worker, no interleaving of requests, clears, admin resets, killed
\* jobs and failed calls brings a hard stop closer to the shutdown round
\* before it than the grace period (tasks.py:319-334).
THEOREM GraceHolds ==
  ASSUME OneWorker
  PROVE  Spec => []HardStopAfterGrace
<1>1. Init => GraceInv
  BY InitGraceInv
<1>2. GraceInv /\ [Next]_vars => GraceInv'
  BY StepGraceInv
<1>3. GraceInv => HardStopAfterGrace
  BY DEF GraceInv
<1> QED
  BY <1>1, <1>2, <1>3, PTL DEF Spec

-----------------------------------------------------------------------------
(* The gap between testing session_start and setting it                    *)

GapInv == TypeOK /\ PendingStartIsFresh

\* A process other than p stays where it is.  So if p is not left with a
\* write pending, or only with one whose session is absent, or stands as it
\* stood, the invariant holds as long as the sessions are not written.
LEMMA GapFrame ==
  ASSUME GapInv, NEW p \in Procs, OthersStay(p), UNCHANGED <<start, forced>>,
         \/ ~ StandsOnRead(p)'
         \/ start[who'[p]] = None
         \/ StandsOnRead(p) /\ who'[p] = who[p] /\ since'[p] = since[p]
  PROVE  PendingStartIsFresh'
BY DEF GapInv, PendingStartIsFresh, StandsOnRead, OthersStay

\* The same for a step that writes the session of n: the value written is
\* new, absent or an admin's.
LEMMA GapWrite ==
  ASSUME GapInv, NEW p \in Procs, OthersStay(p), ~ StandsOnRead(p)',
         NEW n \in Names,
         \A m \in Names \ {n} : start'[m] = start[m] /\ (m \in forced => m \in forced'),
         start'[n] = None \/ n \in forced' \/ start'[n] = 0
  PROVE  PendingStartIsFresh'
<1> SUFFICES ASSUME NEW q \in Procs, StandsOnRead(q)'
             PROVE  \/ start'[who'[q]] = None \/ who'[q] \in forced'
                    \/ start'[who'[q]] <= since'[q]
  BY DEF PendingStartIsFresh
<1>1. q # p
  OBVIOUS
<1>2. StandsOnRead(q) /\ who'[q] = who[q] /\ since'[q] = since[q]
  BY <1>1 DEF OthersStay, StandsOnRead
<1>3. who[q] \in Names /\ since[q] \in 0 .. Timeout
  BY <1>2 DEF StandsOnRead, GapInv, TypeOK, ProcsType
<1>4. CASE who[q] = n
  BY <1>2, <1>3, <1>4
<1>5. CASE who[q] # n
  BY <1>2, <1>3, <1>5 DEF GapInv, PendingStartIsFresh
<1> QED
  BY <1>4, <1>5

LEMMA FinishStandsOnNothing ==
  ASSUME TypeOK, NEW p \in Procs, Finish(p)
  PROVE  ~ StandsOnRead(p)'
BY DEF TypeOK, ProcsType, Finish, Goto, StandsOnRead

LEMMA WebStepGap ==
  ASSUME GapInv, NEW p \in Web, WebStep(p)
  PROVE  PendingStartIsFresh'
<1> p \in Procs
  BY DEF Procs
<1> USE DEF GapInv
<1>0. OthersStay(p)
  BY ProcessesAreSequential
<1>1. CASE Finish(p) /\ UNCHANGED <<start, forced>>
  BY <1>0, <1>1, GapFrame, FinishStandsOnNothing
<1>2. ASSUME NEW n \in Users, Poll(p, n) PROVE PendingStartIsFresh'
  BY <1>0, <1>2, GapFrame DEF Poll, BeginScan, Goto, StandsOnRead, redis, history,
     TypeOK, ProcsType
<1>3. ASSUME NEW n \in Users, NEW v \in VMs, PowerOn(p, n, v) \/ PowerOff(p, n, v)
      PROVE  PendingStartIsFresh'
  BY <1>0, <1>3, GapFrame DEF PowerOn, PowerOff, BeginScan, Goto, StandsOnRead, redis,
     history, TypeOK, ProcsType
<1>4. ASSUME NEW a \in AdminActions, BeginAdmin(p, a) PROVE PendingStartIsFresh'
  BY <1>0, <1>4, GapFrame DEF BeginAdmin, Goto, StandsOnRead, redis, history, TypeOK,
     ProcsType
<1>5. CASE ~ Finish(p) /\ (EnsureSession(p) \/ DownDecide(p) \/ PollDecide(p))
  <2>1. \/ pc' = [pc EXCEPT ![p] = "set_start"] /\ start[who[p]] = None
        \/ pc' = [pc EXCEPT ![p] = "clear_start"]
    BY <1>5 DEF EnsureSession, DownDecide, PollDecide, Goto
  <2>2. UNCHANGED <<start, forced, who>>
    BY <1>5 DEF EnsureSession, DownDecide, PollDecide, redis, history
  <2> QED
    BY <1>0, <2>1, <2>2, GapFrame DEF StandsOnRead, TypeOK, ProcsType
<1>6. ASSUME NEW n \in Names, ExpireSession(p, n) PROVE PendingStartIsFresh'
  <2>1. ~ StandsOnRead(p)'
    BY <1>6 DEF ExpireSession, AdminWrite, Goto, StandsOnRead, TypeOK, ProcsType
  <2> QED
    BY <1>0, <1>6, <2>1, GapWrite DEF ExpireSession, AdminWrite, TypeOK, RedisType
<1>7. ASSUME NEW n \in Names, ReadRemaining(p, n) PROVE PendingStartIsFresh'
  BY <1>0, <1>7, GapFrame DEF ReadRemaining, Goto, StandsOnRead, redis, history,
     TypeOK, ProcsType
<1>8. CASE ShortenSession(p)
  <2>1. ~ StandsOnRead(p)' /\ who[p] \in Names
    BY <1>8 DEF ShortenSession, AdminWrite, Goto, StandsOnRead, TypeOK, ProcsType
  <2> QED
    BY <1>0, <1>8, <2>1, GapWrite DEF ShortenSession, AdminWrite, TypeOK, RedisType
<1>9. CASE DeleteMarker(p) \/ EndAdmin(p)
  BY <1>0, <1>9, GapFrame DEF DeleteMarker, EndAdmin, Goto, StandsOnRead, redis,
     history, TypeOK, ProcsType
<1>10. CASE EnsureSession(p) \/ DownDecide(p) \/ PollDecide(p)
  BY <1>1, <1>5, <1>10 DEF EnsureSession, DownDecide, PollDecide, redis, history
<1> QED
  BY <1>2, <1>3, <1>4, <1>6, <1>7, <1>8, <1>9, <1>10 DEF WebStep

LEMMA WorkerStepGap ==
  ASSUME GapInv, NEW w \in Workers, WorkerStep(w)
  PROVE  PendingStartIsFresh'
<1> w \in Procs
  BY DEF Procs
<1> USE DEF GapInv
<1>0. OthersStay(w) /\ UNCHANGED <<start, forced>>
  <2>1. UNCHANGED <<start, forced>>
    BY DEF WorkerStep, BeginEnforcement, EndEnforcement, NextPool, EnforceIdle,
       EnforceRunning, EnforceExpired, MarkShutdown, PoolDone, AskShutdown, HardStop,
       redis, history
  <2> QED BY <2>1, ProcessesAreSequential
<1>1. CASE Finish(w)
  BY <1>0, <1>1, GapFrame, FinishStandsOnNothing
<1>2. CASE BeginEnforcement(w) \/ EndEnforcement(w) \/ MarkShutdown(w)
  BY <1>0, <1>2, GapFrame DEF BeginEnforcement, EndEnforcement, MarkShutdown, Goto,
     StandsOnRead, TypeOK, ProcsType
<1>3. ASSUME NEW k \in Names, NextPool(w, k) PROVE PendingStartIsFresh'
  BY <1>0, <1>3, GapFrame DEF NextPool, BeginScan, Goto, StandsOnRead, TypeOK,
     ProcsType
<1>4. CASE ~ Finish(w) /\ (EnforceIdle(w) \/ EnforceRunning(w) \/ EnforceExpired(w))
  <2>1. pc[w] = "enf_scan" /\ UNCHANGED <<who, since, read>>
    BY <1>4 DEF EnforceIdle, EnforceRunning, EnforceExpired, Decided
  <2>2. \/ pc'[w] \notin {"set_start", "enf_scan"}
        \/ pc'[w] = "set_start" /\ read[w] = None
    BY <1>4 DEF EnforceIdle, EnforceRunning, EnforceExpired, Goto, TypeOK, ProcsType
  <2> QED
    BY <1>0, <2>1, <2>2, GapFrame DEF StandsOnRead
<1>5. ASSUME NEW v \in VMs, AskShutdown(w, v) \/ HardStop(w, v)
      PROVE  PendingStartIsFresh'
  BY <1>0, <1>5, GapFrame DEF AskShutdown, HardStop, StandsOnRead
<1> QED
  BY <1>1, <1>2, <1>3, <1>4, <1>5 DEF WorkerStep, PoolDone

LEMMA ProcStepGap ==
  ASSUME GapInv, NEW p \in Procs,
         \/ ProcStep(p) \/ Crash(p)
         \/ \E v \in VMs : StatusUnreadable(p, v)
  PROVE  PendingStartIsFresh'
<1> USE DEF GapInv
<1>0. OthersStay(p)
  BY ProcessesAreSequential
<1>1. ASSUME NEW v \in VMs, ReadStatus(p, v) \/ StatusUnreadable(p, v)
      PROVE  PendingStartIsFresh'
  BY <1>0, <1>1, GapFrame DEF ReadStatus, StatusUnreadable, StandsOnRead, redis, history
<1>2. CASE SetStart(p)
  <2>1. ~ StandsOnRead(p)' /\ who[p] \in Names
    BY <1>2, FinishStandsOnNothing DEF SetStart, TypeOK, ProcsType
  <2> QED
    BY <1>0, <1>2, <2>1, GapWrite DEF SetStart, TypeOK, RedisType
<1>3. CASE ClearStart(p)
  <2>1. ~ StandsOnRead(p)' /\ who[p] \in Names
    BY <1>3 DEF ClearStart, Goto, StandsOnRead, TypeOK, ProcsType
  <2> QED
    BY <1>0, <1>3, <2>1, GapWrite DEF ClearStart, TypeOK, RedisType
<1>4. CASE ClearShutdown(p)
  BY <1>0, <1>4, GapFrame, FinishStandsOnNothing DEF ClearShutdown, history
<1>5. CASE Crash(p)
  BY <1>0, <1>5, GapFrame DEF Crash, Goto, StandsOnRead, redis, history, TypeOK,
     ProcsType
<1> QED
  BY <1>1, <1>2, <1>3, <1>4, <1>5 DEF ProcStep

\* A session and the read it is compared with grow older together.
LEMMA TickGap ==
  ASSUME GapInv, Tick
  PROVE  PendingStartIsFresh'
<1> SUFFICES ASSUME NEW q \in Procs, StandsOnRead(q)'
             PROVE  \/ start'[who'[q]] = None \/ who'[q] \in forced'
                    \/ start'[who'[q]] <= since'[q]
  BY DEF PendingStartIsFresh
<1>1. StandsOnRead(q) /\ who'[q] = who[q] /\ who[q] \in Names
  <2>1. read'[q] = None => read[q] = None
    BY DEF Tick, Older, GapInv, TypeOK, ProcsType, AgesUpTo
  <2> QED
    BY <2>1 DEF Tick, StandsOnRead, GapInv, TypeOK, ProcsType
<1>2. since'[q] = Older(since[q], Timeout) /\ start'[who[q]] = Older(start[who[q]], Timeout)
  BY <1>1 DEF Tick
<1>3. start[who[q]] \in AgesUpTo(Timeout) /\ since[q] \in 0 .. Timeout
  BY <1>1 DEF GapInv, TypeOK, RedisType, ProcsType
<1>4. \/ start[who[q]] = None \/ who[q] \in forced
      \/ start[who[q]] <= since[q]
  BY <1>1 DEF GapInv, PendingStartIsFresh
<1> QED
  BY <1>1, <1>2, <1>3, <1>4 DEF Tick, Older, AgesUpTo

LEMMA StepGapInv == GapInv /\ [Next]_vars => GapInv'
<1> SUFFICES ASSUME GapInv, [Next]_vars PROVE PendingStartIsFresh'
  BY StepTypeOK DEF GapInv
<1>1. CASE UNCHANGED vars
  BY <1>1 DEF vars, redis, procs, history, GapInv, PendingStartIsFresh, StandsOnRead
<1>2. ASSUME NEW v \in VMs, PveStep(v) \/ GuestOff(v) \/ StartOutside(v)
      PROVE  PendingStartIsFresh'
  BY <1>2 DEF PveStep, PveStart, PveStop, PveNoEffect, GuestOff, StartOutside, procs,
     redis, history, GapInv, PendingStartIsFresh, StandsOnRead
<1> QED
  BY <1>1, <1>2, WebStepGap, WorkerStepGap, ProcStepGap, TickGap DEF Next

\* Who writes session_start: the clock, the three Redis calls of session.py,
\* and the admin requests.
LEMMA StartWriters ==
  ASSUME TypeOK, Next, NEW n \in Names, start'[n] # start[n]
  PROVE  \/ Tick
         \/ \E p \in Procs : SetStart(p) /\ who[p] = n /\ start'[n] = 0
         \/ \E p \in Procs : ClearStart(p) /\ who[p] = n
         \/ n \in forced' /\ start'[n] \in 0 .. Timeout
<1> USE DEF TypeOK, RedisType
<1>1. ASSUME NEW p \in Web, WebStep(p)
      PROVE  n \in forced' /\ start'[n] \in 0 .. Timeout
  <2>1. CASE UNCHANGED start
    BY <2>1
  <2>2. ASSUME NEW m \in Names, ExpireSession(p, m)
        PROVE  n \in forced' /\ start'[n] \in 0 .. Timeout
    BY <2>2 DEF ExpireSession, AdminWrite
  <2>3. CASE ShortenSession(p)
    BY <2>3 DEF ShortenSession, AdminWrite
  <2> QED
    BY <1>1, <2>1, <2>2, <2>3
    DEF WebStep, Poll, PowerOn, PowerOff, BeginAdmin, EnsureSession, DownDecide,
        PollDecide, ReadRemaining, DeleteMarker, EndAdmin, redis
<1>2. ASSUME NEW w \in Workers, WorkerStep(w) PROVE FALSE
  BY <1>2 DEF WorkerStep, BeginEnforcement, EndEnforcement, NextPool, EnforceIdle,
     EnforceRunning, EnforceExpired, MarkShutdown, PoolDone, AskShutdown, HardStop, redis
<1>3. ASSUME NEW p \in Procs, ProcStep(p)
      PROVE  \/ SetStart(p) /\ who[p] = n /\ start'[n] = 0
             \/ ClearStart(p) /\ who[p] = n
  BY <1>3 DEF ProcStep, ReadStatus, SetStart, ClearStart, ClearShutdown, redis
<1>4. ASSUME NEW p \in Procs, Crash(p) \/ \E v \in VMs : StatusUnreadable(p, v)
      PROVE  FALSE
  BY <1>4 DEF Crash, StatusUnreadable, redis
<1>5. ASSUME NEW v \in VMs, PveStep(v) \/ GuestOff(v) \/ StartOutside(v) PROVE FALSE
  BY <1>5 DEF PveStep, PveStart, PveStop, PveNoEffect, GuestOff, StartOutside, redis
<1> QED
  BY <1>1, <1>2, <1>3, <1>4, <1>5 DEF Next

LEMMA TickOnlyAges ==
  ASSUME TypeOK, Tick, NEW n \in Names, start[n] # None
  PROVE  start'[n] # None /\ start'[n] >= start[n]
BY DEF TypeOK, RedisType, Tick, Older, AgesUpTo

\* No two handlers testing and setting the same session, whoever they are,
\* restart a timer older than the gap between the two calls of either.
THEOREM TimerHolds == Spec => TimerRestartsOnlyInTheGap
<1> DEFINE Restart ==
      \A n \in Names :
        (start[n] # None /\ start'[n] # None /\ start'[n] < start[n])
          => \/ n \in forced \cup forced'
             \/ \E p \in Procs : /\ pc[p] = "set_start" /\ who[p] = n
                                 /\ start[n] <= since[p]
<1>1. Init => GapInv
  BY InitTypeOK DEF Init, GapInv, PendingStartIsFresh, StandsOnRead
<1>2. GapInv /\ [Next]_vars => GapInv'
  BY StepGapInv
<1>3. GapInv /\ [Next]_vars => [Restart]_vars
  <2> SUFFICES ASSUME GapInv, Next, NEW n \in Names, start[n] # None,
                      start'[n] # None, start'[n] < start[n],
                      n \notin forced \cup forced'
               PROVE  \E p \in Procs : /\ pc[p] = "set_start" /\ who[p] = n
                                       /\ start[n] <= since[p]
    OBVIOUS
  <2>1. start[n] \in 0 .. Timeout /\ start'[n] # start[n]
    BY DEF GapInv, TypeOK, RedisType, AgesUpTo
  <2>2. ~ Tick
    <3>1. SUFFICES ASSUME Tick PROVE FALSE
      OBVIOUS
    <3>2. start'[n] \in 0 .. Timeout
      BY <3>1, StepTypeOK DEF GapInv, TypeOK, RedisType, AgesUpTo
    <3> QED
      BY <2>1, <3>1, <3>2, TickOnlyAges DEF GapInv
  <2>3. PICK p \in Procs : \/ SetStart(p) /\ who[p] = n
                           \/ ClearStart(p) /\ who[p] = n
    BY <2>1, <2>2, StartWriters DEF GapInv
  <2>4. ~ ClearStart(p)
    BY <2>3 DEF ClearStart, GapInv, TypeOK, RedisType
  <2>5. pc[p] = "set_start" /\ who[p] = n
    BY <2>3, <2>4 DEF SetStart
  <2> QED
    BY <2>5 DEF GapInv, PendingStartIsFresh, StandsOnRead
<1> QED
  BY <1>1, <1>2, <1>3, PTL DEF Spec, TimerRestartsOnlyInTheGap

-----------------------------------------------------------------------------
(* Looking at the VMs of a pool before clearing its session                *)

LooksOrClears == Scanning \cup {"clear_start"}

KeptInv == TypeOK /\ NothingSeenMeansMissed

\* What the invariant says of one process.
Excused(p) ==
  /\ pc[p] \in LooksOrClears /\ seen[p] = {}
       => on \cap PoolVMs(who[p]) \subseteq todo[p] \cup missed[p]
  /\ pc[p] = "clear_start" => seen[p] = {} /\ todo[p] = {}

\* No VM comes up in a step of a process, so only its own case is to check.
LEMMA KeptFrame ==
  ASSUME KeptInv, NEW p \in Procs, OthersStay(p), UNCHANGED on, Excused(p)'
  PROVE  NothingSeenMeansMissed'
<1>1. ASSUME NEW q \in Procs \ {p} PROVE Excused(q)'
  BY <1>1 DEF KeptInv, NothingSeenMeansMissed, Excused, OthersStay, PoolVMs,
     LooksOrClears
<1>2. \A q \in Procs : Excused(q)'
  BY <1>1
<1> QED
  BY <1>2 DEF NothingSeenMeansMissed, Excused, LooksOrClears

LEMMA ElsewhereIsExcused ==
  ASSUME NEW p \in Procs, pc'[p] \notin LooksOrClears
  PROVE  Excused(p)'
BY DEF Excused, LooksOrClears

LEMMA BeginScanIsExcused ==
  ASSUME TypeOK, NEW p \in Procs, NEW n \in Names, NEW state \in Scanning,
         BeginScan(p, n, state)
  PROVE  Excused(p)'
BY DEF BeginScan, Goto, Excused, TypeOK, ProcsType, Scanning, PoolVMs

LEMMA FinishIsExcused ==
  ASSUME TypeOK, NEW p \in Procs, Finish(p)
  PROVE  Excused(p)'
BY DEF TypeOK, ProcsType, Finish, Goto, Excused, LooksOrClears, Scanning

\* Every VM has been looked at and none was seen: go on to clear.
LEMMA ClearIsExcused ==
  ASSUME KeptInv, NEW p \in Procs, pc[p] \in Scanning, todo[p] = {}, seen[p] = {},
         Goto(p, "clear_start"), UNCHANGED <<on, who, todo, seen, missed>>
  PROVE  Excused(p)'
BY DEF KeptInv, NothingSeenMeansMissed, TypeOK, ProcsType, Goto, Excused, PoolVMs,
   LooksOrClears

LEMMA WebStepKept ==
  ASSUME KeptInv, NEW p \in Web, WebStep(p)
  PROVE  NothingSeenMeansMissed'
<1> p \in Procs
  BY DEF Procs
<1> USE DEF KeptInv
<1>1. OthersStay(p)
  BY ProcessesAreSequential
<1>2. UNCHANGED on
  BY DEF WebStep, Poll, PowerOn, PowerOff, BeginAdmin, EnsureSession, DownDecide,
     PollDecide, ExpireSession, ReadRemaining, ShortenSession, DeleteMarker, EndAdmin,
     AdminWrite, proxmox
<1>3. Excused(p)'
  <2>1. ASSUME NEW n \in Users, Poll(p, n) PROVE Excused(p)'
    BY <2>1, BeginScanIsExcused DEF Poll, Scanning
  <2>2. ASSUME NEW n \in Users, NEW v \in VMs, PowerOff(p, n, v) PROVE Excused(p)'
    BY <2>2, BeginScanIsExcused DEF PowerOff, Scanning
  <2>3. ASSUME NEW n \in Users, NEW v \in VMs, PowerOn(p, n, v) PROVE Excused(p)'
    BY <2>3, ElsewhereIsExcused DEF PowerOn, Goto, TypeOK, ProcsType, LooksOrClears,
       Scanning
  <2>4. ASSUME NEW a \in AdminActions, BeginAdmin(p, a) PROVE Excused(p)'
    BY <2>4, ElsewhereIsExcused DEF BeginAdmin, Goto, TypeOK, ProcsType, LooksOrClears,
       Scanning
  <2>5. CASE EnsureSession(p)
    BY <2>5, FinishIsExcused, ElsewhereIsExcused DEF EnsureSession, Goto, TypeOK,
       ProcsType, LooksOrClears, Scanning
  <2>6. CASE DownDecide(p) \/ PollDecide(p)
    <3>1. CASE Finish(p)
      BY <3>1, FinishIsExcused
    <3>2. CASE Goto(p, "clear_start")
      <4>1. pc[p] \in Scanning /\ todo[p] = {} /\ ~ Finish(p)
        BY <2>6, <3>2 DEF DownDecide, PollDecide, Scanning, Finish, Goto, TypeOK,
           ProcsType
      <4>2. seen[p] = {} /\ UNCHANGED <<who, todo, seen, missed>>
        BY <2>6, <3>2, <4>1 DEF DownDecide, PollDecide, Goto, TypeOK, ProcsType
      <4> QED
        BY <1>2, <3>2, <4>1, <4>2, ClearIsExcused
    <3>3. CASE Goto(p, "set_start")
      BY <3>3, ElsewhereIsExcused DEF Goto, TypeOK, ProcsType, LooksOrClears, Scanning
    <3> QED
      BY <2>6, <3>1, <3>2, <3>3 DEF DownDecide, PollDecide
  <2>7. ASSUME NEW n \in Names, ExpireSession(p, n) \/ ReadRemaining(p, n)
        PROVE  Excused(p)'
    BY <2>7, ElsewhereIsExcused DEF ExpireSession, ReadRemaining, AdminWrite, Goto,
       TypeOK, ProcsType, LooksOrClears, Scanning
  <2>8. CASE ShortenSession(p) \/ DeleteMarker(p) \/ EndAdmin(p)
    BY <2>8, ElsewhereIsExcused DEF ShortenSession, DeleteMarker, EndAdmin, AdminWrite,
       Goto, TypeOK, ProcsType, LooksOrClears, Scanning
  <2> QED
    BY <2>1, <2>2, <2>3, <2>4, <2>5, <2>6, <2>7, <2>8 DEF WebStep
<1> QED
  BY <1>1, <1>2, <1>3, KeptFrame

LEMMA WorkerStepKept ==
  ASSUME KeptInv, NEW w \in Workers, WorkerStep(w)
  PROVE  NothingSeenMeansMissed'
<1> w \in Procs
  BY DEF Procs
<1> USE DEF KeptInv
<1>1. OthersStay(w)
  BY ProcessesAreSequential
<1>2. UNCHANGED on
  BY DEF WorkerStep, BeginEnforcement, EndEnforcement, NextPool, EnforceIdle,
     EnforceRunning, EnforceExpired, MarkShutdown, PoolDone, AskShutdown, HardStop,
     proxmox
<1>3. Excused(w)'
  <2> USE DEF LooksOrClears, Scanning
  <2>1. CASE BeginEnforcement(w) \/ EndEnforcement(w) \/ MarkShutdown(w)
    BY <2>1, ElsewhereIsExcused DEF BeginEnforcement, EndEnforcement, MarkShutdown,
       Goto, TypeOK, ProcsType
  <2>2. ASSUME NEW k \in Names, NextPool(w, k) PROVE Excused(w)'
    BY <2>2, BeginScanIsExcused DEF NextPool
  <2>3. CASE EnforceIdle(w)
    BY <1>2, <2>3, FinishIsExcused, ClearIsExcused DEF EnforceIdle, Decided
  <2>4. CASE EnforceRunning(w) \/ EnforceExpired(w)
    <3>1. \/ Finish(w)
          \/ \E state \in {"set_start", "mark", "stop"} : Goto(w, state)
      BY <2>4 DEF EnforceRunning, EnforceExpired
    <3> QED
      BY <3>1, FinishIsExcused, ElsewhereIsExcused DEF Goto, TypeOK, ProcsType
  <2>5. CASE PoolDone(w)
    BY <2>5, FinishIsExcused DEF PoolDone
  <2>6. ASSUME NEW v \in VMs, AskShutdown(w, v) \/ HardStop(w, v) PROVE Excused(w)'
    BY <2>6, ElsewhereIsExcused DEF AskShutdown, HardStop
  <2> QED
    BY <2>1, <2>2, <2>3, <2>4, <2>5, <2>6 DEF WorkerStep
<1> QED
  BY <1>1, <1>2, <1>3, KeptFrame

LEMMA ProcStepKept ==
  ASSUME KeptInv, NEW p \in Procs,
         \/ ProcStep(p) \/ Crash(p)
         \/ \E v \in VMs : StatusUnreadable(p, v)
  PROVE  NothingSeenMeansMissed'
<1> USE DEF KeptInv
<1>1. OthersStay(p)
  BY ProcessesAreSequential
<1>2. UNCHANGED on
  BY DEF ProcStep, Crash, StatusUnreadable, ReadStatus, SetStart, ClearStart,
     ClearShutdown, proxmox
<1>3. Excused(p)'
  <2>1. ASSUME NEW v \in VMs, ReadStatus(p, v) \/ StatusUnreadable(p, v)
        PROVE  Excused(p)'
    <3>1. pc[p] \in Scanning /\ pc[p] # "clear_start" /\ UNCHANGED <<pc, who, on>>
      BY <1>2, <2>1 DEF ReadStatus, StatusUnreadable, Scanning
    <3>2. CASE ReadStatus(p, v)
      <4>1. seen'[p] = {} => seen[p] = {} /\ v \notin on
        BY <3>2 DEF ReadStatus, ReadsOn, TypeOK, ProcsType
      <4>2. todo'[p] = todo[p] \ {v} /\ missed'[p] = missed[p]
        BY <3>2 DEF ReadStatus, TypeOK, ProcsType
      <4> QED
        BY <3>1, <4>1, <4>2 DEF Excused, NothingSeenMeansMissed, LooksOrClears, PoolVMs
    <3>3. CASE StatusUnreadable(p, v)
      <4>1. seen'[p] = seen[p] /\ todo'[p] = todo[p] \ {v}
            /\ missed'[p] = missed[p] \cup {v}
        BY <3>3 DEF StatusUnreadable, TypeOK, ProcsType
      <4> QED
        BY <3>1, <4>1 DEF Excused, NothingSeenMeansMissed, LooksOrClears, PoolVMs
    <3> QED
      BY <2>1, <3>2, <3>3
  <2>2. CASE SetStart(p) \/ ClearShutdown(p)
    BY <2>2, FinishIsExcused DEF SetStart, ClearShutdown
  <2>3. CASE ClearStart(p) \/ Crash(p)
    BY <2>3, ElsewhereIsExcused DEF ClearStart, Crash, Goto, TypeOK, ProcsType,
       LooksOrClears, Scanning
  <2> QED
    BY <2>1, <2>2, <2>3 DEF ProcStep
<1> QED
  BY <1>1, <1>2, <1>3, KeptFrame

\* A VM that comes up is one the handler has yet to look at, or has seen
\* running before, or is marked as missed.
LEMMA PveStartKept ==
  ASSUME KeptInv, NEW v \in VMs, PveStart(v)
  PROVE  NothingSeenMeansMissed'
<1> SUFFICES ASSUME NEW p \in Procs PROVE Excused(p)'
  BY DEF NothingSeenMeansMissed, Excused, LooksOrClears
<1>1. UNCHANGED <<pc, who, todo, seen>>
  BY DEF PveStart
<1>2. Excused(p)
  BY DEF KeptInv, NothingSeenMeansMissed, Excused, LooksOrClears
<1>3. CASE v \in on
  BY <1>1, <1>2, <1>3 DEF PveStart, Excused, PoolVMs
<1>4. CASE v \notin on
  <2>1. on' = on \cup {v}
    BY <1>4 DEF PveStart
  <2>2. missed[p] \subseteq missed'[p] /\ (LookedTooEarly(p, v) => v \in missed'[p])
    BY <1>4 DEF PveStart
  <2>3. pc[p] \in LooksOrClears /\ seen[p] = {} /\ v \in PoolVMs(who[p])
          => v \in todo[p] \/ LookedTooEarly(p, v)
    BY DEF LookedTooEarly, LooksOrClears
  <2> QED
    BY <1>1, <1>2, <2>1, <2>2, <2>3 DEF Excused, PoolVMs
<1> QED
  BY <1>3, <1>4

LEMMA StepKeptInv == KeptInv /\ [Next]_vars => KeptInv'
<1> SUFFICES ASSUME KeptInv, [Next]_vars PROVE NothingSeenMeansMissed'
  BY StepTypeOK DEF KeptInv
<1>1. CASE UNCHANGED vars \/ Tick
  BY <1>1 DEF vars, proxmox, procs, Tick, KeptInv, NothingSeenMeansMissed, PoolVMs
<1>2. ASSUME NEW v \in VMs, PveStop(v) \/ PveNoEffect(v) \/ GuestOff(v) \/ StartOutside(v)
      PROVE  NothingSeenMeansMissed'
  <2>1. on' \subseteq on /\ UNCHANGED procs
    BY <1>2 DEF PveStop, PveNoEffect, GuestOff, StartOutside
  <2> QED
    BY <2>1 DEF procs, KeptInv, NothingSeenMeansMissed, PoolVMs
<1> QED
  BY <1>1, <1>2, PveStartKept, WebStepKept, WorkerStepKept, ProcStepKept
  DEF Next, PveStep

\* Whatever interleaves with its clear, a session outlives the look at the
\* VMs of its pool unless every VM that is on came up, or failed to answer,
\* during that very look.
THEOREM SessionKept == Spec => SessionKeptWhileRunning
<1> DEFINE Kept ==
      \A n \in Names :
        (start[n] # None /\ start'[n] = None)
          => \E p \in Procs : /\ pc[p] = "clear_start" /\ who[p] = n
                              /\ on \cap PoolVMs(n) \subseteq missed[p]
<1>1. Init => KeptInv
  BY InitTypeOK DEF Init, KeptInv, NothingSeenMeansMissed, Scanning
<1>2. KeptInv /\ [Next]_vars => KeptInv'
  BY StepKeptInv
<1>3. KeptInv /\ [Next]_vars => [Kept]_vars
  <2> SUFFICES ASSUME KeptInv, Next, NEW n \in Names, start[n] # None, start'[n] = None
               PROVE  \E p \in Procs : /\ pc[p] = "clear_start" /\ who[p] = n
                                       /\ on \cap PoolVMs(n) \subseteq missed[p]
    OBVIOUS
  <2>1. PICK p \in Procs : ClearStart(p) /\ who[p] = n
    BY StartWriters, TickOnlyAges DEF KeptInv
  <2>2. pc[p] = "clear_start"
    BY <2>1 DEF ClearStart
  <2> QED
    BY <2>1, <2>2 DEF KeptInv, NothingSeenMeansMissed
<1> QED
  BY <1>1, <1>2, <1>3, PTL DEF Spec, SessionKeptWhileRunning
=============================================================================
