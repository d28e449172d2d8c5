-------------------------- MODULE SessionTimeouts --------------------------
(***************************************************************************)
(* The session timer of Proxstar: a Redis key session_start|<name> started *)
(* when a VM is powered on, polled by the browser, cleared when no VM of   *)
(* the pool runs, and enforced by a periodic job that first asks the VMs   *)
(* of an expired session to shut down and, a grace period later, stops     *)
(* them.  Web requests (gunicorn workers), enforcement jobs (RQ workers)   *)
(* and Proxmox tasks interleave; every Redis or Proxmox call is one step.  *)
(*                                                                         *)
(* The code stores timestamps and only ever uses their distance to the     *)
(* current time, so the model stores that distance: the age of each key,   *)
(* counted up to the only value it is compared with.  Time is unbounded.   *)
(***************************************************************************)
EXTENDS Integers

CONSTANTS
  Names,         \* what session keys are named after: user names, pool ids
  PoolOf,        \* name |-> sanitize_pool_name(name), the pool of User(name)
  Users,         \* the names that sign in
  VMs,
  VMPool,        \* VM |-> its pool
  Controls,      \* user |-> the VMs vm_power lets them act on
  Enforced,      \* the pools get_pools returns to the enforcement job
  Web,           \* gunicorn workers, one request each at a time
  Workers,       \* RQ workers
  AdminActions,  \* the admin requests made: a subset of {"expire", "warn"}
  Timeout,       \* SESSION_TIMEOUT_HOURS, in ticks
  Grace,         \* SESSION_SHUTDOWN_GRACE_MINUTES, in ticks
  Warn,          \* what _shorten_all_sessions leaves, in ticks
  MaxFaults,     \* bound on crashes, failed calls and failed Proxmox tasks
  None

Procs == Web \cup Workers
Pools == {PoolOf[n] : n \in Names}

ASSUME NamesAssumption ==
  /\ PoolOf \in [Names -> Names]
  /\ Users \subseteq Names
  /\ VMPool \in [VMs -> Pools]
  /\ Controls \in [Users -> SUBSET VMs]
  /\ Enforced \subseteq Pools
  /\ AdminActions \subseteq {"expire", "warn"}
ASSUME ProcsAssumption == Web \cap Workers = {}
ASSUME TimeAssumption ==
  /\ Timeout \in Nat /\ Grace \in Nat /\ MaxFaults \in Nat
  /\ Warn \in 0 .. Timeout
ASSUME NoneAssumption == None \notin Int /\ None \notin Names

VARIABLES
  start,     \* Redis session_start|name: its age, or None
  shutdown,  \* Redis session_shutdown|name: its age, or None
  on,        \* the VMs whose status is running or paused
  task,      \* VM |-> the Proxmox task that holds its lock
  pc,        \* where each process is
  left,      \* the names a job or an admin request still has to visit
  who,       \* the name it is working on
  todo,      \* the VMs it has not looked at, asked or stopped yet
  seen,      \* the VMs it read as running or paused
  read,      \* the job's session_start, read before it looks at the VMs
  faults,
  \* History, read by no action:
  missed,    \* VMs whose status call failed, or that came up after it
  since,     \* age of the read a process is about to write on the strength of
  forced,    \* the names whose session_start was last written by an admin
  round      \* name |-> age of the last shutdown round enforcement began

redis   == <<start, shutdown>>
proxmox == <<on, task>>
procs   == <<pc, left, who, todo, seen, read, missed, since>>
history == <<forced, round>>
vars    == <<redis, proxmox, procs, history, faults>>

PoolVMs(n) == {v \in VMs : VMPool[v] = PoolOf[n]}     \* User(n).vms

\* Ages are kept up to the value they are compared with.
Older(age, cap) == IF age = None \/ age = cap THEN age ELSE age + 1
AgesUpTo(cap) == 0 .. cap \cup {None}

WebStates == {"ensure", "down_scan", "poll_scan", "expire", "expire_del",
              "warn", "warn_set", "warn_del"}
JobStates == {"pools", "enf_scan", "mark", "ask", "stop"}
States == {"idle", "set_start", "clear_start", "clear_shutdown"}
            \cup WebStates \cup JobStates
Scanning == {"down_scan", "poll_scan", "enf_scan"}
Deleting == {"expire_del", "warn_del"}

Init ==
  /\ start = [n \in Names |-> None]
  /\ shutdown = [n \in Names |-> None]
  /\ on = {}
  /\ task = [v \in VMs |-> "none"]
  /\ pc = [p \in Procs |-> "idle"]
  /\ left = [p \in Procs |-> {}]
  /\ who = [p \in Procs |-> None]
  /\ todo = [p \in Procs |-> {}]
  /\ seen = [p \in Procs |-> {}]
  /\ read = [p \in Procs |-> None]
  /\ faults = 0
  /\ missed = [p \in Procs |-> {}]
  /\ since = [p \in Procs |-> 0]
  /\ forced = {}
  /\ round = [n \in Names |-> None]

-----------------------------------------------------------------------------
(* Moves of one process                                                    *)

Goto(p, state) == pc' = [pc EXCEPT ![p] = state]

\* The locals of a request end with it; those of a job with each pool.
Forget(p) ==
  /\ who' = [who EXCEPT ![p] = None]
  /\ todo' = [todo EXCEPT ![p] = {}]
  /\ seen' = [seen EXCEPT ![p] = {}]
  /\ read' = [read EXCEPT ![p] = None]
  /\ missed' = [missed EXCEPT ![p] = {}]
  /\ since' = [since EXCEPT ![p] = 0]

\* A request is over; a job goes on to its next pool.
Finish(p) ==
  /\ Goto(p, IF p \in Workers THEN "pools" ELSE "idle")
  /\ Forget(p)
  /\ UNCHANGED left

\* Faulty: the name of the previous request or pool is kept.
BeginScanKeepsName(p, n, state) ==
  /\ Goto(p, state)
  /\ todo' = [todo EXCEPT ![p] = PoolVMs(n)]
  /\ UNCHANGED who

\* Look at every VM of the pool of n, one status call each.
BeginScan(p, n, state) ==
  /\ Goto(p, state)
  /\ who' = [who EXCEPT ![p] = n]
  /\ todo' = [todo EXCEPT ![p] = PoolVMs(n)]

Fault == faults < MaxFaults /\ faults' = faults + 1

\* The call waits, retried by tenacity, for the task that locks the VM.
Post(v, kind) == task[v] = "none" /\ task' = [task EXCEPT ![v] = kind]

ReadsOn(v) == v \in on

ReadStatus(p, v) ==
  /\ pc[p] \in Scanning /\ v \in todo[p]
  /\ todo' = [todo EXCEPT ![p] = @ \ {v}]
  /\ seen' = [seen EXCEPT ![p] = IF ReadsOn(v) THEN @ \cup {v} ELSE @]
  /\ UNCHANGED <<redis, proxmox, history, faults, pc, left, who, read,
                 missed, since>>

\* except Exception: continue - an unreadable VM counts as not running.
StatusUnreadable(p, v) ==
  /\ pc[p] \in Scanning /\ v \in todo[p] /\ Fault
  /\ todo' = [todo EXCEPT ![p] = @ \ {v}]
  /\ missed' = [missed EXCEPT ![p] = @ \cup {v}]
  /\ UNCHANGED <<redis, proxmox, history, pc, left, who, seen, read, since>>

SetStart(p) ==
  /\ pc[p] = "set_start"
  /\ start' = [start EXCEPT ![who[p]] = 0]
  /\ forced' = forced \ {who[p]}
  /\ Finish(p)
  /\ UNCHANGED <<shutdown, proxmox, round, faults>>

\* clear_session: two deletes, the session first.
ClearStart(p) ==
  /\ pc[p] = "clear_start"
  /\ start' = [start EXCEPT ![who[p]] = None]
  /\ forced' = forced \ {who[p]}
  /\ Goto(p, "clear_shutdown")
  /\ UNCHANGED <<shutdown, proxmox, round, faults, left, who, todo, seen,
                 read, missed, since>>

ClearShutdown(p) ==
  /\ pc[p] = "clear_shutdown"
  /\ shutdown' = [shutdown EXCEPT ![who[p]] = None]
  /\ Finish(p)
  /\ UNCHANGED <<start, proxmox, history, faults>>

\* gunicorn kills a request that takes too long, RQ a job; an exception that
\* nothing catches (a pool that cannot be read, a retry given up) ends either.
Crash(p) ==
  /\ pc[p] # "idle" /\ Fault
  /\ Goto(p, "idle") /\ Forget(p)
  /\ left' = [left EXCEPT ![p] = {}]
  /\ UNCHANGED <<redis, proxmox, history>>

-----------------------------------------------------------------------------
(* Web requests                                                            *)

\* vm_power start and resume: act on the VM, then _ensure_session_started.
PowerOn(p, n, v) ==
  /\ pc[p] = "idle" /\ v \in Controls[n]
  /\ \/ Post(v, "start")
     \/ v \in on /\ UNCHANGED task            \* resume: paused is on already
  /\ Goto(p, "ensure")
  /\ who' = [who EXCEPT ![p] = n]
  /\ UNCHANGED <<redis, on, history, faults, left, todo, seen, read,
                 missed, since>>

\* Faulty: every power-on writes a new session.
EnsureSessionBlindly(p) ==
  /\ pc[p] = "ensure"
  /\ Goto(p, "set_start")
  /\ UNCHANGED <<left, who, todo, seen, read, missed, since>>
  /\ UNCHANGED <<redis, proxmox, history, faults>>

EnsureSession(p) ==
  /\ pc[p] = "ensure"
  /\ \/ start[who[p]] = None /\ Goto(p, "set_start")
        /\ UNCHANGED <<left, who, todo, seen, read, missed, since>>
     \/ start[who[p]] # None /\ Finish(p)
  /\ UNCHANGED <<redis, proxmox, history, faults>>

\* vm_power stop, suspend to disk, shutdown and pause: act on the VM, then
\* _clear_session_if_idle, which looks at once, whatever the task does later.
PowerOff(p, n, v) ==
  /\ pc[p] = "idle" /\ v \in Controls[n]
  /\ \/ \E kind \in {"stop", "shutdown"} : Post(v, kind)
     \/ v \in on /\ UNCHANGED task             \* pause: paused is still on
  /\ BeginScan(p, n, "down_scan")
  /\ UNCHANGED <<redis, on, history, faults, left, seen, read, missed,
                 since>>

\* Faulty: a power-off clears the session whatever else still runs.
DownDecideBlindly(p) ==
  /\ pc[p] = "down_scan" /\ todo[p] = {}
  /\ Goto(p, "clear_start")
  /\ UNCHANGED <<left, who, todo, seen, read, missed, since>>
  /\ UNCHANGED <<redis, proxmox, history, faults>>

DownDecide(p) ==
  /\ pc[p] = "down_scan" /\ todo[p] = {}
  /\ \/ seen[p] = {} /\ Goto(p, "clear_start")
        /\ UNCHANGED <<left, who, todo, seen, read, missed, since>>
     \/ seen[p] # {} /\ Finish(p)
  /\ UNCHANGED <<redis, proxmox, history, faults>>

\* session_info: every open page asks for /session every 30 seconds.
Poll(p, n) ==
  /\ pc[p] = "idle"
  /\ BeginScan(p, n, "poll_scan")
  /\ UNCHANGED <<redis, proxmox, history, faults, left, seen, read, missed,
                 since>>

\* Faulty: the first VM that is off decides for the pool.
PollDecideEarly(p) ==
  /\ pc[p] = "poll_scan"
  /\ LET running == seen[p] # {}
         session == start[who[p]] # None
     IN  \/ running = session /\ Finish(p)
         \/ /\ running # session
            /\ Goto(p, IF running THEN "set_start" ELSE "clear_start")
            /\ UNCHANGED <<left, who, todo, seen, read, missed, since>>
  /\ UNCHANGED <<redis, proxmox, history, faults>>

PollDecide(p) ==
  /\ pc[p] = "poll_scan" /\ todo[p] = {}
  /\ LET running == seen[p] # {}
         session == start[who[p]] # None
     IN  \/ running = session /\ Finish(p)
         \/ /\ running # session
            /\ Goto(p, IF running THEN "set_start" ELSE "clear_start")
            /\ UNCHANGED <<left, who, todo, seen, read, missed, since>>
  /\ UNCHANGED <<redis, proxmox, history, faults>>

-----------------------------------------------------------------------------
(* Admin requests                                                          *)

\* scan_iter over session_start|*, answered in one batch.
BeginAdmin(p, a) ==
  /\ pc[p] = "idle"
  /\ Goto(p, a)
  /\ left' = [left EXCEPT ![p] = {n \in Names : start[n] # None}]
  /\ UNCHANGED <<redis, proxmox, history, faults, who, todo, seen, read,
                 missed, since>>

AdminWrite(p, n, age, next) ==
  /\ start' = [start EXCEPT ![n] = age]
  /\ forced' = forced \cup {n}
  /\ Goto(p, next)
  /\ UNCHANGED <<shutdown, proxmox, round, faults, todo, seen, read, missed,
                 since>>

\* _expire_all_sessions writes the key whether or not it still exists.
ExpireSession(p, n) ==
  /\ pc[p] = "expire" /\ n \in left[p]
  /\ left' = [left EXCEPT ![p] = @ \ {n}]
  /\ who' = [who EXCEPT ![p] = n]
  /\ AdminWrite(p, n, Timeout, "expire_del")

HasMoreLeft(age) == age # None /\ Timeout - age > Warn

\* _shorten_all_sessions skips a session that has less than Warn left ...
ReadRemaining(p, n) ==
  /\ pc[p] = "warn" /\ n \in left[p]
  /\ left' = [left EXCEPT ![p] = @ \ {n}]
  /\ \/ /\ ~ HasMoreLeft(start[n])
        /\ UNCHANGED <<pc, who>>
     \/ /\ HasMoreLeft(start[n])
        /\ Goto(p, "warn_set")
        /\ who' = [who EXCEPT ![p] = n]
  /\ UNCHANGED <<redis, proxmox, history, faults, todo, seen, read, missed,
                 since>>

\* ... and writes the others as it decided, whatever the key holds by now.
ShortenSession(p) ==
  /\ pc[p] = "warn_set"
  /\ AdminWrite(p, who[p], Timeout - Warn, "warn_del")
  /\ UNCHANGED <<left, who>>

DeleteMarker(p) ==
  /\ pc[p] \in Deleting
  /\ shutdown' = [shutdown EXCEPT ![who[p]] = None]
  /\ Goto(p, IF pc[p] = "expire_del" THEN "expire" ELSE "warn")
  /\ who' = [who EXCEPT ![p] = None]
  /\ UNCHANGED <<start, proxmox, history, faults, left, todo, seen, read,
                 missed, since>>

EndAdmin(p) ==
  /\ pc[p] \in {"expire", "warn"} /\ left[p] = {}
  /\ Goto(p, "idle")
  /\ UNCHANGED <<redis, proxmox, history, faults, left, who, todo, seen, read,
                 missed, since>>

-----------------------------------------------------------------------------
(* enforce_session_timeouts_task                                           *)

BeginEnforcement(w) ==
  /\ pc[w] = "idle"
  /\ Goto(w, "pools")
  /\ left' = [left EXCEPT ![w] = Enforced]
  /\ UNCHANGED <<redis, proxmox, history, faults, who, todo, seen, read,
                 missed, since>>

\* The session is read before the VMs are looked at.
NextPool(w, k) ==
  /\ pc[w] = "pools" /\ k \in left[w]
  /\ left' = [left EXCEPT ![w] = @ \ {k}]
  /\ read' = [read EXCEPT ![w] = start[k]]
  /\ BeginScan(w, k, "enf_scan")
  /\ UNCHANGED <<redis, proxmox, history, faults, seen, missed, since>>

EndEnforcement(w) ==
  /\ pc[w] = "pools" /\ left[w] = {}
  /\ Goto(w, "idle")
  /\ UNCHANGED <<redis, proxmox, history, faults, left, who, todo, seen, read,
                 missed, since>>

Expired(age) == age # None /\ age >= Timeout
\* Faulty: a shutdown round counts as over at once.
GraceIgnored(age) == age # None

GraceOver(age) == age # None /\ age >= Grace

Decided(w) == pc[w] = "enf_scan" /\ todo[w] = {}

\* Faulty: the job leaves clearing to the requests.
EnforceIdleKeeps(w) ==
  /\ Decided(w) /\ seen[w] = {}
  /\ Finish(w)
  /\ UNCHANGED <<redis, proxmox, history, faults>>

\* No VM runs: clear the session there was.
EnforceIdle(w) ==
  /\ Decided(w) /\ seen[w] = {}
  /\ \/ read[w] = None /\ Finish(w)
     \/ read[w] # None /\ Goto(w, "clear_start")
        /\ UNCHANGED <<left, who, todo, seen, read, missed, since>>
  /\ UNCHANGED <<redis, proxmox, history, faults>>

\* Faulty: the job starts no session.
EnforceRunningSkips(w) ==
  /\ Decided(w) /\ seen[w] # {} /\ ~ Expired(read[w])
  /\ Finish(w)
  /\ UNCHANGED <<redis, proxmox, history, faults>>

\* VMs run: start the session there was not, or let it run.
EnforceRunning(w) ==
  /\ Decided(w) /\ seen[w] # {} /\ ~ Expired(read[w])
  /\ \/ read[w] # None /\ Finish(w)
     \/ read[w] = None /\ Goto(w, "set_start")
        /\ UNCHANGED <<left, who, todo, seen, read, missed, since>>
  /\ UNCHANGED <<redis, proxmox, history, faults>>

\* Faulty: a VM that ignores the request is asked again, never stopped.
EnforceExpiredAsksAgain(w) ==
  /\ Decided(w) /\ seen[w] # {} /\ Expired(read[w])
  /\ LET asking == shutdown[who[w]]
     IN  \/ (asking = None \/ GraceOver(asking)) /\ Goto(w, "mark")
            /\ UNCHANGED <<left, who, todo, seen, read, missed, since>>
         \/ asking # None /\ ~ GraceOver(asking) /\ Finish(w)
  /\ UNCHANGED <<redis, proxmox, history, faults>>

\* The session is over: ask, wait for the grace period, stop.
EnforceExpired(w) ==
  /\ Decided(w) /\ seen[w] # {} /\ Expired(read[w])
  /\ LET asking == shutdown[who[w]]
     IN  \/ asking = None /\ Goto(w, "mark")
            /\ UNCHANGED <<left, who, todo, seen, read, missed, since>>
         \/ asking # None /\ ~ GraceOver(asking) /\ Finish(w)
         \/ /\ GraceOver(asking) /\ Goto(w, "stop")
            /\ todo' = [todo EXCEPT ![w] = seen[w]]
            /\ UNCHANGED <<left, who, seen, read, missed, since>>
  /\ UNCHANGED <<redis, proxmox, history, faults>>

MarkShutdown(w) ==
  /\ pc[w] = "mark"
  /\ shutdown' = [shutdown EXCEPT ![who[w]] = 0]
  /\ round' = [round EXCEPT ![who[w]] = 0]
  /\ Goto(w, "ask")
  /\ todo' = [todo EXCEPT ![w] = seen[w]]
  /\ UNCHANGED <<start, proxmox, forced, faults, left, who, seen, read,
                 missed, since>>

AskShutdown(w, v) ==
  /\ pc[w] = "ask" /\ v \in todo[w]
  /\ todo' = [todo EXCEPT ![w] = @ \ {v}]
  /\ \/ Post(v, "shutdown") /\ UNCHANGED faults
     \/ Fault /\ UNCHANGED task                  \* except: pass
  /\ UNCHANGED <<redis, on, history, pc, left, who, seen, read, missed, since>>

HardStop(w, v) ==
  /\ pc[w] = "stop" /\ v \in todo[w]
  /\ todo' = [todo EXCEPT ![w] = @ \ {v}]
  /\ \/ Post(v, "stop") /\ UNCHANGED faults
     \/ Fault /\ UNCHANGED task                     \* except: pass
  /\ UNCHANGED <<redis, on, history, pc, left, who, seen, read, missed,
                 since>>

PoolDone(w) ==
  /\ pc[w] \in {"ask", "stop"} /\ todo[w] = {}
  /\ Finish(w)
  /\ UNCHANGED <<redis, proxmox, history, faults>>

-----------------------------------------------------------------------------
(* Proxmox, the guests and the clock                                       *)

\* p read v as off before it came up, and may still clear its session.
LookedTooEarly(p, v) ==
  /\ pc[p] \in Scanning \cup {"clear_start"}
  /\ v \in PoolVMs(who[p]) \ (todo[p] \cup seen[p])

PveStart(v) ==
  /\ task[v] = "start"
  /\ task' = [task EXCEPT ![v] = "none"]
  /\ \/ v \in on /\ UNCHANGED <<on, missed>>
     \/ /\ v \notin on
        /\ on' = on \cup {v}
        /\ missed' = [p \in Procs |-> IF LookedTooEarly(p, v)
                                      THEN missed[p] \cup {v} ELSE missed[p]]
  /\ UNCHANGED <<redis, history, faults, pc, left, who, todo, seen, read, since>>

PveStop(v) ==
  /\ task[v] \in {"stop", "shutdown"}
  /\ task' = [task EXCEPT ![v] = "none"]
  /\ on' = on \ {v}
  /\ UNCHANGED <<redis, procs, history, faults>>

\* A guest may ignore the ACPI request; any other task fails as a fault.
PveNoEffect(v) ==
  /\ \/ task[v] = "shutdown" /\ UNCHANGED faults
     \/ task[v] \in {"start", "stop"} /\ Fault
  /\ task' = [task EXCEPT ![v] = "none"]
  /\ UNCHANGED <<redis, on, procs, history>>

GuestOff(v) ==
  /\ v \in on
  /\ on' = on \ {v}
  /\ UNCHANGED <<redis, task, procs, history, faults>>

\* setup_template_task, and the Proxmox interface, start VMs with no session.
StartOutside(v) ==
  /\ v \notin on /\ Post(v, "start")
  /\ UNCHANGED <<redis, on, procs, history, faults>>

\* A read that a pending write of the session stands on.
StandsOnRead(p) ==
  \/ pc[p] = "set_start"
  \/ pc[p] = "enf_scan" /\ read[p] = None

Tick ==
  /\ start' = [n \in Names |-> Older(start[n], Timeout)]
  /\ shutdown' = [n \in Names |-> Older(shutdown[n], Grace)]
  /\ round' = [n \in Names |-> Older(round[n], Grace)]
  /\ read' = [p \in Procs |-> Older(read[p], Timeout)]
  /\ since' = [p \in Procs |-> IF StandsOnRead(p)
                               THEN Older(since[p], Timeout) ELSE since[p]]
  /\ UNCHANGED <<proxmox, faults, forced, pc, left, who, todo, seen, missed>>

-----------------------------------------------------------------------------
WebStep(p) ==
  \/ \E n \in Users : Poll(p, n)
  \/ \E n \in Users : \E v \in VMs : PowerOn(p, n, v) \/ PowerOff(p, n, v)
  \/ \E a \in AdminActions : BeginAdmin(p, a)
  \/ EnsureSession(p) \/ DownDecide(p) \/ PollDecide(p)
  \/ \E n \in Names : ExpireSession(p, n) \/ ReadRemaining(p, n)
  \/ ShortenSession(p) \/ DeleteMarker(p) \/ EndAdmin(p)

WorkerStep(w) ==
  \/ BeginEnforcement(w) \/ EndEnforcement(w)
  \/ \E k \in Names : NextPool(w, k)
  \/ EnforceIdle(w) \/ EnforceRunning(w) \/ EnforceExpired(w)
  \/ MarkShutdown(w) \/ PoolDone(w)
  \/ \E v \in VMs : AskShutdown(w, v) \/ HardStop(w, v)

ProcStep(p) ==
  \/ \E v \in VMs : ReadStatus(p, v)
  \/ SetStart(p) \/ ClearStart(p) \/ ClearShutdown(p)

PveStep(v) == PveStart(v) \/ PveStop(v) \/ PveNoEffect(v)

Next ==
  \/ \E p \in Web : WebStep(p)
  \/ \E w \in Workers : WorkerStep(w)
  \/ \E p \in Procs : ProcStep(p) \/ Crash(p)
                        \/ \E v \in VMs : StatusUnreadable(p, v)
  \/ \E v \in VMs : PveStep(v) \/ GuestOff(v) \/ StartOutside(v)
  \/ Tick

Spec == Init /\ [][Next]_vars

(***************************************************************************)
(* The RQ worker and the scheduler keep running jobs: a worker that can    *)
(* move infinitely often does move.  Strong fairness, because its call     *)
(* waits while other Proxmox tasks hold the VM.  Proxmox ends the tasks it *)
(* took, and time passes.  Nothing is asked of users, guests or requests.  *)
(***************************************************************************)
Fairness ==
  /\ \A w \in Workers : SF_vars(WorkerStep(w) \/ ProcStep(w))
  /\ \A v \in VMs : WF_vars(PveStep(v))
  /\ WF_vars(Tick)

FairSpec == Spec /\ Fairness

-----------------------------------------------------------------------------
RedisType ==
  /\ start \in [Names -> AgesUpTo(Timeout)]
  /\ shutdown \in [Names -> AgesUpTo(Grace)]

ProxmoxType ==
  /\ on \subseteq VMs
  /\ task \in [VMs -> {"none", "start", "stop", "shutdown"}]

ProcsType ==
  /\ pc \in [Procs -> States]
  /\ left \in [Procs -> SUBSET Names]
  /\ who \in [Procs -> Names \cup {None}]
  /\ \A p \in Procs : pc[p] \notin {"idle", "pools", "expire", "warn"}
                        => who[p] \in Names
  /\ todo \in [Procs -> SUBSET VMs]
  /\ seen \in [Procs -> SUBSET VMs]
  /\ read \in [Procs -> AgesUpTo(Timeout)]
  /\ missed \in [Procs -> SUBSET VMs]
  /\ since \in [Procs -> 0 .. Timeout]

HistoryType ==
  /\ forced \subseteq Names
  /\ round \in [Names -> AgesUpTo(Grace)]

\* Every variable stays within the values the code gives it; above all, a
\* process that is about to touch a key knows whose key it is.
TypeOK ==
  RedisType /\ ProxmoxType /\ ProcsType /\ HistoryType /\ faults \in 0 .. MaxFaults

\* Enforcement stops the VMs of a pool only when the last round in which it
\* asked them to shut down is a grace period old (tasks.py:319-334), however
\* requests, clears and admin resets interleave with the job.
HardStopAfterGrace ==
  \A w \in Workers : pc[w] = "stop" => round[who[w]] = Grace

\* _ensure_session_started, /session and the job test and set in two calls.
\* The timer of a live session goes back only to the advantage of a session
\* younger than that gap; otherwise only an admin moves it.
TimerRestartsOnlyInTheGap ==
  [][\A n \in Names :
       (start[n] # None /\ start'[n] # None /\ start'[n] < start[n])
         => \/ n \in forced \cup forced'
            \/ \E p \in Procs : /\ pc[p] = "set_start" /\ who[p] = n
                                /\ start[n] <= since[p]]_vars

\* A session is cleared only by a handler that looked at the VMs of its pool:
\* one that is on escaped it by coming up after the look, or by not answering.
SessionKeptWhileRunning ==
  [][\A n \in Names :
       (start[n] # None /\ start'[n] = None)
         => \E p \in Procs : /\ pc[p] = "clear_start" /\ who[p] = n
                             /\ on \cap PoolVMs(n) \subseteq missed[p]]_vars

\* Inductive strengthenings of the three properties above.  A marker in Redis
\* is the mark of the last round.
MarkerIsRound == \A n \in Names : shutdown[n] # None => shutdown[n] = round[n]

\* A session that exists although a process is about to start it is younger
\* than the read that process goes by, or an admin's.
PendingStartIsFresh ==
  \A p \in Procs : StandsOnRead(p)
    => \/ start[who[p]] = None \/ who[p] \in forced
       \/ start[who[p]] <= since[p]

\* A process that has seen nothing run has missed all that runs, or has yet
\* to look at it.
NothingSeenMeansMissed ==
  \A p \in Procs :
    /\ pc[p] \in Scanning \cup {"clear_start"} /\ seen[p] = {}
         => on \cap PoolVMs(who[p]) \subseteq todo[p] \cup missed[p]
    /\ pc[p] = "clear_start" => seen[p] = {} /\ todo[p] = {}

\* A VM left running gets a session, wherever it was started from.
RunningGetsSession ==
  \A k \in Enforced : \A v \in PoolVMs(k) :
    v \in on ~> (start[k] # None \/ v \notin on)

\* An expired session ends, or a handler replaces it: guests that ignore the
\* request, failed calls and killed jobs only delay the hard stop.
OvertimeEnds ==
  \A k \in Enforced : \A v \in PoolVMs(k) :
    (v \in on /\ start[k] = Timeout) ~> (v \notin on \/ start[k] # Timeout)

\* The timer of a pool that stays off does not outlive it.
IdleSessionEnds ==
  \A k \in Enforced :
    (on \cap PoolVMs(k) = {})
      ~> (start[k] = None \/ on \cap PoolVMs(k) # {})
=============================================================================
