----------------------------- MODULE VncTargets -----------------------------
(***************************************************************************)
(* VNC consoles.  A console request has Proxmox open a proxy for the VM on *)
(* a port, writes a line "token: host:port" into the file websockify reads *)
(* its targets from, and keeps the token under the VM's id in Redis.       *)
(* Powering a VM off takes token and line away again, and an hourly cleanup*)
(* empties file and keys.  The file has no lock: lines are appended, but   *)
(* removed by reading the file and writing it anew.                        *)
(***************************************************************************)
EXTENDS Integers, Sequences, SequencesExt

CONSTANTS
  VMs,
  Ports,       \* host:port pairs Proxmox may open a proxy on
  Web,         \* gunicorn workers, one request each at a time
  MaxOpens,    \* bound on the consoles opened
  MaxFaults,   \* bound on requests that raise or are killed
  None

Tokens == 1 .. MaxOpens      \* gen_password: no token is drawn twice
Lines  == [token : Tokens, port : Ports]

ASSUME BoundsAssumption == MaxOpens \in Nat /\ MaxFaults \in Nat
ASSUME NoneAssumption == None \notin VMs \cup Ports \cup Tokens
ASSUME WebAssumption == Web # {}

VARIABLES
  file,     \* WEBSOCKIFY_TARGET_FILE, a sequence of lines
  stored,   \* Redis vnc_token|vmid: VM |-> token, or None
  pc, vm,   \* where each process is, and the VM its request is for
  token,    \* the token it has read, reused or drawn
  port,     \* the port a console request was given
  lines,    \* the targets it has read
  keys,     \* the VMs whose keys a cleanup has still to pass
  opens, drawn, faults,
  \* History, read by no action:
  shared,     \* tokens that were given out again for another VM
  disturbed   \* since file and keys were last emptied, two requests were at
              \* work at a time, or one died

locals  == <<vm, token, port, lines, keys>>
history == <<shared, disturbed>>
vars    == <<file, stored, pc, locals, opens, drawn, faults, history>>

Init ==
  /\ file = <<>>
  /\ stored = [v \in VMs |-> None]
  /\ pc = [p \in Web |-> "idle"]
  /\ vm = [p \in Web |-> None]
  /\ token = [p \in Web |-> None]
  /\ port = [p \in Web |-> None]
  /\ lines = [p \in Web |-> <<>>]
  /\ keys = [p \in Web |-> {}]
  /\ opens = 0 /\ drawn = 0 /\ faults = 0
  /\ shared = {} /\ disturbed = FALSE

-----------------------------------------------------------------------------
Goto(p, state) == pc' = [pc EXCEPT ![p] = state]

End(p) ==
  /\ Goto(p, "idle")
  /\ vm' = [vm EXCEPT ![p] = None]
  /\ token' = [token EXCEPT ![p] = None]
  /\ port' = [port EXCEPT ![p] = None]
  /\ lines' = [lines EXCEPT ![p] = <<>>]
  /\ keys' = [keys EXCEPT ![p] = {}]

Alone(p) == \A q \in Web \ {p} : pc[q] = "idle"
NoteOverlap(p) == disturbed' = (disturbed \/ ~ Alone(p))

TokensIn(targets) == {targets[k].token : k \in DOMAIN targets}

\* next(...): where the first target is that has the port, or the token, if any.
FirstWithPort(targets, n) ==
  {k \in DOMAIN targets : targets[k].port = n /\ \A j \in 1 .. k - 1 : targets[j].port # n}
FirstWithToken(targets, t) ==
  {k \in DOMAIN targets : targets[k].token = t /\ \A j \in 1 .. k - 1 : targets[j].token # t}

-----------------------------------------------------------------------------
(* vm_console                                                              *)

\* open_vnc_session: Proxmox picks a port that nobody listens on.  A proxy
\* ends when its viewer leaves or nobody comes, so it may be any port.
OpenSession(p, v, n) ==
  /\ pc[p] = "idle" /\ opens < MaxOpens
  /\ opens' = opens + 1
  /\ vm' = [vm EXCEPT ![p] = v]
  /\ port' = [port EXCEPT ![p] = n]
  /\ Goto(p, "lookup")
  /\ NoteOverlap(p)
  /\ UNCHANGED <<file, stored, token, lines, keys, drawn, faults, shared>>

\* add_vnc_target: "Host is already in the targets file", whoever's it was.
LookUpHost(p) ==
  /\ pc[p] = "lookup"
  /\ LET with == FirstWithPort(file, port[p])
     IN \/ \E k \in with :
             /\ token' = [token EXCEPT ![p] = file[k].token]
             /\ Goto(p, "store")
             /\ shared' = IF \E v \in VMs \ {vm[p]} : stored[v] = file[k].token
                          THEN shared \cup {file[k].token} ELSE shared
        \/ with = {} /\ Goto(p, "append") /\ UNCHANGED <<token, shared>>
  /\ UNCHANGED <<file, stored, vm, port, lines, keys, opens, drawn,
                 faults, disturbed>>

AppendTarget(p) ==
  /\ pc[p] = "append"
  /\ drawn' = drawn + 1
  /\ token' = [token EXCEPT ![p] = drawn + 1]
  /\ file' = Append(file, [token |-> drawn + 1, port |-> port[p]])
  /\ Goto(p, "store")
  /\ UNCHANGED <<stored, vm, port, lines, keys, opens, faults, history>>

\* "Store the VNC token in Redis", and the reply.
StoreToken(p) ==
  /\ pc[p] = "store"
  /\ stored' = [stored EXCEPT ![vm[p]] = token[p]]
  /\ End(p)
  /\ UNCHANGED <<file, opens, drawn, faults, history>>

-----------------------------------------------------------------------------
(* vm_power stop, shutdown, suspend and pause                              *)

\* The token is read before the VM is acted on; with none, there is nothing
\* to clean up afterwards.
PowerOff(p, v) ==
  /\ pc[p] = "idle" /\ stored[v] # None
  /\ vm' = [vm EXCEPT ![p] = v]
  /\ token' = [token EXCEPT ![p] = stored[v]]
  /\ Goto(p, "targets")
  /\ NoteOverlap(p)
  /\ UNCHANGED <<file, stored, port, lines, keys, opens, drawn, faults, shared>>

\* Faulty: the file is written anew also when the token is not in it.
ReadTargetsUnchecked(p) ==
  /\ pc[p] = "targets"
  /\ lines' = [lines EXCEPT ![p] = file]
  /\ Goto(p, "truncate")
  /\ UNCHANGED <<file, stored, vm, token, port, keys, opens, drawn, faults, history>>

\* delete_vnc_target: read the file; LookupError if the token is not in it.
ReadTargets(p) ==
  /\ pc[p] = "targets"
  /\ \/ /\ token[p] \in TokensIn(file)
        /\ lines' = [lines EXCEPT ![p] = file]
        /\ Goto(p, "truncate")
     \/ /\ token[p] \notin TokensIn(file)
        /\ Goto(p, "forget")
        /\ UNCHANGED lines
  /\ UNCHANGED <<file, stored, vm, token, port, keys, opens, drawn,
                 faults, history>>

\* open(..., 'w'): until the file is closed it is empty.
Truncate(p) ==
  /\ pc[p] = "truncate"
  /\ file' = <<>>
  /\ Goto(p, "rewrite")
  /\ UNCHANGED <<stored, locals, opens, drawn, faults, history>>

\* Lines are about as long as each other: what is written from the start of
\* the file covers as many of those appended since it was opened.
Overwrite(old, new) == new \o SubSeq(old, Len(new) + 1, Len(old))

\* Faulty: the first line goes, whoever's it is.
RewriteDropsFirst(p) ==
  /\ pc[p] = "rewrite"
  /\ file' = Overwrite(file, Tail(lines[p]))
  /\ Goto(p, "forget")
  /\ UNCHANGED <<stored, locals, opens, drawn, faults, history>>

\* The targets read before, without the first that has the token.
Rewrite(p) ==
  /\ pc[p] = "rewrite"
  /\ \E k \in FirstWithToken(lines[p], token[p]) :
       file' = Overwrite(file, RemoveAt(lines[p], k))
  /\ Goto(p, "forget")
  /\ UNCHANGED <<stored, locals, opens, drawn, faults, history>>

\* The key goes, also when a console was opened in the meantime.
ForgetToken(p) ==
  /\ pc[p] = "forget"
  /\ stored' = [stored EXCEPT ![vm[p]] = None]
  /\ End(p)
  /\ UNCHANGED <<file, opens, drawn, faults, history>>

-----------------------------------------------------------------------------
(* cleanup_vnc, which cleanup_vnc_task calls every hour                    *)

\* Faulty: only the keys are cleaned up.
BeginCleanupKeepsFile(p) ==
  /\ pc[p] = "idle"
  /\ keys' = [keys EXCEPT ![p] = VMs]
  /\ Goto(p, "scan")
  /\ disturbed' = ~ Alone(p)
  /\ UNCHANGED <<file, stored, vm, token, port, lines, opens, drawn,
                 faults, shared>>

BeginCleanup(p) ==
  /\ pc[p] = "idle"
  /\ file' = <<>>
  /\ keys' = [keys EXCEPT ![p] = VMs]
  /\ Goto(p, "scan")
  /\ disturbed' = ~ Alone(p)
  /\ UNCHANGED <<stored, vm, token, port, lines, opens, drawn, faults, shared>>

\* scan_iter passes every key once; one set behind it stays.
DeleteKey(p, v) ==
  /\ pc[p] = "scan" /\ v \in keys[p]
  /\ stored' = [stored EXCEPT ![v] = None]
  /\ keys' = [keys EXCEPT ![p] = @ \ {v}]
  /\ UNCHANGED <<file, pc, vm, token, port, lines, opens, drawn, faults, history>>

EndCleanup(p) ==
  /\ pc[p] = "scan" /\ keys[p] = {}
  /\ End(p)
  /\ UNCHANGED <<file, stored, opens, drawn, faults, history>>

-----------------------------------------------------------------------------
\* A call raises, or gunicorn kills the worker of a request that takes too long.
Fail(p) ==
  /\ pc[p] # "idle" /\ faults < MaxFaults
  /\ faults' = faults + 1
  /\ End(p)
  /\ disturbed' = TRUE
  /\ UNCHANGED <<file, stored, opens, drawn, shared>>

RequestStep(p) ==
  \/ LookUpHost(p) \/ AppendTarget(p) \/ StoreToken(p)
  \/ ReadTargets(p) \/ Truncate(p) \/ Rewrite(p) \/ ForgetToken(p)
  \/ (\E v \in VMs : DeleteKey(p, v)) \/ EndCleanup(p)

Next ==
  \E p \in Web :
    \/ RequestStep(p) \/ BeginCleanup(p) \/ Fail(p)
    \/ \E v \in VMs : PowerOff(p, v) \/ \E n \in Ports : OpenSession(p, v, n)

Spec == Init /\ [][Next]_vars

(***************************************************************************)
(* A request that has begun goes on, or is killed, and the scheduler has   *)
(* the cleanup requested every hour, which finds a worker free sometimes.  *)
(* Nothing is asked of users, who may open and stop VMs or not.            *)
(***************************************************************************)
Fairness ==
  /\ \A p \in Web : WF_vars(RequestStep(p))
  /\ SF_vars(\E p \in Web : BeginCleanup(p))

FairSpec == Spec /\ Fairness

-----------------------------------------------------------------------------
States == {"idle", "lookup", "append", "store", "targets", "truncate",
           "rewrite", "forget", "scan"}

\* Every variable keeps to its values, and a request that is about to write a
\* key or a line knows for which VM and token.
TypeOK ==
  /\ file \in Seq(Lines)
  /\ stored \in [VMs -> Tokens \cup {None}]
  /\ pc \in [Web -> States]
  /\ vm \in [Web -> VMs \cup {None}]
  /\ token \in [Web -> Tokens \cup {None}]
  /\ port \in [Web -> Ports \cup {None}]
  /\ lines \in [Web -> Seq(Lines)]
  /\ keys \in [Web -> SUBSET VMs]
  /\ \A p \in Web :
       /\ pc[p] \in {"store", "forget"} => vm[p] \in VMs /\ token[p] \in Tokens
       /\ pc[p] = "rewrite" => token[p] \in TokensIn(lines[p])
  /\ opens \in 0 .. MaxOpens /\ drawn \in 0 .. opens /\ faults \in 0 .. MaxFaults
  /\ shared \subseteq Tokens /\ disturbed \in BOOLEAN

\* The file is being written, or v's key is about to follow its line.
BetweenSteps(v) ==
  \E p \in Web : \/ pc[p] = "rewrite"
                 \/ pc[p] = "forget" /\ vm[p] = v
                 \/ pc[p] = "scan" /\ v \in keys[p]

\* The console that Redis knows of has its line in the file (vnc.py:42-72),
\* unless requests disturbed, one died half way, or the token was also given
\* to another VM, which took the line with it when it was powered off.
ConsoleKeepsTarget ==
  \A v \in VMs :
    stored[v] # None =>
      \/ stored[v] \in TokensIn(file) \cup shared
      \/ disturbed \/ BetweenSteps(v)

\* cleanup_vnc_task: "Removes all open VNC sessions."  Deletions that write
\* back lines a cleanup has just removed, and keys set behind its scan, only
\* delay it: when nobody opens consoles any more, no line and no key is left.
SessionsAllEnd ==
  <>[](file = <<>> /\ \A v \in VMs : stored[v] = None)

-----------------------------------------------------------------------------
(***************************************************************************)
(* Why these hold: the inductive invariants of the proofs                  *)
(***************************************************************************)

\* A request knows what the steps before it are to have told it.
RequestsFit ==
  \A p \in Web :
    /\ pc[p] \in {"lookup", "append"} => vm[p] \in VMs /\ port[p] \in Ports
    /\ pc[p] \in {"store", "targets", "truncate", "rewrite", "forget"} =>
         vm[p] \in VMs /\ token[p] \in Tokens
    /\ pc[p] \in {"truncate", "rewrite"} => token[p] \in TokensIn(lines[p])

Opening == {p \in Web : pc[p] \in {"lookup", "append"}}

\* Every console draws one token at most, so that there are enough.
OpensCountTokens == IsFiniteSet(Opening) /\ drawn + Cardinality(Opening) <= opens

\* No token is anywhere before it is drawn: the next one is nobody's.
TokensAreDrawn ==
  /\ \A v \in VMs : stored[v] # None => stored[v] <= drawn
  /\ \A p \in Web : token[p] # None => token[p] <= drawn
  /\ TokensIn(file) \subseteq 1 .. drawn
  /\ \A p \in Web : TokensIn(lines[p]) \subseteq 1 .. drawn

AtWork == {p \in Web : pc[p] # "idle"}

Kept(v, targets) == stored[v] # None => stored[v] \in TokensIn(targets) \cup shared

\* What the one request at work knows is still so.
StillSo(p) ==
  /\ pc[p] = "store" =>
       /\ token[p] \in TokensIn(file)
       /\ \A v \in VMs \ {vm[p]} : stored[v] = token[p] => token[p] \in shared
  /\ pc[p] \in {"targets", "truncate", "rewrite"} => stored[vm[p]] = token[p]
  /\ pc[p] = "truncate" => lines[p] = file
  /\ pc[p] = "rewrite" => \A v \in VMs : Kept(v, lines[p])
  /\ pc[p] = "scan" => \A v \in VMs \ keys[p] : stored[v] = None
  /\ pc[p] # "scan" => \A v, w \in VMs :
       v # w /\ stored[v] = stored[w] => stored[v] \in shared \cup {None}
  /\ pc[p] \notin {"rewrite", "scan"} =>
       \A v \in VMs : Kept(v, file) \/ (pc[p] = "forget" /\ vm[p] = v)

\* Undisturbed, one request is at work at a time, and finds what it left; all
\* the others see what they would see if they were the one.
Undisturbed ==
  disturbed \/ \E p \in Web : AtWork \subseteq {p} /\ StillSo(p)
=============================================================================
