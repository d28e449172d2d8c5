------------------------------ MODULE Settings ------------------------------
(***************************************************************************)
(* What admins set, and what is kept in two places.  Settings requests     *)
(* work on tables of Postgres through the one SQLAlchemy session of their  *)
(* gunicorn worker, which nobody rolls back: once a flush has failed, every*)
(* statement of that worker does.  A shared pool is a row and a pool in    *)
(* Proxmox.  Two periodic jobs write the tables that pages are made from:  *)
(* the pool cache, and the list of templates, which admins edit too.  The  *)
(* refresh a request queues only has them run sooner.                      *)
(***************************************************************************)
EXTENDS Integers, FiniteSets

CONSTANTS
  Pools,        \* pool names
  Templates,    \* template ids
  Sizes,        \* disk sizes an admin may enter; 0 is "not known"
  RealSize,     \* the size Proxmox tells
  Web,          \* gunicorn workers, one request each at a time
  MaxRequests,  \* bound on the settings requests
  MaxFaults,    \* bound on statements that fail and jobs that are killed
  None

ASSUME SizesAssumption == Sizes \subseteq Nat /\ RealSize \in Nat \ {0}
ASSUME BoundsAssumption == MaxRequests \in Nat /\ MaxFaults \in Nat
ASSUME NoneAssumption == None \notin Pools \cup Templates \cup Nat

VARIABLES
  row,       \* table shared_pools
  ignored,   \* table ignored_pools
  listed,    \* table pool_cache
  disk,      \* table template: id |-> disk size, or None without a row
  pve,       \* Proxmox: its pools, those of them with VMs, and the
  used,      \* templates in TEMPLATE_POOL
  offered,
  pc, key,   \* where each web worker is, and the pool or template it works on
  broken,    \* the web workers whose session needs a rollback
  job,       \* where the RQ worker is
  todo,      \* the pools or templates it has still to look at
  found,     \* those it has listed
  flushed,   \* its uncommitted writes to template rows
  pending,   \* [id, disk]: the row it read last, changed but not written yet
  requests, faults,
  \* History, read by no action:
  orphaned,  \* rows whose pool another request may have taken away: a second
             \* deletion of the row, or a deletion of "the user" of that name
  stranded,  \* pools without a row that are left over: half made, half deleted,
             \* or made again by a visit
  edited,    \* templates an admin edited since the job read them
  gone       \* templates Proxmox did not offer when the job listed them

tables  == <<row, ignored, listed, disk>>
proxmox == <<pve, used, offered>>
web     == <<pc, key, broken, requests>>
worker  == <<job, todo, found, flushed, pending>>
history == <<orphaned, stranded, edited, gone>>
vars    == <<tables, proxmox, web, worker, faults, history>>

Disks == Sizes \cup {RealSize, 0}
Nothing == [id |-> None, disk |-> None]

\* There may be shared pools already.
Init ==
  /\ row \in SUBSET Pools /\ ignored = {} /\ listed = {}
  /\ disk = [t \in Templates |-> None]
  /\ pve = row /\ used = {} /\ offered = {}
  /\ pc = [p \in Web |-> "idle"] /\ key = [p \in Web |-> None]
  /\ broken = {}
  /\ job = "idle" /\ todo = {} /\ found = {}
  /\ flushed = [t \in Templates |-> None] /\ pending = Nothing
  /\ requests = 0 /\ faults = 0
  /\ orphaned = {} /\ stranded = {} /\ edited = {} /\ gone = {}

-----------------------------------------------------------------------------
Fault == faults < MaxFaults /\ faults' = faults + 1

\* A request arrives; its first query, if it makes one, has been answered.
Begin(p, k, state) ==
  /\ pc[p] = "idle" /\ requests < MaxRequests
  /\ requests' = requests + 1
  /\ pc' = [pc EXCEPT ![p] = state]
  /\ key' = [key EXCEPT ![p] = k]
  /\ UNCHANGED broken

Goto(p, state) == pc' = [pc EXCEPT ![p] = state] /\ UNCHANGED <<key, broken, requests>>

Finish(p) ==
  /\ pc' = [pc EXCEPT ![p] = "idle"]
  /\ key' = [key EXCEPT ![p] = None]
  /\ UNCHANGED requests

End(p) == Finish(p) /\ UNCHANGED broken

\* The flush raises: IntegrityError, StaleDataError, a lost connection.
Break(p) == Finish(p) /\ broken' = broken \cup {p}

\* What is left over stays so until it is deleted, or has a row.
Strand(left) == stranded' = (stranded \cup left) \cap (pve' \ row')

-----------------------------------------------------------------------------
(* ignored_pools; allowed_users and its table work the same way            *)

AddIgnored(p, s) ==
  /\ p \notin broken /\ s \notin ignored
  /\ Begin(p, s, "add")
  /\ UNCHANGED <<tables, proxmox, worker, faults, history>>

\* The key is unique: of two that found it missing the second fails.
InsertIgnored(p) ==
  /\ pc[p] = "add"
  /\ \/ key[p] \notin ignored /\ ignored' = ignored \cup {key[p]} /\ End(p)
     \/ key[p] \in ignored /\ Break(p) /\ UNCHANGED ignored
  /\ UNCHANGED <<row, listed, disk, proxmox, worker, faults, history>>

DropIgnored(p, s) ==
  /\ p \notin broken /\ s \in ignored
  /\ Begin(p, s, "remove")
  /\ UNCHANGED <<tables, proxmox, worker, faults, history>>

\* A row that is gone already is nobody's error for long: NoResultFound, or a
\* warning.
DeleteIgnored(p) ==
  /\ pc[p] = "remove"
  /\ ignored' = ignored \ {key[p]}
  /\ End(p)
  /\ UNCHANGED <<row, listed, disk, proxmox, worker, faults, history>>

-----------------------------------------------------------------------------
(* create_shared_pool, modify_shared_pool, delete_shared_pool, delete_user *)

\* Faulty: the row first, and then the pool.
CreatePoolLast(p, s) ==
  /\ s \notin row
  /\ row' = row \cup {s}
  /\ Begin(p, s, "get")
  /\ UNCHANGED <<ignored, listed, disk, proxmox, worker, faults, history>>

\* Proxmox makes the pool, unless it has one of the name (400), before the
\* database is asked anything.
CreatePool(p, s) ==
  /\ s \notin pve
  /\ pve' = pve \cup {s}
  /\ Begin(p, s, "get")
  /\ UNCHANGED <<tables, used, offered, worker, faults, history>>

\* add_shared_pool: 'Name Already in Use' is not told to anybody.
GetPool(p) ==
  /\ pc[p] = "get"
  /\ UNCHANGED <<tables, proxmox, worker, faults, orphaned, edited, gone>>
  /\ \/ p \in broken /\ End(p) /\ Strand({key[p]})
     \/ /\ p \notin broken /\ UNCHANGED stranded
        /\ \/ key[p] \in row /\ End(p)
           \/ key[p] \notin row /\ Goto(p, "insert")

InsertPool(p) ==
  /\ pc[p] = "insert"
  /\ \/ key[p] \notin row /\ row' = row \cup {key[p]} /\ End(p)
     \/ key[p] \in row /\ Break(p) /\ UNCHANGED row
  /\ UNCHANGED <<ignored, listed, disk, proxmox, worker, faults, orphaned, edited, gone>>
  /\ Strand({})

ModifyPool(p, s) ==
  /\ p \notin broken /\ s \in row
  /\ Begin(p, s, "modify")
  /\ UNCHANGED <<tables, proxmox, worker, faults, history>>

\* New members for a row that is still there; else StaleDataError.
UpdatePool(p) ==
  /\ pc[p] = "modify"
  /\ \/ key[p] \in row /\ End(p)
     \/ key[p] \notin row /\ Break(p)
  /\ UNCHANGED <<tables, proxmox, worker, faults, history>>

DeletePool(p, s) ==
  /\ p \notin broken /\ s \in row
  /\ Begin(p, s, "unrow")
  /\ UNCHANGED <<tables, proxmox, worker, faults, history>>

\* Faulty: the request ends with the row.
DeletePoolRowOnly(p) ==
  /\ pc[p] = "unrow"
  /\ row' = row \ {key[p]}
  /\ End(p)
  /\ UNCHANGED <<ignored, listed, disk, proxmox, worker, faults, history>>

\* A deletion that matches no row only warns, and the request goes on.
DeletePoolRow(p) ==
  /\ pc[p] = "unrow"
  /\ row' = row \ {key[p]}
  /\ orphaned' = orphaned \cup ({key[p]} \ row)
  /\ Goto(p, "unpool")
  /\ UNCHANGED <<ignored, listed, disk, proxmox, worker, faults, stranded, edited, gone>>

\* Proxmox deletes no pool that has VMs in it.
DeleteProxmoxPool(p) ==
  /\ pc[p] = "unpool"
  /\ pve' = pve \ ({key[p]} \ used)
  /\ End(p)
  /\ UNCHANGED <<tables, used, offered, worker, faults, orphaned, edited, gone>>
  /\ Strand({key[p]} \cap used)

\* delete_user: the pool of a name on the page of pools, where it is listed
\* without VMs.  The cache lists shared pools as well.
DeleteUser(p, s) ==
  /\ pc[p] = "idle" /\ p \notin broken
  /\ s \in listed \cap pve
  /\ pve' = pve \ ({s} \ used)
  /\ orphaned' = orphaned \cup ({s} \ used)
  /\ UNCHANGED <<tables, used, offered, web, worker, faults, edited, gone>>
  /\ Strand({})

\* User(name).vms makes a pool it does not find: any name is a user's, and
\* pages are asked for by name, as the links on the page of pools do.
MakePool(s) ==
  /\ pve' = pve \cup {s}
  /\ UNCHANGED <<tables, used, offered, web, faults, orphaned, edited, gone>>
  /\ Strand({s} \ pve)

ViewPool(p, s) ==
  /\ pc[p] = "idle"
  /\ MakePool(s)
  /\ UNCHANGED worker

-----------------------------------------------------------------------------
(* template_edit                                                           *)

EditTemplate(p, t) ==
  /\ p \notin broken /\ disk[t] # None
  /\ Begin(p, t, "edit")
  /\ UNCHANGED <<tables, proxmox, worker, faults, history>>

\* set_template_info waits for a row the job has written to.  One that is gone
\* is not found, or cannot be updated.
SetTemplateInfo(p, d) ==
  /\ pc[p] = "edit" /\ flushed[key[p]] = None
  /\ \/ /\ disk[key[p]] # None
        /\ disk' = [disk EXCEPT ![key[p]] = d]
        /\ edited' = edited \cup ({key[p]} \cap (found \ todo))
        /\ End(p)
     \/ disk[key[p]] = None /\ (End(p) \/ Break(p)) /\ UNCHANGED <<disk, edited>>
  /\ UNCHANGED <<row, ignored, listed, proxmox, worker, faults, orphaned, stranded, gone>>

-----------------------------------------------------------------------------
\* A statement fails for want of a connection, or a call to Proxmox does.
RequestFails(p) ==
  /\ pc[p] # "idle" /\ Fault
  /\ End(p) \/ Break(p)
  /\ UNCHANGED <<tables, proxmox, worker, orphaned, edited, gone>>
  /\ Strand(IF pc[p] \in {"get", "insert", "unpool"} THEN {key[p]} ELSE {})

\* gunicorn replaces a worker process.
Restart(p) ==
  /\ pc[p] = "idle" /\ p \in broken
  /\ broken' = broken \ {p}
  /\ UNCHANGED <<tables, proxmox, pc, key, requests, worker, faults, history>>

-----------------------------------------------------------------------------
(* generate_pool_cache_task                                                *)

EndJob ==
  /\ job' = "idle" /\ todo' = {} /\ found' = {}
  /\ flushed' = [t \in Templates |-> None] /\ pending' = Nothing
  /\ edited' = {} /\ gone' = {}

\* get_pools; is_user takes any name.
ListPools ==
  /\ job = "idle"
  /\ job' = "cache"
  /\ found' = pve \ ignored /\ todo' = pve \ ignored
  /\ UNCHANGED <<tables, proxmox, web, flushed, pending, faults, history>>

VisitPool(s) ==
  /\ job = "cache" /\ s \in todo
  /\ todo' = todo \ {s}
  /\ MakePool(s)
  /\ UNCHANGED <<job, found, flushed, pending>>

\* store_pool_cache: all rows out and in again, in one transaction.
StorePoolCache ==
  /\ job = "cache" /\ todo = {}
  /\ listed' = found
  /\ EndJob
  /\ UNCHANGED <<row, ignored, disk, proxmox, web, faults, orphaned, stranded>>

-----------------------------------------------------------------------------
(* sync_templates_task                                                     *)

\* Faulty: a pool that cannot be loaded is taken for an empty one.
ListTemplatesOrNone ==
  /\ job = "idle"
  /\ job' = "sync"
  /\ \/ found' = offered /\ todo' = offered /\ UNCHANGED faults
     \/ Fault /\ found' = {} /\ todo' = {}
  /\ gone' = Templates \ offered
  /\ UNCHANGED <<tables, proxmox, web, flushed, pending, orphaned, stranded, edited>>

\* Faulty: the ids of those that have a row already are not collected.
ListTemplatesNew ==
  /\ job = "idle"
  /\ job' = "sync" /\ todo' = offered
  /\ found' = {t \in offered : disk[t] = None}
  /\ gone' = Templates \ offered
  /\ UNCHANGED <<tables, proxmox, web, flushed, pending, faults, orphaned, stranded, edited>>

\* get_templates_from_pool; when it fails there is nothing to synchronise.
ListTemplates ==
  /\ job = "idle"
  /\ job' = "sync" /\ found' = offered /\ todo' = offered
  /\ gone' = Templates \ offered
  /\ UNCHANGED <<tables, proxmox, web, flushed, pending, faults, orphaned, stranded, edited>>

\* Writes what has changed in the session; the row is locked until the commit.
Flush == IF pending = Nothing THEN flushed
         ELSE [flushed EXCEPT ![pending.id] = pending.disk]

\* Faulty: the size Proxmox tells replaces any other.
ReadTemplateOverwrites(t) ==
  /\ job = "sync" /\ t \in todo
  /\ flushed' = Flush
  /\ pending' = [id |-> t, disk |-> RealSize]
  /\ todo' = todo \ {t}
  /\ UNCHANGED <<tables, proxmox, web, job, found, faults, history>>

\* One query per template, which flushes the one before: a new row, or the
\* real size, where Proxmox tells it, for a row that has none.
ReadTemplate(t) ==
  /\ job = "sync" /\ t \in todo
  /\ flushed' = Flush
  /\ pending' \in CASE disk[t] = None -> [id : {t}, disk : {RealSize, 0}]
                    [] disk[t] = 0    -> [id : {t}, disk : {RealSize}] \cup {Nothing}
                    [] OTHER          -> {Nothing}
  /\ todo' = todo \ {t}
  /\ UNCHANGED <<tables, proxmox, web, job, found, faults, history>>

\* Faulty: with nothing listed nothing is deleted.
CommitTemplatesSome ==
  /\ job = "sync" /\ todo = {}
  /\ disk' = [t \in Templates |-> IF found # {} /\ t \notin found THEN None
                                  ELSE IF Flush[t] # None THEN Flush[t] ELSE disk[t]]
  /\ EndJob
  /\ UNCHANGED <<row, ignored, listed, proxmox, web, faults, orphaned, stranded>>

\* Rows of templates that were not listed go, and the rest is committed.
CommitTemplates ==
  /\ job = "sync" /\ todo = {}
  /\ disk' = [t \in Templates |-> IF t \notin found THEN None
                                  ELSE IF Flush[t] # None THEN Flush[t] ELSE disk[t]]
  /\ EndJob
  /\ UNCHANGED <<row, ignored, listed, proxmox, web, faults, orphaned, stranded>>

\* The job raises or is killed; its transaction is rolled back.
JobFails ==
  /\ job # "idle" /\ Fault
  /\ EndJob
  /\ UNCHANGED <<tables, proxmox, web, orphaned, stranded>>

-----------------------------------------------------------------------------
(* Proxmox: VMs come into pools and leave them, templates come and go      *)

PutVm(s) ==
  /\ s \in pve /\ used' = IF s \in used THEN used \ {s} ELSE used \cup {s}
  /\ UNCHANGED <<tables, pve, offered, web, worker, faults, history>>

OfferTemplate(t) ==
  /\ offered' = IF t \in offered THEN offered \ {t} ELSE offered \cup {t}
  /\ UNCHANGED <<tables, pve, used, web, worker, faults, history>>

-----------------------------------------------------------------------------
RequestStep(p) ==
  \/ InsertIgnored(p) \/ DeleteIgnored(p)
  \/ GetPool(p) \/ InsertPool(p) \/ UpdatePool(p)
  \/ DeletePoolRow(p) \/ DeleteProxmoxPool(p)
  \/ \E d \in Sizes : SetTemplateInfo(p, d)

JobStep ==
  \/ StorePoolCache \/ CommitTemplates
  \/ (\E s \in Pools : VisitPool(s)) \/ (\E t \in Templates : ReadTemplate(t))

Next ==
  \/ \E p \in Web :
       \/ RequestStep(p) \/ RequestFails(p) \/ Restart(p)
       \/ \E s \in Pools : \/ AddIgnored(p, s) \/ DropIgnored(p, s) \/ CreatePool(p, s)
                           \/ ModifyPool(p, s) \/ DeletePool(p, s) \/ DeleteUser(p, s)
                           \/ ViewPool(p, s)
       \/ \E t \in Templates : EditTemplate(p, t)
  \/ ListPools \/ ListTemplates \/ JobStep \/ JobFails
  \/ (\E s \in Pools : PutVm(s)) \/ (\E t \in Templates : OfferTemplate(t))

Spec == Init /\ [][Next]_vars

(***************************************************************************)
(* The scheduler queues each of the jobs every few minutes and the worker  *)
(* takes them; requests that have begun end.  Strong fairness, because the *)
(* one worker does one job at a time.                                      *)
(***************************************************************************)
Fairness ==
  /\ SF_vars(ListPools) /\ SF_vars(ListTemplates) /\ WF_vars(JobStep)
  /\ \A p \in Web : WF_vars(RequestStep(p))

FairSpec == Spec /\ Fairness

-----------------------------------------------------------------------------
WebStates == {"idle", "add", "remove", "get", "insert", "modify", "unrow",
              "unpool", "edit"}

\* Every variable keeps to its values; pools with VMs are there, and a job
\* writes only to rows of templates it has listed.
TypeOK ==
  /\ row \subseteq Pools /\ ignored \subseteq Pools /\ listed \subseteq Pools
  /\ disk \in [Templates -> Disks \cup {None}]
  /\ pve \subseteq Pools /\ used \subseteq pve /\ offered \subseteq Templates
  /\ pc \in [Web -> WebStates]
  /\ key \in [Web -> Pools \cup Templates \cup {None}]
  /\ broken \subseteq Web
  /\ job \in {"idle", "cache", "sync"}
  /\ todo \subseteq found /\ found \subseteq Pools \cup Templates
  /\ flushed \in [Templates -> Disks \cup {None}]
  /\ pending \in [id : Templates, disk : Disks] \cup {Nothing}
  /\ requests \in 0 .. MaxRequests /\ faults \in 0 .. MaxFaults
  /\ orphaned \subseteq Pools /\ stranded \subseteq Pools
  /\ edited \subseteq Templates /\ gone \subseteq Templates

\* User.allowed_vms asks Proxmox for every pool that has a row, and fails for
\* all its members if one is not there.  Created after its pool and deleted
\* before it, a row has its pool, whatever fails - unless two requests delete
\* it and the pool is made again between them, or the pool was deleted with the
\* button for users' pools, which pages also offer for shared ones.
RowHasPool == row \subseteq pve \cup orphaned

\* A pool in Proxmox that has no row belongs to a request that will write the
\* row or delete the pool, or was left behind: by a deletion that Proxmox
\* refused, a request that failed, a worker whose session is broken, or a visit
\* that made it again: by the cache job, or by a page for that name (user.py:39).
PoolHasRow ==
  \A s \in pve \ row :
    \/ s \in stranded
    \/ \E p \in Web : key[p] = s /\ pc[p] \in {"get", "insert", "unpool"}

\* A size an admin has entered is not replaced by the one Proxmox tells, unless
\* he entered it after the job had read the row (db.py:244-249).
EnteredSizeKept ==
  [][job = "sync" /\ job' = "idle" =>
       \A t \in Templates :
         (disk[t] \notin {None, 0} /\ disk'[t] \notin {None, disk[t]})
           => t \in edited]_vars

\* A row is removed only for a template that Proxmox did not offer when the job
\* asked: a template pool that cannot be listed is not an empty one
\* (proxmox.py:88-90, db.py:238).
OfferedTemplateKept ==
  [][\A t \in Templates :
       (disk[t] # None /\ disk'[t] = None) => t \in gone]_vars

\* What admins set, and what Proxmox has, reaches the pages in the end.
PagesFollow ==
  /\ \A s \in Pools :
       (<>[](s \in pve \ ignored) \/ <>[](s \notin pve \ ignored))
         => <>[]((s \in listed) <=> (s \in pve \ ignored))
  /\ \A t \in Templates :
       (<>[](t \in offered) \/ <>[](t \notin offered))
         => <>[]((disk[t] # None) <=> (t \in offered))

-----------------------------------------------------------------------------
(* Why these hold: the inductive invariants of the proofs.                 *)

\* What a request works on is a pool or a template, by where it is.
KeysFit ==
  \A p \in Web :
    /\ pc[p] \notin {"idle", "edit"} => key[p] \in Pools
    /\ pc[p] = "edit" => key[p] \in Templates

\* What the job has listed, by which job it is, and nothing to write between
\* two of them.
JobFits ==
  /\ job = "cache" => found \subseteq Pools
  /\ job = "sync" => found \subseteq Templates /\ Templates \ found \subseteq gone
  /\ job # "sync" => pending = Nothing /\ flushed = [t \in Templates |-> None]

MakesOrRemoves(p, s) == key[p] = s /\ pc[p] \in {"get", "insert", "unpool"}

\* But for the ways "orphaned" records, a pool has one state at a time: no
\* pool, a row and its pool, or a pool and one request that makes or removes it.
OneAtAPool ==
  \A s \in Pools \ orphaned :
    /\ s \in row => s \in pve
    /\ \A p \in Web : MakesOrRemoves(p, s) =>
         /\ s \in pve \ row
         /\ \A q \in Web : MakesOrRemoves(q, s) => p = q

\* What the job is to write, it has read as not known, or missing.
WritesUnknown ==
  \A t \in Templates :
    flushed[t] # None \/ pending.id = t =>
      t \in found \ todo /\ (disk[t] \in {None, 0} \/ t \in edited)
=============================================================================
