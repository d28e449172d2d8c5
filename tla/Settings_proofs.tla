-------------------------- MODULE Settings_proofs --------------------------
(***************************************************************************)
(* Proofs about Settings, for any number of pools, templates, disk sizes,  *)
(* web workers, requests and failures.                                     *)
(***************************************************************************)
EXTENDS Settings, TLAPS

USE SizesAssumption, BoundsAssumption

\* The absent value is none of the values it stands in for.
LEMMA NoneIsNothing ==
  None \notin Pools /\ None \notin Templates /\ None \notin Disks /\ None # 0
<1>1. None \notin Pools /\ None \notin Templates /\ None \notin Nat
  BY NoneAssumption
<1>2. Disks \subseteq Nat /\ 0 \in Nat
  BY DEF Disks
<1> QED
  BY <1>1, <1>2

-----------------------------------------------------------------------------
(* Types                                                                   *)

\* The parts of the types: what is stored, the requests, and the jobs.
StoreTypes ==
  /\ row \subseteq Pools /\ ignored \subseteq Pools /\ listed \subseteq Pools
  /\ disk \in [Templates -> Disks \cup {None}]
  /\ pve \subseteq Pools /\ used \subseteq pve /\ offered \subseteq Templates
  /\ orphaned \subseteq Pools /\ stranded \subseteq Pools

WebTypes ==
  /\ pc \in [Web -> WebStates]
  /\ key \in [Web -> Pools \cup Templates \cup {None}]
  /\ broken \subseteq Web /\ requests \in 0 .. MaxRequests

JobTypes ==
  /\ job \in {"idle", "cache", "sync"}
  /\ todo \subseteq found /\ found \subseteq Pools \cup Templates
  /\ flushed \in [Templates -> Disks \cup {None}]
  /\ pending \in [id : Templates, disk : Disks] \cup {Nothing}
  /\ edited \subseteq Templates /\ gone \subseteq Templates

WebOK == WebTypes /\ KeysFit
JobOK == JobTypes /\ JobFits

Typed == StoreTypes /\ WebOK /\ JobOK /\ faults \in 0 .. MaxFaults

LEMMA TypeParts == TypeOK /\ KeysFit /\ JobFits <=> Typed
BY DEF TypeOK, Typed, StoreTypes, WebOK, WebTypes, JobOK, JobTypes

LEMMA BeginType ==
  ASSUME WebOK, NEW p \in Web, NEW k, NEW state \in WebStates \ {"idle"}, Begin(p, k, state),
         state = "edit" => k \in Templates, state # "edit" => k \in Pools
  PROVE  WebOK'
BY DEF WebOK, WebTypes, KeysFit, Begin, WebStates

LEMMA FinishType ==
  ASSUME WebOK, NEW p \in Web, End(p) \/ Break(p)
  PROVE  WebOK'
BY DEF WebOK, WebTypes, KeysFit, End, Break, Finish, WebStates

LEMMA GotoType ==
  ASSUME WebOK, NEW p \in Web, NEW state \in WebStates \ {"idle", "edit"}, Goto(p, state),
         key[p] \in Pools
  PROVE  WebOK'
BY DEF WebOK, WebTypes, KeysFit, Goto

LEMMA SameWeb ==
  ASSUME WebOK, UNCHANGED <<pc, key, requests>>, broken' \subseteq broken
  PROVE  WebOK'
BY DEF WebOK, WebTypes, KeysFit

LEMMA SameJob ==
  ASSUME JobOK, UNCHANGED <<worker, edited, gone>>
  PROVE  JobOK'
BY DEF JobOK, JobTypes, JobFits, worker

LEMMA EndJobType ==
  ASSUME JobOK, EndJob
  PROVE  JobOK'
BY DEF JobOK, JobTypes, JobFits, EndJob

\* Pools left over are pools.
LEMMA StrandType ==
  ASSUME StoreTypes, NEW left \in SUBSET Pools, Strand(left)
  PROVE  stranded' \subseteq Pools
BY DEF StoreTypes, Strand

\* What the job has written to, or is about to.
LEMMA FlushType ==
  ASSUME JobTypes
  PROVE  /\ Flush \in [Templates -> Disks \cup {None}]
         /\ \A t \in Templates : Flush[t] # None => flushed[t] # None \/ pending.id = t
         /\ \A t \in Templates : flushed[t] # None \/ pending.id = t => Flush[t] # None
<1>1. CASE pending = Nothing
  BY <1>1, NoneIsNothing DEF JobTypes, Flush, Nothing
<1>2. CASE pending \in [id : Templates, disk : Disks] /\ pending # Nothing
  BY <1>2, NoneIsNothing DEF JobTypes, Flush
<1> QED
  BY <1>1, <1>2 DEF JobTypes

LEMMA InitType == Init => TypeOK /\ KeysFit /\ JobFits
<1> SUFFICES Init => Typed
  BY TypeParts
<1> HAVE Init
<1> QED
  BY DEF Init, Typed, StoreTypes, WebOK, WebTypes, KeysFit, JobOK, JobTypes, JobFits,
     WebStates, Disks

\* The types are inductive, together with what requests and jobs work on, one
\* step per action.
LEMMA NextType ==
  ASSUME TypeOK, KeysFit, JobFits, [Next]_vars
  PROVE  TypeOK' /\ KeysFit' /\ JobFits'
<1> SUFFICES Typed'
  BY TypeParts, PTL
<1> Typed
  BY TypeParts
<1> USE DEF Typed
<1>1. ASSUME NEW p \in Web, NEW s \in Pools, AddIgnored(p, s) \/ DropIgnored(p, s)
                                             \/ ModifyPool(p, s) \/ DeletePool(p, s)
      PROVE  Typed'
  <2>1. WebOK'
    BY <1>1, BeginType DEF AddIgnored, DropIgnored, ModifyPool, DeletePool, WebStates
  <2>2. UNCHANGED <<tables, proxmox, worker, faults, history>>
    BY <1>1 DEF AddIgnored, DropIgnored, ModifyPool, DeletePool
  <2> QED
    BY <2>1, <2>2, SameJob DEF StoreTypes, tables, proxmox, history
<1>2. ASSUME NEW p \in Web, InsertIgnored(p) \/ DeleteIgnored(p) PROVE Typed'
  <2>1. key[p] \in Pools
    BY <1>2 DEF InsertIgnored, DeleteIgnored, WebOK, KeysFit
  <2>2. WebOK'
    BY <1>2, FinishType DEF InsertIgnored, DeleteIgnored
  <2>3. JobOK' /\ faults' = faults
    BY <1>2, SameJob DEF InsertIgnored, DeleteIgnored, history
  <2> QED
    BY <1>2, <2>1, <2>2, <2>3 DEF InsertIgnored, DeleteIgnored, StoreTypes, proxmox, history
<1>3. ASSUME NEW p \in Web, NEW s \in Pools, CreatePool(p, s) PROVE Typed'
  <2>1. WebOK'
    BY <1>3, BeginType DEF CreatePool, WebStates
  <2>2. JobOK' /\ faults' = faults
    BY <1>3, SameJob DEF CreatePool, history
  <2> QED
    BY <1>3, <2>1, <2>2 DEF CreatePool, StoreTypes, tables, history
<1>4. ASSUME NEW p \in Web, GetPool(p) PROVE Typed'
  <2>1. key[p] \in Pools
    BY <1>4 DEF GetPool, WebOK, KeysFit
  <2>2. WebOK'
    BY <1>4, <2>1, FinishType, GotoType DEF GetPool, WebStates
  <2>3. JobOK' /\ faults' = faults
    BY <1>4, SameJob DEF GetPool
  <2> QED
    BY <1>4, <2>1, <2>2, <2>3, StrandType DEF GetPool, StoreTypes, tables, proxmox
<1>5. ASSUME NEW p \in Web, InsertPool(p) \/ UpdatePool(p) PROVE Typed'
  <2>1. key[p] \in Pools
    BY <1>5 DEF InsertPool, UpdatePool, WebOK, KeysFit
  <2>2. WebOK'
    BY <1>5, FinishType DEF InsertPool, UpdatePool
  <2>3. JobOK' /\ faults' = faults
    BY <1>5, SameJob DEF InsertPool, UpdatePool, history
  <2>4. stranded' \subseteq Pools
    BY <1>5, StrandType DEF InsertPool, UpdatePool, StoreTypes, history
  <2> QED
    BY <1>5, <2>1, <2>2, <2>3, <2>4
    DEF InsertPool, UpdatePool, StoreTypes, tables, proxmox, history
<1>6. ASSUME NEW p \in Web, DeletePoolRow(p) PROVE Typed'
  <2>1. key[p] \in Pools
    BY <1>6 DEF DeletePoolRow, WebOK, KeysFit
  <2>2. WebOK'
    BY <1>6, <2>1, GotoType DEF DeletePoolRow, WebStates
  <2>3. JobOK' /\ faults' = faults
    BY <1>6, SameJob DEF DeletePoolRow
  <2> QED
    BY <1>6, <2>1, <2>2, <2>3 DEF DeletePoolRow, StoreTypes, proxmox
<1>7. ASSUME NEW p \in Web, DeleteProxmoxPool(p) PROVE Typed'
  <2>1. key[p] \in Pools
    BY <1>7 DEF DeleteProxmoxPool, WebOK, KeysFit
  <2>2. WebOK'
    BY <1>7, FinishType DEF DeleteProxmoxPool
  <2>3. JobOK' /\ faults' = faults
    BY <1>7, SameJob DEF DeleteProxmoxPool
  <2> QED
    BY <1>7, <2>1, <2>2, <2>3, StrandType DEF DeleteProxmoxPool, StoreTypes, tables
<1>8. ASSUME NEW p \in Web, NEW s \in Pools, DeleteUser(p, s) \/ ViewPool(p, s)
      PROVE  Typed'
  <2>1. WebOK'
    BY <1>8, SameWeb DEF DeleteUser, ViewPool, MakePool, web
  <2>2. JobOK' /\ faults' = faults
    BY <1>8, SameJob DEF DeleteUser, ViewPool, MakePool
  <2> QED
    BY <1>8, <2>1, <2>2, StrandType DEF DeleteUser, ViewPool, MakePool, StoreTypes, tables
<1>9. ASSUME NEW p \in Web, NEW t \in Templates, EditTemplate(p, t) PROVE Typed'
  <2>1. WebOK'
    BY <1>9, BeginType DEF EditTemplate, WebStates
  <2> QED
    BY <1>9, <2>1, SameJob DEF EditTemplate, StoreTypes, tables, proxmox, history
<1>10. ASSUME NEW p \in Web, NEW d \in Sizes, SetTemplateInfo(p, d) PROVE Typed'
  <2>1. key[p] \in Templates
    BY <1>10 DEF SetTemplateInfo, WebOK, KeysFit
  <2>2. WebOK'
    BY <1>10, FinishType DEF SetTemplateInfo
  <2>3. JobOK'
    BY <1>10, <2>1 DEF SetTemplateInfo, JobOK, JobTypes, JobFits, worker
  <2>4. StoreTypes'
    BY <1>10, <2>1 DEF SetTemplateInfo, StoreTypes, Disks, proxmox
  <2> QED
    BY <1>10, <2>2, <2>3, <2>4 DEF SetTemplateInfo
<1>11. ASSUME NEW p \in Web, RequestFails(p) PROVE Typed'
  <2>1. pc[p] # "edit" => key[p] \in Pools
    BY <1>11 DEF RequestFails, WebOK, KeysFit
  <2>2. WebOK'
    BY <1>11, FinishType DEF RequestFails
  <2>3. JobOK' /\ faults' \in 0 .. MaxFaults
    BY <1>11, SameJob DEF RequestFails, Fault
  <2> QED
    BY <1>11, <2>1, <2>2, <2>3, StrandType DEF RequestFails, StoreTypes, tables, proxmox
<1>12. ASSUME NEW p \in Web, Restart(p) PROVE Typed'
  <2>1. WebOK'
    BY <1>12, SameWeb DEF Restart
  <2> QED
    BY <1>12, <2>1, SameJob DEF Restart, StoreTypes, tables, proxmox, history
<1>13. CASE ListPools
  <2>1. JobOK'
    BY <1>13 DEF ListPools, JobOK, JobTypes, JobFits, StoreTypes, history
  <2> QED
    BY <1>13, <2>1, SameWeb DEF ListPools, StoreTypes, tables, proxmox, web, history
<1>14. ASSUME NEW s \in Pools, VisitPool(s) PROVE Typed'
  <2>1. JobOK'
    BY <1>14 DEF VisitPool, MakePool, JobOK, JobTypes, JobFits
  <2> QED
    BY <1>14, <2>1, SameWeb, StrandType DEF VisitPool, MakePool, StoreTypes, tables, web
<1>15. CASE StorePoolCache
  <2>1. found \subseteq Pools
    BY <1>15 DEF StorePoolCache, JobOK, JobFits
  <2> QED
    BY <1>15, <2>1, SameWeb, EndJobType DEF StorePoolCache, StoreTypes, proxmox, web
<1>16. CASE ListTemplates
  <2>1. JobOK'
    BY <1>16 DEF ListTemplates, JobOK, JobTypes, JobFits, StoreTypes
  <2> QED
    BY <1>16, <2>1, SameWeb DEF ListTemplates, StoreTypes, tables, proxmox, web
<1>17. ASSUME NEW t \in Templates, ReadTemplate(t) PROVE Typed'
  <2>1. pending' \in [id : Templates, disk : Disks] \cup {Nothing}
    BY <1>17 DEF ReadTemplate, Disks
  <2>2. flushed' \in [Templates -> Disks \cup {None}]
    BY <1>17, FlushType DEF ReadTemplate, JobOK
  <2>3. JobOK'
    BY <1>17, <2>1, <2>2 DEF ReadTemplate, JobOK, JobTypes, JobFits, history
  <2> QED
    BY <1>17, <2>3, SameWeb DEF ReadTemplate, StoreTypes, tables, proxmox, web, history
<1>18. CASE CommitTemplates
  <2>1. disk' \in [Templates -> Disks \cup {None}]
    BY <1>18, FlushType DEF CommitTemplates, StoreTypes, JobOK
  <2> QED
    BY <1>18, <2>1, SameWeb, EndJobType DEF CommitTemplates, StoreTypes, proxmox, web
<1>19. CASE JobFails
  <2>1. faults' \in 0 .. MaxFaults
    BY <1>19 DEF JobFails, Fault
  <2> QED
    BY <1>19, <2>1, SameWeb, EndJobType DEF JobFails, StoreTypes, tables, proxmox, web
<1>20. ASSUME NEW s \in Pools, PutVm(s) PROVE Typed'
  <2>1. StoreTypes'
    BY <1>20 DEF PutVm, StoreTypes, tables, history
  <2> QED
    BY <1>20, <2>1, SameWeb, SameJob DEF PutVm, web, history
<1>21. ASSUME NEW t \in Templates, OfferTemplate(t) PROVE Typed'
  <2>1. StoreTypes'
    BY <1>21 DEF OfferTemplate, StoreTypes, tables, history
  <2> QED
    BY <1>21, <2>1, SameWeb, SameJob DEF OfferTemplate, web, history
<1>22. CASE UNCHANGED vars
  BY <1>22, SameWeb, SameJob DEF vars, StoreTypes, tables, proxmox, web, history
<1> QED
  BY <1>1, <1>2, <1>3, <1>4, <1>5, <1>6, <1>7, <1>8, <1>9, <1>10, <1>11, <1>12, <1>13,
     <1>14, <1>15, <1>16, <1>17, <1>18, <1>19, <1>20, <1>21, <1>22
  DEF Next, RequestStep, JobStep

\* Every variable keeps to its values, pools with VMs are there, and a job
\* writes only to rows of templates (TypeOK).
THEOREM SettingsTypeCorrect == Spec => []TypeOK
BY InitType, NextType, PTL DEF Spec

LEMMA AlwaysTyped == Spec => [](TypeOK /\ KeysFit /\ JobFits)
BY InitType, NextType, PTL DEF Spec

-----------------------------------------------------------------------------
(* Shared pools: a row here and a pool in Proxmox                          *)

\* The requests at pools before a step are those after it, but for one.
Others(p) == \A q \in Web \ {p} : pc'[q] = pc[q] /\ key'[q] = key[q]

LEMMA OneRequestSteps ==
  ASSUME WebOK, NEW p \in Web,
         \/ End(p) \/ Break(p) \/ \E state \in WebStates : Goto(p, state)
         \/ \E k, state : Begin(p, k, state)
  PROVE  /\ Others(p)
         /\ End(p) \/ Break(p) => pc'[p] = "idle"
         /\ \A state \in WebStates : Goto(p, state) => pc'[p] = state /\ key'[p] = key[p]
         /\ \A k, state : Begin(p, k, state) => pc'[p] = state /\ key'[p] = k
BY DEF WebOK, WebTypes, Others, End, Break, Finish, Goto, Begin

\* A step of which the shared pools know nothing.
Elsewhere ==
  /\ UNCHANGED <<row, pve, used, orphaned, stranded>>
  /\ \A p \in Web : \A s \in Pools : MakesOrRemoves(p, s)' <=> MakesOrRemoves(p, s)

\* What a step of a request may be to the pools.
LEMMA RequestsAtPools ==
  ASSUME TypeOK, KeysFit, JobFits, [Next]_vars
  PROVE  \/ Elsewhere
         \/ \E p \in Web, s \in Pools : \/ CreatePool(p, s) \/ DeleteUser(p, s)
                                       \/ ViewPool(p, s)
         \/ \E p \in Web : \/ GetPool(p) \/ InsertPool(p) \/ DeletePoolRow(p)
                           \/ DeleteProxmoxPool(p) \/ RequestFails(p)
         \/ \E s \in Pools : VisitPool(s) \/ PutVm(s)
<1> Typed
  BY TypeParts
<1> USE DEF Typed
<1>1. ASSUME NEW p \in Web, NEW k, NEW state \in {"add", "remove", "modify", "unrow", "edit"},
             Begin(p, k, state), UNCHANGED <<tables, proxmox, history>>
      PROVE  Elsewhere
  <2>1. pc[p] = "idle" /\ pc'[p] = state /\ Others(p)
    BY <1>1, OneRequestSteps DEF Begin
  <2> QED
    BY <1>1, <2>1 DEF Elsewhere, MakesOrRemoves, Others, tables, proxmox, history
<1>2. ASSUME NEW p \in Web, NEW s \in Pools,
             AddIgnored(p, s) \/ DropIgnored(p, s) \/ ModifyPool(p, s) \/ DeletePool(p, s)
      PROVE  Elsewhere
  BY <1>1, <1>2 DEF AddIgnored, DropIgnored, ModifyPool, DeletePool
<1>3. ASSUME NEW p \in Web, NEW t \in Templates, EditTemplate(p, t) PROVE Elsewhere
  BY <1>1, <1>3 DEF EditTemplate
<1>4. ASSUME NEW p \in Web, InsertIgnored(p) \/ DeleteIgnored(p) \/ UpdatePool(p)
                            \/ \E d \in Sizes : SetTemplateInfo(p, d)
      PROVE  Elsewhere
  <2>1. End(p) \/ Break(p)
    BY <1>4 DEF InsertIgnored, DeleteIgnored, UpdatePool, SetTemplateInfo
  <2>2. pc'[p] = "idle" /\ Others(p)
    BY <2>1, OneRequestSteps
  <2>3. pc[p] \notin {"get", "insert", "unpool"}
    BY <1>4 DEF InsertIgnored, DeleteIgnored, UpdatePool, SetTemplateInfo
  <2>4. UNCHANGED <<row, pve, used, orphaned, stranded>>
    BY <1>4 DEF InsertIgnored, DeleteIgnored, UpdatePool, SetTemplateInfo, tables, proxmox, history
  <2> QED
    BY <2>2, <2>3, <2>4 DEF Elsewhere, MakesOrRemoves, Others
<1>5. ASSUME NEW p \in Web, Restart(p) PROVE Elsewhere
  BY <1>5 DEF Restart, Elsewhere, MakesOrRemoves, tables, proxmox, history
<1>6. CASE ListPools \/ StorePoolCache \/ ListTemplates \/ CommitTemplates \/ JobFails
           \/ \E t \in Templates : ReadTemplate(t) \/ OfferTemplate(t)
  <2>1. UNCHANGED <<row, pve, used, orphaned, stranded, pc, key>>
    BY <1>6 DEF ListPools, StorePoolCache, ListTemplates, CommitTemplates, JobFails,
       ReadTemplate, OfferTemplate, tables, proxmox, web, history
  <2> QED
    BY <2>1 DEF Elsewhere, MakesOrRemoves
<1>7. CASE UNCHANGED vars
  BY <1>7 DEF vars, Elsewhere, MakesOrRemoves, tables, proxmox, web, history
<1> QED
  BY <1>2, <1>3, <1>4, <1>5, <1>6, <1>7 DEF Next, RequestStep, JobStep

\* Each pool stays in one of its states, unless "orphaned" records it.
LEMMA NextOneAtAPool ==
  ASSUME TypeOK, KeysFit, JobFits, OneAtAPool, [Next]_vars
  PROVE  OneAtAPool'
<1> Typed
  BY TypeParts
<1> USE DEF Typed, OneAtAPool, MakesOrRemoves
<1>1. CASE Elsewhere
  BY <1>1 DEF Elsewhere
<1>2. ASSUME NEW p \in Web, NEW s \in Pools, CreatePool(p, s) PROVE OneAtAPool'
  <2>1. pc'[p] = "get" /\ key'[p] = s /\ Others(p)
    BY <1>2, OneRequestSteps DEF CreatePool
  <2>2. s \notin pve /\ pve' = pve \cup {s} /\ UNCHANGED <<row, orphaned>>
    BY <1>2 DEF CreatePool, tables, history
  <2> QED
    BY <2>1, <2>2 DEF Others
<1>3. ASSUME NEW p \in Web, NEW s \in Pools, DeleteUser(p, s) PROVE OneAtAPool'
  BY <1>3 DEF DeleteUser, tables, web
<1>4. ASSUME NEW p \in Web, GetPool(p) PROVE OneAtAPool'
  <2>1. Others(p) /\ (pc'[p] = "idle" \/ (pc'[p] = "insert" /\ key'[p] = key[p]))
    BY <1>4, OneRequestSteps DEF GetPool, WebStates
  <2>2. pc[p] = "get" /\ UNCHANGED <<row, pve, orphaned>>
    BY <1>4 DEF GetPool, tables, proxmox
  <2> QED
    BY <2>1, <2>2 DEF Others
<1>5. ASSUME NEW p \in Web, InsertPool(p) PROVE OneAtAPool'
  <2>1. Others(p) /\ pc'[p] = "idle"
    BY <1>5, OneRequestSteps DEF InsertPool
  <2>2. /\ pc[p] = "insert" /\ row' \subseteq row \cup {key[p]} /\ row \subseteq row'
        /\ UNCHANGED <<pve, orphaned>>
    BY <1>5 DEF InsertPool, proxmox, history
  <2> QED
    BY <2>1, <2>2 DEF Others
<1>6. ASSUME NEW p \in Web, DeletePoolRow(p) PROVE OneAtAPool'
  <2>1. Others(p) /\ pc'[p] = "unpool" /\ key'[p] = key[p]
    BY <1>6, OneRequestSteps DEF DeletePoolRow, WebStates
  <2>2. /\ row' = row \ {key[p]} /\ orphaned' = orphaned \cup ({key[p]} \ row)
        /\ UNCHANGED pve
    BY <1>6 DEF DeletePoolRow, proxmox
  <2> QED
    BY <2>1, <2>2 DEF Others
<1>7. ASSUME NEW p \in Web, DeleteProxmoxPool(p) PROVE OneAtAPool'
  <2>1. Others(p) /\ pc'[p] = "idle"
    BY <1>7, OneRequestSteps DEF DeleteProxmoxPool
  <2>2. /\ pc[p] = "unpool" /\ pve' = pve \ ({key[p]} \ used)
        /\ UNCHANGED <<row, orphaned>>
    BY <1>7 DEF DeleteProxmoxPool, tables
  <2> QED
    BY <2>1, <2>2 DEF Others
<1>8. ASSUME NEW p \in Web, RequestFails(p) PROVE OneAtAPool'
  <2>1. Others(p) /\ pc'[p] = "idle" /\ UNCHANGED <<row, pve, orphaned>>
    BY <1>8, OneRequestSteps DEF RequestFails, tables, proxmox
  <2> QED
    BY <2>1 DEF Others
<1>9. ASSUME NEW s \in Pools, VisitPool(s) \/ PutVm(s) \/ \E p \in Web : ViewPool(p, s)
      PROVE  OneAtAPool'
  <2>1. pve \subseteq pve' /\ UNCHANGED <<row, orphaned, pc, key>>
    BY <1>9 DEF VisitPool, ViewPool, MakePool, PutVm, tables, web, history
  <2> QED
    BY <2>1
<1> QED
  BY <1>1, <1>2, <1>3, <1>4, <1>5, <1>6, <1>7, <1>8, <1>9, RequestsAtPools

\* A row has its pool, whatever fails: the pool is made before the row and
\* deleted after it, and only the ways "orphaned" records come between
\* (RowHasPool).
THEOREM RowsHavePools == Spec => []RowHasPool
<1>1. Init => OneAtAPool
  BY DEF Init, OneAtAPool, MakesOrRemoves
<1>2. TypeOK /\ KeysFit /\ JobFits /\ OneAtAPool /\ [Next]_vars => OneAtAPool'
  BY NextOneAtAPool
<1>3. TypeOK /\ OneAtAPool => RowHasPool
  BY DEF TypeOK, OneAtAPool, RowHasPool
<1> QED
  BY <1>1, <1>2, <1>3, AlwaysTyped, PTL DEF Spec

LEMMA NextPoolHasRow ==
  ASSUME TypeOK, KeysFit, JobFits, PoolHasRow, [Next]_vars
  PROVE  PoolHasRow'
<1> Typed
  BY TypeParts
<1> USE DEF Typed
<1>1. CASE Elsewhere
  BY <1>1 DEF Elsewhere, PoolHasRow, MakesOrRemoves, StoreTypes
<1>2. ASSUME NEW p \in Web, Others(p), stranded \cap (pve' \ row') \subseteq stranded',
             \A s \in pve \ row : key[p] = s /\ pc[p] \in {"get", "insert", "unpool"} =>
               \/ s \in row' \/ s \notin pve' \/ s \in stranded'
               \/ pc'[p] \in {"get", "insert", "unpool"} /\ key'[p] = s,
             \A s \in pve' \ row' : \/ s \in pve \ row \/ s \in stranded'
                                    \/ pc'[p] \in {"get", "insert", "unpool"} /\ key'[p] = s
      PROVE  PoolHasRow'
  <2> SUFFICES ASSUME NEW s \in pve' \ row', s \notin stranded'
               PROVE  \E q \in Web : key'[q] = s /\ pc'[q] \in {"get", "insert", "unpool"}
    BY DEF PoolHasRow
  <2>1. CASE s \in pve \ row
    <3>1. PICK q \in Web : key[q] = s /\ pc[q] \in {"get", "insert", "unpool"}
      BY <1>2, <2>1 DEF PoolHasRow
    <3> QED
      BY <1>2, <2>1, <3>1 DEF Others
  <2> QED
    BY <1>2, <2>1
<1>3. ASSUME NEW p \in Web, NEW s \in Pools, CreatePool(p, s) PROVE PoolHasRow'
  <2>1. pc'[p] = "get" /\ key'[p] = s /\ Others(p) /\ pc[p] = "idle"
    BY <1>3, OneRequestSteps DEF CreatePool, Begin
  <2>2. pve' = pve \cup {s} /\ UNCHANGED <<row, stranded>>
    BY <1>3 DEF CreatePool, tables, history
  <2> QED
    BY <1>2, <2>1, <2>2
<1>4. ASSUME NEW p \in Web, NEW s \in Pools, DeleteUser(p, s) PROVE PoolHasRow'
  BY <1>4 DEF DeleteUser, Strand, tables, web, PoolHasRow
<1>5. ASSUME NEW p \in Web, GetPool(p) PROVE PoolHasRow'
  <2>1. pc[p] = "get" /\ UNCHANGED <<row, pve>> /\ stranded \cap (pve' \ row') \subseteq stranded'
    BY <1>5 DEF GetPool, Strand, tables, proxmox
  <2>2. /\ Others(p)
        /\ \/ /\ pc'[p] = "idle"
              /\ key[p] \in row' \/ key[p] \notin pve' \/ key[p] \in stranded'
           \/ pc'[p] = "insert" /\ key'[p] = key[p]
    BY <1>5, <2>1, OneRequestSteps DEF GetPool, Strand, WebStates
  <2> QED
    BY <1>2, <2>1, <2>2
<1>6. ASSUME NEW p \in Web, InsertPool(p) PROVE PoolHasRow'
  <2>1. Others(p) /\ pc'[p] = "idle"
    BY <1>6, OneRequestSteps DEF InsertPool
  <2>2. /\ pc[p] = "insert" /\ row \subseteq row' /\ key[p] \in row'
        /\ UNCHANGED pve /\ stranded \cap (pve' \ row') \subseteq stranded'
    BY <1>6 DEF InsertPool, Strand, proxmox
  <2> QED
    BY <1>2, <2>1, <2>2
<1>7. ASSUME NEW p \in Web, DeletePoolRow(p) PROVE PoolHasRow'
  <2>1. Others(p) /\ pc'[p] = "unpool" /\ key'[p] = key[p] /\ pc[p] = "unrow"
    BY <1>7, OneRequestSteps DEF DeletePoolRow, WebStates
  <2>2. row' = row \ {key[p]} /\ UNCHANGED <<pve, stranded>>
    BY <1>7 DEF DeletePoolRow, proxmox
  <2> QED
    BY <1>2, <2>1, <2>2
<1>8. ASSUME NEW p \in Web, DeleteProxmoxPool(p) PROVE PoolHasRow'
  <2>1. Others(p) /\ pc'[p] = "idle"
    BY <1>8, OneRequestSteps DEF DeleteProxmoxPool
  <2>2. /\ pve' = pve \ ({key[p]} \ used) /\ UNCHANGED row
        /\ (stranded \cup ({key[p]} \cap used)) \cap (pve' \ row') \subseteq stranded'
    BY <1>8 DEF DeleteProxmoxPool, Strand, tables
  <2> QED
    BY <1>2, <2>1, <2>2
<1>9. ASSUME NEW p \in Web, RequestFails(p) PROVE PoolHasRow'
  <2>1. Others(p) /\ pc'[p] = "idle" /\ UNCHANGED <<row, pve>>
    BY <1>9, OneRequestSteps DEF RequestFails, tables, proxmox
  <2>2. /\ stranded \cap (pve' \ row') \subseteq stranded'
        /\ pc[p] \in {"get", "insert", "unpool"} => {key[p]} \cap (pve' \ row') \subseteq stranded'
    BY <1>9 DEF RequestFails, Strand
  <2> QED
    BY <1>2, <2>1, <2>2
<1>10. ASSUME NEW s \in Pools, VisitPool(s) \/ PutVm(s) \/ \E p \in Web : ViewPool(p, s)
       PROVE  PoolHasRow'
  <2>1. /\ (stranded \cup pve') \cap (pve' \ row') \subseteq stranded' \cup pve
        /\ stranded \cap (pve' \ row') \subseteq stranded' /\ UNCHANGED <<row, pc, key>>
    BY <1>10 DEF VisitPool, ViewPool, MakePool, Strand, PutVm, tables, web, history
  <2> QED
    BY <2>1 DEF PoolHasRow
<1> QED
  BY <1>1, <1>3, <1>4, <1>5, <1>6, <1>7, <1>8, <1>9, <1>10, RequestsAtPools

\* A pool without a row is one a request is still about, or one that was left
\* behind in a way "stranded" records and is there since (PoolHasRow).
THEOREM PoolsHaveRows == Spec => []PoolHasRow
<1>1. Init => PoolHasRow
  BY DEF Init, PoolHasRow
<1>2. TypeOK /\ KeysFit /\ JobFits /\ PoolHasRow /\ [Next]_vars => PoolHasRow'
  BY NextPoolHasRow
<1> QED
  BY <1>1, <1>2, AlwaysTyped, PTL DEF Spec

-----------------------------------------------------------------------------
(* Templates: what the job lists and writes, and what admins enter         *)

\* The job writes only where it found no size; where an admin entered one
\* since, "edited" records it.
LEMMA NextWritesUnknown ==
  ASSUME TypeOK, KeysFit, JobFits, WritesUnknown, [Next]_vars
  PROVE  WritesUnknown'
<1> Typed
  BY TypeParts
<1> USE DEF Typed
<1>1. ASSUME NEW t \in Templates, ReadTemplate(t) PROVE WritesUnknown'
  <2> SUFFICES ASSUME NEW x \in Templates, flushed'[x] # None \/ pending'.id = x
               PROVE  x \in found' \ todo' /\ (disk'[x] \in {None, 0} \/ x \in edited')
    BY DEF WritesUnknown
  <2>1. CASE flushed'[x] # None
    <3>1. flushed[x] # None \/ pending.id = x
      BY <1>1, <2>1, FlushType DEF ReadTemplate, JobOK
    <3> QED
      BY <1>1, <3>1 DEF ReadTemplate, WritesUnknown, tables, history
  <2>2. CASE pending'.id = x
    <3>1. x = t /\ disk[t] \in {None, 0}
      BY <1>1, <2>2, NoneIsNothing DEF ReadTemplate, Nothing
    <3> QED
      BY <1>1, <3>1 DEF ReadTemplate, JobOK, JobTypes, tables
  <2> QED
    BY <2>1, <2>2
<1>2. ASSUME NEW p \in Web, NEW d \in Sizes, SetTemplateInfo(p, d) PROVE WritesUnknown'
  <2>1. key[p] \in Templates
    BY <1>2 DEF SetTemplateInfo, WebOK, KeysFit
  <2> QED
    BY <1>2, <2>1 DEF SetTemplateInfo, WritesUnknown, StoreTypes, worker
<1>3. CASE EndJob
  BY <1>3, NoneIsNothing DEF EndJob, WritesUnknown, Nothing
<1>4. CASE ListPools \/ ListTemplates
  <2>1. \A t \in Templates : flushed'[t] = None /\ pending'.id # t
    BY <1>4, NoneIsNothing DEF ListPools, ListTemplates, JobOK, JobFits, Nothing
  <2> QED
    BY <2>1 DEF WritesUnknown
<1>5. ASSUME NEW s \in Pools, VisitPool(s) PROVE WritesUnknown'
  <2>1. \A t \in Templates : flushed'[t] = None /\ pending'.id # t
    BY <1>5, NoneIsNothing DEF VisitPool, JobOK, JobFits, Nothing
  <2> QED
    BY <2>1 DEF WritesUnknown
<1>6. CASE UNCHANGED <<disk, worker, edited>>
  BY <1>6 DEF WritesUnknown, worker
<1>7. ASSUME NEW p \in Web, NEW s \in Pools,
             \/ AddIgnored(p, s) \/ DropIgnored(p, s) \/ CreatePool(p, s)
             \/ ModifyPool(p, s) \/ DeletePool(p, s) \/ DeleteUser(p, s)
             \/ ViewPool(p, s)
      PROVE  UNCHANGED <<disk, worker, edited>>
  BY <1>7 DEF AddIgnored, DropIgnored, CreatePool, ModifyPool, DeletePool, DeleteUser,
     ViewPool, MakePool, tables, history
<1>8. ASSUME NEW p \in Web,
             \/ InsertIgnored(p) \/ DeleteIgnored(p) \/ GetPool(p) \/ InsertPool(p)
             \/ UpdatePool(p) \/ DeletePoolRow(p) \/ DeleteProxmoxPool(p)
             \/ RequestFails(p) \/ Restart(p) \/ \E t \in Templates : EditTemplate(p, t)
      PROVE  UNCHANGED <<disk, worker, edited>>
  BY <1>8 DEF InsertIgnored, DeleteIgnored, GetPool, InsertPool, UpdatePool, DeletePoolRow,
     DeleteProxmoxPool, RequestFails, Restart, EditTemplate, tables, history
<1>9. CASE (\E s \in Pools : PutVm(s)) \/ (\E t \in Templates : OfferTemplate(t))
           \/ UNCHANGED vars
  <2>1. UNCHANGED <<disk, worker, edited>>
    BY <1>9 DEF PutVm, OfferTemplate, vars, tables, history
  <2> QED
    BY <1>6, <2>1
<1> QED
  BY <1>1, <1>2, <1>3, <1>4, <1>5, <1>6, <1>7, <1>8, <1>9
  DEF Next, RequestStep, JobStep, StorePoolCache, CommitTemplates, JobFails

\* Which steps write to the table of templates.
LEMMA WhoWritesTemplates ==
  ASSUME [Next]_vars
  PROVE  \/ UNCHANGED disk \/ CommitTemplates
         \/ \E p \in Web, d \in Sizes : SetTemplateInfo(p, d)
<1>1. ASSUME NEW p \in Web, NEW s \in Pools,
             \/ AddIgnored(p, s) \/ DropIgnored(p, s) \/ CreatePool(p, s)
             \/ ModifyPool(p, s) \/ DeletePool(p, s) \/ DeleteUser(p, s)
             \/ ViewPool(p, s)
      PROVE  UNCHANGED disk
  BY <1>1 DEF AddIgnored, DropIgnored, CreatePool, ModifyPool, DeletePool, DeleteUser,
     ViewPool, MakePool, tables
<1>2. ASSUME NEW p \in Web,
             \/ InsertIgnored(p) \/ DeleteIgnored(p) \/ GetPool(p) \/ InsertPool(p)
             \/ UpdatePool(p) \/ DeletePoolRow(p) \/ DeleteProxmoxPool(p)
             \/ RequestFails(p) \/ Restart(p) \/ \E t \in Templates : EditTemplate(p, t)
      PROVE  UNCHANGED disk
  BY <1>2 DEF InsertIgnored, DeleteIgnored, GetPool, InsertPool, UpdatePool, DeletePoolRow,
     DeleteProxmoxPool, RequestFails, Restart, EditTemplate, tables
<1>3. ASSUME \/ ListPools \/ ListTemplates \/ StorePoolCache \/ JobFails
             \/ \E s \in Pools : VisitPool(s) \/ PutVm(s)
             \/ \E t \in Templates : ReadTemplate(t) \/ OfferTemplate(t)
             \/ UNCHANGED vars
      PROVE  UNCHANGED disk
  BY <1>3 DEF ListPools, ListTemplates, StorePoolCache, JobFails, VisitPool, MakePool, PutVm,
     ReadTemplate, OfferTemplate, vars, tables
<1> QED
  BY <1>1, <1>2, <1>3 DEF Next, RequestStep, JobStep

\* A row is removed only for a template that Proxmox did not offer when the job
\* asked for them (OfferedTemplateKept).
THEOREM OfferedTemplatesAreKept == Spec => OfferedTemplateKept
<1>1. TypeOK /\ KeysFit /\ JobFits /\ [Next]_vars
        => [\A t \in Templates : (disk[t] # None /\ disk'[t] = None) => t \in gone]_vars
  <2> SUFFICES ASSUME TypeOK, KeysFit, JobFits, [Next]_vars,
                      NEW t \in Templates, disk[t] # None, disk'[t] = None
               PROVE  t \in gone
    OBVIOUS
  <2> Typed
    BY TypeParts
  <2>1. CASE CommitTemplates
    <3>1. t \notin found
      BY <2>1 DEF CommitTemplates
    <3> QED
      BY <2>1, <3>1 DEF CommitTemplates, Typed, JobOK, JobFits
  <2>2. ASSUME NEW p \in Web, NEW d \in Sizes, SetTemplateInfo(p, d) PROVE FALSE
    <3>1. d # None
      BY NoneIsNothing DEF Disks
    <3> QED
      BY <2>2, <3>1 DEF SetTemplateInfo, Typed, StoreTypes
  <2> QED
    BY <2>1, <2>2, WhoWritesTemplates
<1> QED
  BY <1>1, AlwaysTyped, PTL DEF Spec, OfferedTemplateKept

\* The job replaces no size an admin has entered, unless he entered it after
\* the job had read the row (EnteredSizeKept).
THEOREM EnteredSizesAreKept == Spec => EnteredSizeKept
<1>1. Init => WritesUnknown
  BY NoneIsNothing DEF Init, WritesUnknown, Nothing
<1>2. TypeOK /\ KeysFit /\ JobFits /\ WritesUnknown /\ [Next]_vars => WritesUnknown'
  BY NextWritesUnknown
<1>3. TypeOK /\ KeysFit /\ JobFits /\ WritesUnknown /\ [Next]_vars
        => [job = "sync" /\ job' = "idle" =>
              \A t \in Templates :
                (disk[t] \notin {None, 0} /\ disk'[t] \notin {None, disk[t]})
                  => t \in edited]_vars
  <2> SUFFICES ASSUME TypeOK, KeysFit, JobFits, WritesUnknown, [Next]_vars,
                      job = "sync", job' = "idle", NEW t \in Templates,
                      disk[t] \notin {None, 0}, disk'[t] \notin {None, disk[t]}
               PROVE  t \in edited
    OBVIOUS
  <2> Typed
    BY TypeParts
  <2>1. CASE CommitTemplates
    <3>1. Flush[t] # None
      BY <2>1 DEF CommitTemplates
    <3>2. flushed[t] # None \/ pending.id = t
      BY <3>1, FlushType DEF Typed, JobOK
    <3> QED
      BY <3>2 DEF WritesUnknown
  <2>2. ASSUME NEW p \in Web, NEW d \in Sizes, SetTemplateInfo(p, d) PROVE FALSE
    BY <2>2 DEF SetTemplateInfo, worker
  <2> QED
    BY <2>1, <2>2, WhoWritesTemplates
<1> QED
  BY <1>1, <1>2, <1>3, AlwaysTyped, PTL DEF Spec, EnteredSizeKept
=============================================================================
