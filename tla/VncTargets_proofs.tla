-------------------------- MODULE VncTargets_proofs --------------------------
(***************************************************************************)
(* Proofs about VncTargets, for any number of VMs, ports, web workers,     *)
(* consoles and failures.                                                  *)
(***************************************************************************)
EXTENDS VncTargets, SequenceTheorems, FiniteSetTheorems, TLAPS

USE BoundsAssumption

\* The absent value is none of the values it stands in for.
LEMMA NoneIsNothing == None \notin VMs /\ None \notin Ports /\ None \notin Tokens
BY NoneAssumption

-----------------------------------------------------------------------------
(* The targets                                                             *)

\* An appended line adds its token.
LEMMA AppendTokens ==
  ASSUME NEW targets \in Seq(Lines), NEW line \in Lines
  PROVE  /\ Append(targets, line) \in Seq(Lines)
         /\ TokensIn(Append(targets, line)) = TokensIn(targets) \cup {line.token}
<1> DEFINE new == Append(targets, line)
<1>1. /\ new \in Seq(Lines) /\ Len(new) = Len(targets) + 1
      /\ \A k \in 1 .. Len(targets) : new[k] = targets[k]
      /\ new[Len(targets) + 1] = line
  BY AppendProperties
<1>2. /\ DOMAIN targets = 1 .. Len(targets) /\ DOMAIN new = 1 .. Len(new)
      /\ Len(targets) \in Nat
  BY <1>1
<1> HIDE DEF new
<1>3. DOMAIN new = DOMAIN targets \cup {Len(targets) + 1}
  BY <1>1, <1>2
<1>4. TokensIn(new) = TokensIn(targets) \cup {line.token}
  BY <1>1, <1>2, <1>3 DEF TokensIn
<1> QED
  BY <1>1, <1>4 DEF new

\* The tokens of two lists, one after the other.
LEMMA ConcatTokens ==
  ASSUME NEW s \in Seq(Lines), NEW t \in Seq(Lines)
  PROVE  s \o t \in Seq(Lines) /\ TokensIn(s \o t) = TokensIn(s) \cup TokensIn(t)
<1> DEFINE both == s \o t
<1>1. /\ both \in Seq(Lines) /\ Len(both) = Len(s) + Len(t)
      /\ \A k \in 1 .. Len(s) + Len(t) :
           both[k] = IF k <= Len(s) THEN s[k] ELSE t[k - Len(s)]
  BY ConcatProperties
<1>2. /\ DOMAIN s = 1 .. Len(s) /\ DOMAIN t = 1 .. Len(t) /\ DOMAIN both = 1 .. Len(both)
      /\ Len(s) \in Nat /\ Len(t) \in Nat
  BY <1>1
<1> HIDE DEF both
<1>3. TokensIn(both) \subseteq TokensIn(s) \cup TokensIn(t)
  <2> SUFFICES ASSUME NEW k \in DOMAIN both
               PROVE  both[k].token \in TokensIn(s) \cup TokensIn(t)
    BY DEF TokensIn
  <2> \/ k \in DOMAIN s /\ both[k] = s[k]
      \/ k - Len(s) \in DOMAIN t /\ both[k] = t[k - Len(s)]
    BY <1>1, <1>2
  <2> QED
    BY DEF TokensIn
<1>4. TokensIn(s) \subseteq TokensIn(both)
  <2> SUFFICES ASSUME NEW k \in DOMAIN s PROVE s[k].token \in TokensIn(both)
    BY DEF TokensIn
  <2> k \in DOMAIN both /\ both[k] = s[k]
    BY <1>1, <1>2
  <2> QED
    BY DEF TokensIn
<1>5. TokensIn(t) \subseteq TokensIn(both)
  <2> SUFFICES ASSUME NEW k \in DOMAIN t PROVE t[k].token \in TokensIn(both)
    BY DEF TokensIn
  <2> Len(s) + k \in DOMAIN both /\ both[Len(s) + k] = t[k]
    BY <1>1, <1>2
  <2> QED
    BY DEF TokensIn
<1> QED
  BY <1>1, <1>3, <1>4, <1>5 DEF both

\* A part of a list has the tokens of that part.
LEMMA PartTokens ==
  ASSUME NEW s \in Seq(Lines), NEW m \in 1 .. Len(s) + 1, NEW n \in 0 .. Len(s)
  PROVE  /\ SubSeq(s, m, n) \in Seq(Lines)
         /\ TokensIn(SubSeq(s, m, n)) = {s[k].token : k \in m .. n}
<1> DEFINE part == SubSeq(s, m, n)
<1>1. \A k \in m .. n : s[k] \in Lines
  BY ElementOfSeq
<1>2. /\ part \in Seq(Lines) /\ Len(part) = IF m <= n THEN n - m + 1 ELSE 0
      /\ \A k \in 1 .. n - m + 1 : part[k] = s[m + k - 1]
  BY <1>1, SubSeqProperties, m \in Int, n \in Int
<1>3. DOMAIN part = 1 .. Len(part)
  BY <1>2
<1> HIDE DEF part
<1>4. DOMAIN part = 1 .. n - m + 1
  BY <1>2, <1>3
<1>5. TokensIn(part) \subseteq {s[k].token : k \in m .. n}
  BY <1>2, <1>4 DEF TokensIn
<1>6. ASSUME NEW k \in m .. n PROVE s[k].token \in TokensIn(part)
  <2> k - m + 1 \in DOMAIN part /\ part[k - m + 1] = s[k]
    BY <1>2, <1>4
  <2> QED
    BY DEF TokensIn
<1> QED
  BY <1>2, <1>5, <1>6 DEF part

\* Without one of its lines, a list has the tokens of the others.
LEMMA RemoveTokens ==
  ASSUME NEW s \in Seq(Lines), NEW k \in DOMAIN s
  PROVE  /\ RemoveAt(s, k) \in Seq(Lines)
         /\ TokensIn(RemoveAt(s, k)) \subseteq TokensIn(s)
         /\ TokensIn(s) \ {s[k].token} \subseteq TokensIn(RemoveAt(s, k))
<1> DEFINE before == SubSeq(s, 1, k - 1)
           after  == SubSeq(s, k + 1, Len(s))
<1>1. DOMAIN s = 1 .. Len(s) /\ Len(s) \in Nat /\ k \in 1 .. Len(s)
  OBVIOUS
<1>2. /\ before \in Seq(Lines) /\ TokensIn(before) = {s[j].token : j \in 1 .. k - 1}
      /\ after \in Seq(Lines) /\ TokensIn(after) = {s[j].token : j \in k + 1 .. Len(s)}
  <2>1. 1 \in 1 .. Len(s) + 1 /\ k - 1 \in 0 .. Len(s)
        /\ k + 1 \in 1 .. Len(s) + 1 /\ Len(s) \in 0 .. Len(s)
    BY <1>1
  <2> QED
    BY <2>1, PartTokens
<1>3. RemoveAt(s, k) = before \o after
  BY DEF RemoveAt
<1> HIDE DEF before, after
<1>4. /\ RemoveAt(s, k) \in Seq(Lines)
      /\ TokensIn(RemoveAt(s, k)) = TokensIn(before) \cup TokensIn(after)
  BY <1>2, <1>3, ConcatTokens
<1>5. TokensIn(s) = {s[j].token : j \in 1 .. Len(s)}
  BY <1>1 DEF TokensIn
<1>6. 1 .. Len(s) = (1 .. k - 1) \cup {k} \cup (k + 1 .. Len(s))
  BY <1>1
<1> QED
  BY <1>2, <1>4, <1>5, <1>6

\* What is written over a file is in it, and nothing that was in neither.
LEMMA OverwriteTokens ==
  ASSUME NEW old \in Seq(Lines), NEW new \in Seq(Lines)
  PROVE  /\ Overwrite(old, new) \in Seq(Lines)
         /\ TokensIn(Overwrite(old, new)) \subseteq TokensIn(old) \cup TokensIn(new)
         /\ TokensIn(new) \subseteq TokensIn(Overwrite(old, new))
<1> DEFINE rest == SubSeq(old, Len(new) + 1, Len(old))
<1>1. rest \in Seq(Lines) /\ TokensIn(rest) \subseteq TokensIn(old)
  <2>1. CASE Len(new) < Len(old)
    <3>1. Len(new) + 1 \in 1 .. Len(old) + 1 /\ Len(old) \in 0 .. Len(old)
      BY <2>1
    <3>2. rest \in Seq(Lines) /\ TokensIn(rest) = {old[k].token : k \in Len(new) + 1 .. Len(old)}
      BY <3>1, PartTokens
    <3>3. DOMAIN old = 1 .. Len(old) /\ Len(new) \in Nat /\ Len(old) \in Nat
      OBVIOUS
    <3> QED
      BY <3>2, <3>3 DEF TokensIn
  <2>2. CASE ~ (Len(new) < Len(old))
    <3>1. rest = <<>>
      BY <2>2, SubSeqEmpty, Len(new) + 1 \in Int, Len(old) \in Int, Len(old) < Len(new) + 1
    <3> QED
      BY <3>1 DEF TokensIn
  <2> QED
    BY <2>1, <2>2
<1>2. Overwrite(old, new) = new \o rest
  BY DEF Overwrite
<1> HIDE DEF rest
<1> QED
  BY <1>1, <1>2, ConcatTokens

\* A line's token is one of those of its list, and the empty list has none.
LEMMA LineTokens ==
  ASSUME NEW s \in Seq(Lines)
  PROVE  /\ TokensIn(<<>>) = {} /\ <<>> \in Seq(Lines)
         /\ TokensIn(s) \subseteq Tokens
         /\ \A k \in DOMAIN s : s[k] \in Lines /\ s[k].token \in TokensIn(s)
<1>1. \A k \in DOMAIN s : s[k] \in Lines
  BY ElementOfSeq, DOMAIN s = 1 .. Len(s)
<1> QED
  BY <1>1 DEF TokensIn, Lines

-----------------------------------------------------------------------------
(* Types                                                                   *)

\* The parts of the types: what is stored, the requests, and the counts.
StoreTypes ==
  /\ file \in Seq(Lines) /\ stored \in [VMs -> Tokens \cup {None}]
  /\ faults \in 0 .. MaxFaults /\ shared \subseteq Tokens /\ disturbed \in BOOLEAN

RequestTypes ==
  /\ pc \in [Web -> States]
  /\ vm \in [Web -> VMs \cup {None}]
  /\ token \in [Web -> Tokens \cup {None}]
  /\ port \in [Web -> Ports \cup {None}]
  /\ lines \in [Web -> Seq(Lines)]
  /\ keys \in [Web -> SUBSET VMs]

RequestsOK == RequestTypes /\ RequestsFit
CountsOK == opens \in 0 .. MaxOpens /\ drawn \in 0 .. opens /\ OpensCountTokens

Typed == StoreTypes /\ RequestsOK /\ CountsOK

LEMMA TypeParts == TypeOK /\ RequestsFit /\ OpensCountTokens <=> Typed
BY DEF TypeOK, RequestsFit, Typed, StoreTypes, RequestsOK, RequestTypes, CountsOK

\* Tokens drawn, consoles opened and those in between, before and after a step.
LEMMA Balance ==
  \A d, newd, o, newo, c, newc \in Nat, entering, leaving \in 0 .. 1 :
    d + c <= o /\ newd + entering + o <= newo + d + leaving /\ newc + leaving = c + entering
      => newd + newc <= newo
OBVIOUS

\* A request that goes somewhere is among those that open a console, or not.
LEMMA CountType ==
  ASSUME CountsOK, RequestTypes, NEW p \in Web, NEW state \in States, Goto(p, state),
         opens' \in 0 .. MaxOpens, drawn' \in Nat,
         drawn' + (IF state \in {"lookup", "append"} THEN 1 ELSE 0) + opens
           <= opens' + drawn + (IF pc[p] \in {"lookup", "append"} THEN 1 ELSE 0)
  PROVE  CountsOK'
<1>1. /\ IsFiniteSet(Opening) /\ Cardinality(Opening) \in Nat
      /\ drawn + Cardinality(Opening) <= opens /\ opens \in Nat /\ drawn \in Nat
  BY FS_CardinalityType DEF CountsOK, OpensCountTokens
<1>2. p \in Opening <=> pc[p] \in {"lookup", "append"}
  BY DEF Opening
<1> DEFINE entering == IF state \in {"lookup", "append"} THEN 1 ELSE 0
           leaving  == IF p \in Opening THEN 1 ELSE 0
<1>3. drawn' + entering + opens <= opens' + drawn + leaving
  BY <1>2
<1>4. entering \in 0 .. 1 /\ leaving \in 0 .. 1 /\ opens' \in Nat
  OBVIOUS
<1> HIDE DEF entering, leaving
<1>5. CASE state \in {"lookup", "append"}
  <2>1. Opening' = Opening \cup {p}
    BY <1>5 DEF Opening, Goto, RequestTypes
  <2>2. /\ IsFiniteSet(Opening')
        /\ Cardinality(Opening') = IF p \in Opening THEN Cardinality(Opening)
                                                    ELSE Cardinality(Opening) + 1
    BY <1>1, <2>1, FS_AddElement
  <2>3. Cardinality(Opening') \in Nat
    BY <2>2, FS_CardinalityType
  <2>4. drawn' + Cardinality(Opening') <= opens'
    <3>1. Cardinality(Opening') + leaving = Cardinality(Opening) + entering
      BY <1>1, <1>5, <2>2 DEF entering, leaving
    <3> QED
      BY <1>1, <1>3, <1>4, <2>3, <3>1, Balance
  <2> QED
    BY <2>2, <2>3, <2>4 DEF CountsOK, OpensCountTokens
<1>6. CASE state \notin {"lookup", "append"}
  <2>1. Opening' = Opening \ {p}
    BY <1>6 DEF Opening, Goto, RequestTypes
  <2>2. /\ IsFiniteSet(Opening')
        /\ Cardinality(Opening') = IF p \in Opening THEN Cardinality(Opening) - 1
                                                    ELSE Cardinality(Opening)
    BY <1>1, <2>1, FS_RemoveElement
  <2>3. Cardinality(Opening') \in Nat
    BY <2>2, FS_CardinalityType
  <2>4. drawn' + Cardinality(Opening') <= opens'
    <3>1. Cardinality(Opening') + leaving = Cardinality(Opening) + entering
      BY <1>1, <1>6, <2>2 DEF entering, leaving
    <3> QED
      BY <1>1, <1>3, <1>4, <2>3, <3>1, Balance
  <2> QED
    BY <2>2, <2>3, <2>4 DEF CountsOK, OpensCountTokens
<1> QED
  BY <1>5, <1>6

\* A step that is not of OpenSession and draws no token.
LEMMA SameCounts ==
  ASSUME CountsOK, RequestTypes, NEW p \in Web, NEW state \in States, Goto(p, state),
         UNCHANGED <<opens, drawn>>,
         state \in {"lookup", "append"} => pc[p] \in {"lookup", "append"}
  PROVE  CountsOK'
BY CountType DEF CountsOK

LEMMA EndType ==
  ASSUME RequestsOK, CountsOK, NEW p \in Web, End(p), UNCHANGED <<opens, drawn>>
  PROVE  RequestsOK' /\ CountsOK'
<1>1. CountsOK'
  BY SameCounts DEF End, RequestsOK, States
<1>2. RequestTypes'
  BY LineTokens, <<>> \in Seq(Lines) DEF RequestsOK, RequestTypes, End, Goto, States
<1>3. RequestsFit'
  BY DEF RequestsOK, RequestTypes, RequestsFit, End, Goto
<1> QED
  BY <1>1, <1>2, <1>3 DEF RequestsOK

LEMMA InitType == Init => TypeOK /\ RequestsFit /\ OpensCountTokens
<1> SUFFICES Init => Typed
  BY TypeParts
<1> HAVE Init
<1>1. <<>> \in Seq(Lines)
  OBVIOUS
<1>2. StoreTypes
  <2>1. file \in Seq(Lines) /\ stored \in [VMs -> Tokens \cup {None}]
    BY <1>1 DEF Init
  <2>2. faults \in 0 .. MaxFaults /\ shared \subseteq Tokens
    BY SMT DEF Init
  <2>3. disturbed \in BOOLEAN
    BY Zenon DEF Init
  <2> QED
    BY <2>1, <2>2, <2>3 DEF StoreTypes
<1>3. RequestTypes /\ RequestsFit
  BY <1>1 DEF Init, RequestTypes, RequestsFit, States
<1>4. Opening = {}
  BY DEF Init, Opening
<1>5. CountsOK
  BY <1>4, FS_EmptySet DEF Init, CountsOK, OpensCountTokens
<1> QED
  BY <1>2, <1>3, <1>5 DEF Typed, RequestsOK

\* The types are inductive, together with what requests know and the count of
\* consoles that have still to draw their token, one step per action.
LEMMA NextType ==
  ASSUME TypeOK, RequestsFit, OpensCountTokens, [Next]_vars
  PROVE  TypeOK' /\ RequestsFit' /\ OpensCountTokens'
<1> SUFFICES Typed'
  BY TypeParts, PTL
<1> Typed
  BY TypeParts
<1> USE DEF Typed
<1>0. RequestTypes /\ RequestsFit
  BY DEF RequestsOK
<1>1. ASSUME NEW p \in Web, NEW v \in VMs, NEW n \in Ports, OpenSession(p, v, n)
      PROVE  Typed'
  <2>1. CountsOK'
    <3>1. opens' = opens + 1 /\ opens < MaxOpens /\ drawn' = drawn /\ Goto(p, "lookup")
      BY <1>1 DEF OpenSession
    <3> QED
      BY <1>0, <3>1, CountType DEF CountsOK, States
  <2>2. RequestsOK'
    BY <1>0, <1>1 DEF OpenSession, Goto, RequestsOK, RequestTypes, RequestsFit, States
  <2> QED
    BY <1>1, <2>1, <2>2 DEF OpenSession, NoteOverlap, StoreTypes
<1>2. ASSUME NEW p \in Web, LookUpHost(p) PROVE Typed'
  <2>1. CASE Goto(p, "append") /\ UNCHANGED <<token, shared>>
    <3>1. CountsOK'
      BY <1>0, <1>2, <2>1, SameCounts DEF LookUpHost, States
    <3>2. RequestsOK'
      BY <1>0, <1>2, <2>1 DEF LookUpHost, Goto, RequestsOK, RequestTypes, RequestsFit, States
    <3> QED
      BY <1>2, <2>1, <3>1, <3>2 DEF LookUpHost, StoreTypes
  <2>2. ASSUME NEW k \in DOMAIN file, token' = [token EXCEPT ![p] = file[k].token],
               Goto(p, "store"), shared' \subseteq shared \cup {file[k].token}
        PROVE  Typed'
    <3>1. file[k].token \in Tokens
      BY LineTokens DEF StoreTypes
    <3>2. CountsOK'
      BY <1>0, <1>2, <2>2, SameCounts DEF LookUpHost, States
    <3>3. RequestsOK'
      BY <1>0, <1>2, <2>2, <3>1
      DEF LookUpHost, Goto, RequestsOK, RequestTypes, RequestsFit, States
    <3> QED
      BY <1>2, <2>2, <3>1, <3>2, <3>3 DEF LookUpHost, StoreTypes
  <2> QED
    BY <1>2, <2>1, <2>2 DEF LookUpHost, FirstWithPort
<1>3. ASSUME NEW p \in Web, AppendTarget(p) PROVE Typed'
  <2>1. drawn + 1 \in Tokens /\ drawn' = drawn + 1 /\ drawn' <= opens /\ CountsOK'
    <3>1. pc[p] = "append" /\ drawn' = drawn + 1 /\ opens' = opens /\ Goto(p, "store")
      BY <1>3 DEF AppendTarget
    <3>2. CountsOK'
      BY <1>0, <3>1, CountType DEF CountsOK, States
    <3> QED
      BY <3>1, <3>2 DEF CountsOK, Tokens
  <2>2. [token |-> drawn + 1, port |-> port[p]] \in Lines
    BY <1>0, <1>3, <2>1 DEF AppendTarget, RequestsFit, Lines
  <2>3. file' \in Seq(Lines)
    BY <1>3, <2>2, AppendTokens DEF AppendTarget, StoreTypes
  <2>4. RequestsOK'
    BY <1>0, <1>3, <2>1 DEF AppendTarget, Goto, RequestsOK, RequestTypes, RequestsFit, States
  <2> QED
    BY <1>3, <2>1, <2>3, <2>4 DEF AppendTarget, StoreTypes, history
<1>4. ASSUME NEW p \in Web, StoreToken(p) \/ ForgetToken(p) \/ EndCleanup(p) PROVE Typed'
  <2>1. RequestsOK' /\ CountsOK'
    BY <1>4, EndType DEF StoreToken, ForgetToken, EndCleanup
  <2>2. StoreTypes'
    BY <1>0, <1>4 DEF StoreToken, ForgetToken, EndCleanup, StoreTypes, RequestTypes,
       RequestsFit, history
  <2> QED
    BY <2>1, <2>2
<1>5. ASSUME NEW p \in Web, NEW v \in VMs, PowerOff(p, v) PROVE Typed'
  <2>1. CountsOK'
    BY <1>0, <1>5, SameCounts DEF PowerOff, States
  <2>2. stored[v] \in Tokens
    BY <1>5 DEF PowerOff, StoreTypes
  <2>3. RequestsOK'
    BY <1>0, <1>5, <2>2 DEF PowerOff, Goto, RequestsOK, RequestTypes, RequestsFit, States
  <2> QED
    BY <1>5, <2>1, <2>3 DEF PowerOff, NoteOverlap, StoreTypes
<1>6. ASSUME NEW p \in Web, ReadTargets(p) PROVE Typed'
  <2>1. \/ Goto(p, "truncate") /\ lines' = [lines EXCEPT ![p] = file]
           /\ token[p] \in TokensIn(file)
        \/ Goto(p, "forget") /\ lines' = lines
    BY <1>6 DEF ReadTargets
  <2>2. CountsOK'
    BY <1>0, <1>6, <2>1, SameCounts DEF ReadTargets, States
  <2>3. RequestTypes'
    BY <1>0, <1>6, <2>1 DEF ReadTargets, Goto, RequestTypes, StoreTypes, States
  <2>4. RequestsFit'
    BY <1>0, <1>6, <2>1 DEF ReadTargets, Goto, RequestTypes, RequestsFit
  <2> QED
    BY <1>6, <2>2, <2>3, <2>4 DEF ReadTargets, StoreTypes, RequestsOK, history
<1>7. ASSUME NEW p \in Web, Truncate(p) PROVE Typed'
  <2>1. CountsOK'
    BY <1>0, <1>7, SameCounts DEF Truncate, States
  <2>2. RequestsOK'
    BY <1>0, <1>7 DEF Truncate, Goto, locals, RequestsOK, RequestTypes, RequestsFit, States
  <2>3. <<>> \in Seq(Lines)
    OBVIOUS
  <2> QED
    BY <1>7, <2>1, <2>2, <2>3 DEF Truncate, StoreTypes, history
<1>8. ASSUME NEW p \in Web, Rewrite(p) PROVE Typed'
  <2>1. CountsOK'
    BY <1>0, <1>8, SameCounts DEF Rewrite, States
  <2>2. RequestsOK'
    BY <1>0, <1>8 DEF Rewrite, Goto, locals, RequestsOK, RequestTypes, RequestsFit, States
  <2>3. PICK k \in DOMAIN lines[p] : file' = Overwrite(file, RemoveAt(lines[p], k))
    BY <1>8 DEF Rewrite, FirstWithToken
  <2>4. file' \in Seq(Lines)
    BY <1>0, <2>3, RemoveTokens, OverwriteTokens DEF RequestTypes, StoreTypes
  <2> QED
    BY <1>8, <2>1, <2>2, <2>4 DEF Rewrite, StoreTypes, history
<1>9. ASSUME NEW p \in Web, BeginCleanup(p) PROVE Typed'
  <2>1. CountsOK'
    BY <1>0, <1>9, SameCounts DEF BeginCleanup, States
  <2>2. RequestsOK'
    BY <1>0, <1>9 DEF BeginCleanup, Goto, RequestsOK, RequestTypes, RequestsFit, States
  <2>3. <<>> \in Seq(Lines)
    OBVIOUS
  <2> QED
    BY <1>9, <2>1, <2>2, <2>3 DEF BeginCleanup, StoreTypes
<1>10. ASSUME NEW p \in Web, NEW v \in VMs, DeleteKey(p, v) PROVE Typed'
  <2>1. CountsOK'
    BY <1>10 DEF DeleteKey, CountsOK, OpensCountTokens, Opening
  <2>2. RequestsOK'
    BY <1>0, <1>10 DEF DeleteKey, RequestsOK, RequestTypes, RequestsFit
  <2> QED
    BY <1>10, <2>1, <2>2 DEF DeleteKey, StoreTypes, history
<1>11. ASSUME NEW p \in Web, Fail(p) PROVE Typed'
  <2>1. RequestsOK' /\ CountsOK'
    BY <1>11, EndType DEF Fail
  <2> QED
    BY <1>11, <2>1 DEF Fail, StoreTypes
<1>12. CASE UNCHANGED vars
  BY <1>0, <1>12 DEF vars, locals, history, StoreTypes, RequestsOK, RequestTypes, RequestsFit,
     CountsOK, OpensCountTokens, Opening
<1> HIDE DEF Typed
<1> QED
  BY <1>1, <1>2, <1>3, <1>4, <1>5, <1>6, <1>7, <1>8, <1>9, <1>10, <1>11, <1>12
  DEF Next, RequestStep

\* Every variable keeps to its values, whatever requests, cleanups and
\* failures do: a request that writes a key or a line knows for which VM and
\* with which token (vm_console, vm_power, delete_vnc_target).
THEOREM ConsoleTypesCorrect == Spec => []TypeOK
<1>1. Init => TypeOK /\ RequestsFit /\ OpensCountTokens
  BY InitType
<1>2. TypeOK /\ RequestsFit /\ OpensCountTokens /\ [Next]_vars =>
        (TypeOK /\ RequestsFit /\ OpensCountTokens)'
  BY NextType
<1> QED
  BY <1>1, <1>2, PTL DEF Spec

-----------------------------------------------------------------------------
(* Tokens are drawn before they are used                                   *)

LEMMA InitDrawn == Init => TokensAreDrawn
BY NoneIsNothing DEF Init, TokensAreDrawn, TokensIn

\* No step uses a token that is not drawn: the only new one is the next.
LEMMA NextDrawn ==
  ASSUME Typed, TokensAreDrawn, [Next]_vars
  PROVE  TokensAreDrawn'
<1> USE DEF Typed, TokensAreDrawn
<1>0. /\ RequestTypes /\ RequestsFit /\ drawn \in Nat
      /\ \A p \in Web : token[p] \in Tokens => token[p] <= drawn
      /\ \A p \in Web : lines[p] \in Seq(Lines)
  BY NoneIsNothing DEF RequestsOK, CountsOK, RequestTypes
<1>1. ASSUME NEW p \in Web, NEW v \in VMs,
             \/ \E n \in Ports : OpenSession(p, v, n)
             \/ DeleteKey(p, v)
      PROVE  TokensAreDrawn'
  BY <1>0, <1>1 DEF OpenSession, DeleteKey, StoreTypes
<1>2. ASSUME NEW p \in Web, LookUpHost(p) PROVE TokensAreDrawn'
  <2>1. \A k \in DOMAIN file : file[k].token \in TokensIn(file)
    BY DEF TokensIn
  <2>2. token' = token \/ \E k \in DOMAIN file : token' = [token EXCEPT ![p] = file[k].token]
    BY <1>2 DEF LookUpHost, FirstWithPort
  <2>3. /\ UNCHANGED <<file, stored, lines, drawn>>
        /\ token \in [Web -> Tokens \cup {None}]
    BY <1>0, <1>2 DEF LookUpHost, RequestTypes
  <2>4. CASE token' = token
    BY <2>3, <2>4
  <2>5. CASE \E k \in DOMAIN file : token' = [token EXCEPT ![p] = file[k].token]
    <3>1. PICK k \in DOMAIN file : token' = [token EXCEPT ![p] = file[k].token]
      BY <2>5
    <3>2. file[k].token \in 1 .. drawn
      BY <2>1
    <3>3. file[k].token <= drawn
      BY <1>0, <3>2
    <3>4. \A q \in Web : token'[q] # None => token'[q] <= drawn'
      BY <2>3, <3>1, <3>3
    <3> QED
      BY <2>3, <3>4
  <2> QED
    BY <2>2, <2>4, <2>5
<1>3. ASSUME NEW p \in Web, AppendTarget(p) PROVE TokensAreDrawn'
  <2>1. drawn + 1 \in Tokens
    <3>1. Typed'
      BY <1>3, NextType, TypeParts, PTL DEF Next, RequestStep
    <3> QED
      BY <1>3, <3>1 DEF AppendTarget, CountsOK, Tokens
  <2>2. [token |-> drawn + 1, port |-> port[p]] \in Lines
    BY <1>0, <1>3, <2>1 DEF AppendTarget, RequestsFit, Lines
  <2>3. TokensIn(file') = TokensIn(file) \cup {drawn + 1}
    BY <1>3, <2>2, AppendTokens DEF AppendTarget, StoreTypes
  <2>4. drawn' = drawn + 1 /\ 1 .. drawn \subseteq 1 .. drawn' /\ drawn + 1 \in 1 .. drawn'
    BY <1>0, <1>3 DEF AppendTarget
  <2> HIDE DEF TokensAreDrawn
  <2>5. \A v \in VMs : stored'[v] # None => stored'[v] <= drawn'
    BY <1>0, <1>3, <2>4 DEF AppendTarget, StoreTypes, TokensAreDrawn, Tokens
  <2>6. \A q \in Web : token'[q] # None => token'[q] <= drawn'
    BY <1>0, <1>3, <2>4 DEF AppendTarget, RequestTypes, TokensAreDrawn, Tokens
  <2>7. \A q \in Web : TokensIn(lines'[q]) \subseteq 1 .. drawn'
    BY <1>3, <2>4 DEF AppendTarget, TokensAreDrawn
  <2> QED
    BY <2>3, <2>4, <2>5, <2>6, <2>7 DEF TokensAreDrawn, TokensIn
<1>4. ASSUME NEW p \in Web, StoreToken(p) \/ ForgetToken(p) \/ EndCleanup(p) \/ Fail(p)
      PROVE  TokensAreDrawn'
  <2>1. /\ token' = [token EXCEPT ![p] = None] /\ lines' = [lines EXCEPT ![p] = <<>>]
        /\ file' = file /\ drawn' = drawn
        /\ \/ stored' = stored
           \/ stored' = [stored EXCEPT ![vm[p]] = None]
           \/ token[p] \in Tokens /\ stored' = [stored EXCEPT ![vm[p]] = token[p]]
    BY <1>0, <1>4 DEF StoreToken, ForgetToken, EndCleanup, Fail, End, RequestsFit
  <2>2. TokensIn(<<>>) = {}
    BY DEF TokensIn
  <2> QED
    BY <1>0, <2>1, <2>2 DEF RequestTypes, StoreTypes
<1>5. ASSUME NEW p \in Web, NEW v \in VMs, PowerOff(p, v) PROVE TokensAreDrawn'
  BY <1>0, <1>5 DEF PowerOff, RequestTypes
<1>6. ASSUME NEW p \in Web, ReadTargets(p) \/ Truncate(p) \/ BeginCleanup(p)
      PROVE  TokensAreDrawn'
  <2>1. /\ lines' = [lines EXCEPT ![p] = file] \/ lines' = lines
        /\ file' = <<>> \/ file' = file
        /\ UNCHANGED <<token, stored, drawn>>
    BY <1>6 DEF ReadTargets, Truncate, BeginCleanup, locals
  <2>2. TokensIn(<<>>) = {}
    BY DEF TokensIn
  <2> QED
    BY <1>0, <2>1, <2>2 DEF RequestTypes
<1>7. ASSUME NEW p \in Web, Rewrite(p) PROVE TokensAreDrawn'
  <2>1. PICK k \in DOMAIN lines[p] : file' = Overwrite(file, RemoveAt(lines[p], k))
    BY <1>7 DEF Rewrite, FirstWithToken
  <2>2. TokensIn(file') \subseteq TokensIn(file) \cup TokensIn(lines[p])
    BY <1>0, <2>1, RemoveTokens, OverwriteTokens DEF StoreTypes
  <2> QED
    BY <1>7, <2>2 DEF Rewrite, locals
<1>8. CASE UNCHANGED vars
  BY <1>8 DEF vars, locals
<1> QED
  BY <1>1, <1>2, <1>3, <1>4, <1>5, <1>6, <1>7, <1>8 DEF Next, RequestStep

-----------------------------------------------------------------------------
(* Undisturbed, consoles keep their targets                                *)

\* One that is at work undisturbed is the one at work.
LEMMA TheOneAtWork ==
  ASSUME Undisturbed, ~ disturbed, NEW p \in Web, pc[p] # "idle"
  PROVE  AtWork \subseteq {p} /\ StillSo(p)
BY DEF Undisturbed, AtWork

\* What all see when none is at work, the one sees that is to begin.
LEMMA TheOneToBegin ==
  ASSUME Undisturbed, ~ disturbed, NEW p \in Web, pc[p] = "idle", Alone(p)
  PROVE  AtWork \subseteq {p} /\ StillSo(p)
<1>1. PICK q \in Web : StillSo(q)
  BY DEF Undisturbed
<1>2. pc[q] = "idle"
  BY DEF Alone
<1> QED
  BY <1>1, <1>2 DEF AtWork, Alone, StillSo

LEMMA AtWorkStays ==
  ASSUME RequestTypes, NEW p \in Web, NEW state, Goto(p, state), AtWork \subseteq {p}
  PROVE  AtWork' \subseteq {p}
BY DEF RequestTypes, Goto, AtWork

LEMMA InitUndisturbed == Init => Undisturbed
<1> HAVE Init
<1>1. PICK p \in Web : TRUE
  BY WebAssumption
<1>2. AtWork \subseteq {p} /\ StillSo(p)
  BY <1>1 DEF Init, AtWork, StillSo, Kept
<1> QED
  BY <1>2 DEF Undisturbed

\* While none disturbs it, the request at work finds what it left, one step per
\* action; a cleanup starts from there whatever was before.
LEMMA NextUndisturbed ==
  ASSUME Typed, TokensAreDrawn, Undisturbed, [Next]_vars
  PROVE  Undisturbed'
<1> SUFFICES ASSUME ~ disturbed'
             PROVE  \E p \in Web : AtWork' \subseteq {p} /\ StillSo(p)'
  BY DEF Undisturbed
<1> USE DEF Typed
<1>0. RequestTypes /\ RequestsFit
  BY DEF RequestsOK
<1>1. ASSUME NEW p \in Web, NEW v \in VMs, NEW n \in Ports, OpenSession(p, v, n)
      PROVE  AtWork' \subseteq {p} /\ StillSo(p)'
  <2>1. AtWork \subseteq {p} /\ StillSo(p) /\ Goto(p, "lookup") /\ pc[p] = "idle"
    BY <1>1, TheOneToBegin DEF OpenSession, NoteOverlap
  <2>2. pc'[p] = "lookup" /\ UNCHANGED <<file, stored, shared>>
    BY <1>0, <1>1 DEF OpenSession, Goto, RequestTypes
  <2>3. StillSo(p)'
    BY <2>1, <2>2 DEF StillSo, Kept
  <2> QED
    BY <1>0, <2>1, <2>3, AtWorkStays
<1>2. ASSUME NEW p \in Web, LookUpHost(p)
      PROVE  AtWork' \subseteq {p} /\ StillSo(p)'
  <2>1. AtWork \subseteq {p} /\ StillSo(p) /\ pc[p] = "lookup"
    BY <1>2, TheOneAtWork DEF LookUpHost
  <2>2. CASE Goto(p, "append") /\ UNCHANGED <<token, shared>>
    <3>1. pc'[p] = "append" /\ UNCHANGED <<file, stored, shared>>
      BY <1>0, <1>2, <2>2 DEF LookUpHost, Goto, RequestTypes
    <3>2. StillSo(p)'
      BY <2>1, <3>1 DEF StillSo, Kept
    <3> QED
      BY <1>0, <2>1, <2>2, <3>2, AtWorkStays
  <2>3. ASSUME NEW k \in DOMAIN file, token' = [token EXCEPT ![p] = file[k].token],
               Goto(p, "store"), shared \subseteq shared',
               \A v \in VMs \ {vm[p]} : stored[v] = file[k].token => file[k].token \in shared'
        PROVE  AtWork' \subseteq {p} /\ StillSo(p)'
    <3>1. /\ pc'[p] = "store" /\ token'[p] = file[k].token
          /\ file[k].token \in TokensIn(file) /\ UNCHANGED <<file, stored, vm>>
      BY <1>0, <1>2, <2>3 DEF LookUpHost, Goto, RequestTypes, TokensIn
    <3>2. StillSo(p)'
      BY <2>1, <2>3, <3>1 DEF StillSo, Kept
    <3> QED
      BY <1>0, <2>1, <2>3, <3>2, AtWorkStays
  <2> QED
    BY <1>2, <2>2, <2>3 DEF LookUpHost, FirstWithPort
<1>3. ASSUME NEW p \in Web, AppendTarget(p)
      PROVE  AtWork' \subseteq {p} /\ StillSo(p)'
  <2>1. AtWork \subseteq {p} /\ StillSo(p) /\ pc[p] = "append"
    BY <1>3, TheOneAtWork DEF AppendTarget, history
  <2>2. drawn + 1 \in Tokens
    <3>1. Typed'
      BY <1>3, NextType, TypeParts, PTL DEF Next, RequestStep
    <3> QED
      BY <1>3, <3>1 DEF AppendTarget, CountsOK, Tokens
  <2>3. [token |-> drawn + 1, port |-> port[p]] \in Lines
    BY <1>0, <1>3, <2>2 DEF AppendTarget, RequestsFit, Lines
  <2>4. TokensIn(file') = TokensIn(file) \cup {drawn + 1}
    BY <1>3, <2>3, AppendTokens DEF AppendTarget, StoreTypes
  <2>5. \A v \in VMs : stored[v] # drawn + 1
    BY <2>2, NoneIsNothing DEF TokensAreDrawn, StoreTypes, CountsOK, Tokens
  <2>6. /\ pc'[p] = "store" /\ token'[p] = drawn + 1
        /\ UNCHANGED <<stored, vm, shared>> /\ Goto(p, "store")
    BY <1>0, <1>3 DEF AppendTarget, Goto, RequestTypes, history
  <2>7. StillSo(p)'
    BY <2>1, <2>4, <2>5, <2>6 DEF StillSo, Kept, TokensIn
  <2> QED
    BY <1>0, <2>1, <2>6, <2>7, AtWorkStays
<1>4. ASSUME NEW p \in Web, StoreToken(p)
      PROVE  AtWork' \subseteq {p} /\ StillSo(p)'
  <2>1. AtWork \subseteq {p} /\ StillSo(p) /\ pc[p] = "store"
    BY <1>4, TheOneAtWork DEF StoreToken, history
  <2>2. /\ pc'[p] = "idle" /\ Goto(p, "idle") /\ UNCHANGED <<file, shared>>
        /\ vm[p] \in VMs /\ stored' = [stored EXCEPT ![vm[p]] = token[p]]
    BY <1>0, <1>4 DEF StoreToken, End, Goto, RequestTypes, RequestsFit, history
  <2>3. \A v \in VMs : stored'[v] = IF v = vm[p] THEN token[p] ELSE stored[v]
    BY <2>2 DEF StoreTypes
  <2>4. StillSo(p)'
    BY <2>1, <2>2, <2>3 DEF StillSo, Kept
  <2> QED
    BY <1>0, <2>1, <2>2, <2>4, AtWorkStays
<1>5. ASSUME NEW p \in Web, NEW v \in VMs, PowerOff(p, v)
      PROVE  AtWork' \subseteq {p} /\ StillSo(p)'
  <2>1. AtWork \subseteq {p} /\ StillSo(p) /\ Goto(p, "targets") /\ pc[p] = "idle"
    BY <1>5, TheOneToBegin DEF PowerOff, NoteOverlap
  <2>2. /\ pc'[p] = "targets" /\ UNCHANGED <<file, stored, shared>>
        /\ vm'[p] = v /\ token'[p] = stored[v]
    BY <1>0, <1>5 DEF PowerOff, Goto, RequestTypes
  <2>3. StillSo(p)'
    BY <2>1, <2>2 DEF StillSo, Kept
  <2> QED
    BY <1>0, <2>1, <2>3, AtWorkStays
<1>6. ASSUME NEW p \in Web, ReadTargets(p)
      PROVE  AtWork' \subseteq {p} /\ StillSo(p)'
  <2>1. AtWork \subseteq {p} /\ StillSo(p) /\ pc[p] = "targets"
    BY <1>6, TheOneAtWork DEF ReadTargets, history
  <2>2. /\ \/ pc'[p] = "truncate" /\ lines'[p] = file /\ Goto(p, "truncate")
           \/ pc'[p] = "forget" /\ Goto(p, "forget")
        /\ UNCHANGED <<file, stored, shared, vm, token>>
    BY <1>0, <1>6 DEF ReadTargets, Goto, RequestTypes, history
  <2>3. StillSo(p)'
    BY <2>1, <2>2 DEF StillSo, Kept
  <2> QED
    BY <1>0, <2>1, <2>2, <2>3, AtWorkStays
<1>7. ASSUME NEW p \in Web, Truncate(p)
      PROVE  AtWork' \subseteq {p} /\ StillSo(p)'
  <2>1. AtWork \subseteq {p} /\ StillSo(p) /\ pc[p] = "truncate"
    BY <1>7, TheOneAtWork DEF Truncate, history
  <2>2. /\ pc'[p] = "rewrite" /\ Goto(p, "rewrite")
        /\ UNCHANGED <<stored, shared, vm, token, lines>>
    BY <1>0, <1>7 DEF Truncate, Goto, RequestTypes, history, locals
  <2>3. StillSo(p)'
    BY <2>1, <2>2 DEF StillSo, Kept
  <2> QED
    BY <1>0, <2>1, <2>2, <2>3, AtWorkStays
<1>8. ASSUME NEW p \in Web, Rewrite(p)
      PROVE  AtWork' \subseteq {p} /\ StillSo(p)'
  <2>1. AtWork \subseteq {p} /\ StillSo(p) /\ pc[p] = "rewrite"
    BY <1>8, TheOneAtWork DEF Rewrite, history
  <2>2. /\ pc'[p] = "forget" /\ Goto(p, "forget")
        /\ UNCHANGED <<stored, shared, vm, token>> /\ vm[p] \in VMs
    BY <1>0, <1>8 DEF Rewrite, Goto, RequestTypes, RequestsFit, history, locals
  <2>3. PICK k \in DOMAIN lines[p] :
          lines[p][k].token = token[p] /\ file' = Overwrite(file, RemoveAt(lines[p], k))
    BY <1>8 DEF Rewrite, FirstWithToken
  <2>4. TokensIn(lines[p]) \ {token[p]} \subseteq TokensIn(file')
    BY <1>0, <2>3, RemoveTokens, OverwriteTokens DEF StoreTypes, RequestTypes
  <2>5. ASSUME NEW v \in VMs, v # vm[p] PROVE Kept(v, file)'
    BY <2>1, <2>2, <2>4, <2>5 DEF StillSo, Kept, TokensIn
  <2>6. StillSo(p)'
    BY <2>1, <2>2, <2>5 DEF StillSo
  <2> QED
    BY <1>0, <2>1, <2>2, <2>6, AtWorkStays
<1>9. ASSUME NEW p \in Web, ForgetToken(p)
      PROVE  AtWork' \subseteq {p} /\ StillSo(p)'
  <2>1. AtWork \subseteq {p} /\ StillSo(p) /\ pc[p] = "forget"
    BY <1>9, TheOneAtWork DEF ForgetToken, history
  <2>2. /\ pc'[p] = "idle" /\ Goto(p, "idle") /\ UNCHANGED <<file, shared>>
        /\ vm[p] \in VMs /\ stored' = [stored EXCEPT ![vm[p]] = None]
    BY <1>0, <1>9 DEF ForgetToken, End, Goto, RequestTypes, RequestsFit, history
  <2>3. \A v \in VMs : stored'[v] = IF v = vm[p] THEN None ELSE stored[v]
    BY <2>2 DEF StoreTypes
  <2>4. StillSo(p)'
    BY <2>1, <2>2, <2>3 DEF StillSo, Kept
  <2> QED
    BY <1>0, <2>1, <2>2, <2>4, AtWorkStays
<1>10. ASSUME NEW p \in Web, BeginCleanup(p)
       PROVE  AtWork' \subseteq {p} /\ StillSo(p)'
  <2>1. AtWork \subseteq {p} /\ pc'[p] = "scan" /\ keys'[p] = VMs /\ Goto(p, "scan")
    BY <1>0, <1>10 DEF BeginCleanup, Alone, AtWork, Goto, RequestTypes
  <2>2. StillSo(p)'
    BY <2>1 DEF StillSo
  <2> QED
    BY <1>0, <2>1, <2>2, AtWorkStays
<1>11. ASSUME NEW p \in Web, NEW v \in VMs, DeleteKey(p, v)
       PROVE  AtWork' \subseteq {p} /\ StillSo(p)'
  <2>1. AtWork \subseteq {p} /\ StillSo(p) /\ pc[p] = "scan"
    BY <1>11, TheOneAtWork DEF DeleteKey, history
  <2>2. pc' = pc /\ keys'[p] = keys[p] \ {v} /\ stored' = [stored EXCEPT ![v] = None]
    BY <1>0, <1>11 DEF DeleteKey, RequestTypes
  <2>3. StillSo(p)'
    BY <2>1, <2>2 DEF StillSo, StoreTypes
  <2> QED
    BY <2>1, <2>2, <2>3 DEF AtWork
<1>12. ASSUME NEW p \in Web, EndCleanup(p)
       PROVE  AtWork' \subseteq {p} /\ StillSo(p)'
  <2>1. AtWork \subseteq {p} /\ StillSo(p) /\ pc[p] = "scan" /\ keys[p] = {}
    BY <1>12, TheOneAtWork DEF EndCleanup, history
  <2>2. pc'[p] = "idle" /\ Goto(p, "idle") /\ stored' = stored
    BY <1>0, <1>12 DEF EndCleanup, End, Goto, RequestTypes
  <2>3. StillSo(p)'
    BY <2>1, <2>2 DEF StillSo, Kept
  <2> QED
    BY <1>0, <2>1, <2>2, <2>3, AtWorkStays
<1>13. ASSUME NEW p \in Web, Fail(p) PROVE FALSE
  BY <1>13 DEF Fail
<1>14. ASSUME UNCHANGED vars PROVE \E p \in Web : AtWork' \subseteq {p} /\ StillSo(p)'
  <2>1. PICK p \in Web : AtWork \subseteq {p} /\ StillSo(p)
    BY <1>14 DEF Undisturbed, vars, history
  <2> QED
    BY <1>14, <2>1 DEF vars, locals, history, AtWork, StillSo, Kept
<1> HIDE DEF Typed
<1> QED
  BY <1>1, <1>2, <1>3, <1>4, <1>5, <1>6, <1>7, <1>8, <1>9, <1>10, <1>11, <1>12, <1>13, <1>14
  DEF Next, RequestStep

\* Undisturbed says that a key without its line waits for the one request at
\* work, or is excused: what ConsoleKeepsTarget asks for.
LEMMA KeepsTarget == Undisturbed => ConsoleKeepsTarget
<1> SUFFICES ASSUME Undisturbed, ~ disturbed, NEW v \in VMs, stored[v] # None
             PROVE  stored[v] \in TokensIn(file) \cup shared \/ BetweenSteps(v)
  BY DEF ConsoleKeepsTarget
<1>1. PICK p \in Web : StillSo(p)
  BY DEF Undisturbed
<1> QED
  BY <1>1 DEF StillSo, Kept, BetweenSteps

\* The console Redis knows of has its line among websockify's targets, however
\* console requests, power-offs and cleanups follow each other, as long as no
\* two of them are at work at a time and none dies half way (vnc.py:42-72).
THEOREM ConsolesKeepTheirTargets == Spec => []ConsoleKeepsTarget
<1> DEFINE Inv == Typed /\ TokensAreDrawn /\ Undisturbed
<1>1. Init => Inv
  BY InitType, TypeParts, InitDrawn, InitUndisturbed
<1>2. Inv /\ [Next]_vars => Inv'
  <2> SUFFICES ASSUME Inv, [Next]_vars PROVE Inv'
    OBVIOUS
  <2>1. Typed'
    BY NextType, TypeParts, PTL
  <2> QED
    BY <2>1, NextDrawn, NextUndisturbed
<1>3. Inv => ConsoleKeepsTarget
  BY KeepsTarget
<1> QED
  BY <1>1, <1>2, <1>3, PTL DEF Spec
=============================================================================
