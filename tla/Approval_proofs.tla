--------------------------- MODULE Approval_proofs ---------------------------
(***************************************************************************)
(* Proofs about Approval.  The composition constrains the projects         *)
(* component and adds nothing to it, so what Projects_proofs shows of      *)
(* Spec holds of ApprovalSpec.                                             *)
(***************************************************************************)
EXTENDS Approval, Projects_proofs, SequenceTheorems, WellFoundedInduction

LEMMA ApprovalStep == [ApprovalNext]_allVars => [Next]_vars
<1> SUFFICES ASSUME [ApprovalNext]_allVars PROVE [Next]_vars
  OBVIOUS
<1>1. CASE UNCHANGED allVars
  BY <1>1 DEF allVars
<1>2. CASE OtherProjectStep
  BY <1>2 DEF OtherProjectStep, Next, Serve
<1>3. CASE \E r \in Requests :
             BeginTransition(r) \/ CommitTransition(r) \/ AbandonRequest(r)
  BY <1>3 DEF BeginTransition, CommitTransition, AbandonRequest, Next, Serve
<1>4. CASE \E i \in Instances :
             ApproveEndpoint(i) \/ ObserveEndpoint(i) \/ RejectEndpoint(i) \/ PostApproval(i)
  BY <1>4 DEF ApproveEndpoint, ObserveEndpoint, RejectEndpoint, PostApproval, Endpoint
<1>5. CASE \E t \in Editable :
             \/ SetActive(t)
             \/ \E orders \in SUBSET Orders : ReplaceSteps(t, orders)
             \/ \E n \in Orders : CreateStep(t, n)
  BY <1>5 DEF SetActive, ReplaceSteps, CreateStep
<1> QED  BY <1>1, <1>2, <1>3, <1>4, <1>5 DEF ApprovalNext

\* The approval workflow lets a project do nothing it could not do without it.
THEOREM ApprovalRefinesProjects == ApprovalSpec => Spec
<1>1. ApprovalInit => Init
  BY DEF ApprovalInit
<1> QED  BY <1>1, ApprovalStep, PTL DEF ApprovalSpec, Spec

LEMMA LowestExists ==
  ASSUME NEW S \in SUBSET Nat, S # {}
  PROVE  Lowest(S) \in S /\ \A m \in S : Lowest(S) <= m
<1>1. \E n \in S : \A m \in S : ~(<<m, n>> \in OpToRel(<, Nat))
  BY NatLessThanWellFounded, WFMin
<1>2. \A m, n \in Nat : <<m, n>> \in OpToRel(<, Nat) <=> m < n
  BY DEF OpToRel
<1>3. \E n \in S : \A m \in S : ~(m < n)
  BY <1>1, <1>2
<1>4. \E n \in S : \A m \in S : n <= m
  BY <1>3
<1> QED  BY <1>4 DEF Lowest

(***************************************************************************)
(* The instances.  FInv is what the services rely on and keep: rows of the *)
(* right type, a current step that is a step of the template (deleting the *)
(* step sets it to NULL), the steps before it approved, one active row per *)
(* project, and receivers that hold the id of a row.                       *)
(***************************************************************************)

Sound(w) ==
  /\ w \in InstanceRow
  /\ w.step = 0 \/ w.step \in Steps(w.template)
  /\ {k \in Steps(w.template) : k < w.step} \subseteq w.approved \cup Skippable(w)

TablesTyped ==
  /\ templates \in [Templates -> TemplateRow]
  /\ instances \in [Instances -> InstanceRow \cup {Absent}]

RowsSound == \A i \in Existing : Sound(instances[i])

AtMostOne == \A p \in Projects : \A i, j \in ActiveOf(p) : i = j

FoundExists == \A r \in Requests : found[r] \in Existing \cup {NoInstance}

FInv ==
  /\ TablesTyped
  /\ found \in [Requests -> Instances \cup {NoInstance}]
  /\ RowsSound /\ AtMostOne /\ FoundExists

\* What a statement on the instance table does: it writes one sound row that
\* the partial index admits.
Wrote(i, w) ==
  /\ Sound(w)
  /\ UniqueActive(i, w)
  /\ instances' = [instances EXCEPT ![i] = w]

InstanceStep ==
  UNCHANGED instances \/ \E i \in Instances : \E w : Wrote(i, w)

LEMMA StepsTyped ==
  ASSUME TablesTyped, NEW t \in Templates
  PROVE  Steps(t) \subseteq Orders /\ Steps(t) \subseteq Nat \ {0}
BY ApprovalAssumption DEF TablesTyped, TemplateRow, Steps, Orders

LEMMA ExistingRow ==
  ASSUME FInv, NEW i \in Existing
  PROVE  i \in Instances /\ instances[i] \in InstanceRow /\ Sound(instances[i])
BY DEF FInv, RowsSound, Existing, Sound

LEMMA WriteIsStep ==
  ASSUME FInv, NEW i \in Instances, NEW w, Sound(w), Write(i, w)
  PROVE  InstanceStep
BY DEF Write, Wrote, InstanceStep

LEMMA StatusStep ==
  ASSUME FInv, NEW i \in Existing, NEW s \in InstanceStatuses, SetStatus(i, s)
  PROVE  InstanceStep
<1> DEFINE w == [instances[i] EXCEPT !.status = s]
<1>1. i \in Instances /\ instances[i] \in InstanceRow /\ Sound(instances[i])
  BY ExistingRow
<1>2. /\ w \in InstanceRow /\ w.step = instances[i].step
      /\ w.template = instances[i].template /\ w.approved = instances[i].approved
  BY <1>1 DEF InstanceRow
<1>3. Sound(w)
  BY <1>1, <1>2 DEF Sound, Skippable
<1> QED  BY <1>1, <1>3, WriteIsStep DEF SetStatus

LEMMA ResetStep ==
  ASSUME FInv, NEW i \in Existing, Reset(i)
  PROVE  InstanceStep
<1> DEFINE v == instances[i]
           S == Steps(v.template)
           w == [v EXCEPT !.step = Lowest(S), !.status = "pending", !.approved = {}]
<1>1. i \in Instances /\ v \in InstanceRow
  BY ExistingRow
<1>2. S # {} /\ Write(i, w)
  BY DEF Reset
<1>3. S \subseteq Orders /\ S \subseteq Nat
  BY <1>1, StepsTyped DEF FInv, InstanceRow
<1>4. Lowest(S) \in S /\ \A m \in S : Lowest(S) <= m
  BY <1>2, <1>3, LowestExists
<1>5. /\ w \in InstanceRow /\ w.step = Lowest(S) /\ w.template = v.template
  BY <1>1, <1>3, <1>4 DEF InstanceRow, InstanceStatuses, ActiveStatuses
<1>6. {k \in S : k < Lowest(S)} = {}
  BY <1>3, <1>4
<1>7. Sound(w)
  BY <1>4, <1>5, <1>6 DEF Sound
<1> QED  BY <1>1, <1>2, <1>7, WriteIsStep

LEMMA CreateStepOf ==
  ASSUME FInv, NEW p \in Projects, NEW t \in Templates, NEW c, CreateInstance(p, t, c)
  PROVE  InstanceStep
<1> DEFINE S == Steps(t)
           w == Created(p, t)
<1>1. CASE UNCHANGED instances
  BY <1>1 DEF InstanceStep
<1>2. ASSUME S # {}, NEW i \in Instances, Write(i, w)
      PROVE  InstanceStep
  <2>1. S \subseteq Orders /\ S \subseteq Nat
    BY StepsTyped DEF FInv
  <2>2. Lowest(S) \in S /\ \A m \in S : Lowest(S) <= m
    BY <1>2, <2>1, LowestExists
  <2>3. w \in InstanceRow /\ w.step = Lowest(S) /\ w.template = t
    BY <2>1, <2>2 DEF Created, InstanceRow, InstanceStatuses, ActiveStatuses
  <2>4. {k \in S : k < Lowest(S)} = {}
    BY <2>1, <2>2
  <2>5. Sound(w)
    BY <2>2, <2>3, <2>4 DEF Sound
  <2> QED  BY <1>2, <2>5, WriteIsStep
<1> QED  BY <1>1, <1>2 DEF CreateInstance

LEMMA AdvanceStep ==
  ASSUME FInv, NEW i \in Existing, NEW c, Advance(i, c)
  PROVE  InstanceStep
<1> DEFINE v == instances[i]
           S == Steps(v.template)
           later == Later(v.template, v.step)
           w == Advanced(v)
<1>1. i \in Instances /\ v \in InstanceRow /\ Sound(v)
  BY ExistingRow
<1>2. v.step # 0 /\ Write(i, w)
  BY DEF Advance
<1>3. S \subseteq Orders /\ S \subseteq Nat /\ v.step \in S
  BY <1>1, <1>2, StepsTyped DEF FInv, InstanceRow, Sound
<1>4. {k \in S : k < v.step} \subseteq v.approved \cup Skippable(v)
  BY <1>1 DEF Sound
<1>5. v.approved \cup {v.step} \in SUBSET Orders
  BY <1>1, <1>3 DEF InstanceRow
<1>6. CASE later = {}
  <2>1. w = [v EXCEPT !.status = "completed", !.approved = v.approved \cup {v.step}]
    BY <1>6 DEF Advanced
  <2>2. /\ w \in InstanceRow /\ w.step = v.step /\ w.template = v.template
        /\ w.approved = v.approved \cup {v.step}
    BY <1>1, <1>5, <2>1 DEF InstanceRow, InstanceStatuses
  <2>3. Sound(w)
    BY <1>3, <1>4, <2>2 DEF Sound, Skippable
  <2> QED  BY <1>1, <1>2, <2>3, WriteIsStep
<1>7. CASE later # {}
  <2>1. w = [v EXCEPT !.step = Lowest(later), !.approved = v.approved \cup {v.step}]
    BY <1>7 DEF Advanced
  <2>2. later = {n \in S : n > v.step}
    BY DEF Later
  <2>3. Lowest(later) \in later /\ \A m \in later : Lowest(later) <= m
    BY <1>3, <1>7, <2>2, LowestExists
  <2>4. /\ w \in InstanceRow /\ w.step = Lowest(later) /\ w.template = v.template
        /\ w.approved = v.approved \cup {v.step}
    BY <1>1, <1>3, <1>5, <2>1, <2>2, <2>3 DEF InstanceRow
  <2>5. \A k \in S : k < Lowest(later) => k < v.step \/ k = v.step
    BY <1>3, <2>2, <2>3
  <2>6. Sound(w)
    BY <1>4, <2>2, <2>3, <2>4, <2>5 DEF Sound, Skippable
  <2> QED  BY <1>1, <1>2, <2>6, WriteIsStep
<1> QED  BY <1>6, <1>7

LEMMA PostStep ==
  ASSUME FInv, NEW i \in Instances, PostApproval(i)
  PROVE  InstanceStep
<1> DEFINE v == instances[i]
           w == [v EXCEPT !.approved = @ \cup {v.step}]
<1>1. i \in Existing /\ v.step # 0
  BY DEF PostApproval, Endpoint
<1>2. v \in InstanceRow /\ Sound(v)
  BY <1>1, ExistingRow
<1>3. instances' = [instances EXCEPT ![i] = w]
  BY DEF PostApproval, FInv, TablesTyped
<1>4. /\ w \in InstanceRow /\ w.step = v.step /\ w.template = v.template
      /\ w.project = v.project /\ w.status = v.status
      /\ w.approved = v.approved \cup {v.step}
  BY <1>1, <1>2 DEF InstanceRow
<1>5. Sound(w)
  BY <1>2, <1>4 DEF Sound, Skippable
<1>6. UniqueActive(i, w)
  <2> SUFFICES ASSUME w.status \in ActiveStatuses PROVE ActiveOf(w.project) \subseteq {i}
    BY DEF UniqueActive
  <2>1. i \in ActiveOf(w.project) /\ w.project \in Projects
    BY <1>1, <1>4 DEF ActiveOf, InstanceRow
  <2> QED  BY <2>1 DEF FInv, AtMostOne
<1> QED  BY <1>3, <1>5, <1>6 DEF Wrote, InstanceStep

LEMMA EndpointStep ==
  ASSUME FInv, NEW i \in Instances,
         ApproveEndpoint(i) \/ ObserveEndpoint(i) \/ RejectEndpoint(i) \/ PostApproval(i)
  PROVE  InstanceStep /\ UNCHANGED <<templates, found>>
<1>1. i \in Existing /\ UNCHANGED <<templates, found>>
  BY DEF ApproveEndpoint, ObserveEndpoint, RejectEndpoint, PostApproval, Endpoint
<1>2. CASE ApproveEndpoint(i)
  BY <1>1, <1>2, AdvanceStep DEF ApproveEndpoint
<1>3. CASE ObserveEndpoint(i)
  BY <1>1, <1>3, StatusStep DEF ObserveEndpoint, Observe, InstanceStatuses, ActiveStatuses
<1>4. CASE RejectEndpoint(i)
  BY <1>1, <1>4, StatusStep DEF RejectEndpoint, Reject, InstanceStatuses
<1>5. CASE PostApproval(i)
  BY <1>1, <1>5, PostStep
<1> QED  BY <1>1, <1>2, <1>3, <1>4, <1>5

LEMMA ReceiveStep ==
  ASSUME FInv, NEW q, q.project \in Projects, NEW i \in Existing \cup {NoInstance},
         Receive(q, i)
  PROVE  InstanceStep
<1>1. CASE UNCHANGED instances
  BY <1>1 DEF InstanceStep
<1>2. ASSUME NEW t \in DefaultTemplates, CreateInstance(q.project, t, q.seen.contents)
      PROVE  InstanceStep
  <2>1. t \in Templates
    BY DEF DefaultTemplates
  <2> QED  BY <1>2, <2>1, CreateStepOf
<1>3. CASE /\ i # NoInstance
           /\ \/ Reset(i) \/ Advance(i, q.seen.contents)
              \/ Observe(i) \/ Reject(i) \/ CancelInstance(i)
  BY <1>3, ResetStep, AdvanceStep, StatusStep
     DEF Observe, Reject, CancelInstance, InstanceStatuses, ActiveStatuses
<1> QED  BY <1>1, <1>2, <1>3 DEF Receive

\* The statements on the instance table keep FInv while the templates stay.
LEMMA FInstanceStep ==
  ASSUME FInv, InstanceStep, UNCHANGED templates,
         found' \in [Requests -> Instances \cup {NoInstance}],
         \A r \in Requests : found'[r] \in Existing \cup {NoInstance}
  PROVE  FInv'
<1>1. CASE UNCHANGED instances
  <2>1. Existing' = Existing
    BY <1>1 DEF Existing
  <2>2. \A p \in Projects : ActiveOf(p)' = ActiveOf(p)
    BY <1>1, <2>1 DEF ActiveOf
  <2>3. \A w : Sound(w)' <=> Sound(w)
    BY DEF Sound, Steps, Skippable
  <2>4. RowsSound'
    BY <1>1, <2>1, <2>3 DEF FInv, RowsSound
  <2> QED  BY <1>1, <2>1, <2>2, <2>4 DEF FInv, TablesTyped, AtMostOne, FoundExists
<1>2. ASSUME NEW i \in Instances, NEW w, Wrote(i, w) PROVE FInv'
  <2>1. /\ instances' = [instances EXCEPT ![i] = w] /\ instances'[i] = w
        /\ w \in InstanceRow /\ w # Absent
    BY <1>2 DEF Wrote, Sound, FInv, TablesTyped, InstanceRow, InstanceStatuses,
                ActiveStatuses, Absent
  <2>2. Existing' = Existing \cup {i}
    BY <2>1 DEF Existing, FInv, TablesTyped
  <2>3. \A j \in Existing \ {i} : instances'[j] = instances[j]
    BY <2>1 DEF Existing, FInv, TablesTyped
  <2>4. TablesTyped'
    BY <2>1 DEF FInv, TablesTyped
  <2>5. RowsSound'
    <3>1. \A v : Sound(v)' <=> Sound(v)
      BY DEF Sound, Steps, Skippable
    <3>2. Sound(w)
      BY <1>2 DEF Wrote
    <3> QED  BY <2>1, <2>2, <2>3, <3>1, <3>2 DEF FInv, RowsSound
  <2>6. AtMostOne'
    <3>1. ASSUME NEW p \in Projects, NEW j \in ActiveOf(p)', NEW k \in ActiveOf(p)'
          PROVE  j = k
      <4>1. \A m \in ActiveOf(p)' : m = i \/ m \in ActiveOf(p)
        BY <2>2, <2>3 DEF ActiveOf
      <4>2. i \in ActiveOf(p)' => w.project = p /\ w.status \in ActiveStatuses
        BY <2>1 DEF ActiveOf
      <4>3. i \in ActiveOf(p)' => ActiveOf(p) \subseteq {i}
        BY <1>2, <4>2 DEF Wrote, UniqueActive
      <4> QED  BY <3>1, <4>1, <4>3 DEF FInv, AtMostOne
    <3> QED  BY <3>1 DEF AtMostOne
  <2>7. FoundExists'
    BY <2>2 DEF FoundExists
  <2> QED  BY <2>4, <2>5, <2>6, <2>7 DEF FInv
<1> QED  BY <1>1, <1>2 DEF InstanceStep

LEMMA FSetActive ==
  ASSUME FInv, NEW t \in Templates, SetActive(t)
  PROVE  FInv'
<1>1. /\ UNCHANGED <<instances, found>>
      /\ templates' = [templates EXCEPT ![t].active = ~@]
  BY DEF SetActive
<1>2. templates' \in [Templates -> TemplateRow]
  <2>1. PICK old \in TemplateRow : old = templates[t]
    BY DEF FInv, TablesTyped
  <2>2. [old EXCEPT !.active = ~@] \in TemplateRow
    BY DEF TemplateRow
  <2>3. templates' = [templates EXCEPT ![t] = [old EXCEPT !.active = ~@]]
    BY <1>1, <2>1
  <2> QED  BY <2>2, <2>3 DEF FInv, TablesTyped
<1>3. \A u \in Templates : templates'[u].steps = templates[u].steps
                           /\ templates'[u].late = templates[u].late
  BY <1>1 DEF FInv, TablesTyped, TemplateRow
<1>4. \A w \in InstanceRow : Sound(w) => Sound(w)'
  BY <1>3 DEF Sound, Steps, Skippable, InstanceRow
<1>5. Existing' = Existing /\ \A p \in Projects : ActiveOf(p)' = ActiveOf(p)
  BY <1>1 DEF Existing, ActiveOf
<1>6. RowsSound'
  BY <1>1, <1>4, <1>5, ExistingRow DEF RowsSound
<1> QED  BY <1>1, <1>2, <1>5, <1>6 DEF FInv, TablesTyped, AtMostOne, FoundExists

LEMMA FReplaceSteps ==
  ASSUME FInv, NEW t \in Templates, NEW orders \in SUBSET Orders, ReplaceSteps(t, orders)
  PROVE  FInv'
<1> DEFINE cleared(i) == [instances[i] EXCEPT !.step = 0, !.approved = {}]
           emptied == [templates[t] EXCEPT !.steps = {}, !.missing = orders, !.late = {}]
<1>1. /\ UNCHANGED found
      /\ templates' = [templates EXCEPT ![t] = emptied]
      /\ instances' = [i \in Instances |->
                         IF i \in Existing /\ instances[i].template = t
                         THEN cleared(i) ELSE instances[i]]
  BY DEF ReplaceSteps, FInv, TablesTyped
<1>2. templates' \in [Templates -> TemplateRow]
  <2>1. emptied \in TemplateRow
    BY DEF FInv, TablesTyped, TemplateRow
  <2> QED  BY <1>1, <2>1 DEF FInv, TablesTyped
<1>3. \A u \in Templates \ {t} : templates'[u] = templates[u]
  BY <1>1 DEF FInv, TablesTyped
<1>4. \A i \in Existing :
        /\ i \in Instances /\ instances[i] \in InstanceRow
        /\ cleared(i) \in InstanceRow /\ cleared(i).step = 0
        /\ cleared(i).project = instances[i].project
        /\ cleared(i).status = instances[i].status
        /\ cleared(i).template = instances[i].template
  BY ExistingRow DEF InstanceRow
<1>5. \A w \in InstanceRow : w # Absent
  BY DEF InstanceRow, InstanceStatuses, ActiveStatuses, Absent
<1>6. /\ Existing' = Existing
      /\ \A i \in Existing : IF instances[i].template = t
                             THEN instances'[i] = cleared(i)
                             ELSE instances'[i] = instances[i]
  BY <1>1, <1>4, <1>5 DEF Existing
<1>7. instances' \in [Instances -> InstanceRow \cup {Absent}]
  BY <1>1, <1>4 DEF FInv, TablesTyped
<1>8. RowsSound'
  <2> SUFFICES ASSUME NEW i \in Existing, NEW v, v = instances'[i] PROVE Sound(v)'
    BY <1>6 DEF RowsSound
  <2>1. CASE instances[i].template = t
    <3>1. v \in InstanceRow /\ v.step = 0 /\ v.template \in Templates
      BY <1>4, <1>6, <2>1 DEF InstanceRow
    <3>2. templates'[v.template].steps \subseteq Orders
      BY <1>2, <3>1 DEF TemplateRow
    <3>3. {k \in templates'[v.template].steps : k < 0} = {}
      BY <3>2, ApprovalAssumption DEF Orders
    <3> QED  BY <3>1, <3>3 DEF Sound, Steps
  <2>2. CASE instances[i].template # t
    <3>1. Sound(v) /\ v.template \in Templates \ {t}
      BY <1>4, <1>6, <2>2, ExistingRow DEF InstanceRow
    <3> QED  BY <1>3, <3>1 DEF Sound, Steps, Skippable
  <2> QED  BY <2>1, <2>2
<1>9. \A p \in Projects : ActiveOf(p)' = ActiveOf(p)
  <2>1. \A i \in Existing : /\ instances'[i].project = instances[i].project
                            /\ instances'[i].status = instances[i].status
    BY <1>4, <1>6
  <2> QED  BY <1>6, <2>1 DEF ActiveOf
<1>10. UNCHANGED found
  BY <1>1
<1>11. AtMostOne'
  BY <1>9 DEF FInv, AtMostOne
<1>12. FoundExists'
  BY <1>6, <1>10 DEF FInv, FoundExists
<1> QED  BY <1>2, <1>7, <1>8, <1>10, <1>11, <1>12 DEF FInv, TablesTyped

\* A step inserted below the current one of an instance finds that one in the
\* table, so it is marked late.
LEMMA FCreateStep ==
  ASSUME FInv, NEW t \in Templates, NEW n \in Orders, CreateStep(t, n)
  PROVE  FInv'
<1> DEFINE late == IF Later(t, n) = {} THEN templates[t].late ELSE templates[t].late \cup {n}
           grown == [templates[t] EXCEPT !.steps = @ \cup {n}, !.missing = @ \ {n},
                                         !.late = late]
<1>1. /\ UNCHANGED <<instances, found>>
      /\ templates' = [templates EXCEPT ![t] = grown]
  BY DEF CreateStep, FInv, TablesTyped
<1>2. templates' \in [Templates -> TemplateRow]
  <2>1. grown \in TemplateRow
    BY DEF FInv, TablesTyped, TemplateRow
  <2> QED  BY <1>1, <2>1 DEF FInv, TablesTyped
<1>3. /\ templates'[t].steps = templates[t].steps \cup {n} /\ templates'[t].late = late
      /\ \A u \in Templates \ {t} : templates'[u] = templates[u]
  BY <1>1 DEF FInv, TablesTyped, TemplateRow
<1>4. Existing' = Existing /\ \A p \in Projects : ActiveOf(p)' = ActiveOf(p)
  BY <1>1 DEF Existing, ActiveOf
<1>5. \A w \in InstanceRow : Sound(w) => Sound(w)'
  <2> SUFFICES ASSUME NEW w \in InstanceRow, Sound(w) PROVE Sound(w)'
    OBVIOUS
  <2>1. CASE w.template # t
    BY <1>3, <2>1 DEF Sound, Steps, Skippable, InstanceRow
  <2>2. CASE w.template = t
    <3>1. Steps(t)' = Steps(t) \cup {n} /\ Skippable(w)' = late
      BY <1>3, <2>2 DEF Steps, Skippable
    <3>2. n < w.step => n \in late
      <4>1. Steps(t) \subseteq Nat \ {0} /\ n \in Nat
        BY StepsTyped, ApprovalAssumption DEF FInv, Orders
      <4>2. n < w.step => w.step \in Later(t, n)
        BY <2>2, <4>1 DEF Sound, Later
      <4> QED  BY <4>2
    <3>3. {k \in Steps(t) : k < w.step} \subseteq w.approved \cup late
      BY <2>2 DEF Sound, Skippable
    <3> QED  BY <2>2, <3>1, <3>2, <3>3 DEF Sound
  <2> QED  BY <2>1, <2>2
<1>6. RowsSound'
  BY <1>1, <1>4, <1>5, ExistingRow DEF RowsSound
<1> QED  BY <1>1, <1>2, <1>4, <1>6 DEF FInv, TablesTyped, AtMostOne, FoundExists

LEMMA FInitially == ApprovalInit => FInv
BY DEF ApprovalInit, FlowInit, FInv, TablesTyped, RowsSound, AtMostOne, FoundExists,
       Existing, ActiveOf

LEMMA FStep == TInv /\ FInv /\ [ApprovalNext]_allVars => FInv'
<1> SUFFICES ASSUME TInv, FInv, [ApprovalNext]_allVars PROVE FInv'
  OBVIOUS
<1>0. /\ found \in [Requests -> Instances \cup {NoInstance}]
      /\ \A r \in Requests : found[r] \in Existing \cup {NoInstance}
  BY DEF FInv, FoundExists
<1>1. CASE UNCHANGED flow
  <2>1. InstanceStep /\ UNCHANGED <<templates, found>>
    BY <1>1 DEF flow, InstanceStep
  <2> QED  BY <1>0, <2>1, FInstanceStep
<1>2. ASSUME NEW r \in Requests, BeginTransition(r) PROVE FInv'
  <2>1. UNCHANGED <<templates, instances>>
    BY <1>2 DEF BeginTransition
  <2>2. PICK i \in Existing \cup {NoInstance} :
          found' = [found EXCEPT ![r] = i] \/ UNCHANGED found
    BY <1>2 DEF BeginTransition, ActiveOf
  <2>3. InstanceStep
    BY <2>1 DEF InstanceStep
  <2>4. i \in Instances \cup {NoInstance}
    BY DEF Existing
  <2> QED  BY <1>0, <2>1, <2>2, <2>3, <2>4, FInstanceStep
<1>3. ASSUME NEW r \in Requests, CommitTransition(r) PROVE FInv'
  <2>1. req[r].project \in Projects
    BY <1>3, BusyRequest DEF CommitTransition, Commit, Busy, TInv
  <2>2. InstanceStep
    BY <1>0, <1>3, <2>1, ReceiveStep DEF CommitTransition
  <2>3. UNCHANGED templates /\ found' = [found EXCEPT ![r] = NoInstance]
    BY <1>3 DEF CommitTransition
  <2> QED  BY <1>0, <2>2, <2>3, FInstanceStep
<1>4. ASSUME NEW r \in Requests, AbandonRequest(r) PROVE FInv'
  <2>1. UNCHANGED <<templates, instances>> /\ found' = [found EXCEPT ![r] = NoInstance]
    BY <1>4 DEF AbandonRequest
  <2>2. InstanceStep
    BY <2>1 DEF InstanceStep
  <2> QED  BY <1>0, <2>1, <2>2, FInstanceStep
<1>5. ASSUME NEW i \in Instances,
             ApproveEndpoint(i) \/ ObserveEndpoint(i) \/ RejectEndpoint(i) \/ PostApproval(i)
      PROVE  FInv'
  BY <1>0, <1>5, EndpointStep, FInstanceStep
<1>6. ASSUME NEW t \in Editable,
             \/ SetActive(t)
             \/ \E orders \in SUBSET Orders : ReplaceSteps(t, orders)
             \/ \E n \in Orders : CreateStep(t, n)
      PROVE  FInv'
  BY <1>6, FSetActive, FReplaceSteps, FCreateStep, ApprovalAssumption
<1> QED
  BY <1>1, <1>2, <1>3, <1>4, <1>5, <1>6 DEF ApprovalNext, OtherProjectStep, allVars, flow

LEMMA FInvariance == ApprovalSpec => []FInv
<1>1. ApprovalSpec => []TInv
  BY ApprovalRefinesProjects, TInitially, TStep, PTL DEF Spec
<1> QED  BY <1>1, FInitially, FStep, PTL DEF ApprovalSpec

\* Types of the tables of the workflow.
THEOREM FlowTypeCorrectness == ApprovalSpec => []FlowTypeOK
<1>1. FInv => FlowTypeOK
  BY DEF FInv, TablesTyped, FlowTypeOK
<1> QED  BY <1>1, FInvariance, PTL

\* A project has at most one active instance (WR-001).
THEOREM AtMostOneActive == ApprovalSpec => []OneActiveInstance
<1>1. FInv => OneActiveInstance
  <2> SUFFICES ASSUME FInv, NEW p \in Projects PROVE Cardinality(ActiveOf(p)) <= 1
    BY DEF OneActiveInstance
  <2>1. CASE ActiveOf(p) = {}
    BY <2>1, FS_EmptySet
  <2>2. ASSUME NEW i \in ActiveOf(p) PROVE Cardinality(ActiveOf(p)) <= 1
    <3>1. ActiveOf(p) = {i}
      BY <2>2 DEF FInv, AtMostOne
    <3> QED  BY <3>1, FS_Singleton
  <2> QED  BY <2>1, <2>2
<1> QED  BY <1>1, FInvariance, PTL

\* No instance stands past a step that nobody approved, whatever templates are
\* edited meanwhile, but for steps that an edit inserted late.
THEOREM ApprovedInOrder == ApprovalSpec => []StepsApprovedInOrder
<1>1. FInv => StepsApprovedInOrder
  BY DEF FInv, RowsSound, Sound, StepsApprovedInOrder
<1> QED  BY <1>1, FInvariance, PTL

(***************************************************************************)
(* Completion.  A step writes one row at most, and only an advance may     *)
(* complete one: it finds no later step, and with its own approval every   *)
(* step of the template has one.  The approval that arrives with a project *)
(* transition advances the instance its receiver found, so it counts for   *)
(* that project only because what a receiver found is the project's own.   *)
(***************************************************************************)

\* What a receiver has found belongs to the project of its transition.
FoundOwn ==
  \A r \in Requests : found[r] # NoInstance =>
    /\ req[r].phase = "locked"
    /\ instances[found[r]].project = req[r].project

\* What becomes of a row that is not completed by the step ...
Quiet(i) ==
  /\ instances'[i].project = instances[i].project
  /\ instances'[i].status = "completed" => instances[i].status = "completed"

\* ... and of one that an advance with these contents may complete.
Earned(i, c) ==
  /\ instances'[i].project = instances[i].project
  /\ instances'[i].status = "completed" =>
       LET w == instances'[i] IN
       /\ Later(w.template, w.step) = {}
       /\ Steps(w.template) \subseteq w.approved \cup Skippable(w)
       /\ c \in Complete

\* One statement leaves every other row as it was.
LEMMA WriteEffect ==
  ASSUME FInv, NEW i \in Instances, NEW w, Write(i, w)
  PROVE  /\ instances'[i] = w
         /\ \A j \in Existing \ {i} : Quiet(j)
BY DEF Write, FInv, TablesTyped, Existing, Quiet

LEMMA StatusQuiet ==
  ASSUME FInv, NEW i \in Existing, NEW s, s # "completed", SetStatus(i, s)
  PROVE  \A j \in Existing : Quiet(j)
<1> DEFINE w == [instances[i] EXCEPT !.status = s]
<1>1. i \in Instances /\ instances[i] \in InstanceRow
  BY ExistingRow
<1>2. w.project = instances[i].project /\ w.status = s
  BY <1>1 DEF InstanceRow
<1>3. instances'[i] = w /\ \A j \in Existing \ {i} : Quiet(j)
  BY <1>1, WriteEffect DEF SetStatus
<1>4. Quiet(i)
  BY <1>2, <1>3 DEF Quiet
<1> QED  BY <1>3, <1>4

LEMMA ResetQuiet ==
  ASSUME FInv, NEW i \in Existing, Reset(i)
  PROVE  \A j \in Existing : Quiet(j)
<1>1. i \in Instances /\ instances[i] \in InstanceRow
  BY ExistingRow
<1>2. PICK n : Write(i, [instances[i] EXCEPT !.step = n, !.status = "pending",
                                             !.approved = {}])
  BY DEF Reset
<1> DEFINE w == [instances[i] EXCEPT !.step = n, !.status = "pending", !.approved = {}]
<1>3. w.project = instances[i].project /\ w.status = "pending"
  BY <1>1 DEF InstanceRow
<1>4. instances'[i] = w /\ \A j \in Existing \ {i} : Quiet(j)
  BY <1>1, <1>2, WriteEffect
<1>5. Quiet(i)
  BY <1>3, <1>4 DEF Quiet
<1> QED  BY <1>4, <1>5

LEMMA CreateQuiet ==
  ASSUME FInv, NEW p, NEW t, NEW c, CreateInstance(p, t, c)
  PROVE  \A j \in Existing : Quiet(j)
<1>1. CASE UNCHANGED instances
  BY <1>1 DEF Quiet
<1>2. ASSUME NEW i \in Instances \ Existing, Write(i, Created(p, t))
      PROVE  \A j \in Existing : Quiet(j)
  BY <1>2, WriteEffect
<1> QED  BY <1>1, <1>2 DEF CreateInstance

LEMMA AdvanceEarned ==
  ASSUME FInv, NEW i \in Existing, NEW c, Advance(i, c)
  PROVE  /\ \A j \in Existing \ {i} : Quiet(j)
         /\ Earned(i, c) \/ Quiet(i)
<1> DEFINE v == instances[i]
           S == Steps(v.template)
           later == Later(v.template, v.step)
           w == Advanced(v)
<1>1. i \in Instances /\ v \in InstanceRow /\ Sound(v)
  BY ExistingRow
<1>2. v.step # 0 /\ Write(i, w) /\ c \in Complete
  BY DEF Advance
<1>3. instances'[i] = w /\ \A j \in Existing \ {i} : Quiet(j)
  BY <1>1, <1>2, WriteEffect
<1>4. S \subseteq Nat /\ v.step \in S
  BY <1>1, <1>2, StepsTyped DEF FInv, InstanceRow, Sound
<1>5. {k \in S : k < v.step} \subseteq v.approved \cup Skippable(v)
  BY <1>1 DEF Sound
<1>6. CASE later = {}
  <2>1. w = [v EXCEPT !.status = "completed", !.approved = v.approved \cup {v.step}]
    BY <1>6 DEF Advanced
  <2>2. /\ w.project = v.project /\ w.step = v.step /\ w.template = v.template
        /\ w.approved = v.approved \cup {v.step}
    BY <1>1, <2>1 DEF InstanceRow
  <2>3. \A n \in S : n = v.step \/ n < v.step
    BY <1>4, <1>6 DEF Later
  <2>4. S \subseteq w.approved \cup Skippable(w)
    BY <1>5, <2>2, <2>3 DEF Skippable
  <2>5. Earned(i, c)
    BY <1>2, <1>3, <1>6, <2>2, <2>4 DEF Earned
  <2> QED  BY <1>3, <2>5
<1>7. CASE later # {}
  <2>1. w = [v EXCEPT !.step = Lowest(later), !.approved = v.approved \cup {v.step}]
    BY <1>7 DEF Advanced
  <2>2. w.project = v.project /\ w.status = v.status
    BY <1>1, <2>1 DEF InstanceRow
  <2>3. Quiet(i)
    BY <1>3, <2>2 DEF Quiet
  <2> QED  BY <1>3, <2>3
<1> QED  BY <1>6, <1>7

LEMMA ReceiveEarned ==
  ASSUME FInv, NEW q, NEW i \in Existing \cup {NoInstance}, Receive(q, i)
  PROVE  \A j \in Existing : Quiet(j) \/ (j = i /\ Earned(j, q.seen.contents))
<1>1. CASE UNCHANGED instances
  BY <1>1 DEF Quiet
<1>2. ASSUME NEW t, CreateInstance(q.project, t, q.seen.contents)
      PROVE  \A j \in Existing : Quiet(j)
  BY <1>2, CreateQuiet
<1>3. CASE i # NoInstance /\ (Reset(i) \/ Observe(i) \/ Reject(i) \/ CancelInstance(i))
  BY <1>3, ResetQuiet, StatusQuiet DEF Observe, Reject, CancelInstance
<1>4. CASE i # NoInstance /\ Advance(i, q.seen.contents)
  BY <1>4, AdvanceEarned
<1> QED  BY <1>1, <1>2, <1>3, <1>4 DEF Receive

LEMMA PostQuiet ==
  ASSUME FInv, NEW i \in Instances, PostApproval(i)
  PROVE  \A j \in Existing : Quiet(j)
<1> DEFINE w == [instances[i] EXCEPT !.approved = @ \cup {instances[i].step}]
<1>1. i \in Existing /\ instances'[i] = w /\ \A j \in Existing \ {i} : instances'[j] = instances[j]
  BY DEF PostApproval, Endpoint, FInv, TablesTyped, Existing
<1>2. instances[i] \in InstanceRow
  BY <1>1, ExistingRow
<1>3. w.project = instances[i].project /\ w.status = instances[i].status
  BY <1>2 DEF InstanceRow
<1> QED  BY <1>1, <1>3 DEF Quiet

LEMMA ReplaceQuiet ==
  ASSUME FInv, NEW t, NEW orders, ReplaceSteps(t, orders)
  PROVE  \A j \in Existing : Quiet(j)
<1> SUFFICES ASSUME NEW j \in Existing PROVE Quiet(j)
  OBVIOUS
<1> DEFINE w == [instances[j] EXCEPT !.step = 0, !.approved = {}]
<1>1. j \in Instances /\ instances[j] \in InstanceRow
  BY ExistingRow
<1>2. w.project = instances[j].project /\ w.status = instances[j].status
  BY <1>1 DEF InstanceRow
<1>3. instances'[j] = w \/ instances'[j] = instances[j]
  BY <1>1 DEF ReplaceSteps
<1> QED  BY <1>2, <1>3 DEF Quiet

\* Two steps may complete an instance: the commit of an approval, the one its
\* receiver found, and the approval endpoint.
LEMMA StepEffect ==
  ASSUME FInv, [ApprovalNext]_allVars, NEW j \in Existing
  PROVE  \/ Quiet(j)
         \/ \E r \in Requests : /\ CommitTransition(r) /\ j = found[r]
                                /\ Earned(j, req[r].seen.contents)
         \/ /\ UNCHANGED row /\ row[instances[j].project] # NoRow
            /\ Earned(j, row[instances[j].project].contents)
<1>1. CASE UNCHANGED instances
  BY <1>1 DEF Quiet
<1>2. ASSUME NEW r \in Requests, CommitTransition(r)
      PROVE  Quiet(j) \/ (j = found[r] /\ Earned(j, req[r].seen.contents))
  <2>1. Receive(req[r], found[r]) /\ found[r] \in Existing \cup {NoInstance}
    BY <1>2 DEF CommitTransition, FInv, FoundExists
  <2> QED  BY <2>1, ReceiveEarned
<1>3. ASSUME NEW i \in Instances, ApproveEndpoint(i)
      PROVE  \/ Quiet(j)
             \/ /\ UNCHANGED row /\ row[instances[j].project] # NoRow
                /\ Earned(j, row[instances[j].project].contents)
  <2>1. /\ i \in Existing /\ UNCHANGED row /\ row[instances[i].project] # NoRow
        /\ Advance(i, row[instances[i].project].contents)
    BY <1>3 DEF ApproveEndpoint, Endpoint, vars
  <2> QED  BY <2>1, AdvanceEarned
<1>4. ASSUME NEW i \in Instances, ObserveEndpoint(i) \/ RejectEndpoint(i) \/ PostApproval(i)
      PROVE  Quiet(j)
  BY <1>4, StatusQuiet, PostQuiet
     DEF ObserveEndpoint, RejectEndpoint, Endpoint, Observe, Reject
<1>5. ASSUME NEW t \in Editable,
             \/ SetActive(t)
             \/ \E orders \in SUBSET Orders : ReplaceSteps(t, orders)
             \/ \E n \in Orders : CreateStep(t, n)
      PROVE  Quiet(j)
  <2>1. UNCHANGED instances => Quiet(j)
    BY DEF Quiet
  <2> QED  BY <1>5, <2>1, ReplaceQuiet DEF SetActive, CreateStep
<1>6. ASSUME NEW r \in Requests, BeginTransition(r) \/ AbandonRequest(r)
      PROVE  UNCHANGED instances
  BY <1>6 DEF BeginTransition, AbandonRequest
<1> QED  BY <1>1, <1>2, <1>3, <1>4, <1>5, <1>6
         DEF ApprovalNext, OtherProjectStep, allVars, flow

LEMMA OwnStep == FInv /\ FoundOwn /\ TInv /\ [ApprovalNext]_allVars => FoundOwn'
<1> SUFFICES ASSUME FInv, FoundOwn, TInv, [ApprovalNext]_allVars,
                    NEW r \in Requests, found'[r] # NoInstance
             PROVE  req'[r].phase = "locked" /\ instances'[found'[r]].project = req'[r].project
  BY DEF FoundOwn
<1>1. \A j \in Existing : instances'[j].project = instances[j].project
  BY StepEffect DEF Quiet, Earned
\* A request that goes on holding what it found.
<1>2. ASSUME found'[r] = found[r], req'[r] = req[r] PROVE req'[r].phase = "locked"
                                        /\ instances'[found'[r]].project = req'[r].project
  <2>1. found[r] \in Existing
    BY <1>2 DEF FInv, FoundExists
  <2> QED  BY <1>1, <1>2, <2>1 DEF FoundOwn
<1>3. ASSUME NEW s \in Requests, BeginTransition(s)
      PROVE  req'[r].phase = "locked" /\ instances'[found'[r]].project = req'[r].project
  <2>1. /\ req[s].phase = "loaded" /\ req' = [req EXCEPT ![s].phase = "locked"]
        /\ UNCHANGED instances
    BY <1>3 DEF BeginTransition, Begin
  <2>2. CASE r = s
    <3>1. found[r] = NoInstance
      BY <2>1, <2>2 DEF FoundOwn
    <3>2. PICK i \in ActiveOf(req[r].project) : found'[r] = i
      BY <1>3, <2>2, <3>1 DEF BeginTransition, FInv
    <3>3. instances[i].project = req[r].project
      BY DEF ActiveOf
    <3>4. req'[r].phase = "locked" /\ req'[r].project = req[r].project
      <4>1. req[r] \in InFlight
        BY <2>1, <2>2, BusyRequest DEF Busy, TInv
      <4> QED  BY <2>1, <2>2, <4>1 DEF InFlight, TInv, TypeOK
    <3> QED  BY <2>1, <3>2, <3>3, <3>4
  <2>3. CASE r # s
    <3>1. req'[r] = req[r] /\ found'[r] = found[r]
      BY <1>3, <2>1, <2>3 DEF BeginTransition, FInv, TInv, TypeOK
    <3> QED  BY <1>2, <3>1
  <2> QED  BY <2>2, <2>3
<1>4. ASSUME NEW s \in Requests, CommitTransition(s) \/ AbandonRequest(s)
      PROVE  req'[r].phase = "locked" /\ instances'[found'[r]].project = req'[r].project
  <2>1. found' = [found EXCEPT ![s] = NoInstance] /\ Finish(s)
    BY <1>4 DEF CommitTransition, AbandonRequest, Commit, Abandon
  <2>2. r # s /\ found'[r] = found[r]
    BY <2>1 DEF FInv
  <2>3. req'[r] = req[r]
    BY <2>1, <2>2 DEF Finish, TInv, TypeOK
  <2> QED  BY <1>2, <2>2, <2>3
<1>5. ASSUME OtherProjectStep
      PROVE  req'[r].phase = "locked" /\ instances'[found'[r]].project = req'[r].project
  <2>1. found'[r] = found[r]
    BY <1>5 DEF OtherProjectStep, flow
  <2>2. req[r].phase = "locked"
    BY <2>1 DEF FoundOwn
  <2>3. ASSUME NEW s \in Requests, Autocommitted(s) PROVE req'[r] = req[r]
    <3>1. Finish(s) /\ req[s].phase = "loaded"
      BY <2>3 DEF Autocommitted, Update, Destroy, Attach, Revise, Detach, WriteItem
    <3> QED  BY <2>2, <3>1 DEF Finish, TInv, TypeOK
  <2>4. ASSUME Arrive PROVE req'[r] = req[r]
    BY <2>2, <2>4 DEF Arrive, Create, Load, Busy, TInv, TypeOK
  <2>5. ASSUME Elsewhere PROVE req'[r] = req[r]
    BY <2>5 DEF Elsewhere, WriteShared, LoseMember
  <2> QED  BY <1>2, <1>5, <2>1, <2>3, <2>4, <2>5 DEF OtherProjectStep
<1>6. CASE UNCHANGED <<req, found>>
  BY <1>2, <1>6
<1> QED  BY <1>3, <1>4, <1>5, <1>6
         DEF ApprovalNext, ApproveEndpoint, ObserveEndpoint, RejectEndpoint, PostApproval,
             Endpoint, SetActive, ReplaceSteps, CreateStep, allVars, vars, flow

LEMMA CompletionStep ==
  ASSUME TInv, FInv, FoundOwn, [ApprovalNext]_allVars, NEW i \in Existing,
         instances'[i].status = "completed", instances[i].status # "completed"
  PROVE  LET w == instances'[i] IN
         /\ Later(w.template, w.step) = {}
         /\ Steps(w.template) \subseteq w.approved \cup Skippable(w)
         /\ row'[w.project] # NoRow /\ row'[w.project].contents \in Complete
<1>1. ~Quiet(i)
  BY DEF Quiet
<1>2. ASSUME NEW r \in Requests, CommitTransition(r), i = found[r],
             Earned(i, req[r].seen.contents)
      PROVE  row'[instances'[i].project] # NoRow
             /\ row'[instances'[i].project].contents \in Complete
  <2>1. PICK p \in Projects : p = req[r].project
    BY <1>2, CommitEffect DEF CommitTransition
  <2>2. instances'[i].project = p
    BY <1>2, <2>1, ApprovalAssumption DEF FoundOwn, Earned, Existing
  <2>3. PICK d : row' = [row EXCEPT ![p] = Saved(req[r], d)]
    BY <1>2, <2>1 DEF CommitTransition, Commit
  <2>4. row'[p] = Saved(req[r], d) /\ row'[p] \in Row
    BY <1>2, <2>1, <2>3, CommitEffect DEF CommitTransition, TInv, TypeOK
  <2>5. req[r].seen \in Row
    BY <1>2, BusyRequest DEF CommitTransition, Commit, Busy, TInv
  <2>6. row'[p].contents = req[r].seen.contents
    BY <2>4, <2>5 DEF Saved, Row
  <2> QED  BY <1>2, <2>2, <2>4, <2>6, ProjectsAssumption DEF Earned
<1>3. ASSUME UNCHANGED row, row[instances[i].project] # NoRow,
             Earned(i, row[instances[i].project].contents)
      PROVE  row'[instances'[i].project] # NoRow
             /\ row'[instances'[i].project].contents \in Complete
  BY <1>3 DEF Earned
<1>4. \E c : Earned(i, c)
  BY <1>1, StepEffect
<1> QED  BY <1>1, <1>2, <1>3, <1>4, StepEffect DEF Earned

\* No instance is completed but at the last step of its template, with every
\* step approved and for a project that has its minimum data (WF-003, WR-004).
THEOREM CompletionsAreEarned == ApprovalSpec => CompletionIsEarned
<1>1. TInv /\ FInv /\ FoundOwn /\ [ApprovalNext]_allVars =>
        [\A i \in Existing :
           instances'[i].status = "completed" /\ instances[i].status # "completed" =>
             LET w == instances'[i] IN
             /\ Later(w.template, w.step) = {}
             /\ Steps(w.template) \subseteq w.approved \cup Skippable(w)
             /\ row'[w.project] # NoRow /\ row'[w.project].contents \in Complete]_allVars
  BY CompletionStep
<1>2. ApprovalSpec => []TInv
  BY ApprovalRefinesProjects, TInitially, TStep, PTL DEF Spec
<1>3. ApprovalInit => FoundOwn
  BY DEF ApprovalInit, FlowInit, FoundOwn
<1>4. ApprovalSpec => []FoundOwn
  BY <1>2, <1>3, FInvariance, OwnStep, PTL DEF ApprovalSpec
<1> QED  BY <1>1, <1>2, <1>4, FInvariance, PTL DEF ApprovalSpec, CompletionIsEarned

(***************************************************************************)
(* Entry into review.                                                      *)
(***************************************************************************)

\* Of the transitions that lead into review all but resubmit, which starts
\* from "observado", have the receiver create an instance.
LEMMA EnteringCreates ==
  ASSUME NEW q, q.op \in Transitions, q.seen.status \in Sources[q.op],
         EntersReview(Entry(q))
  PROVE  q.op \in CreatesInstance
<1>1. \A t \in Transitions : Target[t] \in {"enviado", "en_revision"}
        => t \in {"submit", "accept_review", "resubmit"}
  BY DEF Transitions, Sources, Target
<1>2. Sources["resubmit"] = {"observado"}
  BY DEF Sources
<1> QED  BY <1>1, <1>2 DEF EntersReview, Entry, CreatesInstance

LEMMA CreatedIsActive ==
  ASSUME FInv, NEW p \in Projects, NEW t, NEW c, CreateInstance(p, t, c)
  PROVE  ActiveOf(p)' # {}
<1>1. CASE ActiveOf(p) # {} /\ UNCHANGED instances
  BY <1>1 DEF ActiveOf, Existing
<1>2. ASSUME NEW i \in Instances \ Existing, Write(i, Created(p, t)) PROVE ActiveOf(p)' # {}
  <2>1. instances'[i] = Created(p, t)
    BY <1>2, WriteEffect
  <2>2. /\ Created(p, t).project = p /\ Created(p, t).status = "pending"
        /\ Created(p, t) # Absent
    BY DEF Created, Absent
  <2>3. i \in ActiveOf(p)'
    BY <2>1, <2>2 DEF ActiveOf, Existing, ActiveStatuses
  <2> QED  BY <2>3
<1> QED  BY <1>1, <1>2 DEF CreateInstance

LEMMA ReviewStep ==
  ASSUME TInv, FInv, [ApprovalNext]_allVars, NEW p \in Projects,
         Len(log'[p]) > Len(log[p]), EntersReview(Last(log'[p])), DefaultTemplates # {}
  PROVE  ActiveOf(p)' # {}
<1>0. log[p] \in Seq(LogEntry) /\ Len(log[p]) \in Nat
  BY LenProperties DEF TInv, TypeOK
<1>1. log'[p] # log[p] /\ log'[p] # <<>>
  BY <1>0, EmptySeq
<1>2. \A r \in Requests : ~Destroy(r) \/ log'[p] = log[p]
  BY <1>1, BusyRequest DEF Destroy, Busy, TInv, TypeOK
<1>3. PICK r \in Requests : CommitTransition(r)
  BY <1>1, <1>2
     DEF ApprovalNext, OtherProjectStep, Arrive, Create, Load, Elsewhere, WriteShared,
         LoseMember, Autocommitted, Update, Attach,
         Revise, Detach, WriteItem, BeginTransition, Begin, AbandonRequest, Abandon, children,
         ApproveEndpoint, ObserveEndpoint, RejectEndpoint, PostApproval, Endpoint, SetActive,
         ReplaceSteps, CreateStep, allVars, vars
<1>4. PICK q : q = req[r]
  OBVIOUS
<1>5. /\ q.project \in Projects /\ q.op \in Transitions /\ Entry(q) \in LogEntry
      /\ log' = [log EXCEPT ![q.project] = Append(log[q.project], Entry(q))]
  BY <1>3, <1>4, CommitEffect DEF CommitTransition
<1>6. q.project = p /\ log'[p] = Append(log[p], Entry(q))
  BY <1>1, <1>5 DEF TInv, TypeOK
<1>7. Last(log'[p]) = Entry(q)
  BY <1>0, <1>5, <1>6, Appending DEF Last
<1>8. q.seen.status \in Sources[q.op]
  <2>1. Accepted(q)
    BY <1>3, <1>4 DEF CommitTransition, Commit, Busy, TInv, RequestsSettled
  <2>2. q.op \notin {"update", "destroy", "admin_destroy"} \cup ItemOps
    BY <1>5 DEF Transitions, Sources, ItemOps
  <2> QED  BY <2>1, <2>2 DEF Accepted
<1>9. q.op \in CreatesInstance
  BY <1>5, <1>7, <1>8, EnteringCreates
<1>10. \E t \in DefaultTemplates : CreateInstance(p, t, q.seen.contents)
  BY <1>3, <1>4, <1>6, <1>9 DEF CommitTransition, Receive, CreatesInstance
<1> QED  BY <1>10, CreatedIsActive

\* A project enters review together with an active instance, when there is a
\* template for one (WF-002, WR-007).
THEOREM ReviewsHaveInstances == ApprovalSpec => ReviewHasInstance
<1>1. TInv /\ FInv /\ [ApprovalNext]_allVars =>
        [\A p \in Projects :
           Len(log'[p]) > Len(log[p]) /\ EntersReview(Last(log'[p])) /\ DefaultTemplates # {}
             => ActiveOf(p)' # {}]_allVars
  BY ReviewStep
<1>2. ApprovalSpec => []TInv
  BY ApprovalRefinesProjects, TInitially, TStep, PTL DEF Spec
<1> QED  BY <1>1, <1>2, FInvariance, PTL DEF ApprovalSpec, ReviewHasInstance
==============================================================================
