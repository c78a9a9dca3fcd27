------------------------------- MODULE Approval ------------------------------
(***************************************************************************)
(* The approval workflow composed with the projects component.             *)
(*                                                                         *)
(* Every project transition sends project_state_changed inside its         *)
(* transaction, and the receiver creates, advances, resets or closes the   *)
(* WorkflowInstance of the project there; an exception in it rolls the     *)
(* transition back.  The same instances are also driven by the workflow    *)
(* endpoints, which lock the instance row, do not look at its status and   *)
(* never touch the project.  Templates are edited meanwhile, one           *)
(* autocommitted statement at a time.                                      *)
(*                                                                         *)
(* The receiver reads the active instance without locking it and locks it  *)
(* by id afterwards: `found` is what it read.                              *)
(***************************************************************************)
EXTENDS Projects

Last(s) == s[Len(s)]

CONSTANTS Instances,     \* ids a workflow instance may get
          Templates,     \* workflow templates of the institution
          CenterScoped,  \* those bound to the center of the projects
          Editable,      \* bound: those administrators edit meanwhile
          MaxSteps,      \* bound: the order numbers of steps
          Complete,      \* contents with every field check_minimum_data wants
          NoInstance

ASSUME ApprovalAssumption ==
  /\ CenterScoped \subseteq Templates
  /\ Editable \subseteq Templates
  /\ MaxSteps \in Nat
  /\ Complete \subseteq Contents
  /\ NoInstance \notin Instances

VARIABLES
  templates,  \* is_active, orders of the WorkflowStep rows, of those a PATCH
              \* has still to insert, and (history) of those it inserted late
  instances,  \* project_workflow_workflowinstance
  found       \* the instance each transition's receiver has read

flow == <<templates, instances, found>>
allVars == <<vars, flow>>

\* Step 0 is NULL.  Of the action rows only the approvals are kept: `approved`
\* holds the steps with an APPROVE row since the instance was created or reset.
ActiveStatuses == {"pending", "observed"}
InstanceStatuses == ActiveStatuses \cup {"completed", "rejected", "cancelled"}
Orders == 1..MaxSteps
TemplateRow == [active : BOOLEAN, steps : SUBSET Orders, missing : SUBSET Orders,
                late : SUBSET Orders]
InstanceRow == [project : Projects, template : Templates, step : {0} \cup Orders,
                status : InstanceStatuses, approved : SUBSET Orders]
Absent == [status |-> "absent"]

FlowInit ==
  /\ templates \in [Templates -> {t \in TemplateRow : t.missing = {} /\ t.late = {}}]
  /\ instances = [i \in Instances |-> Absent]
  /\ found = [r \in Requests |-> NoInstance]

ApprovalInit == Init /\ FlowInit

------------------------------------------------------------------------------
Existing == {i \in Instances : instances[i] # Absent}

ActiveOf(p) ==
  {i \in Existing : instances[i].project = p /\ instances[i].status \in ActiveStatuses}

\* The partial unique index on project_id: the database refuses a second
\* active row, whichever statement would make it active.
NoUniqueIndex(i, w) == TRUE  \* wrong
UniqueActive(i, w) == w.status \in ActiveStatuses => ActiveOf(w.project) \subseteq {i}

Write(i, w) ==
  /\ UniqueActive(i, w)
  /\ instances' = [instances EXCEPT ![i] = w]

Steps(t) == templates[t].steps

\* The steps a service orders by; the first one is the one it takes.
Later(t, k) == {n \in Steps(t) : n > k}
Lowest(orders) == CHOOSE n \in orders : \A m \in orders : n <= m

\* get_default_template: active, center scoped if there is one, fewest steps.
DefaultTemplates ==
  LET active == {t \in Templates : templates[t].active}
      scoped == IF active \cap CenterScoped # {} THEN active \cap CenterScoped ELSE active
  IN {t \in scoped :
        \A u \in scoped : Cardinality(Steps(t)) <= Cardinality(Steps(u))}

\* The instance services.  `contents` is what check_minimum_data reads.
Created(p, t) ==
  [project |-> p, template |-> t, step |-> Lowest(Steps(t)),
   status |-> "pending", approved |-> {}]

AdvancedByOne(w) == [w EXCEPT !.step = @ + 1]  \* wrong: no look at the template

AdvancedUnrecorded(w) ==  \* wrong: no APPROVE row for the step being left
  LET later == Later(w.template, w.step)
  IN IF later = {}
     THEN [w EXCEPT !.status = "completed"]
     ELSE [w EXCEPT !.step = Lowest(later)]

Advanced(w) ==
  LET later == Later(w.template, w.step)
      approved == w.approved \cup {w.step}
  IN IF later = {}
     THEN [w EXCEPT !.status = "completed", !.approved = approved]
     ELSE [w EXCEPT !.step = Lowest(later), !.approved = approved]

AdvanceUnguarded(i, contents) ==  \* wrong: check_minimum_data forgotten
  instances[i].step # 0 /\ Write(i, Advanced(instances[i]))

Advance(i, contents) ==
  /\ contents \in Complete
  /\ instances[i].step # 0
  /\ Write(i, Advanced(instances[i]))

Reset(i) ==
  LET w == instances[i] IN
  /\ Steps(w.template) # {}
  /\ Write(i, [w EXCEPT !.step = Lowest(Steps(w.template)), !.status = "pending", !.approved = {}])

SetStatus(i, status) == Write(i, [instances[i] EXCEPT !.status = status])

Observe(i) == SetStatus(i, "observed")
Reject(i) == SetStatus(i, "rejected")
CancelInstance(i) == SetStatus(i, "cancelled")

\* create_instance, called with a template chosen by the receiver.
CreateInstanceIfReady(p, t, contents) ==  \* wrong: swallows the refusal
  IF contents \notin Complete \/ ActiveOf(p) # {} \/ Steps(t) = {}
  THEN UNCHANGED instances
  ELSE \E i \in Instances \ Existing : Write(i, Created(p, t))

CreateInstance(p, t, contents) ==
  /\ contents \in Complete
  /\ IF ActiveOf(p) # {}
     THEN UNCHANGED instances
     ELSE /\ Steps(t) # {}
          /\ \E i \in Instances \ Existing : Write(i, Created(p, t))

\* What the receiver does for each transition, before the commit.  Where it
\* raises, nothing is enabled and only Abandon is left.
CreatesInstance == {"submit", "accept_review"}
UsesInstance == {"resubmit", "approve", "observe", "reject", "cancel", "close"}

Receive(q, i) ==
  \/ /\ q.op \in CreatesInstance
     /\ IF DefaultTemplates = {}
        THEN UNCHANGED instances
        ELSE \E t \in DefaultTemplates : CreateInstance(q.project, t, q.seen.contents)
  \/ /\ i # NoInstance
     /\ \/ q.op = "resubmit" /\ Reset(i)
        \/ q.op = "approve" /\ Advance(i, q.seen.contents)
        \/ q.op = "observe" /\ Observe(i)
        \/ q.op = "reject" /\ Reject(i)
        \/ q.op \in {"cancel", "close"} /\ CancelInstance(i)
  \/ /\ q.op \notin CreatesInstance
     /\ q.op \in UsesInstance => i = NoInstance
     /\ UNCHANGED instances

------------------------------------------------------------------------------
(* Project requests, with the receiver inside the transition. *)

BeginTransition(r) ==
  /\ Begin(r)
  /\ LET active == ActiveOf(req[r].project) IN
     IF req[r].op \in UsesInstance /\ active # {}
     THEN \E i \in active : found' = [found EXCEPT ![r] = i]
     ELSE UNCHANGED found
  /\ UNCHANGED <<templates, instances>>

CommitTransition(r) ==
  /\ Commit(r)
  /\ Receive(req[r], found[r])
  /\ found' = [found EXCEPT ![r] = NoInstance]
  /\ UNCHANGED templates

AbandonRequest(r) ==
  /\ Abandon(r)
  /\ found' = [found EXCEPT ![r] = NoInstance]
  /\ UNCHANGED <<templates, instances>>

OtherProjectStep ==
  /\ Arrive \/ Elsewhere \/ \E r \in Requests : Autocommitted(r)
  /\ UNCHANGED flow

------------------------------------------------------------------------------
(* The workflow endpoints: one locking transaction each. *)

Endpoint(i) == i \in Existing /\ UNCHANGED <<vars, templates, found>>

ApproveEndpoint(i) ==
  /\ Endpoint(i)
  /\ row[instances[i].project] # NoRow
  /\ Advance(i, row[instances[i].project].contents)

ObserveEndpoint(i) == Endpoint(i) /\ Observe(i)

RejectEndpoint(i) == Endpoint(i) /\ Reject(i)

\* POST /instances/{id}/actions/ writes an action row of any type for the
\* current step and nothing else; of those an approval is what is tracked.
PostApproval(i) ==
  /\ Endpoint(i)
  /\ instances[i].step # 0
  /\ instances' = [instances EXCEPT ![i].approved = @ \cup {instances[i].step}]

------------------------------------------------------------------------------
(* Template administration. *)

SetActive(t) ==
  /\ templates' = [templates EXCEPT ![t].active = ~@]
  /\ UNCHANGED <<vars, instances, found>>

\* A PATCH with steps deletes the old ones, which sets every reference to NULL,
ReplaceSteps(t, orders) ==
  /\ templates' = [templates EXCEPT ![t].steps = {}, ![t].missing = orders,
                                    ![t].late = {}]
  /\ instances' = [i \in Instances |->
       IF i \in Existing /\ instances[i].template = t
       THEN [instances[i] EXCEPT !.step = 0, !.approved = {}]
       ELSE instances[i]]
  /\ UNCHANGED <<vars, found>>

\* and then creates the new ones, one INSERT each in the order of the payload.
CreateStep(t, n) ==
  /\ n \in templates[t].missing
  /\ templates' = [templates EXCEPT
       ![t].steps = @ \cup {n},
       ![t].missing = @ \ {n},
       ![t].late = IF Later(t, n) = {} THEN @ ELSE @ \cup {n}]
  /\ UNCHANGED <<vars, instances, found>>

ApprovalNext ==
  \/ OtherProjectStep
  \/ \E r \in Requests :
       BeginTransition(r) \/ CommitTransition(r) \/ AbandonRequest(r)
  \/ \E i \in Instances :
       ApproveEndpoint(i) \/ ObserveEndpoint(i) \/ RejectEndpoint(i) \/ PostApproval(i)
  \/ \E t \in Editable :
       \/ SetActive(t)
       \/ \E orders \in SUBSET Orders : ReplaceSteps(t, orders)
       \/ \E n \in Orders : CreateStep(t, n)

ApprovalSpec == ApprovalInit /\ [][ApprovalNext]_allVars

------------------------------------------------------------------------------
(* Properties. *)

FlowTypeOK ==
  /\ templates \in [Templates -> TemplateRow]
  /\ instances \in [Instances -> InstanceRow \cup {Absent}]
  /\ found \in [Requests -> Instances \cup {NoInstance}]

\* WR-001: at most one active instance per project, whoever created,
\* reset or reopened one.
OneActiveInstance == \A p \in Projects : Cardinality(ActiveOf(p)) <= 1

\* An instance stands at a step only after every earlier step of its template
\* was approved since the instance was created or reset; only a step that a
\* PATCH inserted after a higher one can have been skipped.
Skippable(w) == templates[w.template].late

StepsApprovedInOrder ==
  \A i \in Existing :
    LET w == instances[i] IN
    {k \in Steps(w.template) : k < w.step} \subseteq w.approved \cup Skippable(w)

\* WF-003 and WR-004: an instance becomes completed only at the last step of
\* its template, with every step approved, for a project that exists with all
\* its minimum data.
CompletionIsEarned ==
  [][\A i \in Existing :
       instances'[i].status = "completed" /\ instances[i].status # "completed" =>
         LET w == instances'[i] IN
         /\ Later(w.template, w.step) = {}
         /\ Steps(w.template) \subseteq w.approved \cup Skippable(w)
         /\ row'[w.project] # NoRow /\ row'[w.project].contents \in Complete]_allVars

\* WF-002, WR-007: a project that enters review with a template in force has
\* an active instance in the same step, or the transition is rolled back.
EntersReview(entry) ==
  entry.to \in {"enviado", "en_revision"} /\ entry.from # "observado"

ReviewHasInstance ==
  [][\A p \in Projects :
       Len(log'[p]) > Len(log[p]) /\ EntersReview(Last(log'[p])) /\ DefaultTemplates # {}
         => ActiveOf(p)' # {}]_allVars

------------------------------------------------------------------------------
(* What the documentation promises and the code does not keep. *)

\* FSM integration: "Terminal states -> cancel_instance if still active", so a
\* project in a terminal state has no active instance.  The endpoints do not
\* look at the status of the instance and reopen a cancelled one.
EndedHasNoActiveInstance ==
  \A p \in Projects : Ended(p) /\ row[p] # NoRow => ActiveOf(p) = {}

\* WF-002: submitting a draft leaves an instance in "pending".  A project that
\* was observed and returned to draft keeps its observed instance.
SubmitYieldsPending ==
  [][\A p \in Projects :
       /\ Len(log'[p]) > Len(log[p])
       /\ Last(log'[p]) = [from |-> "borrador", to |-> "enviado"]
       /\ DefaultTemplates # {}
       => \E i \in ActiveOf(p)' : instances'[i].status = "pending"]_allVars
==============================================================================
