# SIGPI: specifications, model checking and proofs

SIGPI is the research project management system of a university: a Django
application over PostgreSQL with a REST API, Celery tasks, MinIO for files and
Meilisearch for search. This directory holds TLA+ specifications of its core,
the TLC configurations that check them on small instances, and proofs that the
TLA+ proof system checks for instances of every size. Paths below are relative
to `src/backend/`.

    tlc -workers 2 -config MCProjects_concurrent.cfg MCProjects.tla
    tlc -workers 2 -config MCDelivery.cfg MCDelivery.tla
    tlapm Projects_proofs.tla

## 1. The system

### Components

| component | state | operations | depends on |
|---|---|---|---|
| projects (`apps/projects`) | project row with an FSM status; state log; observations; members; documents | create, update, delete, 14 transitions, members and documents | sends `project_state_changed` in every transition |
| project_workflow (`apps/project_workflow`) | templates with ordered steps; one instance per round of approval; action rows | receiver of the signal; approve, observe, reject and action endpoints; template administration | reads the project row; never writes it |
| progress (`apps/progress`) | progress report with an FSM status; reviews; log | create, update, delete, 9 transitions, documents | writes `cumulative_progress` of the project; signal to notifications |
| calls (`apps/calls`) | call with an FSM status; documents; links to projects; log | 5 transitions under a row lock, link, unlink | projects |
| budgets (`apps/budgets`) | budgets, lines, executions | create, update, delete, execute against a line (RN-020) | projects; signal on an overrun attempt |
| documents (`apps/documents`) | documents, versions, signatures, minutes; objects in MinIO | presign, confirm, sign | storage; signal to notifications |
| reports (`apps/reports`) | reports and their approvals | generate, approve (RN-017, RN-018) | progress, projects |
| notifications (`apps/notifications`) | in-app rows, delivery log | receivers inside the sender's transaction, e-mail task with retries, clean-up task | signals of projects, progress, documents, budgets |
| search (`apps/search`) | external index | index and delete tasks enqueued on commit | every indexed model |
| institutions (`apps/institutions`) | hierarchy of units with an FSM status | create, update, delete; activate, deactivate, archive | |
| researchers (`apps/researchers`) | profiles, affiliations | create, update, delete; add, remove, set primary | institutions |
| tenant context (`config/`) | tenant of the request and settings of the pooled connection | activate, clear, nested contexts, reconnect | every query, through row level security |
| accounts (`apps/accounts`) | users, memberships, sessions | local and OIDC login, switch of institution, logout | tenant context |
| audit, products, dashboard, frontend | append-only events; a catalogue; none; none | | |

`PROJECT.json` lists for each component its sources, its status and what is
left out, and every hazard with its line and the properties that cover it.

### How the components interact, and what is hard

The application server runs many requests at a time and `ATOMIC_REQUESTS` is
off, so every statement outside an explicit `transaction.atomic()` commits on
its own. Four habits of the code make its correctness a matter of
interleavings:

1. *Check in memory, write the row.* A view loads an object, django-fsm and the
   services check that object, and `save()` writes every column back. Nothing
   locks or re-reads the row (projects, progress, institutions), or only the
   write is locked and the check is not (calls, documents).
2. *A transition is a transaction with receivers in it.* The workflow, the
   notifications and the audit run synchronously inside the transition of a
   project. An exception of the workflow takes the transition back; an
   exception of the notifications is swallowed.
3. *Two drivers of one state.* A workflow instance is advanced by the project's
   transitions and by its own endpoints, which look at neither the project's
   status nor their own. Templates are rewritten under the instances.
4. *Side effects after the commit* (e-mail, index) that may be lost, repeated
   or reordered.
5. *Isolation by the connection.* Which institution a statement reaches is
   decided by settings of a pooled connection that every request has to write
   and reset, and several checks rely on what those settings hide.

What makes each component correct:

* projects: the log accounts for the status, its entries are edges that chain,
  observations match the log, a deleted project leaves nothing behind, a closed
  one is changed only by requests that held it open and, in the columns they
  write, by other components (progress, group, line, members); and, when requests
  do not overlap, exactly the state machine of the documentation (RF-035, RN-011,
  RN-012, RN-014).
* project_workflow: at most one active instance per project (WR-001), no step
  skipped, completion earned by all approvals and by the minimum data (WF-003,
  WR-004), a project in review has an instance or its transition is rolled back
  (WF-002, WR-007).
* progress: the log names edges and people the code lets take them (any member of
  the project counts as the author), a logged decision has its review and a logged
  approval was written to the project, the project's cumulative progress was
  approved, submitted evidence is frozen. calls: a logged transition is an edge,
  and left the state the log names unless the call changed between the load and
  the lock; only a call that was opened gets links, and a project competes in one.
  budgets: only authorised executions exceed a line that no PATCH edited and whose
  authorisers stay (RN-020). documents: a signature vouches for bytes that were
  stored, a version is recorded only over an object that was put and never
  rewritten, a signed document is kept and its minutes are not changed in place
  (RF-066). reports: never approved without the record (RN-018).
* notifications and search: but for data joined from other rows, the index is
  behind the tables only while a task is on its way; a notification is mailed once
  and its mail ends sent, given up or excused.
* tenant context and accounts: no statement reaches an institution its user does
  not belong to, whatever failed before on the connection; one primary
  membership. institutions and researchers: rows refer to rows of their own
  institution, but for what superusers write past the checks.

## 2. Modules

| module | what it is |
|---|---|
| `ProjectStates` | statuses, sources and targets of the transitions (`apps/projects/models.py`) |
| `ProjectRecord` | abstract specification: what the projects component promises, one step at a time |
| `Projects` | the component under concurrent requests |
| `Projects_proofs` | its theorems |
| `Approval` | the workflow, composed with `Projects` by EXTENDS |
| `Approval_proofs` | the theorems of the composition |
| `Progress` | progress reports and the project row they write to |
| `Reports` | institutional reports and their approval, composed with `Progress` by EXTENDS |
| `Reports_proofs` | the theorems of both |
| `Calls`, `Budgets`, `Documents` | one component each |
| `Calls_proofs`, `Budgets_proofs`, `Documents_proofs` | their theorems |
| `Delivery` | notifications and search: what happens after a commit |
| `Delivery_proofs` | its theorems |
| `RowSecurity` | the policies of row level security |
| `Tenancy` | tenant context, sessions, logins and memberships, over `RowSecurity` |
| `Organisation` | institutional units and researchers, over `RowSecurity` |
| `Tenancy_proofs` | the theorems of `Tenancy` and of `Organisation` |
| `MCProjects`, `MCApproval`, `MCReports`, `MCCalls`, `MCBudgets`, `MCDocuments`, `MCDelivery` | symmetry sets for TLC |
| `MCTenancy` | `Tenancy` and `Organisation` as a sum |

An operator followed by `\* wrong` is a plausible wrong version of the one it
stands before; no specification uses it.

### Projects

| in the model | in the code |
|---|---|
| `row`, `log`, `observations`, `attached` | tables `projects_project`, `_projectstatelog`, `_projectobservation`, `_projectmember` and `_projectdocument` |
| `req[r]`: `seen`, phase `loaded` / `locked` | the object `get_object()` returned to a request; before and after its transaction has updated the row |
| `Load` | `get_object()` and the checks made on it: django-fsm's sources, `_validate_not_terminal`, the draft rule of `perform_destroy` |
| `Begin` | `transaction.atomic()` and the UPDATE of `save()`, which waits for the row lock |
| `Commit` | the rest of the transaction: log entry, observation, receivers, COMMIT |
| `Update`, `Destroy`, `Attach`, `Revise`, `Detach` | the requests that autocommit |
| `Abandon` | an error anywhere before the commit, or the death of the worker |
| `opened`, `destroyed` | history variables; ids are UUIDs and are never reused |

Three facts of the code shape this module. `Project.save()` names no
`update_fields`, so it writes back everything the request saw, and inserts the
row again if it was deleted meanwhile (`Commit` and `Update` do not require the
row to exist). The checks read the object in memory, so their outcome is fixed
at `Load`; a refused request changes nothing and is not modelled. A transition
holds the row lock from its UPDATE to its COMMIT (`RowFree`), and what it did
becomes visible at `Commit`, which is therefore where the row changes.

The columns only requests on the project write are one value of `Contents`;
`actual_end_date` is kept apart because `finalize` writes it. Those that other
components write as well are one value of `Shared`: `cumulative_progress`, which
the approval of a progress report saves without a look at the project's state
(`apps/progress/services.py:143`), and the group and line, set to NULL when they
are deleted. `Elsewhere` is these writes and the loss of a member whose
researcher is deleted; a stale `save()` of the projects component writes an old
`shared` back like everything else. Observations are a count. Permissions,
filters, and the uniqueness of members are left out: they only remove requests.

### Approval

`CommitTransition` is `Commit` conjoined with `Receive`, the receiver
`on_project_state_change`: there is no state in which the transition is
committed and its receiver has not run. Where the receiver raises (no minimum
data, template without steps, a second active instance refused by the index),
`Receive` is disabled and only `AbandonRequest` remains: the rollback. The
receiver first reads the active instance without a lock and acts on its id
later; `found` is what it read at `BeginTransition`, and every endpoint may run
in between. A PATCH of a template is `ReplaceSteps` (the DELETE, which sets
`current_step` and the step of the action rows to NULL) and one `CreateStep` per
INSERT, in any order and not necessarily all of them: without a transaction each
commits alone. `UniqueActive` is the partial unique index; PostgreSQL checks it
on every statement. When several default templates have as few steps, the query
orders them by nothing further and the choice is nondeterministic.

`approved` keeps, for an instance, the steps with an APPROVE row since its
creation or last reset; `late` keeps, for a template, the steps inserted after a
higher one. Both are read by properties only. `WorkflowInstance.project_id` is a
plain UUID, so instances outlive a deleted project, here as in the code.

Bounds on the model: `MaxLog` (entries in a log plus requests that may add one),
`MaxSteps` (order numbers of steps), `Instances` (rows that may be created),
`Editable` (templates that administrators edit).

### Progress and Reports

`advance`, `log`, `reviews`, `documents` are the tables of `apps/progress`; of
the project row the model has where it stands and `cumulative_progress`. There
is no transaction in `ProgressService`: `Save`, then `UpdateProject` or
`Review`, then `LogTransition` are steps of their own, any other request may run
between two of them, and `Abandon` is the failure or death that leaves the rest
undone. `Load` is `get_object()` with the permissions (`Permitted`) and the
guards (`Accepted`) on the object in memory, `by` the role the request has:
creator, another member of the project, director of its center, admin. The code
lets any member do what the creator may (`Authors`).
`approve()` reads the percentage from the report in memory and writes one column
of the project; the projects component writes them all (`LoadProject`,
`SaveProject`). `granted` keeps what was approved, and `orphaned` the reports that
were deleted while a request had written its review and not yet its log entry: a
third request that still holds the object may insert the row again, but the
review the cascade took with it is gone. `counted` keeps the reports whose
approval reached the project.

`Reports` adds `issued`, the rows of `reports_report` in the order of their
creation, and the approval view: find the newest or issue a draft, the guard,
the approval record, the status.

### Calls

A transition is one transaction that locks the row and checks it there
(`Transition`); its `from_state` was read before (`seen`). Everything else
checks the loaded call and writes later, `Update` with all columns. A deletion
and a link have a second check, `Validate` (no linked projects; `full_clean()`),
before the write, and the link a third in the database (`Insertable`). `logged`
is the entry the last step wrote, if it wrote one: `LoggedAsTaken` is about that
step. `Overtake`, conjoined with every step, keeps in `overtaken` the requests
whose call has changed its status since they loaded it: the origin a transition
logs may be wrong for those, and for those only.

### Budgets

`LockAndSum` and `Record` are the transaction of `add_execution()`, with `lock`
as the row lock of the line; a deletion waits for it, a PATCH of the line too,
the PATCH of an execution does not. `Load`, `SaveBudget`, `SaveLine` and
`SaveExecution` are the generic PATCH; `edited` remembers the lines it touched,
because it writes amounts RN-020 never sees. `DeleteUser` sets `authorized_by`
of any set of executions to NULL, and puts their lines into `edited`: an overrun
that somebody authorised has no authorisation any more. Amounts are a few
integers in the unit that matters: the rule only adds and compares.

### Documents

`store` changes on its own: whoever has a presigned URL may put anything under
its key at any time (`PutObject`, external), whatever became of the document.
`confirm()` is `BeginConfirm`, `FindObject` (the query to MinIO),
`InsertVersion`; `sign()` is `BeginSign`, `VerifyObject`, `CreateSignature`; a
PATCH is `LoadDocument`, `CleanDocument`, `SaveDocument`; minutes likewise. A
hash is the content it is the hash of. A key names an object, `<<document,
number>>` of the one it was issued for. `confirm()` compares only the beginning
of the key the client sends (`apps/documents/services.py:216`) and the storage
resolves `..` in the rest, so `BeginConfirm` takes any object of the bucket. A
document that was deleted alone is inserted again by a late `save()`
(`Deleted`), unless what it belongs to is gone (`Bereft`, `DeleteOwner`).
`Erase` is the cascade; it ends the requests that were about to sign, whose
foreign key would refuse them. Minutes are rows of their own: a PATCH may name
another document, and `MinutesClean` looks at that one only, as
`Minutes.clean()` does. File names and sizes are left out: they are in the key
and in no check. The two flags are apart as in the code: `is_signed` of the row,
and whether a version has a signature.

### Delivery

| in the model | in the code |
|---|---|
| `sender` | a request in its transaction, then its `on_commit` callbacks one by one |
| `queue`, `worker` | the broker and the Celery workers, which acknowledge a task when they receive it |
| `ReadRow`, `ChangeIndex`, `ClientFails` | `index_document`, `delete_document` |
| `OpenLog`, `Mail`, `LogSent`, `LogFailed`, `Skip` | `dispatch_notification` |
| `HookFails`, `SenderDies`, `WorkerDies`, `DeliverAgain` | faults: broker refuses, process dies, task redelivered |
| `StartReindex`, `FinishReindex` | the command `reindex_search` |
| `Purge`, `PurgeLog` | `cleanup_old_notifications`; the retention windows are left out |

A task that runs out of retries is dropped. `excused` collects the objects and
notifications whose task was lost, skipped by opting out, or ran beside another
one: for those the code promises nothing, and `StaleIsPending` and `MailSettles`
exempt exactly them. It is emptied for an object when a write finds nothing
under way, because then the next index task repairs whatever was wrong.
`ChangeJoined` is the change of a row an indexed document joins: the primary
affiliation of a researcher (`apps/search/indexers.py:84-90,111-118`), the title
of an advance's project (164). The receivers (`apps/search/signals.py:70-147`)
enqueue nothing for the document then, so it is stale until the object is
written or all are reindexed, and excused.

### Tenancy, RowSecurity and Organisation

`context` is the ContextVar of a worker, `guc` the three settings of its
connection; `apply_to()` writes them one after the other, so a failure leaves
any prefix (`PartlyApplied`). `clear()` and the end of `tenant_context()` swallow
their failures; `Reconnect` opens the connection anew and applies the context.
`job` is the request or task of a worker with what it has read so far: between
two of its steps the session, the memberships and the connection may change.
`InReach` and `MembershipVisible` are the policies; `CleanFor` is the check for a
second primary membership, made on the rows the settings let through. The Django
admin writes any membership that check accepts.

`Organisation` has one row per unit, researcher or affiliation with its
institution and the rows it refers to. `Prepare` is the request up to its
validation, `Save` the statement later; only affiliations compare institutions
(`Clean`), the others rely on `Visible`. Superusers see every row, so the
optional parents of what they write are not local; `bypassed` marks those rows.
An affiliation has no institution of its own: its policy goes through the
researcher, so it follows when the researcher moves (`Follow`), stored or yet to
be saved. `AdminSave` is the change form of the Django admin, which may choose
every reference and the institution anew and compares them for the row of the form
alone; `moved` marks the rows that changed their institution there and left what
is below them behind.

## 3. Runs

| run | instance | shows |
|---|---|---|
| `projects` (`MCProjects_concurrent.cfg`) | one project, two requests, one item that is a member, two values of the shared columns, `MaxLog` 3; about 1.24 million states | the six properties that survive any interleaving of stale requests |
| `serial` (`MCProjects_serial.cfg`) | one request, two end dates, two values of the shared columns, `MaxLog` 7; about 6 200 states | without overlap the component implements `ProjectRecord` |
| `approval` (`MCApproval_flow.cfg`) | one project, one request, two instances, one edited template of up to two steps, full and blank contents, two values of the shared columns, `MaxLog` 5; about 970 000 states | the workflow properties against receivers, endpoints, template edits and rollbacks |
| `reports` (`MCReports.cfg`) | one progress report, two requests of a member or the director, one document, one percentage, one institutional report, one log entry and one review of each kind, the project in execution; about 1.67 million states | the log, reviews, progress, evidence and approvals of `Progress` and `Reports` without transactions |
| `calls` (`MCCalls.cfg`) | two calls, one project, one document, two requests; about 740 000 states | logging under the lock, links, the archive |
| `budgets` (`MCBudgets.cfg`) | one project, two budgets, one line, two executions, amounts 0 to 2, two requests; about 323 000 states | RN-020 and the locks |
| `documents` (`MCDocuments.cfg`) | two documents of up to two versions, one row of minutes, two contents, one title (what a stale PATCH puts back that matters is `is_signed`), one object, that of the first version of one document (`OneObject`), two requests; about 1.5 million states | signatures, versions, immutability |
| `delivery` (`MCDelivery.cfg`) | one object, one notification, two workers, one retry, two writes, one redelivery; about 573 000 states | convergence of the index, one mail, and that it settles |
| `tenancy` (`MCTenancy.cfg`) | two institutions, a member and a superuser, one session, two workers, one fault; a sede, center, group, researcher and affiliation, two requests, one row moved; about 880 000 states | isolation, primary memberships, local parents |
| `terminal` | two requests, `MaxLog` 3 | finding 1 |
| `reopened`, `pending` | as `approval` | findings 2 and 3 |

Why these bounds. One project or line: no action relates two of them and every
property quantifies over them one at a time; two calls and two budgets, because
a project has one at most; two documents, because a confirmation may name the
object of the other and minutes may move to it. Two requests: a check made on
one object can be invalidated by one other request; where a third matters
(`ReviewsPrecedeLog`, section 4) the theorem is for any number. `MaxLog` 3 lets
two requests race after a legal step and commit both, and a lone one reach
`observado`; `MaxLog` 7 reaches every state of the FSM in the serial run, and
`MaxLog` 5 lets an observed project be submitted again and reviewed again. Two
values of the shared columns tell a write from none. One object in `documents`
keeps the run small: whoever confirms records it, for a version of its own
document or of the other, and what matters then, that somebody put bytes under
it and may replace them, is the same for every object. Two instances are enough
for a second active one; two steps for one to be skipped. One request in the
`approval` run: a transition holds the row lock while its receiver runs, so two
receivers of one project never overlap; what overlaps is an endpoint or a
template edit. `reports`: one percentage tells a granted from an ungranted one,
and a sum from the value; one log entry and one review, because both properties
compare single entries; what the bounds stop may stop there anyway (`Abandon`).
The project stays in execution (`Stages`): its stage is looked at only when a
report is created, which execution always allows, so what a cancelled project
permits is among the behaviours checked. The theorems are for both stages.
Amounts 0 to 2 reach a line exactly, by one, and by two. Two versions: two
confirmations race for each number and the second follows the first. `delivery`
has one retry where the code has three: the first and the last attempt. One
fault in `tenancy`: every failure is followed by requests without one, which is
when it would show. The admin writes every form of a membership but the one that
is neither primary nor active (`Forms`): to isolation it is as good as an
inactive primary one, to the rule on primaries as good as an active other one.
The theorems have all four. No facultad and no line in `tenancy`, for size: a
facultad refers to a sede as a center does, a line to its group as a group to
its center, and only the cascade over two levels is not reached; one row moved,
because each parent relates two rows. The theorems have all five kinds and any
number of moves. Two workers cannot share a connection; they meet in sessions
and memberships.

`MCTenancy` takes the steps of `Tenancy` or of `Organisation`, never of both in
one behaviour. They meet only in the settings a request runs with: `Tenancy`
says which these may be and `Organisation` takes all of them as its input
(`Settings`), so nothing is lost and the states add instead of multiplying.

`CHECK_DEADLOCK FALSE` is set where the bounded system may stop: ids are used
once, versions and writes run out. The `MCApproval` runs and `MCTenancy` check
deadlock. Symmetry permutes ids nothing orders; `MCDelivery`, which checks a
liveness property, has none.

*Fairness and liveness.* `Delivery` is the component with a promise of eventual
progress. Its fairness: a request ends its transaction and runs its callbacks
(`WF(Send)`; the death of the process is an alternative, not a stop), some worker
takes what is queued (`WF(Deliver)`), and every worker goes on with what it began
(`WF(Work(w))`). That is Celery's: prefork workers that consume the queue, tasks
that run to their end or die with the worker. Nothing is assumed of writes, of
purging, of reindexing or of the mail server: a mail that always fails ends as
`failed` after its last retry. Elsewhere requests may be abandoned at any point,
the code neither retries them nor waits for anything but row locks, which a
worker's death releases, so there is no such promise to check.

Every property of a passing run has a mutant, a plausible wrong version of one
definition, under which TLC finds it violated.

## 4. Proofs

`Projects_proofs` proves for any sets of projects, requests, items and contents
and any `MaxLog`, from `ProjectsAssumption` alone:

* `TypeCorrectness`, `StatusIsAccountedFor`, `HistoryIsGrounded`,
  `ObservationsMatch`, `NothingOutlives`, `ClosedStaysClosed`: the six
  properties of the run `projects`;
* `SerialRefinement`: if there is at most one request, `Spec` implements
  `ProjectRecord`, by the mapping `status[p] <- "none"` where there is no row.

The invariants the runs check are not inductive. `TInv` adds to `TypeOK` that a
request in flight has passed its checks on what it saw, that a locked one is a
transition, and that only opened ids have rows or requests. `GInv` adds
`StatusAccountedFor` and `HistoryGrounded` together: a stale write puts an old
status back, which is accounted for only because what the *request* saw was
accounted for, and stays so because logs grow until the project is deleted; an
entry is grounded because its `from` is what the request saw. `SerialRefinement`
rests on `SeenIsCurrent`, which holds of a lone request only; the assumption is
what the code would have to enforce by a lock or a version column, and the
violation run `terminal` shows that it does not. `ObservationsMatch` uses the
cardinality of finite index sets; `ClosedStaysClosed` is an action property and
follows from the type invariant, because a request that is neither refused nor
open cannot write; what is left are `Elsewhere`, which changes the shared columns
and the members only, and the deletion.

`Approval_proofs` proves:

* `ApprovalRefinesProjects`: `ApprovalSpec => Spec`. The composition constrains
  the component and adds no behaviour to it, so every theorem above holds of it;
* `FlowTypeCorrectness`, `AtMostOneActive`, `ApprovedInOrder`, for any number of
  requests, instances, templates and steps. The invariant `FInv` has the types,
  `Sound` (the approvals an instance needs, per instance), uniqueness of the
  active instance, and that an instance a receiver has found exists, as
  instances are never deleted. That the step a service moves to is the lowest of
  a non-empty set of orders rests on well-founded induction over the naturals;
* `CompletionsAreEarned` and `ReviewsHaveInstances`. The receiver completes an
  instance it found before, and checks the minimum data of the project whose row
  it locked. These are the same project only because of `FoundOwn`: what a
  locked transition found belongs to its project, and an instance never changes
  its project. With one request, as in the run, that is hardly in question; the
  theorem is for any number.

`Reports_proofs` proves the seven properties of the run `reports` over
`ReportsSpec`. Nothing in these components is locked, so `RInv` says what a
request carries: it passed its guards (`HonestTransition`), a percentage it has
saved as approved is in `granted`, what it saw of the project was granted
(`HonestProject`), the institutional report it found exists and has its record
once the request signed (`HonestApproval`); and `RoomLeft` bounds what may still
be issued. `ReviewsPrecedeLog` needs a count on top: `LogBacked` says that log
entries *and the requests that recorded their review and have not logged yet*
are together no more than the reviews. Set aside are reports in `orphaned`, and
the attempt to prove it without them is how the race came to light: it takes
three requests, one more than the run has. One holds the draft for a deletion,
one holds it for any write, one records an observation; the deletion takes the
review, the write inserts the row again, and the observation is logged.
`LoggedApprovalsAreCounted` needs no count: a request that is about to log an
approval has told the project, and a report leaves `counted` only when its id is
created, which happens while no request is on it.

`Calls_proofs`: types, `LinkedCallsWereOpened`, `LogFollowsEdges`,
`ArchivedStaysFinal`, from `CInv`: a request has passed its check on what it saw
(`RequestsAccepted`), what it saw as opened was opened (`OpenedBefore`), a call
that is gone has no links (`GoneUnlinked`), and a request nothing overtook sees
what the database holds (`FreshSees`), which is when the logged origin is right.

`Documents_proofs`: types, `SignaturesVouch`, `VersionsStayAsUploaded`,
`SignedDocumentsStay`. `DInv` adds that whatever the store holds was put there
(`StoreWasPut`) and that the hash a request is about to write, in a version or a
signature, is of bytes put under its key (`RequestsSound`): the object may be
replaced between the check and the write, but `put` remembers what was there.
None of it needs the key to be one that was issued for the version.
`SignedDocumentsStay` says what the checks keep: minutes may leave a signed
document and documents may go with what they belong to, but nothing enters or
changes there unless its check came before the signature.

`Tenancy_proofs`: types, `TenantsAreIsolated` and `PrimaryIsUnique` over
`TenancySpec`, types and `ParentsStayLocal` over `OrganisationSpec`, each for any
number of institutions, users, workers and faults. The run checks the sum of the
two (`MCTenancy`); its behaviours are theirs, so the theorems are about the
specifications themselves. `TenancyInv` says, phase by phase, which of the three
settings a connection may have while a job is at work on it (`JobsSound`; nothing
is known of them in the others, whatever failed); `PrimaryIsUnique` needs in
addition that what `clean()` found still holds when the membership is inserted
(`CheckedIsClean`). In `OInv` the point is that a parent a request chose is looked
at again only by the foreign key, when others may have deleted it and a late
`save()` may have brought it back: `OneInstitution` says that it does so in the
institution it had, as seen by the tables and by every request in flight, for
every row no superuser moved (affiliations have their researcher's), and
`WritesAreLocal` that a pending write refers to rows known there. Every write goes
through `Store`, so `StoreStep` proves once what a new row must satisfy for the
invariant to hold, and the steps of `Save` and `AdminSave` only show that.

`Delivery_proofs`: types, `MailsLeaveOnce`, `IndexCatchesUp` from `DlvInv`.
`MailsLeaveOnce` is an argument about tokens (`MailBudget`): for each
notification, the mails sent, the tasks queued, the workers that carry one and
the callback still to run are together at most one plus the redeliveries.
`IndexCatchesUp` is an argument about freshness (`Fresh`): whoever writes the
index next has the current row in hand or is followed by a task that will read
it, and no two tasks of an object run beside each other unless it is excused, as
is one whose joined rows changed. The proof needs the sentinels of the constants
to differ from each other and from the values, which `DeliveryAssumption` now
says; the code uses `None` and tables of their own.

`Budgets_proofs`: types and `UnauthorizedStaysWithin`. A request holds the lock
of its line from `LockAndSum` to `Record`, and `SumCovers` says that meanwhile
the unauthorised executions of the line stay within the sum it computed; PATCHes
and the deletion of an authoriser, which would break this, put the line into
`edited`, and other deletions only lower it. That finitely many executions are
stored is part of the invariant, not an assumption. Sums over a set of rows are
folds, so the module first proves what a sum of naturals does when an element is
added, changed or taken out (`TotalTakes`, `TotalSame`, `TotalMonotone`), by
taking a smallest counterexample.

Only model-checked: `MailSettles` (liveness under fairness) and the deadlock
checks, which are beyond this prover, as ENABLED is. What recursive definitions
compute would be, too; there are none. Every invariant and every action property
of a passing run is a theorem; `ImplementsRecord` is one under the assumption of
a single request, which is also what its run checks. Not proved of the code as
it is, because they are false of it, are the three findings below.

## 5. Findings

1. *A terminal state is left* (`terminal`). `models.py:64` says "Terminal states
   — no outbound transitions allowed." A request that loaded the project before
   it was cancelled writes its old status, or another target, over it.
2. *A closed instance is reopened* (`reopened`). The endpoint `observe` sets the
   status whatever it was; the specification wants no active instance once the
   project is in a terminal state.
3. *A submission without a pending instance* (`pending`). A project observed and
   returned to draft keeps its observed instance; the next submission finds it
   active and creates none.

Also noticed, with no run of their own:

* projects: a closed project is still written: `ProgressService.approve()` saves
  `cumulative_progress` whatever the project's state
  (`apps/progress/services.py:143-145`; the check at 29-45 is made on creation
  alone), groups and lines that are deleted set its columns to NULL, and a
  researcher that is deleted takes his memberships. A stale `update()` changes
  the status without a log entry (RN-012 says every change is logged), and
  `finalize` accepts a missing `actual_end_date`
  (`openspec/specs/projects/spec.md`).
* project_workflow: `POST .../actions/` records an action row of type `approve`
  without `check_minimum_data()` (`apps/project_workflow/views.py:227`), although
  "Minimum-data guard MUST pass before `approve` action is recorded."
  (`openspec/specs/project_workflow/spec.md:29`).
* progress: only `created_by` or an Admin may resubmit, or return a rejected
  report to draft (`openspec/specs/advances/spec.md:65,67,98`; "403 — only
  created_by or Admin can resubmit" for another member, 269), but
  `IsProgressCreatorOrProjectMember` lets every member of the project
  (`apps/progress/permissions.py:58-67`); `LogIsTruthful` counts members as
  authors, as the code does. "`aprobado` IS terminal for the advance lifecycle"
  (RN-P07, spec.md:33; `apps/progress/models.py:52`) holds only of the object in
  memory: a transition or a PATCH of a request that loaded the report before
  saves its status over an approved row. A crash after the report is saved as
  approved, or a project request that loaded the row before, leaves an approved
  report the project does not count. The comments of `_log_transition` speak of
  the sender's transaction; there is none. "403 — only borrador advances can be
  deleted" (`openspec/specs/advances/spec.md:268`), but `delete()` looks at the
  report the request loaded as a draft: the row may have been submitted or
  observed since, and goes with its reviews and its log.
* calls: a PATCH that loaded an archived call earlier reopens it. `from_state`
  is read before the lock (`apps/calls/services.py:99`), so the log, the signal
  and the audit event name an origin the call had left when another request
  changed it in between; the transition itself is checked on the locked row.
* reports: RN-017 ("Pending Advances Guard", `openspec/specs/reports/spec.md:110`)
  is a query before the approval record is written
  (`apps/reports/services.py:385`): a report submitted in between is pending under
  an approved institutional report.
* budgets: PATCH and DELETE of lines and executions go past `BudgetService`,
  although `apps/budgets/views.py:16` says "All mutations delegate to
  BudgetService". A PATCH may therefore exceed RN-020. Deleting a user sets
  `authorized_by` to NULL (`apps/budgets/models.py:201-207`), which leaves the
  overruns he authorised without an authorisation.
* documents: `confirm()` accepts any key that begins like the next one
  (`apps/documents/services.py:216`), and with `..` in the rest a version
  records another object of the bucket; the specification answers 409 to a key
  that was not issued (`openspec/specs/documents/spec.md:45,215`). A PATCH moves
  minutes off a signed document (`MinutesSerializer` leaves `document` writable,
  `Minutes.clean()` looks at the new one, `apps/documents/models.py:423-427`),
  although "A Minutes row is immutable once its backing document is signed"
  (`models.py:366`; 409 in spec.md:151-154, 184). A stale PATCH writes
  `is_signed = False` over a signature, after which another version may be
  signed; two racing requests may sign two versions; an object can be replaced
  after it was signed, as its URL is still valid; a stale PATCH inserts a
  deleted document again unless its entity is gone.
* notifications: if the broker refuses the mail task the callback raises, and
  the client that tries again finds the notification and mails nobody. The
  second submission of an observed project notifies nobody.
* search: the index keeps the old affiliation of a researcher and the old
  project title of an advance until the researcher or the advance is saved
  (`apps/search/indexers.py:84-90,111-118,164`; no receiver in
  `signals.py:70-147` enqueues anything for them). A row deleted and inserted
  again by a stale `save()` may be taken out of the index by the late delete
  task.
* tenant context: `tenant_context()` restores nothing if its own `activate()`
  fails, which leaves the ContextVar of a task set until the next task or request
  of the worker; `TenantIsolation` holds because that one writes all three
  settings first.
* accounts: the comment at `apps/accounts/backends.py:269` says the request is
  still anonymous, which nothing enforces; a user whose primary membership is
  elsewhere cannot log in by OIDC with another institution, because `clean()`
  raises; two logins with two institutions at a time leave two primary
  memberships; a membership that is revoked leaves the session its institution.
* institutions: the serializers compare parents with a context the views never
  give; a superuser's sede or facultad is compared by nothing. The Django admin
  moves a unit or a researcher to another institution and leaves the groups, lines
  and affiliations below it (`apps/institutions/admin.py:29-73`,
  `apps/researchers/admin.py:20-56`). `deactivate()` and
  `archive()` check the children without a lock.
* researchers: two racing `add()` make two primary affiliations and `remove()`
  of the primary one leaves none.

## 6. Not modelled, and the plan

`PROJECT.json` says for each component what its module leaves out. Not modelled
at all:

* products: create, update and delete of independent rows, with no state, no
  transaction and no check across rows; its index tasks are those of `Delivery`.
* audit: rows nobody reads back. Its insertion policy is in `RowSecurity`.
* dashboard and the rendering of reports: read only. frontend: a client.

Two things the properties take for granted:

* *Row level security is on.* It restricts the application only where
  `POSTGRES_APP_USER` is set (`config/settings/base.py:109-121`); elsewhere the
  connection is the owner's, which policies do not bind. `TenantIsolation`,
  `OnePrimary` and `ParentsAreLocal` hold of an installation that sets it.
* *Superusers keep to the API.* The Django admin mounts a form for almost every
  table, status columns and logs included (projects, progress, calls, budgets,
  documents that are not signed, reports, workflow, notifications): a superuser
  can write there what no property could survive. Of the admin the model has
  memberships, units, researchers and affiliations, and the deletion of projects
  and of users who authorised.

Also left out: the columns `project` and `created_by` of documents, which
deletions set to NULL, and the deletion of an institution with all its rows.

Left out of modelled components, each because the code makes no promise about it
that a check could hold it to: the lifecycle of institutional units and the
primary flag of affiliations (both races are listed above), permissions of
calls, budgets and documents (they only remove requests), document types,
notification templates and preferences, roles, account linking.

Left for later, in this order:

1. Abstract specifications for components that have none: a register of signed
   documents that `Documents` implements under `Passed(d) = {}`, and a ledger of
   executions that `Budgets` implements while no line is edited, each with its
   refinement theorem beside the invariants there are.
2. The two races that no property covers and that a small extension reaches: the
   lifecycle of institutional units (a child activated between the check and the
   save) and the primary flag of affiliations, with the weaker statement that
   survives each.
3. `Tenancy`: what a session may keep after its membership is revoked, as a
   property of its own; it is in the findings as an observation.
