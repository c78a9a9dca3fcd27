------------------------------- MODULE Budgets -------------------------------
(***************************************************************************)
(* Budgets of projects: their lines, what was executed on the lines, the   *)
(* attachments of a budget and the funding sources of a project.           *)
(*                                                                         *)
(* An execution is added by the service: it locks the line, sums what was  *)
(* executed, and rejects an overrun without authorization (RN-020).  The   *)
(* generic PATCH and DELETE of lines and executions write the row with no  *)
(* check and no lock beyond that of the row they write.  An authorization  *)
(* lasts as long as the user who gave it.                                  *)
(***************************************************************************)
EXTENDS Naturals, FiniteSetsExt

CONSTANTS Projects, Budgets, Lines, Executions, Attachments, FundingSources,
          Amounts,    \* decimal amounts, in the unit that matters
          Requests,   \* requests that may be in flight together
          NoRow, Nobody

BudgetRow == [project : Projects]
LineRow == [budget : Budgets, approved : Amounts]
ExecutionRow == [line : Lines, amount : Amounts, authorized : BOOLEAN]

Idle == [phase |-> "idle"]
Creating == [phase : {"create", "created"}, project : Projects]
Executing == [phase : {"execute"}, row : ExecutionRow]
Locking == [phase : {"locked"}, row : ExecutionRow, sum : Nat]
Patching ==
  [phase : {"budget"}, id : Budgets, row : BudgetRow]
    \cup [phase : {"line"}, id : Lines, row : LineRow]
    \cup [phase : {"execution"}, id : Executions, row : ExecutionRow]

ASSUME BudgetsAssumption ==
  /\ Amounts \subseteq Nat
  /\ NoRow \notin BudgetRow \cup LineRow \cup ExecutionRow
  /\ Nobody \notin Requests

VARIABLES
  projects,     \* the projects that exist
  budgets,      \* budgets_budget
  lines,        \* budgets_budgetline
  executions,   \* budgets_budgetexecution
  attachments,  \* budgets_budgetattachment of each budget
  sources,      \* budgets_fundingsource of each project
  lock,         \* the transaction that holds the row lock of each line
  edited,       \* history variable: lines touched by a generic PATCH, or with an
                \* execution whose authorizer was deleted
  req

extras == <<attachments, sources>>
vars == <<projects, budgets, lines, executions, extras, lock, edited, req>>

Init ==
  /\ projects = Projects
  /\ budgets = [b \in Budgets |-> NoRow]
  /\ lines = [l \in Lines |-> NoRow]
  /\ executions = [e \in Executions |-> NoRow]
  /\ attachments = [b \in Budgets |-> {}]
  /\ sources = [p \in Projects |-> {}]
  /\ lock = [l \in Lines |-> Nobody]
  /\ edited = {}
  /\ req = [r \in Requests |-> Idle]

------------------------------------------------------------------------------
Busy(r) == req[r].phase # "idle"
Begin(r, q) == ~Busy(r) /\ req' = [req EXCEPT ![r] = q]
Finish(r) == req' = [req EXCEPT ![r] = Idle]

Unlocked(l) == lock[l] = Nobody
KeepsLocks(r) == UNCHANGED lock  \* wrong: the transaction is left open
Release(r) == lock' = [l \in Lines |-> IF lock[l] = r THEN Nobody ELSE lock[l]]

\* Ids are never used again, not even for a row that some request still holds.
Fresh(table, i) ==
  table[i] = NoRow /\ \A r \in Requests : "id" \in DOMAIN req[r] => req[r].id # i

LinesOf(bs) == {l \in Lines : lines[l] # NoRow /\ lines[l].budget \in bs}
ExecutionsOf(ls) == {e \in Executions : executions[e] # NoRow /\ executions[e].line \in ls}
BudgetsOf(p) == {b \in Budgets : budgets[b] # NoRow /\ budgets[b].project = p}

Without(table, ids) == [i \in DOMAIN table |-> IF i \in ids THEN NoRow ELSE table[i]]

Total(es, rows) == MapThenSumSet(LAMBDA e : rows[e].amount, es)

------------------------------------------------------------------------------
\* create(): looks for a budget of the project, then inserts one.
BeginCreate(r, p) ==
  /\ p \in projects
  /\ Begin(r, [phase |-> "create", project |-> p])
  /\ UNCHANGED <<projects, budgets, lines, executions, extras, lock, edited>>

CheckNoBudget(r) ==
  /\ req[r].phase = "create"
  /\ BudgetsOf(req[r].project) = {}
  /\ req' = [req EXCEPT ![r].phase = "created"]
  /\ UNCHANGED <<projects, budgets, lines, executions, extras, lock, edited>>

\* The database: the project exists, and has one budget (RF-B01).
Storable(p, b) == p \in projects /\ BudgetsOf(p) \subseteq {b}

InsertBudget(r, b) ==
  LET p == req[r].project IN
  /\ req[r].phase = "created"
  /\ Fresh(budgets, b)
  /\ Storable(p, b)
  /\ budgets' = [budgets EXCEPT ![b] = [project |-> p]]
  /\ Finish(r)
  /\ UNCHANGED <<projects, lines, executions, extras, lock, edited>>

\* A deletion cascades; it waits for the locks of the lines it takes along.
DeleteBudgets(bs) ==
  /\ \A l \in LinesOf(bs) : Unlocked(l)
  /\ budgets' = Without(budgets, bs)
  /\ lines' = Without(lines, LinesOf(bs))
  /\ executions' = Without(executions, ExecutionsOf(LinesOf(bs)))
  /\ attachments' = [b \in Budgets |-> IF b \in bs THEN {} ELSE attachments[b]]

DeleteBudget(b) ==
  /\ budgets[b] # NoRow
  /\ DeleteBudgets({b})
  /\ UNCHANGED <<projects, sources, lock, edited, req>>

DeleteProject(p) ==
  /\ p \in projects
  /\ DeleteBudgets(BudgetsOf(p))
  /\ projects' = projects \ {p}
  /\ sources' = [sources EXCEPT ![p] = {}]
  /\ UNCHANGED <<lock, edited, req>>

------------------------------------------------------------------------------
AddLine(l, b) ==
  /\ Fresh(lines, l) /\ budgets[b] # NoRow
  /\ \E n \in Amounts : lines' = [lines EXCEPT ![l] = [budget |-> b, approved |-> n]]
  /\ edited' = edited \ {l}
  /\ UNCHANGED <<projects, budgets, executions, extras, lock, req>>

DeleteLine(l) ==
  /\ lines[l] # NoRow /\ Unlocked(l)
  /\ lines' = Without(lines, {l})
  /\ executions' = Without(executions, ExecutionsOf({l}))
  /\ UNCHANGED <<projects, budgets, extras, lock, edited, req>>

DeleteExecution(e) ==
  /\ executions[e] # NoRow
  /\ executions' = Without(executions, {e})
  /\ UNCHANGED <<projects, budgets, lines, extras, lock, edited, req>>

\* A user is deleted: what that user had authorized stays, unauthorized (SET_NULL).
DeleteUser ==
  \E es \in SUBSET {e \in Executions : executions[e] # NoRow /\ executions[e].authorized} :
    /\ executions' = [e \in Executions |->
         IF e \in es THEN [executions[e] EXCEPT !.authorized = FALSE] ELSE executions[e]]
    /\ edited' = edited \cup {executions[e].line : e \in es}
    /\ UNCHANGED <<projects, budgets, lines, extras, lock, req>>

\* A PATCH loads the row and saves all of it, with the new amount in it; the
\* row is inserted again if it was deleted in between and its parent was not.
Load(r, kind, table, i) ==
  /\ table[i] # NoRow
  /\ Begin(r, [phase |-> kind, id |-> i, row |-> table[i]])
  /\ UNCHANGED <<projects, budgets, lines, executions, extras, lock, edited>>

SaveBudget(r) ==
  LET q == req[r] IN
  /\ q.phase = "budget"
  /\ Storable(q.row.project, q.id)
  /\ budgets' = [budgets EXCEPT ![q.id] = q.row]
  /\ Finish(r)
  /\ UNCHANGED <<projects, lines, executions, extras, lock, edited>>

SaveLine(r) ==
  LET q == req[r] IN
  /\ q.phase = "line"
  /\ budgets[q.row.budget] # NoRow /\ Unlocked(q.id)
  /\ \E n \in Amounts : lines' = [lines EXCEPT ![q.id] = [q.row EXCEPT !.approved = n]]
  /\ edited' = edited \cup {q.id}
  /\ Finish(r)
  /\ UNCHANGED <<projects, budgets, executions, extras, lock>>

SaveExecution(r) ==
  LET q == req[r] IN
  /\ q.phase = "execution"
  /\ lines[q.row.line] # NoRow
  /\ executions[q.id] = NoRow => Unlocked(q.row.line)
  /\ \E n \in Amounts, a \in BOOLEAN :
       executions' = [executions EXCEPT ![q.id] =
                        [q.row EXCEPT !.amount = n, !.authorized = a]]
  /\ edited' = edited \cup {q.row.line}
  /\ Finish(r)
  /\ UNCHANGED <<projects, budgets, lines, extras, lock>>

------------------------------------------------------------------------------
\* add_execution(): one transaction.
BeginExecution(r, l) ==
  /\ lines[l] # NoRow
  /\ \E n \in Amounts, a \in BOOLEAN :
       Begin(r, [phase |-> "execute", row |-> [line |-> l, amount |-> n, authorized |-> a]])
  /\ UNCHANGED <<projects, budgets, lines, executions, extras, lock, edited>>

TakeLock(r, l) == Unlocked(l) /\ lock' = [lock EXCEPT ![l] = r]

LockAndSum(r) ==
  LET l == req[r].row.line IN
  /\ req[r].phase = "execute"
  /\ lines[l] # NoRow
  /\ TakeLock(r, l)
  /\ req' = [req EXCEPT ![r] = [phase |-> "locked", row |-> req[r].row,
                               sum |-> Total(ExecutionsOf({l}), executions)]]
  /\ UNCHANGED <<projects, budgets, lines, executions, extras, edited>>

OverrunAtLimit(q) == q.sum > lines[q.row.line].approved  \* wrong: the new amount left out
Overrun(q) == q.sum + q.row.amount > lines[q.row.line].approved

Record(r, e) ==
  LET q == req[r] IN
  /\ q.phase = "locked"
  /\ lines[q.row.line] # NoRow
  /\ Overrun(q) => q.row.authorized
  /\ Fresh(executions, e)
  /\ executions' = [executions EXCEPT ![e] = q.row]
  /\ Finish(r) /\ Release(r)
  /\ UNCHANGED <<projects, budgets, lines, extras, edited>>

\* Rejected, failed or killed: the transaction is rolled back.  The signal of
\* a rejected overrun is sent after that and writes nothing here.
Abandon(r) ==
  /\ Busy(r)
  /\ Finish(r) /\ Release(r)
  /\ UNCHANGED <<projects, budgets, lines, executions, extras, edited>>

------------------------------------------------------------------------------
Attach(b) ==
  /\ budgets[b] # NoRow
  /\ \E x \in SUBSET Attachments : attachments' = [attachments EXCEPT ![b] = x]
  /\ UNCHANGED <<projects, budgets, lines, executions, sources, lock, edited, req>>

Fund(p) ==
  /\ p \in projects
  /\ \E x \in SUBSET FundingSources : sources' = [sources EXCEPT ![p] = x]
  /\ UNCHANGED <<projects, budgets, lines, executions, attachments, lock, edited, req>>

Serve(r) ==
  \/ \E p \in Projects : BeginCreate(r, p)
  \/ CheckNoBudget(r)
  \/ \E b \in Budgets : InsertBudget(r, b) \/ Load(r, "budget", budgets, b)
  \/ \E l \in Lines : Load(r, "line", lines, l) \/ BeginExecution(r, l)
  \/ \E e \in Executions : Load(r, "execution", executions, e) \/ Record(r, e)
  \/ SaveBudget(r) \/ SaveLine(r) \/ SaveExecution(r)
  \/ LockAndSum(r) \/ Abandon(r)

Next ==
  \/ \E r \in Requests : Serve(r)
  \/ \E b \in Budgets : DeleteBudget(b) \/ Attach(b)
  \/ \E p \in Projects : DeleteProject(p) \/ Fund(p)
  \/ \E l \in Lines, b \in Budgets : AddLine(l, b)
  \/ \E l \in Lines : DeleteLine(l)
  \/ \E e \in Executions : DeleteExecution(e)
  \/ DeleteUser

Spec == Init /\ [][Next]_vars

------------------------------------------------------------------------------
\* Types; and a line is locked only by the request that records on it.
TypeOK ==
  /\ projects \subseteq Projects
  /\ budgets \in [Budgets -> BudgetRow \cup {NoRow}]
  /\ lines \in [Lines -> LineRow \cup {NoRow}]
  /\ executions \in [Executions -> ExecutionRow \cup {NoRow}]
  /\ attachments \in [Budgets -> SUBSET Attachments]
  /\ sources \in [Projects -> SUBSET FundingSources]
  /\ lock \in [Lines -> Requests \cup {Nobody}]
  /\ \A l \in Lines : lock[l] # Nobody =>
       req[lock[l]].phase = "locked" /\ req[lock[l]].row.line = l
  /\ edited \subseteq Lines
  /\ req \in [Requests -> {Idle} \cup Creating \cup Executing \cup Locking \cup Patching]

\* RN-020: what was executed on a line without authorization never exceeds
\* its approved amount, unless the line or one of its executions was changed
\* by a PATCH, which the service does not see, or lost its authorizer.
UnauthorizedFits ==
  \A l \in Lines : lines[l] # NoRow /\ l \notin edited =>
    Total({e \in ExecutionsOf({l}) : ~executions[e].authorized}, executions)
      <= lines[l].approved
==============================================================================
