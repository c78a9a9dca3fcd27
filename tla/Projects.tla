------------------------------- MODULE Projects ------------------------------
(***************************************************************************)
(* The projects component under concurrent HTTP requests.                  *)
(*                                                                         *)
(* A request is served in steps that other requests interleave with.  The  *)
(* view loads the project with get_object() (Load); the service checks the *)
(* object in memory, never the row.  A state transition then opens a       *)
(* transaction whose first statement is the UPDATE of the row, so it holds *)
(* the row lock (Begin) until the state log, the observation and the       *)
(* signal receivers are done (Commit).  Everything else autocommits.       *)
(* Project.save() names no update_fields: it writes every column back as   *)
(* the request saw it, and when the UPDATE finds no row it INSERTs one.    *)
(*                                                                         *)
(* Three columns of the row are written by other components as well, which *)
(* do not ask in what state the project is, and members go with their      *)
(* researcher: see "Writes of other components".                           *)
(***************************************************************************)
EXTENDS ProjectStates, Naturals, Sequences, FiniteSets

CONSTANTS Projects,   \* project ids
          Requests,   \* requests that may be in flight together
          Items,      \* members and documents a project may have
          Members,    \* those of them that are members
          Contents,   \* values the columns only this component edits may hold
          Shared,     \* values of the columns others write as well:
                      \* cumulative_progress, group and line
          EndDates,   \* values of actual_end_date, NoDate for NULL
          NoDate,
          NoRow,      \* no row under this id
          NoItem,     \* a request about no member or document
          MaxLog      \* bound: entries in the state log of a project

Row == [status : Statuses, contents : Contents, shared : Shared,
        actual_end : EndDates]

ItemOps == {"attach", "revise", "detach"}
Ops == Transitions \cup {"update", "destroy", "admin_destroy"} \cup ItemOps

Idle == [phase |-> "idle"]
InFlight == [phase : {"loaded", "locked"}, op : Ops, project : Projects,
             item : Items \cup {NoItem}, seen : Row]

ASSUME ProjectsAssumption ==
  /\ NoRow \notin Row
  /\ NoItem \notin Items
  /\ Members \subseteq Items
  /\ NoDate \in EndDates
  /\ MaxLog \in Nat

VARIABLES
  opened,        \* ids that were given to a project
  destroyed,     \* history variable: ids whose project was deleted
  row,           \* projects_project
  log,           \* projects_projectstatelog, oldest first
  observations,  \* number of projects_projectobservation rows
  attached,      \* projects_projectmember and projects_projectdocument rows
  req            \* what each request is doing

vars == <<opened, destroyed, row, log, observations, attached, req>>

children == <<log, observations, attached>>

Init ==
  /\ opened = {}
  /\ destroyed = {}
  /\ row = [p \in Projects |-> NoRow]
  /\ log = [p \in Projects |-> <<>>]
  /\ observations = [p \in Projects |-> 0]
  /\ attached = [p \in Projects |-> {}]
  /\ req = [r \in Requests |-> Idle]

------------------------------------------------------------------------------
Busy(r) == req[r].phase # "idle"

On(r, p) == Busy(r) /\ req[r].project = p

\* A transaction that has updated the row keeps every other writer waiting.
RowFree(p) == ~\E r \in Requests : On(r, p) /\ req[r].phase = "locked"

HistoryRoom(p) ==
  Len(log[p]) + Cardinality({r \in Requests : On(r, p)}) < MaxLog

Finish(r) == req' = [req EXCEPT ![r] = Idle]

\* The checks of the services.  They read the object the view loaded and not
\* the row, so their outcome is settled at Load; a request they refuse changes
\* nothing and is left out.
AcceptedUnlessEnded(q) ==  \* wrong: FSM sources not compared
  \/ q.op \in {"admin_destroy"} \/ q.seen.status \notin TerminalStates

AcceptedWithoutTerminalCheck(q) ==  \* wrong: _validate_not_terminal forgotten
  \/ q.op \in Transitions /\ q.seen.status \in Sources[q.op]
  \/ q.op \notin Transitions \cup {"destroy"}
  \/ q.op = "destroy" /\ q.seen.status = "borrador"

Accepted(q) ==
  \/ q.op \in Transitions /\ q.seen.status \in Sources[q.op]
  \/ q.op \in {"update"} \cup ItemOps /\ q.seen.status \notin TerminalStates
  \/ q.op = "destroy" /\ q.seen.status = "borrador"
  \/ q.op = "admin_destroy"

\* The entry a transition logs.
EntryNamedByTrigger(q) == [from |-> q.seen.status, to |-> q.op]  \* wrong
EntrySwapped(q) == [from |-> Target[q.op], to |-> q.seen.status]  \* wrong
Entry(q) == [from |-> q.seen.status, to |-> Target[q.op]]

\* Only observe() writes a ProjectObservation.
ObservesOrReturns(q) == q.op \in {"observe", "return_to_draft"}  \* wrong
Observes(q) == q.op = "observe"

\* The row save() writes; only finalize() takes an end date.
SavedWithoutStatus(q, d) == [q.seen EXCEPT !.actual_end = d]  \* wrong
Saved(q, d) == [q.seen EXCEPT !.status = Target[q.op], !.actual_end = d]

------------------------------------------------------------------------------
Create(p) ==
  /\ p \notin opened
  /\ opened' = opened \cup {p}
  /\ \E c \in Contents, s \in Shared, d \in EndDates :
       row' = [row EXCEPT ![p] = [status |-> "borrador", contents |-> c,
                                  shared |-> s, actual_end |-> d]]
  /\ UNCHANGED <<destroyed, children, req>>

Load(r, p, o, i) ==
  /\ ~Busy(r)
  /\ row[p] # NoRow
  /\ o \in Transitions => HistoryRoom(p)
  /\ IF o \in ItemOps THEN i \in Items ELSE i = NoItem
  /\ o \in {"revise", "detach"} => i \in attached[p]
  /\ LET q == [phase |-> "loaded", op |-> o, project |-> p, item |-> i, seen |-> row[p]]
     IN Accepted(q) /\ req' = [req EXCEPT ![r] = q]
  /\ UNCHANGED <<opened, destroyed, row, children>>

\* Refused, failed in the database, or its worker died: nothing is kept.
Abandon(r) ==
  /\ Busy(r)
  /\ Finish(r)
  /\ UNCHANGED <<opened, destroyed, row, children>>

Begin(r) ==
  /\ req[r].phase = "loaded"
  /\ req[r].op \in Transitions
  /\ RowFree(req[r].project)
  /\ req' = [req EXCEPT ![r].phase = "locked"]
  /\ UNCHANGED <<opened, destroyed, row, children>>

Commit(r) ==
  /\ req[r].phase = "locked"
  /\ LET q == req[r]  p == q.project IN
       /\ \E d \in IF q.op = "finalize" THEN EndDates ELSE {q.seen.actual_end} :
            row' = [row EXCEPT ![p] = Saved(q, d)]
       /\ log' = [log EXCEPT ![p] = Append(@, Entry(q))]
       /\ observations' = IF Observes(q)
                          THEN [observations EXCEPT ![p] = @ + 1]
                          ELSE observations
  /\ Finish(r)
  /\ UNCHANGED <<opened, destroyed, attached>>

Update(r) ==
  /\ req[r].phase = "loaded"
  /\ req[r].op = "update"
  /\ RowFree(req[r].project)
  /\ \E c \in Contents, s \in Shared, d \in EndDates :
       row' = [row EXCEPT ![req[r].project] =
                 [req[r].seen EXCEPT !.contents = c, !.shared = s, !.actual_end = d]]
  /\ Finish(r)
  /\ UNCHANGED <<opened, destroyed, children>>

\* delete() cascades to every table that references the project.  What goes
\* with its center, its institution or its principal investigator goes the way
\* of "admin_destroy", which asks for no status.
Destroy(r) ==
  /\ req[r].phase = "loaded"
  /\ req[r].op \in {"destroy", "admin_destroy"}
  /\ RowFree(req[r].project)
  /\ LET p == req[r].project IN
       /\ destroyed' = destroyed \cup {p}
       /\ row' = [row EXCEPT ![p] = NoRow]
       /\ log' = [log EXCEPT ![p] = <<>>]
       /\ observations' = [observations EXCEPT ![p] = 0]
       /\ attached' = [attached EXCEPT ![p] = {}]
  /\ Finish(r)
  /\ UNCHANGED opened

------------------------------------------------------------------------------
\* Members and documents.  Their rows reference the project, so the database
\* refuses one whose project is gone; save() of a row deleted in the meantime
\* inserts it again.
WriteItem(r, o, items) ==
  /\ req[r].phase = "loaded"
  /\ req[r].op = o
  /\ attached' = [attached EXCEPT ![req[r].project] = items]
  /\ Finish(r)
  /\ UNCHANGED <<opened, destroyed, row, log, observations>>

NoForeignKey(p) == TRUE  \* wrong
ProjectExists(p) == row[p] # NoRow

Attach(r) ==
  LET q == req[r] IN
  /\ Busy(r)
  /\ ProjectExists(q.project)
  /\ q.item \notin attached[q.project]
  /\ WriteItem(r, "attach", attached[q.project] \cup {q.item})

Revise(r) ==
  LET q == req[r] IN
  /\ Busy(r)
  /\ ProjectExists(q.project)
  /\ WriteItem(r, "revise", attached[q.project] \cup {q.item})

Detach(r) ==
  LET q == req[r] IN
  /\ Busy(r)
  /\ WriteItem(r, "detach", attached[q.project] \ {q.item})

\* The requests that are no transition of the state machine.
Autocommitted(r) == Update(r) \/ Destroy(r) \/ Attach(r) \/ Revise(r) \/ Detach(r)

Serve(r) == Abandon(r) \/ Begin(r) \/ Commit(r) \/ Autocommitted(r)

Arrive ==
  \/ \E p \in Projects : Create(p)
  \/ \E r \in Requests, p \in Projects, o \in Ops, i \in Items \cup {NoItem} :
       Load(r, p, o, i)

------------------------------------------------------------------------------
(* Writes of other components. *)

\* The approval of a progress report saves cumulative_progress, and deleting a
\* group or a line sets the column to NULL: an UPDATE of these columns only.
WriteShared(p) ==
  /\ row[p] # NoRow
  /\ RowFree(p)
  /\ \E s \in Shared \ {row[p].shared} : row' = [row EXCEPT ![p].shared = s]
  /\ UNCHANGED <<opened, destroyed, children, req>>

\* Deleting a researcher deletes his memberships.
LoseMember(p, i) ==
  /\ i \in attached[p] \cap Members
  /\ attached' = [attached EXCEPT ![p] = @ \ {i}]
  /\ UNCHANGED <<opened, destroyed, row, log, observations, req>>

Elsewhere ==
  \E p \in Projects : WriteShared(p) \/ \E i \in Items : LoseMember(p, i)

Next == Arrive \/ Elsewhere \/ \E r \in Requests : Serve(r)

Spec == Init /\ [][Next]_vars

------------------------------------------------------------------------------
(* Properties that hold whatever the requests in flight do. *)

\* Types of the tables and of the requests.
TypeOK ==
  /\ opened \subseteq Projects
  /\ destroyed \subseteq opened
  /\ row \in [Projects -> Row \cup {NoRow}]
  /\ log \in [Projects -> Seq(LogEntry)]
  /\ observations \in [Projects -> Nat]
  /\ attached \in [Projects -> SUBSET Items]
  /\ req \in [Requests -> InFlight \cup {Idle}]

\* The states the log of p accounts for after its first n entries.
Reached(p, n) == {"borrador"} \cup {log[p][i].to : i \in 1..n}

\* RN-012 read backwards: unless the project was deleted, the status of its
\* row, and the one each request in flight holds, is the draft it was created
\* in or one its log has an entry for.  Stale writes may bring an old status
\* back but never one the project was not in.
StatusAccountedFor ==
  /\ \A p \in Projects \ destroyed :
       row[p] # NoRow => row[p].status \in Reached(p, Len(log[p]))
  /\ \A r \in Requests :
       Busy(r) /\ req[r].project \notin destroyed
         => req[r].seen.status \in Reached(req[r].project, Len(log[req[r].project]))

\* Every entry of the log is an edge of the state machine that starts in a
\* state the project had reached before it: entries written by racing
\* requests may branch, they never begin out of nowhere.
HistoryGrounded ==
  \A p \in Projects : \A i \in DOMAIN log[p] :
    /\ <<log[p][i].from, log[p][i].to>> \in Edges
    /\ p \notin destroyed => log[p][i].from \in Reached(p, i - 1)

\* RN-014: the observation and the log entry of observe() share a transaction,
\* so there is exactly one observation per entry into "observado".
OneObservationPerEntry ==
  \A p \in Projects :
    observations[p] = Cardinality({i \in DOMAIN log[p] : log[p][i].to = "observado"})

\* Deleting a project takes its log, observations, members and documents with
\* it, and no request still in flight leaves one behind.
NothingOutlivesItsProject ==
  \A p \in Projects :
    row[p] = NoRow => log[p] = <<>> /\ observations[p] = 0 /\ attached[p] = {}

Ended(p) == p \in opened /\ (row[p] = NoRow \/ row[p].status \in TerminalStates)

\* A request that loaded the project while it was open.
HeldOpen(p) ==
  \E r \in Requests : On(r, p) /\ req[r].seen.status \notin TerminalStates

\* Nothing of p changes that belongs to this component: other components may
\* write their columns and members may leave with their researcher.
RowKept(p) ==
  \/ row'[p] = row[p]
  \/ /\ row[p] # NoRow
     /\ \E s \in Shared : row'[p] = [row[p] EXCEPT !.shared = s]

Kept(p) ==
  /\ RowKept(p)
  /\ UNCHANGED <<log[p], observations[p]>>
  /\ attached'[p] \in SUBSET attached[p]
  /\ attached[p] \ attached'[p] \subseteq Members

\* RN-011: once a project is closed or deleted and the requests that loaded it
\* open have drained, its status, its contents, its end date, its log, its
\* observations and its documents stay, no member joins and no deleted project
\* comes back, until an administrator deletes it.  The guards are evaluated in
\* memory, so a stale request is the only way around them.
ClosedIsFinal ==
  [][\A p \in Projects :
       Ended(p) /\ ~HeldOpen(p) => Kept(p) \/ row'[p] = NoRow]_vars

------------------------------------------------------------------------------
(* Properties that hold when requests do not overlap. *)

StatusOf(p) == IF row[p] = NoRow THEN "none" ELSE row[p].status

Record == INSTANCE ProjectRecord
            WITH status <- [p \in Projects |-> StatusOf(p)], history <- log

\* With one request at a time the component is the state machine of
\* ProjectRecord: RF-035, RN-011 and RN-012 all follow from it.
ImplementsRecord == Record!Spec

\* The status a lone request holds is the one in the row: nobody else writes it.
SeenIsCurrent ==
  \A r \in Requests : Busy(r) =>
    /\ row[req[r].project] # NoRow
    /\ row[req[r].project].status = req[r].seen.status

------------------------------------------------------------------------------
(* What the documentation promises and the code does not keep. *)

\* models.py: "Terminal states - no outbound transitions allowed."
TerminalNeverLeft ==
  [][\A p \in Projects :
       Ended(p) /\ row[p] # NoRow => StatusOf(p)' \in {row[p].status, "none"}]_vars
==============================================================================
