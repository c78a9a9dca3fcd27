-------------------------------- MODULE Calls --------------------------------
(***************************************************************************)
(* Funding calls: their life cycle, documents and linked projects.         *)
(*                                                                         *)
(* A transition locks the row and checks it there; the status it logs as   *)
(* the origin was read before the lock.  Everything else checks the call   *)
(* it loaded and then writes, and an update writes the whole row back.     *)
(***************************************************************************)
EXTENDS Naturals, FiniteSets

CONSTANTS Calls, Projects, Documents,
          Requests,   \* requests that may be in flight together
          NoRow, NoEntry, NoItem

CallStatuses ==
  {"borrador", "abierta", "cerrada", "en_evaluacion", "resultados_publicados", "archivada"}
TERMINAL_STATES == {"archivada"}

Sources ==
  [open_call        |-> {"borrador"},
   close_call       |-> {"abierta"},
   start_evaluation |-> {"cerrada"},
   publish_results  |-> {"en_evaluacion"},
   archive          |-> {"cerrada", "resultados_publicados"}]

Target ==
  [open_call        |-> "abierta",
   close_call       |-> "cerrada",
   start_evaluation |-> "en_evaluacion",
   publish_results  |-> "resultados_publicados",
   archive          |-> "archivada"]

Transitions == DOMAIN Sources
Edges == UNION {Sources[t] \X {Target[t]} : t \in Transitions}

\* Documents are added, edited and removed under one guard; an edit that
\* saves a document removed meanwhile inserts it again, as an addition does.
DocumentOps == {"write", "remove"}
Ops == Transitions \cup {"update", "delete", "link"} \cup DocumentOps

Idle == [phase |-> "idle"]
InFlight == [phase : {"loaded", "validated"}, op : Ops, call : Calls, seen : CallStatuses,
             item : Projects \cup Documents \cup {NoItem}]
LogEntry == [call : Calls, from : CallStatuses, to : CallStatuses]

ASSUME CallsAssumption ==
  NoRow \notin CallStatuses /\ NoEntry \notin LogEntry /\ NoItem \notin Projects \cup Documents

VARIABLES
  status,     \* calls_call: the status of each row
  logged,     \* entry of calls_callstatelog that the last step wrote, if it did
  linked,     \* number of calls_callproject rows of a call and a project
  documents,  \* calls_calldocument
  projects,   \* the projects that exist
  opened,     \* history variable: calls that were opened
  overtaken,  \* history variable: requests whose call has changed its status
              \* since they loaded it
  req

tables == <<status, linked, documents, projects, opened>>
vars == <<tables, logged, overtaken, req>>

Init ==
  /\ status = [c \in Calls |-> NoRow]
  /\ logged = NoEntry
  /\ linked = [c \in Calls |-> [p \in Projects |-> 0]]
  /\ documents = [c \in Calls |-> {}]
  /\ projects = Projects
  /\ opened = {}
  /\ overtaken = {}
  /\ req = [r \in Requests |-> Idle]

------------------------------------------------------------------------------
Busy(r) == req[r].phase # "idle"
On(r, c) == Busy(r) /\ req[r].call = c
Finish(r) == req' = [req EXCEPT ![r] = Idle]

Links(c) == {p \in Projects : linked[c][p] > 0}
Associated(p) == \E c \in Calls : p \in Links(c)

\* What the services check on the call the view loaded.
AcceptedIfLive(op, seen) ==  \* wrong: projects linked to any live call
  /\ op \in {"update", "link"} \cup DocumentOps => seen \notin TERMINAL_STATES
  /\ op = "delete" => seen = "borrador"

AcceptedWithDocuments(op, seen) ==  \* wrong: documents of any call
  /\ op \in {"update"} => seen \notin TERMINAL_STATES
  /\ op = "delete" => seen = "borrador"
  /\ op = "link" => seen = "abierta"

Accepted(op, seen) ==
  /\ op \in {"update"} \cup DocumentOps => seen \notin TERMINAL_STATES
  /\ op = "delete" => seen = "borrador"
  /\ op = "link" => seen = "abierta"

ItemsOf(op, c) ==
  CASE op = "link" -> projects
    [] op = "write" -> Documents
    [] op = "remove" -> documents[c]
    [] OTHER -> {NoItem}

Create(c) ==
  /\ status[c] = NoRow
  /\ \A r \in Requests : ~On(r, c)  \* ids are never used again
  /\ status' = [status EXCEPT ![c] = "borrador"]
  /\ opened' = opened \ {c}
  /\ logged' = NoEntry
  /\ UNCHANGED <<linked, documents, projects, req>>

Load(r, c, op) ==
  /\ ~Busy(r)
  /\ status[c] # NoRow
  /\ Accepted(op, status[c])
  /\ \E i \in ItemsOf(op, c) :
       req' = [req EXCEPT ![r] = [phase |-> "loaded", op |-> op, call |-> c,
                                  seen |-> status[c], item |-> i]]
  /\ logged' = NoEntry /\ UNCHANGED tables

Abandon(r) == Busy(r) /\ Finish(r) /\ logged' = NoEntry /\ UNCHANGED tables

------------------------------------------------------------------------------
\* select_for_update, transition, save and log in one transaction.
LegalAsLoaded(q) == q.seen \in Sources[q.op]  \* wrong: checks the object in memory
Legal(q) == status[q.call] \in Sources[q.op]

Transition(r) ==
  LET q == req[r] IN
  /\ q.phase = "loaded" /\ q.op \in Transitions
  /\ status[q.call] # NoRow
  /\ Legal(q)
  /\ status' = [status EXCEPT ![q.call] = Target[q.op]]
  /\ logged' = [call |-> q.call, from |-> q.seen, to |-> Target[q.op]]
  /\ opened' = IF q.op = "open_call" THEN opened \cup {q.call} ELSE opened
  /\ Finish(r)
  /\ UNCHANGED <<linked, documents, projects>>

\* save() of the loaded call: its status is written with the rest.
Update(r) ==
  LET q == req[r] IN
  /\ q.phase = "loaded" /\ q.op = "update"
  /\ status' = [status EXCEPT ![q.call] = q.seen]
  /\ Finish(r)
  /\ logged' = NoEntry
  /\ UNCHANGED <<linked, documents, projects, opened>>

\* The checks a service makes with a query of its own, before it writes.
ChecksPass(q) ==
  \/ q.op = "delete" /\ Links(q.call) = {}
  \/ q.op = "link" /\ ~Associated(q.item) /\ status[q.call] # NoRow /\ q.item \in projects

Validate(r) ==
  /\ req[r].phase = "loaded"
  /\ ChecksPass(req[r])
  /\ req' = [req EXCEPT ![r].phase = "validated"]
  /\ logged' = NoEntry /\ UNCHANGED tables

Delete(r) ==
  LET c == req[r].call IN
  /\ req[r].phase = "validated" /\ req[r].op = "delete"
  /\ status' = [status EXCEPT ![c] = NoRow]
  /\ logged' = NoEntry
  /\ linked' = [linked EXCEPT ![c] = [p \in Projects |-> 0]]
  /\ documents' = [documents EXCEPT ![c] = {}]
  /\ Finish(r)
  /\ UNCHANGED <<projects, opened>>

\* The database: foreign keys, and one call per project.
InsertableByKeys(q) ==  \* wrong: no UniqueConstraint, full_clean() alone
  status[q.call] # NoRow /\ q.item \in projects
Insertable(q) == status[q.call] # NoRow /\ q.item \in projects /\ ~Associated(q.item)

Link(r) ==
  LET q == req[r] IN
  /\ q.phase = "validated" /\ q.op = "link"
  /\ Insertable(q)
  /\ linked' = [linked EXCEPT ![q.call][q.item] = @ + 1]
  /\ Finish(r)
  /\ logged' = NoEntry
  /\ UNCHANGED <<status, documents, projects, opened>>

\* unlink() checks nothing: it is one statement.
Unlink(c, p) ==
  /\ linked[c][p] > 0
  /\ linked' = [linked EXCEPT ![c][p] = @ - 1]
  /\ logged' = NoEntry
  /\ UNCHANGED <<status, documents, projects, opened, req>>

WriteDocument(r) ==
  LET q == req[r] IN
  /\ q.phase = "loaded" /\ q.op \in DocumentOps
  /\ status[q.call] # NoRow
  /\ documents' = [documents EXCEPT ![q.call] =
                     IF q.op = "write" THEN @ \cup {q.item} ELSE @ \ {q.item}]
  /\ Finish(r)
  /\ logged' = NoEntry
  /\ UNCHANGED <<status, linked, projects, opened>>

\* The projects component deletes a project: its links go with it.
DeleteProject(p) ==
  /\ p \in projects
  /\ projects' = projects \ {p}
  /\ linked' = [c \in Calls |-> [linked[c] EXCEPT ![p] = 0]]
  /\ logged' = NoEntry
  /\ UNCHANGED <<status, documents, opened, req>>

Serve(r) ==
  \/ Abandon(r) \/ Transition(r) \/ Update(r) \/ Validate(r)
  \/ Delete(r) \/ Link(r) \/ WriteDocument(r)

Act ==
  \/ \E c \in Calls : Create(c)
  \/ \E r \in Requests, c \in Calls, op \in Ops : Load(r, c, op)
  \/ \E r \in Requests : Serve(r)
  \/ \E c \in Calls, p \in Projects : Unlink(c, p)
  \/ \E p \in Projects : DeleteProject(p)

Overtake ==
  overtaken' = {r \in Requests :
    /\ Busy(r) /\ Busy(r)'
    /\ r \in overtaken \/ status'[req[r].call] # status[req[r].call]}

Next == Act /\ Overtake

Spec == Init /\ [][Next]_vars

------------------------------------------------------------------------------
RowsTypeOK ==
  /\ status \in [Calls -> CallStatuses \cup {NoRow}]
  /\ linked \in [Calls -> [Projects -> 0..1]]
  /\ documents \in [Calls -> SUBSET Documents]
  /\ projects \subseteq Projects
  /\ opened \subseteq Calls
  /\ req \in [Requests -> InFlight \cup {Idle}]

TypeOK ==
  /\ RowsTypeOK
  /\ logged \in LogEntry \cup {NoEntry}
  /\ overtaken \subseteq Requests

\* A project competes in one call, and only in a call that was opened: two
\* requests that both saw it free, or both saw the call open, change nothing
\* about that.
LinksAreEarned ==
  \A c \in Calls : \A p \in Links(c) :
    /\ c \in opened
    /\ linked[c][p] = 1 /\ \A d \in Calls \ {c} : p \notin Links(d)

\* A log entry is written by the step that takes the call along an edge into
\* the status the entry names, whatever the request had loaded.  The origin it
\* names is the status the call left, unless the request was overtaken: it had
\* read the origin before the lock, and the call has changed since.
LoggedAsTaken ==
  [][logged' # NoEntry =>
       LET c == logged'.call IN
         /\ <<status[c], status'[c]>> \in Edges /\ logged'.to = status'[c]
         /\ \/ logged'.from = status[c]
            \/ \E r \in overtaken : On(r, c) /\ req'[r] = Idle]_vars

HeldFromBefore(c) == \E r \in Requests : On(r, c) /\ req[r].seen \notin TERMINAL_STATES

\* Only a request that loaded the call before it was archived can still touch
\* it: otherwise status and documents stay, and projects can only leave.
ArchivedIsFinal ==
  [][\A c \in Calls :
       status[c] \in TERMINAL_STATES /\ ~HeldFromBefore(c) =>
         /\ status'[c] = status[c] /\ documents'[c] = documents[c]
         /\ \A p \in Projects : linked'[c][p] <= linked[c][p]]_vars
==============================================================================
