------------------------------- MODULE Progress ------------------------------
(***************************************************************************)
(* Progress reports ("advances") of one project, under concurrent requests.*)
(*                                                                         *)
(* Unlike the projects component, nothing here runs in a transaction: the  *)
(* report, its review, the project's cumulative progress and the log entry *)
(* of a transition are statements that commit one by one, and the request  *)
(* may die between any two of them.  The guards read the object the view   *)
(* loaded, and save() writes all its columns back.                         *)
(***************************************************************************)
EXTENDS Naturals, FiniteSets, Sequences

CONSTANTS Advances,   \* ids of progress reports
          Requests,   \* requests that may be in flight together
          Documents,  \* evidence a report may carry
          Percents,   \* values of cumulative_percentage
          NoRow,
          NoItem,
          Actors,     \* who the requests come from: see AllActors
          Stages,     \* bound: where the project comes to stand: see AllStages
          MaxLog,     \* bound: log entries of a report
          MaxReviews  \* bound: reviews of each type of a report

AdvanceStatuses ==
  {"borrador", "enviado", "en_revision", "observado", "aprobado", "rechazado"}

Sources ==
  [submit          |-> {"borrador"},
   accept_review   |-> {"enviado"},
   approve         |-> {"en_revision"},
   observe         |-> {"en_revision"},
   reject          |-> {"en_revision"},
   return_to_draft |-> {"en_revision", "observado", "rechazado"},
   resubmit        |-> {"observado"}]

Target ==
  [submit          |-> "enviado",
   accept_review   |-> "en_revision",
   approve         |-> "aprobado",
   observe         |-> "observado",
   reject          |-> "rechazado",
   return_to_draft |-> "borrador",
   resubmit        |-> "enviado"]

Transitions == DOMAIN Sources

Edges == UNION {Sources[t] \X {Target[t]} : t \in Transitions}

DocumentOps == {"add", "revise", "remove"}
Ops == Transitions \cup {"update", "delete"} \cup DocumentOps

\* The creator of the report, another member of its project, the director of
\* the project's center, an admin.
AllActors == {"creator", "member", "director", "admin"}
Authors == {"creator", "member"}

\* Where the project stands: progress is reported from execution on, until
\* the project is cancelled.
AllStages == {"execution", "cancelled"}

AdvanceRow == [status : AdvanceStatuses, percent : Percents]
ProjectRow == [stage : Stages, cumulative : Percents \cup {0}]
LogEntry == [from : AdvanceStatuses, to : AdvanceStatuses, by : Actors]

Idle == [phase |-> "idle"]
InFlight == [phase : {"loaded", "saved", "recorded"}, op : Ops, by : Actors,
             advance : Advances, item : Documents \cup {NoItem}, seen : AdvanceRow]
ProjectRequest == [phase : {"project"}, seen : ProjectRow]

ASSUME ProgressAssumption ==
  /\ NoRow \notin AdvanceRow
  /\ NoItem \notin Documents
  /\ Percents \subseteq Nat \ {0}
  /\ Actors \subseteq AllActors
  /\ "execution" \in Stages /\ Stages \subseteq AllStages
  /\ MaxLog \in Nat
  /\ MaxReviews \in Nat

VARIABLES
  advance,    \* progress_progressreport
  log,        \* progress_progressstatelog, oldest first
  reviews,    \* number of progress_progressreview rows of each type
  documents,  \* progress_progressdocument
  project,    \* the project's row
  granted,    \* history variable: percentages that were approved
  counted,    \* history variable: reports whose approval the project was told of
  orphaned,   \* history variable: reports deleted between a review and its log entry
  req         \* what each request is doing

tables == <<advance, log, reviews, documents, project, granted, counted, orphaned>>
vars == <<tables, req>>

NoReviews == [observado |-> 0, rechazado |-> 0]

Init ==
  /\ advance = [a \in Advances |-> NoRow]
  /\ log = [a \in Advances |-> <<>>]
  /\ reviews = [a \in Advances |-> NoReviews]
  /\ documents = [a \in Advances |-> {}]
  /\ project = [stage |-> "execution", cumulative |-> 0]
  /\ granted = {}
  /\ counted = {}
  /\ orphaned = {}
  /\ req = [r \in Requests |-> Idle]

------------------------------------------------------------------------------
Busy(r) == req[r].phase # "idle"

On(r, a) == req[r].phase \in {"loaded", "saved", "recorded"} /\ req[r].advance = a

\* The review is written, the log entry is not.
HasReviewed(q) == q.phase = "recorded" /\ q.op \in {"observe", "reject"}

Finish(r) == req' = [req EXCEPT ![r] = Idle]

\* Who may ask for what: a member of the project may do whatever the creator
\* may.  return_to_draft looks at the status it was loaded with: creator and
\* members take back a rejected report, the director the others.  Adding a
\* document looks the report up without a check of its own.
AuthorOps == {"submit", "resubmit", "update", "delete"} \cup DocumentOps
DirectorOps == {"accept_review", "approve", "observe", "reject"}

PermittedToAnyone(by, op, status) ==  \* wrong: CanReturnToDraft ignores the status
  \/ by = "admin"
  \/ op \in DirectorOps /\ by = "director"
  \/ op \in {"return_to_draft", "add"}
  \/ op \in AuthorOps /\ by \in Authors

Permitted(by, op, status) ==
  \/ by = "admin"
  \/ op \in DirectorOps /\ by = "director"
  \/ op = "return_to_draft" /\ by \in IF status = "rechazado" THEN Authors ELSE {"director"}
  \/ op = "add"
  \/ op \in AuthorOps /\ by \in Authors

\* The guards of the service, all of them on the object in memory.
AcceptedWhileOpen(q) ==  \* wrong: documents only barred from approved reports
  IF q.op \in Transitions
  THEN q.seen.status \in Sources[q.op]
  ELSE \/ q.seen.status = "borrador"
       \/ q.op \in DocumentOps /\ q.seen.status # "aprobado"

Accepted(q) ==
  IF q.op \in Transitions
  THEN q.seen.status \in Sources[q.op]
  ELSE q.seen.status = "borrador"

------------------------------------------------------------------------------
Create(a) ==
  /\ advance[a] = NoRow
  /\ \A r \in Requests : ~On(r, a)  \* ids are never used again
  /\ project.stage = "execution"
  /\ \E n \in Percents :
       advance' = [advance EXCEPT ![a] = [status |-> "borrador", percent |-> n]]
  /\ counted' = counted \ {a}
  /\ orphaned' = orphaned \ {a}
  /\ UNCHANGED <<log, reviews, documents, project, granted, req>>

Load(r, a, o, i) ==
  /\ ~Busy(r)
  /\ advance[a] # NoRow
  /\ IF o \in DocumentOps THEN i \in Documents ELSE i = NoItem
  /\ o \in {"revise", "remove"} => i \in documents[a]
  /\ \E by \in Actors :
       LET q == [phase |-> "loaded", op |-> o, by |-> by, advance |-> a,
                 item |-> i, seen |-> advance[a]]
       IN /\ Permitted(by, o, advance[a].status)
          /\ Accepted(q)
          /\ req' = [req EXCEPT ![r] = q]
  /\ UNCHANGED tables

\* The request fails or its worker dies: what it has committed stays.
Abandon(r) == Busy(r) /\ Finish(r) /\ UNCHANGED tables

\* report.save(): an UPDATE of every column, or an INSERT if the row is gone.
WriteAdvance(a, w) ==
  /\ advance' = [advance EXCEPT ![a] = w]
  /\ granted' = IF w.status = "aprobado" THEN granted \cup {w.percent} ELSE granted

Update(r) ==
  /\ req[r].phase = "loaded" /\ req[r].op = "update"
  /\ \E n \in Percents : WriteAdvance(req[r].advance, [req[r].seen EXCEPT !.percent = n])
  /\ Finish(r)
  /\ UNCHANGED <<log, reviews, documents, project, counted, orphaned>>

Delete(r) ==
  /\ req[r].phase = "loaded" /\ req[r].op = "delete"
  /\ LET a == req[r].advance IN
       /\ advance' = [advance EXCEPT ![a] = NoRow]
       /\ log' = [log EXCEPT ![a] = <<>>]
       /\ reviews' = [reviews EXCEPT ![a] = NoReviews]
       /\ documents' = [documents EXCEPT ![a] = {}]
       /\ orphaned' = IF \E s \in Requests : On(s, a) /\ HasReviewed(req[s])
                      THEN orphaned \cup {a} ELSE orphaned
  /\ Finish(r)
  /\ UNCHANGED <<project, granted, counted>>

\* The four writes of a transition.
Save(r) ==
  LET q == req[r] IN
  /\ q.phase = "loaded" /\ q.op \in Transitions
  /\ WriteAdvance(q.advance, [q.seen EXCEPT !.status = Target[q.op]])
  /\ req' = [req EXCEPT ![r].phase = "saved"]
  /\ UNCHANGED <<log, reviews, documents, project, counted, orphaned>>

SummedProgress(q) == project.cumulative + q.seen.percent  \* wrong: RN-P08 says not summed
CumulativeProgress(q) == q.seen.percent

UpdateProject(r) ==
  LET q == req[r] IN
  /\ q.phase = "saved" /\ q.op = "approve"
  /\ project' = [project EXCEPT !.cumulative = CumulativeProgress(q)]
  /\ counted' = counted \cup {q.advance}
  /\ req' = [req EXCEPT ![r].phase = "recorded"]
  /\ UNCHANGED <<advance, log, reviews, documents, granted, orphaned>>

\* Reviews and log entries reference the report: none without its row.  The
\* bounds only stop a request that may stop there anyway.
Review(r) ==
  LET q == req[r] IN
  /\ q.phase = "saved" /\ q.op \in {"observe", "reject"}
  /\ advance[q.advance] # NoRow
  /\ reviews[q.advance][Target[q.op]] < MaxReviews
  /\ reviews' = [reviews EXCEPT ![q.advance][Target[q.op]] = @ + 1]
  /\ req' = [req EXCEPT ![r].phase = "recorded"]
  /\ UNCHANGED <<advance, log, documents, project, granted, counted, orphaned>>

LogsAtOnce(q) ==  \* wrong: the log entry written before the review
  \/ q.phase = "recorded"
  \/ q.phase = "saved" /\ q.op # "approve"

LogsUncounted(q) ==  \* wrong: the log entry written before the project is told
  \/ q.phase = "recorded"
  \/ q.phase = "saved" /\ q.op \in Transitions \ {"observe", "reject"}

ReadyToLog(q) ==
  \/ q.phase = "recorded"
  \/ q.phase = "saved" /\ q.op \in Transitions \ {"approve", "observe", "reject"}

LogTransition(r) ==
  LET q == req[r] IN
  /\ Busy(r)
  /\ ReadyToLog(q)
  /\ advance[q.advance] # NoRow
  /\ Len(log[q.advance]) < MaxLog
  /\ log' = [log EXCEPT ![q.advance] =
               Append(@, [from |-> q.seen.status, to |-> Target[q.op], by |-> q.by])]
  /\ Finish(r)
  /\ UNCHANGED <<advance, reviews, documents, project, granted, counted, orphaned>>

------------------------------------------------------------------------------
\* Evidence: checked on the report in memory, refused without its row; save()
\* of a document deleted meanwhile inserts it again.
WriteDocuments(r, o, kept) ==
  /\ req[r].phase = "loaded" /\ req[r].op = o
  /\ documents' = [documents EXCEPT ![req[r].advance] = kept]
  /\ Finish(r)
  /\ UNCHANGED <<advance, log, reviews, project, granted, counted, orphaned>>

AddDocument(r) ==
  /\ On(r, req[r].advance) /\ advance[req[r].advance] # NoRow
  /\ WriteDocuments(r, "add", documents[req[r].advance] \cup {req[r].item})

ReviseDocument(r) ==
  /\ On(r, req[r].advance) /\ advance[req[r].advance] # NoRow
  /\ WriteDocuments(r, "revise", documents[req[r].advance] \cup {req[r].item})

RemoveDocument(r) ==
  /\ On(r, req[r].advance)
  /\ WriteDocuments(r, "remove", documents[req[r].advance] \ {req[r].item})

------------------------------------------------------------------------------
\* Requests of the projects component: Project.save() writes every column of
\* the row it loaded, the cumulative progress included.
LoadProject(r) ==
  /\ ~Busy(r)
  /\ req' = [req EXCEPT ![r] = [phase |-> "project", seen |-> project]]
  /\ UNCHANGED tables

SaveProject(r) ==
  /\ req[r].phase = "project"
  /\ \E s \in Stages :
       /\ req[r].seen.stage = "cancelled" => s = "cancelled"
       /\ project' = [req[r].seen EXCEPT !.stage = s]
  /\ Finish(r)
  /\ UNCHANGED <<advance, log, reviews, documents, granted, counted, orphaned>>

Serve(r) ==
  \/ Abandon(r) \/ Update(r) \/ Delete(r)
  \/ Save(r) \/ UpdateProject(r) \/ Review(r) \/ LogTransition(r)
  \/ AddDocument(r) \/ ReviseDocument(r) \/ RemoveDocument(r)
  \/ LoadProject(r) \/ SaveProject(r)

Next ==
  \/ \E a \in Advances : Create(a)
  \/ \E r \in Requests, a \in Advances, o \in Ops, i \in Documents \cup {NoItem} :
       Load(r, a, o, i)
  \/ \E r \in Requests : Serve(r)

Spec == Init /\ [][Next]_vars

------------------------------------------------------------------------------
TablesTypeOK ==
  /\ advance \in [Advances -> AdvanceRow \cup {NoRow}]
  /\ log \in [Advances -> Seq(LogEntry)]
  /\ reviews \in [Advances -> [{"observado", "rechazado"} -> Nat]]
  /\ documents \in [Advances -> SUBSET Documents]
  /\ project \in ProjectRow
  /\ granted \subseteq Percents
  /\ counted \subseteq Advances
  /\ orphaned \subseteq Advances

TypeOK ==
  /\ TablesTypeOK
  /\ req \in [Requests -> InFlight \cup ProjectRequest \cup {Idle}]

\* RN-P03, RN-P04: whatever races or dies, an entry of the log names an edge
\* of the state machine, and someone whom the code lets take that edge.  Any
\* member of the project stands in for the creator; the specification of the
\* advances names the creator and admins only.
Authority(from, to) ==
  IF from = "rechazado" \/ to = "enviado"
  THEN {"creator", "member", "admin"}
  ELSE {"director", "admin"}

LogIsTruthful ==
  \A a \in Advances : \A i \in DOMAIN log[a] :
    LET e == log[a][i] IN
    /\ <<e.from, e.to>> \in Edges
    /\ e.by \in Authority(e.from, e.to)

Entries(a, s) == {i \in DOMAIN log[a] : log[a][i].to = s}

\* RN-P05: the review comes before the log entry, so a log that says observed
\* or rejected has a review for each time it says so, even after a crash.  But
\* for one race: a request that held the draft deletes the report, and so the
\* review, before the entry is written, and another one puts the row back.
ReviewedBeforeLogged ==
  \A a \in Advances \ orphaned, s \in {"observado", "rechazado"} :
    Cardinality(Entries(a, s)) <= reviews[a][s]

\* RN-P08: an approval that the log tells of was written to the project before;
\* one that the project was never told of has left no entry.  Nothing takes
\* back an approved report whose request died in between.
ApprovalsLoggedAreCounted ==
  \A a \in Advances : Entries(a, "aprobado") # {} => a \in counted

\* RN-P08: the cumulative progress of the project, and what any project
\* request still holds of it, is nothing or a percentage that was approved;
\* racing approvals and stale project writes may only choose which.
ProgressWasGranted ==
  LET honest == {0} \cup granted IN
  /\ project.cumulative \in honest
  /\ \A r \in Requests : req[r].phase = "project" => req[r].seen.cumulative \in honest

HeldAsDraft(a) == \E r \in Requests : On(r, a) /\ req[r].seen.status = "borrador"

\* Evidence is frozen by the submission: documents of a report that is no
\* draft, and that no request holds as one, stay as they are.
EvidenceFrozen ==
  [][\A a \in Advances :
       advance[a] # NoRow /\ advance[a].status # "borrador" /\ ~HeldAsDraft(a)
         => documents'[a] = documents[a] /\ advance'[a] # NoRow]_vars
==============================================================================
