------------------------------- MODULE Reports -------------------------------
(***************************************************************************)
(* Institutional reports about the project, over its progress reports: the *)
(* PDF views that issue them and their approval by the center director.    *)
(*                                                                         *)
(* An approval looks for the newest report, issues a draft if there is     *)
(* none, refuses a project report while advances wait for a decision       *)
(* (RN-017), and records itself before it marks the report.  Each step is  *)
(* a statement of its own: other requests run in between.                  *)
(***************************************************************************)
EXTENDS Progress

CONSTANTS Kinds,      \* report types asked for
          MaxIssued   \* bound: reports issued

ReportTypes == {"project", "researcher", "center", "advances"}
ReportStatuses == {"draft", "generated", "approved"}

ASSUME ReportsAssumption == Kinds \subseteq ReportTypes /\ MaxIssued \in Nat

VARIABLE issued   \* reports_report, oldest first; "signed": has a ReportApproval

rvars == <<vars, issued>>

Issue == [kind : Kinds, status : ReportStatuses, signed : BOOLEAN]

\* Requests of the approval view.
Approver ==
  [phase : {"approving"}, kind : Kinds]
    \cup [phase : {"found", "judged", "signed"}, kind : Kinds, report : 1..MaxIssued]

ReportsInit == Init /\ issued = <<>>

------------------------------------------------------------------------------
IssuedRoom ==
  Len(issued) + Cardinality({r \in Requests : req[r].phase = "approving"}) < MaxIssued

\* ordering = ["-created_at"]: first() is the newest.
Of(kind) == {i \in DOMAIN issued : issued[i].kind = kind}
Newest(kind) == CHOOSE i \in Of(kind) : \A j \in Of(kind) : j <= i

PendingStatuses == {"enviado", "en_revision", "observado"}
IsPending(row) == row # NoRow /\ row.status \in PendingStatuses
Pending == {a \in Advances : IsPending(advance[a])}

Generate(kind) ==
  /\ IssuedRoom
  /\ issued' = Append(issued, [kind |-> kind, status |-> "generated", signed |-> FALSE])
  /\ UNCHANGED vars

\* The view's permission: a director of the center, or an admin.
Ask(r, kind) ==
  /\ ~Busy(r)
  /\ IssuedRoom
  /\ Actors \cap {"director", "admin"} # {}
  /\ req' = [req EXCEPT ![r] = [phase |-> "approving", kind |-> kind]]
  /\ UNCHANGED <<tables, issued>>

FindOrDraft(r) ==
  LET kind == req[r].kind
      found(i) == [phase |-> "found", kind |-> kind, report |-> i]
  IN
  /\ req[r].phase = "approving"
  /\ \/ /\ Of(kind) # {}
        /\ req' = [req EXCEPT ![r] = found(Newest(kind))]
        /\ UNCHANGED issued
     \/ /\ Of(kind) = {}
        /\ issued' = Append(issued, [kind |-> kind, status |-> "draft", signed |-> FALSE])
        /\ req' = [req EXCEPT ![r] = found(Len(issued) + 1)]
  /\ UNCHANGED tables

\* RN-017, for project reports only.  Nothing is locked: an advance may start to
\* wait while the two writes of the approval are still to come.
Clears(kind) == kind = "project" => Pending = {}

Judge(r) ==
  /\ req[r].phase = "found"
  /\ Clears(req[r].kind)
  /\ req' = [req EXCEPT ![r].phase = "judged"]
  /\ UNCHANGED <<tables, issued>>

\* What each of the two writes of an approval leaves in the report.
SignsLate(row, phase) ==  \* wrong: the status saved before the approval record
  IF phase = "judged" THEN [row EXCEPT !.status = "approved"] ELSE [row EXCEPT !.signed = TRUE]

Signs(row, phase) ==
  IF phase = "judged" THEN [row EXCEPT !.signed = TRUE] ELSE [row EXCEPT !.status = "approved"]

Sign(r) ==
  LET q == req[r] IN
  /\ q.phase = "judged"
  /\ issued' = [issued EXCEPT ![q.report] = Signs(@, "judged")]
  /\ req' = [req EXCEPT ![r].phase = "signed"]
  /\ UNCHANGED tables

MarkApproved(r) ==
  LET q == req[r] IN
  /\ q.phase = "signed"
  /\ issued' = [issued EXCEPT ![q.report] = Signs(@, "signed")]
  /\ Finish(r)
  /\ UNCHANGED tables

Approve(r) == FindOrDraft(r) \/ Judge(r) \/ Sign(r) \/ MarkApproved(r)

ReportsNext ==
  \/ Next /\ UNCHANGED issued
  \/ \E kind \in Kinds : Generate(kind)
  \/ \E r \in Requests, kind \in Kinds : Ask(r, kind)
  \/ \E r \in Requests : Approve(r)

ReportsSpec == ReportsInit /\ [][ReportsNext]_rvars

------------------------------------------------------------------------------
ReportsTypeOK ==
  /\ TablesTypeOK
  /\ issued \in Seq(Issue) /\ Len(issued) <= MaxIssued
  /\ req \in [Requests -> InFlight \cup ProjectRequest \cup Approver \cup {Idle}]

\* RN-018: a report that says approved has its approval record, wherever the
\* request that approved it stopped.
ApprovedIsSigned ==
  \A i \in DOMAIN issued : issued[i].status = "approved" => issued[i].signed
==============================================================================
