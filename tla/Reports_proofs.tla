---------------------------- MODULE Reports_proofs ----------------------------
(***************************************************************************)
(* Proofs about Progress and Reports, for any number of progress reports,  *)
(* documents, requests and issued reports.                                 *)
(***************************************************************************)
EXTENDS Reports, FiniteSetTheorems, NaturalsInduction, WellFoundedInduction, TLAPS

(***************************************************************************)
(* The invariant.  A request that passed its guards keeps what they saw:   *)
(* the statements it still has to make rely on that and not on the tables. *)
(* What it relies on in the tables (an approved percentage, the report it  *)
(* found, its approval record) is never taken back.                        *)
(***************************************************************************)

AnyRequest == InFlight \cup ProjectRequest \cup Approver \cup {Idle}

HonestTransition(q) ==
  q.phase \in {"loaded", "saved", "recorded"} =>
    /\ Accepted(q)
    /\ Permitted(q.by, q.op, q.seen.status)
    /\ q.op \in DocumentOps => q.item \in Documents
    /\ q.phase = "saved" => q.op \in Transitions
    /\ q.phase = "recorded" => q.op \in {"approve", "observe", "reject"}
    /\ q.phase # "loaded" /\ q.op = "approve" => q.seen.percent \in granted

HonestProject(q) == q.phase = "project" => q.seen.cumulative \in {0} \cup granted

HonestApproval(q) ==
  /\ q.phase \in {"found", "judged", "signed"} => q.report \in DOMAIN issued
  /\ q.phase = "signed" => issued[q.report].signed

Honest(q) == HonestTransition(q) /\ HonestProject(q) /\ HonestApproval(q)

RequestsHonest == \A r \in Requests : Honest(req[r])

\* Every request that asked for an approval may still issue the report.
Approving == {r \in Requests : req[r].phase = "approving"}
RoomLeft == IsFiniteSet(Approving) /\ Len(issued) + Cardinality(Approving) <= MaxIssued

RInv ==
  /\ ReportsTypeOK
  /\ RequestsHonest
  /\ RoomLeft
  /\ LogIsTruthful
  /\ project.cumulative \in {0} \cup granted
  /\ ApprovedIsSigned

------------------------------------------------------------------------------
\* The phase of a request tells what kind of request it is.
LEMMA PhaseTells ==
  ASSUME NEW q \in AnyRequest
  PROVE  /\ q.phase \in {"loaded", "saved", "recorded"} => q \in InFlight
         /\ q.phase = "project" => q \in ProjectRequest
         /\ q.phase = "approving" => q \in [phase : {"approving"}, kind : Kinds]
         /\ q.phase \in {"found", "judged", "signed"} =>
              q \in [phase : {"found", "judged", "signed"}, kind : Kinds, report : 1..MaxIssued]
         /\ q.phase = "idle" => q = Idle
BY DEF AnyRequest, InFlight, ProjectRequest, Approver, Idle

LEMMA RequestTyped ==
  ASSUME RInv, NEW r \in Requests
  PROVE  req[r] \in AnyRequest /\ Honest(req[r])
BY DEF RInv, ReportsTypeOK, AnyRequest, RequestsHonest

LEMMA RequestStep ==
  ASSUME RInv, NEW r \in Requests, NEW q \in AnyRequest, Honest(q)',
         req' = [req EXCEPT ![r] = q], granted \subseteq granted',
         DOMAIN issued \subseteq DOMAIN issued',
         \A i \in DOMAIN issued : issued[i].signed => issued'[i].signed
  PROVE  /\ req' \in [Requests -> AnyRequest]
         /\ \A s \in Requests : req'[s] = IF s = r THEN q ELSE req[s]
         /\ RequestsHonest'
<1>1. /\ req' \in [Requests -> AnyRequest]
      /\ \A s \in Requests : req'[s] = IF s = r THEN q ELSE req[s]
  BY DEF RInv, ReportsTypeOK, AnyRequest
<1>2. ASSUME NEW s \in Requests \ {r}
      PROVE  Honest(req[s])'
  <2>1. PICK p \in AnyRequest : p = req[s] /\ Honest(p) /\ req'[s] = p
    BY <1>1, RequestTyped
  <2>2. HonestTransition(p)' /\ HonestProject(p)'
    BY <2>1 DEF Honest, HonestTransition, HonestProject
  <2>3. HonestApproval(p)'
    BY <2>1 DEF Honest, HonestApproval
  <2>4. Honest(p)'
    BY <2>2, <2>3 DEF Honest
  <2> QED  BY <2>1, <2>4
<1>3. Honest(req[r])'
  BY <1>1
<1> QED  BY <1>1, <1>2, <1>3 DEF RequestsHonest

\* The step of a request that issues no report.
LEMMA QuietStep ==
  ASSUME RInv, NEW r \in Requests, NEW q \in AnyRequest, q.phase # "approving",
         req' = [req EXCEPT ![r] = q], UNCHANGED issued, granted \subseteq granted',
         TablesTypeOK', LogIsTruthful',
         project'.cumulative \in {0} \cup granted',
         Honest(q)'
  PROVE  RInv'
<1>1. /\ req' \in [Requests -> AnyRequest]
      /\ \A s \in Requests : req'[s] = IF s = r THEN q ELSE req[s]
      /\ RequestsHonest'
  BY RequestStep
<1>2. RoomLeft'
  <2>1. Approving' \subseteq Approving
    BY <1>1 DEF Approving
  <2>2. Cardinality(Approving) \in Nat /\ IsFiniteSet(Approving)
    BY FS_CardinalityType DEF RInv, RoomLeft
  <2>3. IsFiniteSet(Approving') /\ Cardinality(Approving') <= Cardinality(Approving)
    BY <2>1, <2>2, FS_Subset
  <2>4. Cardinality(Approving') \in Nat /\ Len(issued) \in Nat /\ MaxIssued \in Nat
    BY <2>3, FS_CardinalityType, ReportsAssumption DEF RInv, ReportsTypeOK
  <2> QED  BY <2>2, <2>3, <2>4 DEF RInv, RoomLeft
<1> QED  BY <1>1, <1>2 DEF RInv, ReportsTypeOK, AnyRequest, ApprovedIsSigned

------------------------------------------------------------------------------
(* The steps of Progress. *)

LEMMA StaysHonest ==
  ASSUME NEW q, Honest(q), granted \subseteq granted', UNCHANGED issued
  PROVE  Honest(q)'
<1>1. HonestTransition(q)' /\ HonestProject(q)'
  BY DEF Honest, HonestTransition, HonestProject
<1>2. HonestApproval(q)'
  BY DEF Honest, HonestApproval
<1> QED  BY <1>1, <1>2 DEF Honest

LEMMA IdleIsHonest ==
  Idle \in AnyRequest /\ Idle.phase = "idle" /\ Honest(Idle)
BY DEF AnyRequest, Idle, Honest, HonestTransition, HonestProject, HonestApproval

\* A request that is done, or that dies, and the tables it leaves.
LEMMA FinishStep ==
  ASSUME RInv, NEW r \in Requests, Finish(r), UNCHANGED issued, granted \subseteq granted',
         TablesTypeOK', LogIsTruthful',
         project'.cumulative \in {0} \cup granted'
  PROVE  RInv'
<1>1. Honest(Idle)'
  BY IdleIsHonest, StaysHonest
<1> QED  BY <1>1, IdleIsHonest, QuietStep DEF Finish

LEMMA CreateStep ==
  ASSUME RInv, NEW a \in Advances, Create(a), UNCHANGED issued
  PROVE  RInv'
<1>1. TablesTypeOK'
  BY DEF Create, RInv, ReportsTypeOK, TablesTypeOK, AdvanceRow, AdvanceStatuses
<1>2. RequestsHonest'
  BY DEF Create, RInv, RequestsHonest, Honest, HonestTransition, HonestProject, HonestApproval
<1>3. RoomLeft' /\ LogIsTruthful' /\ ApprovedIsSigned'
  BY DEF Create, RInv, RoomLeft, Approving, LogIsTruthful, ApprovedIsSigned
<1> QED  BY <1>1, <1>2, <1>3 DEF Create, RInv, ReportsTypeOK

LEMMA LoadStep ==
  ASSUME RInv, NEW r \in Requests, NEW a \in Advances, NEW o \in Ops,
         NEW i \in Documents \cup {NoItem}, Load(r, a, o, i), UNCHANGED issued
  PROVE  RInv'
<1>1. PICK by \in Actors, row \in AdvanceRow :
        LET q == [phase |-> "loaded", op |-> o, by |-> by, advance |-> a,
                  item |-> i, seen |-> row]
        IN  row = advance[a] /\ (o \in DocumentOps => i \in Documents) /\ Permitted(by, o, row.status) /\ Accepted(q)
              /\ req' = [req EXCEPT ![r] = q]
  BY DEF Load, RInv, ReportsTypeOK, TablesTypeOK
<1> DEFINE q == [phase |-> "loaded", op |-> o, by |-> by, advance |-> a,
                 item |-> i, seen |-> row]
<1>2. q \in AnyRequest /\ Honest(q)
  BY <1>1 DEF AnyRequest, InFlight, Honest, HonestTransition, HonestProject, HonestApproval
<1>3. UNCHANGED tables /\ q.phase # "approving"
  BY DEF Load
<1>4. Honest(q)'
  BY <1>2, <1>3, StaysHonest DEF tables
<1> HIDE DEF q
<1> QED
  BY <1>1, <1>2, <1>3, <1>4, QuietStep DEF q, tables, RInv, ReportsTypeOK, TablesTypeOK, LogIsTruthful

LEMMA TransitionTyped ==
  ASSUME NEW o \in Transitions
  PROVE  Target[o] \in AdvanceStatuses
BY DEF Transitions, Sources, Target, AdvanceStatuses

\* A request at work, as a value.
LEMMA AtWork ==
  ASSUME RInv, NEW r \in Requests, req[r].phase \in {"loaded", "saved", "recorded"}
  PROVE  /\ req[r] \in InFlight /\ HonestTransition(req[r])
         /\ req[r].advance \in Advances /\ req[r].seen \in AdvanceRow
BY RequestTyped, PhaseTells DEF Honest, InFlight

LEMMA WriteAdvanceStep ==
  ASSUME RInv, NEW a \in Advances, NEW w \in AdvanceRow, WriteAdvance(a, w),
         UNCHANGED <<log, reviews, documents, project, counted, orphaned>>
  PROVE  /\ TablesTypeOK' /\ granted \subseteq granted'
         /\ LogIsTruthful'
         /\ project'.cumulative \in {0} \cup granted'
<1>1. granted \subseteq granted' /\ granted' \subseteq Percents
  BY DEF WriteAdvance, AdvanceRow, RInv, ReportsTypeOK, TablesTypeOK
<1>2. TablesTypeOK'
  BY <1>1 DEF WriteAdvance, RInv, ReportsTypeOK, TablesTypeOK
<1> QED  BY <1>1, <1>2 DEF RInv, LogIsTruthful

LEMMA UpdateStep ==
  ASSUME RInv, NEW r \in Requests, Update(r), UNCHANGED issued
  PROVE  RInv'
<1>1. PICK a \in Advances, w \in AdvanceRow : WriteAdvance(a, w)
  BY AtWork DEF Update, AdvanceRow
<1>2. UNCHANGED <<log, reviews, documents, project, counted, orphaned>> /\ Finish(r)
  BY DEF Update
<1> QED  BY <1>1, <1>2, WriteAdvanceStep, FinishStep

LEMMA DeleteStep ==
  ASSUME RInv, NEW r \in Requests, Delete(r), UNCHANGED issued
  PROVE  RInv'
<1>1. PICK a \in Advances :
        /\ advance' = [advance EXCEPT ![a] = NoRow]
        /\ log' = [log EXCEPT ![a] = <<>>]
        /\ reviews' = [reviews EXCEPT ![a] = NoReviews]
        /\ documents' = [documents EXCEPT ![a] = {}]
        /\ orphaned' \in {orphaned, orphaned \cup {a}}
  BY AtWork DEF Delete
<1>2. /\ log' \in [Advances -> Seq(LogEntry)]
      /\ \A b \in Advances : log'[b] = IF b = a THEN <<>> ELSE log[b]
  BY <1>1 DEF RInv, ReportsTypeOK, TablesTypeOK
<1>3. NoReviews \in [{"observado", "rechazado"} -> Nat]
  BY DEF NoReviews
<1>4. TablesTypeOK'
  <2>1. orphaned' \subseteq Advances
    BY <1>1 DEF RInv, ReportsTypeOK, TablesTypeOK
  <2>2. reviews' \in [Advances -> [{"observado", "rechazado"} -> Nat]]
    <3> HIDE DEF NoReviews
    <3> QED  BY <1>1, <1>3 DEF RInv, ReportsTypeOK, TablesTypeOK
  <2>3. /\ advance' \in [Advances -> AdvanceRow \cup {NoRow}]
        /\ documents' \in [Advances -> SUBSET Documents]
        /\ UNCHANGED <<project, granted, counted>>
    BY <1>1 DEF Delete, RInv, ReportsTypeOK, TablesTypeOK
  <2> QED  BY <1>2, <2>1, <2>2, <2>3 DEF RInv, ReportsTypeOK, TablesTypeOK
<1>5. LogIsTruthful'
  <2>1. \A b \in Advances : \A i \in DOMAIN log'[b] : b # a /\ log'[b] = log[b]
    <3> TAKE b \in Advances
    <3>1. CASE b = a
      BY <1>2, <3>1
    <3>2. CASE b # a
      BY <1>2, <3>2
    <3> QED  BY <3>1, <3>2
  <2> QED  BY <2>1 DEF RInv, LogIsTruthful
<1> QED  BY <1>2, <1>4, <1>5, FinishStep DEF Delete, RInv

LEMMA SaveStep ==
  ASSUME RInv, NEW r \in Requests, Save(r), UNCHANGED issued
  PROVE  RInv'
<1>1. PICK q \in InFlight :
        q = req[r] /\ q.phase = "loaded" /\ q.op \in Transitions /\ HonestTransition(q)
  BY AtWork DEF Save
<1> DEFINE w == [q.seen EXCEPT !.status = Target[q.op]]
           p == [q EXCEPT !.phase = "saved"]
<1>2. w \in AdvanceRow /\ w.percent = q.seen.percent /\ w.status = Target[q.op]
  BY <1>1, TransitionTyped DEF InFlight, AdvanceRow
<1>3. /\ p \in InFlight /\ p.phase = "saved" /\ p.op = q.op /\ p.by = q.by /\ p.seen = q.seen
      /\ p.item = q.item
  BY DEF InFlight
<1>4. /\ WriteAdvance(q.advance, w) /\ req' = [req EXCEPT ![r] = p]
      /\ UNCHANGED <<log, reviews, documents, project, counted, orphaned>>
  BY <1>1 DEF Save
<1>5. p.op = "approve" => p.seen.percent \in granted'
  BY <1>2, <1>3, <1>4 DEF WriteAdvance, Target
<1> HIDE DEF w, p
<1>6. Honest(p)'
  BY <1>1, <1>3, <1>5 DEF Honest, HonestTransition, HonestProject, HonestApproval, Accepted
<1>7. q.advance \in Advances /\ p \in AnyRequest
  BY <1>3 DEF InFlight, AnyRequest
<1> QED  BY <1>2, <1>3, <1>4, <1>6, <1>7, WriteAdvanceStep, QuietStep

LEMMA UpdateProjectStep ==
  ASSUME RInv, NEW r \in Requests, UpdateProject(r), UNCHANGED issued
  PROVE  RInv'
<1>1. PICK q \in InFlight :
        q = req[r] /\ q.phase = "saved" /\ q.op = "approve" /\ HonestTransition(q)
  BY AtWork DEF UpdateProject
<1> DEFINE p == [q EXCEPT !.phase = "recorded"]
<1>2. /\ p \in InFlight /\ p.phase = "recorded" /\ p.op = q.op /\ p.by = q.by /\ p.seen = q.seen
      /\ p.item = q.item
  BY DEF InFlight
<1>3. project' = [project EXCEPT !.cumulative = q.seen.percent]
  BY <1>1 DEF UpdateProject, CumulativeProgress
<1>4. project' \in ProjectRow /\ project'.cumulative = q.seen.percent
  BY <1>3 DEF RInv, ReportsTypeOK, TablesTypeOK, ProjectRow, InFlight, AdvanceRow
<1>5. q.seen.percent \in granted
  BY <1>1 DEF HonestTransition
<1>6. req' = [req EXCEPT ![r] = p] /\ counted' \subseteq Advances
      /\ UNCHANGED <<advance, log, reviews, documents, granted, orphaned>>
  BY <1>1 DEF UpdateProject, InFlight, RInv, ReportsTypeOK, TablesTypeOK
<1> HIDE DEF p
<1>7. Honest(p)'
  BY <1>1, <1>2, <1>6 DEF Honest, HonestTransition, HonestProject, HonestApproval, Accepted
<1>8. TablesTypeOK' /\ LogIsTruthful' /\ p \in AnyRequest
  BY <1>2, <1>4, <1>6 DEF RInv, ReportsTypeOK, TablesTypeOK, LogIsTruthful, AnyRequest
<1> QED  BY <1>2, <1>4, <1>5, <1>6, <1>7, <1>8, QuietStep DEF RInv

LEMMA ReviewStep ==
  ASSUME RInv, NEW r \in Requests, Review(r), UNCHANGED issued
  PROVE  RInv'
<1>1. PICK q \in InFlight :
        q = req[r] /\ q.phase = "saved" /\ q.op \in {"observe", "reject"} /\ HonestTransition(q)
  BY AtWork DEF Review
<1> DEFINE p == [q EXCEPT !.phase = "recorded"]
<1>2. /\ p \in InFlight /\ p.phase = "recorded" /\ p.op = q.op /\ p.by = q.by /\ p.seen = q.seen
      /\ p.item = q.item
  BY DEF InFlight
<1>3. PICK a \in Advances, s \in {"observado", "rechazado"} :
        reviews' = [reviews EXCEPT ![a][s] = @ + 1]
  <2>1. q.advance \in Advances /\ Target[q.op] \in {"observado", "rechazado"}
    BY <1>1 DEF Target, InFlight
  <2>2. reviews' = [reviews EXCEPT ![q.advance][Target[q.op]] = @ + 1]
    BY <1>1 DEF Review
  <2> QED  BY <2>1, <2>2
<1>4. reviews' \in [Advances -> [{"observado", "rechazado"} -> Nat]]
  <2>1. reviews[a][s] + 1 \in Nat
    BY DEF RInv, ReportsTypeOK, TablesTypeOK
  <2>2. [reviews[a] EXCEPT ![s] = @ + 1] \in [{"observado", "rechazado"} -> Nat]
    BY <2>1 DEF RInv, ReportsTypeOK, TablesTypeOK
  <2>3. reviews' = [reviews EXCEPT ![a] = [reviews[a] EXCEPT ![s] = @ + 1]]
    BY <1>3
  <2> QED  BY <2>2, <2>3 DEF RInv, ReportsTypeOK, TablesTypeOK
<1>5. req' = [req EXCEPT ![r] = p] /\ UNCHANGED <<advance, log, documents, project, granted, counted, orphaned>>
  BY <1>1 DEF Review
<1> HIDE DEF p
<1>6. Honest(p)'
  BY <1>1, <1>2, <1>5 DEF Honest, HonestTransition, HonestProject, HonestApproval, Accepted
<1>7. TablesTypeOK' /\ LogIsTruthful' /\ p \in AnyRequest
  BY <1>2, <1>4, <1>5 DEF RInv, ReportsTypeOK, TablesTypeOK, LogIsTruthful, AnyRequest
<1> QED  BY <1>2, <1>5, <1>6, <1>7, QuietStep DEF RInv

\* What the guards of a transition checked makes its log entry true.
LEMMA EntryIsTruthful ==
  ASSUME NEW q, HonestTransition(q), q.phase \in {"saved", "recorded"}, ReadyToLog(q)
  PROVE  /\ q.op \in Transitions
         /\ <<q.seen.status, Target[q.op]>> \in Edges
         /\ q.by \in Authority(q.seen.status, Target[q.op])
<1>1. q.op \in Transitions
  BY DEF HonestTransition, Transitions, Sources
<1>2. q.seen.status \in Sources[q.op] /\ Permitted(q.by, q.op, q.seen.status)
  BY <1>1 DEF HonestTransition, Accepted
<1>3. <<q.seen.status, Target[q.op]>> \in Edges
  BY <1>1, <1>2 DEF Edges
<1>4. q.by \in Authority(q.seen.status, Target[q.op])
  BY <1>1, <1>2 DEF Authority, Permitted, Authors, AuthorOps, DirectorOps, Transitions, Sources, Target, DocumentOps
<1> QED  BY <1>1, <1>3, <1>4

LEMMA LogTransitionStep ==
  ASSUME RInv, NEW r \in Requests, LogTransition(r), UNCHANGED issued
  PROVE  RInv'
<1>1. req[r].phase \in {"saved", "recorded"}
  BY DEF LogTransition, ReadyToLog
<1>2. PICK q \in InFlight :
        q = req[r] /\ HonestTransition(q) /\ ReadyToLog(q) /\ q.phase \in {"saved", "recorded"}
  BY <1>1, AtWork DEF LogTransition
<1> DEFINE e == [from |-> q.seen.status, to |-> Target[q.op], by |-> q.by]
<1>3. PICK a \in Advances : a = q.advance
  BY DEF InFlight
<1>4. /\ e \in LogEntry /\ <<e.from, e.to>> \in Edges /\ e.by \in Authority(e.from, e.to)
  BY <1>2, EntryIsTruthful, TransitionTyped DEF LogEntry, InFlight, AdvanceRow
<1>5. log' = [log EXCEPT ![a] = Append(@, e)]
  BY <1>2, <1>3 DEF LogTransition
<1> HIDE DEF e
<1>6. log[a] \in Seq(LogEntry) /\ log \in [Advances -> Seq(LogEntry)]
  BY DEF RInv, ReportsTypeOK, TablesTypeOK
<1>7. \A i \in DOMAIN Append(log[a], e) :
        \/ i \in DOMAIN log[a] /\ Append(log[a], e)[i] = log[a][i]
        \/ Append(log[a], e)[i] = e
  BY <1>4, <1>6
<1>8. /\ log' \in [Advances -> Seq(LogEntry)]
      /\ \A b \in Advances : log'[b] = IF b = a THEN Append(log[a], e) ELSE log[b]
  BY <1>4, <1>5, <1>6
<1>9. TablesTypeOK'
  BY <1>8 DEF LogTransition, RInv, ReportsTypeOK, TablesTypeOK
<1>10. LogIsTruthful'
  BY <1>4, <1>7, <1>8 DEF RInv, LogIsTruthful
<1> QED  BY <1>9, <1>10, FinishStep DEF LogTransition, RInv

LEMMA DocumentsStep ==
  ASSUME RInv, NEW r \in Requests, AddDocument(r) \/ ReviseDocument(r) \/ RemoveDocument(r),
         UNCHANGED issued
  PROVE  RInv'
<1>1. PICK q \in InFlight : q = req[r] /\ HonestTransition(q) /\ q.phase = "loaded"
  BY AtWork DEF AddDocument, ReviseDocument, RemoveDocument, WriteDocuments
<1>2. PICK o \in DocumentOps, kept \in {documents[q.advance] \cup {q.item},
                                        documents[q.advance] \ {q.item}} :
        WriteDocuments(r, o, kept)
  BY <1>1 DEF AddDocument, ReviseDocument, RemoveDocument, DocumentOps
<1>3. q.advance \in Advances /\ q.item \in Documents
  BY <1>1, <1>2 DEF WriteDocuments, HonestTransition, InFlight
<1>4. documents' \in [Advances -> SUBSET Documents]
  BY <1>1, <1>2, <1>3 DEF WriteDocuments, RInv, ReportsTypeOK, TablesTypeOK
<1>5. TablesTypeOK' /\ LogIsTruthful'
  BY <1>2, <1>4 DEF WriteDocuments, RInv, ReportsTypeOK, TablesTypeOK, LogIsTruthful
<1> QED  BY <1>2, <1>5, FinishStep DEF WriteDocuments, RInv

LEMMA LoadProjectStep ==
  ASSUME RInv, NEW r \in Requests, LoadProject(r), UNCHANGED issued
  PROVE  RInv'
<1>1. PICK row \in ProjectRow : row = project /\ row.cumulative \in {0} \cup granted
  BY DEF RInv, ReportsTypeOK, TablesTypeOK
<1> DEFINE q == [phase |-> "project", seen |-> row]
<1>2. q \in AnyRequest /\ Honest(q)
  BY <1>1 DEF AnyRequest, ProjectRequest, Honest, HonestTransition, HonestProject, HonestApproval
<1>3. UNCHANGED tables /\ q.phase # "approving" /\ req' = [req EXCEPT ![r] = q]
  BY <1>1 DEF LoadProject
<1> HIDE DEF q
<1>4. Honest(q)'
  BY <1>2, <1>3, StaysHonest DEF tables
<1> QED
  BY <1>2, <1>3, <1>4, QuietStep DEF tables, RInv, ReportsTypeOK, TablesTypeOK, LogIsTruthful

LEMMA SaveProjectStep ==
  ASSUME RInv, NEW r \in Requests, SaveProject(r), UNCHANGED issued
  PROVE  RInv'
<1>1. PICK q \in ProjectRequest : q = req[r] /\ q.seen.cumulative \in {0} \cup granted
  BY RequestTyped, PhaseTells DEF SaveProject, Honest, HonestProject
<1>2. PICK row \in ProjectRow : project' = row /\ row.cumulative = q.seen.cumulative
  BY <1>1 DEF SaveProject, ProjectRequest, ProjectRow
<1>3. TablesTypeOK' /\ LogIsTruthful'
  BY <1>2 DEF SaveProject, RInv, ReportsTypeOK, TablesTypeOK, LogIsTruthful
<1> QED  BY <1>1, <1>2, <1>3, FinishStep DEF SaveProject, RInv

LEMMA AbandonStep ==
  ASSUME RInv, NEW r \in Requests, Abandon(r), UNCHANGED issued
  PROVE  RInv'
BY FinishStep DEF Abandon, tables, RInv, ReportsTypeOK, TablesTypeOK, LogIsTruthful

------------------------------------------------------------------------------
(* The steps of Reports. *)

\* A new report, of which nothing is known yet.
LEMMA IssueStep ==
  ASSUME RInv, NEW row \in Issue, row.status # "approved", issued' = Append(issued, row)
  PROVE  /\ issued' \in Seq(Issue) /\ Len(issued') = Len(issued) + 1 /\ Len(issued) \in Nat
         /\ Len(issued) + 1 \in DOMAIN issued'
         /\ \A i \in DOMAIN issued : i \in DOMAIN issued' /\ issued'[i] = issued[i]
         /\ ApprovedIsSigned'
<1>1. issued \in Seq(Issue)
  BY DEF RInv, ReportsTypeOK
<1>2. /\ issued' \in Seq(Issue) /\ Len(issued') = Len(issued) + 1 /\ Len(issued) \in Nat
      /\ Len(issued) + 1 \in DOMAIN issued'
      /\ \A i \in DOMAIN issued : i \in DOMAIN issued' /\ issued'[i] = issued[i]
      /\ \A i \in DOMAIN issued' : i \in DOMAIN issued \/ issued'[i] = row
  BY <1>1
<1> QED  BY <1>2 DEF RInv, ApprovedIsSigned

LEMMA RoomTyped ==
  ASSUME RInv
  PROVE  /\ IsFiniteSet(Approving) /\ Cardinality(Approving) \in Nat
         /\ Len(issued) \in Nat /\ MaxIssued \in Nat
BY FS_CardinalityType, ReportsAssumption DEF RInv, RoomLeft, ReportsTypeOK

LEMMA GenerateStep ==
  ASSUME RInv, NEW kind \in Kinds, Generate(kind)
  PROVE  RInv'
<1> DEFINE row == [kind |-> kind, status |-> "generated", signed |-> FALSE]
<1>1. row \in Issue /\ row.status # "approved"
  BY DEF Issue, ReportStatuses
<1>2. issued' = Append(issued, row) /\ UNCHANGED vars
  BY DEF Generate
<1> HIDE DEF row
<1>3. /\ issued' \in Seq(Issue) /\ Len(issued') = Len(issued) + 1
      /\ \A i \in DOMAIN issued : i \in DOMAIN issued' /\ issued'[i] = issued[i]
      /\ ApprovedIsSigned'
  BY <1>1, <1>2, IssueStep
<1>4. RoomLeft' /\ Len(issued') <= MaxIssued
  <2>1. Approving' = Approving
    BY <1>2 DEF Approving, vars
  <2>2. Len(issued) + Cardinality(Approving) < MaxIssued
    BY DEF Generate, IssuedRoom, Approving
  <2> QED  BY <1>3, <2>1, <2>2, RoomTyped DEF RoomLeft
<1>5. ASSUME NEW s \in Requests
      PROVE  Honest(req[s])'
  <2>1. PICK q : q = req[s] /\ q = req'[s] /\ Honest(q)
    BY <1>2, RequestTyped DEF vars
  <2>2. HonestTransition(q)' /\ HonestProject(q)'
    BY <1>2, <2>1 DEF Honest, HonestTransition, HonestProject, vars, tables
  <2>3. HonestApproval(q)'
    BY <1>3, <2>1 DEF Honest, HonestApproval
  <2>4. Honest(q)'
    BY <2>2, <2>3 DEF Honest
  <2> QED  BY <2>1, <2>4
<1> QED  BY <1>2, <1>3, <1>4, <1>5
         DEF vars, tables, RInv, RequestsHonest, ReportsTypeOK, TablesTypeOK, LogIsTruthful

LEMMA AskStep ==
  ASSUME RInv, NEW r \in Requests, NEW kind \in Kinds, Ask(r, kind)
  PROVE  RInv'
<1> DEFINE q == [phase |-> "approving", kind |-> kind]
<1>1. q \in AnyRequest /\ Honest(q) /\ q.phase = "approving"
  BY DEF AnyRequest, Approver, Honest, HonestTransition, HonestProject, HonestApproval
<1>2. req' = [req EXCEPT ![r] = q] /\ UNCHANGED <<tables, issued>>
  BY DEF Ask
<1> HIDE DEF q
<1>3. Honest(q)'
  BY <1>1, <1>2, StaysHonest DEF tables
<1>4. /\ req' \in [Requests -> AnyRequest]
      /\ \A s \in Requests : req'[s] = IF s = r THEN q ELSE req[s]
      /\ RequestsHonest'
  BY <1>1, <1>2, <1>3, RequestStep DEF tables
<1>5. RoomLeft'
  <2>1. Approving' = Approving \cup {r} /\ r \notin Approving
    BY <1>1, <1>4 DEF Approving, Ask, Busy
  <2>2. Len(issued) + Cardinality(Approving) < MaxIssued
    BY DEF Ask, IssuedRoom, Approving
  <2>3. IsFiniteSet(Approving') /\ Cardinality(Approving') = Cardinality(Approving) + 1
    BY <2>1, RoomTyped, FS_AddElement
  <2> QED  BY <1>2, <2>2, <2>3, RoomTyped DEF RoomLeft
<1> QED
  BY <1>2, <1>4, <1>5
  DEF tables, RInv, ReportsTypeOK, TablesTypeOK, AnyRequest, LogIsTruthful, ApprovedIsSigned

LEMMA GreatestExists ==
  ASSUME NEW n \in Nat, NEW S \in SUBSET (1 .. n), S # {}
  PROVE  \E i \in S : \A j \in S : j <= i
<1> DEFINE Down == {n - i : i \in S}
<1>1. Down \subseteq Nat /\ Down # {}
  <2>1. \A i \in S : n - i \in Nat
    OBVIOUS
  <2>2. Down \subseteq Nat
    BY <2>1
  <2> QED  BY <2>2
<1> HIDE DEF Down
<1>2. \E k \in Down : \A j \in Down : ~(<<j, k>> \in OpToRel(<, Nat))
  BY <1>1, NatLessThanWellFounded, WFMin
<1>3. \A j, k \in Nat : <<j, k>> \in OpToRel(<, Nat) <=> j < k
  BY DEF OpToRel
<1>4. PICK k \in Down : \A j \in Down : ~(j < k)
  BY <1>1, <1>2, <1>3
<1>5. PICK i \in S : k = n - i
  BY DEF Down
<1>6. ASSUME NEW j \in S
      PROVE  j <= i
  <2>1. ~(n - j < n - i)
    BY <1>4, <1>5 DEF Down
  <2> QED  BY <2>1
<1> QED  BY <1>6

\* The newest report is one of those there are.
LEMMA NewestIsOne ==
  ASSUME RInv, NEW kind, Of(kind) # {}
  PROVE  Newest(kind) \in DOMAIN issued /\ Newest(kind) \in 1 .. MaxIssued
<1>1. /\ issued \in Seq(Issue) /\ Of(kind) \subseteq DOMAIN issued
      /\ DOMAIN issued = 1 .. Len(issued) /\ Len(issued) \in Nat
      /\ MaxIssued \in Nat /\ Len(issued) <= MaxIssued
  BY RoomTyped DEF RInv, ReportsTypeOK, Of
<1>2. \E i \in Of(kind) : \A j \in Of(kind) : j <= i
  BY <1>1, GreatestExists
<1> QED  BY <1>1, <1>2 DEF Newest

LEMMA FindOrDraftStep ==
  ASSUME RInv, NEW r \in Requests, FindOrDraft(r)
  PROVE  RInv'
<1>1. PICK kind \in Kinds : kind = req[r].kind
  BY RequestTyped, PhaseTells DEF FindOrDraft
<1> DEFINE found(i) == [phase |-> "found", kind |-> kind, report |-> i]
<1>2. ASSUME NEW i \in 1 .. MaxIssued
      PROVE  found(i) \in AnyRequest /\ found(i).phase = "found"
  BY DEF AnyRequest, Approver
<1>3. ASSUME NEW i \in 1 .. MaxIssued, i \in DOMAIN issued'
      PROVE  Honest(found(i))'
  BY <1>3 DEF Honest, HonestTransition, HonestProject, HonestApproval
<1>4. CASE Of(kind) # {} /\ req' = [req EXCEPT ![r] = found(Newest(kind))] /\ UNCHANGED issued
  <2>1. UNCHANGED tables /\ granted \subseteq granted'
    BY DEF FindOrDraft, tables
  <2>2. PICK i \in 1 .. MaxIssued : i = Newest(kind) /\ i \in DOMAIN issued'
    BY <1>4, NewestIsOne
  <2>3. PICK q \in AnyRequest : q = found(i) /\ q.phase = "found" /\ Honest(q)'
    BY <1>2, <1>3, <2>2
  <2>4. req' = [req EXCEPT ![r] = q] /\ UNCHANGED issued
    BY <1>4, <2>2, <2>3
  <2> QED
    BY <2>1, <2>3, <2>4, QuietStep
    DEF tables, RInv, ReportsTypeOK, TablesTypeOK, LogIsTruthful
<1>5. CASE /\ issued' = Append(issued, [kind |-> kind, status |-> "draft", signed |-> FALSE])
           /\ req' = [req EXCEPT ![r] = found(Len(issued) + 1)]
  <2> DEFINE row == [kind |-> kind, status |-> "draft", signed |-> FALSE]
  <2>1. row \in Issue /\ row.status # "approved"
    BY DEF Issue, ReportStatuses
  <2>2. UNCHANGED tables /\ granted \subseteq granted' /\ issued' = Append(issued, row)
    BY <1>5 DEF FindOrDraft, tables
  <2> HIDE DEF row
  <2>3. /\ issued' \in Seq(Issue) /\ Len(issued') = Len(issued) + 1
        /\ Len(issued) + 1 \in DOMAIN issued'
        /\ \A i \in DOMAIN issued : i \in DOMAIN issued' /\ issued'[i] = issued[i]
        /\ ApprovedIsSigned'
    BY <2>1, <2>2, IssueStep
  <2>4. r \in Approving
    BY DEF FindOrDraft, Approving
  <2>5. /\ IsFiniteSet(Approving \ {r})
        /\ Cardinality(Approving \ {r}) = Cardinality(Approving) - 1
        /\ Cardinality(Approving \ {r}) \in Nat
    BY <2>4, RoomTyped, FS_RemoveElement, FS_CardinalityType
  <2>6. Len(issued') <= MaxIssued
    BY <2>3, <2>5, RoomTyped DEF RInv, RoomLeft
  <2>7. PICK i \in 1 .. MaxIssued : i = Len(issued) + 1 /\ i \in DOMAIN issued'
    BY <2>3, <2>6, RoomTyped
  <2>8. PICK q \in AnyRequest : q = found(i) /\ q.phase = "found" /\ Honest(q)'
    BY <1>2, <1>3, <2>7
  <2>9. req' = [req EXCEPT ![r] = q]
    BY <1>5, <2>7, <2>8
  <2>10. /\ req' \in [Requests -> AnyRequest]
         /\ \A s \in Requests : req'[s] = IF s = r THEN q ELSE req[s]
         /\ RequestsHonest'
    BY <2>2, <2>3, <2>8, <2>9, RequestStep
  <2>11. Approving' = Approving \ {r}
    BY <2>8, <2>10 DEF Approving
  <2>12. RoomLeft'
    BY <2>3, <2>5, <2>11, RoomTyped DEF RInv, RoomLeft
  <2> QED
    BY <2>2, <2>3, <2>6, <2>10, <2>12
    DEF tables, RInv, ReportsTypeOK, TablesTypeOK, AnyRequest, LogIsTruthful
<1> QED  BY <1>1, <1>4, <1>5 DEF FindOrDraft

LEMMA JudgeStep ==
  ASSUME RInv, NEW r \in Requests, Judge(r)
  PROVE  RInv'
<1>1. PICK old \in AnyRequest :
        /\ old = req[r] /\ old.phase = "found" /\ old.kind \in Kinds
        /\ old.report \in 1 .. MaxIssued /\ old.report \in DOMAIN issued
  BY RequestTyped, PhaseTells DEF Judge, Honest, HonestApproval
<1>2. old \in [phase : {"found", "judged", "signed"}, kind : Kinds, report : 1..MaxIssued]
  BY <1>1, PhaseTells
<1> DEFINE q == [old EXCEPT !.phase = "judged"]
<1>3. q \in AnyRequest /\ q.phase = "judged" /\ Honest(q)
  BY <1>1, <1>2
  DEF AnyRequest, Approver, Honest, HonestTransition, HonestProject, HonestApproval
<1>4. req' = [req EXCEPT ![r] = q] /\ UNCHANGED <<tables, issued>>
  BY <1>1 DEF Judge
<1> HIDE DEF q
<1>5. Honest(q)'
  BY <1>3, <1>4, StaysHonest DEF tables
<1> QED
  BY <1>3, <1>4, <1>5, QuietStep DEF tables, RInv, ReportsTypeOK, TablesTypeOK, LogIsTruthful

\* A write of the approval: the row of a report, and the request behind it.
LEMMA ApprovalWrite ==
  ASSUME RInv, NEW r \in Requests, NEW q \in AnyRequest, q.phase # "approving",
         NEW i \in DOMAIN issued, NEW row \in Issue,
         issued' = [issued EXCEPT ![i] = row], req' = [req EXCEPT ![r] = q],
         issued[i].signed => row.signed, row.status = "approved" => row.signed,
         UNCHANGED tables, Honest(q)'
  PROVE  RInv'
<1>1. /\ issued' \in Seq(Issue) /\ DOMAIN issued' = DOMAIN issued /\ Len(issued') = Len(issued)
      /\ \A j \in DOMAIN issued : issued'[j] = IF j = i THEN row ELSE issued[j]
  BY DEF RInv, ReportsTypeOK
<1>2. /\ req' \in [Requests -> AnyRequest]
      /\ \A s \in Requests : req'[s] = IF s = r THEN q ELSE req[s]
      /\ RequestsHonest'
  BY <1>1, RequestStep DEF tables
<1>3. RoomLeft'
  <2>1. Approving' \subseteq Approving
    BY <1>2 DEF Approving
  <2>2. /\ IsFiniteSet(Approving') /\ Cardinality(Approving') <= Cardinality(Approving)
        /\ Cardinality(Approving') \in Nat
    BY <2>1, RoomTyped, FS_Subset, FS_CardinalityType
  <2> QED  BY <1>1, <2>2, RoomTyped DEF RInv, RoomLeft
<1>4. ApprovedIsSigned'
  BY <1>1 DEF RInv, ApprovedIsSigned
<1> QED
  BY <1>1, <1>2, <1>3, <1>4
  DEF tables, RInv, ReportsTypeOK, TablesTypeOK, AnyRequest, LogIsTruthful

LEMMA SignStep ==
  ASSUME RInv, NEW r \in Requests, Sign(r) \/ MarkApproved(r)
  PROVE  RInv'
<1>1. PICK old \in [phase : {"found", "judged", "signed"}, kind : Kinds, report : 1..MaxIssued] :
        old = req[r] /\ HonestApproval(old)
  BY RequestTyped, PhaseTells DEF Sign, MarkApproved, Honest
<1>2. PICK i \in DOMAIN issued, row \in Issue : i = old.report /\ row = issued[i]
  BY <1>1 DEF HonestApproval, RInv, ReportsTypeOK
<1>3. UNCHANGED tables /\ issued \in Seq(Issue)
  BY DEF Sign, MarkApproved, RInv, ReportsTypeOK
<1>4. CASE Sign(r)
  <2> DEFINE q == [old EXCEPT !.phase = "signed"]
             new == [row EXCEPT !.signed = TRUE]
  <2>1. new \in Issue /\ new.signed
    BY DEF Issue
  <2>2. issued' = [issued EXCEPT ![i] = new] /\ req' = [req EXCEPT ![r] = q]
    BY <1>1, <1>2, <1>4 DEF Sign, Signs
  <2>3. q \in AnyRequest /\ q.phase = "signed" /\ q.report = i
    BY <1>2 DEF AnyRequest, Approver
  <2> HIDE DEF q, new
  <2>4. i \in DOMAIN issued' /\ issued'[i] = new
    BY <1>3, <2>2
  <2>5. Honest(q)'
    BY <2>1, <2>3, <2>4 DEF Honest, HonestTransition, HonestProject, HonestApproval
  <2> QED  BY <1>2, <1>3, <2>1, <2>2, <2>3, <2>5, ApprovalWrite
<1>5. CASE MarkApproved(r)
  <2> DEFINE new == [row EXCEPT !.status = "approved"]
  <2>1. new \in Issue /\ new.signed = row.signed
    BY DEF Issue, ReportStatuses
  <2>2. row.signed
    BY <1>1, <1>2, <1>5 DEF MarkApproved, HonestApproval
  <2>3. issued' = [issued EXCEPT ![i] = new] /\ req' = [req EXCEPT ![r] = Idle]
    BY <1>1, <1>2, <1>5 DEF MarkApproved, Signs, Finish
  <2>4. Honest(Idle)'
    BY DEF Honest, HonestTransition, HonestProject, HonestApproval, Idle
  <2> HIDE DEF new
  <2> QED  BY <1>2, <1>3, <2>1, <2>2, <2>3, <2>4, IdleIsHonest, ApprovalWrite
<1> QED  BY <1>4, <1>5

LEMMA RInvariance == ReportsSpec => []RInv
<1>1. ReportsInit => RInv
  <2> SUFFICES ASSUME ReportsInit PROVE RInv
    OBVIOUS
  <2>1. NoReviews \in [{"observado", "rechazado"} -> Nat]
    BY DEF NoReviews
  <2>2. TablesTypeOK
    BY <2>1, ProgressAssumption DEF ReportsInit, Init, TablesTypeOK, ProjectRow
  <2>3. ReportsTypeOK
    BY <2>2, ReportsAssumption DEF ReportsInit, Init, ReportsTypeOK
  <2>4. RequestsHonest
    BY IdleIsHonest DEF ReportsInit, Init, RequestsHonest
  <2>5. Approving = {} /\ Len(issued) = 0
    BY DEF ReportsInit, Init, Approving, Idle
  <2>6. RoomLeft
    BY <2>5, FS_EmptySet, ReportsAssumption DEF RoomLeft
  <2> QED  BY <2>3, <2>4, <2>6 DEF ReportsInit, Init, RInv, LogIsTruthful, ApprovedIsSigned
<1>2. RInv /\ [ReportsNext]_rvars => RInv'
  <2> SUFFICES ASSUME RInv, [ReportsNext]_rvars PROVE RInv'
    OBVIOUS
  <2>1. CASE UNCHANGED rvars
    BY <2>1
    DEF rvars, vars, tables, RInv, ReportsTypeOK, TablesTypeOK, RequestsHonest, Honest,
        HonestTransition, HonestProject, HonestApproval, RoomLeft, Approving, LogIsTruthful,
        ApprovedIsSigned
  <2>2. CASE Next /\ UNCHANGED issued
    BY <2>2, CreateStep, LoadStep, AbandonStep, UpdateStep, DeleteStep, SaveStep,
       UpdateProjectStep, ReviewStep, LogTransitionStep, DocumentsStep, LoadProjectStep,
       SaveProjectStep
    DEF Next, Serve
  <2> QED
    BY <2>1, <2>2, GenerateStep, AskStep, FindOrDraftStep, JudgeStep, SignStep
    DEF ReportsNext, Approve
<1> QED  BY <1>1, <1>2, PTL DEF ReportsSpec

------------------------------------------------------------------------------
\* The tables, the issued reports and the requests in flight keep their types,
\* and no more is issued than was asked for.
THEOREM ReportsTypeCorrectness == ReportsSpec => []ReportsTypeOK
<1>1. RInv => ReportsTypeOK
  BY DEF RInv
<1> QED  BY <1>1, RInvariance, PTL

\* RN-P03, RN-P04: an entry of the log names an edge and someone who may take
\* it, though the guards looked at a report that others went on to write.
THEOREM LogStaysTruthful == ReportsSpec => []LogIsTruthful
<1>1. RInv => LogIsTruthful
  BY DEF RInv
<1> QED  BY <1>1, RInvariance, PTL

\* RN-P08: stale writes of the project may lose the latest percentage, never
\* bring in one that nobody approved.
THEOREM ProgressStaysGranted == ReportsSpec => []ProgressWasGranted
<1>1. RInv => ProgressWasGranted
  BY DEF RInv, RequestsHonest, Honest, HonestProject, ProgressWasGranted
<1> QED  BY <1>1, RInvariance, PTL

\* RN-018: wherever the request behind it stops, an approved report has its
\* approval record.
THEOREM ApprovedReportsAreSigned == ReportsSpec => []ApprovedIsSigned
<1>1. RInv => ApprovedIsSigned
  BY DEF RInv
<1> QED  BY <1>1, RInvariance, PTL

\* The step behind EvidenceFrozen: whoever writes the documents of a report,
\* or deletes it, holds it as a draft.
LEMMA FrozenStep ==
  ASSUME RInv, [ReportsNext]_rvars, NEW a \in Advances,
         advance[a] # NoRow, advance[a].status # "borrador", ~HeldAsDraft(a)
  PROVE  documents'[a] = documents[a] /\ advance'[a] # NoRow
<1>1. CASE UNCHANGED <<advance, documents>>
  BY <1>1
<1>2. ASSUME NEW b \in Advances, Create(b)
      PROVE  documents'[a] = documents[a] /\ advance'[a] # NoRow
  BY <1>2 DEF Create, RInv, ReportsTypeOK, TablesTypeOK
<1>3. ASSUME NEW r \in Requests, Update(r) \/ Save(r)
      PROVE  documents'[a] = documents[a] /\ advance'[a] # NoRow
  <2>1. PICK b \in Advances, w \in AdvanceRow : WriteAdvance(b, w)
    BY <1>3, AtWork, TransitionTyped DEF Update, Save, AdvanceRow
  <2>2. advance' = [advance EXCEPT ![b] = w] /\ UNCHANGED documents
    BY <1>3, <2>1 DEF Update, Save, WriteAdvance
  <2> QED  BY <2>2, ProgressAssumption DEF RInv, ReportsTypeOK, TablesTypeOK
<1>4. ASSUME NEW r \in Requests,
             Delete(r) \/ AddDocument(r) \/ ReviseDocument(r) \/ RemoveDocument(r)
      PROVE  documents'[a] = documents[a] /\ advance'[a] # NoRow
  <2>1. PICK q \in InFlight :
          q = req[r] /\ q.phase = "loaded" /\ q.op \in {"delete"} \cup DocumentOps /\ Accepted(q)
    BY <1>4, AtWork
    DEF Delete, AddDocument, ReviseDocument, RemoveDocument, WriteDocuments, DocumentOps,
        HonestTransition
  <2>2. q.seen.status = "borrador"
    BY <2>1 DEF Accepted, Transitions, Sources, DocumentOps
  <2>3. q.advance # a
    BY <2>1, <2>2 DEF HeldAsDraft, On
  <2>4. q.advance \in Advances
    BY DEF InFlight
  <2> QED  BY <1>4, <2>1, <2>3, <2>4
           DEF Delete, AddDocument, ReviseDocument, RemoveDocument, WriteDocuments,
               RInv, ReportsTypeOK, TablesTypeOK
<1>5. CASE Next
  <2>1. ASSUME NEW r \in Requests,
               \/ Abandon(r) \/ UpdateProject(r) \/ Review(r) \/ LogTransition(r)
               \/ LoadProject(r) \/ SaveProject(r)
        PROVE  UNCHANGED <<advance, documents>>
    BY <2>1 DEF Abandon, UpdateProject, Review, LogTransition, LoadProject, SaveProject, tables
  <2>2. ASSUME NEW r \in Requests, NEW b \in Advances, NEW o \in Ops,
               NEW i \in Documents \cup {NoItem}, Load(r, b, o, i)
        PROVE  UNCHANGED <<advance, documents>>
    BY <2>2 DEF Load, tables
  <2> QED  BY <1>1, <1>2, <1>3, <1>4, <1>5, <2>1, <2>2 DEF Next, Serve
<1> QED
  BY <1>1, <1>5
  DEF ReportsNext, Generate, Ask, Approve, FindOrDraft, Judge, Sign, MarkApproved,
      rvars, vars, tables

\* Evidence is frozen by the submission: once no request holds the report as a
\* draft, none can add, revise or remove a document, or delete the report.
THEOREM EvidenceStaysFrozen == ReportsSpec => EvidenceFrozen
<1>1. RInv /\ [ReportsNext]_rvars =>
        [\A a \in Advances :
           advance[a] # NoRow /\ advance[a].status # "borrador" /\ ~HeldAsDraft(a)
             => documents'[a] = documents[a] /\ advance'[a] # NoRow]_vars
  BY FrozenStep
<1> QED  BY <1>1, RInvariance, PTL DEF ReportsSpec, EvidenceFrozen

------------------------------------------------------------------------------
(***************************************************************************)
(* RN-P05.  A request that wrote its review and has not logged yet owns    *)
(* one review that no log entry accounts for.                              *)
(***************************************************************************)
Decisions == {"observado", "rechazado"}

Recorded(a, s) ==
  {r \in Requests : HasReviewed(req[r]) /\ req[r].advance = a /\ Target[req[r].op] = s}

Accounted(a, s) ==
  /\ IsFiniteSet(Recorded(a, s))
  /\ Cardinality(Entries(a, s)) + Cardinality(Recorded(a, s)) <= reviews[a][s]

LogBacked ==
  /\ \A a \in Advances : advance[a] = NoRow => log[a] = <<>>
  /\ \A a \in Advances \ orphaned, s \in Decisions : Accounted(a, s)

LEMMA LogTyped ==
  ASSUME RInv, NEW a \in Advances, NEW s \in Decisions
  PROVE  /\ log[a] \in Seq(LogEntry) /\ reviews[a][s] \in Nat
         /\ IsFiniteSet(Entries(a, s)) /\ Cardinality(Entries(a, s)) \in Nat
<1>1. log[a] \in Seq(LogEntry) /\ reviews[a][s] \in Nat
  BY DEF RInv, ReportsTypeOK, TablesTypeOK, Decisions
<1>2. IsFiniteSet(DOMAIN log[a])
  <2>1. DOMAIN log[a] = 1 .. Len(log[a]) /\ Len(log[a]) \in Nat
    BY <1>1
  <2> QED  BY <2>1, FS_Interval
<1>3. Entries(a, s) \subseteq DOMAIN log[a]
  BY DEF Entries
<1> QED  BY <1>1, <1>2, <1>3, FS_Subset, FS_CardinalityType

\* Whoever is done, dies or does something else owns a review no more.
LEMMA FewerRecorded ==
  ASSUME RInv, NEW r \in Requests, NEW q, ~HasReviewed(q), req' = [req EXCEPT ![r] = q],
         NEW a, NEW s
  PROVE  Recorded(a, s)' = Recorded(a, s) \ {r}
<1>1. \A t \in Requests : req'[t] = IF t = r THEN q ELSE req[t]
  BY DEF RInv, ReportsTypeOK
<1> QED  BY <1>1 DEF Recorded, HasReviewed

\* A step that leaves the log and the reviews of a report alone.
LEMMA StaysAccounted ==
  ASSUME RInv, NEW a \in Advances, NEW s \in Decisions, Accounted(a, s),
         log'[a] = log[a], reviews'[a] = reviews[a],
         Recorded(a, s)' \subseteq Recorded(a, s)
  PROVE  Accounted(a, s)'
<1>1. /\ IsFiniteSet(Recorded(a, s)') /\ Cardinality(Recorded(a, s)') \in Nat
      /\ Cardinality(Recorded(a, s)) \in Nat
      /\ Cardinality(Recorded(a, s)') <= Cardinality(Recorded(a, s))
  BY FS_Subset, FS_CardinalityType DEF Accounted
<1>2. Entries(a, s)' = Entries(a, s)
  BY DEF Entries
<1>3. Cardinality(Entries(a, s)) \in Nat /\ reviews[a][s] \in Nat
  BY LogTyped
<1> QED  BY <1>1, <1>2, <1>3 DEF Accounted

\* A step of one request that writes neither.
LEMMA BystanderStep ==
  ASSUME RInv, LogBacked, NEW r \in Requests, NEW q, ~HasReviewed(q),
         req' = [req EXCEPT ![r] = q], UNCHANGED <<log, reviews, orphaned>>,
         \A a \in Advances : advance'[a] = NoRow => advance[a] = NoRow
  PROVE  LogBacked'
<1>1. ASSUME NEW a \in Advances \ orphaned', NEW s \in Decisions
      PROVE  Accounted(a, s)'
  <2>1. Accounted(a, s)
    BY DEF LogBacked
  <2>2. Recorded(a, s)' = Recorded(a, s) \ {r}
    BY FewerRecorded
  <2>3. Recorded(a, s)' \subseteq Recorded(a, s)
    BY <2>2
  <2> QED  BY <2>1, <2>3, StaysAccounted
<1> QED  BY <1>1 DEF LogBacked

LEMMA ReviewBacks ==
  ASSUME RInv, LogBacked, NEW r \in Requests, Review(r)
  PROVE  LogBacked'
<1>1. PICK q \in InFlight : q = req[r] /\ q.phase = "saved" /\ q.op \in {"observe", "reject"}
  BY AtWork DEF Review
<1> DEFINE p == [q EXCEPT !.phase = "recorded"]
<1>2. HasReviewed(p) /\ p.advance = q.advance /\ p.op = q.op
  BY <1>1 DEF HasReviewed, InFlight
<1>3. req' = [req EXCEPT ![r] = p] /\ UNCHANGED <<advance, log, orphaned>>
  BY <1>1 DEF Review
<1>4. \A t \in Requests : req'[t] = IF t = r THEN p ELSE req[t]
  BY <1>3 DEF RInv, ReportsTypeOK
<1> HIDE DEF p
<1>5. q.advance \in Advances /\ Target[q.op] \in Decisions
  BY <1>1 DEF Target, InFlight, Decisions
<1>6. ~HasReviewed(req[r])
  BY <1>1 DEF HasReviewed
<1>7. ASSUME NEW a \in Advances \ orphaned', NEW s \in Decisions
      PROVE  Accounted(a, s)'
  <2>1. Accounted(a, s) /\ Entries(a, s)' = Entries(a, s)
    BY <1>3 DEF LogBacked, Entries
  <2>2. CASE a = q.advance /\ s = Target[q.op]
    <3>1. reviews'[a][s] = reviews[a][s] + 1
      <4>1. reviews' = [reviews EXCEPT ![a][s] = @ + 1]
        BY <1>1, <2>2 DEF Review
      <4> QED  BY <4>1 DEF RInv, ReportsTypeOK, TablesTypeOK, Decisions
    <3>2. Recorded(a, s)' = Recorded(a, s) \cup {r} /\ r \notin Recorded(a, s)
      BY <1>2, <1>4, <1>6, <2>2 DEF Recorded
    <3>3. /\ IsFiniteSet(Recorded(a, s)')
          /\ Cardinality(Recorded(a, s)') = Cardinality(Recorded(a, s)) + 1
          /\ Cardinality(Recorded(a, s)) \in Nat
      BY <2>1, <3>2, FS_AddElement, FS_CardinalityType DEF Accounted
    <3> QED  BY <2>1, <3>1, <3>3, LogTyped DEF Accounted
  <2>3. CASE a # q.advance \/ s # Target[q.op]
    <3>1. Recorded(a, s)' \subseteq Recorded(a, s)
      BY <1>2, <1>4, <2>3 DEF Recorded
    <3>2. reviews'[a][s] = reviews[a][s]
      <4>1. reviews' = [reviews EXCEPT ![q.advance][Target[q.op]] = @ + 1]
        BY <1>1 DEF Review
      <4> QED  BY <1>5, <2>3, <4>1 DEF RInv, ReportsTypeOK, TablesTypeOK, Decisions
    <3>3. /\ IsFiniteSet(Recorded(a, s)') /\ Cardinality(Recorded(a, s)') \in Nat
          /\ Cardinality(Recorded(a, s)) \in Nat
          /\ Cardinality(Recorded(a, s)') <= Cardinality(Recorded(a, s))
      BY <2>1, <3>1, FS_Subset, FS_CardinalityType DEF Accounted
    <3> QED  BY <2>1, <3>2, <3>3, LogTyped DEF Accounted
  <2> QED  BY <2>2, <2>3
<1> QED  BY <1>3, <1>7 DEF LogBacked

LEMMA LogTransitionBacks ==
  ASSUME RInv, LogBacked, NEW r \in Requests, LogTransition(r)
  PROVE  LogBacked'
<1>1. req[r].phase \in {"saved", "recorded"}
  BY DEF LogTransition, ReadyToLog
<1>2. PICK q \in InFlight : q = req[r] /\ ReadyToLog(q) /\ HonestTransition(q)
  BY <1>1, AtWork DEF LogTransition
<1>3. q.op \in Transitions
  BY <1>1, <1>2, EntryIsTruthful
<1> DEFINE e == [from |-> q.seen.status, to |-> Target[q.op], by |-> q.by]
<1>4. e \in LogEntry /\ e.to = Target[q.op]
  BY <1>3, TransitionTyped DEF LogEntry, InFlight, AdvanceRow
<1>5. PICK b \in Advances : b = q.advance
  BY DEF InFlight
<1>6. /\ log' = [log EXCEPT ![b] = Append(@, e)] /\ advance[b] # NoRow
      /\ req' = [req EXCEPT ![r] = Idle] /\ UNCHANGED <<advance, reviews, orphaned>>
  BY <1>2, <1>5 DEF LogTransition, Finish
<1> HIDE DEF e
<1>7. log \in [Advances -> Seq(LogEntry)]
  BY DEF RInv, ReportsTypeOK, TablesTypeOK
<1>8. ~HasReviewed(Idle)
  BY DEF Idle, HasReviewed
<1>9. ASSUME NEW a \in Advances \ orphaned', NEW s \in Decisions
      PROVE  Accounted(a, s)'
  <2>1. Accounted(a, s) /\ Recorded(a, s)' = Recorded(a, s) \ {r}
    BY <1>6, <1>8, FewerRecorded DEF LogBacked
  <2>2. CASE a # b
    BY <1>6, <1>7, <2>1, <2>2, StaysAccounted
  <2>3. CASE a = b /\ e.to # s
    <3>1. Entries(a, s)' = Entries(a, s)
      BY <1>4, <1>6, <1>7, <2>3 DEF Entries
    <3>2. /\ IsFiniteSet(Recorded(a, s)') /\ Cardinality(Recorded(a, s)') \in Nat
          /\ Cardinality(Recorded(a, s)) \in Nat
          /\ Cardinality(Recorded(a, s)') <= Cardinality(Recorded(a, s))
      BY <2>1, FS_Subset, FS_CardinalityType DEF Accounted
    <3> QED  BY <1>6, <2>1, <3>1, <3>2, LogTyped DEF Accounted
  <2>4. CASE a = b /\ e.to = s
    <3>1. PICK n \in Nat : n = Len(log[a])
      BY <1>7
    <3>2. Entries(a, s)' = Entries(a, s) \cup {n + 1} /\ n + 1 \notin Entries(a, s)
      BY <1>4, <1>6, <1>7, <2>4, <3>1 DEF Entries
    <3>3. Cardinality(Entries(a, s)') = Cardinality(Entries(a, s)) + 1
      BY <3>2, LogTyped, FS_AddElement
    <3>4. r \in Recorded(a, s)
      BY <1>2, <1>3, <1>4, <1>5, <2>4
      DEF Recorded, HasReviewed, ReadyToLog, HonestTransition, Transitions, Sources, Target, Decisions
    <3>5. /\ IsFiniteSet(Recorded(a, s)')
          /\ Cardinality(Recorded(a, s)') = Cardinality(Recorded(a, s)) - 1
          /\ Cardinality(Recorded(a, s)) \in Nat /\ Cardinality(Recorded(a, s)') \in Nat
      BY <2>1, <3>4, FS_RemoveElement, FS_CardinalityType DEF Accounted
    <3> QED  BY <1>6, <2>1, <3>3, <3>5, LogTyped DEF Accounted
  <2> QED  BY <2>2, <2>3, <2>4
<1>10. \A a \in Advances : advance'[a] = NoRow => log'[a] = <<>>
  BY <1>6, <1>7 DEF LogBacked
<1> QED  BY <1>9, <1>10 DEF LogBacked

\* A report that is created has no log, and no request knows its id yet.
LEMMA CreateBacks ==
  ASSUME RInv, LogBacked, NEW b \in Advances, Create(b)
  PROVE  LogBacked'
<1>1. /\ UNCHANGED <<log, reviews, req>> /\ orphaned' = orphaned \ {b}
      /\ \A a \in Advances : advance'[a] = NoRow => advance[a] = NoRow
  BY DEF Create, RInv, ReportsTypeOK, TablesTypeOK
<1>2. ASSUME NEW a \in Advances \ orphaned', NEW s \in Decisions
      PROVE  Accounted(a, s)'
  <2>1. Recorded(a, s)' = Recorded(a, s)
    BY <1>1 DEF Recorded
  <2>2. CASE a # b
    BY <1>1, <2>1, <2>2, StaysAccounted DEF LogBacked
  <2>3. CASE a = b
    <3>1. Recorded(a, s) = {}
      BY <2>3 DEF Create, Recorded, On, HasReviewed
    <3>2. Entries(a, s) = {}
      BY <2>3 DEF Create, LogBacked, Entries
    <3>3. Entries(a, s)' = {} /\ Recorded(a, s)' = {} /\ reviews'[a][s] \in Nat
      BY <1>1, <2>1, <3>1, <3>2, LogTyped DEF Entries
    <3> QED  BY <3>3, FS_EmptySet DEF Accounted
  <2> QED  BY <2>2, <2>3
<1> QED  BY <1>1, <1>2 DEF LogBacked

\* A deletion takes the log and the reviews; nobody on the report had one,
\* unless the report is orphaned.
LEMMA DeleteBacks ==
  ASSUME RInv, LogBacked, NEW r \in Requests, Delete(r)
  PROVE  LogBacked'
<1>1. PICK b \in Advances :
        /\ advance' = [advance EXCEPT ![b] = NoRow] /\ log' = [log EXCEPT ![b] = <<>>]
        /\ reviews' = [reviews EXCEPT ![b] = NoReviews]
        /\ orphaned' = IF \E s \in Requests : On(s, b) /\ HasReviewed(req[s])
                       THEN orphaned \cup {b} ELSE orphaned
        /\ req' = [req EXCEPT ![r] = Idle]
  BY AtWork DEF Delete, Finish
<1>2. ~HasReviewed(Idle)
  BY DEF Idle, HasReviewed
<1>3. ASSUME NEW a \in Advances \ orphaned', NEW s \in Decisions
      PROVE  Accounted(a, s)'
  <2>1. Recorded(a, s)' = Recorded(a, s) \ {r}
    BY <1>1, <1>2, FewerRecorded
  <2>2. CASE a = b
    <3>1. Recorded(a, s) = {}
      BY <1>1, <1>3, <2>2 DEF Recorded, On, HasReviewed
    <3>2. log'[a] = <<>> /\ reviews'[a] = NoReviews
      BY <1>1, <2>2 DEF RInv, ReportsTypeOK, TablesTypeOK
    <3>3. Entries(a, s)' = {} /\ Recorded(a, s)' = {} /\ reviews'[a][s] = 0
      BY <2>1, <3>1, <3>2 DEF Entries, NoReviews, Decisions
    <3> QED  BY <3>3, FS_EmptySet DEF Accounted
  <2>3. CASE a # b
    <3>1. Accounted(a, s)
      BY <1>1, <1>3, <2>3 DEF LogBacked
    <3>2. log'[a] = log[a] /\ reviews'[a] = reviews[a]
      BY <1>1, <2>3 DEF RInv, ReportsTypeOK, TablesTypeOK
    <3>3. Recorded(a, s)' \subseteq Recorded(a, s)
      BY <2>1
    <3> QED  BY <3>1, <3>2, <3>3, StaysAccounted
  <2> QED  BY <2>2, <2>3
<1>4. \A a \in Advances : advance'[a] = NoRow => log'[a] = <<>>
  BY <1>1 DEF LogBacked, RInv, ReportsTypeOK, TablesTypeOK
<1> QED  BY <1>3, <1>4 DEF LogBacked

\* The writes of a report that is not new: it is there afterwards.
LEMMA RewriteBacks ==
  ASSUME RInv, LogBacked, NEW r \in Requests, Update(r) \/ Save(r)
  PROVE  LogBacked'
<1>1. PICK b \in Advances, w \in AdvanceRow : WriteAdvance(b, w)
  BY AtWork, TransitionTyped DEF Update, Save, AdvanceRow
<1>2. \A a \in Advances : advance'[a] = NoRow => advance[a] = NoRow
  BY <1>1, ProgressAssumption DEF WriteAdvance, RInv, ReportsTypeOK, TablesTypeOK
<1>3. PICK q : req' = [req EXCEPT ![r] = q] /\ q.phase \in {"idle", "saved"}
  <2>1. CASE Update(r)
    <3>1. req' = [req EXCEPT ![r] = Idle]
      BY <2>1 DEF Update, Finish
    <3> QED  BY <3>1, IdleIsHonest
  <2>2. CASE Save(r)
    <3>1. PICK p \in InFlight : p = req[r]
      BY <2>2, AtWork DEF Save
    <3>2. req' = [req EXCEPT ![r] = [p EXCEPT !.phase = "saved"]]
      BY <2>2, <3>1 DEF Save
    <3>3. [p EXCEPT !.phase = "saved"].phase = "saved"
      BY DEF InFlight
    <3> QED  BY <3>2, <3>3
  <2> QED  BY <2>1, <2>2
<1>4. ~HasReviewed(q) /\ UNCHANGED <<log, reviews, orphaned>>
  BY <1>3 DEF Update, Save, HasReviewed
<1> QED  BY <1>2, <1>3, <1>4, BystanderStep

\* The steps that write neither reports nor reviews nor log entries.
LEMMA OtherBacks ==
  ASSUME RInv, LogBacked, NEW r \in Requests, UNCHANGED <<advance, log, reviews, orphaned>>,
         NEW q, req' = [req EXCEPT ![r] = q],
         \/ q.phase \in {"idle", "loaded", "project", "approving", "found", "judged", "signed"}
         \/ q.phase = "recorded" /\ q.op = "approve"
  PROVE  LogBacked'
<1>1. ~HasReviewed(q)
  BY DEF HasReviewed
<1> QED  BY <1>1, BystanderStep

LEMMA NextBacks ==
  ASSUME RInv, LogBacked, Next
  PROVE  LogBacked'
<1>1. ASSUME NEW r \in Requests,
             Abandon(r) \/ AddDocument(r) \/ ReviseDocument(r) \/ RemoveDocument(r) \/ SaveProject(r)
      PROVE  LogBacked'
  <2>1. UNCHANGED <<advance, log, reviews, orphaned>> /\ req' = [req EXCEPT ![r] = Idle]
    BY <1>1
    DEF Abandon, AddDocument, ReviseDocument, RemoveDocument, WriteDocuments, SaveProject,
        Finish, tables
  <2> QED  BY <2>1, IdleIsHonest, OtherBacks
<1>2. ASSUME NEW r \in Requests, NEW a \in Advances, NEW o \in Ops,
             NEW i \in Documents \cup {NoItem}, Load(r, a, o, i)
      PROVE  LogBacked'
  <2>1. PICK by \in Actors :
          req' = [req EXCEPT ![r] = [phase |-> "loaded", op |-> o, by |-> by, advance |-> a,
                                    item |-> i, seen |-> advance[a]]]
    BY <1>2 DEF Load
  <2>2. PICK q : req' = [req EXCEPT ![r] = q] /\ q.phase = "loaded"
    <3> DEFINE p == [phase |-> "loaded", op |-> o, by |-> by, advance |-> a,
                     item |-> i, seen |-> advance[a]]
    <3>1. p.phase = "loaded" /\ req' = [req EXCEPT ![r] = p]
      BY <2>1
    <3> HIDE DEF p
    <3> QED  BY <3>1
  <2>3. UNCHANGED <<advance, log, reviews, orphaned>>
    BY <1>2 DEF Load, tables
  <2> QED  BY <2>2, <2>3, OtherBacks
<1>3. ASSUME NEW r \in Requests, LoadProject(r)
      PROVE  LogBacked'
  <2>1. PICK q : req' = [req EXCEPT ![r] = q] /\ q.phase = "project"
    <3> DEFINE p == [phase |-> "project", seen |-> project]
    <3>1. p.phase = "project" /\ req' = [req EXCEPT ![r] = p]
      BY <1>3 DEF LoadProject
    <3> HIDE DEF p
    <3> QED  BY <3>1
  <2> QED  BY <1>3, <2>1, OtherBacks DEF LoadProject, tables
<1>4. ASSUME NEW r \in Requests, UpdateProject(r)
      PROVE  LogBacked'
  <2>1. PICK p \in InFlight : p = req[r] /\ p.op = "approve"
    BY <1>4, AtWork DEF UpdateProject
  <2>2. PICK q : req' = [req EXCEPT ![r] = q] /\ q.phase = "recorded" /\ q.op = "approve"
    <3>1. [p EXCEPT !.phase = "recorded"].phase = "recorded"
          /\ [p EXCEPT !.phase = "recorded"].op = "approve"
      BY <2>1 DEF InFlight
    <3>2. req' = [req EXCEPT ![r] = [p EXCEPT !.phase = "recorded"]]
      BY <1>4, <2>1 DEF UpdateProject
    <3> QED  BY <3>1, <3>2
  <2> QED  BY <1>4, <2>2, OtherBacks DEF UpdateProject
<1> QED
  BY <1>1, <1>2, <1>3, <1>4, CreateBacks, DeleteBacks, RewriteBacks, ReviewBacks,
     LogTransitionBacks
  DEF Next, Serve

LEMMA ApproveBacks ==
  ASSUME RInv, LogBacked, NEW r \in Requests, Approve(r) \/ \E kind \in Kinds : Ask(r, kind)
  PROVE  LogBacked'
<1>1. UNCHANGED tables
  BY DEF Approve, FindOrDraft, Judge, Sign, MarkApproved, Ask
<1>2. ASSUME NEW q, req' = [req EXCEPT ![r] = q],
             q.phase \in {"idle", "approving", "found", "judged", "signed"}
      PROVE  LogBacked'
  BY <1>1, <1>2, OtherBacks DEF tables
<1>3. CASE \E kind \in Kinds : Ask(r, kind)
  <2>1. PICK kind \in Kinds : req' = [req EXCEPT ![r] = [phase |-> "approving", kind |-> kind]]
    BY <1>3 DEF Ask
  <2> QED  BY <1>2, <2>1
<1>4. CASE FindOrDraft(r)
  <2>1. PICK kind, i : req' = [req EXCEPT ![r] = [phase |-> "found", kind |-> kind, report |-> i]]
    BY <1>4 DEF FindOrDraft
  <2> QED  BY <1>2, <2>1
<1>5. CASE Judge(r)
  <2>1. PICK p \in Approver : p = req[r] /\ p.phase = "found"
    BY <1>5, RequestTyped, PhaseTells DEF Judge, Approver
  <2>2. [p EXCEPT !.phase = "judged"].phase = "judged"
    BY <2>1 DEF Approver
  <2>3. req' = [req EXCEPT ![r] = [p EXCEPT !.phase = "judged"]]
    BY <1>5, <2>1 DEF Judge
  <2> QED  BY <1>2, <2>2, <2>3
<1>6. CASE Sign(r)
  <2>1. PICK p \in Approver : p = req[r] /\ p.phase = "judged"
    BY <1>6, RequestTyped, PhaseTells DEF Sign, Approver
  <2>2. [p EXCEPT !.phase = "signed"].phase = "signed"
    BY <2>1 DEF Approver
  <2>3. req' = [req EXCEPT ![r] = [p EXCEPT !.phase = "signed"]]
    BY <1>6, <2>1 DEF Sign
  <2> QED  BY <1>2, <2>2, <2>3
<1>7. CASE MarkApproved(r)
  BY <1>2, <1>7, IdleIsHonest DEF MarkApproved, Finish
<1> QED  BY <1>3, <1>4, <1>5, <1>6, <1>7 DEF Approve

LEMMA LogBackedInvariance == ReportsSpec => []LogBacked
<1>1. ReportsInit => LogBacked
  <2> SUFFICES ASSUME ReportsInit PROVE LogBacked
    OBVIOUS
  <2>1. ASSUME NEW a \in Advances, NEW s \in Decisions
        PROVE  Accounted(a, s)
    <3>1. Entries(a, s) = {} /\ Recorded(a, s) = {} /\ reviews[a][s] = 0
      BY DEF ReportsInit, Init, Entries, Recorded, HasReviewed, Idle, NoReviews, Decisions
    <3> QED  BY <3>1, FS_EmptySet DEF Accounted
  <2> QED  BY <2>1 DEF LogBacked, ReportsInit, Init
<1>2. RInv /\ LogBacked /\ [ReportsNext]_rvars => LogBacked'
  <2> SUFFICES ASSUME RInv, LogBacked, [ReportsNext]_rvars PROVE LogBacked'
    OBVIOUS
  <2>1. ASSUME UNCHANGED vars
        PROVE  LogBacked'
    BY <2>1 DEF vars, tables, LogBacked, Accounted, Entries, Recorded
  <2> QED  BY <2>1, NextBacks, ApproveBacks DEF ReportsNext, Generate, rvars
<1> QED  BY <1>1, <1>2, RInvariance, PTL DEF ReportsSpec

\* RN-P05: at every moment of a report's life, each log entry that says
\* observed or rejected has its own review, for any number of requests that
\* race or die; another review waits for each request that has yet to log.
THEOREM ReviewsPrecedeLog == ReportsSpec => []ReviewedBeforeLogged
<1>1. RInv /\ LogBacked => ReviewedBeforeLogged
  <2> SUFFICES ASSUME RInv, LogBacked, NEW a \in Advances \ orphaned, NEW s \in Decisions
               PROVE  Cardinality(Entries(a, s)) <= reviews[a][s]
    BY DEF ReviewedBeforeLogged, Decisions
  <2>1. Accounted(a, s) /\ Cardinality(Recorded(a, s)) \in Nat
    BY FS_CardinalityType DEF LogBacked, Accounted
  <2> QED  BY <2>1, LogTyped DEF Accounted
<1> QED  BY <1>1, RInvariance, LogBackedInvariance, PTL

------------------------------------------------------------------------------
(***************************************************************************)
(* RN-P08.  A request that told the project of an approval and has not     *)
(* logged it yet keeps the report among those counted: a deleted report    *)
(* leaves no log, and its id is not used again.                            *)
(***************************************************************************)
HasTold(q) == q.phase = "recorded" /\ q.op = "approve"

ToldAreCounted == \A r \in Requests : HasTold(req[r]) => req[r].advance \in counted

LogCounted == ApprovalsLoggedAreCounted /\ ToldAreCounted

\* A step of one request that logs nothing and uncounts nothing.
LEMMA UncountsNothing ==
  ASSUME RInv, LogCounted, counted \subseteq counted',
         \A a \in Advances : log'[a] \in {log[a], <<>>},
         NEW r \in Requests, NEW q, req' = [req EXCEPT ![r] = q],
         HasTold(q) => q.advance \in counted'
  PROVE  LogCounted'
<1>1. \A t \in Requests : req'[t] = IF t = r THEN q ELSE req[t]
  BY DEF RInv, ReportsTypeOK
<1>2. ToldAreCounted'
  BY <1>1 DEF LogCounted, ToldAreCounted
<1>3. ASSUME NEW a \in Advances, Entries(a, "aprobado")' # {}
      PROVE  a \in counted'
  <2>1. log'[a] = log[a]
    BY <1>3 DEF Entries
  <2> QED  BY <1>3, <2>1 DEF Entries, LogCounted, ApprovalsLoggedAreCounted
<1> QED  BY <1>2, <1>3 DEF LogCounted, ApprovalsLoggedAreCounted

\* A new report has no log, and no request knows its id yet.
LEMMA CreateCounts ==
  ASSUME RInv, LogBacked, LogCounted, NEW b \in Advances, Create(b)
  PROVE  LogCounted'
<1>1. UNCHANGED <<log, req>> /\ counted' = counted \ {b} /\ log[b] = <<>>
  BY DEF Create, LogBacked
<1>2. \A r \in Requests : HasTold(req[r]) => req[r].advance # b
  BY DEF Create, HasTold, On
<1>3. ToldAreCounted'
  BY <1>1, <1>2 DEF LogCounted, ToldAreCounted
<1>4. \A a \in Advances : Entries(a, "aprobado")' # {} => a \in counted /\ a # b
  BY <1>1 DEF Entries, LogCounted, ApprovalsLoggedAreCounted
<1> QED  BY <1>1, <1>3, <1>4 DEF LogCounted, ApprovalsLoggedAreCounted

LEMMA UpdateProjectCounts ==
  ASSUME RInv, LogCounted, NEW r \in Requests, UpdateProject(r)
  PROVE  LogCounted'
<1>1. PICK p \in InFlight : p = req[r]
  BY AtWork DEF UpdateProject
<1> DEFINE q == [p EXCEPT !.phase = "recorded"]
<1>2. q.advance = p.advance
  BY DEF InFlight
<1>3. req' = [req EXCEPT ![r] = q] /\ counted' = counted \cup {p.advance} /\ UNCHANGED log
  BY <1>1 DEF UpdateProject
<1> HIDE DEF q
<1> QED  BY <1>2, <1>3, UncountsNothing

\* Whoever logs an approval has told the project before.
LEMMA LogTransitionCounts ==
  ASSUME RInv, LogCounted, NEW r \in Requests, LogTransition(r)
  PROVE  LogCounted'
<1>1. req[r].phase \in {"saved", "recorded"}
  BY DEF LogTransition, ReadyToLog
<1>2. PICK q \in InFlight : q = req[r] /\ ReadyToLog(q) /\ HonestTransition(q)
  BY <1>1, AtWork DEF LogTransition
<1>3. q.op \in Transitions
  BY <1>1, <1>2, EntryIsTruthful
<1> DEFINE e == [from |-> q.seen.status, to |-> Target[q.op], by |-> q.by]
<1>4. e \in LogEntry /\ e.to = Target[q.op]
  BY <1>3, TransitionTyped DEF LogEntry, InFlight, AdvanceRow
<1>5. PICK b \in Advances : b = q.advance
  BY DEF InFlight
<1>6. /\ log' = [log EXCEPT ![b] = Append(@, e)] /\ UNCHANGED counted
      /\ req' = [req EXCEPT ![r] = Idle]
  BY <1>2, <1>5 DEF LogTransition, Finish
<1> HIDE DEF e
<1>7. log \in [Advances -> Seq(LogEntry)] /\ log[b] \in Seq(LogEntry)
  BY DEF RInv, ReportsTypeOK, TablesTypeOK
<1>8. ToldAreCounted'
  <2>1. \A t \in Requests : req'[t] = IF t = r THEN Idle ELSE req[t]
    BY <1>6 DEF RInv, ReportsTypeOK
  <2> QED  BY <1>6, <2>1 DEF LogCounted, ToldAreCounted, HasTold, Idle
<1>9. e.to = "aprobado" => b \in counted
  <2>1. SUFFICES ASSUME e.to = "aprobado" PROVE b \in counted
    OBVIOUS
  <2>2. q.op = "approve"
    BY <1>3, <1>4, <2>1 DEF Transitions, Sources, Target
  <2>3. HasTold(q)
    BY <1>2, <2>2 DEF ReadyToLog, HasTold
  <2> QED  BY <1>2, <1>5, <2>3 DEF LogCounted, ToldAreCounted
<1>10. ASSUME NEW a \in Advances, NEW i \in DOMAIN log'[a], log'[a][i].to = "aprobado"
       PROVE  a \in counted
  <2>1. CASE a # b
    <3>1. log'[a] = log[a]
      BY <1>6, <1>7, <2>1
    <3> QED  BY <1>10, <3>1 DEF LogCounted, ApprovalsLoggedAreCounted, Entries
  <2>2. CASE a = b
    <3>1. log'[a] = Append(log[a], e)
      BY <1>6, <1>7, <2>2
    <3>2. \/ i \in DOMAIN log[a] /\ log'[a][i] = log[a][i]
          \/ log'[a][i] = e
      BY <1>4, <1>7, <1>10, <2>2, <3>1
    <3> QED  BY <1>9, <1>10, <2>2, <3>2 DEF LogCounted, ApprovalsLoggedAreCounted, Entries
  <2> QED  BY <2>1, <2>2
<1> QED  BY <1>6, <1>8, <1>10 DEF LogCounted, ApprovalsLoggedAreCounted, Entries

\* The other steps of a request.
LEMMA OtherCounts ==
  ASSUME RInv, LogCounted, NEW r \in Requests, NEW q, req' = [req EXCEPT ![r] = q],
         q.phase # "recorded" \/ q.op # "approve", UNCHANGED counted,
         \A a \in Advances : log'[a] \in {log[a], <<>>}
  PROVE  LogCounted'
<1>1. ~HasTold(q)
  BY DEF HasTold
<1> QED  BY <1>1, UncountsNothing

LEMMA NextCounts ==
  ASSUME RInv, LogBacked, LogCounted, Next
  PROVE  LogCounted'
<1>1. ASSUME NEW r \in Requests,
             \/ Abandon(r) \/ Update(r) \/ SaveProject(r)
             \/ AddDocument(r) \/ ReviseDocument(r) \/ RemoveDocument(r)
      PROVE  LogCounted'
  <2>1. UNCHANGED <<log, counted>> /\ req' = [req EXCEPT ![r] = Idle]
    BY <1>1
    DEF Abandon, Update, AddDocument, ReviseDocument, RemoveDocument, WriteDocuments,
        SaveProject, Finish, tables
  <2> QED  BY <2>1, IdleIsHonest, OtherCounts
<1>2. ASSUME NEW r \in Requests, Delete(r)
      PROVE  LogCounted'
  <2>1. PICK b \in Advances : log' = [log EXCEPT ![b] = <<>>]
    BY <1>2, AtWork DEF Delete
  <2>2. \A a \in Advances : log'[a] \in {log[a], <<>>}
    BY <2>1 DEF RInv, ReportsTypeOK, TablesTypeOK
  <2>3. UNCHANGED counted /\ req' = [req EXCEPT ![r] = Idle]
    BY <1>2 DEF Delete, Finish
  <2> QED  BY <2>2, <2>3, IdleIsHonest, OtherCounts
<1>3. ASSUME NEW r \in Requests, NEW a \in Advances, NEW o \in Ops,
             NEW i \in Documents \cup {NoItem}, Load(r, a, o, i)
      PROVE  LogCounted'
  <2>1. PICK q : req' = [req EXCEPT ![r] = q] /\ q.phase = "loaded"
    <3>1. PICK by \in Actors :
            req' = [req EXCEPT ![r] = [phase |-> "loaded", op |-> o, by |-> by, advance |-> a,
                                      item |-> i, seen |-> advance[a]]]
      BY <1>3 DEF Load
    <3> DEFINE p == [phase |-> "loaded", op |-> o, by |-> by, advance |-> a,
                     item |-> i, seen |-> advance[a]]
    <3>2. p.phase = "loaded" /\ req' = [req EXCEPT ![r] = p]
      BY <3>1
    <3> HIDE DEF p
    <3> QED  BY <3>2
  <2> QED  BY <1>3, <2>1, OtherCounts DEF Load, tables
<1>4. ASSUME NEW r \in Requests, LoadProject(r)
      PROVE  LogCounted'
  <2>1. PICK q : req' = [req EXCEPT ![r] = q] /\ q.phase = "project"
    <3> DEFINE p == [phase |-> "project", seen |-> project]
    <3>1. p.phase = "project" /\ req' = [req EXCEPT ![r] = p]
      BY <1>4 DEF LoadProject
    <3> HIDE DEF p
    <3> QED  BY <3>1
  <2> QED  BY <1>4, <2>1, OtherCounts DEF LoadProject, tables
<1>5. ASSUME NEW r \in Requests, Save(r) \/ Review(r)
      PROVE  LogCounted'
  <2>1. PICK p \in InFlight : p = req[r] /\ (Review(r) => p.op # "approve")
    BY <1>5, AtWork DEF Save, Review
  <2>2. PICK q : /\ req' = [req EXCEPT ![r] = q]
                 /\ q.phase = "saved" \/ q.op # "approve"
    <3>1. CASE Save(r)
      <4>1. [p EXCEPT !.phase = "saved"].phase = "saved"
        BY DEF InFlight
      <4> QED  BY <2>1, <3>1, <4>1 DEF Save
    <3>2. CASE Review(r)
      <4>1. [p EXCEPT !.phase = "recorded"].op = p.op
        BY DEF InFlight
      <4> QED  BY <2>1, <3>2, <4>1 DEF Review
    <3> QED  BY <1>5, <3>1, <3>2
  <2>3. UNCHANGED <<log, counted>>
    BY <1>5 DEF Save, Review
  <2> QED  BY <2>2, <2>3, OtherCounts
<1> QED
  BY <1>1, <1>2, <1>3, <1>4, <1>5, CreateCounts, UpdateProjectCounts, LogTransitionCounts
  DEF Next, Serve

LEMMA ApproveCounts ==
  ASSUME RInv, LogCounted, NEW r \in Requests, Approve(r) \/ \E kind \in Kinds : Ask(r, kind)
  PROVE  LogCounted'
<1>1. UNCHANGED <<log, counted>>
  BY DEF Approve, FindOrDraft, Judge, Sign, MarkApproved, Ask, tables
<1>2. ASSUME NEW q, req' = [req EXCEPT ![r] = q], q.phase # "recorded"
      PROVE  LogCounted'
  BY <1>1, <1>2, OtherCounts
<1>3. CASE \E kind \in Kinds : Ask(r, kind)
  <2>1. PICK q : req' = [req EXCEPT ![r] = q] /\ q.phase = "approving"
    <3>1. PICK kind \in Kinds : req' = [req EXCEPT ![r] = [phase |-> "approving", kind |-> kind]]
      BY <1>3 DEF Ask
    <3> DEFINE p == [phase |-> "approving", kind |-> kind]
    <3>2. p.phase = "approving" /\ req' = [req EXCEPT ![r] = p]
      BY <3>1
    <3> HIDE DEF p
    <3> QED  BY <3>2
  <2> QED  BY <1>2, <2>1
<1>4. CASE FindOrDraft(r)
  <2>1. PICK q : req' = [req EXCEPT ![r] = q] /\ q.phase = "found"
    <3>1. PICK kind, i : req' = [req EXCEPT ![r] = [phase |-> "found", kind |-> kind, report |-> i]]
      BY <1>4 DEF FindOrDraft
    <3> DEFINE p == [phase |-> "found", kind |-> kind, report |-> i]
    <3>2. p.phase = "found" /\ req' = [req EXCEPT ![r] = p]
      BY <3>1
    <3> HIDE DEF p
    <3> QED  BY <3>2
  <2> QED  BY <1>2, <2>1
<1>5. CASE Judge(r) \/ Sign(r)
  <2>1. PICK p \in Approver : p = req[r] /\ p.phase \in {"found", "judged"}
    BY <1>5, RequestTyped, PhaseTells DEF Judge, Sign, Approver
  <2>2. PICK ph \in {"judged", "signed"} : req' = [req EXCEPT ![r] = [p EXCEPT !.phase = ph]]
    BY <1>5, <2>1 DEF Judge, Sign
  <2>3. [p EXCEPT !.phase = ph].phase = ph
    BY <2>1 DEF Approver
  <2> QED  BY <1>2, <2>2, <2>3
<1>6. CASE MarkApproved(r)
  BY <1>2, <1>6, IdleIsHonest DEF MarkApproved, Finish
<1> QED  BY <1>3, <1>4, <1>5, <1>6 DEF Approve

\* RN-P08: an approval the log tells of was written to the project before,
\* whatever races, dies, or deletes and puts back the report.
THEOREM LoggedApprovalsAreCounted == ReportsSpec => []ApprovalsLoggedAreCounted
<1>1. ReportsInit => LogCounted
  BY DEF ReportsInit, Init, LogCounted, ApprovalsLoggedAreCounted, ToldAreCounted, Entries,
         HasTold, Idle
<1>2. RInv /\ LogBacked /\ LogCounted /\ [ReportsNext]_rvars => LogCounted'
  <2> SUFFICES ASSUME RInv, LogBacked, LogCounted, [ReportsNext]_rvars PROVE LogCounted'
    OBVIOUS
  <2>1. ASSUME UNCHANGED vars
        PROVE  LogCounted'
    BY <2>1
    DEF vars, tables, LogCounted, ApprovalsLoggedAreCounted, ToldAreCounted, Entries
  <2> QED  BY <2>1, NextCounts, ApproveCounts DEF ReportsNext, Generate, rvars
<1>3. LogCounted => ApprovalsLoggedAreCounted
  BY DEF LogCounted
<1> QED  BY <1>1, <1>2, <1>3, RInvariance, LogBackedInvariance, PTL DEF ReportsSpec
==============================================================================
