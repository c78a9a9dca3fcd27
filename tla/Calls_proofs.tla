---------------------------- MODULE Calls_proofs ----------------------------
(***************************************************************************)
(* Proofs about Calls, for any number of calls, projects and requests.     *)
(***************************************************************************)
EXTENDS Calls, TLAPS

(***************************************************************************)
(* The state machine.                                                      *)
(***************************************************************************)

\* A transition takes a call along an edge, out of no final state, and only
\* open_call() begins at the draft.
LEMMA StateMachine ==
  ASSUME NEW t \in Transitions
  PROVE  /\ Sources[t] \subseteq CallStatuses \ TERMINAL_STATES
         /\ Target[t] \in CallStatuses
         /\ Sources[t] \X {Target[t]} \subseteq Edges
         /\ "borrador" \in Sources[t] => t = "open_call"
<1>1. /\ Sources[t] \subseteq CallStatuses \ TERMINAL_STATES
      /\ "borrador" \in Sources[t] => t = "open_call"
  BY DEF Transitions, Sources, CallStatuses, TERMINAL_STATES
<1>2. Target[t] \in CallStatuses
  BY DEF Transitions, Sources, Target, CallStatuses
<1>3. Sources[t] \X {Target[t]} \subseteq Edges
  BY DEF Edges
<1> QED  BY <1>1, <1>2, <1>3

(***************************************************************************)
(* The invariant.  A request has passed the checks of its service on the   *)
(* status it saw; a call that is, or was seen, past the draft was opened;  *)
(* what is gone has no links.                                              *)
(***************************************************************************)

RequestsAccepted ==
  \A r \in Requests : Busy(r) =>
    /\ Accepted(req[r].op, req[r].seen)
    /\ req[r].op = "write" => req[r].item \in Documents

PastDraft == CallStatuses \ {"borrador"}

OpenedBefore ==
  /\ \A c \in Calls : status[c] \in PastDraft => c \in opened
  /\ \A r \in Requests : Busy(r) /\ req[r].seen \in PastDraft => req[r].call \in opened

GoneUnlinked == \A c \in Calls : status[c] = NoRow => Links(c) = {}

CInv ==
  /\ RowsTypeOK
  /\ RequestsAccepted
  /\ OpenedBefore
  /\ GoneUnlinked
  /\ LinksAreEarned

\* A request in flight is a record of the right type.
LEMMA BusyRequest ==
  ASSUME RowsTypeOK, NEW r \in Requests, Busy(r)
  PROVE  /\ req[r] \in InFlight
         /\ req[r].call \in Calls /\ req[r].op \in Ops /\ req[r].seen \in CallStatuses
BY DEF RowsTypeOK, Busy, Idle, InFlight

\* A request that is answered leaves the others as they were.
LEMMA Finishing ==
  ASSUME RowsTypeOK, NEW r \in Requests, Finish(r)
  PROVE  /\ req' \in [Requests -> InFlight \cup {Idle}]
         /\ \A s \in Requests : Busy(s)' => Busy(s) /\ req'[s] = req[s]
BY DEF RowsTypeOK, Finish, Busy, Idle

LEMMA Initially == Init => CInv
<1> SUFFICES ASSUME Init PROVE CInv
  OBVIOUS
<1>1. RowsTypeOK
  BY DEF Init, RowsTypeOK
<1>2. \A r \in Requests : ~Busy(r)
  BY DEF Init, Busy, Idle
<1>3. \A c \in Calls : status[c] = NoRow /\ Links(c) = {}
  BY DEF Init, Links
<1>4. NoRow \notin PastDraft
  BY CallsAssumption DEF PastDraft
<1> QED
  BY <1>1, <1>2, <1>3, <1>4
  DEF CInv, RequestsAccepted, OpenedBefore, GoneUnlinked, LinksAreEarned

LEMMA CreateKeeps ==
  ASSUME CInv, NEW c \in Calls, Create(c)
  PROVE  CInv'
<1>1. /\ status' = [status EXCEPT ![c] = "borrador"] /\ opened' = opened \ {c}
      /\ UNCHANGED <<linked, documents, projects, req>>
      /\ status[c] = NoRow /\ \A r \in Requests : ~On(r, c)
  BY DEF Create
<1>2. RowsTypeOK'
  BY <1>1 DEF CInv, RowsTypeOK, CallStatuses
<1>3. RequestsAccepted'
  BY <1>1 DEF CInv, RequestsAccepted, Busy
<1>4. OpenedBefore'
  BY <1>1 DEF CInv, RowsTypeOK, OpenedBefore, On, Busy, PastDraft
<1>5. \A d \in Calls : Links(d)' = Links(d)
  BY <1>1 DEF Links
<1>6. Links(c) = {}
  BY <1>1 DEF CInv, GoneUnlinked
<1>7. GoneUnlinked'
  BY <1>1, <1>5, <1>6 DEF CInv, RowsTypeOK, GoneUnlinked
<1>8. LinksAreEarned'
  BY <1>1, <1>5, <1>6 DEF CInv, LinksAreEarned
<1> QED  BY <1>2, <1>3, <1>4, <1>7, <1>8 DEF CInv

LEMMA LoadKeeps ==
  ASSUME CInv, NEW r \in Requests, NEW c \in Calls, NEW op \in Ops, Load(r, c, op)
  PROVE  CInv'
<1>1. UNCHANGED tables /\ status[c] # NoRow /\ Accepted(op, status[c])
  BY DEF Load
<1>2. PICK i \in ItemsOf(op, c) :
        req' = [req EXCEPT ![r] = [phase |-> "loaded", op |-> op, call |-> c,
                                   seen |-> status[c], item |-> i]]
  BY DEF Load
<1>3. status[c] \in CallStatuses /\ i \in Projects \cup Documents \cup {NoItem}
      /\ (op = "write" => i \in Documents)
  BY <1>1 DEF CInv, RowsTypeOK, ItemsOf
<1>4. RowsTypeOK'
  BY <1>1, <1>2, <1>3 DEF CInv, RowsTypeOK, tables, InFlight
<1>5. /\ \A s \in Requests \ {r} : req'[s] = req[s]
      /\ req'[r].seen = status[c] /\ req'[r].call = c
      /\ req'[r].op = op /\ req'[r].item = i
  BY <1>2 DEF CInv, RowsTypeOK
<1>6. RequestsAccepted'
  BY <1>1, <1>3, <1>5 DEF CInv, RequestsAccepted, Busy, Accepted
<1>7. OpenedBefore'
  BY <1>1, <1>5 DEF CInv, OpenedBefore, Busy, tables
<1>8. GoneUnlinked' /\ LinksAreEarned'
  BY <1>1 DEF CInv, GoneUnlinked, LinksAreEarned, Links, tables
<1> QED  BY <1>4, <1>6, <1>7, <1>8 DEF CInv

LEMMA AbandonKeeps ==
  ASSUME CInv, NEW r \in Requests, Abandon(r)
  PROVE  CInv'
<1>1. UNCHANGED tables /\ Finish(r) /\ RowsTypeOK
  BY DEF Abandon, CInv
<1>2. RowsTypeOK'
  BY <1>1, Finishing DEF RowsTypeOK, tables
<1>3. RequestsAccepted' /\ OpenedBefore'
  BY <1>1, Finishing DEF CInv, RequestsAccepted, OpenedBefore, Accepted, tables
<1>4. GoneUnlinked' /\ LinksAreEarned'
  BY <1>1 DEF CInv, GoneUnlinked, LinksAreEarned, Links, tables
<1> QED  BY <1>2, <1>3, <1>4 DEF CInv

LEMMA TransitionKeeps ==
  ASSUME CInv, NEW r \in Requests, Transition(r)
  PROVE  CInv'
<1> DEFINE q == req[r]
<1>1. /\ q.op \in Transitions /\ status[q.call] \in Sources[q.op]
      /\ status' = [status EXCEPT ![q.call] = Target[q.op]]
      /\ opened' = IF q.op = "open_call" THEN opened \cup {q.call} ELSE opened
      /\ Finish(r) /\ UNCHANGED <<linked, documents, projects>>
      /\ Busy(r) /\ RowsTypeOK
  BY DEF Transition, Legal, Busy, CInv
<1>2. q.call \in Calls /\ q.seen \in CallStatuses
  BY <1>1, BusyRequest
<1>3. Target[q.op] \in CallStatuses
  BY <1>1, StateMachine
<1>4. RowsTypeOK'
  BY <1>1, <1>2, <1>3, Finishing DEF RowsTypeOK, LogEntry
<1>5. opened \subseteq opened' /\ q.call \in opened'
  <2>1. q.op # "open_call" => status[q.call] \in PastDraft
    BY <1>1, <1>2, StateMachine DEF PastDraft
  <2> QED  BY <1>1, <1>2, <2>1 DEF CInv, OpenedBefore
<1>6. RequestsAccepted'
  BY <1>1, Finishing DEF CInv, RequestsAccepted, Accepted
<1>7. OpenedBefore'
  BY <1>1, <1>2, <1>5, Finishing DEF CInv, RowsTypeOK, OpenedBefore
<1>8. \A c \in Calls : Links(c)' = Links(c)
  BY <1>1 DEF Links
<1>9. GoneUnlinked'
  BY <1>1, <1>2, <1>3, <1>8, CallsAssumption DEF CInv, RowsTypeOK, GoneUnlinked
<1>10. LinksAreEarned'
  BY <1>1, <1>5, <1>8 DEF CInv, LinksAreEarned
<1> QED  BY <1>4, <1>6, <1>7, <1>9, <1>10 DEF CInv

\* An update may bring back a call that is gone, without links, or put one
\* back into a status it was seen in.
LEMMA UpdateKeeps ==
  ASSUME CInv, NEW r \in Requests, Update(r)
  PROVE  CInv'
<1> DEFINE q == req[r]
<1>1. /\ status' = [status EXCEPT ![q.call] = q.seen]
      /\ Finish(r) /\ UNCHANGED <<linked, documents, projects, opened>>
      /\ Busy(r) /\ RowsTypeOK
  BY DEF Update, Busy, CInv
<1>2. q.call \in Calls /\ q.seen \in CallStatuses
  BY <1>1, BusyRequest
<1>3. RowsTypeOK'
  BY <1>1, <1>2, Finishing DEF RowsTypeOK
<1>4. RequestsAccepted'
  BY <1>1, Finishing DEF CInv, RequestsAccepted, Accepted
<1>5. OpenedBefore'
  BY <1>1, <1>2, Finishing DEF CInv, RowsTypeOK, OpenedBefore
<1>6. \A c \in Calls : Links(c)' = Links(c)
  BY <1>1 DEF Links
<1>7. GoneUnlinked'
  BY <1>1, <1>2, <1>6, CallsAssumption DEF CInv, RowsTypeOK, GoneUnlinked
<1>8. LinksAreEarned'
  BY <1>1, <1>6 DEF CInv, LinksAreEarned
<1> QED  BY <1>3, <1>4, <1>5, <1>7, <1>8 DEF CInv

LEMMA ValidateKeeps ==
  ASSUME CInv, NEW r \in Requests, Validate(r)
  PROVE  CInv'
<1>1. /\ UNCHANGED tables /\ req' = [req EXCEPT ![r].phase = "validated"]
      /\ Busy(r) /\ RowsTypeOK
  BY DEF Validate, Busy, CInv
<1>2. req[r] \in InFlight
  BY <1>1, BusyRequest
<1>3. /\ req'[r] = [req[r] EXCEPT !.phase = "validated"] /\ req'[r] \in InFlight
      /\ \A s \in Requests \ {r} : req'[s] = req[s]
  BY <1>1, <1>2 DEF RowsTypeOK, InFlight
<1>4. /\ req'[r].op = req[r].op /\ req'[r].seen = req[r].seen
      /\ req'[r].call = req[r].call /\ req'[r].item = req[r].item
  BY <1>2, <1>3 DEF InFlight
<1>5. RowsTypeOK'
  BY <1>1, <1>3 DEF RowsTypeOK, tables
<1>6. RequestsAccepted' /\ OpenedBefore'
  BY <1>1, <1>3, <1>4 DEF CInv, RequestsAccepted, OpenedBefore, Accepted, Busy, tables
<1>7. GoneUnlinked' /\ LinksAreEarned'
  BY <1>1 DEF CInv, GoneUnlinked, LinksAreEarned, Links, tables
<1> QED  BY <1>5, <1>6, <1>7 DEF CInv

LEMMA DeleteKeeps ==
  ASSUME CInv, NEW r \in Requests, Delete(r)
  PROVE  CInv'
<1>0. PICK c \in Calls : c = req[r].call
  BY BusyRequest DEF Delete, Busy, CInv
<1>1. /\ status' = [status EXCEPT ![c] = NoRow]
      /\ linked' = [linked EXCEPT ![c] = [p \in Projects |-> 0]]
      /\ documents' = [documents EXCEPT ![c] = {}]
      /\ Finish(r) /\ UNCHANGED <<projects, opened>>
      /\ Busy(r) /\ RowsTypeOK
  BY <1>0 DEF Delete, Busy, CInv
<1>3. RowsTypeOK'
  BY <1>1, Finishing DEF RowsTypeOK
<1>4. RequestsAccepted'
  BY <1>1, Finishing DEF CInv, RequestsAccepted, Accepted
<1>5. OpenedBefore'
  BY <1>1, Finishing, CallsAssumption DEF CInv, RowsTypeOK, OpenedBefore, PastDraft
<1>6. Links(c)' = {} /\ \A d \in Calls \ {c} : Links(d)' = Links(d) /\ linked'[d] = linked[d]
  BY <1>1 DEF RowsTypeOK, Links
<1>7. GoneUnlinked'
  BY <1>1, <1>6 DEF CInv, RowsTypeOK, GoneUnlinked
<1>8. LinksAreEarned'
  BY <1>1, <1>6 DEF CInv, LinksAreEarned
<1> QED  BY <1>3, <1>4, <1>5, <1>7, <1>8 DEF CInv

\* The request saw its call open, so it was opened; the key lets no other call
\* have the project.
LEMMA LinkKeeps ==
  ASSUME CInv, NEW r \in Requests, Link(r)
  PROVE  CInv'
<1>0. PICK c \in Calls, i \in Projects \cup Documents \cup {NoItem} :
        c = req[r].call /\ i = req[r].item
  BY BusyRequest DEF Link, Busy, CInv, InFlight
<1>1. /\ req[r].op = "link" /\ status[c] # NoRow
      /\ i \in projects /\ ~Associated(i)
      /\ linked' = [linked EXCEPT ![c][i] = @ + 1]
      /\ Finish(r) /\ UNCHANGED <<status, documents, projects, opened>>
      /\ Busy(r) /\ RowsTypeOK
  BY <1>0 DEF Link, Insertable, Busy, CInv
<1>2. i \in Projects
  BY <1>1 DEF RowsTypeOK
<1>3. c \in opened
  <2>1. req[r].seen = "abierta"
    BY <1>1 DEF CInv, RequestsAccepted, Accepted
  <2> QED  BY <1>0, <1>1, <2>1 DEF CInv, OpenedBefore, PastDraft, CallStatuses
<1>4. \A d \in Calls : linked[d][i] = 0 /\ linked[d] \in [Projects -> 0..1]
  BY <1>1, <1>2 DEF Associated, Links, RowsTypeOK
<1>5. /\ linked' \in [Calls -> [Projects -> 0..1]]
      /\ linked'[c] = [linked[c] EXCEPT ![i] = 1]
      /\ \A d \in Calls \ {c} : linked'[d] = linked[d]
  <2>1. linked' = [linked EXCEPT ![c] = [linked[c] EXCEPT ![i] = 1]]
    <3>1. linked' = [linked EXCEPT ![c] = [linked[c] EXCEPT ![i] = linked[c][i] + 1]]
      BY <1>1
    <3>2. linked[c][i] + 1 = 1
      BY <1>4
    <3> QED  BY <3>1, <3>2
  <2>2. [linked[c] EXCEPT ![i] = 1] \in [Projects -> 0..1]
    BY <1>0, <1>2, <1>4
  <2> QED  BY <1>1, <2>1, <2>2 DEF RowsTypeOK
<1>6. RowsTypeOK'
  BY <1>1, <1>5, Finishing DEF RowsTypeOK
<1>7. RequestsAccepted'
  BY <1>1, Finishing DEF CInv, RequestsAccepted, Accepted
<1>8. OpenedBefore'
  BY <1>1, Finishing DEF CInv, OpenedBefore
<1>9. /\ Links(c)' = Links(c) \cup {i}
      /\ \A d \in Calls \ {c} : Links(d)' = Links(d) /\ i \notin Links(d)
  BY <1>2, <1>4, <1>5 DEF Links
<1>10. GoneUnlinked'
  BY <1>1, <1>9 DEF CInv, GoneUnlinked
<1>11. LinksAreEarned'
  <2> SUFFICES ASSUME NEW d \in Calls, NEW p \in Links(d)'
               PROVE  /\ d \in opened /\ linked'[d][p] = 1
                      /\ \A e \in Calls \ {d} : p \notin Links(e)'
    BY <1>1 DEF LinksAreEarned
  <2>1. CASE d = c /\ p = i
    BY <1>2, <1>3, <1>4, <1>5, <1>9, <2>1
  <2>2. CASE p # i
    <3>1. p \in Links(d) /\ linked'[d][p] = linked[d][p]
      BY <1>4, <1>5, <1>9, <2>2 DEF Links
    <3> QED  BY <1>9, <2>2, <3>1 DEF CInv, LinksAreEarned
  <2> QED  BY <1>9, <2>1, <2>2
<1> QED  BY <1>6, <1>7, <1>8, <1>10, <1>11 DEF CInv

\* Links may only go: what Unlink() and DeleteProject() have in common.
LEMMA LosingLinksKeeps ==
  ASSUME CInv, UNCHANGED <<status, documents, opened, req>>,
         projects' \subseteq Projects,
         linked' \in [Calls -> [Projects -> 0..1]],
         \A c \in Calls, p \in Projects : linked'[c][p] <= linked[c][p]
  PROVE  CInv'
<1>1. RowsTypeOK' /\ RequestsAccepted' /\ OpenedBefore'
  BY DEF CInv, RowsTypeOK, RequestsAccepted, OpenedBefore, Busy
<1>2. \A c \in Calls : /\ linked[c] \in [Projects -> 0..1] /\ linked'[c] \in [Projects -> 0..1]
                       /\ Links(c)' \subseteq Links(c)
  BY DEF CInv, RowsTypeOK, Links
<1>3. GoneUnlinked'
  BY <1>2 DEF CInv, GoneUnlinked
<1>4. LinksAreEarned'
  <2> SUFFICES ASSUME NEW c \in Calls, NEW p \in Links(c)'
               PROVE  /\ c \in opened /\ linked'[c][p] = 1
                      /\ \A d \in Calls \ {c} : p \notin Links(d)'
    BY DEF LinksAreEarned
  <2>1. p \in Projects /\ linked'[c][p] > 0 /\ linked'[c][p] \in 0..1
    BY <1>2 DEF Links
  <2>2. c \in opened /\ \A d \in Calls \ {c} : p \notin Links(d)
    BY <1>2 DEF CInv, LinksAreEarned
  <2> QED  BY <1>2, <2>1, <2>2
<1> QED  BY <1>1, <1>3, <1>4 DEF CInv

LEMMA UnlinkKeeps ==
  ASSUME CInv, NEW c \in Calls, NEW p \in Projects, Unlink(c, p)
  PROVE  CInv'
<1>1. linked[c][p] = 1 /\ linked' = [linked EXCEPT ![c][p] = 0]
  <2>1. linked[c][p] > 0 /\ linked' = [linked EXCEPT ![c][p] = linked[c][p] - 1]
    BY DEF Unlink
  <2>2. linked[c][p] = 1
    BY <2>1 DEF CInv, RowsTypeOK
  <2> QED  BY <2>1, <2>2
<1>2. /\ linked' \in [Calls -> [Projects -> 0..1]]
      /\ \A d \in Calls, i \in Projects : linked'[d][i] <= linked[d][i]
  BY <1>1 DEF CInv, RowsTypeOK
<1> QED  BY <1>2, LosingLinksKeeps DEF Unlink, CInv, RowsTypeOK

LEMMA DeleteProjectKeeps ==
  ASSUME CInv, NEW p \in Projects, DeleteProject(p)
  PROVE  CInv'
<1>1. linked' = [c \in Calls |-> [linked[c] EXCEPT ![p] = 0]]
  BY DEF DeleteProject
<1>2. /\ linked' \in [Calls -> [Projects -> 0..1]]
      /\ \A d \in Calls, i \in Projects : linked'[d][i] <= linked[d][i]
  BY <1>1 DEF CInv, RowsTypeOK
<1> QED  BY <1>2, LosingLinksKeeps DEF DeleteProject, CInv, RowsTypeOK

LEMMA WriteDocumentKeeps ==
  ASSUME CInv, NEW r \in Requests, WriteDocument(r)
  PROVE  CInv'
<1> DEFINE q == req[r]
<1>1. /\ documents' = [documents EXCEPT ![q.call] =
                         IF q.op = "write" THEN @ \cup {q.item} ELSE @ \ {q.item}]
      /\ Finish(r) /\ UNCHANGED <<status, linked, projects, opened>>
      /\ Busy(r) /\ RowsTypeOK
  BY DEF WriteDocument, Busy, CInv
<1>2. q.op = "write" => q.item \in Documents
  BY <1>1 DEF CInv, RequestsAccepted
<1>3. documents' \in [Calls -> SUBSET Documents]
  BY <1>1, <1>2 DEF RowsTypeOK
<1>4. RowsTypeOK'
  BY <1>1, <1>3, Finishing DEF RowsTypeOK
<1>5. RequestsAccepted' /\ OpenedBefore'
  BY <1>1, Finishing DEF CInv, RequestsAccepted, OpenedBefore, Accepted
<1>6. GoneUnlinked' /\ LinksAreEarned'
  BY <1>1 DEF CInv, GoneUnlinked, LinksAreEarned, Links
<1> QED  BY <1>4, <1>5, <1>6 DEF CInv

LEMMA CStep == CInv /\ [Act]_vars => CInv'
<1> SUFFICES ASSUME CInv, [Act]_vars PROVE CInv'
  OBVIOUS
<1>1. CASE UNCHANGED vars
  BY <1>1 DEF vars, tables, CInv, RowsTypeOK, RequestsAccepted, OpenedBefore, GoneUnlinked,
              LinksAreEarned, Links, Busy, Accepted
<1>2. ASSUME NEW c \in Calls, Create(c) PROVE CInv'
  BY <1>2, CreateKeeps
<1>3. ASSUME NEW r \in Requests, NEW c \in Calls, NEW op \in Ops, Load(r, c, op) PROVE CInv'
  BY <1>3, LoadKeeps
<1>4. ASSUME NEW r \in Requests, Serve(r) PROVE CInv'
  BY <1>4, AbandonKeeps, TransitionKeeps, UpdateKeeps, ValidateKeeps, DeleteKeeps,
     LinkKeeps, WriteDocumentKeeps DEF Serve
<1>5. ASSUME NEW c \in Calls, NEW p \in Projects, Unlink(c, p) PROVE CInv'
  BY <1>5, UnlinkKeeps
<1>6. ASSUME NEW p \in Projects, DeleteProject(p) PROVE CInv'
  BY <1>6, DeleteProjectKeeps
<1> QED  BY <1>1, <1>2, <1>3, <1>4, <1>5, <1>6 DEF Act

LEMMA CInvariance == Spec => []CInv
<1>1. CInv /\ [Next]_vars => CInv'
  BY CStep DEF Next
<1> QED  BY <1>1, Initially, PTL DEF Spec

(***************************************************************************)
(* The theorems.                                                           *)
(***************************************************************************)

\* Only a transition writes the log, and it writes what it did.
LEMMA LogWrite ==
  ASSUME CInv, Act, logged' # NoEntry
  PROVE  \E r \in Requests :
           /\ Transition(r) /\ req[r].call \in Calls /\ req'[r] = Idle /\ On(r, req[r].call)
           /\ req[r].op \in Transitions
           /\ status[req[r].call] \in Sources[req[r].op]
           /\ status'[req[r].call] = Target[req[r].op]
           /\ logged' = [call |-> req[r].call, from |-> req[r].seen, to |-> Target[req[r].op]]
           /\ logged' \in LogEntry
<1>1. PICK r \in Requests : Transition(r)
  BY DEF Act, Serve, Create, Load, Abandon, Update, Validate, Delete, Link, WriteDocument,
         Unlink, DeleteProject
<1> DEFINE q == req[r]
<1>2. /\ q.op \in Transitions /\ status[q.call] \in Sources[q.op]
      /\ status' = [status EXCEPT ![q.call] = Target[q.op]]
      /\ logged' = [call |-> q.call, from |-> q.seen, to |-> Target[q.op]]
      /\ req' = [req EXCEPT ![r] = Idle]
      /\ Busy(r) /\ RowsTypeOK
  BY <1>1 DEF Transition, Legal, Busy, Finish, CInv
<1>3. q.call \in Calls /\ q.seen \in CallStatuses /\ Target[q.op] \in CallStatuses
  BY <1>2, BusyRequest, StateMachine
<1>4. status'[q.call] = Target[q.op] /\ req'[r] = Idle
  BY <1>2, <1>3 DEF RowsTypeOK
<1>5. [call |-> q.call, from |-> q.seen, to |-> Target[q.op]] \in LogEntry
  BY <1>3 DEF LogEntry
<1> QED  BY <1>1, <1>2, <1>3, <1>4, <1>5 DEF On

\* The rows, the requests and the log entries have their types, and a project
\* is linked to a call at most once.
THEOREM TypeCorrectness == Spec => []TypeOK
<1>1. Init => TypeOK
  BY Initially DEF Init, TypeOK, CInv
<1>2. CInv /\ CInv' /\ TypeOK /\ [Next]_vars => TypeOK'
  <2> SUFFICES ASSUME CInv, CInv', TypeOK, [Next]_vars PROVE TypeOK'
    OBVIOUS
  <2>1. CASE UNCHANGED vars
    BY <2>1 DEF vars, TypeOK, CInv
  <2>2. CASE Next
    <3>1. logged' \in LogEntry \cup {NoEntry}
      BY <2>2, LogWrite DEF Next
    <3>2. overtaken' \subseteq Requests
      BY <2>2 DEF Next, Overtake
    <3> QED  BY <3>1, <3>2 DEF TypeOK, CInv
  <2> QED  BY <2>1, <2>2
<1> QED  BY <1>1, <1>2, CInvariance, PTL DEF Spec

\* CallService.link() never leaves a project in two calls, nor in a call that
\* was not opened, though it checks both before it writes.
THEOREM LinkedCallsWereOpened == Spec => []LinksAreEarned
<1>1. CInv => LinksAreEarned
  BY DEF CInv
<1> QED  BY <1>1, CInvariance, PTL

(***************************************************************************)
(* A request that was not overtaken still sees what the database holds.    *)
(***************************************************************************)
FreshSees ==
  \A r \in Requests \ overtaken : Busy(r) => status[req[r].call] = req[r].seen

\* A request keeps the call and the status it loaded while it is at work; one
\* that begins has just loaded them.
LEMMA RequestsKeepWhatTheySaw ==
  ASSUME CInv, Act, NEW r \in Requests, Busy(r)'
  PROVE  \/ Busy(r) /\ req'[r].call = req[r].call /\ req'[r].seen = req[r].seen
         \/ ~Busy(r) /\ status'[req'[r].call] = req'[r].seen
<1>0. RowsTypeOK
  BY DEF CInv
<1>1. CASE UNCHANGED req
  BY <1>1 DEF Busy, Act
<1>2. ASSUME NEW s \in Requests, Finish(s)
      PROVE  Busy(r) /\ req'[r] = req[r]
  BY <1>0, <1>2, Finishing
<1>3. ASSUME NEW s \in Requests, Validate(s)
      PROVE  Busy(r) /\ req'[r].call = req[r].call /\ req'[r].seen = req[r].seen
  <2>1. req' = [req EXCEPT ![s].phase = "validated"] /\ Busy(s)
    BY <1>3 DEF Validate, Busy
  <2>2. CASE s = r
    <3>1. req[r] \in InFlight /\ Busy(r)
      BY <1>0, <2>1, <2>2, BusyRequest
    <3>2. req'[r] = [req[r] EXCEPT !.phase = "validated"]
      BY <1>0, <2>1, <2>2 DEF RowsTypeOK
    <3> QED  BY <3>1, <3>2 DEF InFlight
  <2>3. CASE s # r
    <3>1. req'[r] = req[r]
      BY <1>0, <2>1, <2>3 DEF RowsTypeOK
    <3> QED  BY <3>1 DEF Busy
  <2> QED  BY <2>2, <2>3
<1>4. ASSUME NEW s \in Requests, NEW c \in Calls, NEW op \in Ops, Load(s, c, op)
      PROVE  \/ Busy(r) /\ req'[r] = req[r]
             \/ ~Busy(r) /\ status'[req'[r].call] = req'[r].seen
  <2>1. PICK i \in ItemsOf(op, c) :
          req' = [req EXCEPT ![s] = [phase |-> "loaded", op |-> op, call |-> c,
                                     seen |-> status[c], item |-> i]]
    BY <1>4 DEF Load
  <2>2. ~Busy(s) /\ UNCHANGED status
    BY <1>4 DEF Load, tables
  <2>3. CASE s = r
    <3>1. req'[r].call = c /\ req'[r].seen = status[c]
      BY <1>0, <2>1, <2>3 DEF RowsTypeOK
    <3> QED  BY <2>2, <2>3, <3>1
  <2>4. CASE s # r
    <3>1. req'[r] = req[r]
      BY <1>0, <2>1, <2>4 DEF RowsTypeOK
    <3> QED  BY <3>1 DEF Busy
  <2> QED  BY <2>3, <2>4
<1>5. ASSUME NEW s \in Requests, Serve(s)
      PROVE  Finish(s) \/ Validate(s)
  BY <1>5 DEF Serve, Abandon, Transition, Update, Delete, Link, WriteDocument
<1>6. \A c \in Calls, p \in Projects : Create(c) \/ Unlink(c, p) \/ DeleteProject(p) => UNCHANGED req
  BY DEF Create, Unlink, DeleteProject
<1>7. (\E c \in Calls : Create(c)) => UNCHANGED req
  BY DEF Create
<1>8. (\E p \in Projects : DeleteProject(p)) => UNCHANGED req
  BY DEF DeleteProject
<1> QED  BY <1>1, <1>2, <1>3, <1>4, <1>5, <1>6, <1>7, <1>8 DEF Act

LEMMA FreshStep ==
  ASSUME CInv, FreshSees, [Next]_vars
  PROVE  FreshSees'
<1>1. CASE UNCHANGED vars
  BY <1>1 DEF vars, tables, FreshSees, Busy
<1>2. CASE Next
  <2> SUFFICES ASSUME NEW r \in Requests, r \notin overtaken', Busy(r)'
               PROVE  status'[req'[r].call] = req'[r].seen
    BY DEF FreshSees
  <2>1. CASE ~Busy(r)
    BY <1>2, <2>1, RequestsKeepWhatTheySaw DEF Next
  <2>2. CASE Busy(r)
    <3>1. r \notin overtaken /\ status'[req[r].call] = status[req[r].call]
      BY <1>2, <2>2 DEF Next, Overtake
    <3>2. req'[r].call = req[r].call /\ req'[r].seen = req[r].seen
      BY <1>2, <2>2, RequestsKeepWhatTheySaw DEF Next
    <3> QED  BY <2>2, <3>1, <3>2 DEF FreshSees
  <2> QED  BY <2>1, <2>2
<1> QED  BY <1>1, <1>2

\* What a log entry says of the step that writes it.
LEMMA LogStep ==
  ASSUME CInv, FreshSees, Next, logged' # NoEntry
  PROVE  LET c == logged'.call IN
           /\ <<status[c], status'[c]>> \in Edges /\ logged'.to = status'[c]
           /\ \/ logged'.from = status[c]
              \/ \E r \in overtaken : On(r, c) /\ req'[r] = Idle
<1>1. PICK r \in Requests :
        /\ req'[r] = Idle /\ On(r, req[r].call) /\ req[r].op \in Transitions
        /\ status[req[r].call] \in Sources[req[r].op]
        /\ status'[req[r].call] = Target[req[r].op]
        /\ logged' = [call |-> req[r].call, from |-> req[r].seen, to |-> Target[req[r].op]]
  BY LogWrite DEF Next
<1>2. /\ logged'.call = req[r].call /\ logged'.from = req[r].seen
      /\ logged'.to = Target[req[r].op]
  BY <1>1
<1>3. <<status[req[r].call], Target[req[r].op]>> \in Edges
  BY <1>1, StateMachine
<1>4. CASE r \in overtaken
  BY <1>1, <1>2, <1>3, <1>4
<1>5. CASE r \notin overtaken
  <2>1. status[req[r].call] = req[r].seen
    BY <1>1, <1>5 DEF FreshSees, On
  <2> QED  BY <1>1, <1>2, <1>3, <2>1
<1> QED  BY <1>4, <1>5

\* The log names the edge a call was taken along, as checked under the row
\* lock; the origin alone may be an older one, and only if the call changed
\* between the moment the request loaded it and the lock.
THEOREM LogFollowsEdges == Spec => LoggedAsTaken
<1>1. Init => FreshSees
  BY DEF Init, FreshSees, Busy, Idle
<1>2. CInv /\ FreshSees /\ [Next]_vars => FreshSees'
  BY FreshStep
<1>3. CInv /\ FreshSees /\ [Next]_vars =>
        [logged' # NoEntry =>
           LET c == logged'.call IN
             /\ <<status[c], status'[c]>> \in Edges /\ logged'.to = status'[c]
             /\ \/ logged'.from = status[c]
                \/ \E r \in overtaken : On(r, c) /\ req'[r] = Idle]_vars
  BY LogStep
<1> QED  BY <1>1, <1>2, <1>3, CInvariance, PTL DEF Spec, LoggedAsTaken

\* What the steps of a request may change: only its own call, and an archived
\* one only if the request saw it before.
LEMMA ServeFrame ==
  ASSUME CInv, NEW r \in Requests, Serve(r), NEW c \in Calls, status[c] \in TERMINAL_STATES,
         ~HeldFromBefore(c)
  PROVE  /\ status'[c] = status[c] /\ documents'[c] = documents[c]
         /\ linked'[c] = linked[c]
<1> DEFINE q == req[r]
<1>0. RowsTypeOK
  BY DEF CInv
<1>1. CASE q.call # c \/ ~Busy(r)
  <2>1. CASE Abandon(r) \/ Validate(r)
    BY <2>1 DEF Abandon, Validate, tables
  <2>2. CASE Transition(r) \/ Update(r) \/ Delete(r) \/ Link(r) \/ WriteDocument(r)
    <3>1. Busy(r)
      BY <2>2 DEF Transition, Update, Delete, Link, WriteDocument, Busy
    <3>2. q.call \in Calls \ {c}
      BY <1>0, <1>1, <3>1, BusyRequest
    <3> QED
      BY <1>0, <2>2, <3>2 DEF Transition, Update, Delete, Link, WriteDocument, RowsTypeOK
  <2> QED  BY <2>1, <2>2 DEF Serve
<1>2. CASE q.call = c /\ Busy(r)
  <2>1. q.seen \in TERMINAL_STATES /\ q.op \in Ops /\ Accepted(q.op, q.seen)
    BY <1>0, <1>2, BusyRequest DEF HeldFromBefore, On, CInv, RequestsAccepted
  <2>2. q.op \in Transitions
    BY <2>1 DEF Accepted, Ops, TERMINAL_STATES
  <2>3. q.op \notin {"update", "delete", "link"} \cup DocumentOps
    BY <2>2 DEF Transitions, Sources, DocumentOps
  <2>4. ~Transition(r)
    BY <1>2, <2>2, StateMachine DEF Transition, Legal
  <2>5. Abandon(r) \/ Validate(r)
    BY <2>3, <2>4 DEF Serve, Update, Delete, Link, WriteDocument
  <2> QED  BY <2>5 DEF Abandon, Validate, tables
<1> QED  BY <1>1, <1>2

LEMMA ArchivedStep ==
  ASSUME CInv, [Next]_vars, NEW c \in Calls, status[c] \in TERMINAL_STATES,
         ~HeldFromBefore(c)
  PROVE  /\ status'[c] = status[c] /\ documents'[c] = documents[c]
         /\ \A p \in Projects : linked'[c][p] <= linked[c][p]
<1>0. RowsTypeOK /\ \A p \in Projects : linked[c][p] \in Nat
  BY DEF CInv, RowsTypeOK
<1>1. CASE UNCHANGED vars
  BY <1>0, <1>1 DEF vars, tables
<1>2. ASSUME NEW d \in Calls, Create(d)
      PROVE  UNCHANGED <<status[c], documents[c], linked[c]>>
  <2>1. d # c
    BY <1>2, CallsAssumption DEF Create, TERMINAL_STATES, CallStatuses
  <2> QED  BY <1>0, <1>2, <2>1 DEF Create, RowsTypeOK
<1>3. ASSUME NEW r \in Requests, NEW d \in Calls, NEW op \in Ops, Load(r, d, op)
      PROVE  UNCHANGED <<status[c], documents[c], linked[c]>>
  BY <1>3 DEF Load, tables
<1>4. ASSUME NEW r \in Requests, Serve(r)
      PROVE  UNCHANGED <<status[c], documents[c], linked[c]>>
  BY <1>4, ServeFrame
<1>5. ASSUME NEW d \in Calls, NEW i \in Projects, Unlink(d, i)
      PROVE  /\ UNCHANGED <<status, documents>>
             /\ \A p \in Projects : linked'[c][p] <= linked[c][p]
  <2>1. linked[d][i] \in Nat /\ linked' = [linked EXCEPT ![d][i] = linked[d][i] - 1]
    BY <1>0, <1>5 DEF Unlink, RowsTypeOK
  <2>2. linked[d][i] - 1 <= linked[d][i]
    BY <2>1
  <2>3. \A p \in Projects :
          linked'[c][p] = IF c = d /\ p = i THEN linked[d][i] - 1 ELSE linked[c][p]
    BY <1>0, <2>1 DEF RowsTypeOK
  <2> QED  BY <1>0, <1>5, <2>2, <2>3 DEF Unlink
<1>6. ASSUME NEW i \in Projects, DeleteProject(i)
      PROVE  /\ UNCHANGED <<status, documents>>
             /\ \A p \in Projects : linked'[c][p] <= linked[c][p]
  <2>1. \A p \in Projects : linked'[c][p] = IF p = i THEN 0 ELSE linked[c][p]
    BY <1>0, <1>6 DEF DeleteProject, RowsTypeOK
  <2> QED  BY <1>0, <1>6, <2>1 DEF DeleteProject
<1> QED  BY <1>0, <1>1, <1>2, <1>3, <1>4, <1>5, <1>6 DEF Next, Act

\* An archived call stays as it is, but for requests that loaded it before;
\* only its links may go.
THEOREM ArchivedStaysFinal == Spec => ArchivedIsFinal
<1>1. CInv /\ [Next]_vars =>
        [\A c \in Calls :
           status[c] \in TERMINAL_STATES /\ ~HeldFromBefore(c) =>
             /\ status'[c] = status[c] /\ documents'[c] = documents[c]
             /\ \A p \in Projects : linked'[c][p] <= linked[c][p]]_vars
  BY ArchivedStep
<1> QED  BY <1>1, CInvariance, PTL DEF Spec, ArchivedIsFinal
==============================================================================
