--------------------------- MODULE Projects_proofs ---------------------------
(***************************************************************************)
(* Proofs about Projects, for every number of projects and of requests.    *)
(***************************************************************************)
EXTENDS Projects, FiniteSetTheorems, TLAPS

(***************************************************************************)
(* The state machine.                                                      *)
(***************************************************************************)

\* Every transition leads from non-terminal states to a state.
LEMMA StateMachine ==
  ASSUME NEW t \in Transitions
  PROVE  /\ Sources[t] \subseteq Statuses \ TerminalStates
         /\ Target[t] \in Statuses
         /\ Sources[t] \X {Target[t]} \subseteq Edges
<1>1. Sources[t] \subseteq Statuses \ TerminalStates
  BY DEF Transitions, Sources, Statuses, TerminalStates
<1>2. Target[t] \in Statuses
  BY DEF Transitions, Sources, Target, Statuses
<1>3. Sources[t] \X {Target[t]} \subseteq Edges
  BY DEF Edges
<1> QED  BY <1>1, <1>2, <1>3

\* Only observe() leads to "observado".
LEMMA ObserveOnly ==
  ASSUME NEW t \in Transitions
  PROVE  Target[t] = "observado" <=> t = "observe"
BY DEF Transitions, Sources, Target

\* Appending keeps the entries there are and adds one.
LEMMA Appending ==
  ASSUME NEW S, NEW s \in Seq(S), NEW e \in S
  PROVE  /\ Append(s, e) \in Seq(S)
         /\ Len(s) \in Nat
         /\ Len(Append(s, e)) = Len(s) + 1
         /\ DOMAIN Append(s, e) = 1..(Len(s) + 1)
         /\ \A i \in 1..Len(s) : Append(s, e)[i] = s[i]
         /\ Append(s, e)[Len(s) + 1] = e
OBVIOUS

(***************************************************************************)
(* Type correctness.  A request in flight has passed the checks of its     *)
(* service, holds the lock only inside a transition and is about an item   *)
(* exactly when its operation is.                                          *)
(***************************************************************************)

RequestsSettled ==
  \A r \in Requests : Busy(r) =>
    /\ Accepted(req[r])
    /\ req[r].phase = "locked" => req[r].op \in Transitions
    /\ req[r].op \in ItemOps => req[r].item \in Items
    /\ req[r].project \in opened

RowsOpened == \A p \in Projects : row[p] # NoRow => p \in opened

TInv == TypeOK /\ RequestsSettled /\ RowsOpened

\* A request in flight is a record of the right type.
LEMMA BusyRequest ==
  ASSUME TypeOK, NEW r \in Requests, Busy(r)
  PROVE  /\ req[r] \in InFlight
         /\ req[r].project \in Projects
         /\ req[r].seen \in Row
         /\ req[r].seen.status \in Statuses
BY DEF TypeOK, Busy, Idle, InFlight, Row

\* The entry and the row of a transition have their types.
LEMMA TransitionTypes ==
  ASSUME TInv, NEW r \in Requests, req[r].phase = "locked", NEW d \in EndDates
  PROVE  /\ req[r] \in InFlight
         /\ req[r].project \in Projects
         /\ req[r].op \in Transitions
         /\ Entry(req[r]) \in LogEntry
         /\ <<Entry(req[r]).from, Entry(req[r]).to>> \in Edges
         /\ Saved(req[r], d) \in Row
         /\ Saved(req[r], d).status = Entry(req[r]).to
<1> DEFINE q == req[r]
<1>1. Busy(r)
  BY DEF Busy
<1>2. q \in InFlight /\ q.project \in Projects /\ q.seen \in Row
  BY <1>1, BusyRequest DEF TInv
<1>3. q.op \in Transitions /\ Accepted(q)
  BY <1>1 DEF TInv, RequestsSettled
<1>4. q.op \notin {"update", "destroy", "admin_destroy"} \cup ItemOps
  BY <1>3 DEF Transitions, Sources, ItemOps
<1>5. q.seen.status \in Sources[q.op]
  BY <1>3, <1>4 DEF Accepted
<1>6. Target[q.op] \in Statuses /\ Sources[q.op] \subseteq Statuses
      /\ Sources[q.op] \X {Target[q.op]} \subseteq Edges
  BY <1>3, StateMachine
<1>7. Entry(q) \in LogEntry /\ <<Entry(q).from, Entry(q).to>> \in Edges
  BY <1>5, <1>6 DEF Entry, LogEntry
<1>8. Saved(q, d) \in Row /\ Saved(q, d).status = Entry(q).to
  BY <1>2, <1>6 DEF Saved, Row, Entry
<1> QED  BY <1>2, <1>3, <1>7, <1>8

LEMMA TInitially == Init => TInv
BY DEF Init, TInv, TypeOK, RequestsSettled, RowsOpened, Busy, Idle

\* A request that is served leaves the others as they were.
LEMMA Finishing ==
  ASSUME TInv, NEW r \in Requests, Finish(r), opened \subseteq opened'
  PROVE  /\ req' \in [Requests -> InFlight \cup {Idle}]
         /\ RequestsSettled'
<1>1. req' = [req EXCEPT ![r] = Idle] /\ req \in [Requests -> InFlight \cup {Idle}]
  BY DEF Finish, TInv, TypeOK
<1>2. req' \in [Requests -> InFlight \cup {Idle}]
  BY <1>1
<1>3. \A s \in Requests : Busy(s)' => s # r /\ Busy(s) /\ req'[s] = req[s]
  BY <1>1 DEF Busy, Idle
<1>4. RequestsSettled'
  BY <1>3 DEF TInv, RequestsSettled, Accepted
<1> QED  BY <1>2, <1>4

LEMMA TCreate ==
  ASSUME TInv, NEW p \in Projects, Create(p)
  PROVE  TInv'
<1>1. opened' = opened \cup {p} /\ UNCHANGED <<destroyed, log, observations, attached, req>>
  BY DEF Create, children
<1>2. PICK c \in Contents, s \in Shared, d \in EndDates :
        row' = [row EXCEPT ![p] = [status |-> "borrador", contents |-> c,
                                   shared |-> s, actual_end |-> d]]
  BY DEF Create
<1>3. [status |-> "borrador", contents |-> c, shared |-> s, actual_end |-> d] \in Row
  BY DEF Row, Statuses
<1>4. TypeOK'
  BY <1>1, <1>2, <1>3 DEF TInv, TypeOK
<1>5. RequestsSettled'
  BY <1>1 DEF TInv, RequestsSettled, Busy, Accepted
<1>6. RowsOpened'
  BY <1>1, <1>2 DEF TInv, TypeOK, RowsOpened
<1> QED  BY <1>4, <1>5, <1>6 DEF TInv

LEMMA TLoad ==
  ASSUME TInv, NEW r \in Requests, NEW p \in Projects, NEW o \in Ops,
         NEW i \in Items \cup {NoItem}, Load(r, p, o, i)
  PROVE  TInv'
<1> DEFINE q == [phase |-> "loaded", op |-> o, project |-> p, item |-> i, seen |-> row[p]]
<1>1. UNCHANGED <<opened, destroyed, row, log, observations, attached>>
  BY DEF Load, children
<1>2. req' = [req EXCEPT ![r] = q] /\ Accepted(q)
  BY DEF Load
<1>3. q \in InFlight
  <2>1. row[p] \in Row
    BY DEF Load, TInv, TypeOK
  <2> QED  BY <2>1 DEF InFlight
<1>4. o \in ItemOps => i \in Items
  BY DEF Load
<1>5. p \in opened
  BY DEF Load, TInv, RowsOpened
<1>6. TypeOK'
  BY <1>1, <1>2, <1>3 DEF TInv, TypeOK
<1>7. \A s \in Requests : req'[s] = IF s = r THEN q ELSE req[s]
  BY <1>2 DEF TInv, TypeOK
<1>8. RequestsSettled'
  BY <1>1, <1>2, <1>4, <1>5, <1>7 DEF TInv, RequestsSettled, Busy, Accepted
<1>9. RowsOpened'
  BY <1>1 DEF TInv, RowsOpened
<1> QED  BY <1>6, <1>8, <1>9 DEF TInv

LEMMA TBegin ==
  ASSUME TInv, NEW r \in Requests, Begin(r)
  PROVE  TInv'
<1>1. UNCHANGED <<opened, destroyed, row, log, observations, attached>>
  BY DEF Begin, children
<1>2. req[r] \in InFlight /\ req[r].op \in Transitions /\ Busy(r)
  BY BusyRequest DEF Begin, TInv, Busy
<1>3. req' = [req EXCEPT ![r] = [req[r] EXCEPT !.phase = "locked"]]
  BY DEF Begin, TInv, TypeOK
<1>4. [req[r] EXCEPT !.phase = "locked"] \in InFlight
  BY <1>2 DEF InFlight
<1>5. TypeOK'
  BY <1>1, <1>3, <1>4 DEF TInv, TypeOK
<1>6. \A s \in Requests :
        req'[s] = IF s = r THEN [req[r] EXCEPT !.phase = "locked"] ELSE req[s]
  BY <1>3 DEF TInv, TypeOK
<1>7. \A s \in Requests : Busy(s)' =>
        /\ Busy(s) /\ req'[s].op = req[s].op /\ req'[s].item = req[s].item
        /\ req'[s].project = req[s].project /\ req'[s].seen = req[s].seen
        /\ s # r => req'[s] = req[s]
  BY <1>2, <1>6 DEF Busy, InFlight
<1>8. RequestsSettled'
  BY <1>1, <1>2, <1>7 DEF TInv, RequestsSettled, Accepted
<1>9. RowsOpened'
  BY <1>1 DEF TInv, RowsOpened
<1> QED  BY <1>5, <1>8, <1>9 DEF TInv

\* A commit writes the row and the entry of its transition and nothing else.
LEMMA CommitEffect ==
  ASSUME TInv, NEW r \in Requests, Commit(r)
  PROVE  LET p == req[r].project IN
         /\ p \in Projects
         /\ req[r].op \in Transitions
         /\ Entry(req[r]) \in LogEntry
         /\ <<Entry(req[r]).from, Entry(req[r]).to>> \in Edges
         /\ row' = [row EXCEPT ![p] = row'[p]]
         /\ row'[p] \in Row
         /\ row'[p].status = Entry(req[r]).to
         /\ log' = [log EXCEPT ![p] = Append(log[p], Entry(req[r]))]
         /\ Finish(r)
         /\ UNCHANGED <<opened, destroyed, attached>>
<1> DEFINE p == req[r].project
<1>1. req[r].phase = "locked" /\ Busy(r)
  BY DEF Commit, Busy
<1>2. PICK d \in IF req[r].op = "finalize" THEN EndDates ELSE {req[r].seen.actual_end} :
        row' = [row EXCEPT ![p] = Saved(req[r], d)]
  BY DEF Commit
<1>3. d \in EndDates
  BY <1>1, BusyRequest DEF TInv, Row
<1>4. /\ p \in Projects /\ req[r].op \in Transitions /\ Entry(req[r]) \in LogEntry
      /\ <<Entry(req[r]).from, Entry(req[r]).to>> \in Edges
      /\ Saved(req[r], d) \in Row /\ Saved(req[r], d).status = Entry(req[r]).to
  BY <1>1, <1>3, TransitionTypes
<1>5. row'[p] = Saved(req[r], d)
  BY <1>2, <1>4 DEF TInv, TypeOK
<1>6. log' = [log EXCEPT ![p] = Append(log[p], Entry(req[r]))]
  BY DEF Commit
<1> QED  BY <1>2, <1>4, <1>5, <1>6 DEF Commit

LEMMA TCommit ==
  ASSUME TInv, NEW r \in Requests, Commit(r)
  PROVE  TInv'
<1> DEFINE p == req[r].project
<1>1. /\ p \in Projects /\ row'[p] \in Row /\ row' = [row EXCEPT ![p] = row'[p]]
      /\ log' = [log EXCEPT ![p] = Append(log[p], Entry(req[r]))]
      /\ Entry(req[r]) \in LogEntry /\ Finish(r)
      /\ UNCHANGED <<opened, destroyed, attached>>
  BY CommitEffect
<1>2. req' \in [Requests -> InFlight \cup {Idle}] /\ RequestsSettled'
  BY <1>1, Finishing
<1>3. log' \in [Projects -> Seq(LogEntry)]
  BY <1>1, Appending DEF TInv, TypeOK
<1>4. observations' \in [Projects -> Nat]
  <2>1. observations' = [observations EXCEPT ![p] = @ + 1] \/ observations' = observations
    BY DEF Commit
  <2> QED  BY <1>1, <2>1 DEF TInv, TypeOK
<1>5. row' \in [Projects -> Row \cup {NoRow}]
  BY <1>1 DEF TInv, TypeOK
<1>6. TypeOK'
  BY <1>1, <1>2, <1>3, <1>4, <1>5 DEF TInv, TypeOK
<1>7. p \in opened
  BY DEF Commit, Busy, TInv, RequestsSettled
<1>8. RowsOpened'
  BY <1>1, <1>7 DEF TInv, TypeOK, RowsOpened
<1> QED  BY <1>2, <1>6, <1>8 DEF TInv

LEMMA TUpdate ==
  ASSUME TInv, NEW r \in Requests, Update(r)
  PROVE  /\ TInv'
         /\ row'[req[r].project].status = req[r].seen.status
         /\ row'[req[r].project] \in Row
<1> DEFINE p == req[r].project
<1>1. Finish(r) /\ UNCHANGED <<opened, destroyed, log, observations, attached>>
  BY DEF Update, children
<1>2. p \in Projects /\ p \in opened /\ req[r].seen \in Row
  BY BusyRequest DEF Update, Busy, TInv, RequestsSettled
<1>3. PICK c \in Contents, s \in Shared, d \in EndDates :
        row' = [row EXCEPT ![p] =
                  [req[r].seen EXCEPT !.contents = c, !.shared = s, !.actual_end = d]]
  BY DEF Update
<1> DEFINE saved == [req[r].seen EXCEPT !.contents = c, !.shared = s, !.actual_end = d]
<1>4. saved \in Row /\ saved.status = req[r].seen.status
  BY <1>2 DEF Row
<1>5. req' \in [Requests -> InFlight \cup {Idle}] /\ RequestsSettled'
  BY <1>1, Finishing
<1>6. TypeOK'
  BY <1>1, <1>2, <1>3, <1>4, <1>5 DEF TInv, TypeOK
<1>7. RowsOpened'
  BY <1>1, <1>2, <1>3 DEF TInv, TypeOK, RowsOpened
<1>8. row'[p].status = req[r].seen.status /\ row'[p] \in Row
  BY <1>2, <1>3, <1>4 DEF TInv, TypeOK
<1> QED  BY <1>5, <1>6, <1>7, <1>8 DEF TInv

LEMMA TDestroy ==
  ASSUME TInv, NEW r \in Requests, Destroy(r)
  PROVE  TInv'
<1> DEFINE p == req[r].project
<1>1. Finish(r) /\ UNCHANGED opened
  BY DEF Destroy
<1>2. p \in Projects /\ p \in opened
  BY BusyRequest DEF Destroy, Busy, TInv, RequestsSettled
<1>3. req' \in [Requests -> InFlight \cup {Idle}] /\ RequestsSettled'
  BY <1>1, Finishing
<1>4. log' \in [Projects -> Seq(LogEntry)]
  <2>1. log' = [log EXCEPT ![p] = <<>>]
    BY DEF Destroy
  <2>2. <<>> \in Seq(LogEntry)
    OBVIOUS
  <2> QED  BY <2>1, <2>2 DEF TInv, TypeOK
<1>5. TypeOK'
  <2>1. opened' \subseteq Projects /\ destroyed' \subseteq opened'
    BY <1>1, <1>2 DEF Destroy, TInv, TypeOK
  <2>2. row' \in [Projects -> Row \cup {NoRow}]
    BY DEF Destroy, TInv, TypeOK
  <2>3. observations' \in [Projects -> Nat] /\ attached' \in [Projects -> SUBSET Items]
    BY DEF Destroy, TInv, TypeOK
  <2> QED  BY <1>3, <1>4, <2>1, <2>2, <2>3 DEF TypeOK
<1>6. RowsOpened'
  BY <1>1, <1>2 DEF Destroy, TInv, TypeOK, RowsOpened
<1> QED  BY <1>3, <1>5, <1>6 DEF TInv

\* What the three operations on members and documents have in common.
ItemStep(r) == Attach(r) \/ Revise(r) \/ Detach(r)

LEMMA TItemStep ==
  ASSUME TInv, NEW r \in Requests, ItemStep(r)
  PROVE  TInv'
<1> DEFINE p == req[r].project
<1>1. /\ Busy(r) /\ Finish(r) /\ req[r].op \in ItemOps
      /\ UNCHANGED <<opened, destroyed, row, log, observations>>
  BY DEF ItemStep, Attach, Revise, Detach, WriteItem, ItemOps
<1>2. p \in Projects /\ req[r].item \in Items
  BY <1>1, BusyRequest DEF TInv, RequestsSettled
<1>3. PICK items \in SUBSET Items : attached' = [attached EXCEPT ![p] = items]
  BY <1>2 DEF ItemStep, Attach, Revise, Detach, WriteItem, TInv, TypeOK
<1>4. req' \in [Requests -> InFlight \cup {Idle}] /\ RequestsSettled'
  BY <1>1, Finishing
<1>5. TypeOK'
  BY <1>1, <1>3, <1>4 DEF TInv, TypeOK
<1>6. RowsOpened'
  BY <1>1 DEF TInv, RowsOpened
<1> QED  BY <1>4, <1>5, <1>6 DEF TInv

LEMMA TAbandon ==
  ASSUME TInv, NEW r \in Requests, Abandon(r)
  PROVE  TInv'
<1>1. Finish(r) /\ UNCHANGED <<opened, destroyed, row, log, observations, attached>>
  BY DEF Abandon, children
<1>2. req' \in [Requests -> InFlight \cup {Idle}] /\ RequestsSettled'
  BY <1>1, Finishing
<1> QED  BY <1>1, <1>2 DEF TInv, TypeOK, RowsOpened

\* What the writes of other components leave alone, whatever they do.
LEMMA ElsewhereEffect ==
  ASSUME TInv, Elsewhere
  PROVE  /\ UNCHANGED <<opened, destroyed, log, observations, req>>
         /\ row' \in [Projects -> Row \cup {NoRow}]
         /\ attached' \in [Projects -> SUBSET Items]
         /\ \A p \in Projects :
              /\ Kept(p)
              /\ row'[p] = NoRow <=> row[p] = NoRow
              /\ row[p] # NoRow => row'[p].status = row[p].status
<1>1. PICK p \in Projects : WriteShared(p) \/ \E i \in Items : LoseMember(p, i)
  BY DEF Elsewhere
<1>2. CASE WriteShared(p)
  <2>1. PICK s \in Shared : row' = [row EXCEPT ![p].shared = s]
    BY <1>2 DEF WriteShared
  <2>2. row[p] \in Row /\ row[p] # NoRow
    BY <1>2 DEF WriteShared, TInv, TypeOK
  <2>3. row' = [row EXCEPT ![p] = [row[p] EXCEPT !.shared = s]]
    BY <2>1 DEF TInv, TypeOK
  <2>4. [row[p] EXCEPT !.shared = s] \in Row
        /\ [row[p] EXCEPT !.shared = s].status = row[p].status
    BY <2>2 DEF Row
  <2>5. /\ row'[p] = [row[p] EXCEPT !.shared = s] /\ row'[p] \in Row
        /\ \A o \in Projects \ {p} : row'[o] = row[o]
        /\ row' \in [Projects -> Row \cup {NoRow}]
    BY <2>3, <2>4 DEF TInv, TypeOK
  <2>6. UNCHANGED <<opened, destroyed, log, observations, attached, req>>
    BY <1>2 DEF WriteShared, children
  <2>7. \A o \in Projects : RowKept(o)
    BY <2>2, <2>5 DEF RowKept
  <2>8. \A o \in Projects : Kept(o)
    BY <2>6, <2>7 DEF Kept
  <2> QED  BY <2>2, <2>4, <2>5, <2>6, <2>8, ProjectsAssumption DEF TInv, TypeOK
<1>3. ASSUME NEW i \in Items, LoseMember(p, i)
      PROVE  /\ UNCHANGED <<opened, destroyed, row, log, observations, req>>
             /\ attached' \in [Projects -> SUBSET Items]
             /\ \A o \in Projects : Kept(o)
  <2>1. /\ i \in Members /\ attached' = [attached EXCEPT ![p] = attached[p] \ {i}]
        /\ UNCHANGED <<opened, destroyed, row, log, observations, req>>
    BY <1>3 DEF LoseMember
  <2>2. \A o \in Projects : attached'[o] = IF o = p THEN attached[p] \ {i} ELSE attached[o]
    BY <2>1 DEF TInv, TypeOK
  <2>3. attached' \in [Projects -> SUBSET Items]
    BY <2>1 DEF TInv, TypeOK
  <2> QED  BY <2>1, <2>2, <2>3 DEF Kept, RowKept
<1> QED  BY <1>1, <1>2, <1>3 DEF TInv, TypeOK

LEMMA TElsewhere ==
  ASSUME TInv, Elsewhere
  PROVE  TInv'
<1>1. /\ UNCHANGED <<opened, destroyed, log, observations, req>>
      /\ row' \in [Projects -> Row \cup {NoRow}]
      /\ attached' \in [Projects -> SUBSET Items]
      /\ \A p \in Projects : row'[p] = NoRow <=> row[p] = NoRow
  BY ElsewhereEffect
<1> QED  BY <1>1 DEF TInv, TypeOK, RequestsSettled, RowsOpened, Busy, Accepted

LEMMA TStep == TInv /\ [Next]_vars => TInv'
<1> SUFFICES ASSUME TInv, [Next]_vars PROVE TInv'
  OBVIOUS
<1>1. CASE UNCHANGED vars
  BY <1>1 DEF vars, TInv, TypeOK, RequestsSettled, RowsOpened, Busy, Accepted
<1>2. CASE \E p \in Projects : Create(p)
  BY <1>2, TCreate
<1>3. CASE \E r \in Requests, p \in Projects, o \in Ops, i \in Items \cup {NoItem} :
             Load(r, p, o, i)
  BY <1>3, TLoad
<1>4. CASE \E r \in Requests : Serve(r)
  <2> PICK r \in Requests : Serve(r)
    BY <1>4
  <2>1. CASE Abandon(r)   BY <2>1, TAbandon
  <2>2. CASE Begin(r)     BY <2>2, TBegin
  <2>3. CASE Commit(r)    BY <2>3, TCommit
  <2>4. CASE Update(r)    BY <2>4, TUpdate
  <2>5. CASE Destroy(r)   BY <2>5, TDestroy
  <2>6. CASE ItemStep(r)  BY <2>6, TItemStep
  <2> QED  BY <2>1, <2>2, <2>3, <2>4, <2>5, <2>6 DEF Serve, Autocommitted, ItemStep
<1>5. CASE Elsewhere
  BY <1>5, TElsewhere
<1> QED  BY <1>1, <1>2, <1>3, <1>4, <1>5 DEF Next, Arrive

\* The tables and the requests keep their types, however many there are.
THEOREM TypeCorrectness == Spec => []TypeOK
<1>1. Spec => []TInv
  BY TInitially, TStep, PTL DEF Spec
<1>2. TInv => TypeOK
  BY DEF TInv
<1> QED  BY <1>1, <1>2, PTL

(***************************************************************************)
(* The status and the log.  GInv is inductive only together: an entry is   *)
(* grounded because the request that writes it holds a status the log      *)
(* accounts for, and that stays so because entries are never removed.      *)
(***************************************************************************)

GInv == StatusAccountedFor /\ HistoryGrounded

\* What the log accounts for only grows when an entry is appended.
LEMMA ReachedGrows ==
  ASSUME TypeOK, NEW p \in Projects, NEW e \in LogEntry, log'[p] = Append(log[p], e)
  PROVE  /\ Len(log[p]) \in Nat /\ Len(log[p])' = Len(log[p]) + 1
         /\ \A n \in 0..Len(log[p]) : Reached(p, n)' = Reached(p, n)
         /\ Reached(p, Len(log[p]))' = Reached(p, Len(log[p])) \cup {e.to}
<1>1. log[p] \in Seq(LogEntry)
  BY DEF TypeOK
<1>2. /\ Len(log[p]) \in Nat /\ Len(log'[p]) = Len(log[p]) + 1
      /\ \A i \in 1..Len(log[p]) : log'[p][i] = log[p][i]
      /\ log'[p][Len(log[p]) + 1] = e
  BY <1>1, Appending
<1>3. \A n \in 0..Len(log[p]) : \A i \in 1..n : log'[p][i] = log[p][i]
  BY <1>2
<1>4. \A n \in 0..Len(log[p]) : Reached(p, n)' = Reached(p, n)
  BY <1>3 DEF Reached
<1>5. 1..(Len(log[p]) + 1) = (1..Len(log[p])) \cup {Len(log[p]) + 1}
  BY <1>2
<1>6. {log'[p][i].to : i \in 1..(Len(log[p]) + 1)}
        = {log[p][i].to : i \in 1..Len(log[p])} \cup {e.to}
  BY <1>2, <1>5
<1>7. Reached(p, Len(log[p]))' = Reached(p, Len(log[p])) \cup {e.to}
  BY <1>2, <1>6 DEF Reached
<1> QED  BY <1>2, <1>4, <1>7

\* Nothing to show when the log stays as it is.
LEMMA ReachedSame ==
  ASSUME NEW p \in Projects, log'[p] = log[p]
  PROVE  \A n \in Nat : Reached(p, n)' = Reached(p, n)
BY DEF Reached

LEMMA GInitially == Init => GInv
BY DEF Init, GInv, StatusAccountedFor, HistoryGrounded, Reached, Busy, Idle

\* A status that the log already accounts for: the draft's, the row's or the
\* one a request in flight holds.
Known(p, s) ==
  \/ s = "borrador"
  \/ row[p] # NoRow /\ s = row[p].status
  \/ \E r \in Requests : On(r, p) /\ s = req[r].seen.status

LEMMA KnownIsReached ==
  ASSUME GInv, NEW p \in Projects \ destroyed, NEW s, Known(p, s)
  PROVE  s \in Reached(p, Len(log[p]))
BY DEF GInv, StatusAccountedFor, Known, On, Reached

\* Steps that log nothing keep the invariant when every status they leave in
\* a row or in a request was known.
LEMMA GQuiet ==
  ASSUME TInv, GInv, UNCHANGED <<log, destroyed>>,
         \A p \in Projects : row'[p] # NoRow => Known(p, row'[p].status),
         \A r \in Requests : Busy(r)' =>
           /\ req'[r].project \in Projects
           /\ Known(req'[r].project, req'[r].seen.status)
  PROVE  GInv'
<1>1. \A p \in Projects : Reached(p, Len(log[p]))' = Reached(p, Len(log[p]))
  BY DEF Reached
<1>2. StatusAccountedFor'
  <2>1. ASSUME NEW p \in Projects \ destroyed', row'[p] # NoRow
        PROVE  row'[p].status \in Reached(p, Len(log[p]))'
    BY <1>1, <2>1, KnownIsReached
  <2>2. ASSUME NEW r \in Requests, Busy(r)', req'[r].project \notin destroyed'
        PROVE  req'[r].seen.status
                 \in Reached(req[r].project, Len(log[req[r].project]))'
    <3>1. PICK p \in Projects \ destroyed :
            p = req'[r].project /\ Known(p, req'[r].seen.status)
      BY <2>2
    <3>2. req'[r].seen.status \in Reached(p, Len(log[p]))
      BY <3>1, KnownIsReached
    <3> QED  BY <3>1, <3>2 DEF Reached
  <2> QED  BY <2>1, <2>2 DEF StatusAccountedFor
<1>3. HistoryGrounded'
  BY DEF GInv, HistoryGrounded, Reached
<1> QED  BY <1>2, <1>3 DEF GInv

LEMMA GCommit ==
  ASSUME TInv, GInv, NEW r \in Requests, Commit(r)
  PROVE  GInv'
<1>0. PICK p \in Projects, e \in LogEntry : p = req[r].project /\ e = Entry(req[r])
  BY CommitEffect
<1>1. /\ <<e.from, e.to>> \in Edges
      /\ row' = [row EXCEPT ![p] = row'[p]] /\ row'[p].status = e.to
      /\ log' = [log EXCEPT ![p] = Append(log[p], e)]
      /\ Finish(r) /\ UNCHANGED <<opened, destroyed, attached>>
  BY <1>0, CommitEffect
<1>2. /\ log'[p] = Append(log[p], e)
      /\ \A o \in Projects \ {p} : log'[o] = log[o] /\ row'[o] = row[o]
  BY <1>1 DEF TInv, TypeOK
<1>3. /\ Len(log[p]) \in Nat /\ Len(log[p])' = Len(log[p]) + 1
      /\ \A n \in 0..Len(log[p]) : Reached(p, n)' = Reached(p, n)
      /\ Reached(p, Len(log[p]))' = Reached(p, Len(log[p])) \cup {e.to}
  BY <1>2, ReachedGrows DEF TInv
<1>4. \A o \in Projects : Reached(o, Len(log[o])) \subseteq Reached(o, Len(log[o]))'
  BY <1>2, <1>3 DEF Reached
<1>5. \A s \in Requests : Busy(s)' => Busy(s) /\ req'[s] = req[s]
  BY <1>1 DEF Finish, Busy, Idle, TInv, TypeOK
<1>6. StatusAccountedFor'
  <2>1. \A o \in Projects \ destroyed' :
          row'[o] # NoRow => row'[o].status \in Reached(o, Len(log[o]))'
    BY <1>1, <1>2, <1>3, <1>4 DEF GInv, StatusAccountedFor
  <2>2. ASSUME NEW s \in Requests, Busy(s)', req'[s].project \notin destroyed'
        PROVE  req'[s].seen.status \in Reached(req[s].project, Len(log[req[s].project]))'
    <3>0. PICK o \in Projects : o = req[s].project
      BY <1>5, <2>2, BusyRequest DEF TInv
    <3>1. /\ Busy(s) /\ req'[s] = req[s]
          /\ o = req'[s].project /\ o \notin destroyed
      BY <1>1, <1>5, <2>2, <3>0
    <3>2. req[s].seen.status \in Reached(o, Len(log[o]))
      BY <3>0, <3>1 DEF GInv, StatusAccountedFor
    <3>3. req'[s].seen.status \in Reached(o, Len(log[o]))'
      BY <1>4, <3>1, <3>2
    <3> QED  BY <3>1, <3>3 DEF Reached
  <2> QED  BY <2>1, <2>2 DEF StatusAccountedFor
<1>7. HistoryGrounded'
  <2> SUFFICES ASSUME NEW o \in Projects, NEW i \in DOMAIN log'[o]
               PROVE  /\ <<log'[o][i].from, log'[o][i].to>> \in Edges
                      /\ o \notin destroyed' => log'[o][i].from \in Reached(o, i - 1)'
    BY DEF HistoryGrounded
  <2>1. CASE o # p
    <3>1. log'[o] = log[o] /\ i \in DOMAIN log[o]
      BY <1>2, <2>1
    <3>2. Reached(o, i - 1)' = Reached(o, i - 1)
      BY <3>1 DEF Reached
    <3> QED  BY <1>1, <3>1, <3>2 DEF GInv, HistoryGrounded
  <2>2. CASE o = p
    <3>1. /\ DOMAIN log[p] = 1..Len(log[p]) /\ DOMAIN log'[p] = 1..(Len(log[p]) + 1)
          /\ \A k \in 1..Len(log[p]) : log'[p][k] = log[p][k]
          /\ log'[p][Len(log[p]) + 1] = e
      BY <1>1, <1>2, Appending DEF TInv, TypeOK
    <3>2. CASE i \in 1..Len(log[p])
      <4>1. log'[o][i] = log[p][i] /\ Reached(o, i - 1)' = Reached(p, i - 1)
        BY <1>3, <2>2, <3>1, <3>2
      <4> QED  BY <1>1, <2>2, <3>1, <3>2, <4>1 DEF GInv, HistoryGrounded
    <3>3. CASE i = Len(log[p]) + 1
      <4>1. p \notin destroyed => e.from \in Reached(p, Len(log[p]))
        BY <1>0 DEF Commit, Busy, GInv, StatusAccountedFor, Entry
      <4>2. i - 1 = Len(log[p]) /\ i - 1 \in 0..Len(log[p])
        BY <1>3, <3>3
      <4>3. Reached(o, i - 1)' = Reached(p, Len(log[p]))
        BY <1>3, <2>2, <4>2
      <4> QED  BY <1>1, <2>2, <3>1, <3>3, <4>1, <4>3
    <3> QED  BY <1>3, <2>2, <3>1, <3>2, <3>3
  <2> QED  BY <2>1, <2>2
<1> QED  BY <1>6, <1>7 DEF GInv

LEMMA GDestroy ==
  ASSUME TInv, GInv, NEW r \in Requests, Destroy(r)
  PROVE  GInv'
<1>1. PICK p \in Projects : p = req[r].project
  BY BusyRequest DEF Destroy, Busy, TInv
<1>2. /\ destroyed' = destroyed \cup {p}
      /\ row' = [row EXCEPT ![p] = NoRow]
      /\ log' = [log EXCEPT ![p] = <<>>]
      /\ Finish(r)
  BY <1>1 DEF Destroy
<1>3. /\ log'[p] = <<>>
      /\ \A o \in Projects \ {p} : log'[o] = log[o] /\ row'[o] = row[o]
  BY <1>2 DEF TInv, TypeOK
<1>4. \A o \in Projects \ {p} : \A n : Reached(o, n)' = Reached(o, n)
  BY <1>3 DEF Reached
<1>5. \A o \in Projects \ {p} : Reached(o, Len(log[o]))' = Reached(o, Len(log[o]))
  BY <1>3 DEF Reached
<1>6. \A s \in Requests : Busy(s)' => Busy(s) /\ req'[s] = req[s]
  BY <1>2 DEF Finish, Busy, Idle, TInv, TypeOK
<1>7. StatusAccountedFor'
  <2>1. \A o \in Projects \ destroyed' :
          row'[o] # NoRow => row'[o].status \in Reached(o, Len(log[o]))'
    BY <1>2, <1>3, <1>5 DEF GInv, StatusAccountedFor
  <2>2. ASSUME NEW s \in Requests, Busy(s)', req'[s].project \notin destroyed'
        PROVE  req'[s].seen.status \in Reached(req[s].project, Len(log[req[s].project]))'
    <3>1. PICK o \in Projects : o = req[s].project
      BY <1>6, <2>2, BusyRequest DEF TInv
    <3>2. Busy(s) /\ req'[s] = req[s] /\ o \notin destroyed /\ o # p
      BY <1>2, <1>6, <2>2, <3>1
    <3>3. req'[s].seen.status \in Reached(o, Len(log[o]))'
      BY <1>5, <3>1, <3>2 DEF GInv, StatusAccountedFor
    <3> QED  BY <3>1, <3>2, <3>3 DEF Reached
  <2> QED  BY <2>1, <2>2 DEF StatusAccountedFor
<1>8. HistoryGrounded'
  <2> SUFFICES ASSUME NEW o \in Projects, NEW i \in DOMAIN log'[o]
               PROVE  /\ <<log'[o][i].from, log'[o][i].to>> \in Edges
                      /\ o \notin destroyed' => log'[o][i].from \in Reached(o, i - 1)'
    BY DEF HistoryGrounded
  <2>1. o # p
    BY <1>3
  <2>2. log'[o] = log[o] /\ Reached(o, i - 1)' = Reached(o, i - 1)
    BY <1>3, <1>4, <2>1
  <2> QED  BY <1>2, <2>2 DEF GInv, HistoryGrounded
<1> QED  BY <1>7, <1>8 DEF GInv

LEMMA GStep == TInv /\ GInv /\ [Next]_vars => GInv'
<1> SUFFICES ASSUME TInv, GInv, [Next]_vars PROVE GInv'
  OBVIOUS
<1>0. \A r \in Requests : Busy(r) =>
        /\ req[r].project \in Projects
        /\ Known(req[r].project, req[r].seen.status)
  BY BusyRequest DEF TInv, Known, On
<1>1. CASE UNCHANGED vars
  BY <1>0, <1>1, GQuiet DEF vars, Known, Busy
<1>2. CASE \E p \in Projects : Create(p)
  <2>1. PICK p \in Projects : Create(p)
    BY <1>2
  <2>2. UNCHANGED <<log, destroyed, req>>
    BY <2>1 DEF Create, children
  <2>3. \A o \in Projects : row'[o] # NoRow => Known(o, row'[o].status)
    BY <2>1 DEF Create, Known, TInv, TypeOK
  <2> QED  BY <1>0, <2>2, <2>3, GQuiet DEF Busy
<1>3. ASSUME NEW r \in Requests, NEW p \in Projects, NEW o \in Ops,
             NEW i \in Items \cup {NoItem}, Load(r, p, o, i)
      PROVE  GInv'
  <2>1. UNCHANGED <<log, destroyed, row>>
    BY <1>3 DEF Load, children
  <2>2. \A s \in Requests : Busy(s)' =>
          \/ Busy(s) /\ req'[s] = req[s]
          \/ row[p] # NoRow /\ req'[s].project = p /\ req'[s].seen = row[p]
    BY <1>3 DEF Load, Busy, TInv, TypeOK
  <2>3. \A s \in Requests : Busy(s)' =>
          /\ req'[s].project \in Projects
          /\ Known(req'[s].project, req'[s].seen.status)
    BY <1>0, <2>2 DEF Known
  <2>4. \A q \in Projects : row'[q] # NoRow => Known(q, row'[q].status)
    BY <2>1 DEF Known
  <2> QED  BY <2>1, <2>3, <2>4, GQuiet
<1>4. ASSUME NEW r \in Requests, Serve(r)
      PROVE  GInv'
  <2>1. CASE Commit(r)
    BY <2>1, GCommit
  <2>2. CASE Destroy(r)
    BY <2>2, GDestroy
  <2>3. ASSUME UNCHANGED <<log, destroyed>>,
               \A s \in Requests : Busy(s)' =>
                 /\ Busy(s) /\ req'[s].project = req[s].project
                 /\ req'[s].seen = req[s].seen,
               \A p \in Projects : row'[p] # NoRow => Known(p, row'[p].status)
        PROVE  GInv'
    BY <1>0, <2>3, GQuiet
  <2>4. Finish(r) => \A s \in Requests : Busy(s)' => Busy(s) /\ req'[s] = req[s]
    BY DEF Finish, Busy, Idle, TInv, TypeOK
  <2>5. UNCHANGED row => \A p \in Projects : row'[p] # NoRow => Known(p, row'[p].status)
    BY DEF Known
  <2>6. CASE Abandon(r) \/ ItemStep(r)
    BY <2>3, <2>4, <2>5, <2>6
       DEF Abandon, ItemStep, Attach, Revise, Detach, WriteItem, children
  <2>7. CASE Begin(r)
    <3>1. UNCHANGED <<log, destroyed, row>>
      BY <2>7 DEF Begin, children
    <3>2. req[r] \in InFlight /\ Busy(r)
      BY <2>7, BusyRequest DEF Begin, Busy, TInv
    <3>3. \A s \in Requests : Busy(s)' =>
            /\ Busy(s) /\ req'[s].project = req[s].project /\ req'[s].seen = req[s].seen
      BY <2>7, <3>2 DEF Begin, Busy, TInv, TypeOK, InFlight
    <3> QED  BY <2>3, <2>5, <3>1, <3>3
  <2>8. CASE Update(r)
    <3>1. Finish(r) /\ UNCHANGED <<log, destroyed>>
      BY <2>8 DEF Update, children
    <3>2. On(r, req[r].project) /\ row'[req[r].project].status = req[r].seen.status
      BY <2>8, TUpdate DEF On, Busy, Update
    <3>3. \A p \in Projects : p # req[r].project => row'[p] = row[p]
      BY <2>8 DEF Update, TInv, TypeOK
    <3>4. \A p \in Projects : row'[p] # NoRow => Known(p, row'[p].status)
      BY <3>2, <3>3 DEF Known
    <3> QED  BY <2>3, <2>4, <3>1, <3>4
  <2> QED  BY <1>4, <2>1, <2>2, <2>6, <2>7, <2>8 DEF Serve, Autocommitted, ItemStep
<1>5. CASE Elsewhere
  <2>1. /\ UNCHANGED <<log, destroyed, req>>
        /\ \A p \in Projects : row'[p] # NoRow =>
             row[p] # NoRow /\ row'[p].status = row[p].status
    BY <1>5, ElsewhereEffect
  <2>2. \A p \in Projects : row'[p] # NoRow => Known(p, row'[p].status)
    BY <2>1 DEF Known
  <2> QED  BY <1>0, <2>1, <2>2, GQuiet DEF Busy
<1> QED  BY <1>1, <1>2, <1>3, <1>4, <1>5 DEF Next, Arrive

LEMMA Invariance == Spec => [](TInv /\ GInv)
BY TInitially, GInitially, TStep, GStep, PTL DEF Spec

\* No stale write gives a project a status it was not in (RN-012).
THEOREM StatusIsAccountedFor == Spec => []StatusAccountedFor
<1>1. TInv /\ GInv => StatusAccountedFor
  BY DEF GInv
<1> QED  BY <1>1, Invariance, PTL

\* Every entry of a state log is an edge from a state reached before it.
THEOREM HistoryIsGrounded == Spec => []HistoryGrounded
<1>1. TInv /\ GInv => HistoryGrounded
  BY DEF GInv
<1> QED  BY <1>1, Invariance, PTL

(***************************************************************************)
(* Deletion and closure.                                                   *)
(***************************************************************************)

\* Steps that leave the tables of a project alone, and the serving steps that
\* do not.  Only a transition, a deletion or an item changes the children.
LEMMA NStep == TInv /\ NothingOutlivesItsProject /\ [Next]_vars
                 => NothingOutlivesItsProject'
<1> SUFFICES ASSUME TInv, NothingOutlivesItsProject, [Next]_vars
             PROVE  NothingOutlivesItsProject'
  OBVIOUS
<1> USE DEF NothingOutlivesItsProject
<1>1. CASE UNCHANGED <<row, log, observations, attached>>
  BY <1>1
<1>2. ASSUME NEW p \in Projects, Create(p) PROVE NothingOutlivesItsProject'
  BY <1>2, ProjectsAssumption DEF Create, children, Row, Statuses, TInv, TypeOK
<1>3. ASSUME NEW r \in Requests, Serve(r) PROVE NothingOutlivesItsProject'
  <2> DEFINE p == req[r].project
  <2>1. CASE Abandon(r) \/ Begin(r)
    BY <1>1, <2>1 DEF Abandon, Begin, children
  <2>2. CASE Commit(r)
    <3>1. /\ row'[p] # NoRow
          /\ \A o \in Projects \ {p} : row'[o] = row[o] /\ log'[o] = log[o]
          /\ UNCHANGED attached
      <4>1. /\ p \in Projects /\ row'[p] \in Row /\ UNCHANGED attached
            /\ row' = [row EXCEPT ![p] = row'[p]]
            /\ log' = [log EXCEPT ![p] = Append(log[p], Entry(req[r]))]
        BY <2>2, CommitEffect
      <4>2. row'[p] # NoRow
        BY <4>1, ProjectsAssumption
      <4>3. \A o \in Projects \ {p} : row'[o] = row[o] /\ log'[o] = log[o]
        BY <4>1 DEF TInv, TypeOK
      <4> QED  BY <4>1, <4>2, <4>3
    <3>2. \A o \in Projects \ {p} : observations'[o] = observations[o]
      BY <2>2 DEF Commit, TInv, TypeOK
    <3> QED  BY <3>1, <3>2
  <2>3. CASE Update(r)
    <3>1. /\ req[r].seen \in Row /\ p \in Projects
          /\ UNCHANGED <<log, observations, attached>>
      BY <2>3, BusyRequest DEF Update, Busy, TInv, children
    <3>2. /\ row'[p] \in Row
          /\ \A o \in Projects \ {p} : row'[o] = row[o]
      <4>1. row'[p] \in Row
        BY <2>3, TUpdate
      <4> QED  BY <2>3, <4>1 DEF Update, TInv, TypeOK
    <3> QED  BY <3>1, <3>2, ProjectsAssumption
  <2>4. CASE Destroy(r)
    BY <2>4 DEF Destroy, TInv, TypeOK
  <2>5. CASE ItemStep(r)
    <3>1. UNCHANGED <<row, log, observations>>
      BY <2>5 DEF ItemStep, Attach, Revise, Detach, WriteItem
    <3>2. \A o \in Projects \ {p} : attached'[o] = attached[o]
      BY <2>5 DEF ItemStep, Attach, Revise, Detach, WriteItem, TInv, TypeOK
    <3>3. p \in Projects
      BY <2>5, BusyRequest
         DEF ItemStep, Attach, Revise, Detach, WriteItem, Busy, TInv
    <3>4. row[p] = NoRow => attached'[p] \subseteq attached[p]
      BY <2>5, <3>3 DEF ItemStep, Attach, Revise, Detach, WriteItem, ProjectExists,
                   TInv, TypeOK
    <3> QED  BY <3>1, <3>2, <3>3, <3>4
  <2> QED  BY <1>3, <2>1, <2>2, <2>3, <2>4, <2>5 DEF Serve, Autocommitted, ItemStep
<1>4. CASE Elsewhere
  <2>1. /\ UNCHANGED <<log, observations>>
        /\ \A p \in Projects : Kept(p) /\ (row'[p] = NoRow <=> row[p] = NoRow)
    BY <1>4, ElsewhereEffect
  <2>2. \A p \in Projects : attached'[p] \subseteq attached[p]
    BY <2>1 DEF Kept
  <2> QED  BY <2>1, <2>2
<1> QED
  BY <1>1, <1>2, <1>3, <1>4 DEF Next, Arrive, Load, children, vars

\* Deleting a project leaves no orphan, whatever is in flight.
THEOREM NothingOutlives == Spec => []NothingOutlivesItsProject
<1>1. Init => NothingOutlivesItsProject
  BY DEF Init, NothingOutlivesItsProject
<1>2. Spec => []TInv
  BY TInitially, TStep, PTL DEF Spec
<1> QED  BY <1>1, <1>2, NStep, PTL DEF Spec

\* A request that loaded the project when it was closed can only be an
\* administrator's deletion.
LEMMA OnlyDeletion ==
  ASSUME TInv, NEW r \in Requests, Busy(r), req[r].seen.status \in TerminalStates
  PROVE  req[r].op = "admin_destroy"
<1>1. Accepted(req[r])
  BY DEF TInv, RequestsSettled
<1>2. req[r].op \in Transitions => req[r].seen.status \notin Sources[req[r].op]
  BY StateMachine
<1> QED  BY <1>1, <1>2 DEF Accepted, TerminalStates

\* Nothing of p changes at all.
Untouched(p) == UNCHANGED <<row[p], log[p], observations[p], attached[p]>>

LEMMA ClosedStep ==
  ASSUME TInv, [Next]_vars, NEW p \in Projects, Ended(p), ~HeldOpen(p)
  PROVE  Kept(p) \/ row'[p] = NoRow
<1>0. Untouched(p) => Kept(p)
  BY DEF Untouched, Kept, RowKept
<1>1. CASE UNCHANGED vars
  BY <1>0, <1>1 DEF vars, Untouched
<1>2. ASSUME NEW o \in Projects, Create(o) PROVE Untouched(p)
  BY <1>2 DEF Create, children, Ended, Untouched, TInv, TypeOK
<1>3. CASE \E r \in Requests, o \in Projects, a \in Ops, i \in Items \cup {NoItem} :
             Load(r, o, a, i)
  BY <1>0, <1>3 DEF Load, children, Untouched
<1>4. ASSUME NEW r \in Requests, Serve(r) PROVE Kept(p) \/ row'[p] = NoRow
  <2>1. CASE ~On(r, p)
    <3>1. Busy(r)
      BY <1>4 DEF Serve, Autocommitted, Abandon, Begin, Commit, Update, Destroy, Attach, Revise,
                  Detach, Busy
    <3>2. req[r].project # p
      BY <2>1, <3>1 DEF On
    <3>3. CASE Abandon(r) \/ Begin(r)
      BY <1>0, <3>3 DEF Abandon, Begin, children, Untouched
    <3>4. CASE Commit(r)
      <4>1. row'[p] = row[p] /\ log'[p] = log[p] /\ UNCHANGED attached
        BY <3>2, <3>4 DEF Commit, TInv, TypeOK
      <4>2. observations'[p] = observations[p]
        BY <3>2, <3>4 DEF Commit, TInv, TypeOK
      <4> QED  BY <1>0, <4>1, <4>2 DEF Untouched
    <3>5. CASE Update(r) \/ Destroy(r)
      BY <1>0, <3>2, <3>5 DEF Update, Destroy, children, Untouched, TInv, TypeOK
    <3>6. CASE ItemStep(r)
      BY <1>0, <3>2, <3>6 DEF ItemStep, Attach, Revise, Detach, WriteItem, Untouched, TInv, TypeOK
    <3> QED  BY <1>4, <3>3, <3>4, <3>5, <3>6 DEF Serve, Autocommitted, ItemStep
  <2>2. CASE On(r, p)
    <3>1. Busy(r) /\ req[r].project = p /\ req[r].seen.status \in TerminalStates
      BY <2>2 DEF On, HeldOpen
    <3>2. req[r].op = "admin_destroy"
      BY <3>1, OnlyDeletion
    <3>3. req[r].phase # "locked"
      BY <3>1, <3>2 DEF TInv, RequestsSettled, Transitions, Sources
    <3>4. Abandon(r) \/ Destroy(r)
      BY <1>4, <3>2, <3>3
         DEF Serve, Autocommitted, Begin, Commit, Update, Attach, Revise, Detach, WriteItem,
             Transitions, Sources
    <3> QED  BY <1>0, <3>1, <3>4 DEF Abandon, Destroy, children, Untouched, TInv, TypeOK
  <2> QED  BY <2>1, <2>2
<1>5. CASE Elsewhere
  BY <1>5, ElsewhereEffect
<1> QED  BY <1>0, <1>1, <1>2, <1>3, <1>4, <1>5 DEF Next, Arrive

\* A closed or deleted project that no request holds open keeps its status,
\* contents, log, observations and documents until it is deleted (RN-011),
\* whatever progress approvals and deletions of groups, lines and researchers
\* do to the rest of it meanwhile.
THEOREM ClosedStaysClosed == Spec => ClosedIsFinal
<1>1. TInv /\ [Next]_vars =>
        [\A p \in Projects :
           Ended(p) /\ ~HeldOpen(p) => Kept(p) \/ row'[p] = NoRow]_vars
  BY ClosedStep
<1>2. Spec => []TInv
  BY TInitially, TStep, PTL DEF Spec
<1> QED  BY <1>1, <1>2, PTL DEF Spec, ClosedIsFinal

(***************************************************************************)
(* Observations.                                                           *)
(***************************************************************************)

\* The entries of a log that lead to "observado".
Observado(s) == {i \in DOMAIN s : s[i].to = "observado"}

LEMMA ObservadoCount ==
  ASSUME NEW s \in Seq(LogEntry), NEW e \in LogEntry
  PROVE  Cardinality(Observado(Append(s, e)))
           = Cardinality(Observado(s)) + (IF e.to = "observado" THEN 1 ELSE 0)
<1>1. /\ Len(s) \in Nat /\ DOMAIN s = 1..Len(s)
      /\ DOMAIN Append(s, e) = 1..(Len(s) + 1)
      /\ \A i \in 1..Len(s) : Append(s, e)[i] = s[i]
      /\ Append(s, e)[Len(s) + 1] = e
  BY Appending
<1>2. IsFiniteSet(1..Len(s))
  BY <1>1, FS_Interval
<1>3. IsFiniteSet(Observado(s)) /\ Observado(s) \subseteq 1..Len(s)
  BY <1>1, <1>2, FS_Subset DEF Observado
<1>4. Cardinality(Observado(s)) \in Nat
  BY <1>3, FS_CardinalityType
<1>5. CASE e.to = "observado"
  <2>1. Observado(Append(s, e)) = Observado(s) \cup {Len(s) + 1}
    BY <1>1, <1>5 DEF Observado
  <2>2. Len(s) + 1 \notin Observado(s)
    BY <1>1, <1>3
  <2>3. Cardinality(Observado(s) \cup {Len(s) + 1}) = Cardinality(Observado(s)) + 1
    BY <1>3, <2>2, FS_AddElement
  <2> QED  BY <1>5, <2>1, <2>3
<1>6. CASE e.to # "observado"
  <2>1. Observado(Append(s, e)) = Observado(s)
    BY <1>1, <1>6 DEF Observado
  <2> QED  BY <1>4, <1>6, <2>1
<1> QED  BY <1>5, <1>6

LEMMA OStep == TInv /\ OneObservationPerEntry /\ [Next]_vars => OneObservationPerEntry'
<1> SUFFICES ASSUME TInv, OneObservationPerEntry, [Next]_vars
             PROVE  OneObservationPerEntry'
  OBVIOUS
<1>1. CASE UNCHANGED <<log, observations>>
  BY <1>1 DEF OneObservationPerEntry
<1>2. ASSUME NEW r \in Requests, Commit(r) PROVE OneObservationPerEntry'
  <2>1. PICK p \in Projects, e \in LogEntry :
          p = req[r].project /\ e = Entry(req[r])
    BY <1>2, CommitEffect
  <2>2. req[r].op \in Transitions /\ log' = [log EXCEPT ![p] = Append(log[p], e)]
    BY <1>2, <2>1, CommitEffect
  <2>3. observations' = IF Observes(req[r])
                        THEN [observations EXCEPT ![p] = @ + 1] ELSE observations
    BY <1>2, <2>1 DEF Commit
  <2>4. Observes(req[r]) <=> e.to = "observado"
    BY <2>1, <2>2, ObserveOnly DEF Observes, Entry
  <2>5. observations[p] \in Nat /\ log[p] \in Seq(LogEntry)
    BY DEF TInv, TypeOK
  <2>6. observations'[p] = observations[p] + (IF e.to = "observado" THEN 1 ELSE 0)
    BY <2>3, <2>4, <2>5 DEF TInv, TypeOK
  <2>7. log'[p] = Append(log[p], e)
    BY <2>2 DEF TInv, TypeOK
  <2>8. observations[p] = Cardinality(Observado(log[p]))
    BY DEF OneObservationPerEntry, Observado
  <2>9. observations'[p] = Cardinality(Observado(log'[p]))
    BY <2>5, <2>6, <2>7, <2>8, ObservadoCount
  <2>10. \A o \in Projects \ {p} : log'[o] = log[o] /\ observations'[o] = observations[o]
    BY <2>2, <2>3 DEF TInv, TypeOK
  <2> QED  BY <2>9, <2>10 DEF OneObservationPerEntry, Observado
<1>3. ASSUME NEW r \in Requests, Destroy(r) PROVE OneObservationPerEntry'
  <2>1. PICK p \in Projects : p = req[r].project
    BY <1>3, BusyRequest DEF Destroy, Busy, TInv
  <2>2. /\ log'[p] = <<>> /\ observations'[p] = 0
        /\ \A o \in Projects \ {p} : log'[o] = log[o] /\ observations'[o] = observations[o]
    BY <1>3, <2>1 DEF Destroy, TInv, TypeOK
  <2>3. {i \in DOMAIN log'[p] : log'[p][i].to = "observado"} = {}
    BY <2>2
  <2>4. observations'[p]
          = Cardinality({i \in DOMAIN log'[p] : log'[p][i].to = "observado"})
    BY <2>2, <2>3, FS_EmptySet
  <2> QED  BY <2>2, <2>4 DEF OneObservationPerEntry
<1>4. CASE \E r \in Requests : Serve(r) /\ ~Commit(r) /\ ~Destroy(r)
  BY <1>1, <1>4 DEF Serve, Autocommitted, Abandon, Begin, Update, Attach, Revise, Detach, WriteItem,
                    children
<1>5. CASE Elsewhere
  BY <1>1, <1>5, ElsewhereEffect
<1> QED
  BY <1>1, <1>2, <1>3, <1>4, <1>5 DEF Next, Arrive, Create, Load, children, vars

\* There are as many observations as entries into "observado" (RN-014).
THEOREM ObservationsMatch == Spec => []OneObservationPerEntry
<1>1. Init => OneObservationPerEntry
  <2> SUFFICES ASSUME Init, NEW p \in Projects
               PROVE  observations[p]
                        = Cardinality({i \in DOMAIN log[p] : log[p][i].to = "observado"})
    BY DEF OneObservationPerEntry
  <2>1. {i \in DOMAIN log[p] : log[p][i].to = "observado"} = {}
    BY DEF Init
  <2> QED  BY <2>1, FS_EmptySet DEF Init
<1>2. Spec => []TInv
  BY TInitially, TStep, PTL DEF Spec
<1> QED  BY <1>1, <1>2, OStep, PTL DEF Spec

(***************************************************************************)
(* Refinement.  When there is one request, the status it holds is the one  *)
(* in the row, and the component implements ProjectRecord.                 *)
(***************************************************************************)

LEMMA CurrentStep ==
  ASSUME \A r, s \in Requests : r = s
  PROVE  TInv /\ SeenIsCurrent /\ [Next]_vars => SeenIsCurrent'
<1> DEFINE SeenNow(r) == /\ row[req[r].project] # NoRow
                         /\ row[req[r].project].status = req[r].seen.status
<1> SUFFICES ASSUME TInv, SeenIsCurrent, [Next]_vars, NEW r \in Requests, Busy(r)'
             PROVE  SeenNow(r)'
  BY DEF SeenIsCurrent
<1>1. Busy(r) => /\ req[r].project \in opened /\ req[r].project \in Projects
                 /\ SeenNow(r)
  BY BusyRequest DEF TInv, RequestsSettled, SeenIsCurrent
<1>2. CASE UNCHANGED vars
  BY <1>1, <1>2 DEF vars, Busy
<1>3. ASSUME NEW p \in Projects, Create(p)
      PROVE  SeenNow(r)'
  BY <1>1, <1>3 DEF Create, Busy, TInv, TypeOK
<1>4. ASSUME NEW s \in Requests, NEW p \in Projects, NEW o \in Ops,
             NEW i \in Items \cup {NoItem}, Load(s, p, o, i)
      PROVE  SeenNow(r)'
  <2>1. s = r
    OBVIOUS
  <2>2. req'[r].project = p /\ req'[r].seen = row[p] /\ UNCHANGED row /\ row[p] # NoRow
    BY <1>4, <2>1 DEF Load, TInv, TypeOK
  <2> QED  BY <2>2
<1>5. ASSUME NEW s \in Requests, Serve(s)
      PROVE  SeenNow(r)'
  <2>1. s = r
    OBVIOUS
  <2>2. ~Finish(s)
    BY <2>1 DEF Finish, Busy, Idle, TInv, TypeOK
  <2>3. Begin(r)
    BY <1>5, <2>1, <2>2
       DEF Serve, Autocommitted, Abandon, Commit, Update, Destroy, Attach, Revise, Detach, WriteItem
  <2>4. req[r] \in InFlight /\ Busy(r)
    BY <2>3, BusyRequest DEF Begin, Busy, TInv
  <2>5. req'[r].project = req[r].project /\ req'[r].seen = req[r].seen /\ UNCHANGED row
    BY <2>3, <2>4 DEF Begin, TInv, TypeOK, InFlight
  <2> QED  BY <1>1, <2>4, <2>5
<1>6. CASE Elsewhere
  <2>1. UNCHANGED req /\ Busy(r)
    BY <1>6, ElsewhereEffect DEF Busy
  <2> QED  BY <1>1, <1>6, <2>1, ElsewhereEffect
<1> QED  BY <1>2, <1>3, <1>4, <1>5, <1>6 DEF Next, Arrive

\* Instantiating the abstract module does not change its state machine.
LEMMA SameEdges ==
  Record!Edges = Edges /\ Record!Statuses = Statuses
BY DEF Record!Edges, Edges, Record!Statuses, Statuses, Record!Transitions, Transitions,
       Record!Sources, Sources, Record!Target, Target

LEMMA RecordStep ==
  TInv /\ SeenIsCurrent /\ [Next]_vars => [Record!Next]_(Record!record)
<1> SUFFICES ASSUME TInv, SeenIsCurrent, [Next]_vars
             PROVE  Record!Next \/ UNCHANGED Record!record
  OBVIOUS
<1> DEFINE st == [p \in Projects |-> StatusOf(p)]
<1> USE DEF Record!record
<1>1. CASE UNCHANGED vars
  BY <1>1 DEF vars, StatusOf
<1>2. ASSUME NEW p \in Projects, Create(p) PROVE Record!Next
  <2>1. row[p] = NoRow /\ p \notin opened
    BY <1>2 DEF Create, TInv, RowsOpened
  <2>2. /\ row'[p].status = "borrador" /\ row'[p] # NoRow
        /\ \A o \in Projects \ {p} : row'[o] = row[o]
    BY <1>2, ProjectsAssumption DEF Create, TInv, TypeOK, Row, Statuses
  <2>3. st' = [st EXCEPT ![p] = "borrador"]
    BY <2>2 DEF StatusOf
  <2> QED  BY <1>2, <2>1, <2>3 DEF Create, children, Record!Open, Record!Next
<1>3. CASE \E r \in Requests, p \in Projects, o \in Ops, i \in Items \cup {NoItem} :
             Load(r, p, o, i)
  BY <1>3 DEF Load, children, StatusOf
<1>4. ASSUME NEW r \in Requests, Serve(r) PROVE Record!Next \/ UNCHANGED Record!record
  <2>1. CASE Abandon(r) \/ Begin(r)
    BY <2>1 DEF Abandon, Begin, children, StatusOf
  <2>2. CASE ItemStep(r)
    BY <2>2 DEF ItemStep, Attach, Revise, Detach, WriteItem, StatusOf
  <2>3. ASSUME Busy(r)
        PROVE  /\ req[r].project \in Projects /\ req[r].seen \in Row
               /\ row[req[r].project] # NoRow
               /\ row[req[r].project].status = req[r].seen.status
    BY <2>3, BusyRequest DEF TInv, SeenIsCurrent
  <2>4. CASE Commit(r)
    <3>1. PICK p \in Projects, e \in LogEntry : p = req[r].project /\ e = Entry(req[r])
      BY <2>4, CommitEffect
    <3>2. /\ <<e.from, e.to>> \in Edges
          /\ row' = [row EXCEPT ![p] = row'[p]] /\ row'[p] \in Row /\ row'[p].status = e.to
          /\ log' = [log EXCEPT ![p] = Append(log[p], e)]
          /\ UNCHANGED opened
      BY <2>4, <3>1, CommitEffect
    <3>3. row[p] # NoRow /\ st[p] = e.from /\ e = [from |-> st[p], to |-> e.to]
      BY <2>3, <2>4, <3>1 DEF Commit, Busy, StatusOf, Entry
    <3>4. row'[p] # NoRow /\ \A o \in Projects \ {p} : row'[o] = row[o]
      BY <3>2, ProjectsAssumption DEF TInv, TypeOK
    <3>5. st' = [st EXCEPT ![p] = e.to]
      BY <3>2, <3>4 DEF StatusOf
    <3>6. e.to \in Statuses
      BY DEF LogEntry
    <3>7. log' = [log EXCEPT ![p] = Append(@, [from |-> st[p], to |-> e.to])]
      BY <3>2, <3>3
    <3> QED  BY <3>2, <3>3, <3>5, <3>6, <3>7, SameEdges DEF Record!Move, Record!Next
  <2>5. CASE Update(r)
    <3>1. Busy(r) /\ UNCHANGED <<opened, log>>
      BY <2>5 DEF Update, Busy, children
    <3>2. PICK p \in Projects : p = req[r].project
      BY <2>3, <3>1
    <3>3. row[p] # NoRow /\ row'[p].status = row[p].status
      BY <2>3, <2>5, <3>1, <3>2, TUpdate
    <3>4. row'[p] # NoRow /\ \A o \in Projects \ {p} : row'[o] = row[o]
      <4>1. row'[p] \in Row
        BY <2>5, <3>2, TUpdate
      <4> QED  BY <2>5, <3>2, <4>1, ProjectsAssumption DEF Update, TInv, TypeOK
    <3>5. st' = st
      BY <3>3, <3>4 DEF StatusOf
    <3> QED  BY <3>1, <3>5
  <2>6. CASE Destroy(r)
    <3>1. PICK p \in Projects : p = req[r].project /\ row[p] # NoRow
      BY <2>3, <2>6 DEF Destroy, Busy
    <3>2. /\ row' = [row EXCEPT ![p] = NoRow] /\ log' = [log EXCEPT ![p] = <<>>]
          /\ UNCHANGED opened
      BY <2>6, <3>1 DEF Destroy
    <3>3. st[p] # "none"
      BY <3>1 DEF StatusOf, TInv, TypeOK, Row, Statuses
    <3>4. st' = [st EXCEPT ![p] = "none"]
      BY <3>2 DEF StatusOf, TInv, TypeOK
    <3> QED  BY <3>2, <3>3, <3>4 DEF Record!Remove, Record!Next
  <2> QED  BY <1>4, <2>1, <2>2, <2>4, <2>5, <2>6 DEF Serve, Autocommitted, ItemStep
<1>5. CASE Elsewhere
  <2>1. UNCHANGED <<opened, log>> /\ \A p \in Projects : StatusOf(p)' = StatusOf(p)
    BY <1>5, ElsewhereEffect DEF StatusOf
  <2> QED  BY <2>1
<1> QED  BY <1>1, <1>2, <1>3, <1>4, <1>5 DEF Next, Arrive

\* Requests that do not overlap get the state machine that RF-035, RN-011 and
\* RN-012 promise.
THEOREM SerialRefinement ==
  ASSUME \A r, s \in Requests : r = s
  PROVE  Spec => ImplementsRecord
<1>1. Init => SeenIsCurrent
  BY DEF Init, SeenIsCurrent, Busy, Idle
<1>2. Init => Record!Init
  BY DEF Init, Record!Init, StatusOf
<1>3. TInv /\ SeenIsCurrent /\ [Next]_vars => SeenIsCurrent'
  BY CurrentStep
<1>4. Spec => [](TInv /\ SeenIsCurrent)
  BY <1>1, <1>3, TInitially, TStep, PTL DEF Spec
<1> QED  BY <1>2, <1>4, RecordStep, PTL DEF Spec, ImplementsRecord, Record!Spec
==============================================================================
