---------------------------- MODULE Delivery_proofs ----------------------------
(***************************************************************************)
(* Proofs about Delivery, for any number of objects, notifications and     *)
(* workers and any bound on retries, writes and copies.                    *)
(***************************************************************************)
EXTENDS Delivery, FiniteSetTheorems, SequenceTheorems, TLAPS

(***************************************************************************)
(* The invariant of the mails.  Whatever may still mail a notification is  *)
(* a token: the callback that will enqueue its task, each copy of the task *)
(* at the broker, a worker that has not tried its mail yet or failed and   *)
(* may retry.  A step moves a token or spends it on a mail; only the       *)
(* broker, when it delivers again, makes one.                              *)
(***************************************************************************)

Mailing(t, n) == t.task = "dispatch" /\ t.of = n
Attempt(n, r) == [task |-> "dispatch", of |-> n, retries |-> r]

Copies(t) == IF BagIn(t, queue) THEN queue[t] ELSE 0

\* One element for each copy of each attempt at the broker.
Queued(n) ==
  {c \in (0..MAX_RETRIES) \X (Nat \ {0}) : c[2] <= Copies(Attempt(n, c[1]))}

\* What a worker runs may still mail n.
Carries(run, n) ==
  /\ run # Idle /\ Mailing(run.task, n)
  /\ run.phase \in {"started", "open", "failed"}
Carriers(n) == {w \in Workers : Carries(worker[w], n)}

\* The mail is the last callback.
Announces(request, n) ==
  request # Idle /\ Mailing(request.hooks[Len(request.hooks)], n)
Tally(P) == IF P THEN 1 ELSE 0

MailBudget(n) ==
  /\ IsFiniteSet(Queued(n)) /\ IsFiniteSet(Carriers(n))
  /\ Cardinality(Queued(n)) + Cardinality(Carriers(n)) + Tally(Announces(sender, n))
       + mails[n] <= 1 + copies
  /\ notification[n] = Unborn =>
       /\ Queued(n) = {} /\ Carriers(n) = {} /\ mails[n] = 0
       /\ Announces(sender, n) => sender.phase = "open"

LogHonest(n) == log[n] # NoLog => (log[n].status = "sent" => mails[n] > 0)

\* What the callbacks of a request are.
SenderSound ==
  sender # Idle =>
    /\ Len(sender.hooks) \in {1, 2}
    /\ Len(sender.hooks) = 2 =>
         sender.hooks[1].task # "dispatch" /\ sender.hooks[2].task = "dispatch"
    /\ sender.phase = "open" =>
         /\ sender.hooks[1] = IndexTask(sender.object, sender.to)
         /\ \A n \in Notifications : Announces(sender, n) => n \in sender.created

\* What a worker knows at each phase of each task.
RunSound(run) ==
  run # Idle =>
    /\ run.phase = "started" => run.document = Absent
    /\ run.phase = "read" => run.document \in Values
    /\ run.phase = "delivered" => run.task.task = "dispatch" /\ mails[run.task.of] > 0

(***************************************************************************)
(* The invariant of the index.  Of what is on its way for an object, only  *)
(* the tasks that do what its row needs now count; a worker that read the  *)
(* row counts as long as the row is as it read it.                         *)
(***************************************************************************)

Needed(o) == IF row[o] \in Values THEN "index" ELSE "delete"
Does(t, kind, o) == t.task = kind /\ t.of = o

\* A task of the kind is at the broker, or a committed request will enqueue it.
Sent(kind, o) ==
  \/ \E t \in BagToSet(queue) : Does(t, kind, o)
  \/ /\ sender # Idle /\ sender.phase = "committed"
     /\ \E i \in DOMAIN sender.hooks : Does(sender.hooks[i], kind, o)
Coming(o) == Sent(Needed(o), o)

Executing(kind, o) == \E w \in Workers : worker[w] # Idle /\ Does(worker[w].task, kind, o)
Working(o) ==
  \E w \in Workers :
    /\ worker[w] # Idle /\ Does(worker[w].task, Needed(o), o)
    /\ worker[w].phase = "read" => worker[w].document = row[o]
Reading(o) == reindexing # Idle /\ row[o] \in Values /\ reindexing[o] = row[o]

Fresh(o) ==
  /\ index[o] = Document(o) \/ Coming(o) \/ Working(o) \/ Reading(o)
  /\ \A v, w \in RunningOn(o) : v = w
  /\ RunningOn(o) # {} => reindexing = Idle
  /\ \A w \in RunningOn(o) :
       worker[w].phase = "read" => worker[w].document = row[o] \/ Coming(o)
  /\ Sent("delete", o) \/ Executing("delete", o) => row[o] = Deleted
  /\ reindexing # Idle => reindexing[o] = Document(o) \/ Coming(o)

IndexSound == \A o \in Objects \ excused : Fresh(o)
MailsSound == \A n \in Notifications : MailBudget(n) /\ LogHonest(n)
RunsSound == \A w \in Workers : RunSound(worker[w])

MailInv == TypeOK /\ SenderSound /\ RunsSound /\ MailsSound
DlvInv == MailInv /\ IndexSound

------------------------------------------------------------------------------
(* The queue and the workers. *)

LEMMA Enqueued ==
  ASSUME IsABag(queue), NEW t, Enqueue(t)
  PROVE  /\ IsABag(queue')
         /\ BagToSet(queue') = BagToSet(queue) \cup {t}
         /\ \A x : /\ Copies(x) \in Nat
                   /\ Copies(x)' = IF x = t THEN Copies(x) + 1 ELSE Copies(x)
BY DEF Enqueue, IsABag, BagToSet, SetToBag, (+), Copies, BagIn

LEMMA Dequeued ==
  ASSUME IsABag(queue), NEW t, BagIn(t, queue), queue' = queue (-) SetToBag({t})
  PROVE  /\ IsABag(queue')
         /\ BagToSet(queue') \subseteq BagToSet(queue)
         /\ BagToSet(queue) \subseteq BagToSet(queue') \cup {t}
         /\ \A x : /\ Copies(x) \in Nat
                   /\ Copies(x)' = IF x = t THEN Copies(x) - 1 ELSE Copies(x)
BY DEF IsABag, BagToSet, SetToBag, (-), Copies, BagIn

\* A mail task that is enqueued adds one token.
LEMMA EnqueueToken ==
  ASSUME IsABag(queue), NEW t \in Task, Enqueue(t), NEW n \in Notifications,
         IsFiniteSet(Queued(n))
  PROVE  /\ IsFiniteSet(Queued(n)')
         /\ Cardinality(Queued(n)) \in Nat
         /\ Cardinality(Queued(n)') = Cardinality(Queued(n)) + Tally(Mailing(t, n))
         /\ ~Mailing(t, n) => Queued(n)' = Queued(n)
<1> DEFINE k == Copies(t)
<1>1. Cardinality(Queued(n)) \in Nat
  BY FS_CardinalityType
<1>2. CASE Mailing(t, n)
  <2>1. t = Attempt(n, t.retries) /\ t.retries \in 0..MAX_RETRIES
    BY <1>2 DEF Task, Mailing, Attempt
  <2>2. \A r \in 0..MAX_RETRIES : Attempt(n, r) = t <=> r = t.retries
    BY <2>1 DEF Attempt
  <2>3. k \in Nat
    BY Enqueued
  <2>4. \A r \in 0..MAX_RETRIES :
          /\ Copies(Attempt(n, r)) \in Nat
          /\ Copies(Attempt(n, r))' =
               IF r = t.retries THEN k + 1 ELSE Copies(Attempt(n, r))
    BY <2>2, Enqueued
  <2>5. Copies(Attempt(n, t.retries)) = k
    BY <2>1
  <2> HIDE DEF k
  <2>6. Queued(n)' = Queued(n) \cup {<<t.retries, k + 1>>}
    BY <2>1, <2>3, <2>4, <2>5 DEF Queued
  <2>7. <<t.retries, k + 1>> \notin Queued(n)
    BY <2>1, <2>3, <2>5 DEF Queued
  <2> QED  BY <1>1, <1>2, <2>6, <2>7, FS_AddElement DEF Tally
<1>3. CASE ~Mailing(t, n)
  <2>1. \A r \in 0..MAX_RETRIES : Attempt(n, r) # t
    BY <1>3 DEF Mailing, Attempt
  <2>2. \A r \in 0..MAX_RETRIES :
          Copies(Attempt(n, r))' = Copies(Attempt(n, r))
    BY <2>1, Enqueued
  <2>3. Queued(n)' = Queued(n)
    BY <2>2 DEF Queued
  <2> QED  BY <1>1, <1>3, <2>3 DEF Tally
<1> QED  BY <1>2, <1>3

\* One that is received takes one token from the queue.
LEMMA DequeueToken ==
  ASSUME IsABag(queue), NEW t \in Task, BagIn(t, queue),
         queue' = queue (-) SetToBag({t}), NEW n \in Notifications, IsFiniteSet(Queued(n))
  PROVE  /\ IsFiniteSet(Queued(n)')
         /\ Cardinality(Queued(n)) \in Nat
         /\ Cardinality(Queued(n)') = Cardinality(Queued(n)) - Tally(Mailing(t, n))
         /\ Queued(n)' \subseteq Queued(n)
         /\ Mailing(t, n) => Queued(n) # {}
<1> DEFINE k == Copies(t)
<1>1. Cardinality(Queued(n)) \in Nat
  BY FS_CardinalityType
<1>2. CASE Mailing(t, n)
  <2>1. t = Attempt(n, t.retries) /\ t.retries \in 0..MAX_RETRIES
    BY <1>2 DEF Task, Mailing, Attempt
  <2>2. \A r \in 0..MAX_RETRIES : Attempt(n, r) = t <=> r = t.retries
    BY <2>1 DEF Attempt
  <2>3. k \in Nat \ {0}
    BY DEF IsABag, Copies, BagIn, BagToSet
  <2>4. \A r \in 0..MAX_RETRIES :
          /\ Copies(Attempt(n, r)) \in Nat
          /\ Copies(Attempt(n, r))' =
               IF r = t.retries THEN k - 1 ELSE Copies(Attempt(n, r))
    BY <2>2, Dequeued
  <2>5. Copies(Attempt(n, t.retries)) = k
    BY <2>1
  <2> HIDE DEF k
  <2>6. Queued(n)' = Queued(n) \ {<<t.retries, k>>}
    BY <2>1, <2>3, <2>4, <2>5 DEF Queued
  <2>7. <<t.retries, k>> \in Queued(n)
    BY <2>1, <2>3, <2>5 DEF Queued
  <2> QED  BY <1>1, <1>2, <2>6, <2>7, FS_RemoveElement DEF Tally
<1>3. CASE ~Mailing(t, n)
  <2>1. \A r \in 0..MAX_RETRIES : Attempt(n, r) # t
    BY <1>3 DEF Mailing, Attempt
  <2>2. \A r \in 0..MAX_RETRIES :
          Copies(Attempt(n, r))' = Copies(Attempt(n, r))
    BY <2>1, Dequeued
  <2>3. Queued(n)' = Queued(n)
    BY <2>2 DEF Queued
  <2> QED  BY <1>1, <1>3, <2>3 DEF Tally
<1> QED  BY <1>2, <1>3

\* What a worker takes up or lays down changes the tokens by what it carries.
LEMMA CarryToken ==
  ASSUME worker \in [Workers -> Running \cup {Idle}], NEW w \in Workers,
         NEW run, worker' = [worker EXCEPT ![w] = run],
         NEW n \in Notifications, IsFiniteSet(Carriers(n))
  PROVE  /\ IsFiniteSet(Carriers(n)')
         /\ Cardinality(Carriers(n)) \in Nat
         /\ Carries(worker[w], n) /\ ~Carries(run, n) =>
              Cardinality(Carriers(n)') = Cardinality(Carriers(n)) - 1
         /\ ~Carries(worker[w], n) /\ Carries(run, n) =>
              Cardinality(Carriers(n)') = Cardinality(Carriers(n)) + 1
         /\ (Carries(worker[w], n) <=> Carries(run, n)) =>
              Cardinality(Carriers(n)') = Cardinality(Carriers(n))
         /\ Carriers(n) \subseteq Carriers(n)' \cup {w}
         /\ Carriers(n)' \subseteq Carriers(n) \cup {w}
         /\ ~Carries(run, n) => Carriers(n)' \subseteq Carriers(n)
<1>1. \A v \in Workers : worker'[v] = IF v = w THEN run ELSE worker[v]
  OBVIOUS
<1>2. w \in Carriers(n) <=> Carries(worker[w], n)
  BY DEF Carriers
<1>3. CASE Carries(run, n)
  <2>1. Carriers(n)' = Carriers(n) \cup {w}
    BY <1>1, <1>3 DEF Carriers, Carries, Mailing
  <2> QED  BY <1>2, <1>3, <2>1, FS_AddElement, FS_CardinalityType DEF Tally
<1>4. CASE ~Carries(run, n)
  <2>1. Carriers(n)' = Carriers(n) \ {w}
    BY <1>1, <1>4 DEF Carriers, Carries, Mailing
  <2> QED  BY <1>2, <1>4, <2>1, FS_RemoveElement, FS_CardinalityType DEF Tally
<1> QED  BY <1>3, <1>4

------------------------------------------------------------------------------
(* What steps do to the invariant of the mails. *)

LEMMA Sentinels ==
  /\ {Deleted, Absent} \cap Values = {} /\ Unborn # Deleted
  /\ \A n \in NotificationRow : n # Unborn /\ n # Deleted
  /\ \A t \in Transaction : t # Idle
  /\ \A r \in Running : r # Idle
  /\ \A f \in [Objects -> Values \cup {Absent}] : f # Idle
  /\ \A l \in LogRow : l # NoLog
  /\ MAX_RETRIES \in Nat /\ MaxWrites \in Nat /\ MaxCopies \in Nat
BY DeliveryAssumption

LEMMA WorkerTyped ==
  ASSUME TypeOK, NEW w \in Workers, worker[w] # Idle
  PROVE  /\ worker[w] \in Running /\ worker[w].task \in Task
         /\ worker[w].task.task = "dispatch" => worker[w].task.of \in Notifications
         /\ worker[w].task.task # "dispatch" => worker[w].task.of \in Objects
BY DEF TypeOK, Running, Task

LEMMA SenderTyped ==
  ASSUME TypeOK, sender # Idle
  PROVE  /\ sender \in Transaction /\ sender.hooks \in Seq(Task) /\ sender.object \in Objects
         /\ sender.created \subseteq Notifications /\ sender.to \in Values \cup {Deleted}
BY DEF TypeOK, Transaction

\* A step that makes no token and sends no mail.
LEMMA BudgetStays ==
  ASSUME NEW n \in Notifications, MailBudget(n), TypeOK,
         UNCHANGED <<queue, copies>>, mails'[n] = mails[n],
         Carriers(n)' \subseteq Carriers(n),
         Announces(sender, n)' => Announces(sender, n),
         notification'[n] = Unborn =>
           notification[n] = Unborn /\ (Announces(sender, n)' => sender'.phase = "open")
  PROVE  MailBudget(n)'
<1>1. Queued(n)' = Queued(n)
  BY DEF Queued, Copies
<1>2. /\ Cardinality(Queued(n)) \in Nat /\ Cardinality(Carriers(n)) \in Nat
      /\ IsFiniteSet(Carriers(n)') /\ Cardinality(Carriers(n)') \in Nat
      /\ Cardinality(Carriers(n)') <= Cardinality(Carriers(n))
  BY FS_Subset, FS_CardinalityType DEF MailBudget
<1>3. mails[n] \in Nat /\ copies \in Nat
  BY DEF TypeOK
<1>4. Tally(Announces(sender, n)') <= Tally(Announces(sender, n))
  BY DEF Tally
<1>5. /\ Tally(Announces(sender, n)) \in Nat
      /\ Tally(Announces(sender, n)') \in Nat
      /\ Tally(Announces(sender, n))' = Tally(Announces(sender, n)')
  BY DEF Tally
<1>6. Cardinality(Queued(n)') + Cardinality(Carriers(n)') + Tally(Announces(sender, n)')
        + mails'[n] <= 1 + copies'
  BY <1>1, <1>2, <1>3, <1>4, <1>5 DEF MailBudget
<1> QED  BY <1>1, <1>2, <1>5, <1>6 DEF MailBudget

\* A worker that takes up what carries no new mail.
LEMMA CarriesLess ==
  ASSUME TypeOK, NEW w \in Workers, NEW run, worker' = [worker EXCEPT ![w] = run],
         NEW n \in Notifications, MailBudget(n), Carries(run, n) => Carries(worker[w], n)
  PROVE  Carriers(n)' \subseteq Carriers(n)
BY DEF TypeOK, Carriers

LEMMA RunsStay ==
  ASSUME MailInv, NEW w \in Workers, NEW run \in Running \cup {Idle},
         worker' = [worker EXCEPT ![w] = run], RunSound(run)',
         \A n \in Notifications : mails'[n] >= mails[n] /\ mails'[n] \in Nat
  PROVE  worker' \in [Workers -> Running \cup {Idle}] /\ RunsSound'
<1>1. worker' \in [Workers -> Running \cup {Idle}]
  BY DEF MailInv, TypeOK
<1>2. ASSUME NEW v \in Workers PROVE RunSound(worker[v])'
  <2>1. CASE v = w
    BY <2>1 DEF MailInv, TypeOK
  <2>2. CASE v # w
    <3>1. worker'[v] = worker[v] /\ RunSound(worker[v])
      BY <2>2 DEF MailInv, TypeOK, RunsSound
    <3>2. worker[v] # Idle /\ worker[v].task.task = "dispatch" =>
            /\ worker[v].task.of \in Notifications
            /\ mails[worker[v].task.of] \in Nat
      BY WorkerTyped DEF MailInv, TypeOK
    <3> QED  BY <3>1, <3>2 DEF RunSound
  <2> QED  BY <2>1, <2>2
<1> QED  BY <1>1, <1>2 DEF RunsSound

\* A step that moves no token but may drop some, and claims no new mail.
LEMMA MailsStay ==
  ASSUME MailInv, UNCHANGED <<queue, mails, copies>>,
         \A n \in Notifications :
           /\ Carriers(n)' \subseteq Carriers(n)
           /\ Announces(sender, n)' => Announces(sender, n)
           /\ notification'[n] = Unborn =>
                notification[n] = Unborn /\ (Announces(sender, n)' => sender'.phase = "open")
           /\ log'[n] \in {log[n], NoLog}
  PROVE  MailsSound'
<1>1. ASSUME NEW n \in Notifications PROVE MailBudget(n)' /\ LogHonest(n)'
  <2>1. MailBudget(n) /\ LogHonest(n)
    BY DEF MailInv, MailsSound
  <2>2. MailBudget(n)'
    BY <2>1, BudgetStays DEF MailInv
  <2> QED  BY <2>1, <2>2 DEF LogHonest
<1> QED  BY <1>1 DEF MailsSound

------------------------------------------------------------------------------
(* The steps of the sender. *)

LEMMA PairOfTasks ==
  ASSUME NEW t \in Task, NEW m \in Task
  PROVE  LET h == <<t>> \o <<m>> IN
         h \in Seq(Task) /\ Len(h) = 2 /\ h[1] = t /\ h[2] = m
OBVIOUS

LEMMA WriteMails ==
  ASSUME MailInv, NEW o \in Objects, NEW to \in Values \cup {Deleted},
         NEW n \in Notifications, NEW s \in BOOLEAN, Write(o, to, n, s)
  PROVE  MailInv'
<1> DEFINE t == IndexTask(o, to)
           m == First("dispatch", n)
           c == IF s /\ ~Notified(o) THEN {n} ELSE {}
<1>1. /\ t \in Task /\ m \in Task /\ t.task # "dispatch" /\ Mailing(m, n)
      /\ \A k \in Notifications : Mailing(m, k) => k = n
      /\ \A k \in Notifications : ~Mailing(t, k)
  BY Sentinels DEF IndexTask, First, Task, Mailing
<1>2. PICK h \in Hooks(o, to, n, s) :
        sender' = [phase |-> "open", object |-> o, to |-> to, created |-> c, hooks |-> h]
  BY DEF Write
<1>3. /\ sender = Idle /\ writes < MaxWrites /\ writes' = writes + 1
      /\ UNCHANGED <<data, queue, worker, reindexing, mails, excused, copies>>
  BY DEF Write
<1>4. \/ h = <<t>>
      \/ h = <<t>> \o <<m>> /\ c = {n} /\ notification[n] = Unborn
  BY <1>2 DEF Hooks, Enqueues, Write
<1> HIDE DEF t, m, c
<1>5. /\ h \in Seq(Task) /\ Len(h) \in {1, 2} /\ h[1] = t
      /\ Len(h) = 2 => h[2].task = "dispatch"
      /\ \A k \in Notifications : Mailing(h[Len(h)], k) => k = n /\ c = {n} /\ notification[n] = Unborn
  <2>1. CASE h = <<t>>
    <3>1. h \in Seq(Task) /\ Len(h) = 1 /\ h[1] = t
      BY <1>1, <2>1
    <3> QED  BY <1>1, <3>1
  <2>2. CASE h = <<t>> \o <<m>> /\ c = {n} /\ notification[n] = Unborn
    <3>1. h \in Seq(Task) /\ Len(h) = 2 /\ h[1] = t /\ h[2] = m
      BY <1>1, <2>2, PairOfTasks
    <3> QED  BY <1>1, <2>2, <3>1 DEF Mailing
  <2> QED  BY <1>4, <2>1, <2>2
<1>6. sender' \in Transaction /\ sender' # Idle
  <2>1. c \in SUBSET Notifications
    BY DEF c
  <2> QED  BY <1>2, <1>5, <2>1, Sentinels DEF Transaction
<1>7. TypeOK'
  BY <1>3, <1>6, Sentinels DEF MailInv, TypeOK, data, Values
<1>8. SenderSound'
  <2>1. /\ Len(h) = 2 => h[1].task # "dispatch" /\ h[2].task = "dispatch"
        /\ Len(h) \in {1, 2} /\ h[1] = IndexTask(o, to)
    BY <1>1, <1>5 DEF t
  <2>2. \A k \in Notifications : Announces(sender, k)' => k \in c
    BY <1>2, <1>5 DEF Announces
  <2> QED  BY <1>2, <2>1, <2>2 DEF SenderSound
<1>9. RunsSound'
  BY <1>3 DEF MailInv, RunsSound, RunSound
<1>10. ASSUME NEW k \in Notifications PROVE MailBudget(k)' /\ LogHonest(k)'
  <2>1. MailBudget(k) /\ LogHonest(k)
    BY DEF MailInv, MailsSound
  <2>2. Queued(k)' = Queued(k) /\ Carriers(k)' = Carriers(k)
    BY <1>3 DEF Queued, Copies, Carriers
  <2>3. ~Announces(sender, k)
    BY <1>3 DEF Announces
  <2>4. Announces(sender, k)' => k = n /\ notification[k] = Unborn
    BY <1>2, <1>5 DEF Announces
  <2>5. sender'.phase = "open"
    BY <1>2
  <2>6. CASE Announces(sender, k)'
    <3>1. Queued(k) = {} /\ Carriers(k) = {} /\ mails[k] = 0
      BY <2>1, <2>4, <2>6 DEF MailBudget
    <3>2. copies \in Nat /\ Cardinality({}) = 0
      BY FS_EmptySet DEF MailInv, TypeOK
    <3> QED  BY <1>3, <2>1, <2>2, <2>5, <2>6, <3>1, <3>2 DEF MailBudget, Tally, data, LogHonest
  <2>7. CASE ~Announces(sender, k)'
    BY <1>3, <2>1, <2>2, <2>3, <2>7 DEF MailBudget, Tally, data, LogHonest
  <2> QED  BY <2>6, <2>7
<1> QED  BY <1>7, <1>8, <1>9, <1>10 DEF MailInv, MailsSound

\* The request ends, with or without its callbacks.
LEMMA SenderEnds ==
  ASSUME MailInv, sender' = Idle, excused' \subseteq Objects \cup Notifications,
         UNCHANGED <<data, queue, worker, reindexing, mails, writes, copies>>
  PROVE  MailInv'
<1>1. TypeOK'
  BY DEF MailInv, TypeOK, data
<1>2. SenderSound'
  BY DEF SenderSound
<1>3. RunsSound'
  BY DEF MailInv, RunsSound, RunSound
<1>4. \A n \in Notifications : Carriers(n)' = Carriers(n) /\ ~Announces(sender, n)'
  BY DEF Carriers, Announces
<1>5. MailsSound'
  BY <1>4, MailsStay DEF data
<1> QED  BY <1>1, <1>2, <1>3, <1>5 DEF MailInv

LEMMA LostTyped ==
  ASSUME TypeOK, sender # Idle
  PROVE  Lost(sender.hooks) \subseteq Objects \cup Notifications
BY SenderTyped DEF Lost, Task

LEMMA RollbackMails ==
  ASSUME MailInv, Rollback
  PROVE  MailInv'
BY SenderEnds DEF Rollback, MailInv, TypeOK

LEMMA SenderDiesMails ==
  ASSUME MailInv, SenderDies
  PROVE  MailInv'
<1>1. excused' \subseteq Objects \cup Notifications
  BY LostTyped DEF SenderDies, MailInv, TypeOK
<1> QED  BY <1>1, SenderEnds DEF SenderDies

LEMMA CommitMails ==
  ASSUME MailInv, Commit
  PROVE  MailInv'
<1>1. PICK t \in Transaction : t = sender /\ t.phase = "open" /\ t # Idle
  BY SenderTyped DEF Commit, MailInv
<1>2. sender' = [t EXCEPT !.phase = "committed"]
  BY <1>1 DEF Commit
<1>3. /\ sender' \in Transaction /\ sender' # Idle
      /\ sender'.phase = "committed" /\ sender'.hooks = t.hooks
      /\ t.object \in Objects /\ t.to \in Values \cup {Deleted} /\ t.created \subseteq Notifications
  BY <1>1, <1>2, Sentinels DEF Transaction
<1>4. /\ row' = [row EXCEPT ![t.object] = t.to]
      /\ notification' = [n \in Notifications |->
           IF n \in t.created THEN [object |-> t.object] ELSE notification[n]]
      /\ excused' \subseteq excused \cup {t.object}
      /\ UNCHANGED <<index, log, queue, worker, reindexing, mails, writes, copies>>
  BY <1>1 DEF Commit
<1>5. TypeOK'
  BY <1>3, <1>4 DEF MailInv, TypeOK, NotificationRow
<1>6. SenderSound'
  BY <1>1, <1>3 DEF MailInv, SenderSound
<1>7. RunsSound'
  BY <1>4 DEF MailInv, RunsSound, RunSound
<1>8. ASSUME NEW n \in Notifications
      PROVE  /\ Carriers(n)' \subseteq Carriers(n)
             /\ Announces(sender, n)' => Announces(sender, n)
             /\ notification'[n] = Unborn =>
                  notification[n] = Unborn /\ (Announces(sender, n)' => sender'.phase = "open")
  <2>1. Carriers(n)' = Carriers(n)
    BY <1>4 DEF Carriers
  <2>2. Announces(sender, n)' => Announces(sender, n) /\ n \in t.created
    BY <1>1, <1>3 DEF Announces, MailInv, SenderSound
  <2>3. notification'[n] = IF n \in t.created THEN [object |-> t.object] ELSE notification[n]
    BY <1>4
  <2>4. [object |-> t.object] # Unborn
    BY <1>3, Sentinels DEF NotificationRow
  <2> QED  BY <2>1, <2>2, <2>3, <2>4
<1>9. MailsSound'
  BY <1>4, <1>8, MailsStay
<1> QED  BY <1>5, <1>6, <1>7, <1>9 DEF MailInv

LEMMA ShortQueues ==
  ASSUME NEW h \in Seq(Task)
  PROVE  /\ Len(h) = 1 => Tail(h) = <<>> /\ h[1] = Head(h)
         /\ Len(h) = 2 => /\ Tail(h) \in Seq(Task) /\ Len(Tail(h)) = 1 /\ Tail(h) # <<>>
                          /\ Tail(h)[1] = h[2] /\ DOMAIN Tail(h) = {1} /\ h[1] = Head(h)
<1>1. CASE Len(h) \in {1, 2}
  <2>1. h # <<>> /\ h[1] = Head(h)
    BY <1>1
  <2>2. PICK rest \in Seq(Task) :
          /\ rest = Tail(h) /\ Len(rest) = Len(h) - 1
          /\ \A i \in 1..Len(rest) : rest[i] = h[i + 1]
    <3>1. /\ Tail(h) \in Seq(Task) /\ Len(Tail(h)) = Len(h) - 1
          /\ \A i \in 1..Len(Tail(h)) : Tail(h)[i] = h[i + 1]
      BY <2>1, HeadTailProperties, Zenon
    <3> QED  BY <3>1, Zenon
  <2>3. CASE Len(h) = 1
    <3>1. Len(rest) = 0
      BY <2>2, <2>3
    <3>2. rest = <<>>
      BY <3>1, EmptySeq
    <3> QED  BY <2>1, <2>2, <2>3, <3>2
  <2>4. CASE Len(h) = 2
    <3>1. Len(rest) = 1
      BY <2>2, <2>4
    <3>2. DOMAIN rest = 1..1 /\ 1..1 = {1}
      BY <3>1, LenProperties
    <3>3. rest # <<>>
      BY <3>1, EmptySeq
    <3>4. 1 \in 1..Len(rest) /\ 1 + 1 = 2
      BY <3>1
    <3>5. rest[1] = h[1 + 1]
      BY <2>2, <3>4
    <3>6. rest[1] = h[2]
      BY <3>4, <3>5
    <3> QED  BY <2>1, <2>2, <2>4, <3>1, <3>2, <3>3, <3>6
  <2> QED  BY <1>1, <2>3, <2>4
<1> QED  BY <1>1

\* The first callback is run, the others are still to come.
LEMMA NextHook ==
  ASSUME MailInv, sender # Idle, sender.phase = "committed",
         sender' = Later(Tail(sender.hooks)),
         NEW t, t = Head(sender.hooks)
  PROVE  /\ t \in Task /\ sender' \in Transaction \cup {Idle} /\ SenderSound'
         /\ \E i \in DOMAIN sender.hooks : sender.hooks[i] = t
         /\ sender' # Idle =>
              /\ sender'.phase = "committed"
              /\ \A i \in DOMAIN sender'.hooks :
                   \E j \in DOMAIN sender.hooks : sender'.hooks[i] = sender.hooks[j]
         /\ \A j \in DOMAIN sender.hooks :
              \/ sender.hooks[j] = t
              \/ sender' # Idle /\ \E i \in DOMAIN sender'.hooks : sender'.hooks[i] = sender.hooks[j]
         /\ \A n \in Notifications :
              /\ Announces(sender, n)' <=> Announces(sender, n) /\ ~Mailing(t, n)
              /\ Mailing(t, n) => Announces(sender, n)
<1>1. PICK s \in Transaction : s = sender /\ s # Idle
  BY SenderTyped DEF MailInv
<1>2. PICK h \in Seq(Task) : h = s.hooks
  BY <1>1 DEF Transaction
<1>3. /\ Len(h) \in {1, 2} /\ s.phase = "committed"
      /\ Len(h) = 2 => h[1].task # "dispatch"
  BY <1>1, <1>2 DEF MailInv, SenderSound
<1>4. t = h[1] /\ t \in Task /\ DOMAIN h = 1..Len(h)
  BY <1>1, <1>2, <1>3
<1>5. CASE Len(h) = 1
  <2>1. sender' = Idle
    BY <1>1, <1>2, <1>5, ShortQueues DEF Later
  <2> QED  BY <1>1, <1>2, <1>4, <1>5, <2>1 DEF SenderSound, Announces
<1>6. CASE Len(h) = 2
  <2>1. /\ Tail(h) \in Seq(Task) /\ Len(Tail(h)) = 1 /\ Tail(h)[1] = h[2]
        /\ Tail(h) # <<>> /\ DOMAIN Tail(h) = {1}
    BY <1>6, ShortQueues
  <2>2. sender' = [s EXCEPT !.hooks = Tail(h)]
    BY <1>1, <1>2, <2>1 DEF Later
  <2>3. /\ sender' \in Transaction /\ sender' # Idle
        /\ sender'.hooks = Tail(h) /\ sender'.phase = "committed"
    BY <2>1, <2>2, <1>3, Sentinels DEF Transaction
  <2>4. DOMAIN h = {1, 2}
    BY <1>4, <1>6
  <2> HIDE <2>2
  <2>5. SenderSound'
    <3>1. Len(sender'.hooks) = 1 /\ sender'.phase # "open"
      BY <2>1, <2>3
    <3>2. Len(sender'.hooks) \in {1, 2} /\ Len(sender'.hooks) # 2
      BY <3>1
    <3> QED  BY <3>1, <3>2, Zenon DEF SenderSound
  <2>6. ASSUME NEW n \in Notifications
        PROVE  /\ Announces(sender, n)' <=> Announces(sender, n) /\ ~Mailing(t, n)
               /\ Mailing(t, n) => Announces(sender, n)
    <3>1. Announces(sender, n)' <=> Mailing(h[2], n)
      BY <2>1, <2>3 DEF Announces
    <3>2. Announces(sender, n) <=> Mailing(h[2], n)
      BY <1>1, <1>2, <1>6 DEF Announces
    <3>3. ~Mailing(t, n)
      BY <1>3, <1>4, <1>6 DEF Mailing
    <3> QED  BY <3>1, <3>2, <3>3
  <2>7. /\ \A i \in DOMAIN sender'.hooks :
             \E j \in DOMAIN sender.hooks : sender'.hooks[i] = sender.hooks[j]
        /\ \A j \in DOMAIN sender.hooks :
             \/ sender.hooks[j] = t
             \/ \E i \in DOMAIN sender'.hooks : sender'.hooks[i] = sender.hooks[j]
        /\ \E i \in DOMAIN sender.hooks : sender.hooks[i] = t
    BY <1>1, <1>2, <1>4, <2>1, <2>3, <2>4
  <2> QED  BY <1>4, <2>3, <2>5, <2>6, <2>7
<1> QED  BY <1>3, <1>5, <1>6

LEMMA RunHookMails ==
  ASSUME MailInv, RunHook
  PROVE  MailInv'
<1> DEFINE t == Head(sender.hooks)
<1>1. /\ sender # Idle /\ sender.phase = "committed" /\ Enqueue(t)
      /\ sender' = Later(Tail(sender.hooks))
      /\ UNCHANGED <<data, worker, reindexing, mails, excused, writes, copies>>
  BY DEF RunHook
<1>2. /\ t \in Task /\ sender' \in Transaction \cup {Idle} /\ SenderSound'
      /\ sender' # Idle => sender'.phase = "committed"
      /\ \A n \in Notifications :
           /\ Announces(sender, n)' <=> Announces(sender, n) /\ ~Mailing(t, n)
           /\ Mailing(t, n) => Announces(sender, n)
  BY <1>1, NextHook
<1>3. IsABag(queue) /\ BagToSet(queue) \subseteq Task
  BY DEF MailInv, TypeOK
<1>4. IsABag(queue') /\ BagToSet(queue') \subseteq Task
  BY <1>1, <1>2, <1>3, Enqueued
<1>5. TypeOK'
  BY <1>1, <1>2, <1>4 DEF MailInv, TypeOK, data
<1>6. RunsSound'
  BY <1>1 DEF MailInv, RunsSound, RunSound
<1>7. ASSUME NEW n \in Notifications PROVE MailBudget(n)' /\ LogHonest(n)'
  <2>1. MailBudget(n) /\ LogHonest(n)
    BY DEF MailInv, MailsSound
  <2>2. /\ IsFiniteSet(Queued(n)') /\ Cardinality(Queued(n)) \in Nat
        /\ Cardinality(Queued(n)') = Cardinality(Queued(n)) + Tally(Mailing(t, n))
        /\ ~Mailing(t, n) => Queued(n)' = Queued(n)
    BY <1>1, <1>2, <1>3, <2>1, EnqueueToken DEF MailBudget
  <2>3. Carriers(n)' = Carriers(n) /\ Cardinality(Carriers(n)) \in Nat
    BY <1>1, <2>1, FS_CardinalityType DEF Carriers, MailBudget
  <2>4. Tally(Announces(sender, n)') = Tally(Announces(sender, n)) - Tally(Mailing(t, n))
    BY <1>2 DEF Tally
  <2>5. mails[n] \in Nat /\ copies \in Nat
    BY DEF MailInv, TypeOK
  <2>6. Mailing(t, n) => notification[n] # Unborn
    BY <1>1, <1>2, <2>1 DEF MailBudget
  <2>7. /\ Tally(Announces(sender, n)) \in Nat /\ Tally(Mailing(t, n)) \in Nat
        /\ Tally(Announces(sender, n))' = Tally(Announces(sender, n)')
    BY DEF Tally
  <2>8. notification'[n] = Unborn =>
          /\ Queued(n)' = {} /\ Carriers(n)' = {} /\ mails'[n] = 0
          /\ Announces(sender, n)' => sender'.phase = "open"
    BY <1>1, <1>2, <2>1, <2>2, <2>3, <2>6 DEF MailBudget, data
  <2>9. Cardinality(Queued(n)') + Cardinality(Carriers(n)') + Tally(Announces(sender, n)')
          + mails'[n] <= 1 + copies'
    BY <1>1, <2>1, <2>2, <2>3, <2>4, <2>5, <2>7 DEF MailBudget
  <2>10. IsFiniteSet(Carriers(n)')
    BY <2>1, <2>3 DEF MailBudget
  <2>11. LogHonest(n)'
    BY <1>1, <2>1 DEF LogHonest, data
  <2> QED  BY <2>2, <2>7, <2>8, <2>9, <2>10, <2>11 DEF MailBudget
<1> QED  BY <1>2, <1>5, <1>6, <1>7 DEF MailInv, MailsSound

LEMMA HookFailsMails ==
  ASSUME MailInv, HookFails
  PROVE  MailInv'
<1> DEFINE t == Head(sender.hooks)
<1>1. /\ sender # Idle /\ sender.phase = "committed"
      /\ UNCHANGED <<data, queue, worker, reindexing, mails, writes, copies>>
      /\ \/ sender' = Idle /\ excused' = excused \cup Lost(sender.hooks)
         \/ sender' = Later(Tail(sender.hooks)) /\ excused' = excused \cup {t.of}
  BY DEF HookFails
<1>2. CASE sender' = Idle /\ excused' = excused \cup Lost(sender.hooks)
  <2>1. excused' \subseteq Objects \cup Notifications
    BY <1>1, <1>2, LostTyped DEF MailInv, TypeOK
  <2> QED  BY <1>1, <1>2, <2>1, SenderEnds
<1>3. CASE sender' = Later(Tail(sender.hooks)) /\ excused' = excused \cup {t.of}
  <2>1. /\ t \in Task /\ sender' \in Transaction \cup {Idle} /\ SenderSound'
        /\ \A n \in Notifications : Announces(sender, n)' => Announces(sender, n)
    BY <1>1, <1>3, NextHook
  <2>2. t.of \in Objects \cup Notifications
    BY <2>1 DEF Task
  <2>3. TypeOK'
    BY <1>1, <1>3, <2>1, <2>2 DEF MailInv, TypeOK, data
  <2>4. RunsSound'
    BY <1>1 DEF MailInv, RunsSound, RunSound
  <2>5. ASSUME NEW n \in Notifications
        PROVE  /\ Carriers(n)' \subseteq Carriers(n)
               /\ notification'[n] = Unborn =>
                    notification[n] = Unborn /\ (Announces(sender, n)' => sender'.phase = "open")
    <3>1. MailBudget(n)
      BY DEF MailInv, MailsSound
    <3> QED  BY <1>1, <2>1, <3>1 DEF Carriers, MailBudget, data
  <2>6. MailsSound'
    BY <1>1, <2>1, <2>5, MailsStay DEF data
  <2> QED  BY <2>1, <2>3, <2>4, <2>6 DEF MailInv
<1> QED  BY <1>1, <1>2, <1>3

------------------------------------------------------------------------------
(* The steps of the workers. *)

\* A worker goes on, or stops, with the token it had; no mail is sent.
LEMMA WorkerStays ==
  ASSUME MailInv, NEW w \in Workers, NEW run \in Running \cup {Idle},
         worker' = [worker EXCEPT ![w] = run], RunSound(run)',
         \A n \in Notifications : Carries(run, n) => Carries(worker[w], n),
         UNCHANGED <<row, notification, sender, queue, reindexing, mails, writes, copies>>,
         index' \in [Objects -> Values \cup {Absent}],
         log' \in [Notifications -> LogRow \cup {NoLog}],
         \A n \in Notifications : LogHonest(n)',
         excused' \subseteq Objects \cup Notifications
  PROVE  MailInv'
<1>1. worker' \in [Workers -> Running \cup {Idle}] /\ RunsSound'
  <2>1. \A n \in Notifications : mails'[n] = mails[n] /\ mails[n] \in Nat
    BY Sentinels DEF MailInv, TypeOK
  <2>2. \A n \in Notifications : mails'[n] >= mails[n] /\ mails'[n] \in Nat
    BY <2>1
  <2> QED  BY <2>2, RunsStay
<1>2. TypeOK'
  BY <1>1 DEF MailInv, TypeOK
<1>3. SenderSound'
  BY DEF MailInv, SenderSound, Announces
<1>4. ASSUME NEW n \in Notifications PROVE MailBudget(n)'
  <2>1. MailBudget(n)
    BY DEF MailInv, MailsSound
  <2>2. Carriers(n)' \subseteq Carriers(n)
    BY <2>1, CarriesLess DEF MailInv
  <2>3. Announces(sender, n)' <=> Announces(sender, n)
    BY DEF Announces
  <2>4. notification'[n] = Unborn /\ Announces(sender, n)' => sender'.phase = "open"
    BY <2>1, <2>3 DEF MailBudget
  <2> QED  BY <2>1, <2>2, <2>3, <2>4, BudgetStays DEF MailInv
<1> QED  BY <1>1, <1>2, <1>3, <1>4 DEF MailInv, MailsSound

LEMMA LogsHonest ==
  ASSUME MailInv, UNCHANGED <<log, mails>>
  PROVE  \A n \in Notifications : LogHonest(n)'
BY DEF MailInv, MailsSound, LogHonest

\* A worker lays down what it ran, the logs stay.
LEMMA LeaveMails ==
  ASSUME MailInv, NEW w \in Workers, Leave(w),
         UNCHANGED <<row, notification, log, sender, queue, reindexing, mails, writes, copies>>,
         index' \in [Objects -> Values \cup {Absent}],
         excused' \subseteq Objects \cup Notifications
  PROVE  MailInv'
<1>1. RunSound(Idle)' /\ \A n \in Notifications : ~Carries(Idle, n)
  BY DEF RunSound, Carries
<1>2. \A n \in Notifications : LogHonest(n)'
  BY LogsHonest
<1>3. log' \in [Notifications -> LogRow \cup {NoLog}]
  BY DEF MailInv, TypeOK
<1> QED  BY <1>1, <1>2, <1>3, WorkerStays DEF Leave

LEMMA WorkerDiesMails ==
  ASSUME MailInv, NEW w \in Workers, WorkerDies(w)
  PROVE  MailInv'
<1>1. worker[w].task.of \in Objects \cup Notifications
  BY WorkerTyped DEF WorkerDies, MailInv
<1> QED  BY <1>1, LeaveMails DEF WorkerDies, MailInv, TypeOK, data

LEMMA SkipMails ==
  ASSUME MailInv, NEW w \in Workers, Skip(w)
  PROVE  MailInv'
<1>1. worker[w].task.of \in Notifications
  BY WorkerTyped DEF Skip, Is, MailInv
<1> QED  BY <1>1, LeaveMails DEF Skip, MailInv, TypeOK, data

LEMMA ReadRowMails ==
  ASSUME MailInv, NEW w \in Workers, ReadRow(w)
  PROVE  MailInv'
<1>1. PICK run \in Running :
        /\ run = worker[w] /\ run # Idle /\ run.task.task = "index" /\ run.phase = "started"
        /\ run.task.of \in Objects
  BY WorkerTyped DEF ReadRow, Is, MailInv
<1>2. /\ UNCHANGED <<data, sender, queue, reindexing, mails, excused, writes, copies>>
      /\ worker' = [worker EXCEPT ![w] =
           IF row[run.task.of] \in Values
             THEN [run EXCEPT !.phase = "read", !.document = row[run.task.of]] ELSE Idle]
  BY <1>1 DEF ReadRow, MailInv, TypeOK
<1>3. CASE row[run.task.of] \in Values
  <2>1. PICK d \in Values : d = row[run.task.of]
    BY <1>3
  <2>2. PICK next \in Running :
          /\ next = [run EXCEPT !.phase = "read", !.document = d]
          /\ next.phase = "read" /\ next.document = d /\ next.task = run.task
    <3> DEFINE first == [run EXCEPT !.phase = "read"]
    <3>1. first \in Running /\ first.phase = "read" /\ first.task = run.task
      BY DEF Running, Phases
    <3> HIDE DEF first
    <3>2. LET next == [first EXCEPT !.document = d] IN
          /\ next \in Running /\ next.phase = "read"
          /\ next.document = d /\ next.task = run.task
      BY <3>1 DEF Running
    <3> QED  BY <3>2 DEF first
  <2>3. worker' = [worker EXCEPT ![w] = next]
    BY <1>2, <1>3, <2>1, <2>2
  <2>4. RunSound(next)'
    BY <2>2 DEF RunSound, Values
  <2>5. \A n \in Notifications : ~Carries(next, n)
    BY <2>2 DEF Carries
  <2>6. \A n \in Notifications : LogHonest(n)'
    BY <1>2, LogsHonest DEF data
  <2>7. /\ index' \in [Objects -> Values \cup {Absent}]
        /\ log' \in [Notifications -> LogRow \cup {NoLog}]
        /\ excused' \subseteq Objects \cup Notifications
    BY <1>2 DEF MailInv, TypeOK, data
  <2> QED
    BY <1>2, <2>3, <2>4, <2>5, <2>6, <2>7, WorkerStays DEF data
<1>4. CASE row[run.task.of] \notin Values
  BY <1>2, <1>4, LeaveMails DEF Leave, MailInv, TypeOK, data
<1> QED  BY <1>3, <1>4

LEMMA ChangeIndexMails ==
  ASSUME MailInv, NEW w \in Workers, ChangeIndex(w)
  PROVE  MailInv'
<1>1. worker[w].document \in Values \cup {Absent}
  BY WorkerTyped DEF ChangeIndex, Is, MailInv, Running
<1>2. index' \in [Objects -> Values \cup {Absent}]
  BY <1>1 DEF ChangeIndex, MailInv, TypeOK
<1> QED  BY <1>2, LeaveMails DEF ChangeIndex, MailInv, TypeOK

LEMMA ReceiveMails ==
  ASSUME MailInv, NEW w \in Workers, NEW t \in BagToSet(queue), Receive(w, t)
  PROVE  MailInv'
<1>1. PICK run : run = [task |-> t, phase |-> "started", document |-> Absent]
  OBVIOUS
<1>2. /\ worker[w] = Idle /\ BagIn(t, queue) /\ queue' = queue (-) SetToBag({t})
      /\ worker' = [worker EXCEPT ![w] = run]
      /\ excused' \subseteq excused \cup (Objects \cap {t.of})
      /\ UNCHANGED <<data, sender, reindexing, mails, writes, copies>>
  BY <1>1 DEF Receive
<1>3. IsABag(queue) /\ BagToSet(queue) \subseteq Task /\ t \in Task
  BY DEF MailInv, TypeOK
<1>4. run \in Running /\ RunSound(run)'
  BY <1>1, <1>3 DEF Running, Phases, RunSound
<1>5. \A n \in Notifications : Carries(run, n) <=> Mailing(t, n)
  BY <1>1, <1>4, Sentinels DEF Carries
<1>6. IsABag(queue') /\ BagToSet(queue') \subseteq Task
  BY <1>2, <1>3, Dequeued
<1>7. worker' \in [Workers -> Running \cup {Idle}] /\ RunsSound'
  <2>1. \A n \in Notifications : mails'[n] = mails[n] /\ mails[n] \in Nat
    BY <1>2, Sentinels DEF MailInv, TypeOK
  <2>2. \A n \in Notifications : mails'[n] >= mails[n] /\ mails'[n] \in Nat
    BY <2>1
  <2> QED  BY <1>2, <1>4, <2>2, RunsStay
<1>8. TypeOK'
  BY <1>2, <1>6, <1>7 DEF MailInv, TypeOK, data
<1>9. SenderSound'
  BY <1>2 DEF MailInv, SenderSound, Announces
<1>10. ASSUME NEW n \in Notifications PROVE MailBudget(n)' /\ LogHonest(n)'
  <2>1. MailBudget(n) /\ LogHonest(n)
    BY DEF MailInv, MailsSound
  <2>2. /\ IsFiniteSet(Queued(n)') /\ Cardinality(Queued(n)) \in Nat
        /\ Cardinality(Queued(n)') = Cardinality(Queued(n)) - Tally(Mailing(t, n))
        /\ Queued(n)' \subseteq Queued(n)
        /\ Mailing(t, n) => Queued(n) # {}
    BY <1>2, <1>3, <2>1, DequeueToken DEF MailBudget
  <2>3. /\ IsFiniteSet(Carriers(n)') /\ Cardinality(Carriers(n)) \in Nat
        /\ Cardinality(Carriers(n)') = Cardinality(Carriers(n)) + Tally(Mailing(t, n))
        /\ ~Carries(run, n) => Carriers(n)' \subseteq Carriers(n)
    <3>1. worker \in [Workers -> Running \cup {Idle}] /\ IsFiniteSet(Carriers(n))
      BY <2>1 DEF MailBudget, MailInv, TypeOK
    <3>2. ~Carries(worker[w], n)
      BY <1>2 DEF Carries
    <3>3. /\ IsFiniteSet(Carriers(n)') /\ Cardinality(Carriers(n)) \in Nat
          /\ Carries(run, n) => Cardinality(Carriers(n)') = Cardinality(Carriers(n)) + 1
          /\ ~Carries(run, n) => Cardinality(Carriers(n)') = Cardinality(Carriers(n))
          /\ ~Carries(run, n) => Carriers(n)' \subseteq Carriers(n)
      BY <1>2, <3>1, <3>2, CarryToken
    <3> QED  BY <1>5, <3>3 DEF Tally
  <2>4. Tally(Mailing(t, n)) \in Nat /\ Tally(Announces(sender, n)) \in Nat
    BY DEF Tally
  <2>5. /\ Announces(sender, n)' <=> Announces(sender, n)
        /\ Tally(Announces(sender, n))' = Tally(Announces(sender, n))
    BY <1>2 DEF Announces, Tally
  <2>6. mails[n] \in Nat /\ copies \in Nat
    BY DEF MailInv, TypeOK
  <2>7. Cardinality(Queued(n)') + Cardinality(Carriers(n)') + Tally(Announces(sender, n))'
          + mails'[n] <= 1 + copies'
    BY <1>2, <2>1, <2>2, <2>3, <2>4, <2>5, <2>6 DEF MailBudget
  <2>8. notification'[n] = Unborn =>
          /\ Queued(n)' = {} /\ Carriers(n)' = {} /\ mails'[n] = 0
          /\ Announces(sender, n)' => sender'.phase = "open"
    BY <1>2, <1>5, <2>1, <2>2, <2>3, <2>5 DEF MailBudget, data
  <2> QED  BY <1>2, <2>1, <2>2, <2>3, <2>7, <2>8 DEF MailBudget, LogHonest, data
<1> QED  BY <1>7, <1>8, <1>9, <1>10 DEF MailInv, MailsSound

LEMMA DeliverAgainMails ==
  ASSUME MailInv, NEW t \in BagToSet(queue), DeliverAgain(t)
  PROVE  MailInv'
<1>1. /\ copies < MaxCopies /\ Enqueue(t) /\ copies' = copies + 1 /\ BagIn(t, queue)
      /\ UNCHANGED <<data, sender, worker, reindexing, mails, excused, writes>>
  BY DEF DeliverAgain
<1>2. IsABag(queue) /\ BagToSet(queue) \subseteq Task /\ t \in Task
  BY DEF MailInv, TypeOK
<1>3. IsABag(queue') /\ BagToSet(queue') \subseteq Task
  BY <1>1, <1>2, Enqueued
<1>4. TypeOK'
  BY <1>1, <1>3, Sentinels DEF MailInv, TypeOK, data
<1>5. SenderSound' /\ RunsSound'
  BY <1>1 DEF MailInv, SenderSound, Announces, RunsSound, RunSound
<1>6. ASSUME NEW n \in Notifications PROVE MailBudget(n)' /\ LogHonest(n)'
  <2>1. MailBudget(n) /\ LogHonest(n)
    BY DEF MailInv, MailsSound
  <2>2. /\ IsFiniteSet(Queued(n)') /\ Cardinality(Queued(n)) \in Nat
        /\ Cardinality(Queued(n)') = Cardinality(Queued(n)) + Tally(Mailing(t, n))
        /\ ~Mailing(t, n) => Queued(n)' = Queued(n)
    BY <1>1, <1>2, <2>1, EnqueueToken DEF MailBudget
  <2>3. Mailing(t, n) => Queued(n) # {}
    <3>1. ASSUME Mailing(t, n)
          PROVE  <<t.retries, 1>> \in Queued(n)
      <4>1. t = Attempt(n, t.retries) /\ t.retries \in 0..MAX_RETRIES
        BY <1>2, <3>1 DEF Task, Mailing, Attempt
      <4>2. Copies(t) \in Nat \ {0}
        BY <1>1, <1>2 DEF IsABag, Copies, BagIn, BagToSet
      <4>3. 1 <= Copies(Attempt(n, t.retries))
        BY <4>1, <4>2
      <4> QED  BY <4>1, <4>3 DEF Queued
    <3> QED  BY <3>1
  <2>4. Carriers(n)' = Carriers(n) /\ Cardinality(Carriers(n)) \in Nat
    BY <1>1, <2>1, FS_CardinalityType DEF Carriers, MailBudget
  <2>5. /\ Announces(sender, n)' <=> Announces(sender, n)
        /\ Tally(Announces(sender, n))' = Tally(Announces(sender, n))
        /\ Tally(Mailing(t, n)) \in {0, 1} /\ Tally(Announces(sender, n)) \in Nat
    BY <1>1 DEF Announces, Tally
  <2>6. mails[n] \in Nat /\ copies \in Nat
    BY DEF MailInv, TypeOK
  <2>7. Cardinality(Queued(n)') + Cardinality(Carriers(n)') + Tally(Announces(sender, n))'
          + mails'[n] <= 1 + copies'
    BY <1>1, <2>1, <2>2, <2>4, <2>5, <2>6 DEF MailBudget
  <2>8. notification'[n] = Unborn =>
          /\ Queued(n)' = {} /\ Carriers(n)' = {} /\ mails'[n] = 0
          /\ Announces(sender, n)' => sender'.phase = "open"
    BY <1>1, <2>1, <2>2, <2>3, <2>4, <2>5 DEF MailBudget, data
  <2>9. IsFiniteSet(Carriers(n)') /\ LogHonest(n)'
    BY <1>1, <2>1, <2>4 DEF MailBudget, LogHonest, data
  <2> QED  BY <2>2, <2>7, <2>8, <2>9 DEF MailBudget
<1> QED  BY <1>4, <1>5, <1>6 DEF MailInv, MailsSound

LEMMA RetryTyped ==
  ASSUME NEW t \in Task, MayRetry(t)
  PROVE  LET again == [t EXCEPT !.retries = @ + 1] IN
         again \in Task /\ again.task = t.task /\ again.of = t.of
BY Sentinels DEF Task, MayRetry

\* A task that failed goes back to the broker, with its token if it has one.
LEMMA RetryMails ==
  ASSUME MailInv, NEW w \in Workers, worker[w] # Idle, Retry(w), Leave(w),
         \A n \in Notifications : Mailing(worker[w].task, n) => Carries(worker[w], n),
         UNCHANGED <<row, index, notification, sender, reindexing, mails, writes, copies>>,
         log' \in [Notifications -> LogRow \cup {NoLog}],
         \A n \in Notifications : LogHonest(n)'
  PROVE  MailInv'
<1>1. PICK t \in Task : t = worker[w].task /\ t.of \in Objects \cup Notifications
  BY WorkerTyped DEF MailInv
<1>2. /\ worker' = [worker EXCEPT ![w] = Idle] /\ RunSound(Idle)'
      /\ \A n \in Notifications : ~Carries(Idle, n)
  BY DEF Leave, RunSound, Carries
<1>3. CASE ~MayRetry(t)
  <2>1. UNCHANGED queue /\ excused' \subseteq Objects \cup Notifications
    BY <1>1, <1>3 DEF Retry, MailInv, TypeOK
  <2>2. index' \in [Objects -> Values \cup {Absent}]
    BY DEF MailInv, TypeOK
  <2> QED  BY <1>2, <2>1, <2>2, WorkerStays
<1>4. CASE MayRetry(t)
  <2>1. PICK u \in Task : u = [t EXCEPT !.retries = @ + 1] /\ u.task = t.task /\ u.of = t.of
    BY <1>4, RetryTyped
  <2>2. Enqueue(u) /\ UNCHANGED excused
    BY <1>1, <1>4, <2>1 DEF Retry
  <2>3. IsABag(queue) /\ BagToSet(queue) \subseteq Task
    BY DEF MailInv, TypeOK
  <2>4. IsABag(queue') /\ BagToSet(queue') \subseteq Task
    BY <2>2, <2>3, Enqueued
  <2>5. worker' \in [Workers -> Running \cup {Idle}] /\ RunsSound'
    <3>1. \A n \in Notifications : mails'[n] = mails[n] /\ mails[n] \in Nat
      BY Sentinels DEF MailInv, TypeOK
    <3>2. \A n \in Notifications : mails'[n] >= mails[n] /\ mails'[n] \in Nat
      BY <3>1
    <3> QED  BY <1>2, <3>2, RunsStay
  <2>6. TypeOK'
    BY <2>2, <2>4, <2>5 DEF MailInv, TypeOK
  <2>7. SenderSound'
    BY DEF MailInv, SenderSound, Announces
  <2>8. ASSUME NEW n \in Notifications PROVE MailBudget(n)'
    <3>1. MailBudget(n)
      BY DEF MailInv, MailsSound
    <3>2. Mailing(u, n) <=> Mailing(t, n)
      BY <2>1 DEF Mailing
    <3>3. /\ IsFiniteSet(Queued(n)') /\ Cardinality(Queued(n)) \in Nat
          /\ Cardinality(Queued(n)') = Cardinality(Queued(n)) + Tally(Mailing(u, n))
          /\ ~Mailing(u, n) => Queued(n)' = Queued(n)
      BY <2>2, <2>3, <3>1, EnqueueToken DEF MailBudget
    <3>4. /\ IsFiniteSet(Carriers(n)') /\ Cardinality(Carriers(n)) \in Nat
          /\ Cardinality(Carriers(n)') = Cardinality(Carriers(n)) - Tally(Mailing(u, n))
          /\ Carriers(n)' \subseteq Carriers(n)
      <4>1. worker \in [Workers -> Running \cup {Idle}] /\ IsFiniteSet(Carriers(n))
        BY <3>1 DEF MailBudget, MailInv, TypeOK
      <4>2. ~Carries(Idle, n) /\ (Carries(worker[w], n) <=> Mailing(u, n))
        BY <1>1, <1>2, <3>2 DEF Carries
      <4>3. /\ IsFiniteSet(Carriers(n)') /\ Cardinality(Carriers(n)) \in Nat
            /\ Carries(worker[w], n) => Cardinality(Carriers(n)') = Cardinality(Carriers(n)) - 1
            /\ ~Carries(worker[w], n) => Cardinality(Carriers(n)') = Cardinality(Carriers(n))
            /\ Carriers(n)' \subseteq Carriers(n)
        BY <1>2, <4>1, <4>2, CarryToken
      <4> QED  BY <4>2, <4>3 DEF Tally
    <3>5. Tally(Mailing(u, n)) \in Nat /\ Tally(Announces(sender, n)) \in Nat
      BY DEF Tally
    <3>6. /\ Announces(sender, n)' <=> Announces(sender, n)
          /\ Tally(Announces(sender, n))' = Tally(Announces(sender, n))
      BY DEF Announces, Tally
    <3>7. mails[n] \in Nat /\ copies \in Nat
      BY DEF MailInv, TypeOK
    <3>8. Cardinality(Queued(n)') + Cardinality(Carriers(n)') + Tally(Announces(sender, n))'
            + mails'[n] <= 1 + copies'
      BY <3>1, <3>3, <3>4, <3>5, <3>6, <3>7 DEF MailBudget
    <3>9. Mailing(u, n) => Carriers(n) # {}
      BY <1>1, <3>2 DEF Carriers
    <3>10. notification'[n] = Unborn =>
            /\ Queued(n)' = {} /\ Carriers(n)' = {} /\ mails'[n] = 0
            /\ Announces(sender, n)' => sender'.phase = "open"
      BY <3>1, <3>3, <3>4, <3>6, <3>9 DEF MailBudget
    <3> QED  BY <3>3, <3>4, <3>8, <3>10 DEF MailBudget
  <2> QED  BY <2>5, <2>6, <2>7, <2>8 DEF MailInv, MailsSound
<1> QED  BY <1>3, <1>4

LEMMA ClientFailsMails ==
  ASSUME MailInv, NEW w \in Workers, ClientFails(w)
  PROVE  MailInv'
<1>1. /\ worker[w] # Idle /\ Retry(w) /\ Leave(w)
      /\ UNCHANGED <<row, index, notification, log, sender, reindexing, mails, writes, copies>>
      /\ \A n \in Notifications : ~Mailing(worker[w].task, n)
  BY DEF ClientFails, Is, Mailing, data
<1>2. \A n \in Notifications : LogHonest(n)'
  BY <1>1, LogsHonest
<1>3. log' \in [Notifications -> LogRow \cup {NoLog}]
  BY <1>1 DEF MailInv, TypeOK
<1> QED  BY <1>1, <1>2, <1>3, RetryMails

\* A worker that mails, as a value.
LEMMA MailerTyped ==
  ASSUME MailInv, NEW w \in Workers, NEW phase, Is(w, "dispatch", phase)
  PROVE  \E run \in Running, n \in Notifications :
           /\ run = worker[w] /\ run # Idle /\ run.phase = phase
           /\ run.task \in Task /\ run.task.task = "dispatch" /\ run.task.of = n
           /\ run.task.retries \in 0..MAX_RETRIES
           /\ phase = "delivered" => mails[n] > 0
<1>1. /\ worker[w] \in Running /\ worker[w] # Idle /\ worker[w].task \in Task
      /\ worker[w].phase = phase /\ worker[w].task.task = "dispatch"
      /\ worker[w].task.of \in Notifications
  BY WorkerTyped DEF Is, MailInv
<1>2. worker[w].task.retries \in 0..MAX_RETRIES
  BY <1>1 DEF Task
<1>3. phase = "delivered" => mails[worker[w].task.of] > 0
  BY <1>1 DEF MailInv, RunsSound, RunSound
<1> QED  BY <1>1, <1>2, <1>3

LEMMA OpenLogMails ==
  ASSUME MailInv, NEW w \in Workers, OpenLog(w)
  PROVE  MailInv'
<1>1. PICK run \in Running, n \in Notifications :
        /\ run = worker[w] /\ run # Idle /\ run.phase = "started"
        /\ run.task \in Task /\ run.task.task = "dispatch" /\ run.task.of = n
        /\ run.task.retries \in 0..MAX_RETRIES
  BY MailerTyped DEF OpenLog
<1>2. PICK next \in Running :
        next = [run EXCEPT !.phase = "open"] /\ next.phase = "open" /\ next.task = run.task
  <2>1. LET next == [run EXCEPT !.phase = "open"] IN
        next \in Running /\ next.phase = "open" /\ next.task = run.task
    BY DEF Running, Phases
  <2> QED  BY <2>1
<1>3. PICK entry \in LogRow :
        entry = [status |-> "pending", attempts |-> run.task.retries + 1]
  <2>1. run.task.retries + 1 \in 1..MAX_RETRIES + 1
    BY <1>1, Sentinels
  <2> QED  BY <2>1 DEF LogRow
<1>4. /\ worker' = [worker EXCEPT ![w] = next]
      /\ log' = [log EXCEPT ![n] = entry]
      /\ UNCHANGED <<row, index, notification, sender, queue, reindexing, mails, excused,
                     writes, copies>>
  BY <1>1, <1>2, <1>3 DEF OpenLog, Enter
<1>5. RunSound(next)'
  BY <1>2 DEF RunSound
<1>6. \A k \in Notifications : Carries(next, k) => Carries(worker[w], k)
  BY <1>1, <1>2 DEF Carries
<1>7. log' \in [Notifications -> LogRow \cup {NoLog}] /\ \A k \in Notifications : LogHonest(k)'
  BY <1>3, <1>4 DEF MailInv, TypeOK, MailsSound, LogHonest
<1>8. /\ index' \in [Objects -> Values \cup {Absent}]
      /\ excused' \subseteq Objects \cup Notifications
  BY <1>4 DEF MailInv, TypeOK
<1> QED  BY <1>4, <1>5, <1>6, <1>7, <1>8, WorkerStays

LEMMA LogSentMails ==
  ASSUME MailInv, NEW w \in Workers, LogSent(w)
  PROVE  MailInv'
<1>1. PICK run \in Running, n \in Notifications :
        run = worker[w] /\ run # Idle /\ run.task.of = n /\ mails[n] > 0
  BY MailerTyped DEF LogSent
<1>2. /\ log' = IF log[n] = NoLog THEN log ELSE [log EXCEPT ![n].status = "sent"]
      /\ Leave(w)
      /\ UNCHANGED <<row, index, notification, sender, queue, reindexing, mails, excused,
                     writes, copies>>
  BY <1>1 DEF LogSent
<1>3. log' \in [Notifications -> LogRow \cup {NoLog}] /\ \A k \in Notifications : LogHonest(k)'
  <2>1. CASE log[n] = NoLog
    BY <1>2, <2>1 DEF MailInv, TypeOK, MailsSound, LogHonest
  <2>2. CASE log[n] # NoLog
    <3>1. PICK entry \in LogRow : entry = log[n]
      BY <2>2 DEF MailInv, TypeOK
    <3>2. [entry EXCEPT !.status = "sent"] \in LogRow
      BY DEF LogRow
    <3>3. log' = [log EXCEPT ![n] = [entry EXCEPT !.status = "sent"]]
      BY <1>2, <2>2, <3>1
    <3> QED  BY <1>1, <1>2, <3>2, <3>3 DEF MailInv, TypeOK, MailsSound, LogHonest
  <2> QED  BY <2>1, <2>2
<1>4. /\ RunSound(Idle)' /\ \A k \in Notifications : ~Carries(Idle, k)
      /\ index' \in [Objects -> Values \cup {Absent}]
      /\ excused' \subseteq Objects \cup Notifications
  BY <1>2 DEF RunSound, Carries, MailInv, TypeOK
<1> QED  BY <1>2, <1>3, <1>4, WorkerStays DEF Leave

LEMMA LogFailedMails ==
  ASSUME MailInv, NEW w \in Workers, LogFailed(w)
  PROVE  MailInv'
<1>1. PICK run \in Running, n \in Notifications :
        /\ run = worker[w] /\ run # Idle /\ run.phase = "failed"
        /\ run.task.task = "dispatch" /\ run.task.of = n
        /\ run.task.retries \in 0..MAX_RETRIES
  BY MailerTyped DEF LogFailed
<1>2. /\ Leave(w)
      /\ UNCHANGED <<row, index, notification, sender, reindexing, mails, writes, copies>>
  BY DEF LogFailed
<1>3. CASE log[n] = NoLog
  <2>1. UNCHANGED <<log, queue, excused>>
    BY <1>1, <1>3 DEF LogFailed
  <2>2. /\ index' \in [Objects -> Values \cup {Absent}]
        /\ excused' \subseteq Objects \cup Notifications
    BY <1>2, <2>1 DEF MailInv, TypeOK
  <2> QED  BY <1>2, <2>1, <2>2, LeaveMails
<1>4. CASE log[n] # NoLog
  <2>1. PICK entry \in LogRow :
          entry = [status |-> "failed", attempts |-> run.task.retries + 1]
    <3>1. run.task.retries + 1 \in 1..MAX_RETRIES + 1
      BY <1>1, Sentinels
    <3> QED  BY <3>1 DEF LogRow
  <2>2. log' = [log EXCEPT ![n] = entry] /\ Retry(w)
    BY <1>1, <1>4, <2>1 DEF LogFailed
  <2>3. log' \in [Notifications -> LogRow \cup {NoLog}] /\ \A k \in Notifications : LogHonest(k)'
    BY <1>2, <2>1, <2>2 DEF MailInv, TypeOK, MailsSound, LogHonest
  <2>4. \A k \in Notifications : Mailing(worker[w].task, k) => Carries(worker[w], k)
    BY <1>1 DEF Carries
  <2> QED  BY <1>1, <1>2, <2>2, <2>3, <2>4, RetryMails
<1> QED  BY <1>3, <1>4

LEMMA MailMails ==
  ASSUME MailInv, NEW w \in Workers, Mail(w)
  PROVE  MailInv'
<1>1. PICK run \in Running, n \in Notifications :
        /\ run = worker[w] /\ run # Idle /\ run.phase = "open"
        /\ run.task \in Task /\ run.task.task = "dispatch" /\ run.task.of = n
  BY MailerTyped DEF Mail
<1>2. UNCHANGED <<data, sender, queue, reindexing, excused, writes, copies>>
  BY DEF Mail
<1>3. CASE Enter(w, "failed") /\ UNCHANGED mails
  <2>1. PICK next \in Running :
          next = [run EXCEPT !.phase = "failed"] /\ next.phase = "failed" /\ next.task = run.task
    <3>1. LET next == [run EXCEPT !.phase = "failed"] IN
          next \in Running /\ next.phase = "failed" /\ next.task = run.task
      BY DEF Running, Phases
    <3> QED  BY <3>1
  <2>2. worker' = [worker EXCEPT ![w] = next]
    BY <1>1, <1>3, <2>1 DEF Enter
  <2>3. RunSound(next)' /\ \A k \in Notifications : Carries(next, k) => Carries(worker[w], k)
    BY <1>1, <2>1 DEF RunSound, Carries
  <2>4. /\ index' \in [Objects -> Values \cup {Absent}]
        /\ log' \in [Notifications -> LogRow \cup {NoLog}]
        /\ excused' \subseteq Objects \cup Notifications
    BY <1>2 DEF MailInv, TypeOK, data
  <2>5. \A k \in Notifications : LogHonest(k)'
    BY <1>2, <1>3, LogsHonest DEF data
  <2> QED  BY <1>2, <1>3, <2>2, <2>3, <2>4, <2>5, WorkerStays DEF data
<1>4. CASE Enter(w, "delivered") /\ mails' = [mails EXCEPT ![n] = @ + 1]
  <2>1. PICK next \in Running :
          /\ next = [run EXCEPT !.phase = "delivered"] /\ next.phase = "delivered"
          /\ next.task = run.task
    <3>1. LET next == [run EXCEPT !.phase = "delivered"] IN
          next \in Running /\ next.phase = "delivered" /\ next.task = run.task
      BY DEF Running, Phases
    <3> QED  BY <3>1
  <2>2. worker' = [worker EXCEPT ![w] = next]
    BY <1>1, <1>4, <2>1 DEF Enter
  <2>3. \A k \in Notifications :
          mails[k] \in Nat /\ mails'[k] = IF k = n THEN mails[k] + 1 ELSE mails[k]
    BY <1>4, Sentinels DEF MailInv, TypeOK
  <2>4. worker' \in [Workers -> Running \cup {Idle}] /\ RunsSound'
    <3>1. RunSound(next)'
      BY <1>1, <2>1, <2>3 DEF RunSound
    <3>2. \A k \in Notifications : mails'[k] >= mails[k] /\ mails'[k] \in Nat
      BY <2>3
    <3> QED  BY <2>2, <3>1, <3>2, RunsStay
  <2>5. SenderSound'
    BY <1>2 DEF MailInv, SenderSound, Announces
  <2>6. ASSUME NEW k \in Notifications PROVE MailBudget(k)' /\ LogHonest(k)'
    <3>1. MailBudget(k) /\ LogHonest(k)
      BY DEF MailInv, MailsSound
    <3>2. Queued(k)' = Queued(k) /\ Cardinality(Queued(k)) \in Nat
      BY <1>2, <3>1, FS_CardinalityType DEF Queued, Copies, MailBudget
    <3>3. ~Carries(next, k) /\ (Carries(worker[w], k) <=> k = n)
      BY <1>1, <2>1 DEF Carries, Mailing
    <3>4. /\ IsFiniteSet(Carriers(k)') /\ Cardinality(Carriers(k)) \in Nat
          /\ k = n => Cardinality(Carriers(k)') = Cardinality(Carriers(k)) - 1
          /\ k # n => Cardinality(Carriers(k)') = Cardinality(Carriers(k))
          /\ Carriers(k)' \subseteq Carriers(k)
      <4>1. worker \in [Workers -> Running \cup {Idle}] /\ IsFiniteSet(Carriers(k))
        BY <3>1 DEF MailBudget, MailInv, TypeOK
      <4> QED  BY <2>2, <3>3, <4>1, CarryToken
    <3>5. /\ Announces(sender, k)' <=> Announces(sender, k)
          /\ Tally(Announces(sender, k))' = Tally(Announces(sender, k))
          /\ Tally(Announces(sender, k)) \in Nat
      BY <1>2 DEF Announces, Tally
    <3>6. copies \in Nat
      BY DEF MailInv, TypeOK
    <3>7. Cardinality(Queued(k)') + Cardinality(Carriers(k)') + Tally(Announces(sender, k))'
            + mails'[k] <= 1 + copies'
      BY <1>2, <2>3, <3>1, <3>2, <3>4, <3>5, <3>6 DEF MailBudget
    <3>8. k = n => Carriers(k) # {}
      BY <3>3 DEF Carriers
    <3>9. notification'[k] = Unborn =>
            /\ Queued(k)' = {} /\ Carriers(k)' = {} /\ mails'[k] = 0
            /\ Announces(sender, k)' => sender'.phase = "open"
      BY <1>2, <2>3, <3>1, <3>2, <3>4, <3>5, <3>8 DEF MailBudget, data
    <3>10. LogHonest(k)'
      BY <1>2, <2>3, <3>1 DEF LogHonest, data
    <3> QED  BY <3>1, <3>2, <3>4, <3>7, <3>9, <3>10 DEF MailBudget
  <2>7. \A k \in Notifications : mails'[k] \in 0..MaxCopies + 1
    <3>1. ASSUME NEW k \in Notifications PROVE mails'[k] \in 0..MaxCopies + 1
      <4>1. MailBudget(k)' /\ mails'[k] \in Nat
        BY <2>3, <2>6
      <4>2. Cardinality(Queued(k)') \in Nat /\ Cardinality(Carriers(k)') \in Nat
        BY <4>1, FS_CardinalityType DEF MailBudget
      <4>3. Tally(Announces(sender, k))' \in Nat
        BY DEF Tally
      <4>4. mails'[k] <= 1 + copies'
        <5>1. copies' \in Nat
          BY <1>2 DEF MailInv, TypeOK
        <5> QED  BY <4>1, <4>2, <4>3, <5>1 DEF MailBudget
      <4>5. copies' \in 0..MaxCopies /\ MaxCopies \in Nat
        BY <1>2, Sentinels DEF MailInv, TypeOK
      <4> QED  BY <4>1, <4>4, <4>5
    <3> QED  BY <3>1
  <2>8. TypeOK'
    <3>1. mails' \in [Notifications -> 0..MaxCopies + 1]
      BY <1>4, <2>7 DEF MailInv, TypeOK
    <3> QED  BY <1>2, <2>4, <3>1 DEF MailInv, TypeOK, data
  <2> QED  BY <2>4, <2>5, <2>6, <2>8 DEF MailInv, MailsSound
<1> QED  BY <1>1, <1>3, <1>4 DEF Mail

------------------------------------------------------------------------------
(* Operators and Beat. *)

\* A step that moves no task and changes at most the index, the notifications
\* and the logs, which it only purges.
LEMMA UpkeepMails ==
  ASSUME MailInv, UNCHANGED <<row, sender, queue, worker, mails, writes, copies>>,
         index' \in [Objects -> Values \cup {Absent}],
         reindexing' \in [Objects -> Values \cup {Absent}] \cup {Idle},
         notification' \in [Notifications -> NotificationRow \cup {Unborn, Deleted}],
         log' \in [Notifications -> LogRow \cup {NoLog}],
         \A n \in Notifications : /\ notification'[n] \in {notification[n], Deleted}
                                  /\ log'[n] \in {log[n], NoLog},
         excused' \subseteq Objects \cup Notifications
  PROVE  MailInv'
<1>1. TypeOK'
  BY DEF MailInv, TypeOK
<1>2. SenderSound' /\ RunsSound'
  BY DEF MailInv, SenderSound, Announces, RunsSound, RunSound
<1>3. ASSUME NEW n \in Notifications
      PROVE  /\ Carriers(n)' \subseteq Carriers(n)
             /\ Announces(sender, n)' => Announces(sender, n)
             /\ notification'[n] = Unborn =>
                  notification[n] = Unborn /\ (Announces(sender, n)' => sender'.phase = "open")
  <2>1. MailBudget(n)
    BY DEF MailInv, MailsSound
  <2>2. notification'[n] = Unborn => notification[n] = Unborn
    BY Sentinels
  <2>3. Carriers(n)' = Carriers(n) /\ (Announces(sender, n)' <=> Announces(sender, n))
    BY DEF Carriers, Announces
  <2> QED  BY <2>1, <2>2, <2>3 DEF MailBudget
<1>4. MailsSound'
  BY <1>3, MailsStay
<1> QED  BY <1>1, <1>2, <1>4 DEF MailInv

LEMMA ReindexMails ==
  ASSUME MailInv, (\E b \in BOOLEAN : StartReindex(b)) \/ FinishReindex \/ ReindexFails
  PROVE  MailInv'
<1>1. UNCHANGED <<row, notification, log, sender, queue, worker, mails, writes, copies>>
  BY DEF StartReindex, FinishReindex, ReindexFails, data
<1>2. \A o \in Objects : Document(o) \in Values \cup {Absent}
  BY DEF Document
<1>3. /\ index' \in [Objects -> Values \cup {Absent}]
      /\ reindexing' \in [Objects -> Values \cup {Absent}] \cup {Idle}
      /\ excused' \subseteq Objects \cup Notifications
  <2>1. CASE \E b \in BOOLEAN : StartReindex(b)
    BY <1>2, <2>1 DEF StartReindex, MailInv, TypeOK
  <2>2. CASE FinishReindex
    BY <2>2 DEF FinishReindex, MailInv, TypeOK
  <2>3. CASE ReindexFails
    BY <2>3 DEF ReindexFails, MailInv, TypeOK, data
  <2> QED  BY <2>1, <2>2, <2>3
<1> QED  BY <1>1, <1>3, UpkeepMails DEF MailInv, TypeOK

\* A change without a task touches nothing the mails depend on.
LEMMA ChangeJoinedMails ==
  ASSUME MailInv, NEW o \in Objects, ChangeJoined(o)
  PROVE  MailInv'
<1>1. UNCHANGED <<index, notification, log, sender, queue, worker, reindexing, mails, copies>>
  BY DEF ChangeJoined
<1>2. TypeOK'
  <2>1. writes + 1 \in Values /\ writes' \in 0..MaxWrites
    BY Sentinels DEF ChangeJoined, MailInv, TypeOK, Values
  <2>2. row' \in [Objects -> Values \cup {Deleted}]
    BY <2>1 DEF ChangeJoined, MailInv, TypeOK
  <2>3. excused' \subseteq Objects \cup Notifications
    BY DEF ChangeJoined, MailInv, TypeOK
  <2> QED  BY <1>1, <2>1, <2>2, <2>3 DEF MailInv, TypeOK
<1>3. SenderSound' /\ RunsSound'
  BY <1>1 DEF MailInv, SenderSound, Announces, RunsSound, RunSound
<1>4. MailsSound'
  <2>1. \A n \in Notifications :
          /\ Carriers(n)' = Carriers(n)
          /\ Announces(sender, n)' <=> Announces(sender, n)
          /\ MailBudget(n)
    BY <1>1 DEF Carriers, Announces, MailInv, MailsSound
  <2> QED  BY <1>1, <2>1, MailsStay DEF MailBudget
<1> QED  BY <1>2, <1>3, <1>4 DEF MailInv

LEMMA PurgeMails ==
  ASSUME MailInv, NEW n \in Notifications, Purge(n) \/ PurgeLog(n)
  PROVE  MailInv'
<1>1. /\ UNCHANGED <<row, index, sender, queue, worker, reindexing, mails, excused,
                     writes, copies>>
      /\ log' = [log EXCEPT ![n] = NoLog]
      /\ \/ notification' = [notification EXCEPT ![n] = Deleted]
         \/ UNCHANGED notification
  BY DEF Purge, PurgeLog
<1>2. /\ notification' \in [Notifications -> NotificationRow \cup {Unborn, Deleted}]
      /\ log' \in [Notifications -> LogRow \cup {NoLog}]
      /\ \A k \in Notifications : /\ notification'[k] \in {notification[k], Deleted}
                                  /\ log'[k] \in {log[k], NoLog}
  BY <1>1 DEF MailInv, TypeOK
<1> QED  BY <1>1, <1>2, UpkeepMails DEF MailInv, TypeOK

------------------------------------------------------------------------------
LEMMA MailsInit == Init => MailInv
<1> SUFFICES ASSUME Init PROVE MailInv
  OBVIOUS
<1>1. /\ IsABag(queue) /\ BagToSet(queue) = {}
      /\ \A t : Copies(t) = 0
  BY DEF Init, IsABag, BagToSet, BagIn, SetToBag, EmptyBag, Copies
<1>2. TypeOK
  BY <1>1, Sentinels DEF Init, TypeOK, Values
<1>3. SenderSound /\ RunsSound
  BY DEF Init, SenderSound, RunsSound, RunSound
<1>4. ASSUME NEW n \in Notifications PROVE MailBudget(n) /\ LogHonest(n)
  <2>1. Queued(n) = {}
    BY <1>1 DEF Queued
  <2>2. Carriers(n) = {} /\ ~Announces(sender, n) /\ mails[n] = 0 /\ copies = 0
    BY DEF Init, Carriers, Carries, Announces
  <2> QED  BY <2>1, <2>2, FS_EmptySet DEF MailBudget, LogHonest, Tally, Init
<1> QED  BY <1>2, <1>3, <1>4 DEF MailInv, MailsSound

LEMMA MailsNext ==
  ASSUME MailInv, [Next]_vars
  PROVE  MailInv'
<1>1. CASE \E o \in Objects, to \in Values \cup {Deleted}, n \in Notifications, s \in BOOLEAN :
             Write(o, to, n, s)
  BY <1>1, WriteMails
<1>2. CASE Send \/ HookFails \/ SenderDies
  BY <1>2, RollbackMails, CommitMails, RunHookMails, HookFailsMails, SenderDiesMails DEF Send
<1>3. CASE Deliver
  BY <1>3, ReceiveMails DEF Deliver
<1>4. CASE \E w \in Workers : Work(w) \/ WorkerDies(w)
  BY <1>4, ReadRowMails, ChangeIndexMails, ClientFailsMails, SkipMails, OpenLogMails,
     MailMails, LogSentMails, LogFailedMails, WorkerDiesMails DEF Work
<1>5. CASE \E t \in BagToSet(queue) : DeliverAgain(t)
  BY <1>5, DeliverAgainMails
<1>6. CASE (\E b \in BOOLEAN : StartReindex(b)) \/ FinishReindex \/ ReindexFails
  BY <1>6, ReindexMails
<1>7. CASE \E n \in Notifications : Purge(n) \/ PurgeLog(n)
  BY <1>7, PurgeMails
<1>8. CASE UNCHANGED vars
  <2>1. UNCHANGED <<row, index, notification, log, sender, queue, worker, reindexing, mails,
                    excused, writes, copies>>
    BY <1>8 DEF vars, data
  <2> QED  BY <2>1, UpkeepMails DEF MailInv, TypeOK
<1>9. CASE \E o \in Objects : ChangeJoined(o)
  BY <1>9, ChangeJoinedMails
<1> QED  BY <1>1, <1>2, <1>3, <1>4, <1>5, <1>6, <1>7, <1>8, <1>9 DEF Next

LEMMA WithinBudget ==
  ASSUME TypeOK, NEW n \in Notifications, MailBudget(n)
  PROVE  mails[n] <= 1 + copies
<1>1. Cardinality(Queued(n)) \in Nat /\ Cardinality(Carriers(n)) \in Nat
  BY FS_CardinalityType DEF MailBudget
<1>2. Tally(Announces(sender, n)) \in Nat /\ mails[n] \in Nat /\ copies \in Nat
  BY DEF Tally, TypeOK
<1> QED  BY <1>1, <1>2 DEF MailBudget

\* The rows, the tasks and what the workers run keep their types; in particular
\* no notification is mailed more often than its tasks can account for.
THEOREM TypeCorrectness == Spec => []TypeOK
<1>1. MailInv => TypeOK
  BY DEF MailInv
<1>2. MailInv /\ [Next]_vars => MailInv'
  BY MailsNext
<1> QED  BY <1>1, <1>2, MailsInit, PTL DEF Spec

\* A notification is mailed once, and once more for each redelivery, whatever
\* the order of retries, crashes and purges; a log says "sent" only of a mail
\* that left.
THEOREM MailsLeaveOnce == Spec => []MailedOnce
<1>1. MailInv => MailedOnce
  BY WithinBudget DEF MailInv, MailsSound, MailedOnce, LogHonest
<1>2. MailInv /\ [Next]_vars => MailInv'
  BY MailsNext
<1> QED  BY <1>1, <1>2, MailsInit, PTL DEF Spec

------------------------------------------------------------------------------
(* What steps do to the invariant of the index. *)

\* What is about an object stays as it was.
LEMMA FreshStays ==
  ASSUME NEW o \in Objects, Fresh(o),
         row'[o] = row[o], index'[o] = index[o], UNCHANGED reindexing,
         RunningOn(o)' = RunningOn(o), \A w \in RunningOn(o) : worker'[w] = worker[w],
         Sent("index", o) => Sent("index", o)', Sent("delete", o)' <=> Sent("delete", o)
  PROVE  Fresh(o)'
<1>1. Needed(o)' = Needed(o) /\ Document(o)' = Document(o) /\ (Reading(o)' <=> Reading(o))
  BY DEF Needed, Document, Reading, Values
<1>2. Coming(o) => Coming(o)'
  BY <1>1 DEF Coming, Needed
<1>3. Working(o) => Working(o)'
  BY <1>1 DEF Working, RunningOn, Does
<1>4. Executing("delete", o)' <=> Executing("delete", o)
  BY DEF Executing, RunningOn, Does
<1>5. \A w \in RunningOn(o)' :
        worker'[w].phase = "read" => worker'[w].document = row'[o] \/ Coming(o)'
  BY <1>2 DEF Fresh
<1>6. index'[o] = Document(o)' \/ Coming(o)' \/ Working(o)' \/ Reading(o)'
  BY <1>1, <1>2, <1>3 DEF Fresh
<1>7. reindexing' # Idle => reindexing'[o] = Document(o)' \/ Coming(o)'
  BY <1>1, <1>2 DEF Fresh
<1> QED  BY <1>4, <1>5, <1>6, <1>7 DEF Fresh

\* Tasks about an object are of the two kinds; mails are about none.
LEMMA KindsOfTasks ==
  ASSUME NEW t \in Task
  PROVE  /\ t.of \in Objects => t.task \in {"index", "delete"}
         /\ t.task = "dispatch" => t.of \notin Objects
         /\ t.task # "dispatch" => t.of \in Objects
BY DeliveryAssumption DEF Task

LEMMA SentStays ==
  ASSUME NEW o \in Objects, NEW kind, UNCHANGED sender,
         \A t \in BagToSet(queue) \cup BagToSet(queue') :
           Does(t, kind, o) => t \in BagToSet(queue) \cap BagToSet(queue')
  PROVE  Sent(kind, o)' <=> Sent(kind, o)
BY DEF Sent, Does

------------------------------------------------------------------------------
(* The steps of the sender. *)

\* A transaction that is open has sent nothing yet.
LEMMA WriteIndex ==
  ASSUME DlvInv, NEW o \in Objects, Fresh(o),
         UNCHANGED <<data, queue, worker, reindexing>>,
         sender # Idle => sender.phase = "open",
         sender' # Idle => sender'.phase = "open"
  PROVE  Fresh(o)'
<1>1. \A kind : Sent(kind, o)' <=> Sent(kind, o)
  BY DEF Sent, Does
<1>2. RunningOn(o)' = RunningOn(o)
  BY DEF RunningOn
<1> QED  BY <1>1, <1>2, FreshStays DEF data

LEMMA RunHookIndex ==
  ASSUME DlvInv, RunHook, NEW o \in Objects, Fresh(o)
  PROVE  Fresh(o)'
<1> DEFINE t == Head(sender.hooks)
<1>1. /\ sender # Idle /\ sender.phase = "committed" /\ Enqueue(t)
      /\ sender' = Later(Tail(sender.hooks))
      /\ UNCHANGED <<data, worker, reindexing, mails, excused, writes, copies>>
  BY DEF RunHook
<1>2. /\ \E i \in DOMAIN sender.hooks : sender.hooks[i] = t
      /\ sender' # Idle =>
           /\ sender'.phase = "committed"
           /\ \A i \in DOMAIN sender'.hooks :
                \E j \in DOMAIN sender.hooks : sender'.hooks[i] = sender.hooks[j]
      /\ \A j \in DOMAIN sender.hooks :
           \/ sender.hooks[j] = t
           \/ sender' # Idle /\ \E i \in DOMAIN sender'.hooks : sender'.hooks[i] = sender.hooks[j]
  BY <1>1, NextHook DEF DlvInv
<1>3. BagToSet(queue') = BagToSet(queue) \cup {t}
  BY <1>1, Enqueued DEF DlvInv, MailInv, TypeOK
<1> HIDE DEF t
<1>4. ASSUME NEW kind PROVE Sent(kind, o)' <=> Sent(kind, o)
  <2>1. ASSUME Sent(kind, o) PROVE Sent(kind, o)'
    BY <1>1, <1>2, <1>3, <2>1 DEF Sent, Does
  <2>2. ASSUME Sent(kind, o)' PROVE Sent(kind, o)
    BY <1>1, <1>2, <1>3, <2>2 DEF Sent, Does
  <2> QED  BY <2>1, <2>2
<1>5. RunningOn(o)' = RunningOn(o)
  BY <1>1 DEF RunningOn
<1> QED  BY <1>1, <1>4, <1>5, FreshStays DEF data

LEMMA HookFailsIndex ==
  ASSUME DlvInv, HookFails \/ SenderDies, NEW o \in Objects \ excused'
  PROVE  Fresh(o)'
<1> DEFINE t == Head(sender.hooks)
<1>1. /\ sender # Idle /\ sender.phase = "committed"
      /\ UNCHANGED <<data, queue, worker, reindexing, mails, writes, copies>>
      /\ \/ sender' = Idle /\ excused' = excused \cup Lost(sender.hooks)
         \/ sender' = Later(Tail(sender.hooks)) /\ excused' = excused \cup {t.of}
  BY DEF HookFails, SenderDies
<1>2. Fresh(o)
  BY <1>1 DEF DlvInv, IndexSound
<1>3. RunningOn(o)' = RunningOn(o)
  BY <1>1 DEF RunningOn
<1>4. ASSUME NEW kind PROVE Sent(kind, o)' <=> Sent(kind, o)
  <2>1. CASE sender' = Idle /\ excused' = excused \cup Lost(sender.hooks)
    <3>1. \A i \in DOMAIN sender.hooks : sender.hooks[i].of # o
      BY <2>1 DEF Lost
    <3> QED  BY <1>1, <2>1, <3>1 DEF Sent, Does
  <2>2. CASE sender' = Later(Tail(sender.hooks)) /\ excused' = excused \cup {t.of}
    <3>1. /\ sender' # Idle =>
               /\ sender'.phase = "committed"
               /\ \A i \in DOMAIN sender'.hooks :
                    \E j \in DOMAIN sender.hooks : sender'.hooks[i] = sender.hooks[j]
          /\ \A j \in DOMAIN sender.hooks :
               \/ sender.hooks[j] = t
               \/ sender' # Idle /\ \E i \in DOMAIN sender'.hooks : sender'.hooks[i] = sender.hooks[j]
      BY <1>1, <2>2, NextHook DEF DlvInv
    <3>2. t.of # o
      BY <2>2
    <3> HIDE DEF t
    <3> QED  BY <1>1, <3>1, <3>2 DEF Sent, Does
  <2> QED  BY <1>1, <2>1, <2>2
<1> QED  BY <1>1, <1>2, <1>3, <1>4, FreshStays DEF data

LEMMA CommitIndex ==
  ASSUME DlvInv, Commit, NEW o \in Objects \ excused'
  PROVE  Fresh(o)'
<1>1. PICK s \in Transaction : s = sender /\ s.phase = "open" /\ s # Idle
  BY SenderTyped DEF Commit, DlvInv, MailInv
<1>2. PICK x \in Objects, to \in Values \cup {Deleted} : x = s.object /\ to = s.to
  BY DEF Transaction
<1> DEFINE free == ~QueuedOn(x) /\ RunningOn(x) = {} /\ reindexing = Idle
<1>3. /\ row' = [row EXCEPT ![x] = to]
      /\ sender' = [s EXCEPT !.phase = "committed"]
      /\ excused' = IF free THEN excused \ {x}
                    ELSE IF row[x] = Deleted THEN excused \cup {x} ELSE excused
      /\ UNCHANGED <<index, log, queue, worker, reindexing, mails, writes, copies>>
  BY <1>1, <1>2 DEF Commit
<1>4. sender'.phase = "committed" /\ sender'.hooks = s.hooks /\ sender' # Idle
  <2>1. sender' \in Transaction /\ sender'.phase = "committed" /\ sender'.hooks = s.hooks
    BY <1>3 DEF Transaction
  <2> QED  BY <2>1, Sentinels
<1>5. \A y \in Objects : row'[y] = IF y = x THEN to ELSE row[y]
  BY <1>3 DEF DlvInv, MailInv, TypeOK
<1>6. PICK h \in Seq(Task) : h = s.hooks
  BY DEF Transaction
<1>7. /\ 1 \in DOMAIN h /\ h[1] = IndexTask(x, to)
      /\ \A i \in DOMAIN h : i # 1 => h[i].task = "dispatch"
  <2>1. /\ Len(h) \in {1, 2} /\ h[1] = IndexTask(x, to)
        /\ Len(h) = 2 => h[2].task = "dispatch"
    BY <1>1, <1>2, <1>6 DEF DlvInv, MailInv, SenderSound
  <2>2. DOMAIN h = 1..Len(h)
    BY LenProperties
  <2> QED  BY <2>1, <2>2
<1>8. h[1].of = x /\ h[1].task = IF to = Deleted THEN "delete" ELSE "index"
  BY <1>7 DEF IndexTask, First
<1>9. ASSUME NEW i \in DOMAIN h, h[i].of \in Objects PROVE i = 1
  <2>1. h[i] \in Task
    BY ElementOfSeq, LenProperties
  <2> QED  BY <1>7, <1>9, <2>1, KindsOfTasks
<1>10. RunningOn(o)' = RunningOn(o) /\ \A w \in RunningOn(o) : worker'[w] = worker[w]
  BY <1>3 DEF RunningOn
<1>11. CASE o # x
  <2>1. o \notin excused /\ Fresh(o)
    BY <1>3, <1>11 DEF DlvInv, IndexSound
  <2>2. \A i \in DOMAIN h : h[i].of # o
    BY <1>8, <1>9, <1>11
  <2>3. \A kind : Sent(kind, o)' <=> Sent(kind, o)
    BY <1>1, <1>3, <1>4, <1>6, <2>2 DEF Sent, Does
  <2> QED  BY <1>3, <1>5, <1>10, <1>11, <2>1, <2>3, FreshStays
<1>12. CASE o = x
  <2>1. Needed(o)' = IF to = Deleted THEN "delete" ELSE "index"
    BY <1>5, <1>12, Sentinels DEF Needed, Values
  <2>2. Coming(o)'
    BY <1>4, <1>6, <1>7, <1>8, <1>12, <2>1 DEF Coming, Sent, Does
  <2>3. (\A v, w \in RunningOn(o) : v = w) /\ (RunningOn(o) # {} => reindexing = Idle)
    <3>1. CASE free
      BY <1>12, <3>1
    <3>2. CASE ~free
      BY <1>3, <1>12, <3>2 DEF DlvInv, IndexSound, Fresh
    <3> QED  BY <3>1, <3>2
  <2>4. ASSUME to # Deleted PROVE ~Sent("delete", o)' /\ ~Executing("delete", o)'
    <3>1. (\A t \in BagToSet(queue) : ~Does(t, "delete", o)) /\ ~Executing("delete", o)
      <4>1. CASE free
        BY <1>12, <4>1 DEF QueuedOn, RunningOn, Does, Executing
      <4>2. CASE ~free
        BY <1>3, <1>12, <4>2 DEF DlvInv, IndexSound, Fresh, Sent
      <4> QED  BY <4>1, <4>2
    <3>2. \A i \in DOMAIN h : ~Does(h[i], "delete", o)
      BY <1>8, <1>9, <2>4 DEF Does
    <3> QED  BY <1>3, <1>4, <1>6, <3>1, <3>2 DEF Sent, Executing, Does
  <2>5. Sent("delete", o)' \/ Executing("delete", o)' => row'[o] = Deleted
    BY <1>5, <1>12, <2>4
  <2> QED  BY <1>3, <1>10, <2>2, <2>3, <2>5 DEF Fresh
<1> QED  BY <1>11, <1>12

------------------------------------------------------------------------------
(* The steps of the workers. *)

\* A worker's step changes what runs on another object only if it took up or
\* laid down a task about it.
LEMMA RunningElsewhere ==
  ASSUME TypeOK, NEW o \in Objects, NEW w \in Workers, NEW run,
         worker' = [worker EXCEPT ![w] = run],
         worker[w] # Idle => worker[w].task.of # o,
         run # Idle => run.task.of # o
  PROVE  RunningOn(o)' = RunningOn(o) /\ \A v \in RunningOn(o) : worker'[v] = worker[v]
BY DEF TypeOK, RunningOn

LEMMA ReceiveIndex ==
  ASSUME DlvInv, NEW w \in Workers, NEW t \in BagToSet(queue), Receive(w, t),
         NEW o \in Objects \ excused'
  PROVE  Fresh(o)'
<1>1. PICK run : run = [task |-> t, phase |-> "started", document |-> Absent]
  OBVIOUS
<1>2. /\ worker[w] = Idle /\ BagIn(t, queue) /\ queue' = queue (-) SetToBag({t})
      /\ worker' = [worker EXCEPT ![w] = run]
      /\ excused' = IF t.of \in Objects /\ (RunningOn(t.of) # {} \/ reindexing # Idle)
                      THEN excused \cup {t.of} ELSE excused
      /\ UNCHANGED <<data, sender, reindexing, mails, writes, copies>>
  BY <1>1 DEF Receive
<1>3. Fresh(o) /\ TypeOK /\ t \in Task
  BY <1>2 DEF DlvInv, IndexSound, MailInv, TypeOK
<1>4. run \in Running /\ run # Idle /\ run.task = t /\ run.phase = "started"
  <2>1. run \in Running
    BY <1>1, <1>3 DEF Running, Phases
  <2> QED  BY <1>1, <2>1, Sentinels
<1>5. BagToSet(queue') \subseteq BagToSet(queue) /\ BagToSet(queue) \subseteq BagToSet(queue') \cup {t}
  BY <1>2, <1>3, Dequeued DEF TypeOK
<1>6. \A v \in Workers : worker'[v] = IF v = w THEN run ELSE worker[v]
  BY <1>2, <1>3 DEF TypeOK
<1>7. CASE t.of # o
  <2>1. \A kind : Sent(kind, o)' <=> Sent(kind, o)
    BY <1>2, <1>5, <1>7 DEF Sent, Does
  <2>2. RunningOn(o)' = RunningOn(o) /\ \A v \in RunningOn(o) : worker'[v] = worker[v]
    BY <1>2, <1>3, <1>4, <1>7, RunningElsewhere
  <2> QED  BY <1>2, <1>3, <2>1, <2>2, FreshStays DEF data
<1>8. CASE t.of = o
  <2>1. RunningOn(o) = {} /\ reindexing = Idle
    BY <1>2, <1>8
  <2>2. RunningOn(o)' = {w}
    BY <1>4, <1>6, <1>8, <2>1 DEF RunningOn
  <2>3. /\ Needed(o)' = Needed(o) /\ Document(o)' = Document(o)
        /\ index'[o] = index[o] /\ row'[o] = row[o]
    BY <1>2 DEF Needed, Document, data, Values
  <2>4. \A kind : Sent(kind, o) /\ ~Does(t, kind, o) => Sent(kind, o)'
    BY <1>2, <1>5 DEF Sent, Does
  <2>5. index[o] = Document(o) \/ Coming(o)
    BY <1>3, <2>1 DEF Fresh, Working, Reading, RunningOn, Does
  <2>6. Does(t, Needed(o), o) => Working(o)'
    BY <1>4, <1>6, <2>3 DEF Working, Does
  <2>7. index'[o] = Document(o)' \/ Coming(o)' \/ Working(o)'
    BY <2>3, <2>4, <2>5, <2>6 DEF Coming
  <2>8. Sent("delete", o)' \/ Executing("delete", o)' => Sent("delete", o)
    <3>1. Sent("delete", o)' => Sent("delete", o)
      BY <1>2, <1>5 DEF Sent, Does
    <3>2. Executing("delete", o)' => Does(t, "delete", o)
      BY <1>4, <1>6, <2>1 DEF Executing, RunningOn, Does
    <3>3. Does(t, "delete", o) => Sent("delete", o)
      BY DEF Sent
    <3> QED  BY <3>1, <3>2, <3>3
  <2>9. Sent("delete", o)' \/ Executing("delete", o)' => row'[o] = Deleted
    BY <1>3, <2>3, <2>8 DEF Fresh
  <2>10. reindexing' = Idle
    BY <1>2, <2>1
  <2>11. \A v \in RunningOn(o)' : worker'[v].phase # "read"
    BY <1>4, <1>6, <2>2
  <2> QED  BY <2>2, <2>7, <2>9, <2>10, <2>11 DEF Fresh
<1> QED  BY <1>7, <1>8

\* What a worker that runs something about an object tells.
LEMMA OnlyWorker ==
  ASSUME DlvInv, NEW o \in Objects, Fresh(o), NEW w \in Workers,
         worker[w] # Idle, worker[w].task.of = o
  PROVE  /\ RunningOn(o) = {w} /\ reindexing = Idle
         /\ worker[w] \in Running /\ RunSound(worker[w])
         /\ index[o] = Document(o) \/ Coming(o) \/ Does(worker[w].task, Needed(o), o)
         /\ worker[w].task.task = "delete" => row[o] = Deleted
         /\ worker[w].phase = "read" => worker[w].document = row[o] \/ Coming(o)
<1>1. w \in RunningOn(o)
  BY DEF RunningOn
<1>2. RunningOn(o) = {w} /\ reindexing = Idle
  BY <1>1 DEF Fresh
<1>3. worker[w] \in Running /\ RunSound(worker[w])
  BY WorkerTyped DEF DlvInv, MailInv, RunsSound
<1>4. Working(o) => Does(worker[w].task, Needed(o), o)
  BY <1>2 DEF Working, RunningOn, Does
<1>5. index[o] = Document(o) \/ Coming(o) \/ Does(worker[w].task, Needed(o), o)
  BY <1>2, <1>4 DEF Fresh, Reading
<1>6. worker[w].task.task = "delete" => Executing("delete", o)
  BY DEF Executing, Does
<1> QED  BY <1>1, <1>2, <1>3, <1>5, <1>6 DEF Fresh

\* The only worker on an object is done with it.
LEMMA LastLeaves ==
  ASSUME DlvInv, NEW o \in Objects, Fresh(o), NEW w \in Workers,
         worker[w] # Idle, worker[w].task.of = o, Leave(w),
         row'[o] = row[o], UNCHANGED reindexing,
         index'[o] = Document(o)' \/ Coming(o)',
         Sent("delete", o)' => Sent("delete", o) \/ worker[w].task.task = "delete"
  PROVE  Fresh(o)'
<1>1. RunningOn(o) = {w} /\ reindexing = Idle /\ (worker[w].task.task = "delete" => row[o] = Deleted)
  BY OnlyWorker
<1>2. \A v \in Workers : worker'[v] = IF v = w THEN Idle ELSE worker[v]
  BY DEF Leave, DlvInv, MailInv, TypeOK
<1>3. RunningOn(o)' = {}
  BY <1>1, <1>2 DEF RunningOn
<1>4. ~Executing("delete", o)'
  BY <1>3 DEF Executing, RunningOn, Does
<1>5. Sent("delete", o)' => row'[o] = Deleted
  BY <1>1 DEF Fresh
<1> QED  BY <1>1, <1>3, <1>4, <1>5 DEF Fresh

\* A worker that mails, or that works on another object.
LEMMA WorkElsewhere ==
  ASSUME DlvInv, NEW o \in Objects, Fresh(o), NEW w \in Workers, NEW run,
         worker' = [worker EXCEPT ![w] = run],
         worker[w] # Idle, worker[w].task.of # o, run # Idle => run.task.of # o,
         UNCHANGED <<row, sender, reindexing>>, index'[o] = index[o],
         BagToSet(queue) \subseteq BagToSet(queue'),
         \A t \in BagToSet(queue') \ BagToSet(queue) : t.of # o
  PROVE  Fresh(o)'
<1>1. RunningOn(o)' = RunningOn(o) /\ \A v \in RunningOn(o) : worker'[v] = worker[v]
  BY RunningElsewhere DEF DlvInv, MailInv
<1>2. \A kind : Sent(kind, o)' <=> Sent(kind, o)
  BY SentStays DEF Does
<1> QED  BY <1>1, <1>2, FreshStays

\* What a retry enqueues is the task again.
LEMMA RetryIndex ==
  ASSUME TypeOK, NEW w \in Workers, worker[w] # Idle, Retry(w), NEW o \in Objects,
         MayRetry(worker[w].task) \/ worker[w].task.of # o
  PROVE  /\ BagToSet(queue) \subseteq BagToSet(queue')
         /\ \A u \in BagToSet(queue') \ BagToSet(queue) :
              u.task = worker[w].task.task /\ u.of = worker[w].task.of
         /\ MayRetry(worker[w].task) =>
              \E u \in BagToSet(queue') : u.task = worker[w].task.task /\ u.of = worker[w].task.of
<1>1. PICK t \in Task : t = worker[w].task
  BY WorkerTyped
<1>2. CASE MayRetry(t)
  <2>1. PICK u \in Task : u = [t EXCEPT !.retries = @ + 1] /\ u.task = t.task /\ u.of = t.of
    BY <1>2, RetryTyped
  <2>2. Enqueue(u)
    BY <1>1, <1>2, <2>1 DEF Retry
  <2>3. BagToSet(queue') = BagToSet(queue) \cup {u}
    BY <2>2, Enqueued DEF TypeOK
  <2> QED  BY <1>1, <2>1, <2>3
<1>3. CASE ~MayRetry(t)
  BY <1>1, <1>3 DEF Retry
<1> QED  BY <1>2, <1>3

LEMMA MailerIndex ==
  ASSUME DlvInv, NEW w \in Workers,
         Skip(w) \/ OpenLog(w) \/ Mail(w) \/ LogSent(w) \/ LogFailed(w),
         NEW o \in Objects, Fresh(o)
  PROVE  Fresh(o)'
<1>1. worker[w] # Idle /\ worker[w].task.task = "dispatch"
  BY DEF Skip, OpenLog, Mail, LogSent, LogFailed, Is
<1>2. /\ TypeOK /\ worker[w] \in Running /\ worker[w].task \in Task
      /\ worker[w].task.of \in Notifications
  BY <1>1, WorkerTyped DEF DlvInv, MailInv
<1>3. worker[w].task.of # o
  BY <1>1, <1>2, KindsOfTasks
<1>4. UNCHANGED <<row, index, sender, reindexing>>
  BY DEF Skip, OpenLog, Mail, LogSent, LogFailed, data
<1>5. \E run : worker' = [worker EXCEPT ![w] = run] /\ (run # Idle => run.task = worker[w].task)
  <2>1. \/ Leave(w)
        \/ \E p \in Phases : Enter(w, p)
    BY DEF Skip, OpenLog, Mail, LogSent, LogFailed, Phases
  <2>2. ASSUME NEW p \in Phases PROVE [worker[w] EXCEPT !.phase = p].task = worker[w].task
    BY <1>2 DEF Running
  <2> QED  BY <2>1, <2>2 DEF Leave, Enter
<1>6. /\ BagToSet(queue) \subseteq BagToSet(queue')
      /\ \A t \in BagToSet(queue') \ BagToSet(queue) : t.of # o
  <2>1. CASE UNCHANGED queue
    BY <2>1
  <2>2. CASE Retry(w)
    BY <1>1, <1>2, <1>3, <2>2, RetryIndex
  <2>3. UNCHANGED queue \/ Retry(w)
    BY DEF Skip, OpenLog, Mail, LogSent, LogFailed
  <2> QED  BY <2>1, <2>2, <2>3
<1>7. PICK run : worker' = [worker EXCEPT ![w] = run] /\ (run # Idle => run.task.of # o)
  BY <1>3, <1>5
<1> QED  BY <1>1, <1>3, <1>4, <1>6, <1>7, WorkElsewhere

LEMMA WorkerDiesIndex ==
  ASSUME DlvInv, NEW w \in Workers, WorkerDies(w), NEW o \in Objects \ excused'
  PROVE  Fresh(o)'
<1>1. /\ worker[w] # Idle /\ worker[w].task.of # o /\ o \notin excused
      /\ worker' = [worker EXCEPT ![w] = Idle]
      /\ UNCHANGED <<row, index, sender, queue, reindexing>>
  BY DEF WorkerDies, Leave, data
<1>2. Fresh(o)
  BY <1>1 DEF DlvInv, IndexSound
<1> QED  BY <1>1, <1>2, WorkElsewhere

LEMMA ReadRowIndex ==
  ASSUME DlvInv, NEW w \in Workers, ReadRow(w), NEW o \in Objects, Fresh(o)
  PROVE  Fresh(o)'
<1>1. PICK run \in Running :
        /\ run = worker[w] /\ run # Idle /\ run.task.task = "index" /\ run.phase = "started"
        /\ run.task.of \in Objects
  BY WorkerTyped DEF ReadRow, Is, DlvInv, MailInv
<1>2. /\ UNCHANGED <<data, sender, queue, reindexing, mails, excused, writes, copies>>
      /\ worker' = [worker EXCEPT ![w] =
           IF row[run.task.of] \in Values
             THEN [run EXCEPT !.phase = "read", !.document = row[run.task.of]] ELSE Idle]
  BY <1>1 DEF ReadRow, DlvInv, MailInv, TypeOK
<1>3. PICK next : /\ worker' = [worker EXCEPT ![w] = next]
                  /\ row[run.task.of] \notin Values => next = Idle
                  /\ row[run.task.of] \in Values =>
                       /\ next \in Running /\ next.phase = "read" /\ next.task = run.task
                       /\ next.document = row[run.task.of]
  <2>1. CASE row[run.task.of] \in Values
    <3>1. PICK d \in Values : d = row[run.task.of]
      BY <2>1
    <3> DEFINE first == [run EXCEPT !.phase = "read"]
    <3>2. first \in Running /\ first.phase = "read" /\ first.task = run.task
      BY DEF Running, Phases
    <3> HIDE DEF first
    <3>3. LET next == [first EXCEPT !.document = d] IN
          /\ next \in Running /\ next.phase = "read"
          /\ next.document = d /\ next.task = run.task
      BY <3>2 DEF Running
    <3>4. worker' = [worker EXCEPT ![w] = [first EXCEPT !.document = d]]
      BY <1>2, <2>1, <3>1 DEF first
    <3> QED  BY <2>1, <3>1, <3>3, <3>4
  <2>2. CASE row[run.task.of] \notin Values
    BY <1>2, <2>2
  <2> QED  BY <2>1, <2>2
<1>4. CASE run.task.of # o
  <2>1. next # Idle => next.task.of # o
    BY <1>3, <1>4
  <2> QED  BY <1>1, <1>2, <1>3, <1>4, <2>1, WorkElsewhere DEF data
<1>5. CASE run.task.of = o /\ row[o] \notin Values
  <2>1. index[o] = Document(o) \/ Coming(o)
    BY <1>1, <1>5, OnlyWorker DEF Needed, Does
  <2>2. /\ Leave(w) /\ row'[o] = row[o]
        /\ index'[o] = index[o] /\ Document(o)' = Document(o) /\ (Coming(o)' <=> Coming(o))
        /\ Sent("delete", o)' <=> Sent("delete", o)
    BY <1>2, <1>3, <1>5 DEF Leave, Document, Coming, Needed, Sent, data, Values
  <2> QED  BY <1>1, <1>2, <1>5, <2>1, <2>2, LastLeaves
<1>6. CASE run.task.of = o /\ row[o] \in Values
  <2>1. RunningOn(o) = {w} /\ reindexing = Idle
    BY <1>1, <1>6, OnlyWorker
  <2>2. /\ \A v \in Workers : worker'[v] = IF v = w THEN next ELSE worker[v]
        /\ next # Idle /\ next.task = run.task /\ next.phase = "read" /\ next.document = row[o]
    BY <1>3, <1>6, Sentinels DEF DlvInv, MailInv, TypeOK
  <2>3. RunningOn(o)' = {w}
    BY <1>1, <1>6, <2>1, <2>2 DEF RunningOn
  <2>4. /\ row' = row /\ UNCHANGED reindexing /\ Needed(o)' = "index"
        /\ Sent("delete", o)' <=> Sent("delete", o)
    BY <1>2, <1>6 DEF Needed, Sent, data, Values
  <2>5. Working(o)'
    BY <1>1, <1>6, <2>2, <2>4 DEF Working, Does
  <2>6. Executing("delete", o)' => Executing("delete", o)
    BY <1>1, <2>2 DEF Executing, Does
  <2>7. \A v \in RunningOn(o)' : worker'[v].phase = "read" => worker'[v].document = row'[o]
    BY <2>2, <2>3, <2>4
  <2> QED  BY <2>1, <2>3, <2>4, <2>5, <2>6, <2>7 DEF Fresh
<1> QED  BY <1>4, <1>5, <1>6

LEMMA ChangeIndexIndex ==
  ASSUME DlvInv, NEW w \in Workers, ChangeIndex(w), NEW o \in Objects, Fresh(o)
  PROVE  Fresh(o)'
<1>1. PICK run \in Running :
        /\ run = worker[w] /\ run # Idle /\ run.task.of \in Objects
        /\ \/ run.task.task = "index" /\ run.phase = "read"
           \/ run.task.task = "delete" /\ run.phase = "started"
  BY WorkerTyped DEF ChangeIndex, Is, DlvInv, MailInv
<1>2. /\ index' = [index EXCEPT ![run.task.of] = run.document]
      /\ Leave(w)
      /\ UNCHANGED <<row, notification, log, sender, queue, reindexing, mails, excused,
                     writes, copies>>
  BY <1>1 DEF ChangeIndex
<1>3. CASE run.task.of # o
  <2>1. index'[o] = index[o]
    BY <1>2, <1>3 DEF DlvInv, MailInv, TypeOK
  <2>2. worker' = [worker EXCEPT ![w] = Idle]
    BY <1>2 DEF Leave
  <2> QED  BY <1>1, <1>2, <1>3, <2>1, <2>2, WorkElsewhere
<1>4. CASE run.task.of = o
  <2>1. /\ RunSound(run)
        /\ run.task.task = "delete" => row[o] = Deleted
        /\ run.phase = "read" => run.document = row[o] \/ Coming(o)
    BY <1>1, <1>4, OnlyWorker
  <2>2. index'[o] = run.document
    BY <1>2, <1>4 DEF DlvInv, MailInv, TypeOK
  <2>3. /\ Document(o)' = Document(o) /\ (Coming(o)' <=> Coming(o))
        /\ Sent("delete", o)' <=> Sent("delete", o)
    BY <1>2 DEF Document, Coming, Needed, Sent, Values
  <2>4. run.document = Document(o) \/ Coming(o)
    BY <1>1, <2>1, Sentinels DEF RunSound, Document
  <2> QED  BY <1>1, <1>2, <1>4, <2>2, <2>3, <2>4, LastLeaves
<1> QED  BY <1>3, <1>4

LEMMA ClientFailsIndex ==
  ASSUME DlvInv, NEW w \in Workers, ClientFails(w), NEW o \in Objects \ excused'
  PROVE  Fresh(o)'
<1>1. /\ worker[w] # Idle /\ worker[w].task.task # "dispatch" /\ Retry(w) /\ Leave(w)
      /\ UNCHANGED <<data, sender, reindexing, mails, writes, copies>>
  BY DEF ClientFails, Is
<1>2. Fresh(o) /\ TypeOK
  BY <1>1 DEF Retry, DlvInv, IndexSound, MailInv
<1>3. MayRetry(worker[w].task) \/ worker[w].task.of # o
  BY <1>1 DEF Retry
<1>4. /\ BagToSet(queue) \subseteq BagToSet(queue')
      /\ \A u \in BagToSet(queue') \ BagToSet(queue) :
           u.task = worker[w].task.task /\ u.of = worker[w].task.of
      /\ MayRetry(worker[w].task) =>
           \E u \in BagToSet(queue') : u.task = worker[w].task.task /\ u.of = worker[w].task.of
  BY <1>1, <1>2, <1>3, RetryIndex
<1>5. CASE worker[w].task.of # o
  <2>1. worker' = [worker EXCEPT ![w] = Idle]
    BY <1>1 DEF Leave
  <2> QED  BY <1>1, <1>2, <1>4, <1>5, <2>1, WorkElsewhere DEF data
<1>6. CASE worker[w].task.of = o
  <2>1. index[o] = Document(o) \/ Coming(o) \/ Does(worker[w].task, Needed(o), o)
    BY <1>1, <1>2, <1>6, OnlyWorker
  <2>2. /\ row'[o] = row[o] /\ index'[o] = index[o] /\ UNCHANGED <<reindexing, sender>>
        /\ Document(o)' = Document(o) /\ Needed(o)' = Needed(o)
    BY <1>1 DEF Document, Needed, data, Values
  <2>3. Coming(o) => Coming(o)'
    BY <1>4, <2>2 DEF Coming, Sent, Does
  <2>4. Does(worker[w].task, Needed(o), o) => Coming(o)'
    BY <1>3, <1>4, <1>6, <2>2 DEF Coming, Sent, Does
  <2>5. Sent("delete", o)' => Sent("delete", o) \/ worker[w].task.task = "delete"
    BY <1>4, <2>2 DEF Sent, Does
  <2> QED  BY <1>1, <1>2, <1>6, <2>1, <2>2, <2>3, <2>4, <2>5, LastLeaves
<1> QED  BY <1>5, <1>6

LEMMA DeliverAgainIndex ==
  ASSUME DlvInv, NEW t \in BagToSet(queue), DeliverAgain(t), NEW o \in Objects, Fresh(o)
  PROVE  Fresh(o)'
<1>1. /\ Enqueue(t) /\ UNCHANGED <<data, sender, worker, reindexing>>
      /\ t \in Task /\ TypeOK
  BY DEF DeliverAgain, DlvInv, MailInv, TypeOK
<1>2. BagToSet(queue') = BagToSet(queue)
  BY <1>1, Enqueued DEF TypeOK
<1>3. (\A kind : Sent(kind, o)' <=> Sent(kind, o)) /\ RunningOn(o)' = RunningOn(o)
  BY <1>1, <1>2 DEF Sent, Does, RunningOn
<1> QED  BY <1>1, <1>3, FreshStays DEF data

------------------------------------------------------------------------------
(* Operators and Beat. *)

LEMMA StartReindexIndex ==
  ASSUME DlvInv, NEW b \in BOOLEAN, StartReindex(b), NEW o \in Objects \ excused'
  PROVE  Fresh(o)'
<1>1. /\ reindexing' = [y \in Objects |-> Document(y)]
      /\ index' = IF b THEN [y \in Objects |-> Absent] ELSE index
      /\ excused' = excused \cup {y \in Objects : RunningOn(y) # {}}
      /\ UNCHANGED <<row, sender, queue, worker>>
  BY DEF StartReindex
<1>2. Fresh(o) /\ RunningOn(o) = {}
  BY <1>1 DEF DlvInv, IndexSound
<1>3. /\ Document(o)' = Document(o) /\ Needed(o)' = Needed(o) /\ RunningOn(o)' = {}
      /\ \A kind : Sent(kind, o)' <=> Sent(kind, o)
      /\ ~Executing("delete", o)'
  BY <1>1, <1>2 DEF Document, Needed, RunningOn, Sent, Executing, Does, Values
<1>4. reindexing'[o] = Document(o)' /\ reindexing' # Idle
  <2>1. \A y \in Objects : Document(y) \in Values \cup {Absent}
    BY DEF Document
  <2>2. reindexing' \in [Objects -> Values \cup {Absent}]
    BY <1>1, <2>1
  <2> QED  BY <1>1, <1>3, <2>2, Sentinels
<1>5. index'[o] = Document(o)' \/ Coming(o)' \/ Reading(o)'
  <2>1. CASE row[o] \in Values
    BY <1>1, <1>4, <2>1 DEF Reading, Document, Values
  <2>2. CASE row[o] \notin Values /\ b
    BY <1>1, <1>3, <2>2 DEF Document
  <2>3. CASE row[o] \notin Values /\ ~b
    BY <1>1, <1>2, <1>3, <2>3 DEF Fresh, Coming, Working, Reading, RunningOn, Does
  <2> QED  BY <2>1, <2>2, <2>3
<1> QED  BY <1>1, <1>2, <1>3, <1>4, <1>5 DEF Fresh

LEMMA FinishReindexIndex ==
  ASSUME DlvInv, FinishReindex, NEW o \in Objects, Fresh(o)
  PROVE  Fresh(o)'
<1>1. /\ reindexing # Idle /\ reindexing' = Idle
      /\ index'[o] = IF reindexing[o] = Absent THEN index[o] ELSE reindexing[o]
      /\ UNCHANGED <<row, sender, queue, worker>>
  BY DEF FinishReindex
<1>2. /\ Document(o)' = Document(o) /\ Needed(o)' = Needed(o) /\ RunningOn(o)' = RunningOn(o)
      /\ \A kind : Sent(kind, o)' <=> Sent(kind, o)
      /\ Executing("delete", o)' <=> Executing("delete", o)
      /\ Working(o)' <=> Working(o)
  BY <1>1 DEF Document, Needed, RunningOn, Sent, Executing, Working, Does, Values
<1>3. RunningOn(o) = {}
  BY <1>1 DEF Fresh
<1>4. index'[o] = Document(o)' \/ Coming(o)' \/ Working(o)'
  <2>1. CASE Coming(o)
    BY <1>2, <2>1 DEF Coming
  <2>2. CASE reindexing[o] = Document(o) /\ Document(o) # Absent
    BY <1>1, <1>2, <2>2
  <2>3. CASE reindexing[o] = Absent /\ Document(o) = Absent
    <3>1. row[o] \notin Values
      BY <2>3, Sentinels DEF Document
    <3> QED  BY <1>1, <1>2, <2>3, <3>1 DEF Fresh, Reading, Coming
  <2> QED  BY <1>1, <2>1, <2>2, <2>3 DEF Fresh
<1> QED  BY <1>1, <1>2, <1>3, <1>4 DEF Fresh

------------------------------------------------------------------------------
LEMMA IndexNext ==
  ASSUME DlvInv, [Next]_vars
  PROVE  IndexSound'
<1>1. SUFFICES ASSUME NEW o \in Objects \ excused' PROVE Fresh(o)'
  BY DEF IndexSound
<1>2. ASSUME o \notin excused PROVE Fresh(o)
  BY <1>2 DEF DlvInv, IndexSound
<1>3. CASE \E x \in Objects, to \in Values \cup {Deleted}, n \in Notifications, s \in BOOLEAN :
             Write(x, to, n, s)
  <2>1. /\ sender = Idle /\ (sender' # Idle => sender'.phase = "open")
        /\ UNCHANGED <<data, queue, worker, reindexing, excused>>
    BY <1>3 DEF Write
  <2> QED  BY <1>2, <2>1, WriteIndex
<1>4. CASE Rollback
  BY <1>2, <1>4, WriteIndex DEF Rollback
<1>5. CASE Commit
  BY <1>5, CommitIndex
<1>6. CASE RunHook
  BY <1>2, <1>6, RunHookIndex DEF RunHook
<1>7. CASE HookFails \/ SenderDies
  BY <1>7, HookFailsIndex
<1>8. CASE Deliver
  BY <1>8, ReceiveIndex DEF Deliver
<1>9. ASSUME NEW w \in Workers, Work(w) \/ WorkerDies(w) PROVE Fresh(o)'
  <2>1. CASE ReadRow(w) \/ ChangeIndex(w)
    <3>1. UNCHANGED excused
      BY <2>1 DEF ReadRow, ChangeIndex
    <3> QED  BY <1>2, <2>1, <3>1, ReadRowIndex, ChangeIndexIndex
  <2>2. CASE ClientFails(w) \/ WorkerDies(w)
    BY <2>2, ClientFailsIndex, WorkerDiesIndex
  <2>3. CASE Skip(w) \/ OpenLog(w) \/ Mail(w) \/ LogSent(w) \/ LogFailed(w)
    <3>1. excused \subseteq excused'
      BY <2>3 DEF Skip, OpenLog, Mail, LogSent, LogFailed, Retry
    <3> QED  BY <1>2, <2>3, <3>1, MailerIndex
  <2> QED  BY <1>9, <2>1, <2>2, <2>3 DEF Work
<1>10. CASE \E t \in BagToSet(queue) : DeliverAgain(t)
  BY <1>2, <1>10, DeliverAgainIndex DEF DeliverAgain
<1>11. CASE \E b \in BOOLEAN : StartReindex(b)
  BY <1>11, StartReindexIndex
<1>12. CASE FinishReindex
  BY <1>2, <1>12, FinishReindexIndex DEF FinishReindex
<1>13. CASE ReindexFails
  BY <1>13 DEF ReindexFails
<1>14. CASE (\E n \in Notifications : Purge(n) \/ PurgeLog(n)) \/ UNCHANGED vars
  <2>1. UNCHANGED <<row, index, sender, queue, worker, reindexing, excused>>
    BY <1>14 DEF Purge, PurgeLog, vars, data
  <2>2. (\A kind : Sent(kind, o)' <=> Sent(kind, o)) /\ RunningOn(o)' = RunningOn(o)
    BY <2>1 DEF Sent, Does, RunningOn
  <2> QED  BY <1>2, <2>1, <2>2, FreshStays
<1>15. ASSUME NEW x \in Objects, ChangeJoined(x) PROVE Fresh(o)'
  <2>1. x # o /\ o \notin excused
    BY <1>15 DEF ChangeJoined
  <2>2. row'[o] = row[o] /\ UNCHANGED <<index, sender, queue, worker, reindexing>>
    BY <1>15, <2>1 DEF ChangeJoined, DlvInv, MailInv, TypeOK
  <2>3. (\A kind : Sent(kind, o)' <=> Sent(kind, o)) /\ RunningOn(o)' = RunningOn(o)
    BY <2>2 DEF Sent, Does, RunningOn
  <2> QED  BY <1>2, <2>1, <2>2, <2>3, FreshStays
<1> QED
  BY <1>3, <1>4, <1>5, <1>6, <1>7, <1>8, <1>9, <1>10, <1>11, <1>12, <1>13, <1>14, <1>15
  DEF Next, Send

LEMMA IndexInit == Init => IndexSound
<1> SUFFICES ASSUME Init, NEW o \in Objects PROVE Fresh(o)
  BY DEF IndexSound
<1>1. BagToSet(queue) = {}
  BY DEF Init, BagToSet, SetToBag, EmptyBag
<1>2. row[o] = 0 /\ index[o] = 0 /\ 0 \in Values
  BY Sentinels DEF Init, Values
<1>3. index[o] = Document(o)
  BY <1>2 DEF Document
<1>4. RunningOn(o) = {} /\ ~Executing("delete", o)
  BY DEF Init, RunningOn, Executing
<1>5. ~Sent("delete", o) /\ reindexing = Idle
  BY <1>1 DEF Init, Sent
<1> QED  BY <1>3, <1>4, <1>5 DEF Fresh

\* The index lags behind the database only while a callback, a task at the
\* broker, a worker or a reindexing is on its way to bring it up; only an object
\* of which a task was lost or met another one, or of which a joined row
\* changed, may stay behind.
THEOREM IndexCatchesUp == Spec => []StaleIsPending
<1>1. DlvInv => StaleIsPending
  <2>1. ASSUME NEW o \in Objects, Fresh(o)
        PROVE  index[o] = Document(o) \/ Pending(o) \/ reindexing # Idle
    <3>1. Coming(o) => QueuedOn(o) \/ HookedOn(o)
      BY DEF Coming, Sent, QueuedOn, HookedOn, Does
    <3>2. Working(o) => RunningOn(o) # {}
      BY DEF Working, RunningOn, Does
    <3> QED  BY <2>1, <3>1, <3>2 DEF Fresh, Reading, Pending
  <2> QED  BY <2>1 DEF DlvInv, IndexSound, StaleIsPending
<1>2. Init => DlvInv
  BY MailsInit, IndexInit DEF DlvInv
<1>3. DlvInv /\ [Next]_vars => DlvInv'
  BY MailsNext, IndexNext DEF DlvInv
<1> QED  BY <1>1, <1>2, <1>3, PTL DEF Spec
==============================================================================
