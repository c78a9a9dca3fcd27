------------------------------- MODULE Delivery -------------------------------
(***************************************************************************)
(* What happens after a commit: the search index and the mails.            *)
(*                                                                         *)
(* Saving or deleting an object registers a task that indexes it or takes  *)
(* it out of Meilisearch; a submission also creates an in-app notification *)
(* and registers the task that mails it.  The tasks are enqueued by        *)
(* on_commit callbacks, one after the other; the broker may refuse one,    *)
(* the process may die before all are out.  Celery workers acknowledge a   *)
(* task when they receive it, so a worker that dies loses it; the broker   *)
(* may deliver a task again; a task retries itself when the search engine  *)
(* or the mail fails.  Operators reindex, Beat purges old notifications.   *)
(* A document also joins rows whose own changes enqueue nothing for it.    *)
(***************************************************************************)
EXTENDS Naturals, Sequences, Bags

CONSTANTS Objects,        \* projects, researchers, products, calls, advances
          Notifications,  \* ids of notifications, of one recipient
          Workers,
          Unborn, Deleted, Absent, NoLog, Idle,
          MAX_RETRIES,
          MaxWrites,      \* bound: changes of what is indexed
          MaxCopies       \* bound: mail tasks delivered again by the broker

Values == 0..MaxWrites  \* what is indexed of an object: every change makes it new

Task ==
  [task : {"index", "delete"}, of : Objects, retries : 0..MAX_RETRIES]
    \cup [task : {"dispatch"}, of : Notifications, retries : 0..MAX_RETRIES]
NotificationRow == [object : Objects]
LogRow == [status : {"pending", "sent", "failed"}, attempts : 1..MAX_RETRIES + 1]
Transaction ==
  [phase : {"open", "committed"}, object : Objects, to : Values \cup {Deleted},
   created : SUBSET Notifications, hooks : Seq(Task)]
Phases == {"started", "read", "open", "delivered", "failed"}
Running == [task : Task, phase : Phases, document : Values \cup {Absent}]

ASSUME DeliveryAssumption ==
  /\ {Deleted, Absent} \cap Values = {}
  /\ {Unborn, Deleted} \cap NotificationRow = {} /\ Unborn # Deleted
  /\ NoLog \notin LogRow
  /\ Idle \notin Transaction \cup Running \cup [Objects -> Values \cup {Absent}]
  /\ Objects \cap Notifications = {}
  /\ MAX_RETRIES \in Nat /\ MaxWrites \in Nat /\ MaxCopies \in Nat

VARIABLES
  row,           \* the committed row of each object, with what its document joins
  index,         \* its document in the search index
  notification,  \* notifications_notification
  log,           \* notifications_notificationlog of each notification
  sender,        \* the request that writes, or Idle
  queue,         \* the tasks at the broker
  worker,        \* what each worker runs
  reindexing,    \* documents reindex_search read, or Idle
  mails,         \* history variable: mails that left, by notification
  excused,       \* history variable: tasks lost, opted out of, run side by side or missing
  writes, copies

data == <<row, index, notification, log>>
vars == <<data, sender, queue, worker, reindexing, mails, excused, writes, copies>>

\* The objects are there and indexed; one that has still to be created is as
\* one that was deleted before.
Init ==
  /\ row = [o \in Objects |-> 0]
  /\ index = [o \in Objects |-> 0]
  /\ notification = [n \in Notifications |-> Unborn]
  /\ log = [n \in Notifications |-> NoLog]
  /\ sender = Idle
  /\ queue = EmptyBag
  /\ worker = [w \in Workers |-> Idle]
  /\ reindexing = Idle
  /\ mails = [n \in Notifications |-> 0]
  /\ excused = {}
  /\ writes = 0 /\ copies = 0

------------------------------------------------------------------------------
First(kind, x) == [task |-> kind, of |-> x, retries |-> 0]
Enqueue(t) == queue' = queue (+) SetToBag({t})

RunningOn(x) == {w \in Workers : worker[w] # Idle /\ worker[w].task.of = x}
HookedOn(x) == sender # Idle /\ \E i \in DOMAIN sender.hooks : sender.hooks[i].of = x
QueuedOn(x) == \E t \in BagToSet(queue) : t.of = x
Pending(x) == RunningOn(x) # {} \/ HookedOn(x) \/ QueuedOn(x)

Document(o) == IF row[o] \in Values THEN row[o] ELSE Absent
Alive(n) == notification[n] \notin {Unborn, Deleted}
Notified(o) == \E n \in Notifications : Alive(n) /\ notification[n].object = o

------------------------------------------------------------------------------
(* The sender: a request in a transaction, then its on_commit callbacks. *)

\* get_or_create: a notification exists once for its event.
EnqueuesAnyway(o) == TRUE  \* wrong: mails the notification found, too
Enqueues(o) == ~Notified(o)

SameTask(o, to) == First("index", o)  \* wrong: post_delete registers index_document
IndexTask(o, to) == First(IF to = Deleted THEN "delete" ELSE "index", o)

\* post_save or post_delete registers the index task, the receiver the mail,
\* unless the recipient opted out.
Hooks(o, to, n, submits) ==
  LET indexing == <<IndexTask(o, to)>> IN
  {indexing} \cup IF submits /\ Enqueues(o) THEN {indexing \o <<First("dispatch", n)>>} ELSE {}

\* Writes o; a submission notifies with n, created now or found.
Write(o, to, n, submits) ==
  /\ to \in {writes + 1, Deleted}
  /\ sender = Idle /\ writes < MaxWrites
  /\ to = Deleted => row[o] \in Values /\ ~submits
  /\ submits => IF Notified(o) THEN Alive(n) /\ notification[n].object = o
                               ELSE notification[n] = Unborn
  /\ \E h \in Hooks(o, to, n, submits) :
       sender' = [phase |-> "open", object |-> o, to |-> to,
                  created |-> IF submits /\ ~Notified(o) THEN {n} ELSE {}, hooks |-> h]
  /\ writes' = writes + 1
  /\ UNCHANGED <<data, queue, worker, reindexing, mails, excused, copies>>

Rollback ==
  /\ sender # Idle /\ sender.phase = "open"
  /\ sender' = Idle
  /\ UNCHANGED <<data, queue, worker, reindexing, mails, excused, writes, copies>>

\* A write that finds nothing under way for its object starts with a clean slate.
\* A stale save() inserts a deleted row again: the task that takes it out of the
\* index may still be on its way.
Commit ==
  LET o == sender.object
      free == ~QueuedOn(o) /\ RunningOn(o) = {} /\ reindexing = Idle
  IN
  /\ sender # Idle /\ sender.phase = "open"
  /\ row' = [row EXCEPT ![o] = sender.to]
  /\ notification' = [n \in Notifications |->
       IF n \in sender.created THEN [object |-> o] ELSE notification[n]]
  /\ sender' = [sender EXCEPT !.phase = "committed"]
  /\ excused' = IF free THEN excused \ {o}
                ELSE IF row[o] = Deleted THEN excused \cup {o} ELSE excused
  /\ UNCHANGED <<index, log, queue, worker, reindexing, mails, writes, copies>>

Later(hooks) == IF hooks = <<>> THEN Idle ELSE [sender EXCEPT !.hooks = hooks]

RunHook ==
  /\ sender # Idle /\ sender.phase = "committed"
  /\ Enqueue(Head(sender.hooks))
  /\ sender' = Later(Tail(sender.hooks))
  /\ UNCHANGED <<data, worker, reindexing, mails, excused, writes, copies>>

Lost(hooks) == {hooks[i].of : i \in DOMAIN hooks}

\* The broker refuses the task: search logs that and goes on, the mail raises
\* and the remaining callbacks are skipped.
HookFails ==
  LET t == Head(sender.hooks) IN
  /\ sender # Idle /\ sender.phase = "committed"
  /\ IF t.task = "dispatch"
       THEN sender' = Idle /\ excused' = excused \cup Lost(sender.hooks)
       ELSE sender' = Later(Tail(sender.hooks)) /\ excused' = excused \cup {t.of}
  /\ UNCHANGED <<data, queue, worker, reindexing, mails, writes, copies>>

SenderDies ==
  /\ sender # Idle /\ sender.phase = "committed"
  /\ sender' = Idle /\ excused' = excused \cup Lost(sender.hooks)
  /\ UNCHANGED <<data, queue, worker, reindexing, mails, writes, copies>>

\* Of a row that the document of o joins, in a request of its own: the primary
\* affiliation of a researcher, the title of an advance's project.  It has no
\* receiver that would index o.
ChangeJoined(o) ==
  /\ row[o] \in Values /\ writes < MaxWrites
  /\ row' = [row EXCEPT ![o] = writes + 1]
  /\ writes' = writes + 1
  /\ excused' = excused \cup {o}
  /\ UNCHANGED <<index, notification, log, sender, queue, worker, reindexing, mails, copies>>

------------------------------------------------------------------------------
(* Workers. *)

Receive(w, t) ==
  /\ worker[w] = Idle /\ BagIn(t, queue)
  /\ queue' = queue (-) SetToBag({t})
  /\ worker' = [worker EXCEPT ![w] = [task |-> t, phase |-> "started", document |-> Absent]]
  /\ excused' = IF t.of \in Objects /\ (RunningOn(t.of) # {} \/ reindexing # Idle)
                  THEN excused \cup {t.of} ELSE excused
  /\ UNCHANGED <<data, sender, reindexing, mails, writes, copies>>

Is(w, kind, phase) ==
  worker[w] # Idle /\ worker[w].task.task = kind /\ worker[w].phase = phase

Enter(w, phase) == worker' = [worker EXCEPT ![w].phase = phase]
Leave(w) == worker' = [worker EXCEPT ![w] = Idle]

\* A fresh read of the row; a missing one is skipped.
ReadRow(w) ==
  LET o == worker[w].task.of IN
  /\ Is(w, "index", "started")
  /\ worker' = [worker EXCEPT ![w] =
       IF row[o] \in Values THEN [@ EXCEPT !.phase = "read", !.document = row[o]] ELSE Idle]
  /\ UNCHANGED <<data, sender, queue, reindexing, mails, excused, writes, copies>>

ChangeIndex(w) ==
  LET o == worker[w].task.of IN
  /\ Is(w, "index", "read") \/ Is(w, "delete", "started")
  /\ index' = [index EXCEPT ![o] = worker[w].document]
  /\ Leave(w)
  /\ UNCHANGED <<row, notification, log, sender, queue, reindexing, mails, excused,
                 writes, copies>>

\* self.retry(): the task goes back to the broker, until it was tried enough.
RetriesPast(t) == t.retries <= MAX_RETRIES  \* wrong: one attempt too many
GivesUp(t) == FALSE  \* wrong: logs the failure and swallows it
MayRetry(t) == t.retries < MAX_RETRIES

Retry(w) ==
  LET t == worker[w].task IN
  IF MayRetry(t)
    THEN Enqueue([t EXCEPT !.retries = @ + 1]) /\ UNCHANGED excused
    ELSE UNCHANGED queue /\ excused' = excused \cup ({t.of} \cap Objects)

ClientFails(w) ==
  /\ Is(w, "index", "read") \/ Is(w, "delete", "started")
  /\ Retry(w) /\ Leave(w)
  /\ UNCHANGED <<data, sender, reindexing, mails, writes, copies>>

\* Skipped if the notification is gone or its recipient opted out by now.
Skip(w) ==
  LET n == worker[w].task.of IN
  /\ Is(w, "dispatch", "started")
  /\ Leave(w)
  /\ excused' = excused \cup {n}
  /\ UNCHANGED <<data, sender, queue, reindexing, mails, writes, copies>>

\* update_or_create: one log row per notification, rewritten by every attempt.
OpenLog(w) ==
  LET t == worker[w].task IN
  /\ Is(w, "dispatch", "started")
  /\ Alive(t.of)
  /\ log' = [log EXCEPT ![t.of] = [status |-> "pending", attempts |-> t.retries + 1]]
  /\ Enter(w, "open")
  /\ UNCHANGED <<row, index, notification, sender, queue, reindexing, mails, excused,
                 writes, copies>>

Mail(w) ==
  /\ Is(w, "dispatch", "open")
  /\ \/ Enter(w, "delivered") /\ mails' = [mails EXCEPT ![worker[w].task.of] = @ + 1]
     \/ Enter(w, "failed") /\ UNCHANGED mails
  /\ UNCHANGED <<data, sender, queue, reindexing, excused, writes, copies>>

\* save(update_fields) of a log that was purged raises: no log, no retry.
LogSent(w) ==
  LET n == worker[w].task.of IN
  /\ Is(w, "dispatch", "delivered")
  /\ log' = IF log[n] = NoLog THEN log ELSE [log EXCEPT ![n].status = "sent"]
  /\ Leave(w)
  /\ UNCHANGED <<row, index, notification, sender, queue, reindexing, mails, excused,
                 writes, copies>>

LogFailed(w) ==
  LET t == worker[w].task IN
  /\ Is(w, "dispatch", "failed")
  /\ IF log[t.of] = NoLog
       THEN UNCHANGED <<log, queue, excused>>
       ELSE /\ log' = [log EXCEPT ![t.of] = [status |-> "failed", attempts |-> t.retries + 1]]
            /\ Retry(w)
  /\ Leave(w)
  /\ UNCHANGED <<row, index, notification, sender, reindexing, mails, writes, copies>>

\* The worker dies, or its retry cannot be enqueued: the task is lost.
WorkerDies(w) ==
  /\ worker[w] # Idle
  /\ Leave(w)
  /\ excused' = excused \cup {worker[w].task.of}
  /\ UNCHANGED <<data, sender, queue, reindexing, mails, writes, copies>>

\* External: a task that waits for its retry is held unacknowledged; the broker
\* gives it to another worker when it waits too long.
DeliverAgain(t) ==
  /\ copies < MaxCopies /\ BagIn(t, queue) /\ t.task = "dispatch" /\ t.retries > 0
  /\ Enqueue(t)
  /\ copies' = copies + 1
  /\ UNCHANGED <<data, sender, worker, reindexing, mails, excused, writes>>

------------------------------------------------------------------------------
(* Operators and Beat. *)

\* reindex_search reads every row, then adds what it read; with --recreate it
\* starts from an empty index.
StartReindex(recreate) ==
  /\ reindexing = Idle
  /\ reindexing' = [o \in Objects |-> Document(o)]
  /\ index' = IF recreate THEN [o \in Objects |-> Absent] ELSE index
  /\ excused' = excused \cup {o \in Objects : RunningOn(o) # {}}
  /\ UNCHANGED <<row, notification, log, sender, queue, worker, mails, writes, copies>>

FinishReindex ==
  /\ reindexing # Idle
  /\ index' = [o \in Objects |-> IF reindexing[o] = Absent THEN index[o] ELSE reindexing[o]]
  /\ reindexing' = Idle
  /\ UNCHANGED <<row, notification, log, sender, queue, worker, mails, excused,
                 writes, copies>>

ReindexFails ==
  /\ reindexing # Idle
  /\ reindexing' = Idle /\ excused' = excused \cup Objects
  /\ UNCHANGED <<data, sender, queue, worker, mails, writes, copies>>

\* cleanup_old_notifications: the windows of retention are not modelled.
Purge(n) ==
  /\ Alive(n)
  /\ notification' = [notification EXCEPT ![n] = Deleted]
  /\ log' = [log EXCEPT ![n] = NoLog]
  /\ UNCHANGED <<row, index, sender, queue, worker, reindexing, mails, excused,
                 writes, copies>>

PurgeLog(n) ==
  /\ log[n] # NoLog
  /\ log' = [log EXCEPT ![n] = NoLog]
  /\ UNCHANGED <<row, index, notification, sender, queue, worker, reindexing, mails,
                 excused, writes, copies>>

------------------------------------------------------------------------------
Work(w) ==
  \/ ReadRow(w) \/ ChangeIndex(w) \/ ClientFails(w)
  \/ Skip(w) \/ OpenLog(w) \/ Mail(w) \/ LogSent(w) \/ LogFailed(w)

Send == Rollback \/ Commit \/ RunHook
Deliver == \E w \in Workers, t \in BagToSet(queue) : Receive(w, t)

Next ==
  \/ \E o \in Objects, to \in Values \cup {Deleted}, n \in Notifications, s \in BOOLEAN :
       Write(o, to, n, s)
  \/ \E o \in Objects : ChangeJoined(o)
  \/ Send \/ HookFails \/ SenderDies
  \/ Deliver
  \/ \E w \in Workers : Work(w) \/ WorkerDies(w)
  \/ \E t \in BagToSet(queue) : DeliverAgain(t)
  \/ \E b \in BOOLEAN : StartReindex(b)
  \/ FinishReindex \/ ReindexFails
  \/ \E n \in Notifications : Purge(n) \/ PurgeLog(n)

\* Workers consume what is queued and go on with what they began, a request
\* ends its transaction and runs its callbacks.  Nothing need be written,
\* purged or lost, nor a reindexing be run.
Fairness ==
  /\ WF_vars(Send) /\ WF_vars(Deliver)
  /\ \A w \in Workers : WF_vars(Work(w))

Spec == Init /\ [][Next]_vars /\ Fairness

------------------------------------------------------------------------------
TypeOK ==
  /\ row \in [Objects -> Values \cup {Deleted}]
  /\ index \in [Objects -> Values \cup {Absent}]
  /\ notification \in [Notifications -> NotificationRow \cup {Unborn, Deleted}]
  /\ log \in [Notifications -> LogRow \cup {NoLog}]
  /\ sender \in Transaction \cup {Idle}
  /\ IsABag(queue) /\ BagToSet(queue) \subseteq Task
  /\ worker \in [Workers -> Running \cup {Idle}]
  /\ reindexing \in [Objects -> Values \cup {Absent}] \cup {Idle}
  /\ mails \in [Notifications -> 0..MaxCopies + 1]
  /\ excused \subseteq Objects \cup Notifications
  /\ writes \in 0..MaxWrites /\ copies \in 0..MaxCopies

\* The index is behind the database only while something is on its way to
\* bring it up: tasks read the row afresh and are enqueued after the commit.
\* Excused, until they are written with nothing under way, are objects of which
\* a task was lost, ran beside another one, or was to remove a row that has come
\* back; and those of which a joined row changed, for which there is no task.
StaleIsPending ==
  \A o \in Objects \ excused :
    index[o] = Document(o) \/ Pending(o) \/ reindexing # Idle

\* A notification is mailed once, however often its event happens and its task
\* is tried, and a copy more for each time the broker delivers the task again;
\* the log does not claim a mail that did not leave.
MailedOnce ==
  \A n \in Notifications :
    /\ mails[n] <= 1 + copies
    /\ log[n] # NoLog => (log[n].status = "sent" => mails[n] > 0)

Settled(n) ==
  /\ ~Pending(n)
  /\ \/ n \in excused \/ log[n] = NoLog
     \/ log[n].status = "sent"
     \/ log[n].status = "failed" /\ log[n].attempts = MAX_RETRIES + 1

\* Once a mail is on its way it is, after all retries, sent, given up for good
\* as the log then says, or among the excused: lost, skipped or purged.
MailSettles == \A n \in Notifications : Pending(n) ~> Settled(n)
==============================================================================
