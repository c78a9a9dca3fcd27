------------------------------- MODULE Tenancy -------------------------------
(***************************************************************************)
(* Which institution a statement runs for.                                 *)
(*                                                                         *)
(* Row level security compares the institution of a row with settings of   *)
(* the connection (GUCs).  A worker reuses its connection from one request *)
(* or task to the next, so every one writes the settings before its first  *)
(* query and resets them after its last; either may fail half way.  Login  *)
(* and the switch of institution change them in the middle of a request,   *)
(* an OIDC login nests a second context in it, and a reconnect applies the *)
(* context of the worker again.                                            *)
(***************************************************************************)
EXTENDS RowSecurity, Naturals, FiniteSets

CONSTANTS Superusers, Sessions,
          Members,    \* bound on who is made a member, or logs in by OIDC
          WebWorkers, TaskWorkers,
          Forms,      \* bound on what the admin writes of a membership
          MaxFaults,  \* bound on how often connections fail
          NoContext, NoRow, Idle

Workers == WebWorkers \cup TaskWorkers
Membership == [primary : BOOLEAN, active : BOOLEAN]
Session == [user : Anyone, institution : Anywhere]
NoSession == [user |-> Anonymous, institution |-> Nowhere]

Working == {"served", "rescoped", "answering", "nested", "checked", "linked", "task"}
Job ==
  [phase : Working \cup {"ending"},
   session : Sessions \cup {NoSession},
   user : Anyone, institution : Anywhere,  \* of the session, as the request holds it
   claim : Anywhere,                       \* of the token, or of the task
   outer : Context \cup {NoContext},       \* to restore when the nested one ends
   save : {"never", "if_kept", "always"}]  \* the session, with the response

ASSUME TenancyAssumption ==
  /\ Superusers \subseteq Users /\ Members \subseteq Users
  /\ Forms \subseteq Membership
  /\ NoContext \notin Context /\ NoRow \notin Membership
  /\ Idle \notin Job /\ NoSession \notin Sessions
  /\ MaxFaults \in Nat

VARIABLES
  membership,  \* accounts_institutionmembership
  session,     \* the session store
  context,     \* the ContextVar of each worker
  guc,         \* the settings of its connection
  job,         \* the request or task it runs
  faults,      \* how many failed so far
  joined,      \* history variable: institutions each user was a member of
  raced        \* history variable: users added to two institutions at a time

tenancy == <<membership, session, context, guc, job, faults, joined, raced>>

TenancyInit ==
  /\ membership = [u \in Members |-> [i \in Institutions |-> NoRow]]
  /\ session = [s \in Sessions |-> NoSession]
  /\ context = [w \in Workers |-> NoContext]
  /\ guc = [w \in Workers |-> Deny]
  /\ job = [w \in Workers |-> Idle]
  /\ faults = 0
  /\ joined = [u \in Members |-> {}]
  /\ raced = {}

------------------------------------------------------------------------------
HasRow(u, i) == u \in Members /\ membership[u][i] # NoRow

VisiblePrimaries(g, u) ==
  {i \in Institutions :
     /\ HasRow(u, i) /\ membership[u][i].primary
     /\ MembershipVisible(g, u, i)}

------------------------------------------------------------------------------
(* Contexts.  apply_to() writes the three settings one after the other. *)

FirstOnly(old, new) == [old EXCEPT !.institution = new.institution]
PartlyApplied(old, new) ==
  {old, FirstOnly(old, new), [FirstOnly(old, new) EXCEPT !.user = new.user], new}

\* wrong: a request without institution or user writes neither
AppliedIfGiven(old, new) ==
  Scope(IF new.institution = Nowhere THEN old.institution ELSE new.institution,
        IF new.user = Anonymous THEN old.user ELSE new.user, new.bypass)
Applied(old, new) == new

Faults(n) == faults + n <= MaxFaults /\ faults' = faults + n

Activate(w, c) ==
  /\ Faults(0)
  /\ context' = [context EXCEPT ![w] = c]
  /\ guc' = [guc EXCEPT ![w] = Applied(guc[w], c)]

ActivateFails(w, c) ==
  /\ Faults(1)
  /\ context' = [context EXCEPT ![w] = c]
  /\ \E g \in PartlyApplied(guc[w], c) : guc' = [guc EXCEPT ![w] = g]

\* clear() of settings g, part of failure number n if n > 0; its own error is
\* swallowed.
ClearFrom(w, g, n) ==
  /\ context' = [context EXCEPT ![w] = NoContext]
  /\ \/ Faults(n) /\ guc' = [guc EXCEPT ![w] = Applied(g, Deny)]
     \/ /\ Faults(1)
        /\ \E h \in PartlyApplied(g, Deny) : guc' = [guc EXCEPT ![w] = h]

Clear(w) == ClearFrom(w, guc[w], 0)

\* The end of tenant_context(): an error is swallowed here, too.
Leave(w) ==
  LET c == job[w].outer IN
  IF c = NoContext THEN Clear(w) ELSE Activate(w, c) \/ ActivateFails(w, c)

\* Nothing is read of a request that ends without saving its session.
Ended(j) ==
  [j EXCEPT !.phase = "ending", !.save = "never",
            !.user = Anonymous, !.institution = Nowhere, !.claim = Nowhere,
            !.outer = NoContext]

Enter(w, phase) == job' = [job EXCEPT ![w].phase = phase]
Stop(w) == job' = [job EXCEPT ![w] = Idle]

\* The connection was lost and is opened again; the context, if there is one,
\* is applied to it, and an error of that is raised where the query was made.
Reconnect(w) ==
  /\ \/ Faults(1)
        /\ guc' = [guc EXCEPT ![w] = IF context[w] = NoContext THEN Deny ELSE context[w]]
        /\ UNCHANGED job
     \/ /\ Faults(1) /\ context[w] # NoContext
        /\ \E g \in PartlyApplied(Deny, context[w]) : guc' = [guc EXCEPT ![w] = g]
        /\ job' = IF job[w] = Idle THEN job ELSE [job EXCEPT ![w] = Ended(job[w])]
  /\ UNCHANGED <<membership, session, context, joined, raced>>

------------------------------------------------------------------------------
(* The middleware around a request. *)

\* wrong: the arguments in the wrong order
RequestSwapped(s) ==
  [phase |-> "served", session |-> s, user |-> session[s].institution,
   institution |-> session[s].user, claim |-> Nowhere,
   outer |-> NoContext, save |-> "never"]
Request(s) ==
  [phase |-> "served", session |-> s, user |-> session[s].user,
   institution |-> session[s].institution, claim |-> Nowhere,
   outer |-> NoContext, save |-> "never"]

Arrive(w, s) ==
  LET c == Scope(session[s].institution, session[s].user, session[s].user \in Superusers) IN
  /\ w \in WebWorkers /\ job[w] = Idle
  /\ \/ Activate(w, c) /\ job' = [job EXCEPT ![w] = Request(s)]
     \/ /\ \E g \in PartlyApplied(guc[w], c) : ClearFrom(w, g, 1)
        /\ UNCHANGED job
  /\ UNCHANGED <<membership, session, joined, raced>>

\* The session is saved after the context was cleared, but not with an error,
\* nor when its key is gone.
Saved(j) ==
  \/ j.save = "always"
  \/ j.save = "if_kept" /\ session[j.session].user = j.user

Respond(w) ==
  LET j == job[w] IN
  /\ w \in WebWorkers /\ j # Idle
  /\ j.phase \in {"served", "answering", "ending"}
  /\ Clear(w) /\ Stop(w)
  /\ session' = IF Saved(j)
       THEN [session EXCEPT ![j.session] = [user |-> j.user, institution |-> j.institution]]
       ELSE session
  /\ UNCHANGED <<membership, joined, raced>>

------------------------------------------------------------------------------
(* Login, switch and logout. *)

In(w, phase) == job[w] # Idle /\ job[w].phase = phase

\* auth.login() drops the old session; what it held is kept for the same user.
LoggedIn(j, u) ==
  [j EXCEPT !.user = u,
            !.institution = IF j.user = u THEN j.institution ELSE Nowhere,
            !.save = "always"]
LocalLogin(w, u) ==
  LET j == LoggedIn(job[w], u)
      c == Scope(Nowhere, u, FALSE)
  IN
  /\ In(w, "served")
  /\ \/ Activate(w, c) /\ job' = [job EXCEPT ![w] = [j EXCEPT !.phase = "rescoped"]]
     \/ ActivateFails(w, c) /\ job' = [job EXCEPT ![w] = Ended(j)]
  /\ session' = [session EXCEPT ![j.session] = NoSession]
  /\ UNCHANGED <<membership, joined, raced>>

\* The rest of a login or a switch: the session adopts i, the context follows.
Adopt(w, i, save) ==
  LET j == [job[w] EXCEPT !.institution = i, !.save = save]
      c == Scope(i, j.user, FALSE)
  IN
  /\ \/ /\ Activate(w, c) /\ Auditable(guc'[w], i)
        /\ job' = [job EXCEPT ![w] = [j EXCEPT !.phase = "answering"]]
     \/ ActivateFails(w, c) /\ job' = [job EXCEPT ![w] = Ended(j)]
  /\ UNCHANGED <<membership, session, joined, raced>>

Active(u, i) == HasRow(u, i) /\ membership[u][i].active

AdoptPrimary(w) ==
  LET j == job[w]
      own == {i \in VisiblePrimaries(guc[w], j.user) : Active(j.user, i)}
  IN
  /\ In(w, "rescoped")
  /\ \/ \E i \in own : Adopt(w, i, "always")
     \/ own = {} /\ Adopt(w, j.institution, "always")

SwitchInstitution(w, i) ==
  LET u == job[w].user IN
  /\ In(w, "served") /\ u # Anonymous
  /\ Active(u, i) /\ MembershipVisible(guc[w], u, i)
  /\ Adopt(w, i, "if_kept")

Logout(w) ==
  LET j == job[w] IN
  /\ In(w, "served") /\ j.user # Anonymous
  /\ Auditable(guc[w], j.institution)
  /\ session' = IF session[j.session].user = j.user
                  THEN [session EXCEPT ![j.session] = NoSession] ELSE session
  /\ job' = [job EXCEPT ![w] = Ended(j)]
  /\ UNCHANGED <<membership, context, guc, faults, joined, raced>>

------------------------------------------------------------------------------
(* OIDC login: the membership the token claims, in a context of its own. *)

OidcLogin(w, u, i) ==
  LET c == Scope(i, u, FALSE)
      j == [LoggedIn(job[w], u) EXCEPT !.claim = i, !.outer = context[w]]
  IN
  /\ In(w, "served")
  /\ \/ Activate(w, c) /\ job' = [job EXCEPT ![w] = [j EXCEPT !.phase = "nested"]]
     \/ ActivateFails(w, c) /\ job' = [job EXCEPT ![w] = Ended(j)]
  /\ UNCHANGED <<membership, session, joined, raced>>

\* clean(): no other primary membership of the user, as far as it is visible.
CleanFor(g, u, i) == VisiblePrimaries(g, u) \subseteq {i}

\* get_or_create(): a membership found is saved with a new role.
FindMembership(w) ==
  LET j == job[w]
      found == HasRow(j.user, j.claim)
  IN
  /\ In(w, "nested")
  /\ IF found
       THEN /\ membership[j.user][j.claim].primary => CleanFor(guc[w], j.user, j.claim)
            /\ Leave(w) /\ Enter(w, "linked")
       ELSE /\ CleanFor(guc[w], j.user, j.claim)
            /\ Enter(w, "checked") /\ UNCHANGED <<context, guc, faults>>
  /\ UNCHANGED <<membership, session, joined, raced>>

Racing(w, u) == \E v \in Workers \ {w} : In(v, "checked") /\ job[v].user = u

InsertMembership(w) ==
  LET u == job[w].user
      i == job[w].claim
  IN
  /\ In(w, "checked")
  /\ InReach(guc[w], i)
  /\ ~HasRow(u, i)
  /\ membership' = [membership EXCEPT ![u][i] = [primary |-> TRUE, active |-> TRUE]]
  /\ joined' = [joined EXCEPT ![u] = @ \cup {i}]
  /\ raced' = IF Racing(w, u) THEN raced \cup {u} ELSE raced
  /\ Leave(w) /\ Enter(w, "linked")
  /\ UNCHANGED session

\* UNIQUE(user, institution): get_or_create() reads it again.
InsertRefused(w) ==
  /\ In(w, "checked")
  /\ HasRow(job[w].user, job[w].claim)
  /\ Enter(w, "nested")
  /\ UNCHANGED <<membership, session, context, guc, faults, joined, raced>>

\* Any error in the nested context, a ValidationError of clean() among them.
SyncFails(w) ==
  /\ In(w, "nested") \/ In(w, "checked")
  /\ Leave(w)
  /\ job' = [job EXCEPT ![w] = Ended(job[w])]
  /\ UNCHANGED <<membership, session, joined, raced>>

\* auth.login(), its audit event, and the response; an error saves nothing.
CompleteOidc(w) ==
  LET j == job[w] IN
  /\ In(w, "linked")
  /\ session' = [session EXCEPT ![j.session] = NoSession]
  /\ job' = [job EXCEPT ![w] =
       IF Auditable(guc[w], j.institution)
       THEN [j EXCEPT !.phase = "ending", !.claim = Nowhere, !.outer = NoContext]
       ELSE Ended(j)]
  /\ UNCHANGED <<membership, context, guc, faults, joined, raced>>

\* The Django admin, as a superuser: any row that clean() accepts.  A form is
\* one step; what it was based on is not kept.
Administer(w, u, i, m) ==
  /\ In(w, "served") /\ job[w].user \in Superusers /\ InReach(guc[w], i)
  /\ m # NoRow => (m.primary => CleanFor(guc[w], u, i))
  /\ membership' = [membership EXCEPT ![u][i] = m]
  /\ joined' = IF m = NoRow THEN joined ELSE [joined EXCEPT ![u] = @ \cup {i}]
  /\ raced' = IF Racing(w, u) THEN raced \cup {u} ELSE raced
  /\ Enter(w, "answering")
  /\ UNCHANGED <<session, context, guc, faults>>

------------------------------------------------------------------------------
(* Celery tasks: tenant_context() of one institution, or the clean-up of all. *)

StartTask(w, i) ==
  LET c == Scope(i, Anonymous, i = Nowhere)
      j == [phase |-> "task", session |-> NoSession, user |-> Anonymous,
            institution |-> Nowhere, claim |-> i, outer |-> context[w], save |-> "never"]
  IN
  /\ w \in TaskWorkers /\ job[w] = Idle
  /\ \/ Activate(w, c) /\ job' = [job EXCEPT ![w] = j]
     \/ ActivateFails(w, c) /\ UNCHANGED job
  /\ UNCHANGED <<membership, session, joined, raced>>

EndTask(w) ==
  /\ w \in TaskWorkers /\ job[w] # Idle
  /\ Leave(w) /\ Stop(w)
  /\ UNCHANGED <<membership, session, joined, raced>>

------------------------------------------------------------------------------
TenancyNext ==
  \/ \E w \in Workers : Reconnect(w) \/ EndTask(w)
  \/ \E w \in WebWorkers :
       \/ \E s \in Sessions : Arrive(w, s)
       \/ Respond(w) \/ Logout(w) \/ AdoptPrimary(w)
       \/ FindMembership(w) \/ InsertMembership(w) \/ InsertRefused(w)
       \/ SyncFails(w) \/ CompleteOidc(w)
       \/ \E u \in Users : LocalLogin(w, u)
       \/ \E i \in Institutions : SwitchInstitution(w, i)
       \/ \E u \in Members, i \in Institutions : OidcLogin(w, u, i)
       \/ \E u \in Members, i \in Institutions, m \in Forms \cup {NoRow} :
            Administer(w, u, i, m)
  \/ \E w \in TaskWorkers, i \in Anywhere : StartTask(w, i)

TenancySpec == TenancyInit /\ [][TenancyNext]_tenancy

------------------------------------------------------------------------------
TenancyTypeOK ==
  /\ membership \in [Members -> [Institutions -> Membership \cup {NoRow}]]
  /\ session \in [Sessions -> Session]
  /\ context \in [Workers -> Context \cup {NoContext}]
  /\ guc \in [Workers -> Context]
  /\ job \in [Workers -> Job \cup {Idle}]
  /\ faults \in 0 .. MaxFaults
  /\ joined \in [Members -> SUBSET Institutions]
  /\ raced \subseteq Members

OfUser(u) ==
  IF u \in Superusers THEN Institutions
  ELSE {i \in Institutions : u \in Members /\ i \in joined[u]}

\* What a job may read and write.  Between the nested context of an OIDC login
\* and its end, the request runs again for the user it arrived with.
Entitled(j) ==
  CASE j.phase = "task" -> IF j.claim = Nowhere THEN Institutions ELSE {j.claim}
    [] j.phase \in {"nested", "checked"} -> {j.claim}
    [] j.phase = "linked" -> OfUser(j.user) \cup OfUser(j.outer.user)
    [] OTHER -> OfUser(j.user)

\* FR-006: whatever failed before on the same connection, a request that is
\* served, or a task that runs, reaches rows of no institution but those its
\* user was made a member of, or the one it was started for.
TenantIsolation ==
  \A w \in Workers : job[w] # Idle =>
    (job[w].phase \in Working => Reach(guc[w]) \subseteq Entitled(job[w]))

\* A user has one primary membership at most, though each is checked from
\* within one institution, unless two were being added at a time.
OnePrimary ==
  \A u \in Members \ raced :
    Cardinality({i \in Institutions :
      HasRow(u, i) /\ membership[u][i].primary}) <= 1
==============================================================================
