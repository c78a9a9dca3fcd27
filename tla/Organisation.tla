---------------------------- MODULE Organisation ----------------------------
(***************************************************************************)
(* The rows that make up an institution: sedes, facultades, centers,       *)
(* groups and lines, its researchers and their affiliations, each with the *)
(* rows it refers to (parents).  A request runs with settings that Tenancy *)
(* gave it.                                                                *)
(*                                                                         *)
(* A write is prepared from rows the request can see and saved later,      *)
(* without a lock: rows it refers to, or its own, may be gone by then.     *)
(* That parents are of the same institution is compared for affiliations   *)
(* only; for the others it is a consequence of what a request can see.     *)
(* The Django admin compares it in every form, but for the row of the form *)
(* alone: it moves a row to another institution and leaves its children.   *)
(***************************************************************************)
EXTENDS RowSecurity, Naturals, FiniteSets

CONSTANTS Sedes, Facultades, Centers, Groups, Lines,  \* bound: the ids there are
          Researchers, Affiliations, Requests,
          MaxMoved,  \* bound: rows a superuser moves
          Missing, Waiting

Units == Sedes \cup Facultades \cup Centers \cup Groups \cup Lines
Entities == Units \cup Researchers \cup Affiliations
Optional == Facultades \cup Centers
Owned == Groups \cup Lines \cup Affiliations

Row == [institution : Institutions, parents : SUBSET (Units \cup Researchers)]
Write == [entity : Entities, row : Row, settings : Context]

ASSUME OrganisationAssumption ==
  /\ Missing \notin Row
  /\ Waiting \notin Write
  /\ Researchers \cap Units = {}
  /\ Affiliations \cap (Units \cup Researchers) = {}

VARIABLES
  row,      \* of every entity; an affiliation has the institution of its researcher
  request,  \* the write it has prepared
  bypassed, \* history variable: rows with optional parents a superuser wrote
  moved     \* history variable: rows a superuser moved to another institution

organisation == <<row, request, bypassed, moved>>

OrganisationInit ==
  /\ row = [e \in Entities |-> Missing]
  /\ request = [r \in Requests |-> Waiting]
  /\ bypassed = {} /\ moved = {}

\* Of the session of a member, and of a superuser.
Settings ==
  {Scope(i, Anonymous, FALSE) : i \in Institutions} \cup {Scope(Nowhere, Anonymous, TRUE)}

------------------------------------------------------------------------------
(* The foreign keys of each table. *)

Exactly(S) == {{x} : x \in S}
AtMostOne(S) == {{}} \cup Exactly(S)
Both(As, Bs) == {A \cup B : A \in As, B \in Bs}

\* The row whose deletion deletes this one, too (CASCADE).
Owners(e) ==
  CASE e \in Groups -> Exactly(Centers)
    [] e \in Lines -> Exactly(Groups)
    [] e \in Affiliations -> Exactly(Researchers)
    [] OTHER -> {{}}

\* Those it may do without (SET_NULL).
Options(e) ==
  CASE e \in Facultades -> AtMostOne(Sedes)
    [] e \in Centers -> Both(AtMostOne(Sedes), AtMostOne(Facultades))
    [] e \in Affiliations ->
         Both(AtMostOne(Centers), Both(AtMostOne(Groups), AtMostOne(Lines)))
    [] OTHER -> {{}}

OwnedBy(S) ==
  {e \in Owned :
     row[e] # Missing /\ \E o \in Owners(e) : o \subseteq S \cap row[e].parents}

AnyRow(e, g) == row[e] # Missing  \* wrong: not filtered by a policy
Visible(e, g) == row[e] # Missing /\ InReach(g, row[e].institution)

\* ResearcherAffiliation.clean().
Clean(e, new) ==
  e \in Affiliations =>
    /\ new.parents \cap Units # {}
    /\ \A p \in new.parents : row[p] # Missing => row[p].institution = new.institution

------------------------------------------------------------------------------
Prepare(r, e, new, g) ==
  /\ Clean(e, new)
  /\ request' = [request EXCEPT ![r] = [entity |-> e, row |-> new, settings |-> g]]
  /\ UNCHANGED <<row, bypassed, moved>>

\* No row has the id, and no request knows it.
Fresh(e) ==
  /\ row[e] = Missing /\ e \notin bypassed \cup moved
  /\ \A r \in Requests :
       request[r] # Waiting => e \notin {request[r].entity} \cup request[r].row.parents

\* wrong: a session without an institution is not refused
HomesOfSession(e, g) == IF e \in Researchers THEN {g.institution} ELSE Institutions
\* A URL names any institution, a researcher belongs to that of the session,
\* which a superuser chose.
Homes(e, g) == IF e \in Researchers /\ ~g.bypass THEN {g.institution} ELSE Institutions

\* The institution is that of the owner, of the URL, or of the session.
Create(r, e, g) ==
  /\ request[r] = Waiting /\ Fresh(e)
  /\ \E owner \in Owners(e), options \in Options(e), i \in Homes(e, g) :
       /\ \A p \in owner \cup options : Visible(p, g)
       /\ \A o \in owner : row[o].institution = i
       /\ Prepare(r, e, [institution |-> i, parents |-> owner \cup options], g)

\* PATCH: the row as it was loaded, except for the options given anew.
Patch(r, e, g) ==
  /\ request[r] = Waiting /\ Visible(e, g)
  /\ \E options \in Options(e) :
       /\ \A p \in options \ row[e].parents : Visible(p, g)
       /\ Prepare(r, e, [row[e] EXCEPT !.parents = (@ \ UNION Options(e)) \cup options], g)

\* An affiliation, stored or yet to be saved, has the institution of its
\* researcher: it follows when e goes to institution i.
Follow(f, r, e, i) ==
  IF f \in Affiliations /\ e \in r.parents \cap Researchers
  THEN [r EXCEPT !.institution = i] ELSE r

Store(e, new) ==
  row' = [f \in Entities |->
    IF f = e THEN new
    ELSE IF row[f] = Missing THEN Missing ELSE Follow(f, row[f], e, new.institution)]

Following(q, e, i) ==
  IF q = Waiting THEN Waiting ELSE [q EXCEPT !.row = Follow(q.entity, @, e, i)]

\* save(): an UPDATE, or an INSERT if there is no row (any more).
Save(r) ==
  LET q == request[r] IN
  /\ q # Waiting
  /\ InReach(q.settings, q.row.institution)
  /\ row[q.entity] # Missing => Visible(q.entity, q.settings)
  /\ \A p \in q.row.parents : row[p] # Missing
  /\ Store(q.entity, q.row)
  /\ bypassed' = IF q.settings.bypass THEN bypassed \cup ({q.entity} \cap Optional) ELSE bypassed
  /\ request' = [s \in Requests |->
       IF s = r THEN Waiting ELSE Following(request[s], q.entity, q.row.institution)]
  /\ UNCHANGED moved

\* The change form of the Django admin, as a superuser: every reference and the
\* institution may be chosen anew, and clean() compares those of this row.  A
\* form is one step.
AdminSave(e, g) ==
  /\ g.bypass /\ row[e] # Missing
  /\ \E owner \in Owners(e), options \in Options(e), i \in Institutions :
       LET new == [institution |-> i, parents |-> owner \cup options] IN
       /\ Clean(e, new)
       /\ \A p \in new.parents : row[p] # Missing /\ row[p].institution = i
       /\ Store(e, new)
       /\ request' = [s \in Requests |-> Following(request[s], e, i)]
       /\ moved' = IF e \in Affiliations \/ i = row[e].institution
                   THEN moved ELSE moved \cup {e}
  /\ Cardinality(moved') <= MaxMoved
  /\ UNCHANGED bypassed

\* The database refuses the row, or the process dies.
Fail(r) ==
  /\ request[r] # Waiting
  /\ request' = [request EXCEPT ![r] = Waiting]
  /\ UNCHANGED <<row, bypassed, moved>>

\* Lines are owned by groups, groups by centers.
Doomed(e) ==
  LET once == {e} \cup OwnedBy({e}) IN once \cup OwnedBy(once)

\* DELETE, in a transaction: Django deletes what is owned and resets other
\* references as far as it sees them; the database refuses if one is left.
Delete(e, g) ==
  /\ Visible(e, g)
  /\ e \in Researchers => g.bypass
  /\ LET doomed == {f \in Doomed(e) : Visible(f, g)} IN
     /\ \A f \in Entities \ doomed :
          row[f] # Missing =>
            (row[f].parents \cap doomed # {} => Visible(f, g))
     /\ row' = [f \in Entities |->
          IF f \in doomed \/ row[f] = Missing THEN Missing
          ELSE [row[f] EXCEPT !.parents = @ \ doomed]]
  /\ UNCHANGED <<request, bypassed, moved>>

OrganisationNext ==
  \/ \E r \in Requests : Save(r) \/ Fail(r)
  \/ \E g \in Settings, e \in Entities :
       \/ Delete(e, g) \/ AdminSave(e, g)
       \/ \E r \in Requests : Create(r, e, g) \/ Patch(r, e, g)

OrganisationSpec == OrganisationInit /\ [][OrganisationNext]_organisation

------------------------------------------------------------------------------
OrganisationTypeOK ==
  /\ row \in [Entities -> Row \cup {Missing}]
  /\ request \in [Requests -> Write \cup {Waiting}]
  /\ bypassed \subseteq Optional
  /\ moved \subseteq Entities \ Affiliations

\* That a superuser moved one of the two, or the researcher of an affiliation.
Moved(e, p, parents) ==
  \/ {e, p} \cap moved # {}
  \/ e \in Affiliations /\ parents \cap Researchers \cap moved # {}

\* What a row refers to exists and is of the same institution, though only the
\* affiliations compare it, and whatever was deleted in the meantime; but for
\* the optional sede and facultad of a row that a superuser wrote, and between
\* a row that a superuser moved to another institution and those around it.
ParentsAreLocal ==
  \A e \in Entities : row[e] # Missing =>
    \A p \in row[e].parents :
      /\ row[p] # Missing
      /\ \/ row[p].institution = row[e].institution
         \/ e \in bypassed
         \/ Moved(e, p, row[e].parents)
==============================================================================
