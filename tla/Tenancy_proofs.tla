---------------------------- MODULE Tenancy_proofs ----------------------------
(***************************************************************************)
(* Proofs about Tenancy and Organisation, for any number of institutions,  *)
(* users, workers, rows and requests.                                      *)
(***************************************************************************)
EXTENDS Tenancy, Organisation, FiniteSetTheorems, TLAPS

(***************************************************************************)
(* Organisation.  An entity is known to be of an institution by its row    *)
(* and by every write that is prepared for it.                             *)
(***************************************************************************)

KnownBy(q, e, i) == q # Waiting /\ q.entity = e /\ q.row.institution = i
Known(e) ==
  {i \in Institutions :
     \/ row[e] # Missing /\ row[e].institution = i
     \/ \E r \in Requests : KnownBy(request[r], e, i)}

\* What is referred to and was not moved: a deleted row may come back by a late
\* save, but never in another institution.
Rooted(e) == e \in Entities \ (Affiliations \cup moved)
OneInstitution == \A e \in Entities : Rooted(e) => \A i, j \in Known(e) : i = j

\* A write refers to entities of its own institution only, unless a superuser
\* moved one of them, or it is of a row with optional parents and a superuser
\* wrote or writes it, or the policy will refuse it.
Exempt(q) ==
  /\ q.entity \in Optional
  /\ \/ q.entity \in bypassed
     \/ q.settings.bypass
     \/ ~InReach(q.settings, q.row.institution)
LocalTo(q, p) == Moved(q.entity, p, q.row.parents) \/ Known(p) \subseteq {q.row.institution}
LocalWrite(q) == Exempt(q) \/ \A p \in q.row.parents : LocalTo(q, p)
WritesAreLocal == \A r \in Requests : request[r] # Waiting => LocalWrite(request[r])

OInv == OrganisationTypeOK /\ OneInstitution /\ WritesAreLocal /\ ParentsAreLocal

------------------------------------------------------------------------------
LEMMA KeysAreEntities ==
  ASSUME NEW e \in Entities
  PROVE  /\ \A S \in Owners(e) : S \subseteq Units \cup Researchers
         /\ \A S \in Options(e) : S \subseteq Units
         /\ e \notin Optional \cup Affiliations => Options(e) = {{}}
<1>1. \A S \in Owners(e) : S \subseteq Units \cup Researchers
  BY DEF Owners, Exactly, Units
<1>2. \A S \in Options(e) : S \subseteq Units
  BY DEF Options, Both, AtMostOne, Exactly, Units
<1>3. e \notin Optional \cup Affiliations => Options(e) = {{}}
  BY DEF Options, Optional
<1> QED  BY <1>1, <1>2, <1>3

\* Parents are entities, and no affiliation is one.
LEMMA ParentsTyped ==
  /\ \A new \in Row : new.parents \subseteq Entities \ Affiliations
  /\ Units \cup Researchers \subseteq Entities \ Affiliations
  /\ Optional \cap Affiliations = {}
BY OrganisationAssumption DEF Row, Entities, Optional, Units

\* The only institution of a row that was not moved is the one it has.
LEMMA KnownRow ==
  ASSUME OInv, NEW p \in Entities, row[p] # Missing
  PROVE  /\ row[p].institution \in Known(p)
         /\ Rooted(p) => Known(p) = {row[p].institution}
<1>1. row[p].institution \in Known(p)
  BY DEF OInv, OrganisationTypeOK, Known, Row
<1> QED  BY <1>1 DEF OInv, OneInstitution

\* A write that is typed, of a known institution, and local may be prepared.
LEMMA PrepareStep ==
  ASSUME OInv, NEW r \in Requests, NEW e \in Entities, NEW new \in Row, NEW g \in Context,
         Prepare(r, e, new, g), request[r] = Waiting,
         \/ row[e] # Missing /\ new.institution = row[e].institution
         \/ Fresh(e),
         LocalWrite([entity |-> e, row |-> new, settings |-> g])
  PROVE  OInv'
<1> DEFINE q == [entity |-> e, row |-> new, settings |-> g]
<1>1. /\ q \in Write /\ q # Waiting
      /\ \A s \in Requests : request'[s] = IF s = r THEN q ELSE request[s]
      /\ UNCHANGED <<row, bypassed, moved>>
  BY OrganisationAssumption DEF Prepare, Write, OInv, OrganisationTypeOK
<1>2. OrganisationTypeOK'
  BY <1>1 DEF Prepare, OInv, OrganisationTypeOK
<1>3. \A f \in Entities : Known(f)' = IF f = e THEN Known(f) \cup {new.institution} ELSE Known(f)
  <2> SUFFICES ASSUME NEW f \in Entities
               PROVE  Known(f)' = IF f = e THEN Known(f) \cup {new.institution} ELSE Known(f)
    OBVIOUS
  <2>1. \A i \in Institutions :
          i \in Known(f)' <=> i \in Known(f) \/ (f = e /\ i = new.institution)
    BY <1>1 DEF Known, KnownBy
  <2> QED  BY <2>1 DEF Known, Row
<1>4. ParentsAreLocal'
  BY <1>1 DEF OInv, ParentsAreLocal, Moved
<1>5. \A s \in Requests : request'[s] # Waiting => \A p \in request'[s].row.parents : p \in Entities
  BY <1>2, ParentsTyped DEF OrganisationTypeOK, Write
<1>6. CASE row[e] # Missing /\ new.institution = row[e].institution
  <2>1. \A f \in Entities : Known(f)' = Known(f)
    BY <1>3, <1>6 DEF Known, Row
  <2>2. OneInstitution'
    BY <1>1, <2>1 DEF OInv, OneInstitution, Rooted
  <2>3. WritesAreLocal'
    BY <1>1, <2>1, <1>5 DEF OInv, WritesAreLocal, LocalWrite, LocalTo, Exempt, Moved
  <2> QED  BY <1>2, <1>4, <2>2, <2>3 DEF OInv
<1>7. CASE Fresh(e)
  <2>1. Known(e) = {}
    BY <1>7 DEF Fresh, Known, KnownBy
  <2>2. OneInstitution'
    BY <1>1, <1>3, <2>1 DEF OInv, OneInstitution, Rooted
  <2>3. ASSUME NEW s \in Requests \ {r}, request[s] # Waiting
        PROVE  LocalWrite(request[s])'
    <3>1. e \notin request[s].row.parents
      BY <1>7, <2>3 DEF Fresh
    <3> QED  BY <1>1, <1>3, <1>5, <2>3, <3>1
             DEF OInv, WritesAreLocal, LocalWrite, LocalTo, Exempt, Moved
  <2>4. LocalWrite(q)'
    BY <1>1, <1>3, <1>5 DEF LocalWrite, LocalTo, Exempt, Moved, Row
  <2>5. WritesAreLocal'
    BY <1>1, <2>3, <2>4 DEF WritesAreLocal
  <2> QED  BY <1>2, <1>4, <2>2, <2>5 DEF OInv
<1> QED  BY <1>6, <1>7

LEMMA SettingsTyped ==
  \A g \in Settings : g \in Context /\ (g.bypass \/ g.institution \in Institutions)
<1>1. \A i \in Institutions : Scope(i, Anonymous, FALSE) \in Context
  BY DEF Scope, Context, Anywhere, Anyone
<1>2. Scope(Nowhere, Anonymous, TRUE) \in Context
  BY DEF Scope, Context, Anywhere, Anyone
<1>3. /\ \A i \in Institutions : Scope(i, Anonymous, FALSE).institution \in Institutions
      /\ Scope(Nowhere, Anonymous, TRUE).bypass
  BY DEF Scope
<1> QED  BY <1>1, <1>2, <1>3 DEF Settings

LEMMA CreateStep ==
  ASSUME OInv, NEW r \in Requests, NEW e \in Entities, NEW g \in Settings, Create(r, e, g)
  PROVE  OInv'
<1>0. g \in Context /\ Homes(e, g) \subseteq Institutions
  BY SettingsTyped DEF Homes
<1>1. PICK owner \in Owners(e), options \in Options(e), i \in Institutions :
        /\ \A p \in owner \cup options : Visible(p, g)
        /\ \A o \in owner : row[o].institution = i
        /\ Prepare(r, e, [institution |-> i, parents |-> owner \cup options], g)
  BY <1>0 DEF Create
<1>2. PICK new \in Row : new = [institution |-> i, parents |-> owner \cup options]
  BY <1>1, KeysAreEntities DEF Row
<1> DEFINE q == [entity |-> e, row |-> new, settings |-> g]
<1>3. ASSUME NEW p \in new.parents, row[p].institution = i
      PROVE  LocalTo(q, p)
  <2>1. p \in Entities \ Affiliations /\ row[p] # Missing
    BY <1>1, <1>2, ParentsTyped DEF Visible
  <2>2. CASE p \in moved
    BY <2>2 DEF LocalTo, Moved
  <2>3. CASE p \notin moved
    BY <1>2, <1>3, <2>1, <2>3, KnownRow DEF LocalTo, Rooted
  <2> QED  BY <2>2, <2>3
<1>6. LocalWrite(q)
  <2>1. CASE options = {}
    BY <1>1, <1>2, <1>3, <2>1 DEF LocalWrite
  <2>2. CASE e \in Affiliations
    <3>1. \A p \in new.parents : row[p].institution = i
      BY <1>1, <1>2, <2>2 DEF Prepare, Clean, Visible
    <3> QED  BY <1>2, <1>3, <3>1 DEF LocalWrite
  <2>3. CASE e \in Optional
    BY <1>1, <1>2, <1>3, <2>3 DEF LocalWrite, Exempt, InReach, Visible
  <2> QED  BY <2>1, <2>2, <2>3, KeysAreEntities
<1> QED  BY <1>0, <1>1, <1>2, <1>6, PrepareStep DEF Create

LEMMA WithParents ==
  ASSUME NEW old \in Row, NEW P \in SUBSET (Units \cup Researchers)
  PROVE  /\ [old EXCEPT !.parents = P] \in Row
         /\ [old EXCEPT !.parents = P].institution = old.institution
         /\ [old EXCEPT !.parents = P].parents = P
BY DEF Row

LEMMA PatchStep ==
  ASSUME OInv, NEW r \in Requests, NEW e \in Entities, NEW g \in Context, Patch(r, e, g)
  PROVE  OInv'
<1>1. PICK options \in Options(e) :
        /\ \A p \in options \ row[e].parents : Visible(p, g)
        /\ Prepare(r, e, [row[e] EXCEPT !.parents = (@ \ UNION Options(e)) \cup options], g)
  BY DEF Patch
<1>2. row[e] \in Row /\ row[e] # Missing /\ InReach(g, row[e].institution)
  BY DEF Patch, Visible, OInv, OrganisationTypeOK
<1>3. PICK new \in Row :
        /\ new = [row[e] EXCEPT !.parents = (@ \ UNION Options(e)) \cup options]
        /\ new.institution = row[e].institution
        /\ new.parents \subseteq row[e].parents \cup options
        /\ row[e].parents \cap Researchers \subseteq new.parents
  <2> DEFINE P == (row[e].parents \ UNION Options(e)) \cup options
  <2>1. /\ P \in SUBSET (Units \cup Researchers) /\ P \subseteq row[e].parents \cup options
        /\ row[e].parents \cap Researchers \subseteq P
    BY <1>2, KeysAreEntities, OrganisationAssumption DEF Row
  <2> HIDE DEF P
  <2>2. /\ [row[e] EXCEPT !.parents = P] \in Row
        /\ [row[e] EXCEPT !.parents = P].institution = row[e].institution
        /\ [row[e] EXCEPT !.parents = P].parents = P
    BY <1>2, <2>1, WithParents
  <2> QED  BY <2>1, <2>2 DEF P
<1> DEFINE q == [entity |-> e, row |-> new, settings |-> g]
<1>4. ASSUME NEW p \in new.parents, row[p] # Missing, row[p].institution = new.institution
      PROVE  LocalTo(q, p)
  <2>1. p \in Entities \ Affiliations
    BY ParentsTyped
  <2>2. CASE p \in moved
    BY <2>2 DEF LocalTo, Moved
  <2>3. CASE p \notin moved
    BY <1>4, <2>1, <2>3, KnownRow DEF LocalTo, Rooted
  <2> QED  BY <2>2, <2>3
<1>5. ASSUME e \notin bypassed, NEW p \in row[e].parents \cap new.parents
      PROVE  LocalTo(q, p)
  <2>1. /\ row[p] # Missing
        /\ row[p].institution = row[e].institution \/ Moved(e, p, row[e].parents)
    BY <1>2, <1>5 DEF OInv, ParentsAreLocal
  <2>2. CASE Moved(e, p, row[e].parents)
    BY <1>3, <2>2 DEF LocalTo, Moved
  <2> QED  BY <1>3, <1>4, <2>1, <2>2
<1>6. \A p \in options \ row[e].parents : row[p] # Missing /\ InReach(g, row[p].institution)
  BY <1>1 DEF Visible
<1>7. LocalWrite(q)
  <2>1. CASE e \in bypassed
    BY <2>1 DEF LocalWrite, Exempt, OInv, OrganisationTypeOK
  <2>2. CASE e \notin bypassed /\ options = {}
    BY <1>3, <1>5, <2>2 DEF LocalWrite
  <2>3. CASE e \notin bypassed /\ e \in Affiliations
    <3>1. \A p \in new.parents \ row[e].parents :
             row[p] # Missing /\ row[p].institution = new.institution
      BY <1>1, <1>3, <1>6, <2>3 DEF Prepare, Clean
    <3> QED  BY <1>4, <1>5, <2>3, <3>1 DEF LocalWrite
  <2>4. CASE e \notin bypassed /\ e \in Optional
    <3>1. CASE g.bypass
      BY <2>4, <3>1 DEF LocalWrite, Exempt
    <3>2. CASE ~g.bypass
      <4>1. \A p \in new.parents \ row[e].parents :
               row[p] # Missing /\ row[p].institution = new.institution
        BY <1>2, <1>3, <1>6, <3>2 DEF InReach
      <4> QED  BY <1>4, <1>5, <2>4, <4>1 DEF LocalWrite
    <3> QED  BY <3>1, <3>2
  <2> QED  BY <2>1, <2>2, <2>3, <2>4, KeysAreEntities
<1> QED  BY <1>1, <1>2, <1>3, <1>7, PrepareStep DEF Patch

LEMMA FollowTyped ==
  ASSUME NEW f \in Entities, NEW old \in Row, NEW e, NEW i \in Institutions
  PROVE  /\ Follow(f, old, e, i) \in Row
         /\ Follow(f, old, e, i).parents = old.parents
         /\ Follow(f, old, e, i).institution \in {i, old.institution}
         /\ f \notin Affiliations => Follow(f, old, e, i) = old
         /\ Follow(f, old, e, i) = old \/ (f \in Affiliations /\ e \in old.parents \cap Researchers)
BY DEF Follow, Row

LEMMA FollowingTyped ==
  ASSUME NEW q \in Write, NEW e, NEW i \in Institutions
  PROVE  /\ Following(q, e, i) \in Write
         /\ Following(q, e, i).entity = q.entity
         /\ Following(q, e, i).settings = q.settings
         /\ Following(q, e, i).row = Follow(q.entity, q.row, e, i)
<1>1. Follow(q.entity, q.row, e, i) \in Row
  BY FollowTyped DEF Write
<1> QED  BY <1>1, OrganisationAssumption DEF Following, Write

\* A row of a known institution, with parents that are local, may be stored; so
\* may any row in an institution it is moved to.
LEMMA StoreStep ==
  ASSUME OInv, NEW e \in Entities, NEW new \in Row, Store(e, new),
         request' \in [Requests -> Write \cup {Waiting}],
         \A s \in Requests : \/ request'[s] = Waiting
                            \/ request'[s] = Following(request[s], e, new.institution),
         bypassed \subseteq bypassed', bypassed' \subseteq Optional,
         moved \subseteq moved', moved' \subseteq Entities \ Affiliations,
         Rooted(e)' => new.institution \in Known(e),
         \A p \in new.parents :
           /\ row[p] # Missing
           /\ \/ row[p].institution = new.institution
              \/ e \in bypassed'
              \/ Moved(e, p, new.parents)'
  PROVE  OInv'
<1> DEFINE i == new.institution
<1>0. /\ i \in Institutions /\ new # Missing
      /\ row \in [Entities -> Row \cup {Missing}]
      /\ request \in [Requests -> Write \cup {Waiting}]
  BY OrganisationAssumption DEF Row, OInv, OrganisationTypeOK
<1>1. /\ row' \in [Entities -> Row \cup {Missing}]
      /\ row'[e] = new
      /\ \A f \in Entities \ {e} : row[f] = Missing => row'[f] = Missing
      /\ \A f \in Entities \ {e} : row[f] # Missing => row'[f] = Follow(f, row[f], e, i)
  <2>1. \A f \in Entities : row[f] # Missing => Follow(f, row[f], e, i) \in Row
    BY <1>0, FollowTyped
  <2> QED  BY <1>0, <2>1 DEF Store
<1>2. OrganisationTypeOK'
  BY <1>1 DEF OrganisationTypeOK
<1>3. ASSUME NEW s \in Requests, request'[s] # Waiting
      PROVE  /\ request[s] \in Write /\ request[s] # Waiting
             /\ request'[s].entity = request[s].entity
             /\ request'[s].settings = request[s].settings
             /\ request'[s].row = Follow(request[s].entity, request[s].row, e, i)
             /\ request'[s].row.parents = request[s].row.parents
             /\ request[s].entity \in Entities /\ request[s].row \in Row
             /\ request[s].row.parents \subseteq Entities \ Affiliations
  <2>1. request'[s] = Following(request[s], e, i) /\ request[s] \in Write /\ request[s] # Waiting
    BY <1>0, <1>3 DEF Following
  <2>2. request[s].entity \in Entities /\ request[s].row \in Row
    BY <2>1 DEF Write
  <2> QED  BY <1>0, <2>1, <2>2, FollowingTyped, FollowTyped, ParentsTyped
<1>4. ASSUME NEW f \in Entities, Rooted(f)'
      PROVE  Known(f)' \subseteq Known(f) /\ Rooted(f)
  <2>1. f \notin Affiliations /\ Rooted(f)
    BY <1>4 DEF Rooted
  <2>2. \A s \in Requests : request'[s] # Waiting /\ request'[s].entity = f =>
          request[s] # Waiting /\ request[s].entity = f /\ request'[s].row = request[s].row
    BY <1>0, <1>3, <2>1, FollowTyped
  <2>3. f # e /\ row'[f] # Missing => row[f] # Missing /\ row'[f] = row[f]
    BY <1>0, <1>1, <2>1, FollowTyped
  <2> QED  BY <1>1, <1>4, <2>1, <2>2, <2>3 DEF Known, KnownBy
<1>5. OneInstitution'
  BY <1>4 DEF OInv, OneInstitution
<1>6. ASSUME NEW s \in Requests, request'[s] # Waiting
      PROVE  LocalWrite(request[s])'
  <2> DEFINE q == request[s]
  <2>0. PICK n : n = request'[s]
    OBVIOUS
  <2>1. CASE Exempt(q)
    <3>1. n.row = q.row
      BY <1>0, <1>3, <2>0, <1>6, <2>1, FollowTyped, ParentsTyped DEF Exempt
    <3> QED  BY <1>3, <2>0, <1>6, <2>1, <3>1 DEF LocalWrite, Exempt
  <2>2. CASE ~Exempt(q)
    <3>1. SUFFICES ASSUME NEW p \in q.row.parents, ~Moved(n.entity, p, n.row.parents)'
                   PROVE  Known(p)' \subseteq {n.row.institution}
      BY <1>3, <2>0, <1>6 DEF LocalWrite, LocalTo
    <3>2. ~Moved(q.entity, p, q.row.parents) /\ p \notin moved'
      BY <1>3, <2>0, <1>6, <3>1 DEF Moved
    <3>3. p \in Entities /\ Known(p)' \subseteq Known(p)
      BY <1>3, <2>0, <1>4, <1>6, <3>2 DEF Rooted
    <3>4. Known(p) \subseteq {q.row.institution}
      BY <1>3, <2>0, <1>6, <2>2, <3>2 DEF OInv, WritesAreLocal, LocalWrite, LocalTo
    <3>5. n.row.institution = q.row.institution
      <4>1. CASE ~(q.entity \in Affiliations /\ e \in q.row.parents \cap Researchers)
        BY <1>0, <1>3, <2>0, <1>6, <4>1, FollowTyped
      <4>2. CASE q.entity \in Affiliations /\ e \in q.row.parents \cap Researchers
        <5>1. e \notin moved' /\ Rooted(e)'
          BY <1>3, <2>0, <1>6, <3>1, <4>2 DEF Moved, Rooted
        <5>2. ~Moved(q.entity, e, q.row.parents)
          BY <1>3, <2>0, <1>6, <3>1, <4>2 DEF Moved
        <5>3. Known(e) \subseteq {q.row.institution}
          BY <1>3, <2>0, <1>6, <2>2, <4>2, <5>2 DEF OInv, WritesAreLocal, LocalWrite, LocalTo
        <5>4. i = q.row.institution
          BY <5>1, <5>3
        <5> QED  BY <1>0, <1>3, <2>0, <1>6, <5>4, FollowTyped
      <4> QED  BY <4>1, <4>2
    <3> QED  BY <3>3, <3>4, <3>5
  <2> QED  BY <2>1, <2>2
<1>7. WritesAreLocal'
  BY <1>6 DEF WritesAreLocal
<1>8. ASSUME NEW p \in Entities \ Affiliations, row[p] # Missing
      PROVE  /\ row'[p] # Missing
             /\ row'[p].institution = row[p].institution \/ p \in moved'
  <2>1. CASE p # e
    BY <1>0, <1>1, <1>8, <2>1, FollowTyped
  <2>2. CASE p = e /\ p \notin moved'
    <3>1. Rooted(e)' /\ Rooted(e)
      BY <2>2 DEF Rooted
    <3>2. i = row[e].institution
      BY <1>8, <2>2, <3>1, KnownRow
    <3> QED  BY <1>0, <1>1, <2>2, <3>2
  <2> QED  BY <1>0, <1>1, <2>1, <2>2
<1>9. ASSUME NEW f \in Entities, row'[f] # Missing, NEW p \in row'[f].parents
      PROVE  /\ row'[p] # Missing
             /\ \/ row'[p].institution = row'[f].institution
                \/ f \in bypassed'
                \/ Moved(f, p, row[f].parents)'
  <2>1. CASE f = e
    <3>1. p \in Entities \ Affiliations /\ row[p] # Missing
      BY <1>1, <1>9, <2>1, ParentsTyped
    <3>2. p \in moved' => Moved(e, p, new.parents)'
      BY DEF Moved
    <3> QED  BY <1>1, <1>8, <1>9, <2>1, <3>1, <3>2 DEF Moved
  <2>2. CASE f # e
    <3>1. /\ row[f] \in Row /\ row[f] # Missing /\ row'[f] = Follow(f, row[f], e, i)
          /\ row'[f].parents = row[f].parents
      BY <1>0, <1>1, <1>9, <2>2, FollowTyped
    <3>2. p \in row[f].parents /\ p \in Entities \ Affiliations
      BY <1>9, <3>1, ParentsTyped
    <3>3. /\ row[p] # Missing
          /\ \/ row[p].institution = row[f].institution
             \/ f \in bypassed
             \/ Moved(f, p, row[f].parents)
      BY <3>1, <3>2 DEF OInv, ParentsAreLocal
    <3>4. row'[p] # Missing /\ (row'[p].institution = row[p].institution \/ p \in moved')
      BY <1>8, <3>2, <3>3
    <3>5. Moved(f, p, row[f].parents) => Moved(f, p, row[f].parents)'
      BY <3>1 DEF Moved
    <3>6. p \in moved' => Moved(f, p, row[f].parents)'
      BY DEF Moved
    <3>7. row'[f].institution = row[f].institution \/ Moved(f, p, row[f].parents)' \/ f \in bypassed'
      <4>1. CASE ~(f \in Affiliations /\ e \in row[f].parents \cap Researchers)
        BY <1>0, <3>1, <4>1, FollowTyped
      <4>2. CASE f \in Affiliations /\ e \in row[f].parents \cap Researchers /\ e \in moved'
        BY <3>1, <4>2 DEF Moved
      <4>3. CASE f \in Affiliations /\ e \in row[f].parents \cap Researchers /\ e \notin moved'
        <5>1. Rooted(e)' /\ Rooted(e) /\ row[e] # Missing
          BY <3>1, <4>3, ParentsTyped DEF Rooted, OInv, ParentsAreLocal
        <5>2. i = row[e].institution
          BY <5>1, KnownRow
        <5>3. \/ row[e].institution = row[f].institution
              \/ f \in bypassed
              \/ Moved(f, e, row[f].parents)
          BY <3>1, <4>3 DEF OInv, ParentsAreLocal
        <5>4. Moved(f, e, row[f].parents) => Moved(f, p, row[f].parents)'
          BY <3>1, <4>3 DEF Moved
        <5> QED  BY <1>0, <3>1, <5>2, <5>3, <5>4, FollowTyped
      <4> QED  BY <4>1, <4>2, <4>3
    <3> QED  BY <3>3, <3>4, <3>5, <3>6, <3>7
  <2> QED  BY <2>1, <2>2
<1>10. ParentsAreLocal'
  BY <1>9 DEF ParentsAreLocal
<1> QED  BY <1>2, <1>5, <1>7, <1>10 DEF OInv

LEMMA SaveStep ==
  ASSUME OInv, NEW r \in Requests, Save(r)
  PROVE  OInv'
<1>1. PICK q \in Write : q = request[r] /\ q # Waiting
  BY DEF Save, OInv, OrganisationTypeOK
<1>2. PICK e \in Entities, new \in Row : e = q.entity /\ new = q.row
  BY <1>1 DEF Write
<1>3. /\ Store(e, new) /\ moved' = moved
      /\ InReach(q.settings, new.institution)
      /\ \A p \in new.parents : row[p] # Missing
      /\ bypassed' = IF q.settings.bypass THEN bypassed \cup ({e} \cap Optional) ELSE bypassed
      /\ request' = [s \in Requests |->
           IF s = r THEN Waiting ELSE Following(request[s], e, new.institution)]
  BY <1>1, <1>2 DEF Save
<1>4. request' \in [Requests -> Write \cup {Waiting}]
  <2>1. \A s \in Requests : Following(request[s], e, new.institution) \in Write \cup {Waiting}
    BY FollowingTyped DEF Following, OInv, OrganisationTypeOK, Row
  <2> QED  BY <1>3, <2>1
<1>5. new.institution \in Known(e)
  BY <1>1, <1>2 DEF Known, KnownBy, Row
<1>6. ASSUME NEW p \in new.parents
      PROVE  \/ row[p].institution = new.institution
             \/ e \in bypassed'
             \/ Moved(e, p, new.parents)'
  <2>1. row[p].institution \in Known(p)
    BY <1>3, ParentsTyped, KnownRow
  <2>2. LocalWrite(q)
    BY <1>1 DEF OInv, WritesAreLocal
  <2> QED  BY <1>2, <1>3, <2>1, <2>2 DEF LocalWrite, LocalTo, Exempt, Moved
<1>7. /\ bypassed \subseteq bypassed' /\ bypassed' \subseteq Optional
      /\ moved \subseteq moved' /\ moved' \subseteq Entities \ Affiliations
  BY <1>3 DEF OInv, OrganisationTypeOK
<1> QED  BY <1>3, <1>4, <1>5, <1>6, <1>7, StoreStep

LEMMA AdminSaveStep ==
  ASSUME OInv, NEW e \in Entities, NEW g, AdminSave(e, g)
  PROVE  OInv'
<1>1. PICK owner \in Owners(e), options \in Options(e), i \in Institutions :
        LET n == [institution |-> i, parents |-> owner \cup options] IN
        /\ \A p \in n.parents : row[p] # Missing /\ row[p].institution = i
        /\ Store(e, n)
        /\ request' = [s \in Requests |-> Following(request[s], e, i)]
        /\ moved' = IF e \in Affiliations \/ i = row[e].institution
                    THEN moved ELSE moved \cup {e}
  BY DEF AdminSave
<1>2. PICK new \in Row :
        new = [institution |-> i, parents |-> owner \cup options] /\ new.institution = i
  <2>1. owner \cup options \subseteq Units \cup Researchers
    BY KeysAreEntities
  <2>2. [institution |-> i, parents |-> owner \cup options] \in Row
    BY <2>1 DEF Row
  <2> QED  BY <2>2
<1>3. request' \in [Requests -> Write \cup {Waiting}]
  <2>1. \A s \in Requests : Following(request[s], e, i) \in Write \cup {Waiting}
    BY FollowingTyped DEF Following, OInv, OrganisationTypeOK
  <2> QED  BY <1>1, <2>1
<1>4. row[e] # Missing /\ UNCHANGED bypassed
  BY DEF AdminSave
<1>5. Rooted(e)' => new.institution \in Known(e)
  BY <1>1, <1>2, <1>4, KnownRow DEF Rooted
<1>6. /\ bypassed \subseteq bypassed' /\ bypassed' \subseteq Optional
      /\ moved \subseteq moved' /\ moved' \subseteq Entities \ Affiliations
  BY <1>1, <1>4 DEF OInv, OrganisationTypeOK
<1>7. /\ Store(e, new)
      /\ \A p \in new.parents : row[p] # Missing /\ row[p].institution = new.institution
      /\ \A s \in Requests : request'[s] = Following(request[s], e, new.institution)
  BY <1>1, <1>2
<1> QED  BY <1>3, <1>5, <1>6, <1>7, StoreStep

LEMMA DeleteStep ==
  ASSUME OInv, NEW e \in Entities, NEW g \in Context, Delete(e, g)
  PROVE  OInv'
<1>1. PICK doomed :
        /\ doomed = {f \in Doomed(e) : Visible(f, g)}
        /\ \A f \in Entities \ doomed :
             row[f] # Missing => (row[f].parents \cap doomed # {} => Visible(f, g))
        /\ row' = [f \in Entities |->
             IF f \in doomed \/ row[f] = Missing THEN Missing
             ELSE [row[f] EXCEPT !.parents = @ \ doomed]]
        /\ UNCHANGED <<request, bypassed, moved>>
  BY DEF Delete
<1>2. ASSUME NEW f \in Entities, row'[f] # Missing
      PROVE  /\ f \notin doomed /\ row[f] # Missing
             /\ row'[f] \in Row
             /\ row'[f].institution = row[f].institution
             /\ row'[f].parents = row[f].parents \ doomed
  BY <1>1, <1>2, OrganisationAssumption DEF OInv, OrganisationTypeOK, Row
<1>3. \A f \in Entities : f \notin doomed /\ row[f] # Missing => row'[f] # Missing
  BY <1>1, OrganisationAssumption DEF OInv, OrganisationTypeOK, Row
<1>4. OrganisationTypeOK'
  BY <1>1, <1>2 DEF OInv, OrganisationTypeOK
<1>5. \A f \in Entities : Known(f)' \subseteq Known(f)
  BY <1>1, <1>2 DEF Known, KnownBy
<1>6. OneInstitution'
  BY <1>1, <1>5 DEF OInv, OneInstitution, Rooted
<1>7. WritesAreLocal'
  <2>1. \A s \in Requests : request[s] # Waiting => request[s].row.parents \subseteq Entities
    BY ParentsTyped DEF OInv, OrganisationTypeOK, Write
  <2> QED  BY <1>1, <1>5, <2>1 DEF OInv, WritesAreLocal, LocalWrite, LocalTo, Exempt, Moved
<1>8. ASSUME NEW f \in Affiliations, row'[f] # Missing
      PROVE  row[f].parents \cap Researchers \cap doomed = {}
  <2> SUFFICES ASSUME NEW o \in row[f].parents \cap Researchers \cap doomed PROVE FALSE
    OBVIOUS
  <2>1. f \in Entities /\ f \notin doomed /\ row[f] # Missing
    BY <1>2, <1>8 DEF Entities
  <2>2. Visible(f, g)
    BY <1>1, <2>1
  <2>3. o = e
    BY <1>1, OrganisationAssumption DEF Doomed, OwnedBy, Owned, Units
  <2>4. {o} \in Owners(f)
    BY OrganisationAssumption DEF Owners, Exactly, Units
  <2>5. f \in OwnedBy({e})
    BY <2>1, <2>3, <2>4 DEF OwnedBy, Owned
  <2> QED  BY <1>1, <2>1, <2>2, <2>5 DEF Doomed
<1>9. ASSUME NEW f \in Entities, row'[f] # Missing, NEW p \in row'[f].parents
      PROVE  /\ row'[p] # Missing
             /\ \/ row'[p].institution = row'[f].institution
                \/ f \in bypassed
                \/ Moved(f, p, row[f].parents \ doomed)
  <2>1. /\ row[f] # Missing /\ row[f] \in Row /\ p \in row[f].parents /\ p \notin doomed
        /\ row'[f].institution = row[f].institution
    BY <1>2, <1>9 DEF OInv, OrganisationTypeOK
  <2>2. p \in Entities /\ row[p] # Missing
    BY <2>1, ParentsTyped DEF OInv, ParentsAreLocal
  <2>3. row'[p] # Missing /\ row'[p].institution = row[p].institution
    BY <1>2, <1>3, <2>1, <2>2
  <2>4. Moved(f, p, row[f].parents) => Moved(f, p, row[f].parents \ doomed)
    BY <1>8, <1>9 DEF Moved
  <2> QED  BY <2>1, <2>3, <2>4 DEF OInv, ParentsAreLocal
<1>10. ParentsAreLocal'
  BY <1>1, <1>2, <1>9 DEF ParentsAreLocal, Moved
<1> QED  BY <1>4, <1>6, <1>7, <1>10 DEF OInv

LEMMA OInvariance == OrganisationSpec => []OInv
<1>1. OrganisationInit => OInv
  <2> SUFFICES ASSUME OrganisationInit PROVE OInv
    OBVIOUS
  <2> QED  BY OrganisationAssumption
           DEF OrganisationInit, OInv, OrganisationTypeOK, OneInstitution, Known, KnownBy,
               WritesAreLocal, ParentsAreLocal
<1>2. OInv /\ [OrganisationNext]_organisation => OInv'
  <2> SUFFICES ASSUME OInv, [OrganisationNext]_organisation PROVE OInv'
    OBVIOUS
  <2>1. Settings \subseteq Context
    BY SettingsTyped
  <2>2. ASSUME NEW r \in Requests, Fail(r)
        PROVE  OInv'
    <3>1. /\ \A s \in Requests : request'[s] = IF s = r THEN Waiting ELSE request[s]
          /\ OrganisationTypeOK' /\ UNCHANGED <<row, bypassed, moved>>
      BY <2>2 DEF Fail, OInv, OrganisationTypeOK
    <3>2. \A f \in Entities : Known(f)' \subseteq Known(f)
      BY <3>1 DEF Known, KnownBy
    <3>3. \A s \in Requests : request[s] # Waiting => request[s].row.parents \subseteq Entities
      BY ParentsTyped DEF OInv, OrganisationTypeOK, Write
    <3>4. WritesAreLocal'
      BY <3>1, <3>2, <3>3 DEF OInv, WritesAreLocal, LocalWrite, LocalTo, Exempt, Moved
    <3> QED  BY <3>1, <3>2, <3>4 DEF OInv, OneInstitution, Rooted, ParentsAreLocal, Moved
  <2>3. CASE UNCHANGED organisation
    BY <2>3 DEF organisation, OInv, OrganisationTypeOK, OneInstitution, Rooted, Known, KnownBy,
                WritesAreLocal, LocalWrite, LocalTo, Exempt, Moved, ParentsAreLocal
  <2> QED  BY <2>1, <2>2, <2>3, CreateStep, PatchStep, SaveStep, DeleteStep, AdminSaveStep
           DEF OrganisationNext
<1> QED  BY <1>1, <1>2, PTL DEF OrganisationSpec

THEOREM OrganisationTypeCorrectness == OrganisationSpec => []OrganisationTypeOK
<1>1. OInv => OrganisationTypeOK
  BY DEF OInv
<1> QED  BY <1>1, OInvariance, PTL

\* Whatever requests of several institutions save late, fail and delete in
\* between, and whatever rows a superuser moves to another institution, what a
\* row refers to is there; and it is of its own institution, but for the optional
\* sede and facultad of a row that a superuser wrote, and around a moved row.
THEOREM ParentsStayLocal == OrganisationSpec => []ParentsAreLocal
<1>1. OInv => ParentsAreLocal
  BY DEF OInv
<1> QED  BY <1>1, OInvariance, PTL

(***************************************************************************)
(* Tenancy.  The settings of a connection are known exactly while a job is *)
(* in one of its working phases, and partly after a nested context ended.  *)
(* Whatever fails before leaves them arbitrary, until the job has ended.   *)
(***************************************************************************)

Own(u, i) == i # Nowhere => i \in OfUser(u)

RowsWereJoined ==
  \A u \in Members, i \in Institutions : membership[u][i] # NoRow => i \in joined[u]

SessionsAreOwn == \A s \in Sessions : Own(session[s].user, session[s].institution)

\* Of the context and the settings that a job in each phase runs with.
Settled(j, c, g) ==
  /\ j.phase = "served" => g = Scope(j.institution, j.user, j.user \in Superusers) /\ c = g
  /\ j.phase = "rescoped" => g = Scope(Nowhere, j.user, FALSE) /\ c = g
  /\ j.phase = "answering" => c = g /\ Reach(g) \subseteq OfUser(j.user)
  /\ j.phase \in {"nested", "checked"} =>
       g = Scope(j.claim, j.user, FALSE) /\ c = g /\ j.user \in Members
  /\ j.phase = "task" => g = Scope(j.claim, Anonymous, j.claim = Nowhere) /\ c = g
  /\ j.phase = "linked" =>
       /\ c = j.outer /\ j.claim \in OfUser(j.user)
       /\ g \in PartlyApplied(Scope(j.claim, j.user, FALSE), j.outer)
  /\ j.phase \in {"nested", "checked", "linked"} =>
       /\ j.claim \in Institutions
       /\ j.outer \in Context /\ Reach(j.outer) \subseteq OfUser(j.outer.user)

Sound(j, c, g) == Own(j.user, j.institution) /\ Settled(j, c, g)

JobsSound == \A w \in Workers : job[w] # Idle => Sound(job[w], context[w], guc[w])

Primaries(u) == {i \in Institutions : HasRow(u, i) /\ membership[u][i].primary}

\* What clean() found is still true when the membership is inserted.
CleanJob(j) == j.phase = "checked" /\ j.user \notin raced => Primaries(j.user) \subseteq {j.claim}
CheckedIsClean == \A w \in Workers : job[w] # Idle => CleanJob(job[w])

SinglePrimary == \A u \in Members \ raced : \A i, k \in Primaries(u) : i = k

TenancyInv ==
  /\ TenancyTypeOK
  /\ RowsWereJoined
  /\ SessionsAreOwn
  /\ JobsSound
  /\ CheckedIsClean
  /\ SinglePrimary

------------------------------------------------------------------------------
LEMMA ScopeTyped ==
  ASSUME NEW i \in Anywhere, NEW u \in Anyone, NEW b \in BOOLEAN
  PROVE  Scope(i, u, b) \in Context
BY DEF Scope, Context

LEMMA PartlyAppliedTyped ==
  ASSUME NEW old \in Context, NEW new \in Context
  PROVE  PartlyApplied(old, new) \subseteq Context /\ new \in PartlyApplied(old, new)
BY DEF PartlyApplied, FirstOnly, Context

\* Settings that are written half way reach nothing that neither side reaches.
LEMMA PartlyAppliedReach ==
  ASSUME NEW old \in Context, NEW new \in Context, ~old.bypass,
         NEW g \in PartlyApplied(old, new)
  PROVE  Reach(g) \subseteq Reach(old) \cup Reach(new)
<1>1. CASE g \in {old, new}
  BY <1>1
<1>2. CASE g \in {FirstOnly(old, new), [FirstOnly(old, new) EXCEPT !.user = new.user]}
  <2>1. g.institution = new.institution /\ g.bypass = old.bypass
    BY <1>2 DEF FirstOnly, Context
  <2> QED  BY <2>1 DEF Reach, InReach
<1> QED  BY <1>1, <1>2 DEF PartlyApplied

LEMMA SessionReach ==
  ASSUME NEW u \in Anyone, NEW i \in Anywhere, Own(u, i)
  PROVE  /\ Reach(Scope(i, u, FALSE)) \subseteq OfUser(u)
         /\ Reach(Scope(i, u, u \in Superusers)) \subseteq OfUser(u)
         /\ Scope(i, u, u \in Superusers) \in Context
<1>1. Scope(i, u, u \in Superusers) \in Context
  BY DEF Scope, Context
<1> QED  BY <1>1, RowSecurityAssumption DEF Own, Scope, Reach, InReach, OfUser, Anywhere

\* What a worker's step leaves in its settings, whatever fails.
LEMMA ContextMoves ==
  ASSUME TenancyTypeOK, NEW w \in Workers
  PROVE  /\ \A c \in Context : Activate(w, c) =>
              /\ context' = [context EXCEPT ![w] = c]
              /\ guc' = [guc EXCEPT ![w] = c]
              /\ faults' \in 0 .. MaxFaults
         /\ \A c \in Context : ActivateFails(w, c) =>
              /\ context' = [context EXCEPT ![w] = c]
              /\ \E g \in Context :
                   g \in PartlyApplied(guc[w], c) /\ guc' = [guc EXCEPT ![w] = g]
              /\ faults' \in 0 .. MaxFaults
         /\ \A g \in Context, n \in {0, 1} : ClearFrom(w, g, n) =>
              /\ context' = [context EXCEPT ![w] = NoContext]
              /\ \E h \in Context : guc' = [guc EXCEPT ![w] = h]
              /\ faults' \in 0 .. MaxFaults
<1>1. \A n \in {0, 1} : Faults(n) => faults' \in 0 .. MaxFaults
  BY TenancyAssumption DEF Faults, TenancyTypeOK
<1>2. guc[w] \in Context /\ Deny \in Context
  BY ScopeTyped DEF TenancyTypeOK, Deny, Anywhere, Anyone
<1>3. ASSUME NEW c \in Context, Activate(w, c)
      PROVE  /\ context' = [context EXCEPT ![w] = c]
             /\ guc' = [guc EXCEPT ![w] = c]
             /\ faults' \in 0 .. MaxFaults
  BY <1>1, <1>3 DEF Activate, Applied
<1>4. ASSUME NEW c \in Context, ActivateFails(w, c)
      PROVE  /\ context' = [context EXCEPT ![w] = c]
             /\ \E g \in Context :
                  g \in PartlyApplied(guc[w], c) /\ guc' = [guc EXCEPT ![w] = g]
             /\ faults' \in 0 .. MaxFaults
  BY <1>1, <1>2, <1>4, PartlyAppliedTyped DEF ActivateFails
<1>5. ASSUME NEW g \in Context, NEW n \in {0, 1}, ClearFrom(w, g, n)
      PROVE  /\ context' = [context EXCEPT ![w] = NoContext]
             /\ \E h \in Context : guc' = [guc EXCEPT ![w] = h]
             /\ faults' \in 0 .. MaxFaults
  BY <1>1, <1>2, <1>5, PartlyAppliedTyped DEF ClearFrom, Applied
<1> QED  BY <1>3, <1>4, <1>5

LEMMA LeaveMoves ==
  ASSUME TenancyTypeOK, NEW w \in Workers, job[w] # Idle, Leave(w)
  PROVE  \E c \in Context \cup {NoContext}, g \in Context :
           /\ context' = [context EXCEPT ![w] = c]
           /\ guc' = [guc EXCEPT ![w] = g]
           /\ faults' \in 0 .. MaxFaults
           /\ job[w].outer \in Context => c = job[w].outer /\ g \in PartlyApplied(guc[w], c)
<1>1. job[w].outer \in Context \cup {NoContext} /\ guc[w] \in Context
  BY DEF TenancyTypeOK, Job
<1>2. CASE job[w].outer = NoContext
  <2>1. ClearFrom(w, guc[w], 0)
    BY <1>2 DEF Leave, Clear
  <2> QED  BY <1>1, <1>2, <2>1, ContextMoves, TenancyAssumption
<1>3. CASE job[w].outer # NoContext
  <2>1. job[w].outer \in Context
    BY <1>1, <1>3
  <2>2. Activate(w, job[w].outer) \/ ActivateFails(w, job[w].outer)
    BY <1>3 DEF Leave
  <2> QED  BY <1>1, <2>1, <2>2, ContextMoves, PartlyAppliedTyped
<1> QED  BY <1>2, <1>3

------------------------------------------------------------------------------
(* The step of a worker: the context, the settings and the job it has then. *)

Turn(w, c, g, j) ==
  /\ context' = [context EXCEPT ![w] = c]
  /\ guc' = [guc EXCEPT ![w] = g]
  /\ job' = [job EXCEPT ![w] = j]

LEMMA TurnStep ==
  ASSUME TenancyInv, NEW w \in Workers,
         NEW c \in Context \cup {NoContext}, NEW g \in Context, NEW j \in Job \cup {Idle},
         Turn(w, c, g, j),
         \A u \in Members : joined[u] \subseteq joined'[u],
         j # Idle => Sound(j, c, g)'
  PROVE  /\ context' \in [Workers -> Context \cup {NoContext}]
         /\ guc' \in [Workers -> Context]
         /\ job' \in [Workers -> Job \cup {Idle}]
         /\ \A v \in Workers : job'[v] = IF v = w THEN j ELSE job[v]
         /\ JobsSound'
<1>1. /\ context' \in [Workers -> Context \cup {NoContext}]
      /\ guc' \in [Workers -> Context]
      /\ job' \in [Workers -> Job \cup {Idle}]
      /\ \A v \in Workers : job'[v] = IF v = w THEN j ELSE job[v]
      /\ \A v \in Workers : context'[v] = IF v = w THEN c ELSE context[v]
      /\ \A v \in Workers : guc'[v] = IF v = w THEN g ELSE guc[v]
  BY DEF Turn, TenancyInv, TenancyTypeOK
<1>2. \A u : OfUser(u) \subseteq OfUser(u)'
  BY DEF OfUser
<1>3. ASSUME NEW v \in Workers \ {w}, job[v] # Idle
      PROVE  Sound(job[v], context[v], guc[v])'
  <2>1. PICK jv, cv, gv : jv = job[v] /\ cv = context[v] /\ gv = guc[v] /\ Sound(jv, cv, gv)
    BY <1>3 DEF TenancyInv, JobsSound
  <2>2. Sound(jv, cv, gv)'
    BY <1>2, <2>1 DEF Sound, Settled, Own
  <2> QED  BY <1>1, <2>1, <2>2
<1>4. JobsSound'
  BY <1>1, <1>3 DEF JobsSound
<1> QED  BY <1>1, <1>4

LEMMA QuietStep ==
  ASSUME TenancyInv, NEW w \in Workers,
         NEW c \in Context \cup {NoContext}, NEW g \in Context, NEW j \in Job \cup {Idle},
         Turn(w, c, g, j), faults' \in 0 .. MaxFaults,
         UNCHANGED <<membership, joined, raced>>,
         session' \in [Sessions -> Session], SessionsAreOwn',
         j # Idle => Sound(j, c, g) /\ CleanJob(j)
  PROVE  TenancyInv'
<1>1. j # Idle => Sound(j, c, g)'
  BY DEF Sound, Settled, Own, OfUser
<1>2. \A u \in Members : joined[u] \subseteq joined'[u]
  OBVIOUS
<1>3. /\ context' \in [Workers -> Context \cup {NoContext}]
      /\ guc' \in [Workers -> Context]
      /\ job' \in [Workers -> Job \cup {Idle}]
      /\ \A v \in Workers : job'[v] = IF v = w THEN j ELSE job[v]
      /\ JobsSound'
  BY <1>1, <1>2, TurnStep
<1>4. TenancyTypeOK' /\ RowsWereJoined'
  BY <1>3 DEF TenancyInv, TenancyTypeOK, RowsWereJoined
<1>5. CheckedIsClean'
  <2>1. \A u : Primaries(u)' = Primaries(u)
    BY DEF Primaries, HasRow
  <2> QED  BY <1>3, <2>1 DEF TenancyInv, CheckedIsClean, CleanJob
<1>6. SinglePrimary'
  BY DEF TenancyInv, SinglePrimary, Primaries, HasRow
<1> QED  BY <1>3, <1>4, <1>5, <1>6 DEF TenancyInv

LEMMA EndedIsSound ==
  ASSUME NEW j \in Job, NEW c, NEW g
  PROVE  Ended(j) \in Job /\ Sound(Ended(j), c, g) /\ CleanJob(Ended(j))
<1>1. /\ Ended(j) \in Job
      /\ Ended(j).phase = "ending" /\ Ended(j).user = Anonymous /\ Ended(j).institution = Nowhere
  BY DEF Ended, Job, Working, Anyone, Anywhere
<1> QED  BY <1>1 DEF Sound, Settled, Own, CleanJob

\* The parts of the state that a worker's step often leaves alone.
LEMMA Unmoved ==
  ASSUME TenancyInv, NEW w \in Workers
  PROVE  /\ context[w] \in Context \cup {NoContext} /\ guc[w] \in Context
         /\ job[w] \in Job \cup {Idle}
         /\ context = [context EXCEPT ![w] = context[w]]
         /\ guc = [guc EXCEPT ![w] = guc[w]]
         /\ job = [job EXCEPT ![w] = job[w]]
         /\ faults \in 0 .. MaxFaults
         /\ UNCHANGED <<session, joined, membership>> =>
              session' \in [Sessions -> Session] /\ SessionsAreOwn'
         /\ job[w] # Idle => Sound(job[w], context[w], guc[w]) /\ CleanJob(job[w])
BY DEF TenancyInv, TenancyTypeOK, SessionsAreOwn, Own, OfUser, JobsSound, CheckedIsClean

\* A session that is dropped, or saved by a job, holds nothing of another user.
LEMMA SessionStep ==
  ASSUME TenancyInv, UNCHANGED joined, NEW j \in Job,
         \/ session' = [session EXCEPT ![j.session] = NoSession]
         \/ /\ session' = [session EXCEPT ![j.session] =
                 [user |-> j.user, institution |-> j.institution]]
            /\ Own(j.user, j.institution)
  PROVE  session' \in [Sessions -> Session] /\ SessionsAreOwn'
<1>1. PICK new \in Session :
        /\ session' = [session EXCEPT ![j.session] = new]
        /\ Own(new.user, new.institution)
  <2>1. /\ NoSession \in Session /\ Own(NoSession.user, NoSession.institution)
        /\ [user |-> j.user, institution |-> j.institution] \in Session
    BY DEF NoSession, Session, Own, Anyone, Anywhere, Job
  <2> QED  BY <2>1
<1>2. \A s \in Sessions : session'[s] = IF s = j.session THEN new ELSE session[s]
  BY <1>1 DEF TenancyInv, TenancyTypeOK
<1>3. \A u : OfUser(u)' = OfUser(u)
  BY DEF OfUser
<1>4. session' \in [Sessions -> Session]
  BY <1>1 DEF TenancyInv, TenancyTypeOK
<1> QED  BY <1>1, <1>2, <1>3, <1>4 DEF TenancyInv, SessionsAreOwn, Own

LEMMA ReconnectStep ==
  ASSUME TenancyInv, NEW w \in Workers, Reconnect(w)
  PROVE  TenancyInv'
<1>1. /\ Deny \in Context /\ \A n \in {0, 1} : Faults(n) => faults' \in 0 .. MaxFaults
      /\ UNCHANGED <<membership, session, context, joined, raced>>
  <2>1. Deny \in Context
    BY ScopeTyped DEF Deny, Anywhere, Anyone
  <2>2. \A n \in {0, 1} : Faults(n) => faults' \in 0 .. MaxFaults
    BY TenancyAssumption DEF Faults, TenancyInv, TenancyTypeOK
  <2> QED  BY <2>1, <2>2 DEF Reconnect
<1>2. CASE /\ Faults(1)
           /\ guc' = [guc EXCEPT ![w] = IF context[w] = NoContext THEN Deny ELSE context[w]]
           /\ UNCHANGED job
  <2> DEFINE g == IF context[w] = NoContext THEN Deny ELSE context[w]
  <2>1. g \in Context
    BY <1>1, Unmoved
  <2>2. Turn(w, context[w], g, job[w])
    BY <1>1, <1>2, Unmoved DEF Turn
  <2>3. job[w] # Idle => Sound(job[w], context[w], g)
    <3> SUFFICES ASSUME job[w] # Idle PROVE Sound(job[w], context[w], g)
      OBVIOUS
    <3>1. PICK j \in Job, c \in Context \cup {NoContext}, h \in Context :
            j = job[w] /\ c = context[w] /\ h = guc[w] /\ Sound(j, c, h)
      BY Unmoved
    <3>2. j.phase = "linked" => c \in PartlyApplied(Scope(j.claim, j.user, FALSE), j.outer)
      BY <3>1, PartlyAppliedTyped, ScopeTyped DEF Sound, Settled, Job
    <3>3. Sound(j, c, IF c = NoContext THEN Deny ELSE c)
      BY <3>1, <3>2, TenancyAssumption DEF Sound, Settled
    <3> QED  BY <3>1, <3>3
  <2> HIDE DEF g
  <2> QED  BY <1>1, <1>2, <2>1, <2>2, <2>3, Unmoved, QuietStep
<1>3. CASE /\ Faults(1) /\ context[w] # NoContext
           /\ \E g \in PartlyApplied(Deny, context[w]) : guc' = [guc EXCEPT ![w] = g]
           /\ job' = IF job[w] = Idle THEN job ELSE [job EXCEPT ![w] = Ended(job[w])]
  <2>1. PICK g \in Context : guc' = [guc EXCEPT ![w] = g]
    BY <1>1, <1>3, Unmoved, PartlyAppliedTyped
  <2>2. PICK j \in Job \cup {Idle} :
          /\ job' = [job EXCEPT ![w] = j]
          /\ j # Idle => Sound(j, context[w], g) /\ CleanJob(j)
    BY <1>3, Unmoved, EndedIsSound
  <2>3. Turn(w, context[w], g, j)
    BY <1>1, <2>1, <2>2, Unmoved DEF Turn
  <2> QED  BY <1>1, <1>3, <2>2, <2>3, Unmoved, QuietStep
<1> QED  BY <1>2, <1>3 DEF Reconnect

\* A worker that moves to settings c, or fails to and ends its job.
LEMMA MovedTo ==
  ASSUME TenancyInv, NEW w \in Workers, NEW c \in Context, NEW j \in Job, NEW k \in Job \cup {Idle},
         \/ Activate(w, c) /\ job' = [job EXCEPT ![w] = j]
         \/ ActivateFails(w, c) /\ job' = [job EXCEPT ![w] = k],
         UNCHANGED <<membership, joined, raced>>,
         session' \in [Sessions -> Session], SessionsAreOwn',
         Sound(j, c, c), CleanJob(j),
         k # Idle => \A g \in Context : Sound(k, c, g) /\ CleanJob(k)
  PROVE  TenancyInv'
<1>1. PICK g \in Context, q \in Job \cup {Idle} :
        /\ Turn(w, c, g, q) /\ faults' \in 0 .. MaxFaults
        /\ q # Idle => Sound(q, c, g) /\ CleanJob(q)
  <2>1. CASE Activate(w, c) /\ job' = [job EXCEPT ![w] = j]
    <3>1. Turn(w, c, c, j) /\ faults' \in 0 .. MaxFaults
      BY <2>1, ContextMoves DEF Turn, TenancyInv
    <3> QED  BY <3>1
  <2>2. CASE ActivateFails(w, c) /\ job' = [job EXCEPT ![w] = k]
    <3>1. PICK g \in Context : Turn(w, c, g, k) /\ faults' \in 0 .. MaxFaults
      BY <2>2, ContextMoves DEF Turn, TenancyInv
    <3> QED  BY <3>1
  <2> QED  BY <2>1, <2>2
<1> QED  BY <1>1, QuietStep

LEMMA WebWorker ==
  /\ WebWorkers \subseteq Workers /\ TaskWorkers \subseteq Workers
BY DEF Workers

LEMMA ArriveStep ==
  ASSUME TenancyInv, NEW w \in WebWorkers, NEW s \in Sessions, Arrive(w, s)
  PROVE  TenancyInv'
<1>1. PICK i \in Anywhere, u \in Anyone :
        i = session[s].institution /\ u = session[s].user /\ Own(u, i)
  BY DEF TenancyInv, TenancyTypeOK, Session, SessionsAreOwn
<1> DEFINE c == Scope(i, u, u \in Superusers)
<1>2. c \in Context /\ w \in Workers /\ job[w] = Idle
  BY <1>1, SessionReach, WebWorker DEF Arrive
<1>3. /\ session' \in [Sessions -> Session] /\ SessionsAreOwn'
      /\ UNCHANGED <<membership, session, joined, raced>>
  BY <1>2, Unmoved DEF Arrive
<1>4. CASE Activate(w, c) /\ job' = [job EXCEPT ![w] = Request(s)]
  <2>1. Request(s) \in Job /\ Sound(Request(s), c, c) /\ CleanJob(Request(s))
    BY <1>1 DEF Request, Job, Working, Sound, Settled, CleanJob, Anywhere
  <2> QED  BY <1>2, <1>3, <1>4, <2>1, MovedTo
<1>5. CASE /\ \E g \in PartlyApplied(guc[w], c) : ClearFrom(w, g, 1)
           /\ UNCHANGED job
  <2>1. PICK g \in Context : ClearFrom(w, g, 1)
    BY <1>2, <1>5, PartlyAppliedTyped, Unmoved
  <2>2. PICK h \in Context : Turn(w, NoContext, h, Idle) /\ faults' \in 0 .. MaxFaults
    BY <1>2, <1>5, <2>1, ContextMoves, Unmoved DEF Turn, TenancyInv
  <2> QED  BY <1>2, <1>3, <2>2, QuietStep
<1> QED  BY <1>1, <1>4, <1>5 DEF Arrive

LEMMA RespondStep ==
  ASSUME TenancyInv, NEW w \in WebWorkers, Respond(w)
  PROVE  TenancyInv'
<1>1. w \in Workers /\ job[w] # Idle
  BY WebWorker DEF Respond
<1>2. PICK j \in Job : j = job[w] /\ Own(j.user, j.institution)
  BY <1>1, Unmoved DEF Sound
<1>3. session' \in [Sessions -> Session] /\ SessionsAreOwn'
  BY <1>1, <1>2, SessionStep, Unmoved DEF Respond
<1>4. PICK h \in Context : Turn(w, NoContext, h, Idle) /\ faults' \in 0 .. MaxFaults
  <2>1. ClearFrom(w, guc[w], 0) /\ job' = [job EXCEPT ![w] = Idle]
    BY DEF Respond, Clear, Stop
  <2> QED  BY <1>1, <2>1, ContextMoves, Unmoved DEF Turn, TenancyInv
<1> QED  BY <1>1, <1>3, <1>4, QuietStep DEF Respond

LEMMA LoggedInTyped ==
  ASSUME NEW j \in Job, NEW u \in Users, Own(j.user, j.institution)
  PROVE  /\ LoggedIn(j, u) \in Job /\ LoggedIn(j, u).session = j.session
         /\ LoggedIn(j, u).user = u /\ Own(u, LoggedIn(j, u).institution)
         /\ LoggedIn(j, u).phase = j.phase
<1> DEFINE i == IF j.user = u THEN j.institution ELSE Nowhere
<1>1. i \in Anywhere /\ Own(u, i)
  BY DEF Job, Own, Anywhere
<1> HIDE DEF i
<1>2. LoggedIn(j, u) = [j EXCEPT !.user = u, !.institution = i, !.save = "always"]
  BY DEF LoggedIn, i
<1>3. /\ LoggedIn(j, u) \in Job
      /\ LoggedIn(j, u).session = j.session /\ LoggedIn(j, u).phase = j.phase
  BY <1>1, <1>2 DEF Job, Anyone
<1>4. LoggedIn(j, u).user = u /\ LoggedIn(j, u).institution = i
  BY <1>1, <1>2 DEF Job, Anyone
<1> QED  BY <1>1, <1>3, <1>4

LEMMA LocalLoginStep ==
  ASSUME TenancyInv, NEW w \in WebWorkers, NEW u \in Users, LocalLogin(w, u)
  PROVE  TenancyInv'
<1>1. w \in Workers /\ job[w] # Idle
  BY WebWorker DEF LocalLogin, In
<1>2. PICK j \in Job :
        j = LoggedIn(job[w], u) /\ j.user = u /\ Own(u, j.institution)
        /\ session' = [session EXCEPT ![j.session] = NoSession]
  <2>1. PICK old \in Job : old = job[w] /\ Own(old.user, old.institution)
    BY <1>1, Unmoved DEF Sound
  <2> QED  BY <2>1, LoggedInTyped DEF LocalLogin
<1> DEFINE c == Scope(Nowhere, u, FALSE)
           k == [j EXCEPT !.phase = "rescoped"]
<1>3. c \in Context
  BY ScopeTyped DEF Anywhere, Anyone
<1>4. k \in Job /\ Sound(k, c, c) /\ CleanJob(k)
  BY <1>2 DEF Job, Working, Sound, Settled, CleanJob
<1>5. /\ session' \in [Sessions -> Session] /\ SessionsAreOwn'
      /\ UNCHANGED <<membership, joined, raced>>
  BY <1>2, SessionStep DEF LocalLogin
<1>6. /\ Ended(j) \in Job
      /\ \A g \in Context : Sound(Ended(j), c, g) /\ CleanJob(Ended(j))
  BY <1>2, EndedIsSound
<1>7. \/ Activate(w, c) /\ job' = [job EXCEPT ![w] = k]
      \/ ActivateFails(w, c) /\ job' = [job EXCEPT ![w] = Ended(j)]
  BY <1>2 DEF LocalLogin
<1> HIDE DEF c, k
<1> QED  BY <1>1, <1>3, <1>4, <1>5, <1>6, <1>7, MovedTo

LEMMA AdoptStep ==
  ASSUME TenancyInv, NEW w \in WebWorkers, job[w] # Idle, NEW i \in Anywhere,
         Own(job[w].user, i), NEW save \in {"if_kept", "always"}, Adopt(w, i, save)
  PROVE  TenancyInv'
<1>1. PICK old \in Job : old = job[w]
  BY Unmoved, WebWorker
<1> DEFINE j == [old EXCEPT !.institution = i, !.save = save]
           k == [j EXCEPT !.phase = "answering"]
           c == Scope(i, old.user, FALSE)
<1>2. j \in Job /\ j.user = old.user
  BY <1>1 DEF Job
<1>3. k \in Job /\ k.user = old.user /\ k.institution = i /\ k.phase = "answering"
  BY <1>1 DEF Job, Working
<1>4. c \in Context /\ Reach(c) \subseteq OfUser(old.user)
  BY <1>1, ScopeTyped, SessionReach DEF Job
<1>5. \/ Activate(w, c) /\ job' = [job EXCEPT ![w] = k]
      \/ ActivateFails(w, c) /\ job' = [job EXCEPT ![w] = Ended(j)]
  BY <1>1, <1>2 DEF Adopt
<1> HIDE DEF j, k, c
<1>6. Sound(k, c, c) /\ CleanJob(k)
  BY <1>1, <1>3, <1>4 DEF Sound, Settled, CleanJob
<1>7. /\ Ended(j) \in Job
      /\ \A g \in Context : Sound(Ended(j), c, g) /\ CleanJob(Ended(j))
  BY <1>2, EndedIsSound
<1>8. UNCHANGED <<membership, session, joined, raced>>
  BY DEF Adopt
<1> QED  BY <1>3, <1>4, <1>5, <1>6, <1>7, <1>8, MovedTo, Unmoved, WebWorker

LEMMA ActiveIsOwn ==
  ASSUME TenancyInv, NEW u, NEW i \in Institutions, Active(u, i)
  PROVE  Own(u, i)
BY DEF Active, HasRow, Own, OfUser, TenancyInv, RowsWereJoined

LEMMA AdoptPrimaryStep ==
  ASSUME TenancyInv, NEW w \in WebWorkers, AdoptPrimary(w)
  PROVE  TenancyInv'
<1>1. PICK j \in Job : j = job[w] /\ job[w] # Idle /\ Own(j.user, j.institution)
  BY Unmoved, WebWorker DEF AdoptPrimary, In, Sound
<1>2. PICK i \in Anywhere :
        /\ Adopt(w, i, "always")
        /\ \/ i = j.institution
           \/ i \in Institutions /\ Active(j.user, i)
  BY <1>1 DEF AdoptPrimary, Job, VisiblePrimaries, Anywhere
<1>3. Own(j.user, i)
  BY <1>1, <1>2, ActiveIsOwn
<1> QED  BY <1>1, <1>2, <1>3, AdoptStep

LEMMA SwitchInstitutionStep ==
  ASSUME TenancyInv, NEW w \in WebWorkers, NEW i \in Institutions, SwitchInstitution(w, i)
  PROVE  TenancyInv'
<1>1. Own(job[w].user, i)
  BY ActiveIsOwn DEF SwitchInstitution
<1> QED  BY <1>1, AdoptStep DEF SwitchInstitution, In, Anywhere

LEMMA LogoutStep ==
  ASSUME TenancyInv, NEW w \in WebWorkers, Logout(w)
  PROVE  TenancyInv'
<1>1. PICK j \in Job : j = job[w] /\ job[w] # Idle /\ w \in Workers
  BY Unmoved, WebWorker DEF Logout, In
<1>2. session' \in [Sessions -> Session] /\ SessionsAreOwn'
  BY <1>1, SessionStep, Unmoved DEF Logout
<1>3. Turn(w, context[w], guc[w], Ended(j)) /\ faults' \in 0 .. MaxFaults
  BY <1>1, Unmoved DEF Turn, Logout
<1> QED  BY <1>1, <1>2, <1>3, EndedIsSound, Unmoved, QuietStep DEF Logout

LEMMA OidcLoginStep ==
  ASSUME TenancyInv, NEW w \in WebWorkers, NEW u \in Members, NEW i \in Institutions,
         OidcLogin(w, u, i)
  PROVE  TenancyInv'
<1>1. PICK old \in Job :
        /\ old = job[w] /\ job[w] # Idle /\ w \in Workers /\ Own(old.user, old.institution)
        /\ guc[w] = Scope(old.institution, old.user, old.user \in Superusers)
        /\ context[w] = guc[w]
  BY Unmoved, WebWorker DEF OidcLogin, In, Sound, Settled
<1>2. PICK o \in Context : o = context[w] /\ Reach(o) \subseteq OfUser(o.user)
  <2>1. Scope(old.institution, old.user, old.user \in Superusers).user = old.user
    BY DEF Scope
  <2>2. guc[w] \in Context /\ old.institution \in Anywhere /\ old.user \in Anyone
    BY <1>1, Unmoved DEF Job
  <2>3. Reach(guc[w]) \subseteq OfUser(guc[w].user)
    BY <1>1, <2>1, <2>2, SessionReach
  <2> QED  BY <1>1, <2>2, <2>3
<1>3. u \in Users /\ u \in Anyone /\ i \in Anywhere
  BY TenancyAssumption DEF Anyone, Anywhere
<1> DEFINE c == Scope(i, u, FALSE)
           l == LoggedIn(old, u)
           j == [l EXCEPT !.claim = i, !.outer = o]
           k == [j EXCEPT !.phase = "nested"]
<1>4. l \in Job /\ l.user = u /\ Own(u, l.institution)
  BY <1>1, <1>3, LoggedInTyped
<1>5. c \in Context
  BY <1>3, ScopeTyped
<1>6. \/ Activate(w, c) /\ job' = [job EXCEPT ![w] = k]
      \/ ActivateFails(w, c) /\ job' = [job EXCEPT ![w] = Ended(j)]
  BY <1>1, <1>2 DEF OidcLogin
<1> HIDE DEF l
<1>7. j \in Job
  BY <1>3, <1>4 DEF Job
<1>8. /\ k \in Job /\ k.user = u /\ k.institution = l.institution
      /\ k.phase = "nested" /\ k.claim = i /\ k.outer = o
  BY <1>3, <1>4 DEF Job, Working
<1> HIDE DEF j, k
<1>9. Sound(k, c, c) /\ CleanJob(k)
  BY <1>2, <1>4, <1>8 DEF Sound, Settled, CleanJob
<1>10. /\ Ended(j) \in Job
       /\ \A g \in Context : Sound(Ended(j), c, g) /\ CleanJob(Ended(j))
  BY <1>7, EndedIsSound
<1>11. UNCHANGED <<membership, session, joined, raced>>
  BY DEF OidcLogin
<1> HIDE DEF c
<1> QED  BY <1>1, <1>5, <1>6, <1>8, <1>9, <1>10, <1>11, MovedTo, Unmoved

\* The row of a user at an institution is written or deleted.
LEMMA MembershipStep ==
  ASSUME TenancyInv, NEW w \in Workers, NEW u \in Members, NEW i \in Institutions,
         NEW m \in Membership \cup {NoRow}, NEW j \in Job, j.phase # "checked",
         \A v \in Workers : job'[v] = IF v = w THEN j ELSE job[v],
         membership' = [membership EXCEPT ![u][i] = m],
         joined' = IF m = NoRow THEN joined ELSE [joined EXCEPT ![u] = @ \cup {i}],
         raced' = IF Racing(w, u) THEN raced \cup {u} ELSE raced,
         m # NoRow => (m.primary => u \in raced \/ Primaries(u) \subseteq {i})
  PROVE  /\ membership' \in [Members -> [Institutions -> Membership \cup {NoRow}]]
         /\ joined' \in [Members -> SUBSET Institutions]
         /\ raced' \subseteq Members
         /\ \A v \in Members : joined[v] \subseteq joined'[v]
         /\ RowsWereJoined' /\ CheckedIsClean' /\ SinglePrimary'
<1>1. /\ membership' \in [Members -> [Institutions -> Membership \cup {NoRow}]]
      /\ \A v \in Members, k \in Institutions :
           membership'[v][k] = IF v = u /\ k = i THEN m ELSE membership[v][k]
  BY DEF TenancyInv, TenancyTypeOK
<1>2. /\ joined' \in [Members -> SUBSET Institutions]
      /\ \A v \in Members : joined[v] \subseteq joined'[v]
      /\ m # NoRow => i \in joined'[u]
  BY DEF TenancyInv, TenancyTypeOK
<1>3. raced' \subseteq Members /\ raced \subseteq raced'
  BY DEF TenancyInv, TenancyTypeOK
<1>4. RowsWereJoined'
  BY <1>1, <1>2 DEF TenancyInv, RowsWereJoined
<1>5. \A v : v # u => Primaries(v)' = Primaries(v)
  BY <1>1 DEF Primaries, HasRow
<1>6. /\ Primaries(u)' \subseteq Primaries(u) \cup {i}
      /\ i \in Primaries(u)' => m # NoRow /\ m.primary
  BY <1>1 DEF Primaries, HasRow
<1>7. SinglePrimary'
  <2> SUFFICES ASSUME NEW v \in Members \ raced', NEW k \in Primaries(v)', NEW l \in Primaries(v)'
               PROVE  k = l
    BY DEF SinglePrimary
  <2>1. \A x, y \in Primaries(v) : x = y
    BY <1>3 DEF TenancyInv, SinglePrimary
  <2> QED  BY <1>3, <1>5, <1>6, <2>1
<1>8. ASSUME NEW v \in Workers, NEW q, q = job'[v], q # Idle
      PROVE  CleanJob(q)'
  <2> SUFFICES ASSUME q.phase = "checked", q.user \notin raced'
               PROVE  Primaries(q.user)' \subseteq {q.claim}
    BY DEF CleanJob
  <2>1. v # w /\ q = job[v] /\ q.user \notin raced
    BY <1>3, <1>8
  <2>2. q.user # u
    BY <1>8, <2>1 DEF Racing, In
  <2>3. Primaries(q.user) \subseteq {q.claim}
    BY <1>8, <2>1 DEF TenancyInv, CheckedIsClean, CleanJob
  <2> QED  BY <1>5, <2>2, <2>3
<1>9. CheckedIsClean'
  BY <1>8 DEF CheckedIsClean, CleanJob, Primaries, HasRow
<1> QED  BY <1>1, <1>2, <1>3, <1>4, <1>7, <1>9

LEMMA InPhase ==
  ASSUME NEW j \in Job, NEW phase \in Working
  PROVE  /\ [j EXCEPT !.phase = phase] \in Job
         /\ [j EXCEPT !.phase = phase].phase = phase
         /\ [j EXCEPT !.phase = phase].user = j.user
         /\ [j EXCEPT !.phase = phase].institution = j.institution
         /\ [j EXCEPT !.phase = phase].claim = j.claim
         /\ [j EXCEPT !.phase = phase].outer = j.outer
BY DEF Job

\* The end of the nested context, once the membership is there.
LEMMA LinkedIsSound ==
  ASSUME TenancyInv, NEW j \in Job, j.phase \in {"nested", "checked"},
         NEW c, NEW g, Sound(j, c, g), NEW d \in Context, d = j.outer,
         NEW h, h \in PartlyApplied(g, d), j.claim \in joined[j.user]
  PROVE  /\ [j EXCEPT !.phase = "linked"] \in Job
         /\ Sound([j EXCEPT !.phase = "linked"], d, h)
         /\ CleanJob([j EXCEPT !.phase = "linked"])
<1> DEFINE k == [j EXCEPT !.phase = "linked"]
<1>1. /\ k \in Job /\ k.phase = "linked" /\ k.user = j.user /\ k.institution = j.institution
      /\ k.claim = j.claim /\ k.outer = j.outer
  BY InPhase DEF Working
<1> HIDE DEF k
<1>2. k.claim \in OfUser(k.user)
  BY <1>1 DEF Sound, Settled, OfUser
<1>3. Sound(k, d, h) /\ CleanJob(k)
  BY <1>1, <1>2 DEF Sound, Settled, CleanJob, Own
<1> QED  BY <1>1, <1>3 DEF k

LEMMA FindMembershipStep ==
  ASSUME TenancyInv, NEW w \in WebWorkers, FindMembership(w)
  PROVE  TenancyInv'
<1>1. PICK j \in Job, c \in Context \cup {NoContext}, g \in Context :
        /\ j = job[w] /\ job[w] # Idle /\ w \in Workers /\ c = context[w] /\ g = guc[w]
        /\ Sound(j, c, g) /\ j.phase = "nested"
  BY Unmoved, WebWorker DEF FindMembership, In
<1>2. /\ session' \in [Sessions -> Session] /\ SessionsAreOwn'
      /\ UNCHANGED <<membership, session, joined, raced>>
  BY <1>1, Unmoved DEF FindMembership
<1>3. j.user \in Members /\ j.claim \in Institutions /\ j.outer \in Context /\ g.user = j.user
  BY <1>1 DEF Sound, Settled, Scope
<1>4. CASE HasRow(j.user, j.claim)
  <2>1. Leave(w) /\ job' = [job EXCEPT ![w] = [j EXCEPT !.phase = "linked"]]
    BY <1>1, <1>4 DEF FindMembership, Enter
  <2>2. PICK h \in Context :
          /\ context' = [context EXCEPT ![w] = j.outer] /\ guc' = [guc EXCEPT ![w] = h]
          /\ faults' \in 0 .. MaxFaults /\ h \in PartlyApplied(g, j.outer)
    BY <1>1, <1>3, <2>1, LeaveMoves DEF TenancyInv
  <2>3. j.claim \in joined[j.user]
    BY <1>3, <1>4 DEF HasRow, TenancyInv, RowsWereJoined
  <2>4. /\ [j EXCEPT !.phase = "linked"] \in Job
        /\ Sound([j EXCEPT !.phase = "linked"], j.outer, h)
        /\ CleanJob([j EXCEPT !.phase = "linked"])
    BY <1>1, <1>3, <2>2, <2>3, LinkedIsSound
  <2>5. Turn(w, j.outer, h, [j EXCEPT !.phase = "linked"])
    BY <2>1, <2>2 DEF Turn
  <2> QED  BY <1>1, <1>2, <1>3, <2>2, <2>4, <2>5, QuietStep
<1>5. CASE ~HasRow(j.user, j.claim)
  <2> DEFINE k == [j EXCEPT !.phase = "checked"]
  <2>1. Turn(w, c, g, k) /\ faults' \in 0 .. MaxFaults
    BY <1>1, <1>5, Unmoved DEF FindMembership, Enter, Turn
  <2>2. /\ k \in Job /\ k.phase = "checked" /\ k.user = j.user /\ k.institution = j.institution
        /\ k.claim = j.claim /\ k.outer = j.outer
    BY InPhase DEF Working
  <2> HIDE DEF k
  <2>3. Sound(k, c, g)
    BY <1>1, <2>2 DEF Sound, Settled, Own
  <2>4. Primaries(j.user) \subseteq {j.claim}
    BY <1>1, <1>3, <1>5
    DEF FindMembership, CleanFor, VisiblePrimaries, Primaries, MembershipVisible
  <2>5. CleanJob(k)
    BY <2>2, <2>4 DEF CleanJob
  <2> QED  BY <1>1, <1>2, <2>1, <2>2, <2>3, <2>5, QuietStep
<1> QED  BY <1>4, <1>5

LEMMA InsertMembershipStep ==
  ASSUME TenancyInv, NEW w \in WebWorkers, InsertMembership(w)
  PROVE  TenancyInv'
<1>1. PICK j \in Job, c \in Context \cup {NoContext}, g \in Context :
        /\ j = job[w] /\ job[w] # Idle /\ w \in Workers /\ c = context[w] /\ g = guc[w]
        /\ Sound(j, c, g) /\ CleanJob(j) /\ j.phase = "checked"
  BY Unmoved, WebWorker DEF InsertMembership, In
<1>2. PICK u \in Members, i \in Institutions, o \in Context :
        u = j.user /\ i = j.claim /\ o = j.outer
  BY <1>1 DEF Sound, Settled
<1> DEFINE m == [primary |-> TRUE, active |-> TRUE]
           k == [j EXCEPT !.phase = "linked"]
<1>3. m \in Membership /\ m # NoRow
  <2>1. m \in Membership
    BY DEF Membership
  <2> QED  BY <2>1, TenancyAssumption
<1>4. Leave(w) /\ job' = [job EXCEPT ![w] = k]
  BY <1>1 DEF InsertMembership, Enter
<1>5. PICK h \in Context :
        /\ context' = [context EXCEPT ![w] = o] /\ guc' = [guc EXCEPT ![w] = h]
        /\ faults' \in 0 .. MaxFaults /\ h \in PartlyApplied(g, o)
  BY <1>1, <1>2, <1>4, LeaveMoves DEF TenancyInv
<1>6. /\ k \in Job /\ k.phase = "linked" /\ k.user = u /\ k.institution = j.institution
      /\ k.claim = i /\ k.outer = o
  BY <1>2, InPhase DEF Working
<1> HIDE DEF k
<1>7. \A v \in Workers : job'[v] = IF v = w THEN k ELSE job[v]
  BY <1>4 DEF TenancyInv, TenancyTypeOK
<1>8. /\ membership' = [membership EXCEPT ![u][i] = m]
      /\ joined' = [joined EXCEPT ![u] = @ \cup {i}]
      /\ raced' = IF Racing(w, u) THEN raced \cup {u} ELSE raced
      /\ UNCHANGED session
  BY <1>1, <1>2 DEF InsertMembership
<1>9. u \in raced \/ Primaries(u) \subseteq {i}
  BY <1>1, <1>2 DEF CleanJob
<1> HIDE DEF m
<1>10. /\ membership' \in [Members -> [Institutions -> Membership \cup {NoRow}]]
       /\ joined' \in [Members -> SUBSET Institutions]
       /\ raced' \subseteq Members
       /\ \A v \in Members : joined[v] \subseteq joined'[v]
       /\ RowsWereJoined' /\ CheckedIsClean' /\ SinglePrimary'
  BY <1>1, <1>3, <1>6, <1>7, <1>8, <1>9, MembershipStep
<1>11. OfUser(j.user) \subseteq OfUser(j.user)' /\ OfUser(o.user) \subseteq OfUser(o.user)'
  BY <1>10 DEF OfUser
<1>12. k.claim \in OfUser(k.user)'
  BY <1>6, <1>8 DEF OfUser, TenancyInv, TenancyTypeOK
<1>13. Sound(k, o, h)'
  <2>1. g = Scope(i, u, FALSE) /\ Reach(o) \subseteq OfUser(o.user)
    BY <1>1, <1>2 DEF Sound, Settled
  <2>2. Own(k.user, k.institution)'
    BY <1>1, <1>2, <1>6, <1>11 DEF Sound, Own
  <2> QED  BY <1>2, <1>5, <1>6, <1>11, <1>12, <2>1, <2>2 DEF Sound, Settled
<1>14. Turn(w, o, h, k)
  BY <1>4, <1>5 DEF Turn, k
<1>15. /\ context' \in [Workers -> Context \cup {NoContext}]
       /\ guc' \in [Workers -> Context]
       /\ job' \in [Workers -> Job \cup {Idle}]
       /\ JobsSound'
  BY <1>1, <1>6, <1>10, <1>13, <1>14, TurnStep
<1>16. session' \in [Sessions -> Session] /\ SessionsAreOwn'
  BY <1>8, <1>10 DEF TenancyInv, TenancyTypeOK, SessionsAreOwn, Own, OfUser, Session
<1> QED  BY <1>5, <1>10, <1>15, <1>16 DEF TenancyInv, TenancyTypeOK

LEMMA InsertRefusedStep ==
  ASSUME TenancyInv, NEW w \in WebWorkers, InsertRefused(w)
  PROVE  TenancyInv'
<1>1. PICK j \in Job, c \in Context \cup {NoContext}, g \in Context :
        /\ j = job[w] /\ job[w] # Idle /\ w \in Workers /\ c = context[w] /\ g = guc[w]
        /\ Sound(j, c, g) /\ j.phase = "checked"
  BY Unmoved, WebWorker DEF InsertRefused, In
<1> DEFINE k == [j EXCEPT !.phase = "nested"]
<1>2. /\ k \in Job /\ k.phase = "nested" /\ k.user = j.user /\ k.institution = j.institution
      /\ k.claim = j.claim /\ k.outer = j.outer
  BY InPhase DEF Working
<1>3. Turn(w, c, g, k) /\ faults' \in 0 .. MaxFaults
  BY <1>1, Unmoved DEF InsertRefused, Enter, Turn
<1> HIDE DEF k
<1>4. Sound(k, c, g) /\ CleanJob(k)
  BY <1>1, <1>2 DEF Sound, Settled, Own, CleanJob
<1> QED  BY <1>1, <1>2, <1>3, <1>4, Unmoved, QuietStep DEF InsertRefused

LEMMA SyncFailsStep ==
  ASSUME TenancyInv, NEW w \in WebWorkers, SyncFails(w)
  PROVE  TenancyInv'
<1>1. PICK j \in Job : j = job[w] /\ job[w] # Idle /\ w \in Workers
  BY Unmoved, WebWorker DEF SyncFails, In
<1>2. PICK c \in Context \cup {NoContext}, g \in Context :
        /\ context' = [context EXCEPT ![w] = c] /\ guc' = [guc EXCEPT ![w] = g]
        /\ faults' \in 0 .. MaxFaults
  BY <1>1, LeaveMoves DEF SyncFails, TenancyInv
<1>3. Turn(w, c, g, Ended(j))
  BY <1>1, <1>2 DEF SyncFails, Turn
<1> QED  BY <1>1, <1>2, <1>3, EndedIsSound, Unmoved, QuietStep DEF SyncFails

LEMMA CompleteOidcStep ==
  ASSUME TenancyInv, NEW w \in WebWorkers, CompleteOidc(w)
  PROVE  TenancyInv'
<1>1. PICK j \in Job :
        j = job[w] /\ job[w] # Idle /\ w \in Workers /\ Own(j.user, j.institution)
  BY Unmoved, WebWorker DEF CompleteOidc, In, Sound
<1>2. session' \in [Sessions -> Session] /\ SessionsAreOwn'
  BY <1>1, SessionStep DEF CompleteOidc
<1> DEFINE e == [j EXCEPT !.phase = "ending", !.claim = Nowhere, !.outer = NoContext]
<1>3. e \in Job /\ e.phase = "ending" /\ e.user = j.user /\ e.institution = j.institution
  BY DEF Job, Anywhere
<1>4. e \in Job /\ Sound(e, context[w], guc[w]) /\ CleanJob(e)
  BY <1>1, <1>3 DEF Sound, Settled, CleanJob
<1>5. PICK k \in Job :
        job' = [job EXCEPT ![w] = k] /\ Sound(k, context[w], guc[w]) /\ CleanJob(k)
  BY <1>1, <1>4, EndedIsSound DEF CompleteOidc
<1>6. Turn(w, context[w], guc[w], k) /\ faults' \in 0 .. MaxFaults
  BY <1>1, <1>5, Unmoved DEF Turn, CompleteOidc
<1> QED  BY <1>1, <1>2, <1>5, <1>6, Unmoved, QuietStep DEF CompleteOidc

LEMMA AdministerStep ==
  ASSUME TenancyInv, NEW w \in WebWorkers, NEW u \in Members, NEW i \in Institutions,
         NEW m \in Membership \cup {NoRow}, Administer(w, u, i, m)
  PROVE  TenancyInv'
<1>1. PICK j \in Job, c \in Context \cup {NoContext}, g \in Context :
        /\ j = job[w] /\ job[w] # Idle /\ w \in Workers /\ c = context[w] /\ g = guc[w]
        /\ Sound(j, c, g) /\ j.phase = "served" /\ j.user \in Superusers
  BY Unmoved, WebWorker DEF Administer, In
<1>2. g.bypass /\ c = g
  <2>1. g = Scope(j.institution, j.user, j.user \in Superusers) /\ c = g
    BY <1>1 DEF Sound, Settled
  <2>2. g.bypass = (j.user \in Superusers)
    BY <2>1 DEF Scope
  <2> QED  BY <1>1, <2>1, <2>2
<1> DEFINE k == [j EXCEPT !.phase = "answering"]
<1>3. k \in Job /\ k.phase = "answering" /\ k.user = j.user /\ k.institution = j.institution
  BY InPhase DEF Working
<1>4. Turn(w, c, g, k)
  BY <1>1, Unmoved DEF Administer, Enter, Turn
<1> HIDE DEF k
<1>5. \A v \in Workers : job'[v] = IF v = w THEN k ELSE job[v]
  BY <1>4 DEF Turn, TenancyInv, TenancyTypeOK
<1>6. m # NoRow => (m.primary => u \in raced \/ Primaries(u) \subseteq {i})
  BY <1>1, <1>2
  DEF Administer, CleanFor, VisiblePrimaries, MembershipVisible, InReach, Primaries
<1>7. /\ membership' \in [Members -> [Institutions -> Membership \cup {NoRow}]]
      /\ joined' \in [Members -> SUBSET Institutions]
      /\ raced' \subseteq Members
      /\ \A v \in Members : joined[v] \subseteq joined'[v]
      /\ RowsWereJoined' /\ CheckedIsClean' /\ SinglePrimary'
  BY <1>1, <1>3, <1>5, <1>6, MembershipStep DEF Administer
<1>8. Sound(k, c, g)'
  <2>1. OfUser(j.user) \subseteq OfUser(j.user)'
    BY <1>7 DEF OfUser
  <2>2. OfUser(j.user) = Institutions
    BY <1>1 DEF OfUser
  <2> QED  BY <1>1, <1>2, <1>3, <2>1, <2>2 DEF Sound, Settled, Own, Reach
<1>9. /\ context' \in [Workers -> Context \cup {NoContext}]
      /\ guc' \in [Workers -> Context]
      /\ job' \in [Workers -> Job \cup {Idle}]
      /\ JobsSound'
  BY <1>1, <1>3, <1>4, <1>7, <1>8, TurnStep
<1>10. session' \in [Sessions -> Session] /\ SessionsAreOwn'
  BY <1>7 DEF Administer, TenancyInv, TenancyTypeOK, SessionsAreOwn, Own, OfUser, Session
<1> QED  BY <1>7, <1>9, <1>10 DEF Administer, TenancyInv, TenancyTypeOK

LEMMA StartTaskStep ==
  ASSUME TenancyInv, NEW w \in TaskWorkers, NEW i \in Anywhere, StartTask(w, i)
  PROVE  TenancyInv'
<1> DEFINE c == Scope(i, Anonymous, i = Nowhere)
           j == [phase |-> "task", session |-> NoSession, user |-> Anonymous,
                 institution |-> Nowhere, claim |-> i, outer |-> context[w], save |-> "never"]
<1>1. c \in Context /\ w \in Workers
  BY WebWorker DEF Scope, Context, Anyone
<1>2. j \in Job /\ Sound(j, c, c) /\ CleanJob(j)
  BY <1>1, Unmoved DEF Job, Working, Anyone, Anywhere, Sound, Settled, Own, CleanJob
<1>3. \/ Activate(w, c) /\ job' = [job EXCEPT ![w] = j]
      \/ ActivateFails(w, c) /\ job' = [job EXCEPT ![w] = Idle]
  BY <1>1, Unmoved DEF StartTask
<1> HIDE DEF c, j
<1> QED  BY <1>1, <1>2, <1>3, MovedTo, Unmoved DEF StartTask

LEMMA EndTaskStep ==
  ASSUME TenancyInv, NEW w \in Workers, EndTask(w)
  PROVE  TenancyInv'
<1>1. PICK c \in Context \cup {NoContext}, g \in Context :
        Turn(w, c, g, Idle) /\ faults' \in 0 .. MaxFaults
  BY LeaveMoves DEF EndTask, Stop, Turn, TenancyInv
<1> QED  BY <1>1, Unmoved, QuietStep DEF EndTask

LEMMA TenancyInvariance == TenancySpec => []TenancyInv
<1>1. TenancyInit => TenancyInv
  <2> SUFFICES ASSUME TenancyInit PROVE TenancyInv
    OBVIOUS
  <2>1. Deny \in Context /\ NoSession \in Session
    BY ScopeTyped DEF Deny, NoSession, Session, Anywhere, Anyone
  <2>2. TenancyTypeOK
    BY <2>1, TenancyAssumption DEF TenancyInit, TenancyTypeOK
  <2> QED  BY <2>2 DEF TenancyInit, TenancyInv, RowsWereJoined, SessionsAreOwn, Own, NoSession,
                       JobsSound, CheckedIsClean, SinglePrimary, Primaries, HasRow
<1>2. TenancyInv /\ [TenancyNext]_tenancy => TenancyInv'
  <2> SUFFICES ASSUME TenancyInv, [TenancyNext]_tenancy PROVE TenancyInv'
    OBVIOUS
  <2>1. CASE UNCHANGED tenancy
    <3>1. \A u : OfUser(u)' = OfUser(u)
      BY <2>1 DEF tenancy, OfUser
    <3>2. TenancyTypeOK' /\ RowsWereJoined' /\ SessionsAreOwn'
      BY <2>1, <3>1 DEF tenancy, TenancyInv, TenancyTypeOK, RowsWereJoined, SessionsAreOwn, Own
    <3>3. JobsSound'
      BY <2>1, <3>1 DEF tenancy, TenancyInv, JobsSound, Sound, Settled, Own
    <3>4. CheckedIsClean' /\ SinglePrimary'
      BY <2>1 DEF tenancy, TenancyInv, CheckedIsClean, CleanJob, SinglePrimary, Primaries, HasRow
    <3> QED  BY <3>2, <3>3, <3>4 DEF TenancyInv
  <2> QED
    BY <2>1, TenancyAssumption, ReconnectStep, EndTaskStep, ArriveStep, RespondStep, LogoutStep, AdoptPrimaryStep,
       FindMembershipStep, InsertMembershipStep, InsertRefusedStep, SyncFailsStep,
       CompleteOidcStep, LocalLoginStep, SwitchInstitutionStep, OidcLoginStep,
       AdministerStep, StartTaskStep
    DEF TenancyNext
<1> QED  BY <1>1, <1>2, PTL DEF TenancySpec

------------------------------------------------------------------------------
\* The tables, the settings and the jobs in flight keep their types.
THEOREM TenancyTypeCorrectness == TenancySpec => []TenancyTypeOK
<1>1. TenancyInv => TenancyTypeOK
  BY DEF TenancyInv
<1> QED  BY <1>1, TenancyInvariance, PTL

\* FR-006: whichever connections failed before and however half way, no job
\* reaches rows of an institution that its user was never made a member of.
THEOREM TenantsAreIsolated == TenancySpec => []TenantIsolation
<1>1. ASSUME TenancyInv, NEW w \in Workers, job[w] # Idle, job[w].phase \in Working
      PROVE  Reach(guc[w]) \subseteq Entitled(job[w])
  <2>1. PICK j \in Job, c \in Context \cup {NoContext}, g \in Context :
          j = job[w] /\ c = context[w] /\ g = guc[w] /\ Sound(j, c, g)
    BY <1>1, Unmoved
  <2>2. j.phase \in Working
    BY <1>1, <2>1
  <2>3. CASE j.phase = "task"
    <3>1. g = Scope(j.claim, Anonymous, j.claim = Nowhere)
      BY <2>1, <2>3 DEF Sound, Settled
    <3>2. \A i \in Reach(g) : j.claim = Nowhere \/ i = j.claim
      BY <3>1 DEF Scope, Reach, InReach
    <3> QED  BY <2>1, <2>3, <3>2 DEF Entitled, Reach
  <2>4. CASE j.phase \in {"nested", "checked"}
    BY <2>1, <2>4 DEF Sound, Settled, Scope, Reach, InReach, Entitled
  <2>5. CASE j.phase = "linked"
    <3>1. PICK o \in Context :
            /\ o = j.outer /\ Reach(o) \subseteq OfUser(o.user)
            /\ j.claim \in OfUser(j.user)
            /\ g \in PartlyApplied(Scope(j.claim, j.user, FALSE), o)
      BY <2>1, <2>5 DEF Sound, Settled
    <3>2. \A i \in Reach(g) : i = j.claim \/ i \in Reach(o)
      <4>1. PICK old \in Context : old = Scope(j.claim, j.user, FALSE)
        BY ScopeTyped DEF Job
      <4>2. ~old.bypass /\ \A i \in Reach(old) : i = j.claim
        BY <4>1 DEF Scope, Reach, InReach
      <4> QED  BY <3>1, <4>1, <4>2, PartlyAppliedReach
    <3>3. Entitled(j) = OfUser(j.user) \cup OfUser(o.user)
      BY <2>5, <3>1 DEF Entitled
    <3> QED  BY <2>1, <3>1, <3>2, <3>3
  <2>6. CASE j.phase = "served"
    BY <2>1, <2>6, SessionReach DEF Sound, Settled, Entitled, Job
  <2>7. CASE j.phase = "rescoped"
    BY <2>1, <2>7, RowSecurityAssumption DEF Sound, Settled, Scope, Reach, InReach, Entitled
  <2>8. CASE j.phase = "answering"
    BY <2>1, <2>8 DEF Sound, Settled, Entitled
  <2> QED  BY <2>1, <2>2, <2>3, <2>4, <2>5, <2>6, <2>7, <2>8 DEF Working
<1>2. TenancyInv => TenantIsolation
  BY <1>1 DEF TenantIsolation
<1> QED  BY <1>2, TenancyInvariance, PTL

\* InstitutionMembership.clean() looks for another primary from within one
\* institution; logins and forms that use it leave a user one primary at most,
\* unless two were being added at a time.
THEOREM PrimaryIsUnique == TenancySpec => []OnePrimary
<1>1. ASSUME TenancyInv, NEW u \in Members \ raced
      PROVE  Cardinality(Primaries(u)) <= 1
  <2>1. \A i, k \in Primaries(u) : i = k
    BY <1>1 DEF TenancyInv, SinglePrimary
  <2>2. CASE Primaries(u) = {}
    BY <2>2, FS_EmptySet
  <2>3. ASSUME NEW i \in Primaries(u) PROVE Cardinality(Primaries(u)) <= 1
    <3>1. Primaries(u) = {i}
      BY <2>1, <2>3
    <3> QED  BY <3>1, FS_Singleton
  <2> QED  BY <2>2, <2>3
<1>2. TenancyInv => OnePrimary
  BY <1>1 DEF OnePrimary, Primaries
<1> QED  BY <1>2, TenancyInvariance, PTL
==============================================================================
