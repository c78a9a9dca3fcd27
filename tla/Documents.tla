------------------------------ MODULE Documents ------------------------------
(***************************************************************************)
(* Documents, their versions in the object store, signatures and minutes.  *)
(*                                                                         *)
(* The client puts objects with a presigned URL, which stays valid: the    *)
(* store changes on its own.  confirm() and sign() first query and read    *)
(* the store, then write in one transaction; PATCH and the minutes check   *)
(* for signatures and then save.  Other requests run in between.  Minutes  *)
(* name the document that backs them, and a PATCH may name another one.    *)
(***************************************************************************)
EXTENDS Naturals, FiniteSetsExt

CONSTANTS Documents,
          Minutes,     \* ids of minutes
          Contents,    \* what an object may contain; stands for its SHA-256
          Titles,      \* what a PATCH may write of a document
          ActaTypes,   \* what minutes say
          Requests,    \* requests that may be in flight together
          Unborn,      \* a document that was never there,
          Deleted,     \* is gone, or
          Bereft,      \* is gone for good, with what it belongs to
          NoObject, NoMinutes,
          MaxVersion,  \* bound: versions of a document
          Objects      \* bound: the objects the bucket may hold

Numbers == 1..MaxVersion
DocumentRow == [title : Titles, is_signed : BOOLEAN]
VersionRow == [key : Objects, sha256 : Contents,
               signed : BOOLEAN]   \* has a DigitalSignature
MinutesRow == [document : Documents, acta : ActaTypes]
Gone == {Unborn, Deleted, Bereft}

Idle == [phase |-> "idle"]
Uploading ==
  [phase : {"checked", "uploaded"}, document : Documents, version : Numbers,
   key : Objects, sha256 : Contents]
Signing ==
  [phase : {"unsigned", "verified"}, document : Documents, version : Numbers,
   key : Objects, sha256 : Contents]

\* Edits of a document; and of minutes: what they shall be, or that they shall
\* not be, and the document whose signatures count.
Editing ==
  [phase : {"loaded", "clean"}, document : Documents, row : DocumentRow]
    \cup [phase : {"acta", "cleanacta"}, document : Documents, minutes : Minutes,
          row : MinutesRow \cup {NoMinutes}]
    \cup [phase : {"doomed"}, document : Documents]

ASSUME DocumentsAssumption ==
  /\ DocumentRow \cap Gone = {}
  /\ NoObject \notin Contents /\ NoMinutes \notin MinutesRow
  /\ MaxVersion \in Nat \ {0}
  /\ Objects \subseteq Documents \X Numbers  \* of the objects of a number, one

VARIABLES
  document,  \* documents_document
  versions,  \* documents_documentversion, by version number
  minutes,   \* documents_minutes
  store,     \* the objects in the bucket
  issued,    \* objects a presigned PUT was issued for
  put,       \* history variable: what an object ever contained
  req

tables == <<document, versions, minutes, store, issued, put>>
vars == <<tables, req>>

Init ==
  /\ document = [d \in Documents |-> Unborn]
  /\ versions = [d \in Documents |-> <<>>]
  /\ minutes = [m \in Minutes |-> NoMinutes]
  /\ store = [o \in Objects |-> NoObject]
  /\ issued = {}
  /\ put = [o \in Objects |-> {}]
  /\ req = [r \in Requests |-> Idle]

------------------------------------------------------------------------------
Begin(r, q) == req[r] = Idle /\ req' = [req EXCEPT ![r] = q] /\ UNCHANGED tables
Goto(r, phase) == req' = [req EXCEPT ![r].phase = phase] /\ UNCHANGED tables
Finish(r) == req' = [req EXCEPT ![r] = Idle]
Abandon(r) == req[r] # Idle /\ Finish(r) /\ UNCHANGED tables

Exists(d) == document[d] \notin Gone
NextVersion(d) == Max(DOMAIN versions[d] \cup {0}) + 1
HasSignature(d) == \E v \in DOMAIN versions[d] : versions[d][v].signed
On(m, d) == minutes[m] # NoMinutes /\ minutes[m].document = d
About(r, m) == req[r].phase \in {"acta", "cleanacta"} /\ req[r].minutes = m
FlaggedSigned(d) == Exists(d) /\ document[d].is_signed

------------------------------------------------------------------------------
\* The row is committed before the URL is made, which may fail.
Presign(d) ==
  /\ document[d] = Unborn
  /\ \E t \in Titles : document' = [document EXCEPT ![d] = [title |-> t, is_signed |-> FALSE]]
  /\ issued' \in {issued, issued \cup (Objects \cap {<<d, 1>>})}
  /\ UNCHANGED <<versions, minutes, store, put, req>>

PresignNextVersion(d) ==
  /\ Exists(d) /\ ~FlaggedSigned(d)
  /\ NextVersion(d) \in Numbers
  /\ issued' = issued \cup (Objects \cap {<<d, NextVersion(d)>>})
  /\ UNCHANGED <<document, versions, minutes, store, put, req>>

\* The client, with a URL it was given, whatever became of the document.
PutObject(o) ==
  /\ o \in issued
  /\ \E x \in Contents :
       /\ store' = [store EXCEPT ![o] = x]
       /\ put' = [put EXCEPT ![o] = @ \cup {x}]
  /\ UNCHANGED <<document, versions, minutes, issued, req>>

------------------------------------------------------------------------------
\* confirm(): the key of the request must begin like that of the next version.
\* That says nothing of where it leads: the storage resolves "..", so the key
\* may name any object, of another number or another document.
BeginConfirm(r, d) ==
  /\ Exists(d) /\ ~FlaggedSigned(d)
  /\ NextVersion(d) \in Numbers
  /\ \E x \in Contents, o \in Objects :
       Begin(r, [phase |-> "checked", document |-> d, version |-> NextVersion(d),
                 key |-> o, sha256 |-> x])

StoredIfIssued(q) == q.key \in issued  \* wrong: exists() not asked
Stored(q) == store[q.key] # NoObject

FindObject(r) ==
  /\ req[r].phase = "checked"
  /\ Stored(req[r])
  /\ Goto(r, "uploaded")

\* The database: the document exists and has no such version yet.
InsertableByKey(q) == Exists(q.document)  \* wrong: no UniqueConstraint
InsertableAnywhere(q) == q.version \notin DOMAIN versions[q.document]  \* wrong: no foreign key
Insertable(q) == Exists(q.document) /\ q.version \notin DOMAIN versions[q.document]

InsertVersion(r) ==
  LET q == req[r] IN
  /\ q.phase = "uploaded"
  /\ Insertable(q)
  /\ versions' = [versions EXCEPT ![q.document] =
                    [v \in DOMAIN @ \cup {q.version} |->
                       IF v = q.version
                       THEN [key |-> q.key, sha256 |-> q.sha256, signed |-> FALSE]
                       ELSE @[v]]]
  /\ Finish(r)
  /\ UNCHANGED <<document, minutes, store, issued, put>>

------------------------------------------------------------------------------
\* sign(): of a version nobody signed, in a document not flagged as signed.
Signable(d, v) == ~versions[d][v].signed /\ ~FlaggedSigned(d)

BeginSign(r, d, v) ==
  /\ Exists(d) /\ v \in DOMAIN versions[d]
  /\ Signable(d, v)
  /\ Begin(r, [phase |-> "unsigned", document |-> d, version |-> v,
               key |-> versions[d][v].key, sha256 |-> versions[d][v].sha256])

\* The hash of the object as it is now against the one that was confirmed.
IntactIfStored(q) == store[q.key] # NoObject  \* wrong: hash not compared
Intact(q) == store[q.key] = q.sha256

VerifyObject(r) ==
  /\ req[r].phase = "unsigned"
  /\ Intact(req[r])
  /\ Goto(r, "verified")

\* The database: the version has no signature, and exists (see Erase).  The document is
\* locked in the same transaction, past its own immutability guard.
CreateSignature(r) ==
  LET q == req[r] IN
  /\ q.phase = "verified"
  /\ ~versions[q.document][q.version].signed
  /\ versions' = [versions EXCEPT ![q.document][q.version].signed = TRUE]
  /\ document' = [document EXCEPT ![q.document].is_signed = TRUE]
  /\ Finish(r)
  /\ UNCHANGED <<minutes, store, issued, put>>

------------------------------------------------------------------------------
\* PATCH loads the row, clean() looks for signatures, save() writes the row.
LoadDocument(r, d) ==
  /\ Exists(d)
  /\ \E t \in Titles :
       Begin(r, [phase |-> "loaded", document |-> d,
                 row |-> [document[d] EXCEPT !.title = t]])

Clean(q) == ~HasSignature(q.document)

CleanDocument(r) ==
  /\ req[r].phase = "loaded"
  /\ Clean(req[r])
  /\ Goto(r, "clean")

\* A row that is gone is inserted again, if what it refers to is still there.
SaveDocument(r) ==
  LET q == req[r] IN
  /\ q.phase = "clean"
  /\ document[q.document] # Bereft
  /\ document' = [document EXCEPT ![q.document] = q.row]
  /\ Finish(r)
  /\ UNCHANGED <<versions, minutes, store, issued, put>>

BeginDelete(r, d) ==
  /\ Exists(d) /\ ~FlaggedSigned(d)
  /\ Begin(r, [phase |-> "doomed", document |-> d])

\* Versions, signatures and minutes go along; the objects stay.  Whoever was
\* about to sign one of these versions is refused by its foreign key, even if
\* the document and the number come back.
Signers(d) ==
  {r \in Requests : req[r].phase \in {"unsigned", "verified"} /\ req[r].document = d}

Erase(d, gone, done) ==
  /\ document' = [document EXCEPT ![d] = gone]
  /\ versions' = [versions EXCEPT ![d] = <<>>]
  /\ minutes' = [m \in Minutes |-> IF On(m, d) THEN NoMinutes ELSE minutes[m]]
  /\ req' = [r \in Requests |-> IF r \in done \cup Signers(d) THEN Idle ELSE req[r]]
  /\ UNCHANGED <<store, issued, put>>

DeleteDocument(r) ==
  /\ req[r].phase = "doomed"
  /\ IF Exists(req[r].document)
       THEN Erase(req[r].document, Deleted, {r})
       ELSE Finish(r) /\ UNCHANGED tables

\* What the document belongs to is deleted: the advance, report, product or
\* call it is attached to, or its institution.
DeleteOwner(d) == document[d] \notin {Unborn, Bereft} /\ Erase(d, Bereft, {})

------------------------------------------------------------------------------
\* Minutes are created, patched and deleted: each looks for signatures first,
\* of the document the minutes are to name, or of the one they named when they
\* were loaded to be deleted.
Ask(r, m, d, row) ==
  Begin(r, [phase |-> "acta", document |-> d, minutes |-> m, row |-> row])

CreateMinutes(r, m) ==
  /\ minutes[m] = NoMinutes
  /\ \A s \in Requests : ~About(s, m)  \* ids are never used again
  /\ \E row \in MinutesRow : Exists(row.document) /\ Ask(r, m, row.document, row)

PatchMinutes(r, m) ==
  /\ minutes[m] # NoMinutes
  /\ \E row \in MinutesRow : Exists(row.document) /\ Ask(r, m, row.document, row)

DeleteMinutes(r, m) ==
  /\ minutes[m] # NoMinutes
  /\ Ask(r, m, minutes[m].document, NoMinutes)

CleanIfAdded(q) == minutes[q.minutes] # NoMinutes \/ ~HasSignature(q.document)  \* wrong: only create() checks
MinutesClean(q) == ~HasSignature(q.document)

CleanMinutes(r) ==
  /\ req[r].phase = "acta"
  /\ MinutesClean(req[r])
  /\ Goto(r, "cleanacta")

\* save() writes the row, or inserts it again; the document must be there.
SaveMinutes(r) ==
  LET q == req[r] IN
  /\ q.phase = "cleanacta"
  /\ q.row # NoMinutes => Exists(q.document)
  /\ minutes' = [minutes EXCEPT ![q.minutes] = q.row]
  /\ Finish(r)
  /\ UNCHANGED <<document, versions, store, issued, put>>

Serve(r) ==
  \/ \E d \in Documents : BeginConfirm(r, d) \/ LoadDocument(r, d) \/ BeginDelete(r, d)
  \/ \E d \in Documents, v \in Numbers : BeginSign(r, d, v)
  \/ \E m \in Minutes : CreateMinutes(r, m) \/ PatchMinutes(r, m) \/ DeleteMinutes(r, m)
  \/ FindObject(r) \/ InsertVersion(r) \/ VerifyObject(r) \/ CreateSignature(r)
  \/ CleanDocument(r) \/ SaveDocument(r) \/ DeleteDocument(r)
  \/ CleanMinutes(r) \/ SaveMinutes(r) \/ Abandon(r)

Next ==
  \/ \E r \in Requests : Serve(r)
  \/ \E d \in Documents : Presign(d) \/ PresignNextVersion(d) \/ DeleteOwner(d)
  \/ \E o \in Objects : PutObject(o)

Spec == Init /\ [][Next]_vars

------------------------------------------------------------------------------
\* Types; and nothing refers to a document that is not there.
TypeOK ==
  /\ document \in [Documents -> DocumentRow \cup Gone]
  /\ versions \in [Documents -> UNION {[V -> VersionRow] : V \in SUBSET Numbers}]
  /\ minutes \in [Minutes -> MinutesRow \cup {NoMinutes}]
  /\ \A d \in Documents : ~Exists(d) => DOMAIN versions[d] = {} /\ \A m \in Minutes : ~On(m, d)
  /\ store \in [Objects -> Contents \cup {NoObject}]
  /\ issued \subseteq Objects
  /\ put \in [Objects -> SUBSET Contents]
  /\ req \in [Requests -> {Idle} \cup Uploading \cup Signing \cup Editing]

\* A version is recorded only over an object that was put, though it need not
\* be one put for this version; and keeps its key, its hash and its signature
\* until the document goes.  Two confirmations that computed the same number
\* beside each other change nothing about that.
VersionsAreUploaded ==
  [][\A d \in Documents : \A v \in DOMAIN versions'[d] :
       LET new == versions'[d][v] IN
       IF v \in DOMAIN versions[d]
       THEN LET old == versions[d][v] IN
            new.key = old.key /\ new.sha256 = old.sha256 /\ (old.signed => new.signed)
       ELSE put[new.key] # {}]_vars

\* RF-D04: a signature vouches for bytes the store really held under the key
\* that the signed version records, although the client may have replaced them
\* since.
SignatureVouches ==
  \A d \in Documents : \A v \in DOMAIN versions[d] :
    LET w == versions[d][v] IN w.signed => w.sha256 \in put[w.key]

\* Requests about d that passed their check for signatures and have yet to write.
Passed(d) ==
  {r \in Requests : /\ req[r] # Idle /\ req[r].document = d
                    /\ req[r].phase \notin {"loaded", "acta"}}

\* RF-066, as far as the code goes: no request passes its check on a signed
\* document, flagged as such; and once those that had passed before are done,
\* the document and its versions stay, or go with what they belong to, and no
\* minutes of it are changed in place or added.  Minutes may still leave it.
SignedStaysFrozen ==
  [][\A d \in Documents :
       FlaggedSigned(d) /\ HasSignature(d) =>
         /\ Passed(d)' \subseteq Passed(d)
         /\ Passed(d) = {} =>
              \/ /\ UNCHANGED <<document[d], versions[d]>>
                 /\ \A m \in Minutes : On(m, d)' => minutes'[m] = minutes[m]
              \/ document'[d] = Bereft]_vars
==============================================================================
