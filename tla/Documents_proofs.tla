-------------------------- MODULE Documents_proofs --------------------------
(***************************************************************************)
(* Proofs about Documents, for any number of documents, versions, objects,  *)
(* contents, minutes and requests.                                         *)
(***************************************************************************)
EXTENDS Documents, TLAPS

(***************************************************************************)
(* The invariant.  What the store holds was put there; a request that      *)
(* found its object knows of bytes that were put, one that signs names a   *)
(* version that is there with the key and the hash it was confirmed with,  *)
(* and once it verified it, that hash was put.                             *)
(***************************************************************************)

AnyRequest == {Idle} \cup Uploading \cup Signing \cup Editing

StoreWasPut ==
  \A o \in Objects : store[o] # NoObject => store[o] \in put[o]

Names(q) ==
  /\ q.version \in DOMAIN versions[q.document]
  /\ versions[q.document][q.version].key = q.key
  /\ versions[q.document][q.version].sha256 = q.sha256

Sound(q) ==
  /\ q.phase = "uploaded" => put[q.key] # {}
  /\ q.phase \in {"unsigned", "verified"} => Names(q)
  /\ q.phase = "verified" => q.sha256 \in put[q.key]
  /\ q.phase \in {"acta", "cleanacta"} => q.row = NoMinutes \/ q.row.document = q.document

RequestsSound == \A r \in Requests : Sound(req[r])

DInv ==
  /\ TypeOK
  /\ StoreWasPut
  /\ RequestsSound
  /\ SignatureVouches

\* The phase of a request tells what kind of request it is.
LEMMA PhaseTells ==
  ASSUME NEW q \in AnyRequest
  PROVE  /\ q.phase \in {"checked", "uploaded"} => q \in Uploading
         /\ q.phase \in {"unsigned", "verified"} => q \in Signing
         /\ q.phase \in {"loaded", "clean"} =>
              q \in [phase : {"loaded", "clean"}, document : Documents, row : DocumentRow]
         /\ q.phase \in {"acta", "cleanacta"} =>
              q \in [phase : {"acta", "cleanacta"}, document : Documents, minutes : Minutes,
                     row : MinutesRow \cup {NoMinutes}]
         /\ q.phase = "doomed" => q \in [phase : {"doomed"}, document : Documents]
         /\ q.phase = "idle" => q = Idle
         /\ q.phase # "idle" => q.document \in Documents
BY DEF AnyRequest, Idle, Uploading, Signing, Editing

LEMMA RequestTyped ==
  ASSUME TypeOK, NEW r \in Requests
  PROVE  req[r] \in AnyRequest
BY DEF TypeOK, AnyRequest

\* The versions of a document, as a function.
LEMMA VersionsTyped ==
  ASSUME TypeOK, NEW d \in Documents
  PROVE  /\ DOMAIN versions[d] \subseteq Numbers
         /\ versions[d] \in [DOMAIN versions[d] -> VersionRow]
         /\ DOMAIN versions[d] # {} => Exists(d)
BY DEF TypeOK

LEMMA Initially == Init => DInv
<1> SUFFICES ASSUME Init PROVE DInv
  OBVIOUS
<1>1. \A d \in Documents : DOMAIN versions[d] = {}
  BY DEF Init
<1>2. \A d \in Documents : versions[d] \in [{} -> VersionRow]
  BY DEF Init
<1>3. TypeOK
  <2>1. <<>> \in [{} -> VersionRow] /\ {} \in SUBSET Numbers
    OBVIOUS
  <2>2. versions \in [Documents -> UNION {[V -> VersionRow] : V \in SUBSET Numbers}]
    BY <2>1 DEF Init
  <2> QED  BY <1>1, <2>2 DEF Init, TypeOK, On, Exists, Gone
<1>4. StoreWasPut /\ SignatureVouches
  BY <1>1 DEF Init, StoreWasPut, SignatureVouches
<1>5. RequestsSound
  BY DEF Init, RequestsSound, Sound, Idle
<1> QED  BY <1>3, <1>4, <1>5 DEF DInv

(***************************************************************************)
(* Steps of three kinds: a request goes on; a table grows; a document goes.*)
(***************************************************************************)

\* A request that goes on, and leaves the tables alone.
LEMMA RequestStep ==
  ASSUME DInv, UNCHANGED tables, NEW r \in Requests, NEW q \in AnyRequest, Sound(q),
         req' = [req EXCEPT ![r] = q]
  PROVE  DInv'
<1>1. TypeOK'
  BY DEF DInv, TypeOK, tables, AnyRequest, Exists, On
<1>2. StoreWasPut' /\ SignatureVouches'
  BY DEF DInv, StoreWasPut, SignatureVouches, tables
<1>3. \A s \in Requests : Sound(req[s])' <=> Sound(req'[s])
  BY DEF Sound, Names, tables
<1>4. \A s \in Requests : req'[s] = q \/ req'[s] = req[s]
  BY DEF DInv, TypeOK
<1>5. RequestsSound'
  BY <1>3, <1>4 DEF DInv, RequestsSound
<1> QED  BY <1>1, <1>2, <1>5 DEF DInv

\* Tables that keep what requests rely on; requests that stay or are answered.
LEMMA GrowthStep ==
  ASSUME DInv,
         \A o \in Objects : put[o] \subseteq put'[o],
         \A d \in Documents : \A v \in DOMAIN versions[d] :
           /\ v \in DOMAIN versions'[d]
           /\ versions'[d][v].key = versions[d][v].key
           /\ versions'[d][v].sha256 = versions[d][v].sha256,
         \A r \in Requests : req'[r] \in {req[r], Idle}
  PROVE  RequestsSound'
<1> SUFFICES ASSUME NEW r \in Requests PROVE Sound(req[r])'
  BY DEF RequestsSound
<1>1. CASE req'[r] = Idle
  BY <1>1 DEF Sound, Idle
<1>2. CASE req'[r] = req[r]
  <2> DEFINE q == req[r]
  <2>1. Sound(q) /\ q \in AnyRequest /\ TypeOK
    BY RequestTyped DEF DInv, RequestsSound
  <2>2. CASE q.phase = "uploaded"
    <3>1. q.key \in Objects
      BY <2>1, <2>2, PhaseTells DEF Uploading
    <3> QED  BY <1>2, <2>1, <2>2, <3>1 DEF Sound
  <2>3. CASE q.phase \in {"unsigned", "verified"}
    <3>1. q.document \in Documents /\ q.key \in Objects
      BY <2>1, <2>3, PhaseTells DEF Signing
    <3> QED  BY <1>2, <2>1, <2>3, <3>1 DEF Sound, Names
  <2>4. CASE q.phase \notin {"uploaded", "unsigned", "verified"}
    BY <1>2, <2>1, <2>4 DEF Sound
  <2> QED  BY <2>2, <2>3, <2>4
<1> QED  BY <1>1, <1>2

\* A request that begins.
LEMMA BeginningKeeps ==
  ASSUME DInv, NEW r \in Requests, NEW d \in Documents,
         \/ BeginConfirm(r, d) \/ LoadDocument(r, d) \/ BeginDelete(r, d)
         \/ \E v \in Numbers : BeginSign(r, d, v)
  PROVE  DInv'
<1>1. CASE BeginConfirm(r, d)
  <2>1. PICK x \in Contents, o \in Objects :
          Begin(r, [phase |-> "checked", document |-> d, version |-> NextVersion(d),
                    key |-> o, sha256 |-> x])
    BY <1>1 DEF BeginConfirm
  <2> DEFINE q == [phase |-> "checked", document |-> d, version |-> NextVersion(d),
                   key |-> o, sha256 |-> x]
  <2>2. q \in AnyRequest /\ Sound(q)
    BY <1>1 DEF BeginConfirm, AnyRequest, Uploading, Sound
  <2> HIDE DEF q
  <2> QED  BY <2>1, <2>2, RequestStep DEF Begin, q
<1>2. CASE LoadDocument(r, d)
  <2>1. PICK t \in Titles :
          Begin(r, [phase |-> "loaded", document |-> d,
                    row |-> [document[d] EXCEPT !.title = t]])
    BY <1>2 DEF LoadDocument
  <2>2. [document[d] EXCEPT !.title = t] \in DocumentRow
    <3>1. document[d] \in DocumentRow
      BY <1>2 DEF LoadDocument, Exists, DInv, TypeOK
    <3> QED  BY <3>1 DEF DocumentRow
  <2>3. PICK w \in DocumentRow : w = [document[d] EXCEPT !.title = t]
    BY <2>2
  <2>4. /\ [phase |-> "loaded", document |-> d, row |-> w] \in AnyRequest
        /\ Sound([phase |-> "loaded", document |-> d, row |-> w])
    BY DEF AnyRequest, Editing, Sound
  <2> QED  BY <2>1, <2>3, <2>4, RequestStep DEF Begin
<1>3. CASE BeginDelete(r, d)
  <2>1. /\ [phase |-> "doomed", document |-> d] \in AnyRequest
        /\ Sound([phase |-> "doomed", document |-> d])
    BY DEF AnyRequest, Editing, Sound
  <2> QED  BY <1>3, <2>1, RequestStep DEF Begin, BeginDelete
<1>4. ASSUME NEW v \in Numbers, BeginSign(r, d, v) PROVE DInv'
  <2>1. PICK x \in Contents, o \in Objects :
          x = versions[d][v].sha256 /\ o = versions[d][v].key
    BY <1>4, VersionsTyped DEF BeginSign, DInv, VersionRow
  <2> DEFINE q == [phase |-> "unsigned", document |-> d, version |-> v, key |-> o,
                   sha256 |-> x]
  <2>2. q \in AnyRequest
    BY DEF AnyRequest, Signing
  <2>3. Sound(q)
    BY <1>4, <2>1 DEF BeginSign, Sound, Names
  <2>4. Begin(r, q)
    BY <1>4, <2>1 DEF BeginSign
  <2> HIDE DEF q
  <2> QED  BY <2>2, <2>3, <2>4, RequestStep DEF Begin
<1> QED  BY <1>1, <1>2, <1>3, <1>4

\* A request about minutes begins, with a document that is there.
LEMMA AskKeeps ==
  ASSUME DInv, NEW r \in Requests, NEW m \in Minutes,
         CreateMinutes(r, m) \/ PatchMinutes(r, m) \/ DeleteMinutes(r, m)
  PROVE  DInv'
<1>1. \E d \in Documents, row \in MinutesRow \cup {NoMinutes} :
        Ask(r, m, d, row) /\ (row = NoMinutes \/ row.document = d)
  <2>1. CASE DeleteMinutes(r, m)
    BY <2>1 DEF DeleteMinutes, DInv, TypeOK, MinutesRow
  <2>2. CASE CreateMinutes(r, m) \/ PatchMinutes(r, m)
    BY <2>2 DEF CreateMinutes, PatchMinutes, MinutesRow
  <2> QED  BY <2>1, <2>2
<1>2. PICK d \in Documents, row \in MinutesRow \cup {NoMinutes} :
        Ask(r, m, d, row) /\ (row = NoMinutes \/ row.document = d)
  BY <1>1
<1> DEFINE q == [phase |-> "acta", document |-> d, minutes |-> m, row |-> row]
<1>3. q \in AnyRequest
  BY DEF AnyRequest, Editing
<1>4. Sound(q)
  BY <1>2 DEF Sound
<1> HIDE DEF q
<1> QED  BY <1>2, <1>3, <1>4, RequestStep DEF Ask, Begin, q

LEMMA AbandonKeeps ==
  ASSUME DInv, NEW r \in Requests, Abandon(r)
  PROVE  DInv'
<1>1. Idle \in AnyRequest /\ Sound(Idle)
  BY DEF AnyRequest, Sound, Idle
<1> QED  BY <1>1, RequestStep DEF Abandon, Finish

\* A request that goes on to its next phase with what it has.
LEMMA GotoStep ==
  ASSUME DInv, NEW r \in Requests, NEW phase, Goto(r, phase),
         req[r].phase # "idle",
         [req[r] EXCEPT !.phase = phase] \in AnyRequest,
         Sound([req[r] EXCEPT !.phase = phase])
  PROVE  DInv'
<1>1. PICK q \in AnyRequest : q = [req[r] EXCEPT !.phase = phase]
  OBVIOUS
<1>2. req' = [req EXCEPT ![r] = q]
  BY <1>1 DEF Goto
<1> QED  BY <1>1, <1>2, RequestStep DEF Goto

\* What the request goes on with is still what it was about.
LEMMA FindObjectKeeps ==
  ASSUME DInv, NEW r \in Requests, FindObject(r)
  PROVE  DInv'
<1> DEFINE q == req[r]
<1>1. q \in Uploading /\ Stored(q) /\ Goto(r, "uploaded")
  BY RequestTyped, PhaseTells DEF FindObject, DInv
<1>2. store[q.key] \in put[q.key]
  BY <1>1 DEF DInv, StoreWasPut, Stored, Uploading
<1>3. /\ [q EXCEPT !.phase = "uploaded"] \in Uploading
      /\ [q EXCEPT !.phase = "uploaded"].phase = "uploaded"
      /\ [q EXCEPT !.phase = "uploaded"].key = q.key
  BY <1>1 DEF Uploading
<1>4. [q EXCEPT !.phase = "uploaded"] \in AnyRequest /\ Sound([q EXCEPT !.phase = "uploaded"])
  BY <1>2, <1>3 DEF AnyRequest, Sound
<1> QED  BY <1>1, <1>4, GotoStep DEF FindObject

LEMMA VerifyObjectKeeps ==
  ASSUME DInv, NEW r \in Requests, VerifyObject(r)
  PROVE  DInv'
<1> DEFINE q == req[r]
<1>1. q \in Signing /\ Intact(q) /\ Goto(r, "verified") /\ q.phase = "unsigned"
  BY RequestTyped, PhaseTells DEF VerifyObject, DInv
<1>2. q.sha256 \in put[q.key]
  BY <1>1, DocumentsAssumption DEF DInv, StoreWasPut, Intact, Signing
<1>3. Sound(q)
  BY DEF DInv, RequestsSound
<1>4. /\ [q EXCEPT !.phase = "verified"] \in Signing
      /\ [q EXCEPT !.phase = "verified"].phase = "verified"
      /\ [q EXCEPT !.phase = "verified"].document = q.document
      /\ [q EXCEPT !.phase = "verified"].version = q.version
      /\ [q EXCEPT !.phase = "verified"].key = q.key
      /\ [q EXCEPT !.phase = "verified"].sha256 = q.sha256
  BY <1>1 DEF Signing
<1>5. [q EXCEPT !.phase = "verified"] \in AnyRequest /\ Sound([q EXCEPT !.phase = "verified"])
  BY <1>1, <1>2, <1>3, <1>4 DEF AnyRequest, Sound, Names
<1> QED  BY <1>1, <1>5, GotoStep DEF VerifyObject

LEMMA CleanDocumentKeeps ==
  ASSUME DInv, NEW r \in Requests, CleanDocument(r)
  PROVE  DInv'
<1> DEFINE q == req[r]
<1>1. /\ q \in [phase : {"loaded", "clean"}, document : Documents, row : DocumentRow]
      /\ Goto(r, "clean")
  BY RequestTyped, PhaseTells DEF CleanDocument, DInv
<1>2. /\ [q EXCEPT !.phase = "clean"] \in
           [phase : {"loaded", "clean"}, document : Documents, row : DocumentRow]
      /\ [q EXCEPT !.phase = "clean"].phase = "clean"
  BY <1>1
<1>3. [q EXCEPT !.phase = "clean"] \in AnyRequest /\ Sound([q EXCEPT !.phase = "clean"])
  BY <1>2 DEF AnyRequest, Editing, Sound
<1> QED  BY <1>1, <1>3, GotoStep DEF CleanDocument

LEMMA CleanMinutesKeeps ==
  ASSUME DInv, NEW r \in Requests, CleanMinutes(r)
  PROVE  DInv'
<1> DEFINE q == req[r]
<1>1. /\ q \in [phase : {"acta", "cleanacta"}, document : Documents, minutes : Minutes,
                 row : MinutesRow \cup {NoMinutes}]
      /\ Goto(r, "cleanacta")
  BY RequestTyped, PhaseTells DEF CleanMinutes, DInv
<1>2. /\ [q EXCEPT !.phase = "cleanacta"] \in
           [phase : {"acta", "cleanacta"}, document : Documents, minutes : Minutes,
                 row : MinutesRow \cup {NoMinutes}]
      /\ [q EXCEPT !.phase = "cleanacta"].phase = "cleanacta"
      /\ [q EXCEPT !.phase = "cleanacta"].document = q.document
      /\ [q EXCEPT !.phase = "cleanacta"].row = q.row
  BY <1>1
<1>3. [q EXCEPT !.phase = "cleanacta"] \in AnyRequest
  BY <1>2 DEF AnyRequest, Editing
<1>4. q.row = NoMinutes \/ q.row.document = q.document
  BY DEF CleanMinutes, DInv, RequestsSound, Sound
<1>5. Sound([q EXCEPT !.phase = "cleanacta"])
  BY <1>2, <1>4 DEF Sound
<1> QED  BY <1>1, <1>3, <1>5, GotoStep DEF CleanMinutes

LEMMA PresignKeeps ==
  ASSUME DInv, NEW d \in Documents, Presign(d) \/ PresignNextVersion(d)
  PROVE  DInv'
<1>1. /\ UNCHANGED <<versions, minutes, store, put, req>>
      /\ issued' \subseteq Objects
  BY DEF DInv, TypeOK, Presign, PresignNextVersion
<1>2. /\ document' \in [Documents -> DocumentRow \cup Gone]
      /\ \A e \in Documents : Exists(e) => Exists(e)'
  <2>1. CASE PresignNextVersion(d)
    BY <2>1 DEF PresignNextVersion, DInv, TypeOK, Exists
  <2>2. CASE Presign(d)
    <3>1. PICK w \in DocumentRow : document' = [document EXCEPT ![d] = w]
      BY <2>2 DEF Presign, DocumentRow
    <3> QED  BY <3>1, DocumentsAssumption DEF DInv, TypeOK, Exists
  <2> QED  BY <2>1, <2>2
<1>3. TypeOK'
  BY <1>1, <1>2 DEF DInv, TypeOK, On
<1>4. StoreWasPut' /\ SignatureVouches'
  BY <1>1 DEF DInv, StoreWasPut, SignatureVouches
<1>5. RequestsSound'
  BY <1>1, GrowthStep
<1> QED  BY <1>3, <1>4, <1>5 DEF DInv

LEMMA PutObjectKeeps ==
  ASSUME DInv, NEW o \in Objects, PutObject(o)
  PROVE  DInv'
<1>1. PICK x \in Contents :
        store' = [store EXCEPT ![o] = x] /\ put' = [put EXCEPT ![o] = @ \cup {x}]
  BY DEF PutObject
<1>2. UNCHANGED <<document, versions, minutes, issued, req>>
  BY DEF PutObject
<1>3. /\ store' \in [Objects -> Contents \cup {NoObject}]
      /\ put' \in [Objects -> SUBSET Contents]
  BY <1>1 DEF DInv, TypeOK
<1>4. \A p \in Objects :
        IF p = o THEN store'[p] = x /\ put'[p] = put[p] \cup {x}
                 ELSE store'[p] = store[p] /\ put'[p] = put[p]
  BY <1>1 DEF DInv, TypeOK
<1>5. TypeOK'
  BY <1>2, <1>3 DEF DInv, TypeOK, Exists, On
<1>6. StoreWasPut'
  BY <1>4 DEF DInv, StoreWasPut
<1>7. SignatureVouches'
  <2>1. \A d \in Documents : \A v \in DOMAIN versions[d] : versions[d][v].key \in Objects
    BY VersionsTyped DEF DInv, VersionRow
  <2> QED  BY <1>2, <1>4, <2>1 DEF DInv, SignatureVouches
<1>8. RequestsSound'
  BY <1>2, <1>4, GrowthStep
<1> QED  BY <1>5, <1>6, <1>7, <1>8 DEF DInv

\* What the tables have in common after a version was inserted or signed.
LEMMA WriteVersions ==
  ASSUME DInv, NEW d \in Documents, NEW V \in SUBSET Numbers, NEW f \in [V -> VersionRow],
         versions' = [versions EXCEPT ![d] = f],
         Exists(d)', \A e \in Documents \ {d} : Exists(e) => Exists(e)',
         document' \in [Documents -> DocumentRow \cup Gone],
         \A v \in DOMAIN versions[d] :
           v \in V /\ f[v].key = versions[d][v].key /\ f[v].sha256 = versions[d][v].sha256,
         \A v \in V : f[v].signed => f[v].sha256 \in put[f[v].key],
         \A s \in Requests : req'[s] \in {req[s], Idle},
         req' \in [Requests -> AnyRequest],
         UNCHANGED <<minutes, store, issued, put>>
  PROVE  DInv'
<1>1. versions' \in [Documents -> UNION {[W -> VersionRow] : W \in SUBSET Numbers}]
  BY DEF DInv, TypeOK
<1>2. versions'[d] = f /\ DOMAIN f = V /\ \A e \in Documents \ {d} : versions'[e] = versions[e]
  BY DEF DInv, TypeOK
<1>3. \A e \in Documents :
        ~Exists(e)' => DOMAIN versions'[e] = {} /\ \A m \in Minutes : ~On(m, e)'
  BY <1>2 DEF DInv, TypeOK, On
<1>4. TypeOK'
  BY <1>1, <1>3 DEF DInv, TypeOK, AnyRequest
<1>5. StoreWasPut'
  BY DEF DInv, StoreWasPut
<1>6. SignatureVouches'
  BY <1>2 DEF DInv, SignatureVouches
<1>7. RequestsSound'
  BY <1>2, GrowthStep
<1> QED  BY <1>4, <1>5, <1>6, <1>7 DEF DInv

\* A request that is answered.
LEMMA Finishing ==
  ASSUME TypeOK, NEW r \in Requests, Finish(r)
  PROVE  /\ req' \in [Requests -> AnyRequest]
         /\ req'[r] = Idle
         /\ \A s \in Requests : req'[s] \in {req[s], Idle}
BY DEF Finish, TypeOK, AnyRequest

LEMMA InsertVersionKeeps ==
  ASSUME DInv, NEW r \in Requests, InsertVersion(r)
  PROVE  DInv'
<1>0. TypeOK
  BY DEF DInv
<1>1. req[r] \in Uploading
  BY RequestTyped, PhaseTells DEF InsertVersion, DInv
<1>2. PICK d \in Documents, k \in Numbers, o \in Objects, x \in Contents :
        /\ d = req[r].document /\ k = req[r].version
        /\ o = req[r].key /\ x = req[r].sha256
  BY <1>1 DEF Uploading
<1> DEFINE V == DOMAIN versions[d] \cup {k}
           f == [v \in V |-> IF v = k THEN [key |-> o, sha256 |-> x, signed |-> FALSE]
                                      ELSE versions[d][v]]
<1>3. /\ Exists(d) /\ k \notin DOMAIN versions[d]
      /\ versions' = [versions EXCEPT ![d] = f]
      /\ Finish(r) /\ UNCHANGED <<document, minutes, store, issued, put>>
  BY <1>2 DEF InsertVersion, Insertable
<1>4. V \in SUBSET Numbers /\ f \in [V -> VersionRow]
  BY <1>0, <1>2, VersionsTyped DEF VersionRow
<1>5. \A v \in DOMAIN versions[d] : v \in V /\ f[v] = versions[d][v]
  BY <1>3
<1>6. \A v \in V : f[v].signed => f[v].sha256 \in put[f[v].key]
  <2>1. f[k].signed = FALSE
    OBVIOUS
  <2>2. \A v \in DOMAIN versions[d] :
          versions[d][v].signed => versions[d][v].sha256 \in put[versions[d][v].key]
    BY DEF DInv, SignatureVouches
  <2> QED  BY <1>5, <2>1, <2>2
<1>7. Exists(d)' /\ \A e \in Documents : Exists(e) => Exists(e)'
  BY <1>3 DEF Exists
<1>8. document' \in [Documents -> DocumentRow \cup Gone]
  BY <1>3 DEF DInv, TypeOK
<1> HIDE DEF V, f
<1>9. \A v \in DOMAIN versions[d] :
        v \in V /\ f[v].key = versions[d][v].key /\ f[v].sha256 = versions[d][v].sha256
  BY <1>5
<1>10. /\ req' \in [Requests -> AnyRequest]
       /\ \A s \in Requests : req'[s] \in {req[s], Idle}
  BY <1>0, <1>3, Finishing
<1> QED  BY <1>3, <1>4, <1>6, <1>7, <1>8, <1>9, <1>10, WriteVersions

\* The version is the one whose object was verified, so its hash was put.
LEMMA CreateSignatureKeeps ==
  ASSUME DInv, NEW r \in Requests, CreateSignature(r)
  PROVE  DInv'
<1>0. TypeOK
  BY DEF DInv
<1>1. req[r] \in Signing /\ Sound(req[r])
  BY RequestTyped, PhaseTells DEF CreateSignature, DInv, RequestsSound
<1>2. PICK d \in Documents, k \in Numbers : d = req[r].document /\ k = req[r].version
  BY <1>1 DEF Signing
<1> DEFINE V == DOMAIN versions[d]
           f == [versions[d] EXCEPT ![k].signed = TRUE]
<1>3. /\ versions' = [versions EXCEPT ![d] = f]
      /\ document' = [document EXCEPT ![d].is_signed = TRUE]
      /\ Finish(r) /\ UNCHANGED <<minutes, store, issued, put>>
  BY <1>0, <1>2 DEF CreateSignature, TypeOK
<1>4. k \in V /\ versions[d][k].sha256 \in put[versions[d][k].key]
  BY <1>1, <1>2 DEF CreateSignature, Sound, Names
<1>5. V \in SUBSET Numbers /\ versions[d] \in [V -> VersionRow] /\ Exists(d)
  BY <1>0, <1>4, VersionsTyped
<1>6. [versions[d][k] EXCEPT !.signed = TRUE] \in VersionRow
  BY <1>4, <1>5 DEF VersionRow
<1>7. f \in [V -> VersionRow]
  BY <1>5, <1>6
<1>8. \A v \in V :
        v \in V /\ f[v].key = versions[d][v].key /\ f[v].sha256 = versions[d][v].sha256
  BY <1>4, <1>5 DEF VersionRow
<1>9. \A v \in V : f[v].signed => f[v].sha256 \in put[f[v].key]
  <2>1. \A v \in V \ {k} : f[v] = versions[d][v]
    BY <1>5
  <2> QED  BY <1>4, <1>5, <1>8, <2>1 DEF DInv, SignatureVouches
<1>10. /\ document' \in [Documents -> DocumentRow \cup Gone]
       /\ document'[d] \in DocumentRow
       /\ \A e \in Documents \ {d} : document'[e] = document[e]
  <2>1. document[d] \in DocumentRow
    BY <1>0, <1>5 DEF TypeOK, Exists
  <2>2. [document[d] EXCEPT !.is_signed = TRUE] \in DocumentRow
    BY <2>1 DEF DocumentRow
  <2> QED  BY <1>0, <1>3, <2>2 DEF TypeOK
<1>11. Exists(d)' /\ \A e \in Documents \ {d} : Exists(e) => Exists(e)'
  BY <1>10, DocumentsAssumption DEF Exists
<1> HIDE DEF V, f
<1>12. \A v \in DOMAIN versions[d] :
         v \in V /\ f[v].key = versions[d][v].key /\ f[v].sha256 = versions[d][v].sha256
  BY <1>8 DEF V
<1> QED
  BY <1>0, <1>3, <1>5, <1>7, <1>9, <1>10, <1>11, <1>12, Finishing, WriteVersions

LEMMA SaveDocumentKeeps ==
  ASSUME DInv, NEW r \in Requests, SaveDocument(r)
  PROVE  DInv'
<1>0. TypeOK
  BY DEF DInv
<1>1. PICK d \in Documents, w \in DocumentRow : d = req[r].document /\ w = req[r].row
  BY RequestTyped, PhaseTells DEF SaveDocument, DInv
<1>2. /\ document' = [document EXCEPT ![d] = w]
      /\ Finish(r) /\ UNCHANGED <<versions, minutes, store, issued, put>>
  BY <1>1 DEF SaveDocument
<1>3. /\ document' \in [Documents -> DocumentRow \cup Gone]
      /\ \A e \in Documents : Exists(e) => Exists(e)'
  BY <1>0, <1>2, DocumentsAssumption DEF TypeOK, Exists
<1>4. TypeOK'
  BY <1>0, <1>2, <1>3, Finishing DEF TypeOK, AnyRequest, On
<1>5. StoreWasPut' /\ SignatureVouches'
  BY <1>2 DEF DInv, StoreWasPut, SignatureVouches
<1>6. RequestsSound'
  BY <1>0, <1>2, Finishing, GrowthStep
<1> QED  BY <1>4, <1>5, <1>6 DEF DInv

LEMMA SaveMinutesKeeps ==
  ASSUME DInv, NEW r \in Requests, SaveMinutes(r)
  PROVE  DInv'
<1>0. TypeOK
  BY DEF DInv
<1>1. PICK m \in Minutes, row \in MinutesRow \cup {NoMinutes} :
        m = req[r].minutes /\ row = req[r].row
  BY RequestTyped, PhaseTells DEF SaveMinutes, DInv
<1>2. /\ minutes' = [minutes EXCEPT ![m] = row]
      /\ Finish(r) /\ UNCHANGED <<document, versions, store, issued, put>>
  BY <1>1 DEF SaveMinutes
<1>3. \A d \in Documents : On(m, d)' => Exists(d)'
  <2> SUFFICES ASSUME NEW d \in Documents, On(m, d)' PROVE Exists(d)
    BY <1>2 DEF Exists
  <2>1. row # NoMinutes /\ row.document = d
    BY <1>0, <1>2 DEF TypeOK, On
  <2>2. req[r].document = d
    BY <1>1, <2>1 DEF SaveMinutes, DInv, RequestsSound, Sound
  <2> QED  BY <1>1, <2>1, <2>2 DEF SaveMinutes
<1>4. TypeOK'
  <2>1. \A n \in Minutes \ {m}, d \in Documents : On(n, d)' <=> On(n, d)
    BY <1>0, <1>2 DEF TypeOK, On
  <2>2. minutes' \in [Minutes -> MinutesRow \cup {NoMinutes}]
    BY <1>0, <1>2 DEF TypeOK
  <2>3. \A d \in Documents : ~Exists(d)' => DOMAIN versions'[d] = {} /\ \A n \in Minutes : ~On(n, d)'
    BY <1>0, <1>2, <1>3, <2>1 DEF TypeOK, Exists
  <2> QED  BY <1>0, <1>2, <2>2, <2>3, Finishing DEF TypeOK, AnyRequest
<1>5. StoreWasPut' /\ SignatureVouches'
  BY <1>2 DEF DInv, StoreWasPut, SignatureVouches
<1>6. RequestsSound'
  BY <1>0, <1>2, Finishing, GrowthStep
<1> QED  BY <1>4, <1>5, <1>6 DEF DInv

\* No request that is about to sign outlives its version.
LEMMA EraseKeeps ==
  ASSUME DInv, NEW d \in Documents, NEW gone \in Gone, NEW done \in SUBSET Requests,
         Erase(d, gone, done)
  PROVE  DInv'
<1>0. TypeOK
  BY DEF DInv
<1>1. /\ document' = [document EXCEPT ![d] = gone]
      /\ versions' = [versions EXCEPT ![d] = <<>>]
      /\ minutes' = [m \in Minutes |-> IF On(m, d) THEN NoMinutes ELSE minutes[m]]
      /\ req' = [r \in Requests |-> IF r \in done \cup Signers(d) THEN Idle ELSE req[r]]
      /\ UNCHANGED <<store, issued, put>>
  BY DEF Erase
<1>2. /\ versions'[d] = <<>> /\ DOMAIN versions'[d] = {}
      /\ \A m \in Minutes : ~On(m, d)' /\ \A e \in Documents : On(m, e)' => On(m, e)
      /\ \A e \in Documents \ {d} : /\ versions'[e] = versions[e]
                                    /\ document'[e] = document[e]
  BY <1>0, <1>1 DEF TypeOK, On
<1>3. versions' \in [Documents -> UNION {[V -> VersionRow] : V \in SUBSET Numbers}]
  <2>1. <<>> \in [{} -> VersionRow] /\ {} \in SUBSET Numbers
    OBVIOUS
  <2>2. <<>> \in UNION {[V -> VersionRow] : V \in SUBSET Numbers}
    BY <2>1
  <2> QED  BY <1>0, <1>1, <2>2 DEF TypeOK
<1>4. TypeOK'
  <2>1. req' \in [Requests -> AnyRequest]
    BY <1>0, <1>1 DEF TypeOK, AnyRequest
  <2>2. \A e \in Documents :
          ~Exists(e)' => DOMAIN versions'[e] = {} /\ \A m \in Minutes : ~On(m, e)'
    BY <1>0, <1>2 DEF TypeOK, Exists
  <2>3. /\ document' \in [Documents -> DocumentRow \cup Gone]
        /\ minutes' \in [Minutes -> MinutesRow \cup {NoMinutes}]
    BY <1>0, <1>1 DEF TypeOK
  <2> QED  BY <1>0, <1>1, <1>3, <2>1, <2>2, <2>3 DEF TypeOK, AnyRequest
<1>5. StoreWasPut'
  BY <1>1 DEF DInv, StoreWasPut
<1>6. SignatureVouches'
  BY <1>1, <1>2 DEF DInv, SignatureVouches
<1>7. RequestsSound'
  <2> SUFFICES ASSUME NEW r \in Requests PROVE Sound(req[r])'
    BY DEF RequestsSound
  <2>1. CASE req'[r] = Idle
    BY <2>1 DEF Sound, Idle
  <2>2. CASE req'[r] # Idle
    <3>1. req'[r] = req[r] /\ Sound(req[r]) /\ req[r] \in AnyRequest
      BY <1>0, <1>1, <2>2, RequestTyped DEF DInv, RequestsSound
    <3>2. CASE req[r].phase \in {"unsigned", "verified"}
      <4>1. req[r].document \in Documents \ {d}
        BY <1>1, <2>2, <3>1, <3>2, PhaseTells DEF Signers, Signing
      <4> QED  BY <1>1, <1>2, <3>1, <3>2, <4>1 DEF Sound, Names
    <3>3. CASE req[r].phase \notin {"unsigned", "verified"}
      BY <1>1, <3>1, <3>3 DEF Sound
    <3> QED  BY <3>2, <3>3
  <2> QED  BY <2>1, <2>2
<1> QED  BY <1>4, <1>5, <1>6, <1>7 DEF DInv

LEMMA DeleteDocumentKeeps ==
  ASSUME DInv, NEW r \in Requests, DeleteDocument(r)
  PROVE  DInv'
<1>1. PICK d \in Documents : d = req[r].document
  BY RequestTyped, PhaseTells DEF DeleteDocument, DInv
<1>2. CASE Exists(d)
  BY <1>1, <1>2, EraseKeeps DEF DeleteDocument, Gone
<1>3. CASE ~Exists(d)
  <2>1. Idle \in AnyRequest /\ Sound(Idle)
    BY DEF AnyRequest, Sound, Idle
  <2> QED  BY <1>1, <1>3, <2>1, RequestStep DEF DeleteDocument, Finish
<1> QED  BY <1>2, <1>3

LEMMA DStep == DInv /\ [Next]_vars => DInv'
<1> SUFFICES ASSUME DInv, [Next]_vars PROVE DInv'
  OBVIOUS
<1>1. CASE UNCHANGED vars
  BY <1>1 DEF vars, tables, DInv, TypeOK, Exists, On, StoreWasPut, RequestsSound, Sound,
              Names, SignatureVouches
<1>2. ASSUME NEW r \in Requests, Serve(r) PROVE DInv'
  BY <1>2, BeginningKeeps, AskKeeps, AbandonKeeps, FindObjectKeeps, InsertVersionKeeps, VerifyObjectKeeps,
     CreateSignatureKeeps, CleanDocumentKeeps, SaveDocumentKeeps, DeleteDocumentKeeps,
     CleanMinutesKeeps, SaveMinutesKeeps DEF Serve
<1>3. ASSUME NEW d \in Documents, Presign(d) \/ PresignNextVersion(d) PROVE DInv'
  BY <1>3, PresignKeeps
<1>4. ASSUME NEW d \in Documents, DeleteOwner(d) PROVE DInv'
  BY <1>4, EraseKeeps DEF DeleteOwner, Gone
<1>5. ASSUME NEW o \in Objects, PutObject(o) PROVE DInv'
  BY <1>5, PutObjectKeeps
<1> QED  BY <1>1, <1>2, <1>3, <1>4, <1>5 DEF Next

LEMMA DInvariance == Spec => []DInv
BY Initially, DStep, PTL DEF Spec

(***************************************************************************)
(* The theorems.                                                           *)
(***************************************************************************)

\* The tables and the requests have their types, and what refers to a document
\* refers to one that exists.
THEOREM TypeCorrectness == Spec => []TypeOK
<1>1. DInv => TypeOK
  BY DEF DInv
<1> QED  BY <1>1, DInvariance, PTL

\* A signature vouches for bytes that were stored under the key its version
\* records (RF-D04), whoever replaces the object before, between and after the checks.
THEOREM SignaturesVouch == Spec => []SignatureVouches
<1>1. DInv => SignatureVouches
  BY DEF DInv
<1> QED  BY <1>1, DInvariance, PTL

(***************************************************************************)
(* The action properties.                                                  *)
(***************************************************************************)

Emptied(d) == versions' = [versions EXCEPT ![d] = <<>>]

\* Which steps write versions.
LEMMA VersionSteps ==
  ASSUME DInv, [Next]_vars
  PROVE  \/ UNCHANGED versions
         \/ \E d \in Documents : Emptied(d)
         \/ \E r \in Requests : InsertVersion(r) \/ CreateSignature(r)
<1>1. CASE UNCHANGED vars
  BY <1>1 DEF vars, tables
<1>2. ASSUME NEW r \in Requests, DeleteDocument(r)
      PROVE  UNCHANGED versions \/ \E d \in Documents : Emptied(d)
  <2>1. req[r].document \in Documents
    BY <1>2, RequestTyped, PhaseTells DEF DeleteDocument, DInv
  <2> QED  BY <1>2, <2>1 DEF DeleteDocument, Erase, Emptied, tables
<1>3. ASSUME NEW r \in Requests, Serve(r), ~InsertVersion(r), ~CreateSignature(r),
             ~DeleteDocument(r)
      PROVE  UNCHANGED versions
  BY <1>3 DEF Serve, BeginConfirm, LoadDocument, BeginDelete, BeginSign, Ask,
              CreateMinutes, PatchMinutes, DeleteMinutes, FindObject, VerifyObject, CleanDocument, SaveDocument, CleanMinutes,
              SaveMinutes, Abandon, Begin, Goto, tables
<1>4. ASSUME NEW d \in Documents, DeleteOwner(d) PROVE Emptied(d)
  BY <1>4 DEF DeleteOwner, Erase, Emptied
<1>5. ASSUME \/ \E d \in Documents : Presign(d) \/ PresignNextVersion(d)
             \/ \E o \in Objects : PutObject(o)
      PROVE  UNCHANGED versions
  BY <1>5 DEF Presign, PresignNextVersion, PutObject
<1> QED  BY <1>1, <1>2, <1>3, <1>4, <1>5 DEF Next

Uploaded(d, v) ==
  IF v \in DOMAIN versions[d]
  THEN /\ versions'[d][v].key = versions[d][v].key
       /\ versions'[d][v].sha256 = versions[d][v].sha256
       /\ versions[d][v].signed => versions'[d][v].signed
  ELSE put[versions'[d][v].key] # {}

LEMMA UploadedStep ==
  ASSUME DInv, [Next]_vars, NEW d \in Documents, NEW v \in DOMAIN versions'[d]
  PROVE  Uploaded(d, v)
<1>0. TypeOK
  BY DEF DInv
<1>1. CASE UNCHANGED versions
  BY <1>1 DEF Uploaded
<1>2. ASSUME NEW e \in Documents, Emptied(e) PROVE Uploaded(d, v)
  <2>1. d # e /\ versions'[d] = versions[d]
    BY <1>0, <1>2 DEF Emptied, TypeOK
  <2> QED  BY <2>1 DEF Uploaded
<1>3. ASSUME NEW r \in Requests, InsertVersion(r) PROVE Uploaded(d, v)
  <2>1. req[r] \in Uploading /\ req[r].phase = "uploaded" /\ Sound(req[r])
    BY <1>3, RequestTyped, PhaseTells DEF InsertVersion, DInv, RequestsSound
  <2>2. PICK e \in Documents, k \in Numbers : e = req[r].document /\ k = req[r].version
    BY <2>1 DEF Uploading
  <2>3. put[req[r].key] # {} /\ k \notin DOMAIN versions[e]
    BY <1>3, <2>1, <2>2 DEF Sound, InsertVersion, Insertable
  <2>4. PICK x : /\ x.key = req[r].key
                 /\ versions' = [versions EXCEPT ![e] =
                      [w \in DOMAIN versions[e] \cup {k} |->
                         IF w = k THEN x ELSE versions[e][w]]]
    BY <1>3, <2>2 DEF InsertVersion
  <2>5. CASE d = e
    BY <1>0, <2>3, <2>4, <2>5 DEF Uploaded, TypeOK
  <2>6. CASE d # e
    BY <1>0, <2>4, <2>6 DEF Uploaded, TypeOK
  <2> QED  BY <2>5, <2>6
<1>4. ASSUME NEW r \in Requests, CreateSignature(r) PROVE Uploaded(d, v)
  <2>1. req[r] \in Signing /\ Sound(req[r])
    BY <1>4, RequestTyped, PhaseTells DEF CreateSignature, DInv, RequestsSound
  <2>2. PICK e \in Documents, k \in Numbers : e = req[r].document /\ k = req[r].version
    BY <2>1 DEF Signing
  <2>3. /\ k \in DOMAIN versions[e]
        /\ versions' = [versions EXCEPT ![e] = [versions[e] EXCEPT ![k].signed = TRUE]]
    BY <1>4, <2>1, <2>2 DEF CreateSignature, Sound, Names
  <2>4. CASE d # e
    BY <1>0, <2>3, <2>4 DEF Uploaded, TypeOK
  <2>5. CASE d = e
    <3>1. /\ DOMAIN versions'[d] = DOMAIN versions[d]
          /\ \A w \in DOMAIN versions[d] \ {k} : versions'[d][w] = versions[d][w]
          /\ versions'[d][k] = [versions[d][k] EXCEPT !.signed = TRUE]
      BY <1>0, <2>3, <2>5 DEF TypeOK
    <3>2. versions[d][k] \in VersionRow
      BY <1>0, <2>3, <2>5, VersionsTyped
    <3>3. /\ versions'[d][k].key = versions[d][k].key
          /\ versions'[d][k].sha256 = versions[d][k].sha256
          /\ versions'[d][k].signed = TRUE
      BY <3>1, <3>2 DEF VersionRow
    <3> QED  BY <3>1, <3>3 DEF Uploaded
  <2> QED  BY <2>4, <2>5
<1> QED  BY <1>1, <1>2, <1>3, <1>4, VersionSteps

\* A version row is created only over an object that was put, its own or
\* another, and keeps its key, its hash and its signature as long as it is there.
THEOREM VersionsStayAsUploaded == Spec => VersionsAreUploaded
<1>1. DInv /\ [Next]_vars =>
        [\A d \in Documents : \A v \in DOMAIN versions'[d] :
           LET new == versions'[d][v] IN
           IF v \in DOMAIN versions[d]
           THEN LET old == versions[d][v] IN
                new.key = old.key /\ new.sha256 = old.sha256 /\ (old.signed => new.signed)
           ELSE put[new.key] # {}]_vars
  BY UploadedStep DEF Uploaded
<1> QED  BY <1>1, DInvariance, PTL DEF Spec, VersionsAreUploaded

Stays(d) == UNCHANGED <<document[d], versions[d]>>
MinutesStay(d) == \A m \in Minutes : On(m, d)' => minutes'[m] = minutes[m]
Kept(d) == Stays(d) /\ MinutesStay(d)

\* A step that leaves the tables alone keeps every document.
LEMMA TablesKeep ==
  ASSUME UNCHANGED <<document, versions, minutes>>, NEW d \in Documents
  PROVE  Kept(d)
BY DEF Kept, Stays, MinutesStay

\* What a request writes is about the document it names.
LEMMA WritesAbout ==
  ASSUME DInv, NEW d \in Documents, NEW r \in Requests, req[r].document # d,
         InsertVersion(r) \/ CreateSignature(r) \/ SaveDocument(r) \/ SaveMinutes(r)
  PROVE  Kept(d)
<1>0. TypeOK /\ Sound(req[r])
  BY DEF DInv, RequestsSound
<1>1. PICK e \in Documents : e = req[r].document /\ e # d
  BY <1>0, RequestTyped, PhaseTells
  DEF InsertVersion, CreateSignature, SaveDocument, SaveMinutes
<1>2. CASE InsertVersion(r) \/ CreateSignature(r) \/ SaveDocument(r)
  BY <1>0, <1>1, <1>2
  DEF TypeOK, InsertVersion, CreateSignature, SaveDocument, Kept, Stays, MinutesStay
<1>3. CASE SaveMinutes(r)
  <2>1. PICK n \in Minutes : n = req[r].minutes
    BY <1>0, <1>3, RequestTyped, PhaseTells DEF SaveMinutes
  <2>2. \A m \in Minutes : minutes'[m] = IF m = n THEN req[r].row ELSE minutes[m]
    BY <1>0, <1>3, <2>1 DEF TypeOK, SaveMinutes
  <2>3. ~On(n, d)'
    BY <1>0, <1>1, <1>3, <2>2 DEF SaveMinutes, Sound, On
  <2> QED  BY <1>3, <2>2, <2>3 DEF SaveMinutes, Kept, Stays, MinutesStay
<1> QED  BY <1>2, <1>3

\* A step of a request that is not past its check leaves the tables alone, and
\* on a signed document it does not get past it.
LEMMA FrozenStep ==
  ASSUME DInv, [Next]_vars, NEW d \in Documents, FlaggedSigned(d), HasSignature(d)
  PROVE  /\ Passed(d)' \subseteq Passed(d)
         /\ Passed(d) = {} => Kept(d) \/ document'[d] = Bereft
<1>0. TypeOK /\ Exists(d)
  BY DEF DInv, FlaggedSigned
<1>1. CASE UNCHANGED vars
  BY <1>1, TablesKeep DEF vars, tables, Passed
<1>2. ASSUME NEW r \in Requests, NEW q, Begin(r, q),
             q.phase \in {"loaded", "acta"} \/ ~FlaggedSigned(q.document)
      PROVE  Passed(d)' \subseteq Passed(d) /\ Kept(d)
  <2>1. \A s \in Requests : req'[s] = IF s = r THEN q ELSE req[s]
    BY <1>0, <1>2 DEF TypeOK, Begin
  <2> QED  BY <1>2, <2>1, TablesKeep DEF Passed, Begin, tables
<1>3. ASSUME NEW r \in Requests, NEW e \in Documents,
             \/ BeginConfirm(r, e) \/ LoadDocument(r, e) \/ BeginDelete(r, e)
             \/ \E v \in Numbers : BeginSign(r, e, v)
      PROVE  Passed(d)' \subseteq Passed(d) /\ Kept(d)
  <2>1. CASE BeginConfirm(r, e)
    BY <1>2, <2>1 DEF BeginConfirm
  <2>2. CASE LoadDocument(r, e)
    BY <1>2, <2>2 DEF LoadDocument
  <2>3. CASE BeginDelete(r, e)
    BY <1>2, <2>3 DEF BeginDelete
  <2>4. ASSUME NEW v \in Numbers, BeginSign(r, e, v)
        PROVE  Passed(d)' \subseteq Passed(d) /\ Kept(d)
    BY <1>2, <2>4 DEF BeginSign, Signable
  <2> QED  BY <1>3, <2>1, <2>2, <2>3, <2>4
<1>4. ASSUME NEW r \in Requests, NEW m \in Minutes,
             CreateMinutes(r, m) \/ PatchMinutes(r, m) \/ DeleteMinutes(r, m)
      PROVE  Passed(d)' \subseteq Passed(d) /\ Kept(d)
  BY <1>2, <1>4 DEF CreateMinutes, PatchMinutes, DeleteMinutes, Ask
<1>5. ASSUME NEW r \in Requests,
             FindObject(r) \/ VerifyObject(r) \/ CleanDocument(r) \/ CleanMinutes(r)
      PROVE  Passed(d)' \subseteq Passed(d) /\ Kept(d)
  <2>1. /\ req[r] \in AnyRequest /\ req[r] # Idle
        /\ req[r].phase \in {"loaded", "acta"} => req[r].document # d
    BY <1>0, <1>5, RequestTyped
    DEF FindObject, VerifyObject, CleanDocument, CleanMinutes, Clean, MinutesClean, Idle
  <2>2. PICK phase : Goto(r, phase)
    BY <1>5 DEF FindObject, VerifyObject, CleanDocument, CleanMinutes
  <2>3. /\ \A s \in Requests \ {r} : req'[s] = req[s]
        /\ req'[r].document = req[r].document
    BY <1>0, <2>1, <2>2
    DEF TypeOK, Goto, AnyRequest, Idle, Uploading, Signing, Editing
  <2> QED  BY <2>1, <2>2, <2>3, TablesKeep DEF Passed, Goto, tables
<1>6. ASSUME NEW r \in Requests, Finish(r)
      PROVE  Passed(d)' \subseteq Passed(d)
  BY <1>0, <1>6, Finishing DEF Passed
<1>7. ASSUME NEW r \in Requests, Abandon(r)
      PROVE  Passed(d)' \subseteq Passed(d) /\ Kept(d)
  BY <1>6, <1>7, TablesKeep DEF Abandon, tables
<1>8. ASSUME NEW r \in Requests,
             InsertVersion(r) \/ CreateSignature(r) \/ SaveDocument(r) \/ SaveMinutes(r)
      PROVE  Passed(d)' \subseteq Passed(d) /\ (Passed(d) = {} => Kept(d))
  <2>1. Finish(r)
    BY <1>8 DEF InsertVersion, CreateSignature, SaveDocument, SaveMinutes
  <2>2. CASE req[r].document = d
    <3>1. r \in Passed(d)
      BY <1>8, <2>2
      DEF Passed, InsertVersion, CreateSignature, SaveDocument, SaveMinutes, Idle
    <3> QED  BY <1>6, <2>1, <3>1
  <2>3. CASE req[r].document # d
    BY <1>6, <1>8, <2>1, <2>3, WritesAbout
  <2> QED  BY <2>2, <2>3
<1>9. ASSUME NEW e \in Documents, NEW gone \in Gone, NEW done \in SUBSET Requests,
             Erase(e, gone, done)
      PROVE  /\ Passed(d)' \subseteq Passed(d)
             /\ IF e = d THEN document'[d] = gone ELSE Kept(d)
  <2>1. \A s \in Requests : req'[s] \in {req[s], Idle}
    BY <1>9 DEF Erase
  <2>2. Passed(d)' \subseteq Passed(d)
    BY <2>1 DEF Passed
  <2>3. CASE e = d
    BY <1>0, <1>9, <2>2, <2>3 DEF Erase, TypeOK
  <2>4. CASE e # d
    <3>1. Stays(d)
      BY <1>0, <1>9, <2>4 DEF Erase, TypeOK, Stays
    <3>2. MinutesStay(d)
      BY <1>9 DEF Erase, MinutesStay, On
    <3> QED  BY <2>2, <2>4, <3>1, <3>2 DEF Kept
  <2> QED  BY <2>3, <2>4
<1>10. ASSUME NEW r \in Requests, DeleteDocument(r)
       PROVE  Passed(d)' \subseteq Passed(d) /\ (Passed(d) = {} => Kept(d))
  <2>1. PICK e \in Documents : e = req[r].document
    BY <1>0, <1>10, RequestTyped, PhaseTells DEF DeleteDocument
  <2>2. r \in Passed(e)
    BY <1>10, <2>1 DEF Passed, DeleteDocument, Idle
  <2>3. CASE Exists(e)
    BY <1>9, <1>10, <2>1, <2>2, <2>3 DEF DeleteDocument, Gone
  <2>4. CASE ~Exists(e)
    BY <1>6, <1>10, <2>1, <2>4, TablesKeep DEF DeleteDocument, tables
  <2> QED  BY <2>3, <2>4
<1>11. ASSUME NEW e \in Documents, DeleteOwner(e)
       PROVE  Passed(d)' \subseteq Passed(d) /\ (Kept(d) \/ document'[d] = Bereft)
  BY <1>9, <1>11 DEF DeleteOwner, Gone
<1>12. ASSUME NEW e \in Documents, Presign(e) \/ PresignNextVersion(e)
       PROVE  Passed(d)' \subseteq Passed(d) /\ Kept(d)
  <2>1. Passed(d)' \subseteq Passed(d)
    BY <1>12 DEF Presign, PresignNextVersion, Passed
  <2>2. CASE Presign(e)
    <3>1. e # d
      BY <1>0, <2>2 DEF Presign, Exists, Gone
    <3> QED  BY <1>0, <2>1, <2>2, <3>1 DEF Presign, TypeOK, Kept, Stays, MinutesStay
  <2>3. CASE PresignNextVersion(e)
    BY <2>1, <2>3, TablesKeep DEF PresignNextVersion
  <2> QED  BY <1>12, <2>2, <2>3
<1>13. ASSUME NEW o \in Objects, PutObject(o)
       PROVE  Passed(d)' \subseteq Passed(d) /\ Kept(d)
  BY <1>13, TablesKeep DEF PutObject, Passed
<1>14. ASSUME NEW r \in Requests, Serve(r)
       PROVE  Passed(d)' \subseteq Passed(d) /\ (Passed(d) = {} => Kept(d))
  BY <1>3, <1>4, <1>5, <1>7, <1>8, <1>10, <1>14 DEF Serve
<1> QED  BY <1>1, <1>11, <1>12, <1>13, <1>14 DEF Next

\* RF-066, as far as the code goes: on a signed document no request gets past
\* its check, and once those that had passed before are done, the document
\* and its versions stay, or go with what they belong to, and no minutes of it
\* are added or changed in place.
THEOREM SignedDocumentsStay == Spec => SignedStaysFrozen
<1>1. DInv /\ [Next]_vars =>
        [\A d \in Documents :
           FlaggedSigned(d) /\ HasSignature(d) =>
             /\ Passed(d)' \subseteq Passed(d)
             /\ Passed(d) = {} =>
                  \/ /\ UNCHANGED <<document[d], versions[d]>>
                     /\ \A m \in Minutes : On(m, d)' => minutes'[m] = minutes[m]
                  \/ document'[d] = Bereft]_vars
  BY FrozenStep DEF Kept, Stays, MinutesStay
<1> QED  BY <1>1, DInvariance, PTL DEF Spec, SignedStaysFrozen
==============================================================================
