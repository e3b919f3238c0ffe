---------------------------- MODULE CertificateCheck ----------------------------
(***************************************************************************)
(* How a certificate is fetched and verified: GetCertificate and           *)
(* VerifyCertificate of internal/application/query.go, over                *)
(* LoadCaseByCertificateNumber, which reads the row of the certificate,    *)
(* the case and the detail tables in statements of their own.  A client    *)
(* keeps what it fetched and presents it later, as it is or altered.       *)
(***************************************************************************)
EXTENDS CaseRows

VARIABLES
  held,     \* the certificate the client fetched, Nil before
  request,  \* the path and the certificate it presents, Nil before
  found,    \* the case that the number of the certificate led to
  view,     \* that case as LoadCase returned it
  answer    \* the reasons against it, {} for none, or an error; Nil before

check == <<held, request, found, view, answer>>

Reasons == {"certificate_not_found", "case_mismatch",
            "report_digest_mismatch", "content_digest_invalid"}

ASSUME AnswerAssumption == Nil # {}

-----------------------------------------------------------------------------
(* Pieces of the handlers *)

\* What GetCertificate answers; the number of the case is the aggregate's.
Certificate(n) ==
  [number |-> rows[n].certificate.number, id |-> rows[n].certificate.id,
   caseNumber |-> n, report |-> rows[n].certificate.report,
   issuedAt |-> rows[n].certificate.issuedAt, digest |-> rows[n].certificate.digest]

\* A certificate that is not what was issued: one field of it is another, and
\* the digest may have been computed again over what it now says, with the
\* binding of either version of the program.
Altered(c) ==
  LET changed == {[c EXCEPT !.caseNumber = n] : n \in Numbers}
        \union {[c EXCEPT !.id = n] : n \in Numbers}
        \union {[c EXCEPT !.report = n] : n \in Numbers}
        \union {[c EXCEPT !.number = rows[n].certificate.number] : n \in Certified}
        \union {[c EXCEPT !.number = Nil]}
        \union {[c EXCEPT !.issuedAt = at] : at \in 0..MaxTime}
  IN changed \union
       {[d EXCEPT !.digest = CertificateDigest(d.id, binding, d.report, d.number, d.issuedAt)] :
          d \in changed, binding \in {ByIdentifier(n) : n \in Numbers} \union {ByNumber(n) : n \in Numbers}}

\* A certificate of the earlier version is bound to the identifier of its case.
CaseBinding(carried, row) ==
  IF row.certificate.caseNumber = Nil THEN ByIdentifier(found) ELSE ByNumber(carried.caseNumber)

ContentDigestValid(carried, row) ==
  carried.digest = CertificateDigest(carried.id, CaseBinding(carried, row), carried.report,
                                     carried.number, carried.issuedAt)

\* A seeded fault, as in CaseRows.
IssuedAtUncompared(carried, row) ==
  ContentDigestValid(carried, row) /\ row.certificate.id = carried.id

ContentValid(carried, row) ==
  /\ ContentDigestValid(carried, row)
  /\ row.certificate.id = carried.id
  /\ row.certificate.issuedAt = carried.issuedAt
  /\ row.certificate.number = carried.number

CaseMatched(carried, path) == found = path /\ found = carried.caseNumber

\* VerifyCarriedCertificate.  The report of a case is named after the case.
ReasonsAgainst(path, carried, row) ==
  {r \in Reasons \ {"certificate_not_found"} :
     \/ r = "case_mismatch" /\ ~CaseMatched(carried, path)
     \/ r = "report_digest_mismatch" /\ ~(found = carried.report
                                          /\ row.certificate.report = carried.report)
     \/ r = "content_digest_invalid" /\ ~ContentValid(carried, row)}

-----------------------------------------------------------------------------
(* Steps *)

InitCheck ==
  held = Nil /\ request = Nil /\ found = Nil /\ view = Nil /\ answer = Nil

\* GetCertificate; a case without one answers not_found, and nothing is held.
FetchCertificate(n) ==
  /\ held = Nil
  /\ rows[n] # Nil /\ rows[n].certificate # Nil
  /\ held' = Certificate(n)
  /\ UNCHANGED <<request, found, view, answer>>

Present(path) ==
  /\ held # Nil /\ request = Nil
  /\ \E carried \in {held} \union Altered(held) :
       request' = [path |-> path, carried |-> carried]
  /\ UNCHANGED <<held, found, view, answer>>

\* The join of certificates and inspection_cases by certificate number.
FindCertificate ==
  LET matching == {n \in Certified : rows[n].certificate.number = request.carried.number}
  IN /\ request # Nil /\ found = Nil /\ answer = Nil
     /\ \/ /\ matching = {}
           /\ answer' = {"certificate_not_found"}
           /\ UNCHANGED found
        \/ found' \in matching /\ UNCHANGED answer
     /\ UNCHANGED <<held, request, view>>

LoadFound ==
  /\ found # Nil /\ view = Nil
  /\ view' = rows[found]
  /\ UNCHANGED <<held, request, found, answer>>

\* validateMaterializedView reads the detail tables in further statements: a
\* case that has changed since it was loaded no longer agrees with them.
ValidateViewAndAnswer ==
  /\ view # Nil /\ answer = Nil
  /\ answer' = IF rows[found] = view
                 THEN ReasonsAgainst(request.path, request.carried, view)
                 ELSE {"integrity_error"}
  /\ UNCHANGED <<held, request, found, view>>

CheckStep ==
  \/ \E n \in Numbers : FetchCertificate(n) \/ Present(n)
  \/ FindCertificate \/ LoadFound \/ ValidateViewAndAnswer

-----------------------------------------------------------------------------
(* Properties *)

\* A certificate that was fetched, and is presented unaltered for its case, is
\* valid at any later time: no commit comes between the three statements that
\* could disturb the case, and its number leads to no other case.
GenuineIsValid ==
  answer # Nil /\ request.carried = held /\ request.path = held.caseNumber => answer = {}

\* What is found valid is, field for field, the certificate of the case named
\* in the path, whoever put it together and computed its digest again.
ValidMeansGenuine ==
  answer = {} => request.path \in Certified /\ request.carried = Certificate(request.path)
=============================================================================
