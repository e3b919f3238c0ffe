-------------------------------- MODULE CaseRows --------------------------------
(***************************************************************************)
(* The rows that readers see: per case number, what the last commit left.  *)
(* A request that only reads takes no mutex and no transaction around its  *)
(* statements (internal/application/query.go, workqueue.go), so commits    *)
(* come between any two of them.  Which changes the rules allow is the     *)
(* subject of InspectionCase; here a case is tested, frozen and certified, *)
(* and until it is frozen its unresolved defects come and go.              *)
(***************************************************************************)
EXTENDS Integers, FiniteSets

CONSTANTS
  Numbers,      \* case numbers, as positions in their order
  Legacy,       \* the cases certified by the earlier version of the program
  OpenDefects,  \* what unresolved defects a case may have, counted by severity
  Suffix,       \* of each number: the last eight digits of the identifier
  TicksPerDay,  \* bound: clock readings in a day
  MaxTime,      \* bound
  MaxCommits,   \* bound
  MaxOpen,      \* bound: unresolved defects of one severity in a case
  Nil

Severities == {"minor", "major", "critical"}

DefectCounts == [Severities -> 0..MaxOpen]
NoDefects == [s \in Severities |-> 0]

ASSUME RowAssumption ==
  /\ Numbers \subseteq Nat /\ IsFiniteSet(Numbers) /\ Legacy \subseteq Numbers
  /\ OpenDefects \subseteq DefectCounts
  /\ DOMAIN Suffix = Numbers
  /\ TicksPerDay \in Nat \ {0} /\ MaxTime \in Nat
  /\ MaxCommits \in Nat /\ MaxOpen \in Nat

VARIABLES
  rows,      \* per number, the row of inspection_cases, or Nil
  clock,     \* time.Now
  commits    \* how many there have been

store == <<rows, clock, commits>>

RowStatuses == {"testing", "frozen", "certified"}

-----------------------------------------------------------------------------
(* Seeded faults.  No action uses these: each is a plausible mistake in the *)
(* definition that PROJECT.json pairs it with.                              *)

NumberUnchecked(number) == TRUE

-----------------------------------------------------------------------------

Digest(content) == [sha256 |-> content]

\* RTS-<day>-<last eight digits of the identifier>
CertificateNumber(n, at) == <<at \div TicksPerDay, Suffix[n]>>

\* What the verification digest covers; the earlier version of the program
\* bound the identifier of the case where this one binds its number.
CertificateDigest(id, binding, report, number, issuedAt) ==
  Digest([id |-> id, binding |-> binding, report |-> report,
          number |-> number, issuedAt |-> issuedAt])

ByIdentifier(n) == <<"identifier", n>>
ByNumber(n) == <<"number", n>>

NewCertificate(n, at) ==
  LET number == CertificateNumber(n, at)
      binding == IF n \in Legacy THEN ByIdentifier(n) ELSE ByNumber(n)
  IN [id |-> n, caseNumber |-> IF n \in Legacy THEN Nil ELSE n, report |-> n,
      number |-> number, issuedAt |-> at,
      digest |-> CertificateDigest(n, binding, n, number, at)]

Certificates == {NewCertificate(n, at) : n \in Numbers, at \in 0..MaxTime}
RowRecords == [version : Nat, status : RowStatuses, updatedAt : 0..MaxTime,
               open : DefectCounts, certificate : {Nil} \union Certificates]

ASSUME NilAssumption == Nil \notin Numbers /\ Nil \notin Certificates /\ Nil \notin RowRecords

Certified == {n \in Numbers : rows[n] # Nil /\ rows[n].status = "certified"}

\* certificate_number is a unique column: the insertion fails on a number taken.
NumberFree(number) == \A n \in Certified : rows[n].certificate.number # number

NewRow(at, open) ==
  [version |-> 1, status |-> "testing", updatedAt |-> at, open |-> open, certificate |-> Nil]

CertifiedRow(n, at) ==
  [version |-> 3, status |-> "certified", updatedAt |-> at, open |-> NoDefects,
   certificate |-> NewCertificate(n, at)]

InitialRows(n) ==
  IF n \in Legacy THEN {CertifiedRow(n, at) : at \in 0..clock}
  ELSE {Nil} \union {NewRow(at, open) : at \in 0..clock, open \in OpenDefects}

\* A store as some earlier run of the program left it.
InitRows ==
  /\ clock \in 0..MaxTime
  /\ commits = 0
  /\ rows \in {r \in [Numbers -> UNION {InitialRows(n) : n \in Numbers}] :
               \A n \in Numbers : r[n] \in InitialRows(n)}
  /\ \A m, n \in Legacy :
       rows[m].certificate.number = rows[n].certificate.number => m = n

Tick ==
  /\ clock < MaxTime
  /\ clock' = clock + 1
  /\ UNCHANGED <<rows, commits>>

\* A command takes its reading of the clock before it commits, so commits of
\* different cases may come in another order than their times.
Write(n, row) ==
  /\ commits < MaxCommits /\ commits' = commits + 1
  /\ rows' = [rows EXCEPT ![n] = row]
  /\ UNCHANGED clock

Create(n) ==
  /\ rows[n] = Nil
  /\ \E at \in 0..clock : Write(n, NewRow(at, NoDefects))

\* EnsureMutable: nothing changes a case that is frozen or certified.
Mutable(row) == row # Nil /\ row.status = "testing"

Change(n) ==
  /\ Mutable(rows[n])
  /\ \E at \in rows[n].updatedAt..clock, open \in OpenDefects, status \in {"testing", "frozen"} :
       /\ status = "frozen" => open = NoDefects
       /\ Write(n, [rows[n] EXCEPT !.version = @ + 1, !.status = status,
                                   !.updatedAt = at, !.open = open])

Issue(n) ==
  /\ rows[n] # Nil /\ rows[n].status = "frozen"
  /\ \E at \in rows[n].updatedAt..clock :
       /\ NumberFree(CertificateNumber(n, at))
       /\ Write(n, [rows[n] EXCEPT !.version = @ + 1, !.status = "certified",
                                   !.updatedAt = at, !.certificate = NewCertificate(n, at)])

Commit(n) == Create(n) \/ Change(n) \/ Issue(n)
=============================================================================
