----------------------------- MODULE ReadersProofs -----------------------------
(***************************************************************************)
(* Theorems about Readers: paging through the work queue and verifying a   *)
(* certificate, beside any number of commits on any number of cases.       *)
(***************************************************************************)
EXTENDS Readers, FiniteSetTheorems, TLAPS

-----------------------------------------------------------------------------
(* The inductive invariant *)

QueryRecords == [statuses : SUBSET RowStatuses, highest : {Any} \union Severities,
                 from : {Any} \union Nat, to : {Any} \union Nat, limit : Int]

\* A row has a certificate when it is certified, and it is its own; no two
\* certificates have one number.
RowSound(n) ==
  rows[n] # Nil =>
    /\ rows[n].certificate # Nil <=> rows[n].status = "certified"
    /\ rows[n].certificate # Nil => \E at \in 0..MaxTime : rows[n].certificate = NewCertificate(n, at)

NumbersUnique ==
  \A m, n \in Certified : rows[m].certificate.number = rows[n].certificate.number => m = n

RowsSound ==
  /\ rows \in [Numbers -> {Nil} \union RowRecords]
  /\ clock \in 0..MaxTime /\ commits \in 0..MaxCommits
  /\ \A n \in Numbers : RowSound(n)
  /\ NumbersUnique

Listed == page \union shown

SessionTyped ==
  /\ step \in SessionSteps /\ more \in BOOLEAN
  /\ step # "idle" => query \in QueryRecords /\ query.limit \in 1..MaxLimit
  /\ step = "idle" => shown = {} /\ counted = {}
  /\ step \notin {"statuses", "severities"} => page = {}
  /\ Listed \subseteq Entries /\ cursor \in {Nil} \union shown
  /\ touched \subseteq Numbers

\* What was shown is up to the cursor, what is on the page is after it, and a
\* case is never older than the entry that was made of it.
CursorSound ==
  /\ step # "done" => \A e \in shown : cursor # Nil /\ (e = cursor \/ Before(e, cursor))
  /\ \A e \in page : cursor = Nil \/ Before(cursor, e)
  /\ \A e \in Listed : rows[e.number] # Nil /\ e.updatedAt <= rows[e.number].updatedAt
  /\ NoneTwice

\* A matching case that nobody has changed was listed or is still to come.
StillToCome(n) ==
  \/ step \in {"page", "paused"} /\ After(n)
  \/ step \in {"statuses", "severities"} /\ more /\ \A e \in page : Before(e, Entry(n))

CoverSound ==
  /\ \A e \in Listed :
       e.number \notin touched => e = Entry(e.number) /\ Matches(rows[e.number])
  /\ step # "idle" => \A n \in Numbers \ touched :
       Matches(rows[n]) => StillToCome(n) \/ \E e \in Listed : e.number = n

\* What a count is sure to contain: matching cases that nobody has changed, and
\* their unresolved defects.  All else in it is of cases that were changed.
Known == CountedCases \ touched
KnownRows(s) == {n \in Known : rows[n].status = s}
DefectsOf(n, s) == {n} \X (1..rows[n].open[s])
KnownDefects(s) == UNION {DefectsOf(n, s) : n \in Known}

CountOf(count, sure, others) ==
  \E S \in SUBSET (sure \union others) : sure \subseteq S /\ count = Cardinality(S)

StatusesSound(counts) == \A s \in RowStatuses : CountOf(counts[s], KnownRows(s), touched)

SeveritiesSound(counts) ==
  \A s \in Severities : CountOf(counts[s], KnownDefects(s), touched \X (1..MaxOpen))

CountsSound ==
  /\ \A c \in counted : StatusesSound(c.byStatus) /\ SeveritiesSound(c.bySeverity)
  /\ step = "severities" => StatusesSound(byStatus)

SessionSound ==
  SessionTyped /\ CursorSound /\ CoverSound /\ CountsSound /\ FilterMeansSummary

\* Certificates as they are presented: each field may be anything.
IsCarried(c) ==
  c = [number |-> c.number, id |-> c.id, caseNumber |-> c.caseNumber, report |-> c.report,
       issuedAt |-> c.issuedAt, digest |-> c.digest]

\* What the statements of a verification have read is still so at the next one.
CheckSound ==
  /\ held # Nil => \E n \in Certified : held = Certificate(n)
  /\ request # Nil => held # Nil /\ IsCarried(request.carried)
  /\ found # Nil =>
       /\ request # Nil /\ found \in Certified
       /\ rows[found].certificate.number = request.carried.number
  /\ view # Nil => found # Nil /\ view = rows[found]
  /\ answer # Nil =>
       /\ request # Nil
       /\ \/ /\ found = Nil /\ answer = {"certificate_not_found"}
             /\ request.carried.number # held.number
          \/ /\ found # Nil /\ view # Nil
             /\ answer = ReasonsAgainst(request.path, request.carried, view)

-----------------------------------------------------------------------------
(* The rows *)

\* The worst of some severities, and the filter that asks for it: a severity is
\* the highest of a case when it occurs and none that Higher names does.
LEMMA HighestIsWorst ==
  ASSUME NEW open \in SUBSET Severities
  PROVE  /\ HighestRisk(open) \in {Any} \union Severities
         /\ \A s \in open : open \intersect Higher(s) = {} => HighestRisk(open) = s
<1> DEFINE worst(s) == \A t \in open : SeverityRank[t] <= SeverityRank[s]
<1>1. /\ SeverityRank["minor"] = 1 /\ SeverityRank["major"] = 2 /\ SeverityRank["critical"] = 3
  BY DEF SeverityRank
<1>2. ASSUME NEW s \in open, open \intersect Higher(s) = {}
      PROVE  worst(s) /\ \A t \in open : worst(t) => t = s
  <2>1. CASE s = "critical"
    BY <1>1, <2>1 DEF Severities
  <2>2. CASE s = "major"
    <3>1. "critical" \notin open
      BY <1>2, <2>2 DEF Higher
    <3> QED BY <1>1, <2>2, <3>1 DEF Severities
  <2>3. CASE s = "minor"
    <3>1. "critical" \notin open /\ "major" \notin open
      BY <1>2, <2>3 DEF Higher
    <3> QED BY <1>1, <2>3, <3>1 DEF Severities
  <2> QED BY <2>1, <2>2, <2>3 DEF Severities
<1>3. open # {} => \E s \in open : open \intersect Higher(s) = {}
  <2>1. CASE "critical" \in open
    <3>1. Higher("critical") = {}
      BY DEF Higher
    <3> QED BY <2>1, <3>1
  <2>2. CASE "critical" \notin open /\ "major" \in open
    <3>1. Higher("major") = {"critical"}
      BY DEF Higher
    <3> QED BY <2>2, <3>1
  <2>3. CASE "critical" \notin open /\ "major" \notin open
    <3>1. Higher("minor") = {"major", "critical"}
      BY DEF Higher
    <3> QED BY <2>3, <3>1 DEF Severities
  <2> QED BY <2>1, <2>2, <2>3
<1>4. ASSUME NEW s \in open, open \intersect Higher(s) = {}
      PROVE  HighestRisk(open) = s
  <2>1. HighestRisk(open) = CHOOSE t \in open : worst(t)
    BY <1>4 DEF HighestRisk
  <2>2. worst(s) /\ \A t \in open : worst(t) => t = s
    BY <1>2, <1>4
  <2> HIDE DEF worst
  <2> QED BY <2>1, <2>2
<1>5. HighestRisk(open) \in {Any} \union Severities
  BY <1>3, <1>4 DEF HighestRisk
<1> QED BY <1>4, <1>5

\* A case has no more unresolved defects of one severity than the bound.
LEMMA FewDefects ==
  ASSUME RowsSound, NEW n \in Numbers, rows[n] # Nil, NEW s \in Severities
  PROVE  rows[n].open[s] \in 0..MaxOpen /\ 1..rows[n].open[s] \subseteq 1..MaxOpen
<1>1. rows[n].open \in DefectCounts
  BY DEF RowsSound, RowRecords
<1>2. rows[n].open[s] \in 0..MaxOpen
  BY <1>1 DEF DefectCounts
<1> QED BY <1>2, RowAssumption

\* What a commit leaves of a case: it is not older, what is certified stays as
\* it is, and a new certificate has a number of its own.
LEMMA CommitRow ==
  ASSUME RowsSound, NEW n \in Numbers, Commit(n)
  PROVE  \E row \in RowRecords :
           /\ rows' = [rows EXCEPT ![n] = row]
           /\ rows[n] # Nil => rows[n].status # "certified" /\ rows[n].updatedAt <= row.updatedAt
           /\ row.certificate # Nil <=> row.status = "certified"
           /\ row.certificate # Nil =>
                \E at \in 0..MaxTime :
                  row.certificate = NewCertificate(n, at) /\ NumberFree(CertificateNumber(n, at))
<1>1. /\ rows[n] \in {Nil} \union RowRecords /\ RowSound(n)
      /\ 0..clock \subseteq 0..MaxTime /\ NoDefects \in DefectCounts
      /\ \A open \in OpenDefects : open \in DefectCounts
  BY RowAssumption DEF RowsSound, NoDefects, DefectCounts
<1>2. CASE Create(n)
  <2>1. PICK at \in 0..clock : rows' = [rows EXCEPT ![n] = NewRow(at, NoDefects)]
    BY <1>2 DEF Create, Write
  <2>2. NewRow(at, NoDefects) \in RowRecords
    BY <1>1 DEF NewRow, RowRecords, RowStatuses
  <2>3. NewRow(at, NoDefects).certificate = Nil /\ NewRow(at, NoDefects).status = "testing"
    BY DEF NewRow
  <2>4. rows[n] = Nil
    BY <1>2 DEF Create
  <2> QED BY <2>1, <2>2, <2>3, <2>4
<1>3. CASE Change(n)
  <2>1. rows[n] \in RowRecords /\ rows[n].status = "testing" /\ rows[n].certificate = Nil
    BY <1>1, <1>3 DEF Change, Mutable, RowSound
  <2>2. PICK at \in rows[n].updatedAt..clock, open \in OpenDefects, status \in {"testing", "frozen"} :
          rows' = [rows EXCEPT ![n] =
            [rows[n] EXCEPT !.version = @ + 1, !.status = status, !.updatedAt = at, !.open = open]]
    BY <1>3 DEF Change, Write
  <2> DEFINE row == [rows[n] EXCEPT !.version = @ + 1, !.status = status,
                                    !.updatedAt = at, !.open = open]
  <2>3. rows[n].updatedAt \in Nat /\ at \in 0..MaxTime /\ rows[n].updatedAt <= at
    BY <1>1, <2>1 DEF RowRecords, RowsSound
  <2>4. row \in RowRecords /\ row.certificate = Nil /\ row.status # "certified" /\ row.updatedAt = at
    <3>1. open \in DefectCounts /\ status \in RowStatuses
      BY <1>1 DEF RowStatuses
    <3>2. rows[n].version + 1 \in Nat
      BY <2>1 DEF RowRecords
    <3>3. row \in RowRecords
      BY <2>1, <2>3, <3>1, <3>2 DEF RowRecords
    <3> QED BY <2>1, <3>3 DEF RowRecords
  <2>5. rows' = [rows EXCEPT ![n] = row]
    BY <2>2
  <2> HIDE DEF row
  <2> QED BY <2>1, <2>3, <2>4, <2>5
<1>4. CASE Issue(n)
  <2>1. rows[n] \in RowRecords /\ rows[n].status = "frozen"
    BY <1>1, <1>4 DEF Issue
  <2>2. PICK at \in rows[n].updatedAt..clock :
          /\ NumberFree(CertificateNumber(n, at))
          /\ rows' = [rows EXCEPT ![n] =
               [rows[n] EXCEPT !.version = @ + 1, !.status = "certified",
                               !.updatedAt = at, !.certificate = NewCertificate(n, at)]]
    BY <1>4 DEF Issue, Write
  <2> DEFINE row == [rows[n] EXCEPT !.version = @ + 1, !.status = "certified",
                                    !.updatedAt = at, !.certificate = NewCertificate(n, at)]
  <2>3. rows[n].updatedAt \in Nat /\ at \in 0..MaxTime /\ rows[n].updatedAt <= at
    BY <1>1, <2>1 DEF RowRecords, RowsSound
  <2>4. NewCertificate(n, at) \in Certificates
    BY <2>3 DEF Certificates
  <2>5. /\ row \in RowRecords /\ row.certificate = NewCertificate(n, at)
        /\ row.status = "certified" /\ row.updatedAt = at
    <3>1. rows[n].version + 1 \in Nat /\ "certified" \in RowStatuses
      BY <2>1 DEF RowRecords, RowStatuses
    <3>2. row \in RowRecords
      BY <2>1, <2>3, <2>4, <3>1 DEF RowRecords
    <3> QED BY <2>1, <3>2 DEF RowRecords
  <2>6. rows' = [rows EXCEPT ![n] = row] /\ row.certificate # Nil
    BY <2>2, <2>4, <2>5, NilAssumption
  <2> HIDE DEF row
  <2> QED BY <2>1, <2>2, <2>3, <2>5, <2>6
<1> QED BY <1>2, <1>3, <1>4 DEF Commit

\* Certified rows stay, and the others do not go back in time.
RowsMove ==
  \A n \in Numbers :
    rows[n] # Nil =>
      /\ rows'[n] # Nil /\ rows[n].updatedAt <= rows'[n].updatedAt
      /\ rows[n].status = "certified" => rows'[n] = rows[n]

LEMMA CommitSound ==
  ASSUME RowsSound, NEW n \in Numbers, Commit(n)
  PROVE  /\ RowsSound' /\ RowsMove
         /\ \A m \in Numbers \ {n} : rows'[m] = rows[m]
<1>1. PICK row \in RowRecords :
        /\ rows' = [rows EXCEPT ![n] = row]
        /\ rows[n] # Nil => rows[n].status # "certified" /\ rows[n].updatedAt <= row.updatedAt
        /\ row.certificate # Nil <=> row.status = "certified"
        /\ row.certificate # Nil =>
             \E at \in 0..MaxTime :
               row.certificate = NewCertificate(n, at) /\ NumberFree(CertificateNumber(n, at))
  BY CommitRow
<1>2. /\ rows' \in [Numbers -> {Nil} \union RowRecords] /\ rows'[n] = row
      /\ \A m \in Numbers \ {n} : rows'[m] = rows[m]
      /\ row # Nil
  BY <1>1, NilAssumption DEF RowsSound
<1>3. clock' \in 0..MaxTime /\ commits' \in 0..MaxCommits
  <2>1. clock' = clock /\ commits < MaxCommits /\ commits' = commits + 1
    BY DEF Commit, Create, Change, Issue, Write
  <2> QED BY <2>1, RowAssumption DEF RowsSound
<1>4. ASSUME NEW m \in Numbers PROVE RowSound(m)'
  <2>1. CASE m = n
    BY <1>1, <1>2, <2>1 DEF RowSound
  <2>2. CASE m # n
    BY <1>2, <2>2 DEF RowSound, RowsSound
  <2> QED BY <2>1, <2>2
<1>5. NumbersUnique'
  <2>1. ASSUME NEW m \in Certified', m # n
        PROVE  /\ m \in Certified /\ rows'[m] = rows[m]
               /\ n \in Certified' => rows'[m].certificate.number # rows'[n].certificate.number
    <3>1. m \in Certified /\ rows'[m] = rows[m]
      BY <1>2, <2>1 DEF Certified
    <3>2. ASSUME n \in Certified' PROVE rows[m].certificate.number # row.certificate.number
      <4>1. row.certificate # Nil
        BY <1>1, <1>2, <3>2 DEF Certified
      <4>2. PICK at \in 0..MaxTime :
              row.certificate = NewCertificate(n, at) /\ NumberFree(CertificateNumber(n, at))
        BY <1>1, <4>1
      <4>3. row.certificate.number = CertificateNumber(n, at)
        BY <4>2 DEF NewCertificate
      <4> QED BY <3>1, <4>2, <4>3 DEF NumberFree
    <3> QED BY <1>2, <3>1, <3>2
  <2> QED BY <2>1 DEF NumbersUnique, RowsSound
<1>6. RowsMove
  <2>1. \A m \in Numbers : rows[m] # Nil => rows[m].updatedAt \in Nat
    BY DEF RowsSound, RowRecords
  <2> QED BY <1>1, <1>2, <2>1 DEF RowsMove
<1> QED BY <1>2, <1>3, <1>4, <1>5, <1>6 DEF RowsSound

LEMMA InitRowsSound ==
  ASSUME InitRows
  PROVE  RowsSound
<1>1. 0..clock \subseteq 0..MaxTime /\ clock \in 0..MaxTime
  BY RowAssumption DEF InitRows
<1>2. ASSUME NEW n \in Numbers, NEW row \in InitialRows(n)
      PROVE  /\ row \in {Nil} \union RowRecords
             /\ row # Nil => /\ row.certificate # Nil <=> row.status = "certified"
                             /\ row.status = "certified" => n \in Legacy
                             /\ row.certificate # Nil =>
                                  \E at \in 0..MaxTime : row.certificate = NewCertificate(n, at)
  <2>1. CASE n \in Legacy
    <3>1. PICK at \in 0..clock : row = CertifiedRow(n, at)
      BY <1>2, <2>1 DEF InitialRows
    <3>2. NewCertificate(n, at) \in Certificates
      BY <1>1 DEF Certificates
    <3>3. NoDefects \in DefectCounts
      BY RowAssumption DEF NoDefects, DefectCounts
    <3>4. /\ row \in RowRecords /\ row.certificate = NewCertificate(n, at)
          /\ row.status = "certified"
      BY <1>1, <3>1, <3>2, <3>3 DEF CertifiedRow, RowRecords, RowStatuses
    <3> QED BY <1>1, <2>1, <3>2, <3>4, NilAssumption
  <2>2. CASE n \notin Legacy /\ row # Nil
    <3>1. PICK at \in 0..clock, open \in OpenDefects : row = NewRow(at, open)
      BY <1>2, <2>2 DEF InitialRows
    <3> QED BY <1>1, <3>1, RowAssumption DEF NewRow, RowRecords, RowStatuses
  <2> QED BY <2>1, <2>2
<1>3. \A n \in Numbers : rows[n] \in InitialRows(n)
  BY DEF InitRows
<1>4. rows \in [Numbers -> {Nil} \union RowRecords]
  BY <1>2, <1>3 DEF InitRows
<1>5. \A n \in Numbers : RowSound(n)
  BY <1>2, <1>3 DEF RowSound
<1>6. NumbersUnique
  <2>1. Certified \subseteq Legacy
    BY <1>2, <1>3 DEF Certified
  <2> QED BY <2>1 DEF NumbersUnique, InitRows
<1> QED BY <1>1, <1>4, <1>5, <1>6, RowAssumption DEF RowsSound, InitRows

-----------------------------------------------------------------------------
(* Paging *)

\* The entry of a case is of its type, and says what case and what time it is of.
LEMMA EntryFacts ==
  ASSUME RowsSound, NEW n \in Numbers, rows[n] # Nil
  PROVE  /\ Entry(n) \in Entries /\ Entry(n).number = n
         /\ Entry(n).updatedAt = rows[n].updatedAt
<1>1. rows[n] \in RowRecords
  BY DEF RowsSound
<1>2. HighestRisk(Occurring(rows[n].open)) \in {Any} \union Severities
  BY HighestIsWorst DEF Occurring
<1> QED BY <1>1, <1>2 DEF Entry, Entries, RowRecords

\* Times and numbers of entries can be compared.
LEMMA EntryNumbers ==
  ASSUME NEW e \in Entries
  PROVE  e.updatedAt \in Nat /\ e.number \in Numbers /\ e.number \in Nat
<1>1. e.updatedAt \in 0..MaxTime /\ e.number \in Numbers
  BY DEF Entries
<1>2. Numbers \subseteq Nat /\ MaxTime \in Nat
  BY RowAssumption
<1>3. e.updatedAt \in Nat
  BY <1>1, <1>2
<1> QED BY <1>1, <1>2, <1>3

\* ORDER BY is an order.
LEMMA BeforeTransitive ==
  ASSUME NEW a \in Entries, NEW b \in Entries, NEW c \in Entries, Before(a, b), Before(b, c)
  PROVE  Before(a, c)
<1>1. /\ a.updatedAt \in Nat /\ b.updatedAt \in Nat /\ c.updatedAt \in Nat
      /\ a.number \in Nat /\ b.number \in Nat /\ c.number \in Nat
  BY EntryNumbers
<1> QED BY <1>1 DEF Before

\* What the cursor admits comes after everything that was shown.
LEMMA AfterIsNew ==
  ASSUME RowsSound, SessionSound, step = "page",
         NEW n \in Numbers, rows[n] # Nil, After(n), NEW e \in shown
  PROVE  /\ e.number # n
         /\ cursor # Nil /\ Before(cursor, Entry(n))
<1>1. /\ cursor \in Entries /\ cursor # Nil /\ e \in Entries
      /\ e = cursor \/ Before(e, cursor)
      /\ e.updatedAt <= rows[e.number].updatedAt
  BY DEF SessionSound, SessionTyped, CursorSound, Listed
<1>2. Entry(n) \in Entries /\ Entry(n).number = n /\ Entry(n).updatedAt = rows[n].updatedAt
  BY EntryFacts
<1>3. Before(cursor, Entry(n))
  BY <1>1, <1>2 DEF After, Before
<1>4. /\ cursor.updatedAt \in Nat /\ e.updatedAt \in Nat /\ rows[n].updatedAt \in Nat
      /\ cursor.number \in Nat /\ e.number \in Nat /\ n \in Nat
  <2>1. /\ Entry(n).updatedAt \in Nat /\ Entry(n).number \in Nat
    BY <1>2, EntryNumbers
  <2> QED BY <1>1, <1>2, <2>1, EntryNumbers
<1>5. cursor.updatedAt <= e.updatedAt /\ (cursor.updatedAt = e.updatedAt => e.number <= cursor.number)
  BY <1>1, <1>4 DEF Before
<1>6. rows[n].updatedAt < cursor.updatedAt
      \/ (rows[n].updatedAt = cursor.updatedAt /\ cursor.number < n)
  BY <1>1, <1>4 DEF After
<1>7. SUFFICES ASSUME e.number = n PROVE FALSE
  BY <1>1, <1>3
<1>8. e.updatedAt <= rows[n].updatedAt
  BY <1>1, <1>7
<1> QED BY <1>4, <1>5, <1>6, <1>7, <1>8

\* A wider claim about a count: what was sure may have become uncertain.
LEMMA CountKept ==
  ASSUME NEW count, NEW sure, NEW others, CountOf(count, sure, others),
         NEW sureNow, NEW othersNow,
         sureNow \subseteq sure, sure \union others \subseteq sureNow \union othersNow
  PROVE  CountOf(count, sureNow, othersNow)
BY DEF CountOf

\* Counts are sound as long as neither the cases nor what is known of them change.
LEMMA CountsKept ==
  ASSUME CountedCases' = CountedCases, UNCHANGED <<rows, touched>>, NEW counts
  PROVE  /\ StatusesSound(counts)' <=> StatusesSound(counts)
         /\ SeveritiesSound(counts)' <=> SeveritiesSound(counts)
<1>1. Known' = Known
  BY DEF Known
<1>2. \A s : KnownRows(s)' = KnownRows(s) /\ KnownDefects(s)' = KnownDefects(s)
  BY <1>1 DEF KnownRows, KnownDefects, DefectsOf
<1> QED BY <1>2 DEF StatusesSound, SeveritiesSound, CountOf

\* The two statements that count.
LEMMA CountsAreSound ==
  ASSUME RowsSound
  PROVE  StatusesSound(CountByStatus) /\ SeveritiesSound(CountBySeverity)
<1>1. StatusesSound(CountByStatus)
  <2> SUFFICES ASSUME NEW s \in RowStatuses
               PROVE  CountOf(CountByStatus[s], KnownRows(s), touched)
    BY DEF StatusesSound
  <2> DEFINE S == {n \in CountedCases : rows[n].status = s}
  <2>1. S \in SUBSET (KnownRows(s) \union touched) /\ KnownRows(s) \subseteq S
    BY DEF KnownRows, Known
  <2>2. CountByStatus[s] = Cardinality(S)
    BY DEF CountByStatus
  <2> QED BY <2>1, <2>2 DEF CountOf
<1>2. SeveritiesSound(CountBySeverity)
  <2> SUFFICES ASSUME NEW s \in Severities
               PROVE  CountOf(CountBySeverity[s], KnownDefects(s), touched \X (1..MaxOpen))
    BY DEF SeveritiesSound
  <2> DEFINE S == UNION {DefectsOf(n, s) : n \in CountedCases}
  <2>1. KnownDefects(s) \subseteq S
    BY DEF KnownDefects, Known
  <2>2. ASSUME NEW n \in CountedCases, n \in touched
        PROVE  DefectsOf(n, s) \subseteq touched \X (1..MaxOpen)
    BY <2>2, FewDefects DEF CountedCases, Matches, DefectsOf
  <2>3. S \in SUBSET (KnownDefects(s) \union touched \X (1..MaxOpen))
    BY <2>2 DEF KnownDefects, Known
  <2>4. CountBySeverity[s] = Cardinality(S)
    BY DEF CountBySeverity, DefectsOf
  <2> QED BY <2>1, <2>3, <2>4 DEF CountOf
<1> QED BY <1>1, <1>2

\* A request begins, the first or a later one: the rows that match are the same.
LEMMA BeginSound ==
  ASSUME RowsSound, SessionSound, FirstPage \/ NextPage, UNCHANGED store
  PROVE  SessionSound'
<1>1. PICK q \in Queries : ValidQuery(q) /\ query' = Normalized(q)
  BY DEF FirstPage, NextPage
<1>2. query' \in QueryRecords /\ query'.limit \in 1..MaxLimit
  <2>1. q \in QueryRecords
    BY QueryAssumption DEF QueryRecords
  <2>2. [q EXCEPT !.limit = IF @ = 0 THEN DefaultLimit ELSE @] \in QueryRecords
    <3>1. DefaultLimit \in Int
      BY LimitAssumption
    <3> QED BY <2>1, <3>1 DEF QueryRecords
  <2> QED BY <1>1, <2>2 DEF Normalized, ValidQuery
<1>3. step' = "page" /\ UNCHANGED <<cursor, page, more, byStatus, shown, counted, touched, rows>>
  BY DEF FirstPage, NextPage, store
<1>4. SessionTyped'
  BY <1>2, <1>3 DEF SessionSound, SessionTyped, SessionSteps, Listed, FirstPage, NextPage
<1>5. page = {}
  BY DEF SessionSound, SessionTyped, FirstPage, NextPage
<1>6. CASE FirstPage
  <2>1. shown = {} /\ counted = {} /\ cursor = Nil
    BY <1>6 DEF FirstPage, SessionSound, SessionTyped
  <2> QED BY <1>3, <1>4, <1>5, <2>1
      DEF SessionSound, CursorSound, CoverSound, CountsSound, FilterMeansSummary, NoneTwice,
          Listed, StillToCome, After
<1>7. CASE NextPage
  <2>1. step = "paused" /\ snapshot' = snapshot
    BY <1>7 DEF NextPage
  <2>2. /\ query'.statuses = query.statuses /\ query'.highest = query.highest
        /\ query'.from = query.from /\ query'.to = query.to
    <3>1. PICK x \in Queries : QueryHash(x) = QueryHash(query) /\ query' = Normalized(x)
      BY <1>7 DEF NextPage
    <3>2. x \in QueryRecords
      BY QueryAssumption DEF QueryRecords
    <3> QED BY <3>1, <3>2 DEF QueryHash, Normalized, QueryRecords
  <2>3. \A row : Matches(row)' <=> Matches(row)
    BY <2>1, <2>2 DEF Matches
  <2>4. \A n \in Numbers : Entry(n)' = Entry(n) /\ (After(n)' <=> After(n))
    BY <1>3 DEF Entry, After
  <2>5. CountedCases' = CountedCases
    BY <1>3, <2>3 DEF CountedCases
  <2>6. CursorSound'
    BY <1>3, <2>1 DEF SessionSound, CursorSound, Listed, NoneTwice, Before
  <2>7. CoverSound'
    BY <1>3, <1>5, <2>1, <2>3, <2>4 DEF SessionSound, SessionTyped, CoverSound, StillToCome, Listed, Entries
  <2>8. CountsSound'
    BY <1>3, <2>1, <2>5, CountsKept DEF SessionSound, CountsSound
  <2>9. FilterMeansSummary'
    BY <1>3, <2>1, <2>2 DEF SessionSound, FilterMeansSummary
  <2> QED BY <1>4, <2>6, <2>7, <2>8, <2>9 DEF SessionSound
<1> QED BY <1>6, <1>7

\* The page: what is on it comes after what was shown, and what is left out is
\* still to come.
LEMMA ReadPageSound ==
  ASSUME RowsSound, SessionSound, ReadPage, UNCHANGED store
  PROVE  SessionSound'
<1> DEFINE candidates == {Entry(n) : n \in {m \in Numbers : Matches(rows[m]) /\ After(m)}}
<1>1. /\ step = "page" /\ step' = "statuses" /\ page' \subseteq candidates
      /\ IsFirst(page', candidates, query.limit) /\ more' = (page' # candidates)
      /\ UNCHANGED <<query, snapshot, cursor, byStatus, shown, counted, touched, rows>>
  BY DEF ReadPage, IsFirst, store
<1>2. page = {} /\ Listed = shown /\ Listed' = page' \union shown
  BY <1>1 DEF SessionSound, SessionTyped, Listed
<1>3. \A e \in candidates : \E n \in Numbers :
        /\ e = Entry(n) /\ Matches(rows[n]) /\ After(n) /\ rows[n] # Nil
        /\ e \in Entries /\ e.number = n /\ e.updatedAt = rows[n].updatedAt
  BY EntryFacts DEF Matches
<1>4. ASSUME NEW n \in Numbers, Matches(rows[n]), After(n)
      PROVE  Entry(n) \in candidates
  BY <1>4
<1> HIDE DEF candidates
<1>5. page' \subseteq Entries
  BY <1>1, <1>3
<1>6. SessionTyped'
  BY <1>1, <1>2, <1>5 DEF SessionSound, SessionTyped, SessionSteps
<1>7. /\ \A e \in page' : cursor = Nil \/ Before(cursor, e)
      /\ \A e \in page', b \in shown : e.number # b.number
      /\ \A e \in page' : rows[e.number] # Nil /\ e.updatedAt <= rows[e.number].updatedAt
  <2>1. SUFFICES ASSUME NEW e \in page'
                 PROVE  /\ cursor = Nil \/ Before(cursor, e)
                        /\ \A b \in shown : e.number # b.number
                        /\ rows[e.number] # Nil /\ e.updatedAt <= rows[e.number].updatedAt
    OBVIOUS
  <2>2. PICK n \in Numbers :
          /\ e = Entry(n) /\ After(n) /\ rows[n] # Nil
          /\ e \in Entries /\ e.number = n /\ e.updatedAt = rows[n].updatedAt
    BY <1>1, <1>3
  <2>3. \A b \in shown : b.number # n
    BY <1>1, <2>2, AfterIsNew
  <2>4. cursor = Nil \/ Before(cursor, e)
    <3>1. cursor # Nil => cursor \in shown
      BY DEF SessionSound, SessionTyped
    <3> QED BY <1>1, <2>2, <3>1, AfterIsNew
  <2>5. e.updatedAt <= rows[e.number].updatedAt
    BY <2>2 DEF Entries
  <2> QED BY <2>2, <2>3, <2>4, <2>5
<1>8. CursorSound'
  <2>1. \A e \in shown : cursor # Nil /\ (e = cursor \/ Before(e, cursor))
    BY <1>1 DEF SessionSound, CursorSound
  <2>2. \A e \in shown : rows[e.number] # Nil /\ e.updatedAt <= rows[e.number].updatedAt
    BY <1>2 DEF SessionSound, CursorSound
  <2> QED BY <1>1, <1>2, <1>7, <2>1, <2>2 DEF CursorSound, NoneTwice, Before
<1>9. \A row : Matches(row)' <=> Matches(row)
  BY <1>1 DEF Matches
<1>10. \A n \in Numbers : Entry(n)' = Entry(n)
  BY <1>1 DEF Entry
<1>11. CoverSound'
  <2>1. ASSUME NEW e \in Listed', e.number \notin touched
        PROVE  e = Entry(e.number)' /\ Matches(rows[e.number])'
    <3>1. CASE e \in shown
      <4>1. e = Entry(e.number) /\ Matches(rows[e.number])
        BY <1>2, <2>1, <3>1 DEF SessionSound, CoverSound
      <4>2. e.number \in Numbers
        BY <1>2, <3>1 DEF SessionSound, SessionTyped, Entries
      <4>3. Matches(rows[e.number])' <=> Matches(rows[e.number])
        BY <1>1, <1>9
      <4> QED BY <1>10, <4>1, <4>2, <4>3
    <3>2. CASE e \in page'
      <4>1. PICK n \in Numbers : e = Entry(n) /\ Matches(rows[n]) /\ e.number = n
        BY <1>1, <1>3, <3>2
      <4>2. Matches(rows[n])' <=> Matches(rows[n])
        BY <1>1, <1>9
      <4> QED BY <1>10, <4>1, <4>2
    <3> QED BY <1>2, <2>1, <3>1, <3>2
  <2>2. ASSUME NEW n \in Numbers \ touched, Matches(rows[n])
        PROVE  StillToCome(n)' \/ \E e \in Listed' : e.number = n
    <3>1. CASE \E e \in shown : e.number = n
      BY <1>2, <3>1
    <3>2. CASE ~\E e \in shown : e.number = n
      <4>1. After(n)
        BY <1>1, <1>2, <2>2, <3>2 DEF SessionSound, CoverSound, StillToCome
      <4>2. Entry(n) \in candidates /\ Entry(n).number = n
        BY <1>4, <2>2, <4>1, EntryFacts DEF Matches
      <4>3. CASE Entry(n) \in page'
        BY <1>2, <4>2, <4>3
      <4>4. CASE Entry(n) \notin page'
        <5>1. more' /\ \A e \in page' : Before(e, Entry(n))
          BY <1>1, <4>2, <4>4 DEF IsFirst
        <5>2. \A e \in page' : Before(e, Entry(n)')
          BY <1>10, <5>1
        <5> QED BY <1>1, <5>1, <5>2 DEF StillToCome, Before
      <4> QED BY <4>3, <4>4
    <3> QED BY <3>1, <3>2
  <2>3. \A n \in Numbers : Matches(rows[n])' <=> Matches(rows[n])
    BY <1>1, <1>9
  <2> QED BY <1>1, <2>1, <2>2, <2>3 DEF CoverSound
<1>12. CountsSound'
  <2>1. CountedCases' = CountedCases
    BY <1>1, <1>9 DEF CountedCases
  <2> QED BY <1>1, <2>1, CountsKept DEF SessionSound, CountsSound
<1>13. FilterMeansSummary'
  <2>1. ASSUME query.highest # Any, NEW e \in page' PROVE e.highest = query.highest
    <3>1. PICK n \in Numbers : e = Entry(n) /\ Matches(rows[n]) /\ rows[n] # Nil
      BY <1>1, <1>3, <2>1
    <3>2. /\ query.highest \in Occurring(rows[n].open)
          /\ Occurring(rows[n].open) \intersect Higher(query.highest) = {}
          /\ Occurring(rows[n].open) \in SUBSET Severities
      BY <2>1, <3>1 DEF Matches, Occurring
    <3>3. HighestRisk(Occurring(rows[n].open)) = query.highest
      BY <3>2, HighestIsWorst
    <3> QED BY <3>1, <3>3 DEF Entry
  <2>2. query.highest # Any => \A e \in shown : e.highest = query.highest
    BY <1>1 DEF SessionSound, FilterMeansSummary
  <2> QED BY <1>1, <2>1, <2>2 DEF FilterMeansSummary
<1> QED BY <1>6, <1>8, <1>11, <1>12, <1>13 DEF SessionSound

\* The counts by status, and then those by severity with which the answer is sent.
LEMMA ReadCountsSound ==
  ASSUME RowsSound, SessionSound, ReadStatusCounts, UNCHANGED store
  PROVE  SessionSound'
<1>1. /\ step = "statuses" /\ step' = "severities" /\ byStatus' = CountByStatus
      /\ UNCHANGED <<query, snapshot, cursor, page, more, shown, counted, touched, rows>>
  BY DEF ReadStatusCounts, store
<1>2. /\ \A row : Matches(row)' <=> Matches(row)
      /\ \A n \in Numbers : Entry(n)' = Entry(n)
  BY <1>1 DEF Matches, Entry
<1>3. CountedCases' = CountedCases
  BY <1>1, <1>2 DEF CountedCases
<1>4. StatusesSound(byStatus')
  BY <1>1, CountsAreSound
<1>5. SessionTyped' /\ CursorSound' /\ FilterMeansSummary'
  BY <1>1 DEF SessionSound, SessionTyped, SessionSteps, Listed, CursorSound, NoneTwice, Before,
              FilterMeansSummary
<1>6. CoverSound'
  BY <1>1, <1>2 DEF SessionSound, SessionTyped, CoverSound, StillToCome, Listed, Before, Entries
<1>7. CountsSound'
  BY <1>1, <1>3, <1>4, CountsKept DEF SessionSound, CountsSound
<1> QED BY <1>5, <1>6, <1>7 DEF SessionSound

LEMMA AnswerPageSound ==
  ASSUME RowsSound, SessionSound, ReadSeverityCounts, UNCHANGED store
  PROVE  SessionSound'
<1>1. /\ step = "severities" /\ shown' = shown \union page /\ page' = {}
      /\ counted' = counted \union {[byStatus |-> byStatus, bySeverity |-> CountBySeverity]}
      /\ UNCHANGED <<query, snapshot, more, touched, rows>>
  BY DEF ReadSeverityCounts, store
<1>2. Listed' = Listed
  BY <1>1 DEF Listed
<1>3. /\ more => /\ step' = "paused" /\ cursor' \in page
                 /\ \A a \in page \ {cursor'} : Before(a, cursor')
      /\ ~more => step' = "done" /\ cursor' = cursor
  BY DEF ReadSeverityCounts
<1>4. /\ \A row : Matches(row)' <=> Matches(row)
      /\ \A n \in Numbers : Entry(n)' = Entry(n)
  BY <1>1 DEF Matches, Entry
<1>5. SessionTyped'
  BY <1>1, <1>2, <1>3 DEF SessionSound, SessionTyped, SessionSteps, Listed
<1>6. CursorSound'
  <2>1. ASSUME step' # "done", NEW e \in shown'
        PROVE  cursor' # Nil /\ (e = cursor' \/ Before(e, cursor'))
    <3>1. more /\ cursor' \in page /\ cursor' \in Entries /\ cursor' # Nil
      BY <1>3, <2>1, CursorAssumption DEF SessionSound, SessionTyped, Listed
    <3>2. CASE e \in page
      BY <1>3, <3>1, <3>2
    <3>3. CASE e \in shown
      <4>1. cursor # Nil /\ (e = cursor \/ Before(e, cursor))
        BY <1>1, <3>3 DEF SessionSound, CursorSound
      <4>2. Before(cursor, cursor')
        BY <3>1, <4>1 DEF SessionSound, CursorSound
      <4>3. cursor \in Entries /\ e \in Entries
        BY <3>3, <4>1 DEF SessionSound, SessionTyped, Listed
      <4> QED BY <3>1, <4>1, <4>2, <4>3, BeforeTransitive
    <3> QED BY <1>1, <2>1, <3>2, <3>3
  <2>2. \A e \in Listed : rows[e.number] # Nil /\ e.updatedAt <= rows[e.number].updatedAt
    BY DEF SessionSound, CursorSound
  <2> QED BY <1>1, <1>2, <2>1, <2>2 DEF CursorSound, NoneTwice, Before
<1>7. CoverSound'
  <2>1. ASSUME NEW n \in Numbers \ touched, Matches(rows[n]), ~\E e \in Listed : e.number = n
        PROVE  StillToCome(n)'
    <3>1. more /\ \A e \in page : Before(e, Entry(n))
      BY <1>1, <2>1 DEF SessionSound, CoverSound, StillToCome
    <3>2. /\ Before(cursor', Entry(n)) /\ Entry(n).number = n
          /\ Entry(n).updatedAt = rows[n].updatedAt /\ Entry(n) \in Entries
      BY <1>3, <2>1, <3>1, EntryFacts DEF Matches
    <3>3. cursor' \in Entries
      BY <1>3, <3>1 DEF SessionSound, SessionTyped, Listed
    <3>4. \/ rows[n].updatedAt < cursor'.updatedAt
          \/ rows[n].updatedAt = cursor'.updatedAt /\ n > cursor'.number
      BY <3>2, <3>3, EntryNumbers DEF Before
    <3>5. After(n)'
      BY <1>1, <3>4 DEF After
    <3> QED BY <1>3, <3>1, <3>5 DEF StillToCome
  <2>2. \A e \in Listed :
          e.number \notin touched => e = Entry(e.number) /\ Matches(rows[e.number])
    BY DEF SessionSound, CoverSound
  <2>3. \A e \in Listed : e.number \in Numbers
    BY DEF SessionSound, SessionTyped, Entries
  <2> QED BY <1>1, <1>2, <1>4, <2>1, <2>2, <2>3 DEF CoverSound
<1>8. CountsSound'
  <2>1. CountedCases' = CountedCases
    BY <1>1, <1>4 DEF CountedCases
  <2>2. StatusesSound(byStatus) /\ SeveritiesSound(CountBySeverity)
    BY <1>1, CountsAreSound DEF SessionSound, CountsSound
  <2>3. \A c \in counted' : StatusesSound(c.byStatus) /\ SeveritiesSound(c.bySeverity)
    BY <1>1, <2>2 DEF SessionSound, CountsSound
  <2>4. step' # "severities"
    BY <1>3
  <2> QED BY <1>1, <2>1, <2>3, <2>4, CountsKept DEF CountsSound
<1>9. FilterMeansSummary'
  BY <1>1 DEF SessionSound, FilterMeansSummary
<1> QED BY <1>5, <1>6, <1>7, <1>8, <1>9 DEF SessionSound

\* A commit beside a session: it moves its own case forward of all that was
\* listed, and of the others the session still knows what it knew.
LEMMA CommitBesideSound ==
  ASSUME RowsSound, SessionSound, NEW m \in Numbers, CommitBeside(m)
  PROVE  RowsSound' /\ SessionSound'
<1>1. /\ RowsSound' /\ RowsMove /\ \A n \in Numbers \ {m} : rows'[n] = rows[n]
  BY CommitSound DEF CommitBeside
<1>2. /\ touched' = IF step = "idle" THEN touched ELSE touched \union {m}
      /\ UNCHANGED <<step, query, snapshot, cursor, page, more, byStatus, shown, counted>>
  BY DEF CommitBeside
<1>3. SessionTyped'
  BY <1>2 DEF SessionSound, SessionTyped, Listed
<1>4. CursorSound'
  <2>1. ASSUME NEW e \in Listed
        PROVE  rows'[e.number] # Nil /\ e.updatedAt <= rows'[e.number].updatedAt
    <3>1. e \in Entries /\ rows[e.number] # Nil /\ e.updatedAt <= rows[e.number].updatedAt
      BY DEF SessionSound, SessionTyped, CursorSound
    <3>2. e.number \in Numbers /\ e.updatedAt \in Nat
      BY <3>1, EntryNumbers
    <3>3. rows'[e.number] # Nil /\ rows[e.number].updatedAt <= rows'[e.number].updatedAt
      BY <1>1, <3>1, <3>2 DEF RowsMove
    <3>4. rows[e.number] \in RowRecords /\ rows'[e.number] \in RowRecords
      BY <1>1, <3>1, <3>2, <3>3 DEF RowsSound
    <3>5. rows[e.number].updatedAt \in Int /\ rows'[e.number].updatedAt \in Int
      BY <3>4 DEF RowRecords
    <3> QED BY <3>1, <3>2, <3>3, <3>5
  <2> QED BY <1>2, <2>1 DEF SessionSound, CursorSound, Listed, NoneTwice, Before
<1>5. CASE step = "idle"
  <2>1. shown = {} /\ page = {} /\ counted = {}
    BY <1>5 DEF SessionSound, SessionTyped
  <2> QED BY <1>1, <1>2, <1>3, <1>4, <1>5, <2>1
      DEF SessionSound, CoverSound, CountsSound, FilterMeansSummary, Listed
<1>6. CASE step # "idle"
  <2>1. touched' = touched \union {m}
    BY <1>2, <1>6
  <2>2. \A row : Matches(row)' <=> Matches(row)
    BY <1>2 DEF Matches
  <2>3. ASSUME NEW n \in Numbers \ touched'
        PROVE  /\ rows'[n] = rows[n] /\ Entry(n)' = Entry(n)
               /\ StillToCome(n) => StillToCome(n)'
    <3>1. rows'[n] = rows[n]
      BY <1>1, <2>1
    <3> QED BY <1>2, <3>1 DEF Entry, StillToCome, After, Before
  <2>4. CoverSound'
    <3>1. \A n \in Numbers \ touched' : Matches(rows[n])' <=> Matches(rows[n])
      BY <2>2, <2>3
    <3>2. \A e \in Listed : e.number \in Numbers
      BY DEF SessionSound, SessionTyped, Entries
    <3> QED BY <1>2, <2>1, <2>3, <3>1, <3>2 DEF SessionSound, CoverSound, Listed
  <2>5. Known' = Known \ {m} /\ \A n \in Known' : n \in Numbers /\ rows'[n] = rows[n]
    BY <2>1, <2>2, <2>3 DEF Known, CountedCases
  <2>6. ASSUME NEW counts, StatusesSound(counts) PROVE StatusesSound(counts)'
    <3> SUFFICES ASSUME NEW s \in RowStatuses
                 PROVE  CountOf(counts[s], KnownRows(s)', touched')
      BY DEF StatusesSound, CountOf
    <3>1. /\ CountOf(counts[s], KnownRows(s), touched)
          /\ KnownRows(s)' \subseteq KnownRows(s)
          /\ KnownRows(s) \union touched \subseteq KnownRows(s)' \union touched'
      BY <2>1, <2>5, <2>6 DEF StatusesSound, KnownRows
    <3> QED BY <3>1, CountKept
  <2>7. ASSUME NEW counts, SeveritiesSound(counts) PROVE SeveritiesSound(counts)'
    <3> SUFFICES ASSUME NEW s \in Severities
                 PROVE  CountOf(counts[s], KnownDefects(s)', touched' \X (1..MaxOpen))
      BY DEF SeveritiesSound, CountOf
    <3>1. \A n \in Known' : DefectsOf(n, s)' = DefectsOf(n, s)
      BY <2>5 DEF DefectsOf
    <3>2. m \in Known => DefectsOf(m, s) \subseteq touched' \X (1..MaxOpen)
      BY <2>1, FewDefects DEF Known, CountedCases, Matches, DefectsOf
    <3>3. KnownDefects(s)' \subseteq KnownDefects(s)
      BY <2>5, <3>1 DEF KnownDefects
    <3>4. touched \X (1..MaxOpen) \subseteq touched' \X (1..MaxOpen)
      BY <2>1
    <3>5. KnownDefects(s) \union touched \X (1..MaxOpen)
            \subseteq KnownDefects(s)' \union touched' \X (1..MaxOpen)
      BY <2>5, <3>1, <3>2, <3>4 DEF KnownDefects
    <3>6. CountOf(counts[s], KnownDefects(s), touched \X (1..MaxOpen))
      BY <2>7 DEF SeveritiesSound
    <3> QED BY <3>3, <3>5, <3>6, CountKept
  <2>8. CountsSound' /\ FilterMeansSummary'
    BY <1>2, <2>6, <2>7 DEF SessionSound, CountsSound, FilterMeansSummary
  <2> QED BY <1>1, <1>3, <1>4, <2>4, <2>8 DEF SessionSound
<1> QED BY <1>5, <1>6

-----------------------------------------------------------------------------
(* Verifying a certificate *)

\* What was fetched, looked up and loaded concerns certified cases only, and
\* those do not change.
LEMMA RowsMoveCheck ==
  ASSUME RowsSound, CheckSound, RowsMove, UNCHANGED check
  PROVE  CheckSound'
<1>1. \A n \in Certified : n \in Certified' /\ rows'[n] = rows[n]
  BY DEF Certified, RowsMove
<1>2. \A n \in Certified : Certificate(n)' = Certificate(n)
  BY <1>1 DEF Certificate
<1>3. \A path, carried, row : ReasonsAgainst(path, carried, row)' = ReasonsAgainst(path, carried, row)
  BY DEF ReasonsAgainst, CaseMatched, ContentValid, ContentDigestValid, CaseBinding, check
<1>4. held' # Nil => \E n \in Certified' : held' = Certificate(n)'
  BY <1>1, <1>2 DEF CheckSound, check
<1>5. /\ request' # Nil => held' # Nil /\ IsCarried(request'.carried)
      /\ found' # Nil =>
           /\ request' # Nil /\ found' \in Certified'
           /\ rows'[found'].certificate.number = request'.carried.number
      /\ view' # Nil => found' # Nil /\ view' = rows'[found']
  BY <1>1 DEF CheckSound, check
<1> QED BY <1>3, <1>4, <1>5 DEF CheckSound, check

LEMMA CarriedShape ==
  ASSUME NEW n \in Certified, NEW c \in {Certificate(n)} \union Altered(Certificate(n))
  PROVE  IsCarried(c)
<1> DEFINE same(d) == d = [number |-> d.number, id |-> d.id, caseNumber |-> d.caseNumber,
                           report |-> d.report, issuedAt |-> d.issuedAt, digest |-> d.digest]
<1>1. same(Certificate(n))
  BY DEF Certificate
<1>2. ASSUME NEW d, same(d), NEW v
      PROVE  /\ same([d EXCEPT !.caseNumber = v]) /\ same([d EXCEPT !.id = v])
             /\ same([d EXCEPT !.report = v]) /\ same([d EXCEPT !.number = v])
             /\ same([d EXCEPT !.issuedAt = v]) /\ same([d EXCEPT !.digest = v])
  BY <1>2
<1> DEFINE g == Certificate(n)
           changed == {[g EXCEPT !.caseNumber = x] : x \in Numbers}
             \union {[g EXCEPT !.id = x] : x \in Numbers}
             \union {[g EXCEPT !.report = x] : x \in Numbers}
             \union {[g EXCEPT !.number = rows[x].certificate.number] : x \in Certified}
             \union {[g EXCEPT !.number = Nil]}
             \union {[g EXCEPT !.issuedAt = at] : at \in 0..MaxTime}
<1>3. c = g \/ c \in changed \/ \E d \in changed : \E v : c = [d EXCEPT !.digest = v]
  BY DEF Altered
<1> HIDE DEF same, g
<1>4. \A d \in changed : same(d)
  <2>1. /\ \A v : same([g EXCEPT !.caseNumber = v]) /\ same([g EXCEPT !.id = v])
        /\ \A v : same([g EXCEPT !.report = v]) /\ same([g EXCEPT !.number = v])
        /\ \A v : same([g EXCEPT !.issuedAt = v])
    BY <1>1, <1>2 DEF g
  <2> TAKE d \in changed
  <2>2. CASE \E v : d = [g EXCEPT !.caseNumber = v] \/ d = [g EXCEPT !.id = v]
    BY <2>1, <2>2
  <2>3. CASE \E v : d = [g EXCEPT !.report = v] \/ d = [g EXCEPT !.number = v]
    BY <2>1, <2>3
  <2>4. CASE \E v : d = [g EXCEPT !.issuedAt = v]
    BY <2>1, <2>4
  <2> QED BY <2>2, <2>3, <2>4
<1> HIDE DEF changed
<1>5. same(c)
  BY <1>1, <1>2, <1>3, <1>4 DEF g
<1> QED BY <1>5 DEF same, IsCarried

LEMMA CheckStepSound ==
  ASSUME RowsSound, CheckSound, CheckStep, UNCHANGED store
  PROVE  CheckSound'
<1>1. UNCHANGED rows /\ Certified' = Certified
  BY DEF store, Certified
<1>2. \A n \in Numbers : Certificate(n)' = Certificate(n)
  BY <1>1 DEF Certificate
<1>3. ASSUME NEW n \in Numbers, FetchCertificate(n) PROVE CheckSound'
  <2>1. /\ held = Nil /\ n \in Certified /\ held' = Certificate(n)
        /\ UNCHANGED <<request, found, view, answer>>
    BY <1>3 DEF FetchCertificate, Certified, RowsSound, RowSound
  <2>2. request = Nil /\ found = Nil /\ view = Nil /\ answer = Nil
    BY <2>1 DEF CheckSound
  <2>3. \E x \in Certified' : held' = Certificate(x)'
    BY <1>1, <1>2, <2>1
  <2> QED BY <2>1, <2>2, <2>3 DEF CheckSound
<1>4. ASSUME NEW path \in Numbers, Present(path) PROVE CheckSound'
  <2>1. PICK carried \in {held} \union Altered(held) :
          request' = [path |-> path, carried |-> carried]
    BY <1>4 DEF Present
  <2>2. /\ held # Nil /\ request = Nil /\ UNCHANGED <<held, found, view, answer>>
        /\ request'.carried = carried
    BY <1>4, <2>1 DEF Present
  <2>3. found = Nil /\ view = Nil /\ answer = Nil
    BY <2>2 DEF CheckSound
  <2>4. PICK n \in Certified : held = Certificate(n)
    BY <2>2 DEF CheckSound
  <2>5. IsCarried(carried)
    BY <2>1, <2>4, CarriedShape
  <2>6. \E x \in Certified' : held' = Certificate(x)'
    <3>1. n \in Numbers
      BY <2>4 DEF Certified
    <3> QED BY <1>1, <1>2, <2>2, <2>4, <3>1
  <2> QED BY <2>2, <2>3, <2>5, <2>6 DEF CheckSound, IsCarried
<1>5. (held # Nil => \E n \in Certified : held = Certificate(n)) /\ UNCHANGED held
        => (held' # Nil => \E n \in Certified' : held' = Certificate(n)')
  <2>1. \A n \in Certified : n \in Numbers
    BY DEF Certified
  <2> QED BY <1>1, <1>2, <2>1
<1>6. CASE FindCertificate
  <2>1. /\ request # Nil /\ found = Nil /\ answer = Nil /\ UNCHANGED <<held, request, view>>
        /\ \/ /\ \A n \in Certified : rows[n].certificate.number # request.carried.number
              /\ answer' = {"certificate_not_found"} /\ found' = found
           \/ /\ found' \in Certified /\ answer' = answer
              /\ rows[found'].certificate.number = request.carried.number
    BY <1>6 DEF FindCertificate
  <2>2. PICK n \in Certified : held = Certificate(n)
    BY <2>1 DEF CheckSound
  <2>3. held.number = rows[n].certificate.number
    BY <2>2 DEF Certificate
  <2>4. view = Nil /\ held # Nil /\ IsCarried(request.carried)
    BY <2>1 DEF CheckSound
  <2> QED BY <1>1, <1>5, <2>1, <2>2, <2>3, <2>4 DEF CheckSound, IsCarried
<1>7. CASE LoadFound
  <2>1. /\ found # Nil /\ view = Nil /\ view' = rows[found]
        /\ UNCHANGED <<held, request, found, answer>>
    BY <1>7 DEF LoadFound
  <2>2. answer = Nil
    BY <2>1 DEF CheckSound
  <2> QED BY <1>1, <1>5, <2>1, <2>2 DEF CheckSound, IsCarried
<1>8. CASE ValidateViewAndAnswer
  <2>1. /\ view # Nil /\ UNCHANGED <<held, request, found, view>>
        /\ answer' = IF rows[found] = view THEN ReasonsAgainst(request.path, request.carried, view)
                     ELSE {"integrity_error"}
    BY <1>8 DEF ValidateViewAndAnswer
  <2>2. found # Nil /\ view = rows[found]
    BY <2>1 DEF CheckSound
  <2>3. answer' = ReasonsAgainst(request.path, request.carried, view)
    BY <2>1, <2>2
  <2>4. ReasonsAgainst(request.path, request.carried, view)'
          = ReasonsAgainst(request.path, request.carried, view)
    BY <2>1 DEF ReasonsAgainst, CaseMatched, ContentValid, ContentDigestValid, CaseBinding
  <2> HIDE DEF ReasonsAgainst
  <2> QED BY <1>1, <1>5, <2>1, <2>2, <2>3, <2>4 DEF CheckSound, IsCarried
<1> QED BY <1>3, <1>4, <1>6, <1>7, <1>8 DEF CheckStep

-----------------------------------------------------------------------------
(* The theorems *)

\* Readers do not disturb one another.
LEMMA SessionKept ==
  ASSUME SessionSound, UNCHANGED <<rows, session>>
  PROVE  SessionSound'
<1>1. /\ \A row : Matches(row)' <=> Matches(row)
      /\ \A n \in Numbers : Entry(n)' = Entry(n) /\ (After(n)' <=> After(n))
  BY DEF Matches, Entry, After, session
<1>2. CountedCases' = CountedCases
  BY <1>1 DEF CountedCases
<1>4. SessionTyped' /\ CursorSound' /\ FilterMeansSummary'
  BY DEF SessionSound, SessionTyped, Listed, CursorSound, NoneTwice, Before, FilterMeansSummary, session
<1>5. CoverSound'
  BY <1>1 DEF SessionSound, SessionTyped, CoverSound, StillToCome, Listed, Before, Entries, session
<1>6. CountsSound'
  BY <1>2, CountsKept DEF SessionSound, CountsSound, session
<1> QED BY <1>4, <1>5, <1>6 DEF SessionSound

ReadersSound == RowsSound /\ SessionSound /\ CheckSound

LEMMA StepSound ==
  ASSUME ReadersSound, Next
  PROVE  ReadersSound'
<1>1. /\ UNCHANGED rows => RowsMove
      /\ UNCHANGED store => RowsSound'
  <2>1. \A n \in Numbers : rows[n] # Nil => rows[n].updatedAt \in Int
    BY DEF ReadersSound, RowsSound, RowRecords
  <2>2. UNCHANGED rows => RowsMove
    BY <2>1 DEF RowsMove
  <2>3. UNCHANGED store => RowsSound'
    BY DEF ReadersSound, RowsSound, RowSound, NumbersUnique, Certified, store
  <2> QED BY <2>2, <2>3
<1>2. CASE QueueStep /\ UNCHANGED <<store, check>>
  <2>1. UNCHANGED rows
    BY <1>2 DEF store
  <2> QED BY <1>1, <1>2, <2>1, BeginSound, ReadPageSound, ReadCountsSound, AnswerPageSound,
             RowsMoveCheck DEF QueueStep, ReadersSound
<1>3. CASE CheckStep /\ UNCHANGED <<store, session>>
  <2>1. UNCHANGED rows
    BY <1>3 DEF store
  <2> QED BY <1>1, <1>3, <2>1, SessionKept, CheckStepSound DEF ReadersSound
<1>4. CASE Tick /\ UNCHANGED <<session, check>>
  <2>1. UNCHANGED rows /\ clock' \in 0..MaxTime /\ commits' = commits
    BY <1>4, RowAssumption DEF Tick, ReadersSound, RowsSound
  <2>2. RowsSound'
    BY <2>1 DEF ReadersSound, RowsSound, RowSound, NumbersUnique, Certified
  <2> QED BY <1>1, <1>4, <2>1, <2>2, SessionKept, RowsMoveCheck DEF ReadersSound
<1>5. ASSUME NEW n \in Numbers, CommitBeside(n), UNCHANGED check PROVE ReadersSound'
  <2>1. RowsMove
    BY <1>5, CommitSound DEF CommitBeside, ReadersSound
  <2> QED BY <1>5, <2>1, CommitBesideSound, RowsMoveCheck DEF ReadersSound
<1> QED BY <1>2, <1>3, <1>4, <1>5 DEF Next

\* What readers have read of the store, and what the cursor promises, still
\* holds at their next statement, whatever was committed in between.
THEOREM ReadersKept == Spec => []ReadersSound
<1>1. Init => ReadersSound
  <2> SUFFICES ASSUME Init PROVE ReadersSound
    OBVIOUS
  <2>1. RowsSound
    BY InitRowsSound DEF Init
  <2>2. SessionSound
    BY DEF Init, InitSession, SessionSound, SessionTyped, SessionSteps, Listed, CursorSound,
           CoverSound, CountsSound, NoneTwice, FilterMeansSummary
  <2>3. CheckSound
    BY DEF Init, InitCheck, CheckSound
  <2> QED BY <2>1, <2>2, <2>3 DEF ReadersSound
<1>2. ReadersSound /\ UNCHANGED vars => ReadersSound'
  <2> SUFFICES ASSUME ReadersSound, UNCHANGED vars PROVE ReadersSound'
    OBVIOUS
  <2>1. UNCHANGED <<rows, clock, commits, session, check>>
    BY DEF vars, store
  <2>2. RowsSound'
    BY <2>1 DEF ReadersSound, RowsSound, RowSound, NumbersUnique, Certified
  <2>3. RowsMove
    <3>1. \A n \in Numbers : rows[n] # Nil => rows[n].updatedAt \in Int
      BY DEF ReadersSound, RowsSound, RowRecords
    <3> QED BY <2>1, <3>1 DEF RowsMove
  <2> QED BY <2>1, <2>2, <2>3, SessionKept, RowsMoveCheck DEF ReadersSound
<1> QED BY <1>1, <1>2, StepSound, PTL DEF Spec

\* No case comes twice, however many are changed between two pages.
THEOREM NeverTwice == Spec => []NoneTwice
<1>1. ReadersSound => NoneTwice
  BY DEF ReadersSound, SessionSound, CursorSound
<1> QED BY <1>1, ReadersKept, PTL

\* When the pages end, they hold all matching cases that nobody has changed, and
\* of those that nobody has changed only matching ones.
THEOREM NeverSkipped == Spec => []NoneSkipped
<1>1. ReadersSound => NoneSkipped
  <2> SUFFICES ASSUME ReadersSound, step = "done", NEW n \in Numbers \ touched
               PROVE  Matches(rows[n]) <=> \E e \in shown : e.number = n
    BY DEF NoneSkipped
  <2>1. Listed = shown
    BY DEF ReadersSound, SessionSound, SessionTyped, Listed
  <2> QED BY <2>1 DEF ReadersSound, SessionSound, CoverSound, StillToCome
<1> QED BY <1>1, ReadersKept, PTL

\* The filter by highest severity means what the summary says.
THEOREM FilterAlwaysMeansSummary == Spec => []FilterMeansSummary
<1>1. ReadersSound => FilterMeansSummary
  BY DEF ReadersSound, SessionSound
<1> QED BY <1>1, ReadersKept, PTL

\* When the pages end, what they show of the cases that nobody changed is what
\* the cases themselves still say, once for each that matches.
LEMMA CertainIsKnown ==
  ASSUME ReadersSound, step = "done"
  PROVE  /\ \A e \in Certain : e.number \in Known /\ e = Entry(e.number)
         /\ \A n \in Known : Entry(n) \in Certain /\ Entry(n).number = n
<1>1. /\ Listed = shown /\ step # "idle" /\ shown \subseteq Entries
      /\ \A e \in shown :
           e.number \notin touched => e = Entry(e.number) /\ Matches(rows[e.number])
      /\ \A n \in Numbers \ touched : Matches(rows[n]) => \E e \in shown : e.number = n
  <2>1. Listed = shown
    BY DEF ReadersSound, SessionSound, SessionTyped, Listed
  <2> QED BY <2>1 DEF ReadersSound, SessionSound, SessionTyped, CoverSound, StillToCome
<1>2. \A e \in Certain : e.number \in Known /\ e = Entry(e.number)
  BY <1>1 DEF Certain, Known, CountedCases, Entries
<1>3. ASSUME NEW n \in Known PROVE Entry(n) \in Certain /\ Entry(n).number = n
  <2>1. n \in Numbers \ touched /\ Matches(rows[n]) /\ rows[n] # Nil
    BY DEF Known, CountedCases, Matches
  <2>2. PICK e \in shown : e.number = n
    BY <1>1, <2>1
  <2>3. e = Entry(n)
    BY <1>1, <2>1, <2>2
  <2> QED BY <2>1, <2>2, <2>3 DEF Certain
<1> QED BY <1>2, <1>3

\* One to one: the entries and the cases, the defects that the entries show and
\* those of the cases.
LEMMA AsManyRows ==
  ASSUME ReadersSound, step = "done", NEW s
  PROVE  Cardinality({e \in Certain : e.status = s}) = Cardinality(KnownRows(s))
         /\ IsFiniteSet(KnownRows(s))
<1> DEFINE S == KnownRows(s)
           T == {e \in Certain : e.status = s}
           f == [n \in S |-> Entry(n)]
<1>1. \A n \in S : Entry(n) \in T /\ Entry(n).number = n
  BY CertainIsKnown DEF KnownRows, Entry
<1>2. \A e \in T : e.number \in S /\ e = Entry(e.number)
  BY CertainIsKnown DEF KnownRows, Entry
<1>3. IsFiniteSet(S)
  <2>1. S \subseteq Numbers /\ IsFiniteSet(Numbers)
    BY RowAssumption DEF KnownRows, Known, CountedCases
  <2> QED BY <2>1, FS_Subset
<1> HIDE DEF S, T
<1>4. f \in [S -> T] /\ \A n \in S : f[n] = Entry(n)
  BY <1>1
<1> HIDE DEF f
<1>5. \A m, n \in S : f[m] = f[n] => m = n
  BY <1>1, <1>4
<1>6. \A e \in T : \E n \in S : f[n] = e
  BY <1>2, <1>4
<1>7. ExistsBijection(S, T)
  BY <1>4, <1>5, <1>6 DEF ExistsBijection, Bijection, Injection, Surjection, IsInjective
<1> QED BY <1>3, <1>7, FS_Bijection DEF S, T

LEMMA AsManyDefects ==
  ASSUME ReadersSound, step = "done", NEW s \in Severities
  PROVE  Cardinality(UNION {{e} \X (1..e.open[s]) : e \in Certain}) = Cardinality(KnownDefects(s))
         /\ IsFiniteSet(KnownDefects(s))
<1> DEFINE S == KnownDefects(s)
           T == UNION {{e} \X (1..e.open[s]) : e \in Certain}
           f == [d \in S |-> <<Entry(d[1]), d[2]>>]
<1>1. \A d : d \in S <=> \E n \in Known, i \in Nat : i \in 1..rows[n].open[s] /\ d = <<n, i>>
  BY DEF KnownDefects, DefectsOf
<1>2. \A d : d \in T <=> \E e \in Certain, i \in Nat : i \in 1..e.open[s] /\ d = <<e, i>>
  OBVIOUS
<1>3. \A n : Entry(n).open = rows[n].open
  BY DEF Entry
<1>4. IsFiniteSet(S)
  <2>1. S \subseteq Numbers \X (1..MaxOpen)
    <3>1. \A n \in Known : n \in Numbers /\ 1..rows[n].open[s] \subseteq 1..MaxOpen
      BY FewDefects DEF Known, CountedCases, Matches, ReadersSound
    <3> QED BY <1>1, <3>1
  <2>2. IsFiniteSet(Numbers \X (1..MaxOpen))
    <3>1. IsFiniteSet(Numbers) /\ IsFiniteSet(1..MaxOpen)
      BY RowAssumption, FS_Interval
    <3> QED BY <3>1, FS_Product
  <2> QED BY <2>1, <2>2, FS_Subset
<1> HIDE DEF S, T
<1>5. /\ f \in [S -> T]
      /\ \A n \in Known, i \in Nat :
           i \in 1..rows[n].open[s] => f[<<n, i>>] = <<Entry(n), i>>
  <2>1. ASSUME NEW d \in S PROVE <<Entry(d[1]), d[2]>> \in T
    <3>1. PICK n \in Known, i \in Nat : i \in 1..rows[n].open[s] /\ d = <<n, i>>
      BY <1>1
    <3>2. Entry(n) \in Certain /\ i \in 1..Entry(n).open[s]
      BY <1>3, <3>1, CertainIsKnown
    <3> QED BY <1>2, <3>1, <3>2
  <2>2. \A n \in Known, i \in Nat : i \in 1..rows[n].open[s] => <<n, i>> \in S
    BY <1>1
  <2> QED BY <2>1, <2>2
<1> HIDE DEF f
<1>6. ASSUME NEW b \in S, NEW d \in S, f[b] = f[d] PROVE b = d
  <2>1. PICK m \in Known, j \in Nat : j \in 1..rows[m].open[s] /\ b = <<m, j>>
    BY <1>1
  <2>2. PICK n \in Known, i \in Nat : i \in 1..rows[n].open[s] /\ d = <<n, i>>
    BY <1>1
  <2>3. Entry(m) = Entry(n) /\ j = i
    BY <1>5, <1>6, <2>1, <2>2
  <2> QED BY <2>1, <2>2, <2>3, CertainIsKnown
<1>7. ASSUME NEW d \in T PROVE \E b \in S : f[b] = d
  <2>1. PICK e \in Certain, i \in Nat : i \in 1..e.open[s] /\ d = <<e, i>>
    BY <1>2
  <2>2. e.number \in Known /\ e = Entry(e.number) /\ i \in 1..rows[e.number].open[s]
    <3>1. e.number \in Known /\ e = Entry(e.number)
      BY <2>1, CertainIsKnown
    <3>2. e.open = rows[e.number].open
      BY <1>3, <3>1
    <3> QED BY <2>1, <3>1, <3>2
  <2>3. <<e.number, i>> \in S
    BY <1>1, <2>1, <2>2
  <2>4. f[<<e.number, i>>] = <<Entry(e.number), i>>
    BY <1>5, <2>1, <2>2
  <2> QED BY <2>1, <2>2, <2>3, <2>4
<1>8. ExistsBijection(S, T)
  BY <1>5, <1>6, <1>7 DEF ExistsBijection, Bijection, Injection, Surjection, IsInjective
<1> QED BY <1>4, <1>8, FS_Bijection DEF S, T

\* How far a count can be from what it is sure to contain.
LEMMA CountBounds ==
  ASSUME NEW count, NEW sure, NEW others, CountOf(count, sure, others),
         IsFiniteSet(sure), IsFiniteSet(others)
  PROVE  /\ Cardinality(sure) \in Nat /\ Cardinality(others) \in Nat /\ count \in Nat
         /\ Cardinality(sure) <= count /\ count <= Cardinality(sure) + Cardinality(others)
<1>1. PICK S \in SUBSET (sure \union others) : sure \subseteq S /\ count = Cardinality(S)
  BY DEF CountOf
<1>2. /\ IsFiniteSet(sure \union others)
      /\ Cardinality(sure \union others) =
           Cardinality(sure) + Cardinality(others) - Cardinality(sure \intersect others)
  BY FS_Union
<1>3. IsFiniteSet(S) /\ Cardinality(S) <= Cardinality(sure \union others)
  BY <1>2, FS_Subset
<1>4. Cardinality(sure) <= Cardinality(S)
  BY <1>1, <1>3, FS_Subset
<1>5. IsFiniteSet(sure \intersect others)
  BY FS_Subset
<1>6. /\ Cardinality(sure) \in Nat /\ Cardinality(others) \in Nat /\ Cardinality(S) \in Nat
      /\ Cardinality(sure \intersect others) \in Nat
  BY <1>3, <1>5, FS_CardinalityType
<1> QED BY <1>1, <1>2, <1>3, <1>4, <1>6

\* However many commits come beside the three statements of however many
\* requests: each page's statistics count every case that nobody changed, and
\* every unresolved defect of it, as the pages show them, and of each changed
\* case no more than it can have.
THEOREM CountsAlwaysAgree == Spec => []CountsAgree
<1>1. ReadersSound => CountsAgree
  <2> SUFFICES ASSUME ReadersSound, step = "done", NEW c \in counted
               PROVE  /\ \A s \in RowStatuses :
                           Within(c.byStatus[s], Cardinality({e \in Certain : e.status = s}), 1)
                      /\ \A s \in Severities :
                           Within(c.bySeverity[s],
                                  Cardinality(UNION {{e} \X (1..e.open[s]) : e \in Certain}), MaxOpen)
    BY DEF CountsAgree
  <2>1. StatusesSound(c.byStatus) /\ SeveritiesSound(c.bySeverity)
    BY DEF ReadersSound, SessionSound, CountsSound
  <2>2. IsFiniteSet(touched) /\ Cardinality(touched) \in Nat
    <3>1. touched \subseteq Numbers /\ IsFiniteSet(Numbers)
      BY RowAssumption DEF ReadersSound, SessionSound, SessionTyped
    <3>2. IsFiniteSet(touched)
      BY <3>1, FS_Subset
    <3> QED BY <3>2, FS_CardinalityType
  <2>3. ASSUME NEW s \in RowStatuses
        PROVE  Within(c.byStatus[s], Cardinality({e \in Certain : e.status = s}), 1)
    <3>1. CountOf(c.byStatus[s], KnownRows(s), touched)
      BY <2>1 DEF StatusesSound
    <3>2. /\ IsFiniteSet(KnownRows(s))
          /\ Cardinality({e \in Certain : e.status = s}) = Cardinality(KnownRows(s))
      BY AsManyRows
    <3> HIDE DEF CountOf
    <3>3. /\ Cardinality(KnownRows(s)) \in Nat /\ c.byStatus[s] \in Nat
          /\ Cardinality(KnownRows(s)) <= c.byStatus[s]
          /\ c.byStatus[s] <= Cardinality(KnownRows(s)) + Cardinality(touched)
      BY <2>2, <3>1, <3>2, CountBounds
    <3> QED BY <2>2, <3>2, <3>3 DEF Within
  <2>4. ASSUME NEW s \in Severities
        PROVE  Within(c.bySeverity[s],
                      Cardinality(UNION {{e} \X (1..e.open[s]) : e \in Certain}), MaxOpen)
    <3> DEFINE changed == touched \X (1..MaxOpen)
    <3>1. CountOf(c.bySeverity[s], KnownDefects(s), changed)
      BY <2>1 DEF SeveritiesSound
    <3>2. /\ IsFiniteSet(KnownDefects(s))
          /\ Cardinality(UNION {{e} \X (1..e.open[s]) : e \in Certain}) = Cardinality(KnownDefects(s))
      BY AsManyDefects
    <3>3. IsFiniteSet(changed) /\ Cardinality(changed) = MaxOpen * Cardinality(touched)
      <4>1. /\ MaxOpen \in Nat /\ IsFiniteSet(1..MaxOpen)
            /\ Cardinality(1..MaxOpen) = IF 1 > MaxOpen THEN 0 ELSE MaxOpen - 1 + 1
        BY RowAssumption, FS_Interval
      <4>2. Cardinality(1..MaxOpen) = MaxOpen
        BY <4>1
      <4>3. IsFiniteSet(changed) /\ Cardinality(changed) = Cardinality(touched) * MaxOpen
        BY <2>2, <4>1, <4>2, FS_Product
      <4> QED BY <2>2, <4>1, <4>3
    <3> HIDE DEF changed
    <3>4. /\ Cardinality(KnownDefects(s)) \in Nat /\ c.bySeverity[s] \in Nat
          /\ Cardinality(changed) \in Nat
          /\ Cardinality(KnownDefects(s)) <= c.bySeverity[s]
          /\ c.bySeverity[s] <= Cardinality(KnownDefects(s)) + Cardinality(changed)
      BY <3>1, <3>2, <3>3, CountBounds
    <3> QED BY <3>2, <3>3, <3>4 DEF Within
  <2> QED BY <2>3, <2>4
<1> QED BY <1>1, ReadersKept, PTL

\* A verification never finds a case disturbed under it, and all that readers
\* carry keeps its type.
THEOREM TypesAlwaysKept == Spec => []TypeOK
<1>1. ReadersSound => TypeOK
  <2> SUFFICES ASSUME ReadersSound PROVE TypeOK
    OBVIOUS
  <2>1. /\ rows \in [Numbers -> {Nil} \union RowRecords]
        /\ clock \in 0..MaxTime /\ commits \in 0..MaxCommits
    BY DEF ReadersSound, RowsSound
  <2>2. /\ step \in SessionSteps /\ (step # "idle" => query.limit \in 1..MaxLimit)
        /\ page \union shown \subseteq Entries /\ (cursor # Nil => cursor \in shown)
        /\ touched \subseteq Numbers
    BY DEF ReadersSound, SessionSound, SessionTyped, Listed
  <2>3. found \in {Nil} \union Numbers
    BY DEF ReadersSound, CheckSound, Certified
  <2>4. answer # Nil => answer \subseteq Reasons
    BY DEF ReadersSound, CheckSound, ReasonsAgainst, Reasons
  <2> QED BY <2>1, <2>2, <2>3, <2>4 DEF TypeOK
<1> QED BY <1>1, ReadersKept, PTL

\* What the certificate of a case says, of either version of the program.
LEMMA CertificateFacts ==
  ASSUME RowsSound, NEW n \in Certified
  PROVE  /\ n \in Numbers /\ rows[n].certificate.id = n /\ rows[n].certificate.report = n
         /\ rows[n].certificate.caseNumber = (IF n \in Legacy THEN Nil ELSE n)
         /\ rows[n].certificate.digest =
              CertificateDigest(n, IF n \in Legacy THEN ByIdentifier(n) ELSE ByNumber(n), n,
                                rows[n].certificate.number, rows[n].certificate.issuedAt)
<1>1. n \in Numbers /\ rows[n] # Nil /\ rows[n].certificate # Nil
  BY DEF Certified, RowsSound, RowSound
<1>2. PICK at \in 0..MaxTime : rows[n].certificate = NewCertificate(n, at)
  BY <1>1 DEF RowsSound, RowSound
<1> QED BY <1>1, <1>2 DEF NewCertificate

\* A genuine certificate is found valid, at any later time and whatever is
\* committed between the statements that look it up.
THEOREM GenuineAlwaysValid == Spec => []GenuineIsValid
<1>1. ReadersSound => GenuineIsValid
  <2> SUFFICES ASSUME ReadersSound, answer # Nil, request.carried = held,
                      request.path = held.caseNumber
               PROVE  answer = {}
    BY DEF GenuineIsValid
  <2>1. /\ found \in Certified /\ found # Nil /\ view = rows[found]
        /\ rows[found].certificate.number = held.number
        /\ answer = ReasonsAgainst(request.path, held, view)
    BY DEF ReadersSound, CheckSound
  <2>2. PICK n \in Certified : held = Certificate(n)
    BY <2>1 DEF ReadersSound, CheckSound
  <2>3. found = n
    <3>1. held.number = rows[n].certificate.number
      BY <2>2 DEF Certificate
    <3> QED BY <2>1, <2>2, <3>1 DEF ReadersSound, RowsSound, NumbersUnique
  <2>4. /\ held.number = rows[n].certificate.number /\ held.id = rows[n].certificate.id
        /\ held.caseNumber = n /\ held.report = rows[n].certificate.report
        /\ held.issuedAt = rows[n].certificate.issuedAt
        /\ held.digest = rows[n].certificate.digest
    BY <2>2 DEF Certificate
  <2>5. /\ rows[n].certificate.id = n /\ rows[n].certificate.report = n
        /\ rows[n].certificate.caseNumber = (IF n \in Legacy THEN Nil ELSE n) /\ n # Nil
        /\ rows[n].certificate.digest =
             CertificateDigest(n, IF n \in Legacy THEN ByIdentifier(n) ELSE ByNumber(n), n,
                               rows[n].certificate.number, rows[n].certificate.issuedAt)
    BY <2>1, <2>2, <2>3, CertificateFacts DEF ReadersSound
  <2>6. CaseMatched(held, request.path)
    BY <2>3, <2>4 DEF CaseMatched
  <2>7. ContentValid(held, view)
    <3>1. CaseBinding(held, view) = IF n \in Legacy THEN ByIdentifier(n) ELSE ByNumber(n)
      BY <2>1, <2>3, <2>4, <2>5 DEF CaseBinding
    <3> QED BY <2>1, <2>3, <2>4, <2>5, <3>1 DEF ContentValid, ContentDigestValid
  <2> QED BY <2>1, <2>3, <2>4, <2>5, <2>6, <2>7 DEF ReasonsAgainst
<1> QED BY <1>1, ReadersKept, PTL

\* A certificate found valid is, field for field, the one of the case named in
\* the path, whoever put it together and computed its digest again.
THEOREM ValidAlwaysGenuine == Spec => []ValidMeansGenuine
<1>1. ReadersSound => ValidMeansGenuine
  <2> SUFFICES ASSUME ReadersSound, answer = {}
               PROVE  request.path \in Certified /\ request.carried = Certificate(request.path)
    BY DEF ValidMeansGenuine
  <2> DEFINE c == request.carried
             row == rows[found]
  <2>1. /\ found \in Certified /\ view = row /\ row.certificate.number = c.number
        /\ ReasonsAgainst(request.path, c, row) = {} /\ IsCarried(c)
    BY AnswerAssumption DEF ReadersSound, CheckSound
  <2>2. /\ CaseMatched(c, request.path) /\ ContentValid(c, row)
        /\ found = c.report /\ row.certificate.report = c.report
    BY <2>1 DEF ReasonsAgainst, Reasons
  <2>3. /\ found = request.path /\ found = c.caseNumber
        /\ row.certificate.id = c.id /\ row.certificate.issuedAt = c.issuedAt
        /\ c.digest = CertificateDigest(c.id, CaseBinding(c, row), c.report, c.number, c.issuedAt)
    BY <2>2 DEF CaseMatched, ContentValid, ContentDigestValid
  <2>4. /\ found # Nil /\ row.certificate.id = found /\ row.certificate.report = found
        /\ row.certificate.caseNumber = (IF found \in Legacy THEN Nil ELSE found)
        /\ row.certificate.digest =
             CertificateDigest(found, IF found \in Legacy THEN ByIdentifier(found) ELSE ByNumber(found),
                               found, row.certificate.number, row.certificate.issuedAt)
    BY <2>1, CertificateFacts, NilAssumption DEF ReadersSound
  <2>5. CaseBinding(c, row) = IF found \in Legacy THEN ByIdentifier(found) ELSE ByNumber(found)
    BY <2>3, <2>4 DEF CaseBinding
  <2>6. c.digest = row.certificate.digest
    BY <2>1, <2>2, <2>3, <2>4, <2>5
  <2>7. c = Certificate(found)
    BY <2>1, <2>2, <2>3, <2>6 DEF IsCarried, Certificate
  <2> QED BY <2>1, <2>3, <2>7
<1> QED BY <1>1, ReadersKept, PTL
=============================================================================
