------------------------------- MODULE WorkQueue -------------------------------
(***************************************************************************)
(* The work queue: GetWorkQueue of internal/application over QueryCases of *)
(* internal/repository.  A client asks for pages; each is one request of   *)
(* three statements (the page, the counts by status, the counts of         *)
(* unresolved defects), and commits come between requests and statements.  *)
(* All that survives a request is the cursor its client holds.             *)
(*                                                                         *)
(* A page is the set of its entries: their order is that of Before.        *)
(***************************************************************************)
EXTENDS CaseRows

CONSTANTS
  Queries,       \* what clients ask for: statuses, highest, from, to, limit
  Any,           \* a filter that is not given
  DefaultLimit,  \* 20 in the code
  MaxLimit       \* 100 in the code

ASSUME LimitAssumption == DefaultLimit \in 1..MaxLimit /\ MaxLimit \in Nat

ASSUME QueryAssumption ==
  Queries \subseteq [statuses : SUBSET RowStatuses, highest : {Any} \union Severities,
                     from : {Any} \union Nat, to : {Any} \union Nat, limit : Int]

VARIABLES
  step,      \* of the paging session
  query,     \* the filters and the limit of the present request
  snapshot,  \* the time the cursor carries from page to page
  cursor,    \* the last entry shown, Nil before the first page
  page, more, byStatus,  \* the answer as it is being put together
  shown,     \* history: all entries the client has got so far
  counted,   \* history: the statistics it has got with them
  touched    \* history: the cases committed since the session began

session == <<step, query, snapshot, cursor, page, more, byStatus, shown, counted, touched>>

SessionSteps == {"idle", "page", "statuses", "severities", "paused", "done"}

-----------------------------------------------------------------------------
(* Seeded faults, as in CaseRows *)

AfterTimeOnly(n) == cursor = Nil \/ rows[n].updatedAt < cursor.updatedAt

AfterOrEqual(n) ==
  \/ cursor = Nil
  \/ rows[n].updatedAt < cursor.updatedAt
  \/ rows[n].updatedAt = cursor.updatedAt /\ n >= cursor.number

HigherCriticalOnly(severity) == IF severity = "critical" THEN {} ELSE {"critical"}

LimitUnchecked(q) == q.from # Any /\ q.to # Any => q.from <= q.to

-----------------------------------------------------------------------------
(* Pieces of the handlers *)

\* normalizeWorkQueueQuery: no limit means the default one, all else must fit.
Normalized(q) == [q EXCEPT !.limit = IF @ = 0 THEN DefaultLimit ELSE @]

ValidQuery(q) ==
  /\ Normalized(q).limit \in 1..MaxLimit
  /\ q.from # Any /\ q.to # Any => q.from <= q.to

\* workQueueQueryHash: everything that filters, and not the limit.
QueryHash(q) ==
  [statuses |-> q.statuses, highest |-> q.highest, from |-> q.from, to |-> q.to]

\* The severities of unresolved defects of a case.
Occurring(open) == {s \in Severities : open[s] > 0}

\* severityRank, and what WorkSummary tells of a case.
SeverityRank == [minor |-> 1, major |-> 2, critical |-> 3]

HighestRisk(severities) ==
  IF severities = {} THEN Any
  ELSE CHOOSE s \in severities : \A t \in severities : SeverityRank[t] <= SeverityRank[s]

\* caseWhere: the severities that must not occur above the one asked for.
Higher(severity) ==
  CASE severity = "critical" -> {}
    [] severity = "major" -> {"critical"}
    [] severity = "minor" -> {"major", "critical"}

Matches(row) ==
  /\ row # Nil
  /\ row.updatedAt <= snapshot
  /\ query.statuses # {} => row.status \in query.statuses
  /\ query.from # Any => query.from <= row.updatedAt
  /\ query.to # Any => row.updatedAt <= query.to
  /\ query.highest # Any =>
       /\ query.highest \in Occurring(row.open)
       /\ Occurring(row.open) \intersect Higher(query.highest) = {}

\* The condition that the cursor adds for the page, and only for the page.
After(n) ==
  \/ cursor = Nil
  \/ rows[n].updatedAt < cursor.updatedAt
  \/ rows[n].updatedAt = cursor.updatedAt /\ n > cursor.number

\* ORDER BY updated_at DESC, case_number ASC
Before(a, b) ==
  \/ a.updatedAt > b.updatedAt
  \/ a.updatedAt = b.updatedAt /\ a.number < b.number

\* WorkSummary, as far as the filters and the statistics speak of it too.
Entry(n) ==
  [number |-> n, updatedAt |-> rows[n].updatedAt, status |-> rows[n].status,
   open |-> rows[n].open, highest |-> HighestRisk(Occurring(rows[n].open))]

Entries == [number : Numbers, updatedAt : 0..MaxTime, status : RowStatuses,
            open : DefectCounts, highest : {Any} \union Severities]

ASSUME CursorAssumption == Nil \notin Entries

\* LIMIT: the first entries of the candidates, all of them if they fit.
IsFirst(chosen, candidates, limit) ==
  /\ chosen \subseteq candidates
  /\ chosen # candidates => Cardinality(chosen) = limit
  /\ Cardinality(chosen) <= limit
  /\ \A a \in chosen, b \in candidates \ chosen : Before(a, b)

\* The rows that the statistics count: the cursor is no part of their filter.
CountedCases == {n \in Numbers : Matches(rows[n])}

CountByStatus ==
  [s \in RowStatuses |-> Cardinality({n \in CountedCases : rows[n].status = s})]

\* A seeded fault, as above: COUNT(DISTINCT d.case_id) for COUNT(*).
CasesBySeverity ==
  [s \in Severities |-> Cardinality({n \in CountedCases : s \in Occurring(rows[n].open)})]

\* The join of cases and unresolved defects: a case with two adds two rows.
CountBySeverity ==
  [s \in Severities |->
     Cardinality(UNION {{n} \X (1..rows[n].open[s]) : n \in CountedCases})]

-----------------------------------------------------------------------------
(* The steps of a session *)

InitSession ==
  /\ step = "idle" /\ query = Nil /\ cursor = Nil /\ snapshot = 0
  /\ page = {} /\ more = FALSE /\ byStatus = Nil
  /\ shown = {} /\ counted = {} /\ touched = {}

\* The first request: now is the snapshot.
FirstPage ==
  /\ step = "idle"
  /\ \E q \in Queries : ValidQuery(q) /\ query' = Normalized(q)
  /\ snapshot' = clock
  /\ step' = "page"
  /\ UNCHANGED <<cursor, page, more, byStatus, shown, counted, touched>>

\* A request with a cursor: it must be about the same filters, and brings back
\* the snapshot; the limit may be another one.
NextPage ==
  /\ step = "paused"
  /\ \E q \in Queries :
       /\ ValidQuery(q)
       /\ QueryHash(q) = QueryHash(query)
       /\ query' = Normalized(q)
  /\ step' = "page"
  /\ UNCHANGED <<snapshot, cursor, page, more, byStatus, shown, counted, touched>>

ReadPage ==
  LET candidates == {Entry(n) : n \in {m \in Numbers : Matches(rows[m]) /\ After(m)}}
  IN /\ step = "page"
     /\ \E chosen \in SUBSET candidates :
          /\ IsFirst(chosen, candidates, query.limit)
          /\ page' = chosen
          /\ more' = (chosen # candidates)
     /\ step' = "statuses"
     /\ UNCHANGED <<query, snapshot, cursor, byStatus, shown, counted, touched>>

ReadStatusCounts ==
  /\ step = "statuses"
  /\ byStatus' = CountByStatus
  /\ step' = "severities"
  /\ UNCHANGED <<query, snapshot, cursor, page, more, shown, counted, touched>>

\* The last statement and the answer, with a cursor only if there is more.
ReadSeverityCounts ==
  /\ step = "severities"
  /\ shown' = shown \union page
  /\ counted' = counted \union {[byStatus |-> byStatus, bySeverity |-> CountBySeverity]}
  /\ IF more
       THEN /\ step' = "paused"
            /\ cursor' \in {last \in page : \A a \in page \ {last} : Before(a, last)}
       ELSE step' = "done" /\ UNCHANGED cursor
  /\ page' = {} /\ byStatus' = Nil
  /\ UNCHANGED <<query, snapshot, more, touched>>

QueueStep == FirstPage \/ NextPage \/ ReadPage \/ ReadStatusCounts \/ ReadSeverityCounts

\* A commit as a session sees it.
CommitBeside(n) ==
  /\ Commit(n)
  /\ touched' = IF step = "idle" THEN touched ELSE touched \union {n}
  /\ UNCHANGED <<step, query, snapshot, cursor, page, more, byStatus, shown, counted>>

QueueInit == InitRows /\ InitSession

QueueNext ==
  \/ QueueStep /\ UNCHANGED store
  \/ Tick /\ UNCHANGED session
  \/ \E n \in Numbers : CommitBeside(n)

QueueSpec == QueueInit /\ [][QueueNext]_<<store, session>>

-----------------------------------------------------------------------------
(* Properties *)

\* However many cases are changed between two pages, no case comes back on a
\* later page: a change only moves a case forward of the cursor.
NoneTwice == \A a \in page, b \in shown : a.number # b.number

\* When the pages end, the client has seen exactly the matching cases among
\* those that nobody changed meanwhile: the cursor skips none of them, also
\* where several share one time, and changes to others push none out.
NoneSkipped ==
  step = "done" =>
    \A n \in Numbers \ touched :
      Matches(rows[n]) <=> \E e \in shown : e.number = n

\* The entries of those cases that nobody changed since the session began.
Certain == {e \in shown : e.number \notin touched}

Within(count, sure, most) ==
  sure <= count /\ count <= sure + most * Cardinality(touched)

\* Each page's statistics come from statements of their own, so commits may
\* fall before, between and after them.  Still every page counts each case that
\* nobody changed, and each of its unresolved defects, just as the pages
\* together show it, once; a changed case adds no more than itself.
CountsAgree ==
  step = "done" =>
    \A c \in counted :
      /\ \A s \in RowStatuses :
           Within(c.byStatus[s], Cardinality({e \in Certain : e.status = s}), 1)
      /\ \A s \in Severities :
           Within(c.bySeverity[s],
                  Cardinality(UNION {{e} \X (1..e.open[s]) : e \in Certain}), MaxOpen)

\* The filter by highest severity is a pair of subqueries over the rows of
\* defects, the summary a loop over the aggregate: they mean the same.
FilterMeansSummary ==
  step # "idle" /\ query.highest # Any =>
    \A e \in page \union shown : e.highest = query.highest
=============================================================================
