# Stage-rigging clearance: specifications and proofs

`stage-rigging-clearance` is a Go service (`src/`) in which a theatre's technicians
take rigging equipment from an inspection case, through load tests, defects,
remediation and independent review, to a frozen report and a return-to-service
certificate. This directory holds TLA+ models of it, TLC configurations that check
them on small instances, and theorems checked by TLAPS.

To run one check: `tlc -config <run>.cfg <module>.tla`, with the module that
`PROJECT.json` names for the run. To check the proofs: `tlapm <module>.tla` with
`InspectionCaseProofs`, `CaseHistoryProofs`, `LifecycleRefinement`, `DetailTablesProofs`,
`CommandServiceProofs`, `ExactlyOnceRefinement`, `ReadersProofs` and `ServerLifeProofs`.

## 1. Inventory

| component | source | state | operations |
| --- | --- | --- | --- |
| inspection case | `internal/domain`, `application/commands.go` | one aggregate: status, version, two times, assets, tests, defects (evidence, decisions), review, report, certificate | 13 commands |
| command service | `application/service.go`, `create.go` | a mutex per case number | validate, lock, replay, load, check version, apply, read audit, commit, read back |
| store | `repository/write.go`, `read.go`, `schema.go` | SQLite: case rows with the aggregate as JSON, detail tables, idempotency records, audit events | Commit, LoadCase, LoadAudit, FindIdempotency |
| opening | `repository/store.go`, `validate.go`, `recovery.go` | the schema and its version | Open: set up, upgrade, Validate |
| audit chain | `internal/audit` | none of its own: events in the store | NewEvent, Verify |
| work queue | `application/workqueue.go`, `repository/queue.go`, `domain/workqueue.go` | a cursor that the client holds | page, filter, statistics |
| certificate check, queries | `domain/certificate_verification.go`, `application/query.go`, `domain/coverage.go` | none | verify, read, coverage matrix |
| HTTP layer | `internal/httpapi` | none | decode, route, map errors |
| server process | `cmd/server` | listener, store | start, serve, shut down, self-check |

How they interact. An HTTP handler decodes a request and calls one method of the
command service on the goroutine of its connection. The service takes the mutex of
the case, looks up the idempotency key, loads the aggregate (every load runs
`ValidateIntegrity`), calls one method of the aggregate, reads the audit chain for
its last event, and commits case, detail tables, audit event and answer in one SQLite
transaction that repeats the key look-up and makes the update conditional on the
version. The answer is always read back from the store. Nothing else writes, apart
from the opening of the store, which writes the schema. Requests that read take
neither the mutex nor a transaction, so commits come between their statements. A
process that starts validates the whole store and refuses to run on a damaged one;
one that stops waits for its handlers, for ten seconds.

What is hard: many clients and goroutines per case; more than one process on a
database file, where the mutex does not help; retries of commands whose answer was
lost; a crash between any two steps, of a command or of the opening; a review that
sends a case back any number of times; acceptances that new evidence makes void; pages
and certificates read beside commits; names, codes and case numbers that are
normalised in one place and compared in another; the wall clock; float64 thresholds;
stopping with handlers that hang. `PROJECT.json` lists these as hazards, each at its
line, with the properties that cover it.

What makes each component correct:

* inspection case: a released case was fully tested, every failure became a defect,
  every defect's newest evidence was accepted, by reviewers who tested nothing;
  review never gets stuck; history is only appended to; no legal history makes a
  case unloadable;
* command service and store: each key takes effect once, each success is told with
  the answer recorded at its commit, no update is lost, audit chain and case agree,
  commands on a case are serial inside a process, every request is answered; the
  detail rows can always be written and always say what the snapshot says;
* opening: who serves has the current schema, and a store is refused for a cause, never
  for a crash;
* work queue: pages taken while cases change neither skip nor repeat a case that did
  not change, and the statistics count it and its defects as the pages show them; certificate check: no
  answer of "valid" for anything but the stored certificate, and always for that;
* server process: a clean exit cuts nobody off, and every start and stop comes to
  an end.

## 2. Modules

| module | models |
| --- | --- |
| `CaseLifecycle` | abstract: what a case promises to whoever relies on its certificate |
| `InspectionCase` | the aggregate and its 13 commands; implements `CaseLifecycle` |
| `DetailTables` | `InspectionCase` with the rows that every command stores, and their validation |
| `LoadThresholds` | where the float64 thresholds of the load tests run |
| `ExactlyOnce` | abstract: what the command service promises its clients |
| `CommandService` | the steps of a writing command over several processes, with failures, crashes and restarts; implements `ExactlyOnce` |
| `CaseRows` | the rows of cases as readers see them, and the commits that change them |
| `WorkQueue` | a client paging through the work queue |
| `CertificateCheck` | a client fetching a certificate and having it verified |
| `Readers` | `WorkQueue` and `CertificateCheck` composed with the commits of `CaseRows` |
| `ServerLife` | processes from the opening of the store to its closing |
| `CaseRoutes` | from the path of a request to its case and its operation |
| `InspectionCaseProofs` | typing, the inductive invariant of review, four safety theorems |
| `CaseHistoryProofs` | the inductive invariant of the records of a case; that it stays loadable, hides no failure and is only appended to |
| `LifecycleRefinement` | the proof that `InspectionCase` implements `CaseLifecycle` |
| `DetailTablesProofs` | that every accepted command can be stored, and that the rows pass their validation |
| `CommandServiceProofs` | typing, the inductive invariants of the commit, six safety theorems |
| `ExactlyOnceRefinement` | the proof that `CommandService` implements `ExactlyOnce` |
| `ReadersProofs` | the inductive invariant of paging and of verification, seven safety theorems |
| `ServerLifeProofs` | the inductive invariant of openings and endings, four safety theorems |
| `MC...` | constants of the runs |

The modules meet where the parts do. `InspectionCase` says what a command may do to
one case; `DetailTables` extends it, so that each of its steps is also the transaction
that stores the outcome; `CommandService` says when such a step takes place beside
others, and leaves open which rules refuse it; `CaseRows` keeps of a commit what
readers see; in `ServerLife` a command is a handler that may commit once and may hang.

### InspectionCase

The variables are the fields of the Go struct `InspectionCase`. One action per
command; the application's role checks are the choice of action (any name may carry
any role, as in the code, where roles are claimed by the request), and
`EnsureIndependent` stands in the actions before which the code calls it. A refused
command changes nothing and is not a step. `AddAsset` is a batch of one, as in the
code.

Abstractions: identifiers are positions in the three sequences, because nothing is
deleted or reordered (the frozen document, sorted by identifier, is compared only
with itself, so its order does not matter); a reading is within or outside the limit
(`LoadThresholds` says where the limit runs); a digest is the value it is the digest
of, wrapped, so that equal digests mean equal contents; comments, descriptions and
lengths are left out. Names, asset codes and evidence are members of small sets, and
`NormalizeText`, `FoldName` (what `strings.EqualFold` identifies after `TrimSpace`)
and `NormalizeCode` are functions on them, so that a difference between
normalisations is visible. The clock is a value of `Instants`; `ClockMayStepBack`
says whether it may go backwards.

### DetailTables

A row is the unique keys it takes, the rows it goes with (`ON DELETE CASCADE`), the
rows whose deletion it blocks, and the columns that some rule reads. `DeletesAllowed`
says that no statement of `replaceDetails` empties a table that rows still rest on,
`InsertsAllowed` that no key is taken twice and that what a row refers to is inserted
before it; a command that breaks a key or a reference is `refused`, though the rules
accepted it. `ValidateMaterializedView` is written from
the validator's side: it looks rows up as `validate.go` does, evidence by version and
decisions by sequence, and does not compare two sets built in one way.

### CommandService

A call is an HTTP request; a retry is another call with the same request. Its program
counter moves over the statements between which something else may happen: `Reject`
(`validateMeta`, for a request that is not complete), `Start` and `Acquire` (the mutex),
`Replay`, `Build` (`CreateCase`) or `Load` (`LoadCase`, the version check and the rule),
`LoadAudit`, `Commit`, `Fetch` (`persistedResult`). `Commit` is one step, because it is
one SQLite transaction; its alternatives stand in the order of the code: key recorded
with this fingerprint, key recorded with another, version moved, success. `StoreFails`
is any store access that returns an error (a busy file, a cancelled request, a unique
column), after which the transaction is rolled back and the mutex released. `Crash` ends
a process: its mutexes and calls go, the rows stay; `Restart` opens the store again, if
`Validate` accepts it. An answered call forgets its local variables, and its mutex is
free.

A case is the sequence of effects that made it, and any command may be refused by a
rule, so the module says nothing about rules and `InspectionCase` nothing about
concurrency. An audit event carries its number, the versions before and after, the
answer, and the hash of the event before, which is the chain up to there, because the
hash of an event covers the hash before it. `LockName` and `StoredName` are the two
normalisations of a case number. `Fingerprint` is what the JSON form of a command
contains: not the path, hence not the defect a remediation or a decision is about.

### CaseRows, WorkQueue, CertificateCheck, Readers

A request that reads is several statements, each a step: the page, the counts by
status and the counts by severity (`QueryCases`), or the row of the certificate, the
case and its detail rows (`LoadCaseByCertificateNumber`). What survives a request is
with the client: the cursor (last entry, snapshot time, hash of the filters) and the
certificate it fetched. `Commit` of `CaseRows` changes a case in between; a command
reads the clock before it commits, so that commits of two cases may come in another
order than their times. Times are compared as texts in the code; `formatTime` writes
them with a fixed width, so text order is time order, and the model compares numbers.
The clock never steps back here (`clock_step_back` shows what happens if it does).

Of its defects a row keeps how many are unresolved of each severity (`DefectCounts`), as
the statistics count rows of `defects` and not cases: `CountBySeverity` is the size of the
join of the cases with those rows, while the filter and the summary ask only which
severities occur. The three statements of a request are separate steps, so a count may
speak of other rows than the page.

A client may present the certificate it holds, or one in which a field is another,
with or without the digest computed again, bound to any number or, as the earlier version
did it, to any identifier. Certificates of that version are among the rows (`Legacy`).
Readers do not see one another, so a behaviour of `Readers` is one session beside
commits: a paging session or a certificate check.

### ServerLife

`run` of `main.go` as phases, `Open` as its statements: the tables of the schema one
by one, the version read, inserted or raised, the snapshots read, the detail rows
compared. `Crash` and other processes may come between any two of them. `Listen` may
fail; `Serve` runs beside the main goroutine and sends one value to `serverErrors`;
`Shutdown` returns when no handler runs or when its ten seconds are over. A self-check
also waits for what `Serve` sent. Handlers may commit, answer, or hang.

`cfg` is what `parseConfig` and `run` make of a process's flags (`Flags`): whether it is a
self-check, and whether its database is in memory, as that of a self-check is if the flags
leave the path at its default, and that of a server only if they say `:memory:`. All
processes that are not in memory share the file.

Of the cases in a file the module keeps how many commits there were and whether all of
them are intact, that is, whether `Validate` finds no violated foreign key, no case that
`ValidateIntegrity` or `validateMaterializedView` refuses, and no audit chain that is
invalid or at another version. `CompareDetails` refuses a file whose snapshots are not
intact, and may refuse one to which somebody has committed since the snapshots were read.
A commit keeps a file intact, with one exception (`StoresWhole`): under `ClockMayStepBack`
a command after the creation of a case may store it with a time before its creation. That
there is no other exception is what `AlwaysReloadable`, `ViewAlwaysValid` and
`StoreAlwaysOpens` say of the modules in which commits have their contents;
`clock_step_back` shows this one.

### CaseRoutes

A text is the sequence of its ordinary runs and of the characters `/` and `%`, which
alone matter to a path. `HandleCaseResource` trims, splits and unescapes the path that
`net/http` has unescaped once, and `DispatchAction` looks the rest up in the table.

### Seeded faults

Each component module has a section of operators that no action uses. Each is a
plausible mistake in one definition, and `PROJECT.json` pairs it with the property
that finds it when it takes that definition's place.

## 3. Runs

| run | instance | checks | shows |
| --- | --- | --- | --- |
| `case_review` | 2 people, 1 asset, 1 kind, 3 tests, 2 defects, 2 evidence versions, 17 versions | `ReviewCanFinish`, `ReleaseEarned`, `JudgedOnce`, `HistoryAppendOnly`, `KeepsLifecycle` | the whole life of a case with every order of return, rejection and retest |
| `case_names` | 3 spellings of 2 people and of 2 codes, 2 assets, batches of 2, 2 instants, 10 versions | `TypeOK`, `Reloadable`, `ApproverIndependent` | normalised names, independence of the approver, codes that collide after normalisation |
| `case_tests` | `DetailTables` with 2 kinds, 3 tests, 2 defects, 2 evidence versions, 15 versions | `Reloadable`, `FailureStaysVisible`, `ReleaseEarned`, `EveryCommandStored`, `ViewValid` | chains of retests, coverage, and the rows each command stores |
| `command_retry` | 1 process, 1 crash, 5 calls, 2 mutex names, fair | `BaseFresh`, `StoreOpens`, `SuccessMeansApplied`, `RetryNeverConflicts`, `Answered` | what the mutex gives inside a process, what a crash leaves, one key for two creations under different mutexes, that no way out of the handler keeps the mutex |
| `command_race` | 2 processes, 1 crash, 5 calls about 2 cases | `TypeOK`, `ChainMatchesCase`, `KeepsExactlyOnce` | what the transaction gives without the mutex, one key for two cases at the same time |
| `readers` | 3 cases, 1 of the earlier version, each with no defect, two minor ones, or a minor and a major one, 2 commits, times 0 and 1, pages of 1, 2 and more | `TypeOK`, `NoneTwice`, `NoneSkipped`, `CountsAgree`, `FilterMeansSummary`, `GenuineIsValid`, `ValidMeansGenuine` | pages, statistics and certificates beside commits |
| `server_life` | 2 processes, one of which may be in memory, 3 starts, 1 crash, 2 commits each database, 2 tables, 3 initial files, a clock that may step back, fair | `ServesOnlyCurrentSchema`, `RefusedOnlyForCause`, `CleanExitLosesNothing`, `Settles` | set-up and upgrade interrupted anywhere, what a store is refused for, shutdown with handlers that hang |

Bounds. 17 versions are enough to prepare, lock, fail a test, remediate, submit, be
rejected, remediate again, submit, be accepted, be approved, be sealed and be released,
with commands to spare for a retest and an observed defect; two evidence versions are
the least with which an acceptance can be stale, two decisions the least with which
evidence can be judged twice, three tests the least for a retest of a retest. The
command runs have the least number of calls with which a creation, a command, its retry,
and a rival or a creation under another spelling meet, and with which one key is on its
way for two cases at once; two processes are the least for which the mutex does not order
two calls, and a crash of either is enough for a retry to go to the other. Three cases, two times and pages of one entry
are the least for which a cursor stands between two cases of one time while a third
moves; two commits are the least that disturb two statements of one request, or freeze a
case and certify it; two defects of one severity (`MaxOpen`) are the least for which
counting defects differs from counting cases. Two commits to a file are the least after
which a case in it may be older than its creation. Three starts are the least for a start, another beside it, and a
restart after a crash. `command_race` treats its two processes as symmetric: it checks
safety properties only, and none of them names a process. Deadlock is not checked
anywhere: a certified case, a set of answered calls, a finished session and stopped
processes rightly stop; calls and processes that wait for ever are what `Answered` and
`Settles` are about.

Fairness. `FairSpec` of `CommandService`: a call whose next step is possible takes it
(`WF`), because a goroutine that can run is scheduled and store accesses return, with
an error if need be (`busy_timeout`); a call that waits for a mutex that is free again
and again gets it (`SF`), because `sync.Mutex` hands over to a waiter after a
millisecond in its starvation mode. Arrivals, failures, crashes and restarts are not
fair. `FairSpec` of `ServerLife`: the main goroutine, in the statements of the opening and
in the steps by which `run` stops, and the return of `Serve` after `Shutdown` closed the
listener are weakly fair, because a statement ends after the busy time and a context at its deadline.
Nothing is assumed of handlers and clients, of signals, of `Serve` failing, or of who
starts a process.

Runs that expect a violation, each a sentence of the documentation that the code does
not keep (`PROJECT.json`, findings):

| run | property | what the counterexample does |
| --- | --- | --- |
| `reviewer_independence` | `SomeoneIndependent` | a case is certified by an acceptor, an approver and a sealer who each recorded one of its tests: the first after accepting, the second under a name with two blanks, which is stored with one and no longer recognised, the third without being asked |
| `clock_step_back` | `Reloadable` | the clock steps back after creation, and the next command stores a case that cannot be loaded |
| `key_reuse` | `SuccessMeansApplied` | a key used for a second defect of the case returns the first one's success |
| `load_at_threshold` | `EnoughPasses` | 55 kg on a 50 kg asset fails the dynamic test, because float64(50 * 1.10) > 55 |
| `case_path` | `ServesNoOtherCase` | a request about a case whose number holds a slash or a percent sign comes to another case |

`Reloadable`, `SuccessMeansApplied` and `ApproverIndependent` hold in other runs, whose
instance leaves out the cause: a clock that never steps back, keys never shared by two
defects, names with no blanks inside.

## 4. Proofs

Every safety invariant and every action property that a passing run checks is also a
theorem, for every value of the constants that the assumptions of the modules allow.
Each inductive invariant was checked by TLC on the instance of a run before it was
proved. What the theorems assume of the constants is named in the module that declares
them, and says no more than what the constants stand for:

* `InspectionCase`: the normalisation functions are defined on the spellings used,
  bounds and instants are natural numbers, kinds and severities are those of the code,
  and `Nil` is no review decision, report or certificate;
* `CommandService`: the two normalisations of a case number are defined on the
  spellings used, and `Nil` is no row, draft, answer or call;
* `CaseRows`, `WorkQueue`, `CertificateCheck`: there are finitely many cases at a time,
  the queries have the types of the filters, the default limit of a page is positive and
  at most the greatest, no case has more than `MaxOpen` unresolved defects of one
  severity, and `Nil` is no number, row, certificate, entry of a page or answer;
* `ServerLife`: the flags of a process allow some configurations, bounds are natural
  numbers, the initial files are files, the file on disk is no process, and `Nil` is no
  version, exit or snapshot.

A theorem with a hypothesis beyond these says so below, with the run that shows why
the code needs it.

### The case

For any number of actors, assets, tests, defects, versions and any bounds.

1. `Typing`: `Spec => []TypeOK`, with one lemma per group of commands.
2. `Soundness`: `Spec => []ReviewSound`. None of the three properties below is
   inductive. `ReviewCanFinish` speaks of cases under review only, and whether they
   are decidable depends on what rejection and remediation left behind in the states
   before; `JudgedOnce` needs to know that no decision is about evidence that does
   not exist yet; `ReleaseEarned` needs the acceptance of a defect to be tied to its
   last decision all the way. `ReviewSound` says, of each defect: it is open exactly
   while it has no evidence, its decisions are about increasing versions that exist,
   and its accepted version is set exactly while its last decision accepts its newest
   evidence; and of the case: how its status bounds those of its defects, that every
   failure has its defect, and that coverage is complete from submission to the end
   or to the next return.
3. `ReviewAlwaysFinishes`, `ReleaseAlwaysEarned`, `AlwaysJudgedOnce` follow from 1 and
   2 by one lemma.
4. `ApproverAlwaysIndependent`, under `CleanSpelling`: normalising a name does not
   change whom it is compared equal to. `reviewer_independence` shows that the code
   needs this and does not ensure it.
5. `LifecycleKept`: `Spec => KeepsLifecycle`, the refinement of `CaseLifecycle`; each
   command maps to one step of the lifecycle or to none.
6. `HistoryKept`: `Spec => []HistorySound`. The integrity check that every load runs is
   not inductive either: it says nothing of the asset of a defect's test, which the
   cells of coverage and the rows of the tables rely on, nor of what stands beside an
   unlocked baseline, where assets may still arrive; and a report verifies only as long
   as nothing that it covers changes after it was frozen. `HistorySound` says that there
   is no test and no defect before the baseline is locked, that every asset, test and
   defect is valid beside the others, that the asset of a defect is the asset of its
   test, and, status by status, that report and certificate are there exactly when they
   should be and verify.
7. `AlwaysReloadable` (`Reloadable`) from 2, 6 and `ClockForward`, under
   `~ClockMayStepBack`: the one part of the integrity check that `HistorySound` does not
   give is that a case is not older than its creation. `clock_step_back` shows that the
   code needs this and does not ensure it.
8. `FailureAlwaysVisible` (`FailureStaysVisible`): by 2 every failure has its defect,
   and none is resolved before approval; by 6 that defect is of the asset whose cell
   shows it.
9. `HistoryAlwaysAppended`: `Spec => HistoryAppendOnly`, the action property, command by
   command.

### The detail tables

For any history, from `StoredSpec`, whose steps are those of `Spec` (`StoredCase`), so
that the invariants above hold here too.

1. `TablesAlwaysFollow`: `StoredSpec => []TablesFollow`: the tables are the rows of the
   case as it is, and no command was refused. The step needs that the rows of a sound
   case can be deleted in the order of `replaceDetails` and those of the next one
   inserted (`CaseStorable`): no two rows take one key (codes are distinct after
   normalisation, versions and sequences are positions), each reference has its row, and
   no row that blocks a deletion is left when its turn comes. All of it follows from
   `HistorySound`.
2. `EveryCommandAlwaysStored` (`EveryCommandStored`) is the second half of 1.
3. `ViewAlwaysValid` (`ViewValid`): the validator counts rows and looks them up by
   identifier, version and sequence. That the counts agree is shown by pairing the rows
   of a table with the positions they stand for; that each look-up finds the right row,
   by the columns each table has (`ColumnsOfCase`).

### The command service

For any requests, keys, spellings, processes and crashes.

1. `TypesAlwaysKept`: `Spec => []TypeOK`, together with `Carried`: a call past its load
   has a draft, of its own case and with its own effect at the end, and a call that
   waits for its answer finds its key recorded.
2. `Chaining`: `Spec => []ChainSound`, the invariant behind the optimistic commit. That
   chain and case agree is not inductive: a commit appends to both, but from values that
   were read in two earlier statements, by a process that others may have overtaken.
   What saves it is the version. `ChainSound` says of the rows that event `i` took the
   case from version `i - 1` to `i` and recorded its first `i` effects; and of a call
   between its load and its commit that the case still begins with what it loaded, and
   that the event it read is one of the chain, not older than that. Versions grow by one
   with each commit, so while the version loaded is still that of the case, the event
   read is the last one and nothing was missed (lemma `NothingMissed`).
3. `NoUpdateLost` (`ChainMatchesCase`) and `StoreAlwaysOpens` (`StoreOpens`, with the
   hashes of the chain) follow from 1 and 2.
4. `BaseAlwaysFresh` and `RetriesNeverConflict`, under `Alone`, that there is one
   process: a call past the mutex holds it, so no two calls past it are about one case,
   and what was loaded stays current until the commit.
5. `ExactlyOnceKept`: `Spec => KeepsExactlyOnce`, the refinement of `ExactlyOnce`. A
   commit maps to an abstract step in which the effect is appended and the answer
   recorded, an answer of success to one in which it is told, everything else to a
   stutter. It needs 1, `ChainMatchesCase`'s invariant (a draft that commits is the
   case with one effect more) and `NoEarlyAnswer`: a call that has not been answered
   has told its client nothing.

6. `AnswersAsked`: `Spec => []RecordedAsAsked`: an answer recorded under a key ends with
   the effect of a request that was sent under that key with the fingerprint recorded.
   It is inductive with 1 and 2, because only the first commit of a key writes.
7. `SuccessAlwaysApplied` (`SuccessMeansApplied`) from 6, under `TargetsTold`: two
   requests with one key and one fingerprint name one target. The fingerprint covers all
   of a command except the defect in its path; `key_reuse` shows that the code needs
   this and does not ensure it.

### The readers

For any number of cases, queries, limits and commits. All follow from `ReadersKept`,
`Spec => []ReadersSound`, whose three parts rest on one lemma about what a commit
beside them may do (`CommitSound`): no row disappears, no case gets older, and a certified
row stays as it is.

1. Of the rows: a certified row has its certificate and no other has one, and no two
   certificates have one number, which the unique column ensures.
2. Of a session: every entry shown is up to the cursor and every entry on the page
   behind it; a case is never older than the entry made of it, so that a case that moves
   can only move ahead of the cursor; a matching case that nobody changed was listed
   already, or is still to come; and each count taken is the
   size of a set that has every row, or every defect, of the matching cases nobody
   changed since, and beyond these none but of changed cases. `NeverTwice`, `NeverSkipped`
   and `FilterAlwaysMeansSummary` are read off it. `CountsAlwaysAgree` speaks of counts
   taken before, between and after any commits: it pairs the entries shown with the cases
   nobody changed (`CountBounds`), defect by defect, and bounds what the changed ones add.
3. Of a verification: the certificate the client fetched is still that of its case, and
   what a statement has read is so at the next one, because a certified row never
   changes. `GenuineAlwaysValid` and `ValidAlwaysGenuine` compare the checks of
   `VerifyCertificate` field by field, for digests of both versions of the program; the
   second also for digests that the client computed itself. That a digest determines
   what it was made of is part of the model (it is that value, wrapped).

### The server process

For any number of processes, handlers, tables, starts, commits and crashes: `LifeKept`,
`Spec => [](TypeOK /\ LifeSound)`. Between the statements of an opening other processes
and crashes change the file; `LifeSound` is what they leave alone. It says that a
process finds in its file the tables it has created and, past the version statements,
the current version; that a process that is opening its file alone finds the file as it
left it; and that handlers run only in service, none is left where the store is closed
without an error, and none was cut before a clean exit. The lemma behind it
(`OthersSound`) is that no step of another process takes a table away, sets the version to
anything but the current one, or mends a case that is not intact, and that no other
process is up on the file of an opening that is not marked as shared. `SchemaAlwaysCurrent`,
`AlwaysForCause` (`RefusedOnlyForCause`) and `CleanExitsAnswer` follow in one step each.

`NeverRefusedAlone` strikes out the last of the causes: if no clock steps back and the
store was intact at first, it is refused only where another process had it open, or for
its version. `clock_step_back` shows that the code needs this and does not ensure it: the
case it ends with is one that `Validate` refuses, so a process that was alone with its
store may leave it unable to start again.

### What is only model-checked

Liveness under fairness (`Answered`, `Settles`), which is beyond these provers, as are
statements with `ENABLED` and induction over data, that is, what a recursively defined
operator computes on every input. The properties of the runs that expect a violation are
refuted, not proved; those of `LoadThresholds` and `CaseRoutes` are questions about
particular numbers and texts, which TLC enumerates.

## 5. Not modelled, and the plan

Left out, with the reason:

* the decoding of bodies and query strings (`codec.go`, `collection.go`,
  `NormalizeCarriedCertificate`) and the mapping of errors to a status: they keep no
  state and order nothing, and are tables that unit tests cover well. `CaseRoutes` has
  only the answers that depend on the path;
* the venue filter of the work queue: one more condition on a row, on a column that no
  commit changes;
* `GetCase`, `GetTestCoverage`: one read of one row; what they show is a state of
  `InspectionCase` and its `CellStatus`. `GetAudit` reads the case and then its events
  and compares nothing between them; `StoreOpens` says that the events are a valid
  chain at every moment;
* the parsing of flags, the contents of the requests of the self-check, and the loss of
  a memory database with its last connection, which the pool of one connection without
  a lifetime does not drop by itself;
* JSON, SHA-256 and SQLite, which are taken as they are: JSON round-trips a case, equal
  digests mean equal contents, a transaction is atomic and survives a crash.

What the plan has left:

1. composing the theorems across modules: `CommandService` leaves open which rules refuse
   a command and `DetailTables` leaves open who runs beside it; a module in which the
   effects of `CommandService` are commands of `InspectionCase` would let
   `EveryCommandAlwaysStored` and `NoUpdateLost` be stated of one specification;
2. the safety half of the two liveness properties: that a call or a process that waits
   always has somebody to wait for, as an invariant without `ENABLED`.
