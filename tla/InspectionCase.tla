---------------------------- MODULE InspectionCase ----------------------------
(***************************************************************************)
(* The inspection-case aggregate of internal/domain, with the role and     *)
(* independence checks that internal/application/commands.go makes around  *)
(* each of its methods.  One case, one action per command; a command the   *)
(* code refuses changes nothing and is not a step.                         *)
(*                                                                         *)
(* Assets, tests and defects are never deleted or reordered by the code,   *)
(* so the random identifiers of the Go structs are replaced by positions   *)
(* in the three sequences, and an empty identifier by NoId.                *)
(***************************************************************************)
EXTENDS Integers, SequencesExt

CONSTANTS
  Actors,            \* the spellings of names that requests may carry
  NormalizeText,     \* domain.NormalizeText, on actors and evidence contents
  FoldName,          \* what strings.EqualFold identifies, after TrimSpace
  RawCodes,          \* the spellings of asset codes that requests may carry
  NormalizeCode,     \* strings.ToUpper of NormalizeText, on those spellings
  Loads,             \* rated loads that requests may carry
  TestKinds,         \* the required kinds (four in the code)
  Contents,          \* texts of remediation evidence
  ObservedSeverities, \* severities that observers report (all three in the code)
  Instants,          \* readings of the clock
  ClockMayStepBack,  \* whether time.Now().UTC() may run backwards
  MaxBatch,          \* assets in one batch (100 in the code)
  MaxVersion, MaxAssets, MaxTests, MaxDefects, MaxEvidence,  \* bounds
  Nil                \* a nil pointer

Names == {NormalizeText[a] : a \in Actors}       \* as the case stores them
Evidence == {NormalizeText[e] : e \in Contents}
Codes == {NormalizeCode[c] : c \in RawCodes}

ASSUME SpellingAssumption ==
  /\ DOMAIN NormalizeText = Actors \union Contents
  /\ Actors \union Names \subseteq DOMAIN FoldName
  /\ DOMAIN NormalizeCode = RawCodes

ASSUME NumberAssumption ==
  /\ Loads \subseteq Int
  /\ Instants \subseteq Nat
  /\ ClockMayStepBack \in BOOLEAN
  /\ MaxBatch \in Nat \ {0}
  /\ {MaxVersion, MaxAssets, MaxTests, MaxDefects, MaxEvidence} \subseteq Nat

ASSUME KindAssumption ==
  /\ TestKinds \subseteq {"static_load", "dynamic_load", "brake_distance", "limit_trigger"}
  /\ ObservedSeverities \subseteq {"minor", "major", "critical"}

VARIABLES
  status, version, createdAt, updatedAt,
  assets, tests, defects, review, report, certificate

vars == <<status, version, createdAt, updatedAt,
          assets, tests, defects, review, report, certificate>>

Statuses == {"draft", "baseline_preparation", "testing", "pending_review",
             "returned", "reviewed", "frozen", "certified"}
Severities == {"minor", "major", "critical"}
Readings == {"within", "outside"}   \* of the limit that the baseline sets
Results == {"pass", "fail"}
DefectStatuses == {"open", "remediated", "resolved"}
NoId == 0

AssetInputs == [code : RawCodes, ratedLoadKg : Loads, limitRequired : BOOLEAN]

-----------------------------------------------------------------------------
(* What a defect is born with *)

SeverityOf(kind) ==
  IF kind \in {"brake_distance", "limit_trigger"} THEN "critical" ELSE "major"

NewDefect(asset, source, severity) ==
  [asset |-> asset, source |-> source, severity |-> severity, status |-> "open",
   evidence |-> <<>>, decisions |-> <<>>, accepted |-> 0, resolvedAt |-> FALSE]

-----------------------------------------------------------------------------
(* Seeded faults.  No action uses these: each is a plausible mistake in the *)
(* definition that PROJECT.json pairs it with, kept to show that the        *)
(* property checked there would notice.                                     *)

OpenForWorkAfterApproval == status \in {"testing", "returned", "reviewed"}

SameSpelling(a, b) == a = b

RecordedByAsSent(actor) == actor

RetestAllowedTwice(asset, kind, original) ==
  \/ original = NoId
  \/ /\ original \in 1..Len(tests)
     /\ tests[original].asset = asset
     /\ tests[original].kind = kind
     /\ tests[original].result = "fail"

TestsReplacing(record) ==
  IF record.retestOf = NoId THEN Append(tests, record)
  ELSE [tests EXCEPT ![record.retestOf] = record]

DefectsClosedByRetest(record) ==
  IF record.result = "fail"
    THEN Append(defects, NewDefect(record.asset, Len(tests) + 1, SeverityOf(record.kind)))
    ELSE [d \in DOMAIN defects |->
            IF defects[d].source # NoId /\ defects[d].source = record.retestOf
              THEN [defects[d] EXCEPT !.status = "resolved", !.resolvedAt = TRUE]
              ELSE defects[d]]

CoverageOfOneKind ==
  /\ assets # <<>>
  /\ \A a \in 1..Len(assets) : \E t \in 1..Len(tests) : tests[t].asset = a

DefectHasEvidence(d) == d.status # "open" /\ d.evidence # <<>>

DefectRemediated(d) == d.status = "remediated" /\ d.evidence # <<>>

CodesFreeAsSpelled(batch) ==
  \A i \in 1..Len(batch) :
    /\ \A j \in 1..Len(batch) : batch[i].code = batch[j].code => i = j
    /\ \A a \in 1..Len(assets) : assets[a].code # NormalizeCode[batch[i].code]

-----------------------------------------------------------------------------
(* Pieces of the handlers *)

\* advance: every accepted command raises the version and stamps the clock.
Advance(now) ==
  /\ version < MaxVersion
  /\ ClockMayStepBack \/ updatedAt <= now
  /\ version' = version + 1
  /\ updatedAt' = now
  /\ createdAt' = createdAt

EnsureMutable == status \notin {"frozen", "certified"}

\* The guard that recording, observing, remediating and submitting share.
OpenForWork == status \in {"testing", "returned"}

\* strings.EqualFold of two trimmed names.
SameName(a, b) == FoldName[a] = FoldName[b]

\* ensureIndependent: the reviewer recorded none of the tests so far.
EnsureIndependent(actor) ==
  \A t \in 1..Len(tests) : ~SameName(tests[t].recordedBy, actor)

\* How a new record spells the person who took the reading.
RecordedBy(actor) == NormalizeText[actor]

\* evaluateTest: only the limit-switch test can pass whatever is read.
EvaluateTest(asset, kind, reading) ==
  IF reading = "outside" /\ (kind = "limit_trigger" => asset.limitRequired)
    THEN "fail" ELSE "pass"

Superseded(t) == \E u \in 1..Len(tests) : tests[u].retestOf = t

\* A retest names a failed record of the same asset and kind, without a retest.
RetestAllowed(asset, kind, original) ==
  \/ original = NoId
  \/ /\ original \in 1..Len(tests)
     /\ tests[original].asset = asset
     /\ tests[original].kind = kind
     /\ tests[original].result = "fail"
     /\ ~Superseded(original)

TestsWith(record) == Append(tests, record)

\* A failing record brings its defect with it; a passing one touches none.
DefectsWith(record) ==
  IF record.result = "fail"
    THEN Append(defects, NewDefect(record.asset, Len(tests) + 1, SeverityOf(record.kind)))
    ELSE defects

\* validateTestCoverage: every asset has a record, good or bad, of every kind.
CoverageComplete ==
  /\ assets # <<>>
  /\ \A a \in 1..Len(assets), k \in TestKinds :
       \E t \in 1..Len(tests) : tests[t].asset = a /\ tests[t].kind = k

\* The newest evidence of a defect has been decided, one way or the other.
DecidedLatest(d) == d.decisions # <<>> /\ Last(d.decisions).version = Len(d.evidence)

\* SubmitForReview on one defect: evidence, and newer than the last rejection.
DefectSubmittable(d) ==
  /\ d.status # "open" /\ d.evidence # <<>>
  /\ ~(DecidedLatest(d) /\ ~Last(d.decisions).accepted)

\* ReviewDefect on one defect: evidence that has not been decided yet.
Judgeable(d) == d.status = "remediated" /\ d.evidence # <<>> /\ ~DecidedLatest(d)

\* ApproveReview on one defect: the newest evidence is the accepted one.
DefectApproved(d) ==
  d.status = "remediated" /\ d.evidence # <<>> /\ d.accepted = Len(d.evidence)

\* FreezeReport's document: the case as it stands, hashed as one string.
Document == [assets |-> assets, tests |-> tests, defects |-> defects, review |-> review]

Digest(x) == [sha256 |-> x]

VerifyReport(r) == r # Nil /\ r.digest = Digest(r.content)

CertificateDigest(reportDigest, issuedAt) ==
  Digest([reportDigest |-> reportDigest, issuedAt |-> issuedAt])

VerifyCertificate(c) ==
  c # Nil /\ c.verificationDigest = CertificateDigest(c.reportDigest, c.issuedAt)

Decision(actor, approved) == [reviewer |-> NormalizeText[actor], approved |-> approved]

-----------------------------------------------------------------------------
(* Commands *)

\* NewInspectionCase
Init ==
  /\ status = "draft"
  /\ version = 1
  /\ createdAt \in Instants
  /\ updatedAt = createdAt
  /\ assets = <<>> /\ tests = <<>> /\ defects = <<>>
  /\ review = Nil /\ report = Nil /\ certificate = Nil

PrepareBaseline(now) ==
  /\ status = "draft"
  /\ status' = "baseline_preparation"
  /\ Advance(now)
  /\ UNCHANGED <<assets, tests, defects, review, report, certificate>>

\* No code of the batch, once normalised, occurs twice or is already taken.
CodesFree(batch) ==
  \A i \in 1..Len(batch) :
    /\ \A j \in 1..Len(batch) :
         NormalizeCode[batch[i].code] = NormalizeCode[batch[j].code] => i = j
    /\ \A a \in 1..Len(assets) : assets[a].code # NormalizeCode[batch[i].code]

\* All of the batch or none of it; AddAsset is a batch of one.
AddAssetsBatch(batch, now) ==
  /\ EnsureMutable
  /\ status = "baseline_preparation"
  /\ Len(batch) \in 1..MaxBatch
  /\ Len(assets) + Len(batch) <= MaxAssets
  /\ \A i \in 1..Len(batch) : batch[i].ratedLoadKg > 0
  /\ CodesFree(batch)
  /\ assets' = assets \o [i \in 1..Len(batch) |->
       [code |-> NormalizeCode[batch[i].code], ratedLoadKg |-> batch[i].ratedLoadKg,
        limitRequired |-> batch[i].limitRequired, locked |-> FALSE]]
  /\ Advance(now)
  /\ UNCHANGED <<status, tests, defects, review, report, certificate>>

LockBaseline(now) ==
  /\ status = "baseline_preparation"
  /\ assets # <<>>
  /\ \A a \in 1..Len(assets) : assets[a].ratedLoadKg > 0
  /\ assets' = [a \in 1..Len(assets) |-> [assets[a] EXCEPT !.locked = TRUE]]
  /\ status' = "testing"
  /\ Advance(now)
  /\ UNCHANGED <<tests, defects, review, report, certificate>>

RecordTest(actor, asset, kind, reading, retestOf, now) ==
  /\ EnsureMutable
  /\ OpenForWork
  /\ RetestAllowed(asset, kind, retestOf)
  /\ Len(tests) < MaxTests
  /\ LET record == [asset |-> asset, kind |-> kind,
                    result |-> EvaluateTest(assets[asset], kind, reading),
                    recordedBy |-> RecordedBy(actor), retestOf |-> retestOf]
     IN /\ record.result = "fail" => Len(defects) < MaxDefects
        /\ tests' = TestsWith(record)
        /\ defects' = DefectsWith(record)
  /\ Advance(now)
  /\ UNCHANGED <<status, assets, review, report, certificate>>

AddObservedDefect(asset, severity, now) ==
  /\ EnsureMutable
  /\ OpenForWork
  /\ Len(defects) < MaxDefects
  /\ defects' = Append(defects, NewDefect(asset, NoId, severity))
  /\ Advance(now)
  /\ UNCHANGED <<status, assets, tests, review, report, certificate>>

\* RemediateDefectBy: evidence that says the same as the last is refused.
RemediateDefect(d, content, now) ==
  /\ EnsureMutable
  /\ OpenForWork
  /\ defects[d].status # "resolved"
  /\ Len(defects[d].evidence) < MaxEvidence
  /\ defects[d].evidence # <<>> =>
       Last(defects[d].evidence) # NormalizeText[content]
  /\ defects' = [defects EXCEPT
       ![d].evidence = Append(@, NormalizeText[content]),
       ![d].status = "remediated",
       ![d].accepted = 0]
  /\ Advance(now)
  /\ UNCHANGED <<status, assets, tests, review, report, certificate>>

SubmitForReview(now) ==
  /\ OpenForWork
  /\ CoverageComplete
  /\ \A d \in 1..Len(defects) : DefectSubmittable(defects[d])
  /\ status' = "pending_review"
  /\ review' = Nil
  /\ Advance(now)
  /\ UNCHANGED <<assets, tests, defects, report, certificate>>

ReturnReview(actor, now) ==
  /\ EnsureIndependent(actor)
  /\ status = "pending_review"
  /\ status' = "returned"
  /\ review' = Decision(actor, FALSE)
  /\ Advance(now)
  /\ UNCHANGED <<assets, tests, defects, report, certificate>>

\* ReviewDefect: a rejection also returns the whole case.
ReviewDefect(actor, d, accepted, now) ==
  /\ EnsureIndependent(actor)
  /\ status = "pending_review"
  /\ Judgeable(defects[d])
  /\ LET latest == Len(defects[d].evidence)
         decision == [version |-> latest, reviewer |-> NormalizeText[actor],
                      accepted |-> accepted]
     IN defects' = [defects EXCEPT
          ![d].decisions = Append(@, decision),
          ![d].accepted = IF accepted THEN latest ELSE 0]
  /\ status' = IF accepted THEN status ELSE "returned"
  /\ review' = IF accepted THEN review ELSE Decision(actor, FALSE)
  /\ Advance(now)
  /\ UNCHANGED <<assets, tests, report, certificate>>

ApproveReview(actor, now) ==
  /\ EnsureIndependent(actor)
  /\ status = "pending_review"
  /\ \A d \in 1..Len(defects) : DefectApproved(defects[d])
  /\ defects' = [d \in 1..Len(defects) |->
       [defects[d] EXCEPT !.status = "resolved", !.resolvedAt = TRUE]]
  /\ status' = "reviewed"
  /\ review' = Decision(actor, TRUE)
  /\ Advance(now)
  /\ UNCHANGED <<assets, tests, report, certificate>>

\* Freezing and issuing ask for the reviewer's role, not for independence.
FreezeReport(actor, now) ==
  /\ status = "reviewed" /\ review # Nil /\ review.approved
  /\ report' = [content |-> Document, digest |-> Digest(Document),
                frozenBy |-> NormalizeText[actor], version |-> version + 1]
  /\ status' = "frozen"
  /\ Advance(now)
  /\ UNCHANGED <<assets, tests, defects, review, certificate>>

IssueCertificate(actor, now) ==
  /\ status = "frozen" /\ report # Nil
  /\ certificate = Nil
  /\ VerifyReport(report)
  /\ certificate' = [reportDigest |-> report.digest, issuedBy |-> NormalizeText[actor],
                     issuedAt |-> now,
                     verificationDigest |-> CertificateDigest(report.digest, now)]
  /\ status' = "certified"
  /\ Advance(now)
  /\ UNCHANGED <<assets, tests, defects, review, report>>

PrepareStep(now) ==
  \/ PrepareBaseline(now)
  \/ \E batch \in BoundedSeq(AssetInputs, MaxBatch) : AddAssetsBatch(batch, now)
  \/ LockBaseline(now)

WorkStep(now) ==
  \/ \E actor \in Actors, asset \in 1..Len(assets), kind \in TestKinds,
        reading \in Readings, retestOf \in {NoId} \union 1..Len(tests) :
          RecordTest(actor, asset, kind, reading, retestOf, now)
  \/ \E asset \in 1..Len(assets), severity \in ObservedSeverities :
          AddObservedDefect(asset, severity, now)
  \/ \E d \in 1..Len(defects), content \in Contents : RemediateDefect(d, content, now)

ReviewStep(now) ==
  \/ SubmitForReview(now)
  \/ \E actor \in Actors : ReturnReview(actor, now)
  \/ \E actor \in Actors, d \in 1..Len(defects), accepted \in BOOLEAN :
          ReviewDefect(actor, d, accepted, now)
  \/ \E actor \in Actors : ApproveReview(actor, now)

ReleaseStep(now) ==
  \E actor \in Actors : FreezeReport(actor, now) \/ IssueCertificate(actor, now)

Next ==
  \E now \in Instants :
    PrepareStep(now) \/ WorkStep(now) \/ ReviewStep(now) \/ ReleaseStep(now)

Spec == Init /\ [][Next]_vars

-----------------------------------------------------------------------------
(* What the code itself computes about a case *)

\* One cell of TestCoverage: unresolved defects outrank the newest result.
Attempts(asset, kind) ==
  {t \in 1..Len(tests) : tests[t].asset = asset /\ tests[t].kind = kind}

BlockingDefects(asset, kind) ==
  {d \in 1..Len(defects) :
     /\ defects[d].asset = asset /\ defects[d].status # "resolved"
     /\ defects[d].source # NoId /\ tests[defects[d].source].kind = kind}

CellStatus(asset, kind) ==
  IF BlockingDefects(asset, kind) # {} THEN "awaiting_defect_resolution"
  ELSE IF Attempts(asset, kind) = {} THEN "not_tested"
  ELSE IF tests[Max(Attempts(asset, kind))].result = "pass"
    THEN "latest_pass" ELSE "latest_fail"

\* ValidateIntegrity, on every load of a case and on every opening of the store.
AssetsValid ==
  \A a \in 1..Len(assets) :
    /\ assets[a].ratedLoadKg > 0
    /\ \A b \in 1..Len(assets) : assets[a].code = assets[b].code => a = b

TestsValid ==
  \A t \in 1..Len(tests) :
    /\ tests[t].asset \in 1..Len(assets)
    /\ tests[t].retestOf # NoId =>
         /\ tests[t].retestOf \in 1..Len(tests)
         /\ LET original == tests[tests[t].retestOf]
            IN /\ original.result = "fail"
               /\ original.asset = tests[t].asset /\ original.kind = tests[t].kind
         /\ \A u \in 1..Len(tests) : tests[u].retestOf = tests[t].retestOf => u = t

DefectValid(d) ==
  /\ d.asset \in 1..Len(assets)
  /\ d.source \in {NoId} \union 1..Len(tests)
  /\ d.status = "resolved" => d.resolvedAt
  /\ \A i \in 1..Len(d.decisions) : d.decisions[i].version \in 1..Len(d.evidence)
  /\ d.accepted \in 0..Len(d.evidence)
  /\ d.status = "resolved" /\ d.evidence # <<>> => d.accepted = Len(d.evidence)

StageValid ==
  /\ status \notin {"draft", "baseline_preparation"} =>
       assets # <<>> /\ \A a \in 1..Len(assets) : assets[a].locked
  /\ status \in {"reviewed", "frozen", "certified"} => review # Nil /\ review.approved
  /\ IF status \in {"frozen", "certified"} THEN VerifyReport(report) ELSE report = Nil
  /\ IF status = "certified"
       THEN VerifyCertificate(certificate) /\ certificate.reportDigest = report.digest
       ELSE certificate = Nil

ValidateIntegrity ==
  /\ createdAt <= updatedAt
  /\ AssetsValid /\ TestsValid /\ StageValid
  /\ \A d \in 1..Len(defects) : DefectValid(defects[d])

-----------------------------------------------------------------------------
(* Properties *)

Asset == [code : Codes, ratedLoadKg : Int, limitRequired : BOOLEAN, locked : BOOLEAN]
Test == [asset : Nat, kind : TestKinds, result : Results, recordedBy : Names, retestOf : Nat]
ItemDecision == [version : Nat, reviewer : Names, accepted : BOOLEAN]
Defect == [asset : Nat, source : Nat, severity : Severities, status : DefectStatuses,
           evidence : Seq(Evidence), decisions : Seq(ItemDecision),
           accepted : Nat, resolvedAt : BOOLEAN]
ReviewDecision == [reviewer : Names, approved : BOOLEAN]
Documents == [assets : Seq(Asset), tests : Seq(Test), defects : Seq(Defect),
              review : {Nil} \union ReviewDecision]
FrozenReport == [content : Documents, digest : [sha256 : Documents],
                 frozenBy : Names, version : Nat]
Certificate == [reportDigest : [sha256 : Documents], issuedBy : Names, issuedAt : Instants,
                verificationDigest :
                  [sha256 : [reportDigest : [sha256 : Documents], issuedAt : Instants]]]

ASSUME NilAssumption == Nil \notin ReviewDecision \union FrozenReport \union Certificate

\* Every field has its type; names and evidence are stored normalised, which
\* the comparisons of ensureIndependent and RemediateDefectBy rely on.
TypeOK ==
  /\ status \in Statuses
  /\ version \in Nat
  /\ createdAt \in Instants /\ updatedAt \in Instants
  /\ assets \in Seq(Asset) /\ tests \in Seq(Test) /\ defects \in Seq(Defect)
  /\ review \in {Nil} \union ReviewDecision
  /\ report \in {Nil} \union FrozenReport
  /\ certificate \in {Nil} \union Certificate

\* Whatever commands have been accepted, the case they leave passes the check
\* that LoadCase and Open make: no legal history locks a case away for good.
Reloadable == ValidateIntegrity

\* A case under review can always be decided: no defect sits there rejected
\* on its newest evidence, which could be neither judged again nor approved.
ReviewCanFinish ==
  status = "pending_review" =>
    \A d \in 1..Len(defects) :
      /\ defects[d].status = "remediated" /\ defects[d].evidence # <<>>
      /\ DecidedLatest(defects[d]) => defects[d].accepted = Len(defects[d].evidence)

\* Once approved, and whatever route review took: every asset has a test of
\* every kind, every failed test has its own defect, and the last word on
\* each defect is an acceptance of the newest evidence.
ReleaseEarned ==
  status \in {"reviewed", "frozen", "certified"} =>
    /\ \A a \in 1..Len(assets), k \in TestKinds : Attempts(a, k) # {}
    /\ \A t \in 1..Len(tests) : tests[t].result = "fail" =>
         \E d \in 1..Len(defects) : defects[d].source = t
    /\ \A d \in 1..Len(defects) :
         /\ defects[d].status = "resolved" /\ defects[d].evidence # <<>>
         /\ DecidedLatest(defects[d]) /\ Last(defects[d].decisions).accepted

\* A piece of evidence is judged at most once, through any number of returns.
JudgedOnce ==
  \A d \in 1..Len(defects) :
    \A i, j \in 1..Len(defects[d].decisions) :
      i < j => defects[d].decisions[i].version < defects[d].decisions[j].version

\* The reviewer who approved the case recorded none of its tests, at approval
\* or at any time after, under any spelling that EqualFold identifies.
ApproverIndependent ==
  review # Nil /\ review.approved =>
    \A t \in 1..Len(tests) : FoldName[tests[t].recordedBy] # FoldName[review.reviewer]

\* Until approval the coverage matrix shows every failed test as unfinished
\* business of its asset and kind, however many passing retests follow it.
FailureStaysVisible ==
  status \notin {"reviewed", "frozen", "certified"} =>
    \A t \in 1..Len(tests) : tests[t].result = "fail" =>
      CellStatus(tests[t].asset, tests[t].kind) = "awaiting_defect_resolution"

\* Measurements, evidence and decisions are only ever appended, and a defect
\* keeps the asset, the test and the severity it was raised with.
HistoryAppendOnly ==
  [][/\ IsPrefix(tests, tests')
     /\ Len(defects) <= Len(defects')
     /\ \A d \in 1..Len(defects) :
          /\ <<defects[d].asset, defects[d].source, defects[d].severity>> =
               <<defects'[d].asset, defects'[d].source, defects'[d].severity>>
          /\ IsPrefix(defects[d].evidence, defects'[d].evidence)
          /\ IsPrefix(defects[d].decisions, defects'[d].decisions)]_vars

\* The case as CaseLifecycle sees it.
Phase ==
  CASE status = "pending_review" -> "under_review"
    [] status = "reviewed" -> "approved"
    [] status = "frozen" -> "sealed"
    [] status = "certified" -> "released"
    [] OTHER -> "open"

Measured(ts) == [t \in 1..Len(ts) |-> ts[t].result]
Settled(ds) == [d \in 1..Len(ds) |-> ds[d].status = "resolved"]
SealOf(document) ==
  [measured |-> Measured(document.tests), findings |-> Settled(document.defects)]

Lifecycle == INSTANCE CaseLifecycle WITH
  Nothing <- Nil,
  phase <- Phase,
  measured <- Measured(tests),
  findings <- Settled(defects),
  seal <- IF report = Nil THEN Nil ELSE SealOf(report.content),
  certificate <- IF certificate = Nil THEN Nil ELSE SealOf(certificate.reportDigest.sha256)

\* The detailed case keeps the promises of CaseLifecycle: what the certificate
\* names is what was approved, and nothing measured was lost on the way.
KeepsLifecycle == Lifecycle!Spec

-----------------------------------------------------------------------------
(* What the documentation says and the code does not do *)

\* README.md:51: the independent reviewer cannot be one of the people who
\* recorded the case's tests.  The code keeps that of none of its reviewers:
\* three different people may accept the evidence, approve the case and seal
\* the report, and each of them have recorded a test of it.
Acceptors ==
  {Last(defects[d].decisions).reviewer :
     d \in {e \in 1..Len(defects) : defects[e].decisions # <<>>}}

Recorded(name) == \E t \in 1..Len(tests) : FoldName[tests[t].recordedBy] = FoldName[name]

SomeoneIndependent ==
  status \in {"frozen", "certified"} =>
    \A acceptor \in Acceptors :
      IsInjective(<<acceptor, review.reviewer, report.frozenBy>>) =>
        \E name \in {acceptor, review.reviewer, report.frozenBy} : ~Recorded(name)
=============================================================================
