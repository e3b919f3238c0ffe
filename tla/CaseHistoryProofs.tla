--------------------------- MODULE CaseHistoryProofs ---------------------------
(***************************************************************************)
(* Theorems about the history of a case: it is only ever appended to, what *)
(* it leaves passes the integrity check of every later load, and a failed  *)
(* test shows in the coverage matrix until the case is approved.           *)
(***************************************************************************)
EXTENDS InspectionCaseProofs

Early == {"draft", "baseline_preparation"}

-----------------------------------------------------------------------------
(* The inductive invariant *)

\* No test or defect before the baseline is locked: the positions that name
\* assets are never moved by a batch that arrives later.
NothingYet == status \in Early => tests = <<>> /\ defects = <<>>

\* A defect names an asset and a test that exist, and its test is of its asset;
\* the resolution is stamped.
DefectPlaced(d) ==
  /\ d.asset \in 1..Len(assets)
  /\ d.source \in {NoId} \union 1..Len(tests)
  /\ d.source # NoId => tests[d.source].asset = d.asset
  /\ d.status = "resolved" => d.resolvedAt

DefectsPlaced == \A d \in 1..Len(defects) : DefectPlaced(defects[d])

HistorySound == NothingYet /\ AssetsValid /\ TestsValid /\ DefectsPlaced /\ StageValid

\* What a case past its baseline carries along unchanged until approval.
LEMMA StageCarried ==
  ASSUME StageValid, status \notin Early \union Approved, status' \notin Approved,
         UNCHANGED <<assets, report, certificate>>
  PROVE  StageValid'
<1>1. assets' # <<>> /\ \A a \in 1..Len(assets') : assets'[a].locked
  BY DEF StageValid, Early
<1>2. report' = Nil /\ certificate' = Nil
  BY DEF StageValid, Approved
<1> QED BY <1>1, <1>2 DEF StageValid, Approved

\* A case past its baseline stays past it.
LEMMA NothingLater ==
  ASSUME status' \notin Early
  PROVE  NothingYet'
  BY DEF NothingYet, Early

\* Untouched records stay valid.
LEMMA RecordsCarried ==
  ASSUME UNCHANGED <<assets, tests>>
  PROVE  (AssetsValid => AssetsValid') /\ (TestsValid => TestsValid')
  BY DEF AssetsValid, TestsValid

\* A record of either kind is found where it was after one is added.
LEMMA DefectsPlacedAs ==
  ASSUME \A d \in 1..Len(defects') :
           /\ defects'[d].asset \in 1..Len(assets')
           /\ defects'[d].source \in {NoId} \union 1..Len(tests')
           /\ defects'[d].source # NoId => tests'[defects'[d].source].asset = defects'[d].asset
           /\ defects'[d].status = "resolved" => defects'[d].resolvedAt
  PROVE  DefectsPlaced'
  BY DEF DefectsPlaced, DefectPlaced

\* Nothing but the stage of the case changes.
LEMMA DefectsCarried ==
  ASSUME DefectsPlaced, UNCHANGED <<assets, tests, defects>>
  PROVE  DefectsPlaced'
  BY DefectsPlacedAs DEF DefectsPlaced, DefectPlaced

-----------------------------------------------------------------------------
(* Each command keeps the history sound *)

\* A batch is valid in itself and beside the assets that are there.
LEMMA BatchKept ==
  ASSUME TypeOK, AssetsValid, NEW now \in Instants,
         NEW batch \in BoundedSeq(AssetInputs, MaxBatch), AddAssetsBatch(batch, now)
  PROVE  AssetsValid'
<1> DEFINE added == [i \in 1..Len(batch) |->
      [code |-> NormalizeCode[batch[i].code], ratedLoadKg |-> batch[i].ratedLoadKg,
       limitRequired |-> batch[i].limitRequired, locked |-> FALSE]]
<1>1. batch \in Seq(AssetInputs)
  BY FunctionIsSeq, NumberAssumption DEF BoundedSeq, SeqOf
<1>2. /\ Len(batch) \in Nat /\ Len(assets) \in Nat /\ assets \in Seq(Asset)
      /\ \A i \in 1..Len(batch) : batch[i] \in AssetInputs
  BY <1>1, SeqElement DEF TypeOK
<1>3. /\ assets' = assets \o added /\ CodesFree(batch)
      /\ \A i \in 1..Len(batch) : batch[i].ratedLoadKg > 0
  BY DEF AddAssetsBatch
<1>4. \A i \in 1..Len(batch) : added[i] \in Asset
  BY <1>2, NumberAssumption DEF AssetInputs, Asset, Codes
<1>5. added \in Seq(Asset) /\ Len(added) = Len(batch)
  BY <1>2, <1>4, FunctionIsSeq
<1>6. \A i \in 1..Len(batch) :
        /\ added[i].code = NormalizeCode[batch[i].code]
        /\ added[i].ratedLoadKg = batch[i].ratedLoadKg
  OBVIOUS
<1> HIDE DEF added
<1>7. /\ Len(assets') = Len(assets) + Len(batch)
      /\ \A a \in 1..Len(assets') :
           assets'[a] = IF a <= Len(assets) THEN assets[a] ELSE added[a - Len(assets)]
  <2>1. added \in Seq(Asset) /\ assets \in Seq(Asset) /\ assets' = assets \o added
    BY <1>2, <1>3, <1>5
  <2>2. /\ Len(assets \o added) = Len(assets) + Len(added)
        /\ \A a \in 1..Len(assets) + Len(added) : (assets \o added)[a] =
             IF a <= Len(assets) THEN assets[a] ELSE added[a - Len(assets)]
    BY <2>1, ConcatProperties
  <2> QED BY <1>5, <2>1, <2>2
<1>8. ASSUME NEW a \in 1..Len(assets')
      PROVE  assets'[a].ratedLoadKg > 0
  <2>1. CASE a <= Len(assets)
    <3>1. a \in 1..Len(assets)
      BY <1>2, <2>1, <1>7
    <3> QED BY <1>7, <2>1, <3>1 DEF AssetsValid
  <2>2. CASE ~(a <= Len(assets))
    <3>1. a - Len(assets) \in 1..Len(batch)
      BY <1>2, <1>7, <2>2
    <3> QED BY <1>3, <1>6, <1>7, <2>2, <3>1
  <2> QED BY <2>1, <2>2
<1>9. ASSUME NEW a \in 1..Len(assets'), NEW b \in 1..Len(assets'),
             assets'[a].code = assets'[b].code
      PROVE  a = b
  <2>1. CASE a <= Len(assets) /\ b <= Len(assets)
    <3>1. a \in 1..Len(assets) /\ b \in 1..Len(assets)
      BY <1>2, <2>1, <1>7
    <3> QED BY <1>7, <1>9, <2>1, <3>1 DEF AssetsValid
  <2>2. CASE ~(a <= Len(assets)) /\ ~(b <= Len(assets))
    <3>1. a - Len(assets) \in 1..Len(batch) /\ b - Len(assets) \in 1..Len(batch)
      BY <1>2, <1>7, <2>2
    <3>2. NormalizeCode[batch[a - Len(assets)].code] = NormalizeCode[batch[b - Len(assets)].code]
      BY <1>6, <1>7, <1>9, <2>2, <3>1
    <3>3. a - Len(assets) = b - Len(assets)
      BY <1>3, <3>1, <3>2 DEF CodesFree
    <3> QED BY <1>2, <3>3
  <2>3. ASSUME NEW x \in 1..Len(assets), NEW y \in 1..Len(assets'), ~(y <= Len(assets))
        PROVE  assets'[x].code # assets'[y].code
    <3>1. x \in 1..Len(assets') /\ x <= Len(assets) /\ y - Len(assets) \in 1..Len(batch)
      BY <1>2, <1>7, <2>3
    <3>2. assets[x].code # NormalizeCode[batch[y - Len(assets)].code]
      BY <1>3, <3>1 DEF CodesFree
    <3> QED BY <1>6, <1>7, <2>3, <3>1, <3>2
  <2>4. CASE a <= Len(assets) /\ ~(b <= Len(assets))
    <3>1. a \in 1..Len(assets)
      BY <1>2, <2>4, <1>7
    <3> QED BY <1>9, <2>3, <2>4, <3>1
  <2>5. CASE ~(a <= Len(assets)) /\ b <= Len(assets)
    <3>1. b \in 1..Len(assets)
      BY <1>2, <2>5, <1>7
    <3> QED BY <1>9, <2>3, <2>5, <3>1
  <2> QED BY <2>1, <2>2, <2>4, <2>5
<1> QED BY <1>8, <1>9 DEF AssetsValid

\* The commands on the baseline find no test or defect to disturb, and locking
\* the baseline leaves every code and load as it is.
LEMMA BaselineKept ==
  ASSUME TypeOK, HistorySound, NEW now \in Instants, PrepareStep(now)
  PROVE  HistorySound'
<1>1. status \in Early /\ UNCHANGED <<tests, defects, report, certificate>>
  BY DEF PrepareStep, PrepareBaseline, AddAssetsBatch, LockBaseline, Early
<1>2. tests' = <<>> /\ defects' = <<>>
  BY <1>1 DEF HistorySound, NothingYet
<1>3. Len(tests') = 0 /\ Len(defects') = 0
  BY <1>2
<1>4. NothingYet' /\ TestsValid' /\ DefectsPlaced'
  BY <1>2, <1>3 DEF NothingYet, TestsValid, DefectsPlaced
<1>5. report' = Nil /\ certificate' = Nil
  BY <1>1 DEF HistorySound, StageValid, Early
<1>6. CASE PrepareBaseline(now)
  <2>1. status' = "baseline_preparation" /\ assets' = assets
    BY <1>6 DEF PrepareBaseline
  <2> QED BY <1>4, <1>5, <2>1 DEF HistorySound, AssetsValid, StageValid
<1>7. ASSUME NEW batch \in BoundedSeq(AssetInputs, MaxBatch), AddAssetsBatch(batch, now)
      PROVE  HistorySound'
  <2>1. status' = "baseline_preparation"
    BY <1>7 DEF AddAssetsBatch
  <2>2. AssetsValid'
    BY <1>7, BatchKept DEF HistorySound
  <2> QED BY <1>4, <1>5, <2>1, <2>2 DEF HistorySound, StageValid
<1>8. CASE LockBaseline(now)
  <2>1. /\ status' = "testing" /\ assets # <<>>
        /\ assets' = [a \in 1..Len(assets) |-> [assets[a] EXCEPT !.locked = TRUE]]
    BY <1>8 DEF LockBaseline
  <2>2. Len(assets) \in Nat /\ Len(assets) > 0 /\ \A a \in 1..Len(assets) : assets[a] \in Asset
    BY <2>1, SeqElement DEF TypeOK
  <2>3. Len(assets') = Len(assets)
    BY <2>1, <2>2
  <2>4. \A a \in 1..Len(assets) :
          /\ assets'[a].locked /\ assets'[a].code = assets[a].code
          /\ assets'[a].ratedLoadKg = assets[a].ratedLoadKg
    BY <2>1, <2>2 DEF Asset
  <2>5. AssetsValid'
    BY <2>3, <2>4 DEF HistorySound, AssetsValid
  <2>6. assets' # <<>>
    BY <2>2, <2>3
  <2>7. StageValid'
    BY <1>5, <2>1, <2>3, <2>4, <2>6 DEF StageValid
  <2> QED BY <1>4, <2>5, <2>7 DEF HistorySound
<1> QED BY <1>6, <1>7, <1>8 DEF PrepareStep

\* A record names an asset that exists and, if it is a retest, the failed
\* record it replaces; its defect names both.
LEMMA RecordingKept ==
  ASSUME TypeOK, HistorySound, NEW now \in Instants,
         NEW actor \in Actors, NEW asset \in 1..Len(assets), NEW kind \in TestKinds,
         NEW reading \in Readings, NEW retestOf \in {NoId} \union 1..Len(tests),
         RecordTest(actor, asset, kind, reading, retestOf, now)
  PROVE  HistorySound'
<1> DEFINE record == [asset |-> asset, kind |-> kind,
                      result |-> EvaluateTest(assets[asset], kind, reading),
                      recordedBy |-> RecordedBy(actor), retestOf |-> retestOf]
           filed == NewDefect(asset, Len(tests) + 1, SeverityOf(kind))
<1>1. /\ status \notin Early \union Approved /\ status' = status
      /\ UNCHANGED <<assets, report, certificate>>
      /\ RetestAllowed(asset, kind, retestOf)
      /\ tests' = Append(tests, record)
      /\ defects' = IF record.result = "fail" THEN Append(defects, filed) ELSE defects
  BY DEF RecordTest, OpenForWork, Approved, Early, TestsWith, DefectsWith
<1>2. record \in Test
  BY SeqElement DEF TypeOK, Test, EvaluateTest, Results, RecordedBy, Names, NoId
<1>3. /\ Len(tests) \in Nat /\ Len(tests') = Len(tests) + 1
      /\ \A t \in 1..Len(tests) : tests'[t] = tests[t] /\ tests[t] \in Test
      /\ tests'[Len(tests) + 1] = record
      /\ Len(defects) \in Nat
  BY <1>1, <1>2, SeqElement, AppendElement DEF TypeOK
<1>4. record.asset = asset /\ record.kind = kind /\ record.retestOf = retestOf
  OBVIOUS
<1>5. /\ filed \in Defect /\ filed.asset = asset /\ filed.source = Len(tests) + 1
      /\ filed.status = "open"
  <2>1. asset \in Nat /\ Len(tests) + 1 \in Nat /\ SeverityOf(kind) \in Severities
    BY <1>3, SeqElement DEF TypeOK, SeverityOf, Severities
  <2>2. filed.asset = asset /\ filed.source = Len(tests) + 1 /\ filed.status = "open"
    BY DEF NewDefect
  <2> HIDE DEF filed
  <2> QED BY <2>1, <2>2, NewDefectTyped DEF filed
<1> HIDE DEF record, filed
<1>6. TestsValid'
  <2>1. ASSUME NEW t \in 1..Len(tests)
        PROVE  /\ tests'[t].asset \in 1..Len(assets)
               /\ tests'[t].retestOf # NoId =>
                    /\ tests'[t].retestOf \in 1..Len(tests)
                    /\ tests'[tests'[t].retestOf].result = "fail"
                    /\ tests'[tests'[t].retestOf].asset = tests'[t].asset
                    /\ tests'[tests'[t].retestOf].kind = tests'[t].kind
                    /\ \A u \in 1..Len(tests) :
                         tests'[u].retestOf = tests'[t].retestOf => u = t
    BY <1>3 DEF HistorySound, TestsValid
  <2>2. retestOf # NoId =>
          /\ retestOf \in 1..Len(tests)
          /\ tests'[retestOf].result = "fail"
          /\ tests'[retestOf].asset = asset /\ tests'[retestOf].kind = kind
          /\ \A u \in 1..Len(tests) : tests'[u].retestOf # retestOf
    BY <1>1, <1>3 DEF RetestAllowed, Superseded
  <2>3. \A t \in 1..Len(tests') : t \in 1..Len(tests) \/ t = Len(tests) + 1
    BY <1>3
  <2>4. 1..Len(tests) \subseteq 1..Len(tests')
    BY <1>3
  <2>5. ASSUME NEW t \in 1..Len(tests), tests'[t].retestOf # NoId
        PROVE  \A u \in 1..Len(tests') : tests'[u].retestOf = tests'[t].retestOf => u = t
    BY <1>3, <1>4, <2>1, <2>2, <2>3, <2>5
  <2>6. retestOf # NoId =>
          \A u \in 1..Len(tests') : tests'[u].retestOf = retestOf => u = Len(tests) + 1
    BY <2>2, <2>3
  <2>7. ASSUME NEW t \in 1..Len(tests')
        PROVE  /\ tests'[t].asset \in 1..Len(assets')
               /\ tests'[t].retestOf # NoId =>
                    /\ tests'[t].retestOf \in 1..Len(tests')
                    /\ tests'[tests'[t].retestOf].result = "fail"
                    /\ tests'[tests'[t].retestOf].asset = tests'[t].asset
                    /\ tests'[tests'[t].retestOf].kind = tests'[t].kind
                    /\ \A u \in 1..Len(tests') :
                         tests'[u].retestOf = tests'[t].retestOf => u = t
    <3>1. CASE t \in 1..Len(tests)
      BY <1>1, <2>1, <2>4, <2>5, <3>1
    <3>2. CASE t = Len(tests) + 1
      BY <1>1, <1>3, <1>4, <2>2, <2>4, <2>6, <3>2
    <3> QED BY <2>3, <3>1, <3>2
  <2> QED BY <2>7 DEF TestsValid
<1>7. DefectsPlaced'
  <2>1. ASSUME NEW d \in 1..Len(defects)
        PROVE  /\ defects[d].asset \in 1..Len(assets')
               /\ defects[d].source \in {NoId} \union 1..Len(tests')
               /\ defects[d].source # NoId => tests'[defects[d].source].asset = defects[d].asset
               /\ defects[d].status = "resolved" => defects[d].resolvedAt
    BY <1>1, <1>3 DEF HistorySound, DefectsPlaced, DefectPlaced, NoId
  <2>2. CASE record.result # "fail"
    BY <1>1, <2>1, <2>2, DefectsPlacedAs
  <2>3. CASE record.result = "fail"
    <3>1. /\ Len(defects') = Len(defects) + 1
          /\ \A d \in 1..Len(defects) : defects'[d] = defects[d]
          /\ defects'[Len(defects) + 1] = filed
      BY <1>1, <1>5, <2>3, AppendElement DEF TypeOK
    <3>2. /\ filed.asset \in 1..Len(assets')
          /\ filed.source \in {NoId} \union 1..Len(tests')
          /\ tests'[filed.source].asset = filed.asset
          /\ filed.status # "resolved"
      BY <1>1, <1>3, <1>4, <1>5
    <3>3. \A d \in 1..Len(defects') : d \in 1..Len(defects) \/ d = Len(defects) + 1
      BY <1>3, <3>1
    <3> QED BY <2>1, <3>1, <3>2, <3>3, DefectsPlacedAs
  <2> QED BY <2>2, <2>3
<1>8. AssetsValid' /\ StageValid' /\ NothingYet'
  BY <1>1, StageCarried, NothingLater DEF HistorySound, AssetsValid, Approved
<1> QED BY <1>6, <1>7, <1>8 DEF HistorySound

\* An observed defect names its asset and no test.
LEMMA ObservationKept ==
  ASSUME TypeOK, HistorySound, NEW now \in Instants,
         NEW asset \in 1..Len(assets), NEW severity \in ObservedSeverities,
         AddObservedDefect(asset, severity, now)
  PROVE  HistorySound'
<1> DEFINE observed == NewDefect(asset, NoId, severity)
<1>1. /\ status \notin Early \union Approved /\ status' = status
      /\ UNCHANGED <<assets, tests, report, certificate>>
      /\ defects' = Append(defects, observed)
  BY DEF AddObservedDefect, OpenForWork, Approved, Early
<1>2. observed \in Defect /\ observed.asset = asset /\ observed.source = NoId
      /\ observed.status = "open"
  <2>1. asset \in Nat /\ NoId \in Nat /\ severity \in Severities
    BY KindAssumption, SeqElement DEF TypeOK, NoId, Severities
  <2>2. observed.asset = asset /\ observed.source = NoId /\ observed.status = "open"
    BY DEF NewDefect
  <2> HIDE DEF observed
  <2> QED BY <2>1, <2>2, NewDefectTyped DEF observed
<1> HIDE DEF observed
<1>3. /\ Len(defects) \in Nat /\ Len(defects') = Len(defects) + 1
      /\ \A d \in 1..Len(defects) : defects'[d] = defects[d]
      /\ defects'[Len(defects) + 1] = observed
  BY <1>1, <1>2, SeqElement, AppendElement DEF TypeOK
<1>4. DefectsPlaced'
  <2>1. \A d \in 1..Len(defects') : d \in 1..Len(defects) \/ d = Len(defects) + 1
    BY <1>3
  <2> QED BY <1>1, <1>2, <1>3, <2>1, DefectsPlacedAs DEF HistorySound, DefectsPlaced, DefectPlaced
<1>5. AssetsValid' /\ TestsValid' /\ StageValid' /\ NothingYet'
  BY <1>1, StageCarried, NothingLater, RecordsCarried DEF HistorySound, Approved
<1> QED BY <1>4, <1>5 DEF HistorySound

\* Evidence and decisions leave a defect where it is.
LEMMA OneDefectKept ==
  ASSUME TypeOK, HistorySound, NEW d \in 1..Len(defects), NEW e,
         defects' = [defects EXCEPT ![d] = e], UNCHANGED <<assets, tests>>,
         e.asset = defects[d].asset, e.source = defects[d].source, e.status = "remediated"
  PROVE  DefectsPlaced'
<1>1. /\ Len(defects') = Len(defects)
      /\ \A x \in 1..Len(defects) : defects'[x] = IF x = d THEN e ELSE defects[x]
  <2>1. defects \in Seq(Defect)
    BY DEF TypeOK
  <2> QED BY <2>1
<1> QED BY <1>1, DefectsPlacedAs DEF HistorySound, DefectsPlaced, DefectPlaced

LEMMA RemediatingKept ==
  ASSUME TypeOK, HistorySound, NEW now \in Instants,
         NEW d \in 1..Len(defects), NEW content \in Contents,
         RemediateDefect(d, content, now)
  PROVE  HistorySound'
<1> DEFINE e == [defects[d] EXCEPT !.evidence = Append(@, NormalizeText[content]),
                                   !.status = "remediated", !.accepted = 0]
<1>1. defects[d] \in Defect
  BY SeqElement DEF TypeOK
<1>2. /\ status \notin Early \union Approved /\ status' = status
      /\ UNCHANGED <<assets, tests, report, certificate>>
  BY DEF RemediateDefect, OpenForWork, Approved, Early
<1>3. defects' = [defects EXCEPT ![d] = e]
  BY <1>1 DEF RemediateDefect, Defect
<1>4. e.asset = defects[d].asset /\ e.source = defects[d].source /\ e.status = "remediated"
  BY <1>1 DEF Defect
<1> HIDE DEF e
<1>5. DefectsPlaced'
  BY <1>2, <1>3, <1>4, OneDefectKept
<1>6. AssetsValid' /\ TestsValid' /\ StageValid' /\ NothingYet'
  BY <1>2, StageCarried, NothingLater, RecordsCarried DEF HistorySound, Approved
<1> QED BY <1>5, <1>6 DEF HistorySound

LEMMA JudgingKept ==
  ASSUME TypeOK, HistorySound, NEW now \in Instants, NEW actor \in Actors,
         NEW d \in 1..Len(defects), NEW accepted \in BOOLEAN,
         ReviewDefect(actor, d, accepted, now)
  PROVE  HistorySound'
<1> DEFINE decision == [version |-> Len(defects[d].evidence),
                        reviewer |-> NormalizeText[actor], accepted |-> accepted]
           e == [defects[d] EXCEPT !.decisions = Append(@, decision),
                   !.accepted = IF accepted THEN Len(defects[d].evidence) ELSE 0]
<1>1. defects[d] \in Defect /\ defects[d].status = "remediated"
  BY SeqElement DEF TypeOK, ReviewDefect, Judgeable
<1>2. /\ status \notin Early \union Approved /\ status' \notin Early \union Approved
      /\ UNCHANGED <<assets, tests, report, certificate>>
  BY DEF ReviewDefect, Approved, Early
<1>3. defects' = [defects EXCEPT ![d] = e]
  BY <1>1 DEF ReviewDefect, Defect
<1>4. e.asset = defects[d].asset /\ e.source = defects[d].source /\ e.status = "remediated"
  BY <1>1 DEF Defect
<1> HIDE DEF e
<1>5. DefectsPlaced'
  BY <1>2, <1>3, <1>4, OneDefectKept
<1>6. AssetsValid' /\ TestsValid' /\ StageValid' /\ NothingYet'
  BY <1>2, StageCarried, NothingLater, RecordsCarried DEF HistorySound
<1> QED BY <1>5, <1>6 DEF HistorySound

\* Submission and return change the stage alone.
LEMMA StageChangeKept ==
  ASSUME TypeOK, HistorySound, NEW now \in Instants,
         SubmitForReview(now) \/ \E actor \in Actors : ReturnReview(actor, now)
  PROVE  HistorySound'
<1>1. /\ status \notin Early \union Approved /\ status' \notin Early \union Approved
      /\ UNCHANGED <<assets, tests, defects, report, certificate>>
  BY DEF SubmitForReview, ReturnReview, OpenForWork, Approved, Early
<1> QED BY <1>1, StageCarried, NothingLater, RecordsCarried, DefectsCarried DEF HistorySound

\* Approval stamps every resolution, and leaves its reviewer's name.
LEMMA ApprovalKept ==
  ASSUME TypeOK, HistorySound, NEW now \in Instants, NEW actor \in Actors,
         ApproveReview(actor, now)
  PROVE  HistorySound'
<1> DEFINE e(d) == [defects[d] EXCEPT !.status = "resolved", !.resolvedAt = TRUE]
<1>1. /\ status = "pending_review" /\ status' = "reviewed"
      /\ UNCHANGED <<assets, tests, report, certificate>>
      /\ defects' = [d \in 1..Len(defects) |-> e(d)]
      /\ review' = Decision(actor, TRUE)
  BY DEF ApproveReview
<1>2. Len(defects) \in Nat /\ \A d \in 1..Len(defects) : defects[d] \in Defect
  BY SeqElement DEF TypeOK
<1>3. \A d \in 1..Len(defects) :
        e(d).asset = defects[d].asset /\ e(d).source = defects[d].source /\ e(d).resolvedAt
  BY <1>2 DEF Defect
<1> HIDE DEF e
<1>4. Len(defects') = Len(defects) /\ \A d \in 1..Len(defects) : defects'[d] = e(d)
  BY <1>1, <1>2
<1>5. DefectsPlaced'
  BY <1>1, <1>3, <1>4, DefectsPlacedAs DEF HistorySound, DefectsPlaced, DefectPlaced
<1>6. review' # Nil /\ review'.approved
  <2>1. review' \in ReviewDecision /\ review'.approved
    BY <1>1 DEF Decision, ReviewDecision, Names
  <2> QED BY <2>1, NilAssumption
<1>7. StageValid'
  BY <1>1, <1>6 DEF HistorySound, StageValid
<1> QED BY <1>1, <1>5, <1>7, NothingLater, RecordsCarried DEF HistorySound, Early

\* The report is sealed with its own digest, and the certificate names it.
LEMMA ReleaseKept ==
  ASSUME TypeOK, HistorySound, NEW now \in Instants, NEW actor \in Actors,
         FreezeReport(actor, now) \/ IssueCertificate(actor, now)
  PROVE  HistorySound'
<1>1. /\ status \in Approved \ {"certified"} /\ status' \in Approved
      /\ UNCHANGED <<assets, tests, defects, review>>
  BY DEF FreezeReport, IssueCertificate, Approved
<1>2. NothingYet' /\ AssetsValid' /\ TestsValid' /\ DefectsPlaced'
  BY <1>1, NothingLater, RecordsCarried, DefectsCarried DEF HistorySound, Approved, Early
<1>3. /\ assets' # <<>> /\ \A a \in 1..Len(assets') : assets'[a].locked
      /\ review' # Nil /\ review'.approved
  BY <1>1 DEF HistorySound, StageValid, Approved
<1>4. CASE FreezeReport(actor, now)
  <2>1. Document \in Documents
    BY DEF TypeOK, Document, Documents
  <2>2. report' \in FrozenReport
    <3>1. Digest(Document) \in [sha256 : Documents]
      BY <2>1 DEF Digest
    <3> QED BY <1>4, <2>1, <3>1 DEF FreezeReport, FrozenReport, Names, TypeOK
  <2>3. report'.digest = Digest(report'.content) /\ status' = "frozen"
    BY <1>4 DEF FreezeReport
  <2>4. (VerifyReport(report))'
    BY <2>2, <2>3, NilAssumption DEF VerifyReport, Digest
  <2>5. certificate' = Nil
    BY <1>4 DEF FreezeReport, HistorySound, StageValid
  <2> QED BY <1>2, <1>3, <2>3, <2>4, <2>5 DEF HistorySound, StageValid
<1>5. CASE IssueCertificate(actor, now)
  <2>1. report \in FrozenReport /\ report' = report /\ status' = "certified"
    BY <1>5 DEF IssueCertificate, TypeOK
  <2>2. (VerifyReport(report))'
    BY <1>5, <2>1 DEF IssueCertificate, VerifyReport, Digest
  <2>3. certificate' \in Certificate
    <3>1. report.digest \in [sha256 : Documents]
      BY <2>1 DEF FrozenReport
    <3>2. CertificateDigest(report.digest, now) \in
            [sha256 : [reportDigest : [sha256 : Documents], issuedAt : Instants]]
      BY <3>1 DEF CertificateDigest, Digest
    <3> QED BY <1>5, <3>1, <3>2 DEF IssueCertificate, Certificate, Names
  <2>4. /\ certificate'.reportDigest = report'.digest
        /\ certificate'.verificationDigest =
             CertificateDigest(certificate'.reportDigest, certificate'.issuedAt)
    BY <1>5, <2>1 DEF IssueCertificate
  <2>5. (VerifyCertificate(certificate))'
    BY <2>3, <2>4, NilAssumption DEF VerifyCertificate, CertificateDigest, Digest
  <2> QED BY <1>2, <1>3, <2>1, <2>2, <2>4, <2>5 DEF HistorySound, StageValid
<1> QED BY <1>4, <1>5

\* HistorySound is an invariant of the case, wherever its clock goes.
THEOREM HistoryKept == Spec => []HistorySound
<1>1. Init => HistorySound
  BY EmptySeq DEF Init, HistorySound, NothingYet, AssetsValid, TestsValid, DefectsPlaced,
                  StageValid
<1>2. TypeOK /\ HistorySound /\ [Next]_vars => HistorySound'
  <2> SUFFICES ASSUME TypeOK, HistorySound, [Next]_vars PROVE HistorySound'
    OBVIOUS
  <2>1. CASE UNCHANGED vars
    <3>1. UNCHANGED <<status, assets, tests, defects, review, report, certificate>>
      BY <2>1 DEF vars
    <3>2. NothingYet' /\ AssetsValid' /\ TestsValid' /\ DefectsPlaced'
      BY <3>1, RecordsCarried, DefectsCarried DEF HistorySound, NothingYet
    <3>3. StageValid'
      BY <3>1 DEF HistorySound, StageValid, VerifyReport, VerifyCertificate,
                  CertificateDigest, Digest
    <3> QED BY <3>2, <3>3 DEF HistorySound
  <2>2. CASE Next
    BY <2>2, BaselineKept, RecordingKept, ObservationKept, RemediatingKept,
       StageChangeKept, JudgingKept, ApprovalKept, ReleaseKept
       DEF Next, WorkStep, ReviewStep, ReleaseStep
  <2> QED BY <2>1, <2>2
<1> QED BY <1>1, <1>2, Typing, PTL DEF Spec

-----------------------------------------------------------------------------
(* What follows from it *)

\* A clock that never steps back has nothing to hide from the integrity check.
THEOREM ClockForward ==
  ASSUME ~ClockMayStepBack
  PROVE  Spec => [](createdAt <= updatedAt)
<1>1. Init => createdAt <= updatedAt
  BY NumberAssumption DEF Init
<1>2. TypeOK /\ createdAt <= updatedAt /\ [Next]_vars => (createdAt <= updatedAt)'
  <2> SUFFICES ASSUME TypeOK, createdAt <= updatedAt, [Next]_vars
               PROVE  createdAt' <= updatedAt'
    OBVIOUS
  <2>1. CASE UNCHANGED vars
    BY <2>1 DEF vars
  <2>2. CASE Next
    <3>1. PICK now \in Instants :
            PrepareStep(now) \/ WorkStep(now) \/ ReviewStep(now) \/ ReleaseStep(now)
      BY <2>2 DEF Next
    <3>2. Advance(now)
      <4>1. CASE PrepareStep(now)
        BY <4>1 DEF PrepareStep, PrepareBaseline, AddAssetsBatch, LockBaseline
      <4>2. CASE WorkStep(now)
        <5>1. ASSUME NEW actor \in Actors, NEW asset \in 1..Len(assets), NEW kind \in TestKinds,
                     NEW reading \in Readings, NEW retestOf \in {NoId} \union 1..Len(tests),
                     RecordTest(actor, asset, kind, reading, retestOf, now)
              PROVE  Advance(now)
          BY <5>1 DEF RecordTest
        <5>2. ASSUME NEW asset \in 1..Len(assets), NEW severity \in ObservedSeverities,
                     AddObservedDefect(asset, severity, now)
              PROVE  Advance(now)
          BY <5>2 DEF AddObservedDefect
        <5>3. ASSUME NEW d \in 1..Len(defects), NEW content \in Contents,
                     RemediateDefect(d, content, now)
              PROVE  Advance(now)
          BY <5>3 DEF RemediateDefect
        <5> QED BY <4>2, <5>1, <5>2, <5>3 DEF WorkStep
      <4>3. CASE ReviewStep(now)
        BY <4>3 DEF ReviewStep, SubmitForReview, ReturnReview, ReviewDefect, ApproveReview
      <4>4. CASE ReleaseStep(now)
        BY <4>4 DEF ReleaseStep, FreezeReport, IssueCertificate
      <4> QED BY <3>1, <4>1, <4>2, <4>3, <4>4
    <3>3. createdAt \in Nat /\ updatedAt \in Nat /\ now \in Nat
      BY NumberAssumption DEF TypeOK
    <3> QED BY <3>2, <3>3 DEF Advance
  <2> QED BY <2>1, <2>2
<1> QED BY <1>1, <1>2, Typing, PTL DEF Spec

\* As long as the clock never steps back, no accepted history, of any length
\* and over any number of assets, leaves a case that LoadCase refuses.
THEOREM AlwaysReloadable ==
  ASSUME ~ClockMayStepBack
  PROVE  Spec => []Reloadable
<1>1. TypeOK /\ ReviewSound /\ HistorySound /\ createdAt <= updatedAt => Reloadable
  <2> SUFFICES ASSUME TypeOK, ReviewSound, HistorySound, createdAt <= updatedAt
               PROVE  ValidateIntegrity
    BY DEF Reloadable
  <2>1. ASSUME NEW d \in 1..Len(defects)
        PROVE  DefectValid(defects[d])
    <3>1. /\ DefectPlaced(defects[d]) /\ DefectSound(defects[d])
          /\ defects[d] \in Defect
      BY SeqElement DEF HistorySound, DefectsPlaced, ReviewSound, TypeOK
    <3>2. Len(defects[d].evidence) \in Nat
      BY <3>1, SeqElement DEF Defect
    <3> QED BY <3>1, <3>2 DEF DefectPlaced, DefectSound, VersionsIncrease, DefectValid
  <2> QED BY <2>1 DEF HistorySound, ValidateIntegrity
<1> QED BY <1>1, Typing, Soundness, HistoryKept, ClockForward, PTL

\* Before approval every failed test blocks the cell of its asset and kind.
THEOREM FailureAlwaysVisible == Spec => []FailureStaysVisible
<1>1. TypeOK /\ ReviewSound /\ HistorySound => FailureStaysVisible
  <2> SUFFICES ASSUME TypeOK, ReviewSound, HistorySound, status \notin Approved,
                      NEW t \in 1..Len(tests), tests[t].result = "fail"
               PROVE  CellStatus(tests[t].asset, tests[t].kind) = "awaiting_defect_resolution"
    BY DEF FailureStaysVisible, Approved
  <2>1. PICK d \in 1..Len(defects) : defects[d].source = t
    BY DEF ReviewSound, FailuresFiled
  <2>2. t # NoId
    BY DEF NoId
  <2>3. defects[d].asset = tests[t].asset
    BY <2>1, <2>2 DEF HistorySound, DefectsPlaced, DefectPlaced
  <2>4. defects[d].status # "resolved"
    BY DEF ReviewSound, DefectsInStage
  <2>5. d \in BlockingDefects(tests[t].asset, tests[t].kind)
    BY <2>1, <2>2, <2>3, <2>4 DEF BlockingDefects
  <2> QED BY <2>5 DEF CellStatus
<1> QED BY <1>1, Typing, Soundness, HistoryKept, PTL

-----------------------------------------------------------------------------
(* The past is only appended to *)

LEMMA SamePrefix ==
  ASSUME NEW S, NEW s \in Seq(S)
  PROVE  IsPrefix(s, s)
  BY SeqElement DEF IsPrefix

LEMMA AppendPrefix ==
  ASSUME NEW S, NEW s \in Seq(S), NEW e \in S
  PROVE  IsPrefix(s, Append(s, e))
<1>1. /\ Len(s) \in Nat /\ Append(s, e) \in Seq(S) /\ Len(Append(s, e)) = Len(s) + 1
      /\ \A i \in 1..Len(s) : Append(s, e)[i] = s[i]
  BY SeqElement, AppendElement
<1>2. SubSeq(s, 1, Len(s)) = [i \in 1..Len(s) |-> s[i]]
  BY <1>1
<1>3. SubSeq(Append(s, e), 1, Len(s)) = [i \in 1..Len(s) |-> Append(s, e)[i]]
  BY <1>1
<1>4. [i \in 1..Len(s) |-> s[i]] = [i \in 1..Len(s) |-> Append(s, e)[i]]
  BY <1>1
<1> QED BY <1>1, <1>2, <1>3, <1>4 DEF IsPrefix

\* What a step may make of one defect.
GrownFrom(d, e) ==
  /\ <<d.asset, d.source, d.severity>> = <<e.asset, e.source, e.severity>>
  /\ IsPrefix(d.evidence, e.evidence)
  /\ IsPrefix(d.decisions, e.decisions)

DefectsGrow ==
  /\ Len(defects) <= Len(defects')
  /\ \A d \in 1..Len(defects) : GrownFrom(defects[d], defects'[d])

LEMMA SameDefect ==
  ASSUME NEW d \in Defect
  PROVE  GrownFrom(d, d)
  BY SamePrefix DEF GrownFrom, Defect

\* Defects that stay as they are, with or without a new one behind them.
LEMMA DefectsStay ==
  ASSUME TypeOK, \/ defects' = defects
                 \/ \E new \in Defect : defects' = Append(defects, new)
  PROVE  DefectsGrow
<1>1. Len(defects) \in Nat /\ \A d \in 1..Len(defects) : defects[d] \in Defect
  BY SeqElement DEF TypeOK
<1>2. Len(defects) <= Len(defects') /\ \A d \in 1..Len(defects) : defects'[d] = defects[d]
  BY <1>1, AppendElement DEF TypeOK
<1> QED BY <1>1, <1>2, SameDefect DEF DefectsGrow

\* One defect that grows, among others that stay.
LEMMA OneDefectGrows ==
  ASSUME TypeOK, NEW d \in 1..Len(defects), NEW e,
         defects' = [defects EXCEPT ![d] = e], GrownFrom(defects[d], e)
  PROVE  DefectsGrow
<1>1. Len(defects) \in Nat /\ \A x \in 1..Len(defects) : defects[x] \in Defect
  BY SeqElement DEF TypeOK
<1>2. /\ Len(defects') = Len(defects)
      /\ \A x \in 1..Len(defects) : defects'[x] = IF x = d THEN e ELSE defects[x]
  <2>1. defects \in Seq(Defect)
    BY DEF TypeOK
  <2> QED BY <2>1
<1> QED BY <1>1, <1>2, SameDefect DEF DefectsGrow

\* Recording and observing add at the end; remediation adds evidence.
LEMMA WorkAppends ==
  ASSUME TypeOK, NEW now \in Instants, WorkStep(now)
  PROVE  IsPrefix(tests, tests') /\ DefectsGrow
<1>0. tests \in Seq(Test)
  BY DEF TypeOK
<1>1. ASSUME NEW actor \in Actors, NEW asset \in 1..Len(assets), NEW kind \in TestKinds,
             NEW reading \in Readings, NEW retestOf \in {NoId} \union 1..Len(tests),
             RecordTest(actor, asset, kind, reading, retestOf, now)
      PROVE  IsPrefix(tests, tests') /\ DefectsGrow
  <2> DEFINE record == [asset |-> asset, kind |-> kind,
                        result |-> EvaluateTest(assets[asset], kind, reading),
                        recordedBy |-> RecordedBy(actor), retestOf |-> retestOf]
             filed == NewDefect(asset, Len(tests) + 1, SeverityOf(kind))
  <2>1. record \in Test
    BY SeqElement DEF TypeOK, Test, EvaluateTest, Results, RecordedBy, Names, NoId
  <2>2. filed \in Defect
    <3>1. asset \in Nat /\ Len(tests) + 1 \in Nat /\ SeverityOf(kind) \in Severities
      BY SeqElement DEF TypeOK, SeverityOf, Severities
    <3> QED BY <3>1, NewDefectTyped
  <2>3. /\ tests' = Append(tests, record)
        /\ defects' = IF record.result = "fail" THEN Append(defects, filed) ELSE defects
    BY <1>1 DEF RecordTest, TestsWith, DefectsWith
  <2> HIDE DEF record, filed
  <2>4. IsPrefix(tests, tests')
    BY <1>0, <2>1, <2>3, AppendPrefix
  <2>5. DefectsGrow
    BY <2>2, <2>3, DefectsStay
  <2> QED BY <2>4, <2>5
<1>2. ASSUME NEW asset \in 1..Len(assets), NEW severity \in ObservedSeverities,
             AddObservedDefect(asset, severity, now)
      PROVE  IsPrefix(tests, tests') /\ DefectsGrow
  <2>1. NewDefect(asset, NoId, severity) \in Defect
    <3>1. asset \in Nat /\ NoId \in Nat /\ severity \in Severities
      BY KindAssumption, SeqElement DEF TypeOK, NoId, Severities
    <3> QED BY <3>1, NewDefectTyped
  <2>2. tests' = tests /\ defects' = Append(defects, NewDefect(asset, NoId, severity))
    BY <1>2 DEF AddObservedDefect
  <2> QED BY <1>0, <2>1, <2>2, SamePrefix, DefectsStay
<1>3. ASSUME NEW d \in 1..Len(defects), NEW content \in Contents, RemediateDefect(d, content, now)
      PROVE  IsPrefix(tests, tests') /\ DefectsGrow
  <2> DEFINE e == [defects[d] EXCEPT !.evidence = Append(@, NormalizeText[content]),
                                     !.status = "remediated", !.accepted = 0]
  <2>1. defects[d] \in Defect /\ NormalizeText[content] \in Evidence
    BY SeqElement DEF TypeOK, Evidence
  <2>2. defects' = [defects EXCEPT ![d] = e] /\ tests' = tests
    BY <1>3, <2>1 DEF RemediateDefect, Defect
  <2>3. /\ e.evidence = Append(defects[d].evidence, NormalizeText[content])
        /\ e.decisions = defects[d].decisions
        /\ <<defects[d].asset, defects[d].source, defects[d].severity>> =
             <<e.asset, e.source, e.severity>>
    BY <2>1 DEF Defect
  <2>4. defects[d].evidence \in Seq(Evidence) /\ defects[d].decisions \in Seq(ItemDecision)
    BY <2>1 DEF Defect
  <2> HIDE DEF e
  <2>5. GrownFrom(defects[d], e)
    BY <2>1, <2>3, <2>4, SamePrefix, AppendPrefix DEF GrownFrom
  <2> QED BY <1>0, <2>2, <2>5, SamePrefix, OneDefectGrows
<1> QED BY <1>1, <1>2, <1>3 DEF WorkStep

\* Judging adds a decision, approval only changes what a defect's state is.
LEMMA ReviewAppends ==
  ASSUME TypeOK, NEW now \in Instants, ReviewStep(now)
  PROVE  IsPrefix(tests, tests') /\ DefectsGrow
<1>0. tests' = tests /\ tests \in Seq(Test)
  BY DEF TypeOK, ReviewStep, SubmitForReview, ReturnReview, ReviewDefect, ApproveReview
<1>1. IsPrefix(tests, tests')
  BY <1>0, SamePrefix
<1>2. CASE SubmitForReview(now) \/ \E actor \in Actors : ReturnReview(actor, now)
  <2>1. defects' = defects
    BY <1>2 DEF SubmitForReview, ReturnReview
  <2> QED BY <1>1, <2>1, DefectsStay
<1>3. ASSUME NEW actor \in Actors, NEW d \in 1..Len(defects), NEW accepted \in BOOLEAN,
             ReviewDefect(actor, d, accepted, now)
      PROVE  DefectsGrow
  <2> DEFINE decision == [version |-> Len(defects[d].evidence),
                          reviewer |-> NormalizeText[actor], accepted |-> accepted]
             e == [defects[d] EXCEPT !.decisions = Append(@, decision),
                     !.accepted = IF accepted THEN Len(defects[d].evidence) ELSE 0]
  <2>1. defects[d] \in Defect
    BY SeqElement DEF TypeOK
  <2>2. /\ defects[d].evidence \in Seq(Evidence)
        /\ defects[d].decisions \in Seq(ItemDecision)
    BY <2>1 DEF Defect
  <2>3. decision \in ItemDecision
    <3>1. Len(defects[d].evidence) \in Nat
      BY <2>2, SeqElement
    <3> QED BY <3>1 DEF ItemDecision, Names
  <2>4. defects' = [defects EXCEPT ![d] = e]
    BY <1>3, <2>1 DEF ReviewDefect, Defect
  <2>5. /\ e.evidence = defects[d].evidence
        /\ e.decisions = Append(defects[d].decisions, decision)
        /\ <<defects[d].asset, defects[d].source, defects[d].severity>> =
             <<e.asset, e.source, e.severity>>
    BY <2>1 DEF Defect
  <2> HIDE DEF e, decision
  <2>6. GrownFrom(defects[d], e)
    BY <2>2, <2>3, <2>5, SamePrefix, AppendPrefix DEF GrownFrom
  <2> QED BY <2>4, <2>6, OneDefectGrows
<1>4. ASSUME NEW actor \in Actors, ApproveReview(actor, now)
      PROVE  DefectsGrow
  <2> DEFINE e(d) == [defects[d] EXCEPT !.status = "resolved", !.resolvedAt = TRUE]
  <2>1. defects' = [d \in 1..Len(defects) |-> e(d)]
    BY <1>4 DEF ApproveReview
  <2>2. Len(defects) \in Nat /\ \A d \in 1..Len(defects) : defects[d] \in Defect
    BY SeqElement DEF TypeOK
  <2>3. ASSUME NEW d \in 1..Len(defects)
        PROVE  GrownFrom(defects[d], e(d))
    <3>1. /\ e(d).evidence = defects[d].evidence /\ e(d).decisions = defects[d].decisions
          /\ <<defects[d].asset, defects[d].source, defects[d].severity>> =
               <<e(d).asset, e(d).source, e(d).severity>>
      BY <2>2 DEF Defect
    <3>2. GrownFrom(defects[d], defects[d])
      BY <2>2, SameDefect
    <3> HIDE DEF e
    <3> QED BY <3>1, <3>2 DEF GrownFrom
  <2> HIDE DEF e
  <2>4. Len(defects') = Len(defects) /\ \A d \in 1..Len(defects) : defects'[d] = e(d)
    BY <2>1, <2>2
  <2> QED BY <2>2, <2>3, <2>4 DEF DefectsGrow
<1> QED BY <1>1, <1>2, <1>3, <1>4 DEF ReviewStep

\* No accepted command takes back a measurement, a piece of evidence or a
\* decision, or moves a defect to another asset, test or severity.
THEOREM HistoryAlwaysAppended == Spec => HistoryAppendOnly
<1> DEFINE Appends ==
      /\ IsPrefix(tests, tests')
      /\ Len(defects) <= Len(defects')
      /\ \A d \in 1..Len(defects) :
           /\ <<defects[d].asset, defects[d].source, defects[d].severity>> =
                <<defects'[d].asset, defects'[d].source, defects'[d].severity>>
           /\ IsPrefix(defects[d].evidence, defects'[d].evidence)
           /\ IsPrefix(defects[d].decisions, defects'[d].decisions)
<1>1. TypeOK /\ [Next]_vars => [Appends]_vars
  <2> SUFFICES ASSUME TypeOK, Next PROVE IsPrefix(tests, tests') /\ DefectsGrow
    BY DEF DefectsGrow, GrownFrom
  <2>1. PICK now \in Instants :
          PrepareStep(now) \/ WorkStep(now) \/ ReviewStep(now) \/ ReleaseStep(now)
    BY DEF Next
  <2>2. CASE PrepareStep(now) \/ ReleaseStep(now)
    <3>1. UNCHANGED <<tests, defects>>
      BY <2>2 DEF PrepareStep, PrepareBaseline, AddAssetsBatch, LockBaseline,
                  ReleaseStep, FreezeReport, IssueCertificate
    <3>2. tests \in Seq(Test)
      BY DEF TypeOK
    <3> QED BY <3>1, <3>2, SamePrefix, DefectsStay
  <2> QED BY <2>1, <2>2, WorkAppends, ReviewAppends
<1>2. Spec => [][Appends]_vars
  <2> HIDE DEF Appends
  <2> QED BY <1>1, Typing, PTL DEF Spec
<1> QED BY <1>2 DEF HistoryAppendOnly
=============================================================================
