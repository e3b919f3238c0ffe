------------------------- MODULE InspectionCaseProofs -------------------------
(***************************************************************************)
(* Theorems about InspectionCase, for every set of actors, spellings,      *)
(* assets, test kinds and evidence, and for histories of any length.       *)
(***************************************************************************)
EXTENDS InspectionCase, SequenceTheorems, TLAPS

-----------------------------------------------------------------------------
(* Facts about sequences *)

\* A function on 1..n with values in S is a sequence over S of length n.
LEMMA FunctionIsSeq ==
  ASSUME NEW S, NEW n \in Nat, NEW f \in [1..n -> S]
  PROVE  f \in Seq(S) /\ Len(f) = n
  BY SeqDef

\* The elements of a sequence, by position.
LEMMA SeqElement ==
  ASSUME NEW S, NEW s \in Seq(S)
  PROVE  /\ Len(s) \in Nat
         /\ s # <<>> <=> Len(s) > 0
         /\ \A i \in 1..Len(s) : s[i] \in S
  BY ElementOfSeq, EmptySeq

\* What appending does to length and elements.
LEMMA AppendElement ==
  ASSUME NEW S, NEW s \in Seq(S), NEW e \in S
  PROVE  /\ Append(s, e) \in Seq(S)
         /\ Len(Append(s, e)) = Len(s) + 1
         /\ \A i \in 1..Len(s) : Append(s, e)[i] = s[i]
         /\ Append(s, e)[Len(s) + 1] = e
         /\ Append(s, e) # <<>>
  BY EmptySeq

-----------------------------------------------------------------------------
(* Type correctness *)

\* The commands on the baseline keep the types.
LEMMA BaselineTyped ==
  ASSUME TypeOK, NEW now \in Instants,
         PrepareStep(now)
  PROVE  TypeOK'
<1>1. CASE PrepareBaseline(now)
  BY <1>1 DEF TypeOK, PrepareBaseline, Advance, Statuses
<1>2. ASSUME NEW batch \in BoundedSeq(AssetInputs, MaxBatch), AddAssetsBatch(batch, now)
      PROVE  TypeOK'
  <2> DEFINE added == [i \in 1..Len(batch) |->
        [code |-> NormalizeCode[batch[i].code], ratedLoadKg |-> batch[i].ratedLoadKg,
         limitRequired |-> batch[i].limitRequired, locked |-> FALSE]]
  <2>1. batch \in Seq(AssetInputs)
    BY <1>2, FunctionIsSeq, NumberAssumption DEF BoundedSeq, SeqOf
  <2>2. ASSUME NEW i \in 1..Len(batch)
        PROVE  added[i] \in Asset
    <3>1. batch[i] \in AssetInputs
      BY <2>1, SeqElement
    <3> QED BY <3>1, NumberAssumption DEF AssetInputs, Asset, Codes
  <2>3. added \in Seq(Asset)
    BY <2>1, <2>2, FunctionIsSeq, SeqElement
  <2>4. assets' \in Seq(Asset)
    BY <1>2, <2>3, ConcatProperties DEF AddAssetsBatch, TypeOK
  <2> QED BY <1>2, <2>4 DEF TypeOK, AddAssetsBatch, Advance
<1>3. CASE LockBaseline(now)
  <2>1. ASSUME NEW a \in 1..Len(assets)
        PROVE  [assets[a] EXCEPT !.locked = TRUE] \in Asset
    <3>1. assets[a] \in Asset
      BY SeqElement DEF TypeOK
    <3> QED BY <3>1 DEF Asset
  <2>2. assets' \in Seq(Asset)
    BY <1>3, <2>1, FunctionIsSeq, SeqElement DEF LockBaseline, TypeOK
  <2> QED BY <1>3, <2>2 DEF TypeOK, LockBaseline, Advance, Statuses
<1> QED BY <1>1, <1>2, <1>3 DEF PrepareStep

\* A new defect is typed.
LEMMA NewDefectTyped ==
  ASSUME NEW asset \in Nat, NEW source \in Nat, NEW severity \in Severities
  PROVE  NewDefect(asset, source, severity) \in Defect
  BY EmptySeq DEF NewDefect, Defect, DefectStatuses

\* The commands of the open case keep the types.
LEMMA WorkTyped ==
  ASSUME TypeOK, NEW now \in Instants,
         WorkStep(now)
  PROVE  TypeOK'
<1>1. ASSUME NEW actor \in Actors, NEW asset \in 1..Len(assets), NEW kind \in TestKinds,
             NEW reading \in Readings, NEW retestOf \in {NoId} \union 1..Len(tests),
             RecordTest(actor, asset, kind, reading, retestOf, now)
      PROVE  TypeOK'
  <2> DEFINE record == [asset |-> asset, kind |-> kind,
                        result |-> EvaluateTest(assets[asset], kind, reading),
                        recordedBy |-> RecordedBy(actor), retestOf |-> retestOf]
  <2>1. record \in Test
    BY SeqElement DEF TypeOK, Test, EvaluateTest, Results, RecordedBy, Names, NoId
  <2>2. tests' \in Seq(Test)
    BY <1>1, <2>1, AppendElement DEF RecordTest, TestsWith, TypeOK
  <2>3. NewDefect(record.asset, Len(tests) + 1, SeverityOf(record.kind)) \in Defect
    <3>1. record.asset \in Nat /\ Len(tests) + 1 \in Nat /\ SeverityOf(record.kind) \in Severities
      BY <2>1, SeqElement DEF Test, TypeOK, SeverityOf, Severities
    <3> QED BY <3>1, NewDefectTyped
  <2>4. defects' \in Seq(Defect)
    BY <1>1, <2>3, AppendElement DEF RecordTest, DefectsWith, TypeOK
  <2> QED BY <1>1, <2>2, <2>4 DEF TypeOK, RecordTest, Advance
<1>2. ASSUME NEW asset \in 1..Len(assets), NEW severity \in ObservedSeverities,
             AddObservedDefect(asset, severity, now)
      PROVE  TypeOK'
  <2>1. NewDefect(asset, NoId, severity) \in Defect
    BY NewDefectTyped, KindAssumption, SeqElement DEF NoId, Severities, TypeOK
  <2>2. defects' \in Seq(Defect)
    BY <1>2, <2>1, AppendElement DEF AddObservedDefect, TypeOK
  <2> QED BY <1>2, <2>2 DEF TypeOK, AddObservedDefect, Advance
<1>3. ASSUME NEW d \in 1..Len(defects), NEW content \in Contents, RemediateDefect(d, content, now)
      PROVE  TypeOK'
  <2>1. defects[d] \in Defect
    BY SeqElement DEF TypeOK
  <2>2. NormalizeText[content] \in Evidence
    BY DEF Evidence
  <2>3. Append(defects[d].evidence, NormalizeText[content]) \in Seq(Evidence)
    BY <2>1, <2>2, AppendElement DEF Defect
  <2>4. [defects[d] EXCEPT !.evidence = Append(@, NormalizeText[content]),
                           !.status = "remediated", !.accepted = 0] \in Defect
    BY <2>1, <2>3 DEF Defect, DefectStatuses
  <2>5. defects' = [defects EXCEPT ![d] =
          [defects[d] EXCEPT !.evidence = Append(@, NormalizeText[content]),
                             !.status = "remediated", !.accepted = 0]]
    BY <1>3, <2>1 DEF RemediateDefect, Defect
  <2>6. defects' \in Seq(Defect)
    BY <2>4, <2>5, ExceptSeq DEF TypeOK
  <2>7. /\ Advance(now)
        /\ UNCHANGED <<status, assets, tests, review, report, certificate>>
    BY <1>3 DEF RemediateDefect
  <2> QED BY <2>6, <2>7 DEF TypeOK, Advance
<1> QED BY <1>1, <1>2, <1>3 DEF WorkStep

\* The commands of review keep the types.
LEMMA ReviewTyped ==
  ASSUME TypeOK, NEW now \in Instants, ReviewStep(now)
  PROVE  TypeOK'
<1>0. \A actor \in Actors :
        Decision(actor, TRUE) \in ReviewDecision /\ Decision(actor, FALSE) \in ReviewDecision
  BY DEF Decision, ReviewDecision, Names
<1>1. ASSUME NEW actor \in Actors, ReturnReview(actor, now) PROVE TypeOK'
  <2>1. status' \in Statuses /\ review' \in {Nil} \union ReviewDecision
    BY <1>0, <1>1 DEF ReturnReview, Statuses
  <2>2. Advance(now) /\ UNCHANGED <<assets, tests, defects, report, certificate>>
    BY <1>1 DEF ReturnReview
  <2> QED BY <2>1, <2>2 DEF TypeOK, Advance
<1>2. ASSUME NEW actor \in Actors, NEW d \in 1..Len(defects), NEW accepted \in BOOLEAN,
             ReviewDefect(actor, d, accepted, now)
      PROVE  TypeOK'
  <2> DEFINE latest == Len(defects[d].evidence)
             decision == [version |-> latest, reviewer |-> NormalizeText[actor],
                          accepted |-> accepted]
             decided == [defects[d] EXCEPT !.decisions = Append(@, decision),
                           !.accepted = IF accepted THEN latest ELSE 0]
  <2>1. defects[d] \in Defect
    BY SeqElement DEF TypeOK
  <2>2. latest \in Nat /\ defects[d].decisions \in Seq(ItemDecision)
    BY <2>1, SeqElement DEF Defect
  <2>3. decision \in ItemDecision
    BY <2>2 DEF ItemDecision, Names
  <2>4. Append(defects[d].decisions, decision) \in Seq(ItemDecision)
    BY <2>2, <2>3, AppendElement
  <2>5. decided \in Defect
    BY <2>1, <2>2, <2>4 DEF Defect
  <2>6. defects' = [defects EXCEPT ![d] = decided]
    BY <1>2, <2>1 DEF ReviewDefect, Defect
  <2>7. defects' \in Seq(Defect)
    BY <2>5, <2>6, ExceptSeq DEF TypeOK
  <2>8. /\ status' \in Statuses
        /\ review' \in {Nil} \union ReviewDecision
        /\ Advance(now)
        /\ UNCHANGED <<assets, tests, report, certificate>>
    BY <1>0, <1>2 DEF TypeOK, ReviewDefect, Statuses
  <2> QED BY <2>7, <2>8 DEF TypeOK, Advance
<1>3. ASSUME NEW actor \in Actors, ApproveReview(actor, now) PROVE TypeOK'
  <2>1. ASSUME NEW d \in 1..Len(defects)
        PROVE  [defects[d] EXCEPT !.status = "resolved", !.resolvedAt = TRUE] \in Defect
    <3>1. defects[d] \in Defect
      BY SeqElement DEF TypeOK
    <3> QED BY <3>1 DEF Defect, DefectStatuses
  <2>2. defects' \in Seq(Defect)
    <3>1. defects' \in [1..Len(defects) -> Defect]
      BY <1>3, <2>1 DEF ApproveReview
    <3>2. Len(defects) \in Nat
      BY SeqElement DEF TypeOK
    <3> QED BY <3>1, <3>2, FunctionIsSeq
  <2>3. /\ status' \in Statuses
        /\ review' \in {Nil} \union ReviewDecision
        /\ Advance(now)
        /\ UNCHANGED <<assets, tests, report, certificate>>
    BY <1>0, <1>3 DEF ApproveReview, Statuses
  <2> QED BY <2>2, <2>3 DEF TypeOK, Advance
<1>4. CASE SubmitForReview(now)
  <2>1. version' \in Nat /\ createdAt' \in Instants /\ updatedAt' \in Instants
    BY <1>4 DEF TypeOK, SubmitForReview, Advance
  <2> QED BY <1>4, <2>1 DEF TypeOK, SubmitForReview, Statuses
<1> QED BY <1>1, <1>2, <1>3, <1>4 DEF ReviewStep

\* Sealing and releasing keep the types; a certificate is issued on a report.
LEMMA ReleaseTyped ==
  ASSUME TypeOK, NEW now \in Instants, ReleaseStep(now)
  PROVE  TypeOK'
<1>1. ASSUME NEW actor \in Actors, FreezeReport(actor, now) PROVE TypeOK'
  <2>1. Document \in Documents
    BY DEF TypeOK, Document, Documents
  <2>2. report' \in FrozenReport
    <3>1. Digest(Document) \in [sha256 : Documents]
      BY <2>1 DEF Digest
    <3> QED BY <1>1, <2>1, <3>1 DEF FreezeReport, FrozenReport, Names, TypeOK
  <2> QED BY <1>1, <2>2 DEF TypeOK, FreezeReport, Advance, Statuses
<1>2. ASSUME NEW actor \in Actors, IssueCertificate(actor, now) PROVE TypeOK'
  <2>1. report \in FrozenReport
    BY <1>2 DEF IssueCertificate, TypeOK
  <2>2. report.digest \in [sha256 : Documents]
    BY <2>1 DEF FrozenReport
  <2>3. CertificateDigest(report.digest, now) \in
          [sha256 : [reportDigest : [sha256 : Documents], issuedAt : Instants]]
    BY <2>2 DEF CertificateDigest, Digest
  <2>4. certificate' \in Certificate
    BY <1>2, <2>2, <2>3 DEF IssueCertificate, Certificate, Names
  <2> QED BY <1>2, <2>4 DEF TypeOK, IssueCertificate, Advance, Statuses
<1> QED BY <1>1, <1>2 DEF ReleaseStep

\* Whatever is accepted, stored names and evidence are normalised and every
\* other field keeps its type: TypeOK is an invariant of the case.
THEOREM Typing == Spec => []TypeOK
<1>1. Init => TypeOK
  BY EmptySeq DEF Init, TypeOK, Statuses
<1>2. TypeOK /\ [Next]_vars => TypeOK'
  <2> SUFFICES ASSUME TypeOK, [Next]_vars PROVE TypeOK'
    OBVIOUS
  <2>1. CASE UNCHANGED vars
    BY <2>1 DEF TypeOK, vars
  <2>2. CASE Next
    BY <2>2, BaselineTyped, WorkTyped, ReviewTyped, ReleaseTyped DEF Next
  <2> QED BY <2>1, <2>2
<1> QED BY <1>1, <1>2, PTL DEF Spec

-----------------------------------------------------------------------------
(* Review: the inductive invariant *)

Approved == {"reviewed", "frozen", "certified"}

\* What the history of one defect always satisfies: evidence exists unless it
\* is open, evidence versions are judged in increasing order, and the accepted
\* version is set exactly while the last decision accepts the newest evidence.
VersionsIncrease(d) ==
  \A i \in 1..Len(d.decisions) :
    /\ d.decisions[i].version \in 1..Len(d.evidence)
    /\ \A j \in 1..Len(d.decisions) : i < j => d.decisions[i].version < d.decisions[j].version

DefectSound(d) ==
  /\ d.status = "open" <=> d.evidence = <<>>
  /\ VersionsIncrease(d)
  /\ d.accepted \in {0, Len(d.evidence)}
  /\ d.accepted # 0 <=> DecidedLatest(d) /\ Last(d.decisions).accepted
  /\ d.status = "resolved" => d.accepted # 0

\* How the stage of the case bounds the states of its defects.
DefectsInStage ==
  \A d \in 1..Len(defects) :
    /\ defects[d].status = "resolved" <=> status \in Approved
    /\ status = "pending_review" =>
         /\ defects[d].status = "remediated"
         /\ DecidedLatest(defects[d]) => defects[d].accepted # 0

FailuresFiled ==
  \A t \in 1..Len(tests) : tests[t].result = "fail" =>
    \E d \in 1..Len(defects) : defects[d].source = t

ReviewSound ==
  /\ \A d \in 1..Len(defects) : DefectSound(defects[d])
  /\ DefectsInStage
  /\ FailuresFiled
  /\ status \in Approved \union {"pending_review"} => CoverageComplete

\* The invariant says more than the three properties that TLC checks.
LEMMA ReviewSoundSuffices ==
  ASSUME TypeOK, ReviewSound
  PROVE  ReviewCanFinish /\ ReleaseEarned /\ JudgedOnce
<1>1. \A d \in 1..Len(defects) : defects[d] \in Defect
  BY SeqElement DEF TypeOK
<1>2. ReviewCanFinish
  BY <1>1 DEF ReviewSound, DefectsInStage, DefectSound, ReviewCanFinish
<1>3. JudgedOnce
  BY <1>1 DEF ReviewSound, DefectSound, VersionsIncrease, JudgedOnce
<1>4. ReleaseEarned
  <2> SUFFICES ASSUME status \in Approved PROVE ReleaseEarned
    BY DEF Approved, ReleaseEarned
  <2>1. CoverageComplete /\ FailuresFiled
    BY DEF ReviewSound
  <2>2. \A a \in 1..Len(assets), k \in TestKinds : Attempts(a, k) # {}
    BY <2>1 DEF CoverageComplete, Attempts
  <2>3. ASSUME NEW d \in 1..Len(defects)
        PROVE  /\ defects[d].status = "resolved" /\ defects[d].evidence # <<>>
               /\ DecidedLatest(defects[d]) /\ Last(defects[d].decisions).accepted
    <3>1. DefectSound(defects[d]) /\ defects[d].status = "resolved"
      BY DEF ReviewSound, DefectsInStage
    <3> QED BY <3>1 DEF DefectSound
  <2> QED BY <2>1, <2>2, <2>3 DEF FailuresFiled, ReleaseEarned
<1> QED BY <1>2, <1>3, <1>4

\* A defect is born sound.
LEMMA NewDefectSound ==
  ASSUME NEW asset \in Nat, NEW source \in Nat, NEW severity \in Severities
  PROVE  LET d == NewDefect(asset, source, severity)
         IN  DefectSound(d) /\ d.status = "open" /\ d.source = source
  BY EmptySeq DEF NewDefect, DefectSound, VersionsIncrease, DecidedLatest

\* New evidence withdraws any acceptance, and no decision is about it yet.
LEMMA RemediationSound ==
  ASSUME NEW d \in Defect, DefectSound(d), NEW content \in Evidence
  PROVE  DefectSound([d EXCEPT !.evidence = Append(@, content),
                               !.status = "remediated", !.accepted = 0])
<1> DEFINE e == [d EXCEPT !.evidence = Append(@, content),
                          !.status = "remediated", !.accepted = 0]
<1>1. /\ e.evidence = Append(d.evidence, content) /\ e.decisions = d.decisions
      /\ e.status = "remediated" /\ e.accepted = 0
  BY DEF Defect
<1>2. /\ d.evidence \in Seq(Evidence) /\ d.decisions \in Seq(ItemDecision)
      /\ \A i \in 1..Len(d.decisions) : d.decisions[i] \in ItemDecision
      /\ Len(d.decisions) \in Nat /\ Len(d.evidence) \in Nat
  BY SeqElement DEF Defect
<1>3. Len(e.evidence) = Len(d.evidence) + 1 /\ e.evidence # <<>>
  BY <1>1, <1>2, AppendElement
<1>4. VersionsIncrease(e)
  BY <1>1, <1>2, <1>3 DEF DefectSound, VersionsIncrease, ItemDecision
<1>5. ~DecidedLatest(e)
  <2>1. d.decisions # <<>> => Len(d.decisions) \in 1..Len(d.decisions)
    BY <1>2, SeqElement
  <2> QED BY <1>1, <1>2, <1>3, <2>1 DEF DecidedLatest, Last, DefectSound, VersionsIncrease
<1> QED BY <1>1, <1>3, <1>4, <1>5 DEF DefectSound

\* A decision on undecided evidence keeps a defect sound.
LEMMA JudgementSound ==
  ASSUME NEW d \in Defect, DefectSound(d), Judgeable(d),
         NEW reviewer \in Names, NEW accepted \in BOOLEAN
  PROVE  LET decision == [version |-> Len(d.evidence), reviewer |-> reviewer,
                          accepted |-> accepted]
             e == [d EXCEPT !.decisions = Append(@, decision),
                            !.accepted = IF accepted THEN Len(d.evidence) ELSE 0]
         IN  DefectSound(e) /\ (accepted => e.accepted # 0) /\ e.status = "remediated"
<1> DEFINE decision == [version |-> Len(d.evidence), reviewer |-> reviewer,
                        accepted |-> accepted]
           e == [d EXCEPT !.decisions = Append(@, decision),
                          !.accepted = IF accepted THEN Len(d.evidence) ELSE 0]
<1>1. /\ e.decisions = Append(d.decisions, decision) /\ e.evidence = d.evidence
      /\ e.status = d.status /\ e.accepted = IF accepted THEN Len(d.evidence) ELSE 0
  BY DEF Defect
<1>2. /\ d.evidence \in Seq(Evidence) /\ d.decisions \in Seq(ItemDecision)
      /\ \A i \in 1..Len(d.decisions) : d.decisions[i] \in ItemDecision
      /\ Len(d.decisions) \in Nat /\ Len(d.evidence) \in Nat /\ Len(d.evidence) > 0
  BY SeqElement DEF Defect, Judgeable
<1>3. decision \in ItemDecision
  BY <1>2 DEF ItemDecision
<1>4. /\ Len(e.decisions) = Len(d.decisions) + 1
      /\ \A i \in 1..Len(d.decisions) : e.decisions[i] = d.decisions[i]
      /\ e.decisions[Len(d.decisions) + 1] = decision
      /\ e.decisions # <<>>
  BY <1>1, <1>2, <1>3, AppendElement
<1>5. \A i \in 1..Len(d.decisions) : d.decisions[i].version < Len(d.evidence)
  <2>1. SUFFICES ASSUME NEW i \in 1..Len(d.decisions)
                 PROVE  d.decisions[i].version < Len(d.evidence)
    OBVIOUS
  <2>2. /\ Len(d.decisions) \in 1..Len(d.decisions) /\ d.decisions # <<>>
        /\ i = Len(d.decisions) \/ i < Len(d.decisions)
    BY <1>2, SeqElement
  <2>3. Last(d.decisions).version < Len(d.evidence)
    BY <1>2, <2>2 DEF Judgeable, DecidedLatest, Last, DefectSound, VersionsIncrease
  <2>4. d.decisions[i].version \in Nat /\ Last(d.decisions).version \in Nat
    BY <1>2, <2>2 DEF ItemDecision, Last
  <2>5. d.decisions[i].version <= Last(d.decisions).version
    BY <2>2, <2>4 DEF Last, DefectSound, VersionsIncrease
  <2> QED BY <1>2, <2>3, <2>4, <2>5
<1>6. VersionsIncrease(e)
  <2>1. SUFFICES ASSUME NEW i \in 1..Len(e.decisions)
                 PROVE  /\ e.decisions[i].version \in 1..Len(e.evidence)
                        /\ \A j \in 1..Len(e.decisions) : i < j =>
                             e.decisions[i].version < e.decisions[j].version
    BY DEF VersionsIncrease
  <2>2. CASE i \in 1..Len(d.decisions)
    BY <1>1, <1>2, <1>4, <1>5, <2>2 DEF DefectSound, VersionsIncrease
  <2>3. CASE i = Len(d.decisions) + 1
    BY <1>1, <1>2, <1>4, <2>3
  <2> QED BY <1>2, <1>4, <2>2, <2>3
<1>7. DecidedLatest(e) /\ Last(e.decisions).accepted = accepted
  BY <1>1, <1>2, <1>4 DEF DecidedLatest, Last
<1>8. e.status = "remediated" /\ e.evidence # <<>>
  BY <1>1 DEF Judgeable
<1>9. e.accepted \in {0, Len(e.evidence)} /\ (e.accepted # 0 <=> accepted)
  BY <1>1, <1>2
<1>10. DefectSound(e)
  <2> HIDE DEF e, decision
  <2> QED BY <1>6, <1>7, <1>8, <1>9 DEF DefectSound
<1> QED BY <1>8, <1>9, <1>10

\* Approval resolves a defect whose newest evidence is accepted.
LEMMA ResolutionSound ==
  ASSUME NEW d \in Defect, DefectSound(d), DefectApproved(d)
  PROVE  DefectSound([d EXCEPT !.status = "resolved", !.resolvedAt = TRUE])
<1> DEFINE e == [d EXCEPT !.status = "resolved", !.resolvedAt = TRUE]
<1>1. /\ e.decisions = d.decisions /\ e.evidence = d.evidence
      /\ e.status = "resolved" /\ e.accepted = d.accepted
  BY DEF Defect
<1>2. Len(d.evidence) \in Nat /\ Len(d.evidence) > 0
  BY SeqElement DEF Defect, DefectApproved
<1> QED BY <1>1, <1>2 DEF DefectSound, VersionsIncrease, DecidedLatest, DefectApproved

\* The commands before testing find no defect and no test to disturb.
LEMMA BaselineSound ==
  ASSUME TypeOK, ReviewSound, NEW now \in Instants,
         PrepareStep(now)
  PROVE  ReviewSound'
<1>1. /\ status \notin Approved \union {"pending_review"}
      /\ status' \notin Approved \union {"pending_review"}
      /\ UNCHANGED <<tests, defects>>
  BY DEF PrepareStep, PrepareBaseline, AddAssetsBatch, LockBaseline, Approved
<1>2. DefectsInStage' /\ FailuresFiled'
  BY <1>1 DEF ReviewSound, DefectsInStage, FailuresFiled, DecidedLatest, Approved
<1>3. (\A d \in 1..Len(defects) : DefectSound(defects[d]))'
  BY <1>1 DEF ReviewSound, DefectSound, VersionsIncrease, DecidedLatest
<1> QED BY <1>1, <1>2, <1>3 DEF ReviewSound

\* A failed test files its defect in the same step; a passing one, none.
LEMMA RecordingSound ==
  ASSUME TypeOK, ReviewSound, NEW now \in Instants,
         NEW actor \in Actors, NEW asset \in 1..Len(assets), NEW kind \in TestKinds,
         NEW reading \in Readings, NEW retestOf \in {NoId} \union 1..Len(tests),
         RecordTest(actor, asset, kind, reading, retestOf, now)
  PROVE  ReviewSound'
<1> DEFINE record == [asset |-> asset, kind |-> kind,
                      result |-> EvaluateTest(assets[asset], kind, reading),
                      recordedBy |-> RecordedBy(actor), retestOf |-> retestOf]
           filed == NewDefect(asset, Len(tests) + 1, SeverityOf(kind))
<1>1. /\ status \notin Approved \union {"pending_review"} /\ status' = status
      /\ tests' = Append(tests, record)
      /\ defects' = IF record.result = "fail" THEN Append(defects, filed) ELSE defects
  BY DEF RecordTest, OpenForWork, Approved, TestsWith, DefectsWith
<1>2. record \in Test
  BY SeqElement DEF TypeOK, Test, EvaluateTest, Results, RecordedBy, Names, NoId
<1>3. /\ Len(tests) \in Nat /\ Len(defects) \in Nat
      /\ Len(tests') = Len(tests) + 1
      /\ \A t \in 1..Len(tests) : tests'[t] = tests[t]
      /\ tests'[Len(tests) + 1] = record
  BY <1>1, <1>2, SeqElement, AppendElement DEF TypeOK
<1>4. /\ asset \in Nat /\ SeverityOf(kind) \in Severities
      /\ filed \in Defect
      /\ DefectSound(filed) /\ filed.status = "open" /\ filed.source = Len(tests) + 1
  <2>1. asset \in Nat /\ Len(tests) + 1 \in Nat /\ SeverityOf(kind) \in Severities
    BY <1>3, SeqElement DEF TypeOK, SeverityOf, Severities
  <2> HIDE DEF filed
  <2> QED BY <2>1, NewDefectTyped, NewDefectSound DEF filed
<1> HIDE DEF record, filed
<1>5. CASE record.result = "fail"
  <2>1. /\ Len(defects') = Len(defects) + 1
        /\ \A d \in 1..Len(defects) : defects'[d] = defects[d]
        /\ defects'[Len(defects) + 1] = filed
    BY <1>1, <1>4, <1>5, AppendElement DEF TypeOK
  <2>2. \A d \in 1..Len(defects') : DefectSound(defects'[d])
    BY <1>3, <1>4, <2>1 DEF ReviewSound
  <2>3. DefectsInStage'
    BY <1>1, <1>3, <1>4, <2>1 DEF ReviewSound, DefectsInStage, Approved
  <2>4. FailuresFiled'
    <3>1. ASSUME NEW t \in 1..Len(tests'), tests'[t].result = "fail"
          PROVE  \E d \in 1..Len(defects') : defects'[d].source = t
      <4>1. CASE t \in 1..Len(tests)
        BY <1>3, <2>1, <3>1, <4>1 DEF ReviewSound, FailuresFiled
      <4>2. CASE t = Len(tests) + 1
        BY <1>3, <1>4, <2>1, <4>2
      <4> QED BY <1>3, <4>1, <4>2
    <3> QED BY <3>1 DEF FailuresFiled
  <2> QED BY <1>1, <2>2, <2>3, <2>4 DEF ReviewSound, DefectSound, VersionsIncrease, DecidedLatest
<1>6. CASE record.result # "fail"
  <2>1. defects' = defects
    BY <1>1, <1>6
  <2>2. FailuresFiled'
    BY <1>3, <1>6, <2>1 DEF ReviewSound, FailuresFiled
  <2> QED BY <1>1, <2>1, <2>2
          DEF ReviewSound, DefectsInStage, DefectSound, VersionsIncrease, DecidedLatest, Approved
<1> QED BY <1>5, <1>6

\* An observed defect is open, and no test asks for it.
LEMMA ObservationSound ==
  ASSUME TypeOK, ReviewSound, NEW now \in Instants,
         NEW asset \in 1..Len(assets), NEW severity \in ObservedSeverities,
         AddObservedDefect(asset, severity, now)
  PROVE  ReviewSound'
<1> DEFINE observed == NewDefect(asset, NoId, severity)
<1>1. /\ status \notin Approved \union {"pending_review"} /\ status' = status
      /\ tests' = tests
      /\ defects' = Append(defects, observed)
  BY DEF AddObservedDefect, OpenForWork, Approved
<1>2. observed \in Defect /\ DefectSound(observed) /\ observed.status = "open"
  <2>1. asset \in Nat /\ NoId \in Nat /\ severity \in Severities
    BY KindAssumption, SeqElement DEF TypeOK, NoId, Severities
  <2> QED BY <2>1, NewDefectTyped, NewDefectSound
<1> HIDE DEF observed
<1>3. /\ Len(defects) \in Nat /\ Len(defects') = Len(defects) + 1
      /\ \A d \in 1..Len(defects) : defects'[d] = defects[d]
      /\ defects'[Len(defects) + 1] = observed
  BY <1>1, <1>2, SeqElement, AppendElement DEF TypeOK
<1>4. \A d \in 1..Len(defects') : DefectSound(defects'[d])
  BY <1>2, <1>3 DEF ReviewSound
<1>5. DefectsInStage'
  BY <1>1, <1>2, <1>3 DEF ReviewSound, DefectsInStage, Approved
<1>6. FailuresFiled'
  BY <1>1, <1>3 DEF ReviewSound, FailuresFiled
<1> QED BY <1>1, <1>4, <1>5, <1>6 DEF ReviewSound, DefectSound, VersionsIncrease, DecidedLatest

\* Replacing one defect by a sound one about the same test, in a stage that
\* allows its state, keeps what is said of all of them.
LEMMA OneDefectChanges ==
  ASSUME TypeOK, ReviewSound, NEW d \in 1..Len(defects), NEW e,
         defects' = [defects EXCEPT ![d] = e],
         DefectSound(e), e.source = defects[d].source, e.status = "remediated",
         status' \notin Approved, status \notin Approved, tests' = tests,
         status' = "pending_review" =>
           status = "pending_review" /\ (DecidedLatest(e) => e.accepted # 0)
  PROVE  /\ (\A x \in 1..Len(defects) : DefectSound(defects[x]))'
         /\ DefectsInStage' /\ FailuresFiled'
<1>1. /\ Len(defects') = Len(defects)
      /\ \A x \in 1..Len(defects) : defects'[x] = IF x = d THEN e ELSE defects[x]
  <2>1. defects \in Seq(Defect)
    BY DEF TypeOK
  <2> QED BY <2>1
<1>2. (\A x \in 1..Len(defects) : DefectSound(defects[x]))'
  <2>1. \A x \in 1..Len(defects') : DefectSound(defects'[x])
    BY <1>1 DEF ReviewSound
  <2> QED BY <2>1 DEF DefectSound, VersionsIncrease, DecidedLatest
<1>3. DefectsInStage'
  <2>1. \A x \in 1..Len(defects') :
          /\ defects'[x].status = "resolved" <=> status' \in Approved
          /\ status' = "pending_review" =>
               /\ defects'[x].status = "remediated"
               /\ DecidedLatest(defects'[x]) => defects'[x].accepted # 0
    BY <1>1 DEF ReviewSound, DefectsInStage
  <2> QED BY <2>1 DEF DefectsInStage, DecidedLatest, Approved
<1>4. FailuresFiled'
  BY <1>1 DEF ReviewSound, FailuresFiled
<1> QED BY <1>2, <1>3, <1>4

\* New evidence is about one defect, and leaves its test and stage alone.
LEMMA RemediatingSound ==
  ASSUME TypeOK, ReviewSound, NEW now \in Instants,
         NEW d \in 1..Len(defects), NEW content \in Contents,
         RemediateDefect(d, content, now)
  PROVE  ReviewSound'
<1> DEFINE e == [defects[d] EXCEPT !.evidence = Append(@, NormalizeText[content]),
                                   !.status = "remediated", !.accepted = 0]
<1>1. defects[d] \in Defect /\ DefectSound(defects[d]) /\ NormalizeText[content] \in Evidence
  BY SeqElement DEF TypeOK, ReviewSound, Evidence
<1>2. /\ status \notin Approved \union {"pending_review"} /\ status' = status
      /\ tests' = tests
  BY DEF RemediateDefect, OpenForWork, Approved
<1>3. defects' = [defects EXCEPT ![d] = e]
  BY <1>1 DEF RemediateDefect, Defect
<1>4. DefectSound(e)
  BY <1>1, RemediationSound
<1>5. e.source = defects[d].source /\ e.status = "remediated"
  BY <1>1 DEF Defect
<1> HIDE DEF e
<1>6. /\ (\A x \in 1..Len(defects) : DefectSound(defects[x]))'
      /\ DefectsInStage' /\ FailuresFiled'
  BY <1>2, <1>3, <1>4, <1>5, OneDefectChanges
<1> QED BY <1>2, <1>6 DEF ReviewSound

\* A decision is about one defect; only an acceptance leaves the case in review.
LEMMA JudgingSound ==
  ASSUME TypeOK, ReviewSound, NEW now \in Instants, NEW actor \in Actors,
         NEW d \in 1..Len(defects), NEW accepted \in BOOLEAN,
         ReviewDefect(actor, d, accepted, now)
  PROVE  ReviewSound'
<1> DEFINE decision == [version |-> Len(defects[d].evidence),
                        reviewer |-> NormalizeText[actor], accepted |-> accepted]
           e == [defects[d] EXCEPT !.decisions = Append(@, decision),
                   !.accepted = IF accepted THEN Len(defects[d].evidence) ELSE 0]
<1>1. /\ defects[d] \in Defect /\ DefectSound(defects[d]) /\ Judgeable(defects[d])
      /\ NormalizeText[actor] \in Names
  BY SeqElement DEF TypeOK, ReviewSound, ReviewDefect, Names
<1>2. /\ status = "pending_review" /\ status' \notin Approved /\ status \notin Approved
      /\ status' = "pending_review" => accepted
      /\ assets' = assets /\ tests' = tests
  BY DEF ReviewDefect, Approved
<1>3. defects' = [defects EXCEPT ![d] = e]
  BY <1>1 DEF ReviewDefect, Defect
<1>4. DefectSound(e) /\ (accepted => e.accepted # 0) /\ e.status = "remediated"
  BY <1>1, JudgementSound
<1>5. e.source = defects[d].source
  BY <1>1 DEF Defect
<1> HIDE DEF e, decision
<1>6. /\ (\A x \in 1..Len(defects) : DefectSound(defects[x]))'
      /\ DefectsInStage' /\ FailuresFiled'
  BY <1>2, <1>3, <1>4, <1>5, OneDefectChanges
<1>7. CoverageComplete'
  BY <1>2 DEF ReviewSound, CoverageComplete
<1> QED BY <1>6, <1>7 DEF ReviewSound

\* Submission and return change the stage alone.
LEMMA StageChangeSound ==
  ASSUME TypeOK, ReviewSound, NEW now \in Instants,
         SubmitForReview(now) \/ \E actor \in Actors : ReturnReview(actor, now)
  PROVE  ReviewSound'
<1>1. UNCHANGED <<assets, tests, defects>> /\ status \notin Approved /\ status' \notin Approved
  BY DEF SubmitForReview, ReturnReview, OpenForWork, Approved
<1>2. (\A x \in 1..Len(defects) : DefectSound(defects[x]))'
  BY <1>1 DEF ReviewSound, DefectSound, VersionsIncrease, DecidedLatest
<1>3. FailuresFiled'
  BY <1>1 DEF ReviewSound, FailuresFiled
<1>4. CASE SubmitForReview(now)
  <2>1. \A x \in 1..Len(defects) :
          /\ defects[x].status = "remediated"
          /\ DecidedLatest(defects[x]) => defects[x].accepted # 0
    <3>1. SUFFICES ASSUME NEW x \in 1..Len(defects)
                   PROVE  /\ defects[x].status = "remediated"
                          /\ DecidedLatest(defects[x]) => defects[x].accepted # 0
      OBVIOUS
    <3>2. /\ defects[x] \in Defect /\ DefectSubmittable(defects[x])
          /\ defects[x].status # "resolved" /\ DefectSound(defects[x])
      BY <1>1, <1>4, SeqElement DEF TypeOK, SubmitForReview, ReviewSound, DefectsInStage
    <3> QED BY <3>2 DEF DefectSubmittable, DefectSound, Defect, DefectStatuses
  <2>2. DefectsInStage'
    BY <1>1, <2>1 DEF ReviewSound, DefectsInStage, DecidedLatest, Approved
  <2>3. CoverageComplete'
    BY <1>1, <1>4 DEF SubmitForReview, CoverageComplete
  <2> QED BY <1>2, <1>3, <2>2, <2>3 DEF ReviewSound
<1>5. CASE \E actor \in Actors : ReturnReview(actor, now)
  <2>1. status' = "returned"
    BY <1>5 DEF ReturnReview
  <2>2. DefectsInStage'
    BY <1>1, <2>1 DEF ReviewSound, DefectsInStage, Approved
  <2> QED BY <1>2, <1>3, <2>1, <2>2 DEF ReviewSound, Approved
<1> QED BY <1>4, <1>5

\* Approval resolves every defect at once; sealing and releasing touch none.
LEMMA ApprovalSound ==
  ASSUME TypeOK, ReviewSound, NEW now \in Instants, NEW actor \in Actors,
         \/ ApproveReview(actor, now)
         \/ FreezeReport(actor, now)
         \/ IssueCertificate(actor, now)
  PROVE  ReviewSound'
<1>1. CASE ApproveReview(actor, now)
  <2> DEFINE e(d) == [defects[d] EXCEPT !.status = "resolved", !.resolvedAt = TRUE]
  <2>1. /\ status = "pending_review" /\ status' = "reviewed" /\ UNCHANGED <<assets, tests>>
        /\ defects' = [d \in 1..Len(defects) |-> e(d)]
        /\ \A d \in 1..Len(defects) : DefectApproved(defects[d])
    BY <1>1 DEF ApproveReview
  <2>2. Len(defects) \in Nat /\ \A d \in 1..Len(defects) : defects[d] \in Defect
    BY SeqElement DEF TypeOK
  <2>3. \A d \in 1..Len(defects) :
          /\ DefectSound(e(d)) /\ e(d).status = "resolved" /\ e(d).source = defects[d].source
    <3>1. \A d \in 1..Len(defects) : DefectSound(e(d))
      BY <2>1, <2>2, ResolutionSound DEF ReviewSound
    <3> QED BY <2>2, <3>1 DEF Defect
  <2> HIDE DEF e
  <2>4. Len(defects') = Len(defects) /\ \A d \in 1..Len(defects) : defects'[d] = e(d)
    BY <2>1, <2>2
  <2>5. (\A x \in 1..Len(defects) : DefectSound(defects[x]))'
    <3>1. \A x \in 1..Len(defects') : DefectSound(defects'[x])
      BY <2>3, <2>4
    <3> QED BY <3>1 DEF DefectSound, VersionsIncrease, DecidedLatest
  <2>6. DefectsInStage'
    BY <2>1, <2>3, <2>4 DEF DefectsInStage, Approved
  <2>7. FailuresFiled'
    <3>1. ASSUME NEW t \in 1..Len(tests), tests[t].result = "fail"
          PROVE  \E d \in 1..Len(defects) : defects'[d].source = t
      <4>1. PICK d \in 1..Len(defects) : defects[d].source = t
        BY <3>1 DEF ReviewSound, FailuresFiled
      <4> QED BY <2>3, <2>4, <4>1
    <3> QED BY <2>1, <2>4, <3>1 DEF FailuresFiled
  <2>8. CoverageComplete'
    BY <2>1 DEF ReviewSound, CoverageComplete
  <2> QED BY <2>5, <2>6, <2>7, <2>8 DEF ReviewSound
<1>2. CASE FreezeReport(actor, now) \/ IssueCertificate(actor, now)
  <2>1. status \in Approved /\ status' \in Approved /\ UNCHANGED <<assets, tests, defects>>
    BY <1>2 DEF FreezeReport, IssueCertificate, Approved
  <2>2. DefectsInStage'
    BY <2>1 DEF ReviewSound, DefectsInStage, Approved
  <2>3. CoverageComplete' /\ FailuresFiled'
    BY <2>1 DEF ReviewSound, CoverageComplete, FailuresFiled
  <2>4. (\A x \in 1..Len(defects) : DefectSound(defects[x]))'
    BY <2>1 DEF ReviewSound, DefectSound, VersionsIncrease, DecidedLatest
  <2> QED BY <2>2, <2>3, <2>4 DEF ReviewSound
<1> QED BY <1>1, <1>2

\* ReviewSound is an invariant of the case, together with its types.
THEOREM Soundness == Spec => []ReviewSound
<1>1. Init => ReviewSound
  BY DEF Init, ReviewSound, DefectsInStage, FailuresFiled, Approved
<1>2. TypeOK /\ ReviewSound /\ [Next]_vars => ReviewSound'
  <2> SUFFICES ASSUME TypeOK, ReviewSound, [Next]_vars PROVE ReviewSound'
    OBVIOUS
  <2>1. CASE UNCHANGED vars
    BY <2>1 DEF ReviewSound, DefectsInStage, FailuresFiled, CoverageComplete, DefectSound,
                VersionsIncrease, DecidedLatest, Approved, vars
  <2>2. CASE Next
    BY <2>2, BaselineSound, RecordingSound, ObservationSound, RemediatingSound,
       StageChangeSound, JudgingSound, ApprovalSound
       DEF Next, WorkStep, ReviewStep, ReleaseStep
  <2> QED BY <2>1, <2>2
<1> QED BY <1>1, <1>2, Typing, PTL DEF Spec

\* A case under review can always be decided, however often it came back.
THEOREM ReviewAlwaysFinishes == Spec => []ReviewCanFinish
<1>1. TypeOK /\ ReviewSound => ReviewCanFinish
  BY ReviewSoundSuffices
<1> QED BY <1>1, Typing, Soundness, PTL

\* No approval, report or certificate without full coverage, a defect for every
\* failed test, and an acceptance of the newest evidence of every defect.
THEOREM ReleaseAlwaysEarned == Spec => []ReleaseEarned
<1>1. TypeOK /\ ReviewSound => ReleaseEarned
  BY ReviewSoundSuffices
<1> QED BY <1>1, Typing, Soundness, PTL

\* No piece of evidence is ever judged twice.
THEOREM AlwaysJudgedOnce == Spec => []JudgedOnce
<1>1. TypeOK /\ ReviewSound => JudgedOnce
  BY ReviewSoundSuffices
<1> QED BY <1>1, Typing, Soundness, PTL

-----------------------------------------------------------------------------
(* Independence *)

\* What ensureIndependent takes for granted: storing a name does not change
\* who it is compared equal to.  NormalizeText collapses inner white space and
\* TrimSpace does not, so the code cannot promise this for every spelling.
CleanSpelling == \A a \in Actors : FoldName[NormalizeText[a]] = FoldName[a]

Independence ==
  review # Nil /\ review.approved =>
    /\ status \in Approved
    /\ \A t \in 1..Len(tests) : FoldName[tests[t].recordedBy] # FoldName[review.reviewer]

\* Provided names are spelled cleanly, an approval never comes to rest on a
\* reviewer who recorded a test of the case, before the approval or after it.
THEOREM ApproverAlwaysIndependent ==
  ASSUME CleanSpelling
  PROVE  Spec => []ApproverIndependent
<1>1. Init => Independence
  BY DEF Init, Independence
<1>2. Independence /\ [Next]_vars => Independence'
  <2> SUFFICES ASSUME Independence, [Next]_vars PROVE Independence'
    OBVIOUS
  <2>1. CASE UNCHANGED vars
    BY <2>1 DEF Independence, vars
  <2>2. ASSUME NEW now \in Instants, NEW actor \in Actors, ApproveReview(actor, now)
        PROVE  Independence'
    BY <2>2 DEF ApproveReview, EnsureIndependent, SameName, Decision, Independence, Approved,
                CleanSpelling
  <2>3. ASSUME NEW now \in Instants,
               \/ \E actor \in Actors : ReturnReview(actor, now)
               \/ SubmitForReview(now)
        PROVE  Independence'
    BY <2>3 DEF ReturnReview, SubmitForReview, Decision, Independence
  <2>4. ASSUME NEW now \in Instants, NEW actor \in Actors, NEW d \in 1..Len(defects),
               NEW accepted \in BOOLEAN, ReviewDefect(actor, d, accepted, now)
        PROVE  Independence'
    <3>1. ~(review # Nil /\ review.approved)
      BY <2>4 DEF ReviewDefect, Independence, Approved
    <3>2. review' = review \/ ~review'.approved
      BY <2>4 DEF ReviewDefect, Decision
    <3> QED BY <3>1, <3>2 DEF Independence
  <2>5. ASSUME NEW now \in Instants, NEW actor \in Actors,
               FreezeReport(actor, now) \/ IssueCertificate(actor, now)
        PROVE  Independence'
    BY <2>5 DEF FreezeReport, IssueCertificate, Independence, Approved
  <2>6. ASSUME status \notin Approved, review' = review
        PROVE  Independence'
    BY <2>6 DEF Independence
  <2>7. ASSUME NEW now \in Instants, PrepareStep(now)
        PROVE  Independence'
    BY <2>6, <2>7 DEF PrepareStep, PrepareBaseline, AddAssetsBatch, LockBaseline, Approved
  <2>8. ASSUME NEW now \in Instants, WorkStep(now)
        PROVE  Independence'
    <3>1. OpenForWork /\ review' = review
      <4>1. ASSUME NEW actor \in Actors, NEW asset \in 1..Len(assets), NEW kind \in TestKinds,
                   NEW reading \in Readings, NEW retestOf \in {NoId} \union 1..Len(tests),
                   RecordTest(actor, asset, kind, reading, retestOf, now)
            PROVE  OpenForWork /\ review' = review
        BY <4>1 DEF RecordTest
      <4>2. ASSUME NEW asset \in 1..Len(assets), NEW severity \in ObservedSeverities,
                   AddObservedDefect(asset, severity, now)
            PROVE  OpenForWork /\ review' = review
        BY <4>2 DEF AddObservedDefect
      <4>3. ASSUME NEW d \in 1..Len(defects), NEW content \in Contents,
                   RemediateDefect(d, content, now)
            PROVE  OpenForWork /\ review' = review
        BY <4>3 DEF RemediateDefect
      <4> QED BY <2>8, <4>1, <4>2, <4>3 DEF WorkStep
    <3> QED BY <2>6, <3>1 DEF OpenForWork, Approved
  <2> QED BY <2>1, <2>2, <2>3, <2>4, <2>5, <2>7, <2>8 DEF Next, ReviewStep, ReleaseStep
<1>3. Independence => ApproverIndependent
  BY DEF Independence, ApproverIndependent
<1> QED BY <1>1, <1>2, <1>3, PTL DEF Spec
=============================================================================
