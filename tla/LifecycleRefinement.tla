-------------------------- MODULE LifecycleRefinement --------------------------
(***************************************************************************)
(* InspectionCase implements CaseLifecycle: initial states map to the      *)
(* initial state, and every command maps to one step of the lifecycle or   *)
(* to none.  Recording and observing, submission, return, rejection,       *)
(* approval, freezing and issuing are steps; the baseline, new evidence    *)
(* and accepted evidence are not visible.                                  *)
(***************************************************************************)
EXTENDS InspectionCaseProofs

Mapped == Lifecycle!vars

-----------------------------------------------------------------------------
(* The views of tests and defects *)

\* The results of a longer list of tests are those of the shorter and one more.
LEMMA MeasuredAppend ==
  ASSUME NEW ts \in Seq(Test), NEW test \in Test
  PROVE  Measured(Append(ts, test)) = Append(Measured(ts), test.result)
<1>1. /\ Len(ts) \in Nat /\ Len(Append(ts, test)) = Len(ts) + 1
      /\ \A t \in 1..Len(ts) : Append(ts, test)[t] = ts[t] /\ ts[t].result \in Results
      /\ Append(ts, test)[Len(ts) + 1] = test /\ test.result \in Results
  <2>1. \A t \in 1..Len(ts) : ts[t] \in Test
    BY SeqElement
  <2> QED BY <2>1, SeqElement, AppendElement DEF Test
<1>2. Measured(ts) \in Seq(Results) /\ Len(Measured(ts)) = Len(ts)
  BY <1>1, FunctionIsSeq DEF Measured
<1>3. /\ Append(Measured(ts), test.result) \in Seq(Results)
      /\ Len(Append(Measured(ts), test.result)) = Len(ts) + 1
  BY <1>1, <1>2, AppendElement
<1>4. /\ Measured(Append(ts, test)) \in Seq(Results)
      /\ Len(Measured(Append(ts, test))) = Len(ts) + 1
  <2>1. \A t \in 1..Len(ts) + 1 : Append(ts, test)[t].result \in Results
    BY <1>1
  <2> QED BY <1>1, <2>1, FunctionIsSeq DEF Measured
<1>5. \A t \in 1..Len(ts) + 1 :
        Measured(Append(ts, test))[t] = Append(Measured(ts), test.result)[t]
  <2>1. \A t \in 1..Len(ts) : Append(Measured(ts), test.result)[t] = ts[t].result
    BY <1>1, <1>2, AppendElement DEF Measured
  <2>2. Append(Measured(ts), test.result)[Len(ts) + 1] = test.result
    BY <1>1, <1>2, AppendElement
  <2>3. \A t \in 1..Len(ts) + 1 : Measured(Append(ts, test))[t] = Append(ts, test)[t].result
    BY <1>1 DEF Measured
  <2>4. SUFFICES ASSUME NEW t \in 1..Len(ts) + 1
                 PROVE  Measured(Append(ts, test))[t] = Append(Measured(ts), test.result)[t]
    OBVIOUS
  <2>5. t \in 1..Len(ts) \/ t = Len(ts) + 1
    BY <1>1
  <2>6. CASE t \in 1..Len(ts)
    BY <1>1, <2>1, <2>3, <2>6
  <2>7. CASE t = Len(ts) + 1
    BY <1>1, <2>2, <2>3, <2>7
  <2> QED BY <2>5, <2>6, <2>7
<1> QED BY <1>3, <1>4, <1>5, SeqEqual

\* A new defect is a new finding that is not settled.
LEMMA SettledAppend ==
  ASSUME NEW ds \in Seq(Defect), NEW defect \in Defect, defect.status = "open"
  PROVE  Settled(Append(ds, defect)) = Append(Settled(ds), FALSE)
<1>1. /\ Len(ds) \in Nat /\ Len(Append(ds, defect)) = Len(ds) + 1
      /\ \A d \in 1..Len(ds) : Append(ds, defect)[d] = ds[d]
      /\ Append(ds, defect)[Len(ds) + 1] = defect
  BY SeqElement, AppendElement
<1>2. Settled(ds) \in Seq(BOOLEAN) /\ Len(Settled(ds)) = Len(ds)
  BY <1>1, FunctionIsSeq DEF Settled
<1>3. /\ Append(Settled(ds), FALSE) \in Seq(BOOLEAN)
      /\ Len(Append(Settled(ds), FALSE)) = Len(ds) + 1
  BY <1>1, <1>2, AppendElement
<1>4. /\ Settled(Append(ds, defect)) \in Seq(BOOLEAN)
      /\ Len(Settled(Append(ds, defect))) = Len(ds) + 1
  BY <1>1, FunctionIsSeq DEF Settled
<1>5. \A d \in 1..Len(ds) + 1 :
        Settled(Append(ds, defect))[d] = Append(Settled(ds), FALSE)[d]
  <2>1. \A d \in 1..Len(ds) : Append(Settled(ds), FALSE)[d] = (ds[d].status = "resolved")
    BY <1>1, <1>2, AppendElement DEF Settled
  <2>2. Append(Settled(ds), FALSE)[Len(ds) + 1] = FALSE
    BY <1>1, <1>2, AppendElement
  <2>3. \A d \in 1..Len(ds) + 1 :
          Settled(Append(ds, defect))[d] = (Append(ds, defect)[d].status = "resolved")
    BY <1>1 DEF Settled
  <2>4. SUFFICES ASSUME NEW d \in 1..Len(ds) + 1
                 PROVE  Settled(Append(ds, defect))[d] = Append(Settled(ds), FALSE)[d]
    OBVIOUS
  <2>5. d \in 1..Len(ds) \/ d = Len(ds) + 1
    BY <1>1
  <2>6. CASE d \in 1..Len(ds)
    BY <1>1, <2>1, <2>3, <2>6
  <2>7. CASE d = Len(ds) + 1
    BY <1>1, <2>2, <2>3, <2>7
  <2> QED BY <2>5, <2>6, <2>7
<1> QED BY <1>3, <1>4, <1>5, SeqEqual

\* Changing one defect without resolving or reopening it settles nothing.
LEMMA SettledExcept ==
  ASSUME NEW ds \in Seq(Defect), NEW d \in 1..Len(ds), NEW e,
         e.status = "resolved" <=> ds[d].status = "resolved"
  PROVE  Settled([ds EXCEPT ![d] = e]) = Settled(ds)
<1>1. Len([ds EXCEPT ![d] = e]) = Len(ds)
  OBVIOUS
<1>2. \A x \in 1..Len(ds) : [ds EXCEPT ![d] = e][x] = IF x = d THEN e ELSE ds[x]
  BY SeqElement
<1> QED BY <1>1, <1>2 DEF Settled

-----------------------------------------------------------------------------
(* Commands *)

\* A command that touches nothing the lifecycle sees is no step of it.
LEMMA Invisible ==
  ASSUME Phase' = Phase, tests' = tests, Settled(defects)' = Settled(defects),
         report' = report, certificate' = certificate
  PROVE  UNCHANGED Mapped
  BY DEF Mapped, Lifecycle!vars, Measured

\* Preparing the baseline is not visible.
LEMMA PrepareImplements ==
  ASSUME NEW now \in Instants, PrepareStep(now)
  PROVE  UNCHANGED Mapped
<1>1. /\ Phase' = "open" /\ Phase = "open"
      /\ tests' = tests /\ defects' = defects /\ report' = report
      /\ certificate' = certificate
  BY DEF PrepareStep, PrepareBaseline, AddAssetsBatch, LockBaseline, Phase
<1>2. Settled(defects)' = Settled(defects)
  BY <1>1 DEF Settled
<1> QED BY <1>1, <1>2, Invisible

\* Recording is a measurement, observing a finding; new evidence is not visible.
LEMMA WorkImplements ==
  ASSUME TypeOK, NEW now \in Instants, WorkStep(now)
  PROVE  [Lifecycle!Next]_Mapped
<1>1. ASSUME NEW actor \in Actors, NEW asset \in 1..Len(assets), NEW kind \in TestKinds,
             NEW reading \in Readings, NEW retestOf \in {NoId} \union 1..Len(tests),
             RecordTest(actor, asset, kind, reading, retestOf, now)
      PROVE  Lifecycle!Next
  <2> DEFINE record == [asset |-> asset, kind |-> kind,
                        result |-> EvaluateTest(assets[asset], kind, reading),
                        recordedBy |-> RecordedBy(actor), retestOf |-> retestOf]
             filed == NewDefect(asset, Len(tests) + 1, SeverityOf(kind))
  <2>1. /\ Phase' = Phase /\ Phase = "open"
        /\ tests' = Append(tests, record)
        /\ defects' = IF record.result = "fail" THEN Append(defects, filed) ELSE defects
        /\ report' = report /\ certificate' = certificate
    BY <1>1 DEF RecordTest, OpenForWork, Phase, TestsWith, DefectsWith
  <2>2. record \in Test /\ record.result \in {"pass", "fail"}
    BY SeqElement DEF TypeOK, Test, EvaluateTest, Results, RecordedBy, Names, NoId
  <2>3. filed \in Defect /\ filed.status = "open"
    <3>1. asset \in Nat /\ Len(tests) + 1 \in Nat /\ SeverityOf(kind) \in Severities
      BY SeqElement DEF TypeOK, SeverityOf, Severities
    <3> HIDE DEF filed
    <3> QED BY <3>1, NewDefectTyped, NewDefectSound DEF filed
  <2> HIDE DEF record, filed
  <2>4. Measured(tests') = Append(Measured(tests), record.result)
    BY <2>1, <2>2, MeasuredAppend DEF TypeOK
  <2>5. Settled(defects') = IF record.result = "fail" THEN Append(Settled(defects), FALSE)
                            ELSE Settled(defects)
    BY <2>1, <2>3, SettledAppend DEF TypeOK
  <2>6. Measured(tests)' = Measured(tests') /\ Settled(defects)' = Settled(defects')
    BY DEF Measured, Settled
  <2>7. Lifecycle!Measure(record.result)
    BY <2>1, <2>4, <2>5, <2>6 DEF Lifecycle!Measure
  <2> QED BY <2>2, <2>7 DEF Lifecycle!Next
<1>2. ASSUME NEW asset \in 1..Len(assets), NEW severity \in ObservedSeverities,
             AddObservedDefect(asset, severity, now)
      PROVE  Lifecycle!Next
  <2> DEFINE observed == NewDefect(asset, NoId, severity)
  <2>1. /\ Phase' = Phase /\ Phase = "open"
        /\ tests' = tests /\ defects' = Append(defects, observed)
        /\ report' = report /\ certificate' = certificate
    BY <1>2 DEF AddObservedDefect, OpenForWork, Phase
  <2>2. observed \in Defect /\ observed.status = "open"
    <3>1. asset \in Nat /\ NoId \in Nat /\ severity \in Severities
      BY KindAssumption, SeqElement DEF TypeOK, NoId, Severities
    <3> QED BY <3>1, NewDefectTyped, NewDefectSound
  <2> HIDE DEF observed
  <2>3. Settled(defects') = Append(Settled(defects), FALSE)
    BY <2>1, <2>2, SettledAppend DEF TypeOK
  <2>4. Measured(tests)' = Measured(tests) /\ Settled(defects)' = Settled(defects')
    BY <2>1 DEF Measured, Settled
  <2> QED BY <2>1, <2>3, <2>4 DEF Lifecycle!Observe, Lifecycle!Next
<1>3. ASSUME NEW d \in 1..Len(defects), NEW content \in Contents, RemediateDefect(d, content, now)
      PROVE  UNCHANGED Mapped
  <2> DEFINE e == [defects[d] EXCEPT !.evidence = Append(@, NormalizeText[content]),
                                     !.status = "remediated", !.accepted = 0]
  <2>1. defects \in Seq(Defect) /\ defects[d] \in Defect
    BY SeqElement DEF TypeOK
  <2>2. /\ defects[d].status # "resolved" /\ e.status # "resolved"
        /\ defects' = [defects EXCEPT ![d] = e]
    BY <1>3, <2>1 DEF RemediateDefect, Defect
  <2>3. /\ Phase' = Phase /\ tests' = tests /\ report' = report /\ certificate' = certificate
    BY <1>3 DEF RemediateDefect, Phase
  <2> HIDE DEF e
  <2>4. Settled(defects') = Settled(defects)
    BY <2>1, <2>2, SettledExcept
  <2>5. Settled(defects)' = Settled(defects')
    BY DEF Settled
  <2> QED BY <2>3, <2>4, <2>5, Invisible
<1> QED BY <1>1, <1>2, <1>3 DEF WorkStep

\* Submission, return, rejection and approval are steps; acceptance is not.
LEMMA ReviewImplements ==
  ASSUME TypeOK, ReviewSound, NEW now \in Instants, ReviewStep(now)
  PROVE  [Lifecycle!Next]_Mapped
<1>1. CASE SubmitForReview(now)
  <2>1. /\ Phase = "open" /\ Phase' = "under_review"
        /\ UNCHANGED <<tests, defects, report, certificate>>
    BY <1>1 DEF SubmitForReview, OpenForWork, Phase
  <2> QED BY <2>1 DEF Lifecycle!Submit, Lifecycle!Next, Measured, Settled
<1>2. ASSUME NEW actor \in Actors, ReturnReview(actor, now)
      PROVE  Lifecycle!Next
  <2>1. /\ Phase = "under_review" /\ Phase' = "open"
        /\ UNCHANGED <<tests, defects, report, certificate>>
    BY <1>2 DEF ReturnReview, Phase
  <2> QED BY <2>1 DEF Lifecycle!SendBack, Lifecycle!Next, Measured, Settled
<1>3. ASSUME NEW actor \in Actors, NEW d \in 1..Len(defects), NEW accepted \in BOOLEAN,
             ReviewDefect(actor, d, accepted, now)
      PROVE  [Lifecycle!Next]_Mapped
  <2> DEFINE decision == [version |-> Len(defects[d].evidence),
                          reviewer |-> NormalizeText[actor], accepted |-> accepted]
             e == [defects[d] EXCEPT !.decisions = Append(@, decision),
                     !.accepted = IF accepted THEN Len(defects[d].evidence) ELSE 0]
  <2>1. defects \in Seq(Defect) /\ defects[d] \in Defect
    BY SeqElement DEF TypeOK
  <2>2. e.status = defects[d].status /\ defects' = [defects EXCEPT ![d] = e]
    BY <1>3, <2>1 DEF ReviewDefect, Defect
  <2>3. /\ Phase = "under_review"
        /\ Phase' = IF accepted THEN "under_review" ELSE "open"
        /\ UNCHANGED <<tests, report, certificate>>
    BY <1>3 DEF ReviewDefect, Phase
  <2> HIDE DEF e, decision
  <2>4. Settled(defects') = Settled(defects)
    BY <2>1, <2>2, SettledExcept
  <2>5. Settled(defects)' = Settled(defects') /\ Measured(tests)' = Measured(tests)
    BY <2>3 DEF Settled, Measured
  <2>6. CASE accepted
    BY <2>3, <2>4, <2>5, <2>6, Invisible
  <2>7. CASE ~accepted
    BY <2>3, <2>4, <2>5, <2>7 DEF Lifecycle!SendBack, Lifecycle!Next
  <2> QED BY <2>6, <2>7
<1>4. ASSUME NEW actor \in Actors, ApproveReview(actor, now)
      PROVE  Lifecycle!Next
  <2>1. /\ Phase = "under_review" /\ Phase' = "approved"
        /\ UNCHANGED <<tests, report, certificate>>
        /\ defects' = [d \in 1..Len(defects) |->
             [defects[d] EXCEPT !.status = "resolved", !.resolvedAt = TRUE]]
    BY <1>4 DEF ApproveReview, Phase
  <2>2. Len(defects) \in Nat /\ \A d \in 1..Len(defects) : defects[d] \in Defect
    BY SeqElement DEF TypeOK
  <2>3. Len(defects') = Len(defects) /\ \A d \in 1..Len(defects) : defects'[d].status = "resolved"
    <3>1. \A d \in 1..Len(defects) :
            /\ defects'[d] = [defects[d] EXCEPT !.status = "resolved", !.resolvedAt = TRUE]
            /\ defects'[d].status = "resolved"
      BY <2>1, <2>2 DEF Defect
    <3>2. Len(defects') = Len(defects)
      <4> DEFINE resolved(d) == [defects[d] EXCEPT !.status = "resolved", !.resolvedAt = TRUE]
      <4>1. defects' = [d \in 1..Len(defects) |-> resolved(d)]
        BY <2>1
      <4> HIDE DEF resolved
      <4> QED BY <2>2, <4>1
    <3> QED BY <3>1, <3>2
  <2>4. Len(Settled(defects)) = Len(defects)
    BY <2>2 DEF Settled
  <2>5. Settled(defects)' = [f \in 1..Len(Settled(defects)) |-> TRUE]
    BY <2>3, <2>4 DEF Settled
  <2>6. Measured(tests)' = Measured(tests)
    BY <2>1 DEF Measured
  <2> QED BY <2>1, <2>5, <2>6 DEF Lifecycle!Approve, Lifecycle!Next
<1> QED BY <1>1, <1>2, <1>3, <1>4 DEF ReviewStep

\* Freezing seals what was approved; issuing releases the seal.
LEMMA ReleaseImplements ==
  ASSUME TypeOK, NEW now \in Instants, ReleaseStep(now)
  PROVE  Lifecycle!Next
<1>1. ASSUME NEW actor \in Actors, FreezeReport(actor, now)
      PROVE  Lifecycle!Next
  <2>1. /\ Phase = "approved" /\ Phase' = "sealed"
        /\ UNCHANGED <<tests, defects, certificate>>
        /\ report'.content = Document
    BY <1>1 DEF FreezeReport, Phase
  <2>2. report' # Nil
    <3>1. TypeOK'
      BY <1>1, ReleaseTyped DEF ReleaseStep
    <3>2. Document \in Documents
      BY DEF TypeOK, Document, Documents
    <3>3. report' \in FrozenReport
      <4>1. Digest(Document) \in [sha256 : Documents]
        BY <3>2 DEF Digest
      <4> QED BY <1>1, <3>2, <4>1 DEF FreezeReport, FrozenReport, Names, TypeOK
    <3> QED BY <3>3, NilAssumption
  <2>3. SealOf(report'.content) = [measured |-> Measured(tests), findings |-> Settled(defects)]
    BY <2>1 DEF SealOf, Document
  <2>4. SealOf(report.content)' = SealOf(report'.content)
    BY DEF SealOf, Measured, Settled
  <2> QED BY <2>1, <2>2, <2>3, <2>4
          DEF Lifecycle!Seal, Lifecycle!Next, Measured, Settled, SealOf
<1>2. ASSUME NEW actor \in Actors, IssueCertificate(actor, now)
      PROVE  Lifecycle!Next
  <2>1. /\ Phase = "sealed" /\ Phase' = "released"
        /\ UNCHANGED <<tests, defects, report>>
        /\ report # Nil /\ certificate'.reportDigest = report.digest
        /\ report.digest.sha256 = report.content
    BY <1>2 DEF IssueCertificate, Phase, VerifyReport, Digest
  <2>2. certificate' # Nil
    <3>1. report \in FrozenReport
      BY <2>1 DEF TypeOK
    <3>2. report.digest \in [sha256 : Documents]
      BY <3>1 DEF FrozenReport
    <3>3. CertificateDigest(report.digest, now) \in
            [sha256 : [reportDigest : [sha256 : Documents], issuedAt : Instants]]
      BY <3>2 DEF CertificateDigest, Digest
    <3>4. certificate' \in Certificate
      BY <1>2, <3>2, <3>3 DEF IssueCertificate, Certificate, Names
    <3> QED BY <3>4, NilAssumption
  <2>3. SealOf(certificate.reportDigest.sha256)' = SealOf(report.content)
    BY <2>1 DEF SealOf, Measured, Settled
  <2>4. /\ Measured(tests)' = Measured(tests) /\ Settled(defects)' = Settled(defects)
        /\ (IF report = Nil THEN Nil ELSE SealOf(report.content))' = SealOf(report.content)
    BY <2>1 DEF Measured, Settled, SealOf
  <2> QED BY <2>1, <2>2, <2>3, <2>4 DEF Lifecycle!Release, Lifecycle!Next
<1> QED BY <1>1, <1>2 DEF ReleaseStep

\* The case keeps the promises of its lifecycle: what a certificate names is
\* what was sealed, what was sealed is what was approved, every failed test has
\* left a finding, and nothing changes after approval.
THEOREM LifecycleKept == Spec => KeepsLifecycle
<1>1. Init => Lifecycle!Init
  BY DEF Init, Lifecycle!Init, Phase, Measured, Settled
<1>2. TypeOK /\ ReviewSound /\ [Next]_vars => [Lifecycle!Next]_Mapped
  <2> SUFFICES ASSUME TypeOK, ReviewSound, [Next]_vars PROVE [Lifecycle!Next]_Mapped
    OBVIOUS
  <2>1. CASE UNCHANGED vars
    BY <2>1 DEF vars, Mapped, Lifecycle!vars, Phase, Measured, Settled, SealOf
  <2>2. CASE Next
    BY <2>2, PrepareImplements, WorkImplements, ReviewImplements, ReleaseImplements DEF Next
  <2> QED BY <2>1, <2>2
<1> QED BY <1>1, <1>2, Typing, Soundness, PTL DEF Spec, KeepsLifecycle, Lifecycle!Spec, Mapped
=============================================================================
