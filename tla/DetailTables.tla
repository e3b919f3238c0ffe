------------------------------ MODULE DetailTables ------------------------------
(***************************************************************************)
(* The rows that repository.Commit keeps of a case beside its snapshot.    *)
(* Every accepted command deletes them all and writes them again, statement *)
(* by statement (replaceDetails), under the keys and references of         *)
(* schema.go; one statement that fails loses the command.  What the rows   *)
(* say is compared with the snapshot by validateMaterializedView whenever  *)
(* the store is opened or a certificate is verified.                       *)
(***************************************************************************)
EXTENDS InspectionCase

VARIABLES
  tables,   \* the rows of this case, of all eight tables
  refused   \* the last command was accepted and could not be stored

storedVars == <<vars, tables, refused>>

-----------------------------------------------------------------------------
(* Rows: the unique keys they take, what they refer to, and their columns.  *)
(* A row goes with the rows it is "under" (ON DELETE CASCADE), and blocks   *)
(* the deletion of those it rests "on".                                     *)

Tables == {"rigging_assets", "load_test_records", "test_retest_links", "defects",
           "defect_evidence_versions", "defect_review_decisions", "frozen_reports",
           "certificates"}

Row(table, keys, under, on, columns) ==
  [table |-> table, keys |-> keys, under |-> under, on |-> on, columns |-> columns]

\* A key that rows refer to names its table first.
AssetKey(a) == <<"rigging_assets", a>>
TestKey(t) == <<"load_test_records", t>>
DefectKey(d) == <<"defects", d>>

AssetRow(a) ==
  Row("rigging_assets", {AssetKey(a), <<"asset_code", assets[a].code>>}, {}, {},
      [id |-> a, code |-> assets[a].code, ratedLoadKg |-> assets[a].ratedLoadKg,
       limitRequired |-> assets[a].limitRequired, locked |-> assets[a].locked])

TestRow(t) ==
  Row("load_test_records", {TestKey(t)}, {}, {AssetKey(tests[t].asset)},
      [id |-> t, asset |-> tests[t].asset, kind |-> tests[t].kind,
       result |-> tests[t].result, recordedBy |-> tests[t].recordedBy])

LinkRow(t) ==
  Row("test_retest_links", {<<"link", t>>}, {TestKey(t)}, {TestKey(tests[t].retestOf)},
      [record |-> t, original |-> tests[t].retestOf])

DefectRow(d) ==
  Row("defects", {DefectKey(d)}, {}, {AssetKey(defects[d].asset)},
      [id |-> d, asset |-> defects[d].asset, source |-> defects[d].source,
       severity |-> defects[d].severity, status |-> defects[d].status,
       evidence |-> IF defects[d].evidence = <<>> THEN Nil ELSE Last(defects[d].evidence)])

EvidenceRow(d, i) ==
  Row("defect_evidence_versions", {<<"evidence", d, i>>}, {DefectKey(d)}, {},
      [defect |-> d, version |-> i, content |-> defects[d].evidence[i]])

DecisionColumns(d, i, sequence) ==
  [defect |-> d, sequence |-> sequence, version |-> defects[d].decisions[i].version,
   reviewer |-> defects[d].decisions[i].reviewer, accepted |-> defects[d].decisions[i].accepted]

ReportRow ==
  Row("frozen_reports", {<<"report">>}, {}, {},
      [digest |-> report.digest, content |-> report.content, frozenBy |-> report.frozenBy])

CertificateRow ==
  Row("certificates", {<<"certificate">>}, {}, {}, certificate)

-----------------------------------------------------------------------------
(* Seeded faults, as in InspectionCase *)

SequenceOfEvidence(d, i) == defects[d].decisions[i].version

ReportsKept ==
  <<"test_retest_links", "defect_review_decisions", "defect_evidence_versions",
    "load_test_records", "defects", "rigging_assets", "certificates">>

-----------------------------------------------------------------------------
(* replaceDetails *)

\* A decision is numbered by its place among those on its defect.
DecisionSequence(d, i) == i

DecisionRow(d, i) ==
  LET sequence == DecisionSequence(d, i)
  IN Row("defect_review_decisions", {<<"decision", d, sequence>>}, {DefectKey(d)}, {},
         DecisionColumns(d, i, sequence))

\* The order in which the tables are emptied.
DeleteOrder ==
  <<"test_retest_links", "defect_review_decisions", "defect_evidence_versions",
    "load_test_records", "defects", "rigging_assets", "frozen_reports", "certificates">>

\* And the order in which a row may count on the rows of others.  Evidence and
\* decisions are written defect by defect, which no reference can tell.
InsertOrder ==
  <<"rigging_assets", "load_test_records", "test_retest_links", "defects",
    "defect_evidence_versions", "defect_review_decisions", "frozen_reports", "certificates">>

DetailRows ==
  {AssetRow(a) : a \in 1..Len(assets)} \union {TestRow(t) : t \in 1..Len(tests)}
    \union {LinkRow(t) : t \in {u \in 1..Len(tests) : tests[u].retestOf # NoId}}
    \union {DefectRow(d) : d \in 1..Len(defects)}
    \union (UNION {{EvidenceRow(d, i) : i \in 1..Len(defects[d].evidence)} : d \in 1..Len(defects)})
    \union (UNION {{DecisionRow(d, i) : i \in 1..Len(defects[d].decisions)} : d \in 1..Len(defects)})
    \union (IF report = Nil THEN {} ELSE {ReportRow})
    \union (IF certificate = Nil THEN {} ELSE {CertificateRow})

KeysOf(rows) == UNION {r.keys : r \in rows}

\* The statement that empties a table, or fills it; one past the last for none.
PlaceIn(order) ==
  [table \in Tables |-> Min({i \in 1..Len(order) : order[i] = table} \union {Len(order) + 1})]

EmptiedBy == PlaceIn(DeleteOrder)
FilledBy == PlaceIn(InsertOrder)

\* A row goes when its table is emptied, or with a row that it is under.
GoneAt(r) == Min({EmptiedBy[table] : table \in {r.table} \union {key[1] : key \in r.under}})

\* SQLite looks at the references when a statement ends, cascades included: no
\* row may still rest on one that is gone.
DeletesAllowed(old) == \A r \in old : \A key \in r.on : GoneAt(r) <= EmptiedBy[key[1]]

Remaining(old) == {r \in old : GoneAt(r) > Len(DeleteOrder)}

\* No key is taken by two rows.
KeysUnique(rows) == \A r, s \in rows : r.keys \intersect s.keys # {} => r = s

\* What a row refers to is there when it is inserted.
ReferencesHold(left, new) ==
  \A r \in new : \A key \in r.under \union r.on :
    \/ key \in KeysOf(left)
    \/ key \in KeysOf(new) /\ FilledBy[key[1]] < FilledBy[r.table]

InsertsAllowed(left, new) ==
  left \intersect new = {} /\ KeysUnique(left \union new) /\ ReferencesHold(left, new)

\* A command, and the transaction that stores what it made of the case.
StoredInit == Init /\ tables = {} /\ refused = FALSE

StoredNext ==
  /\ Next
  /\ \E new \in {DetailRows'}, left \in {Remaining(tables)} :
       LET ok == DeletesAllowed(tables) /\ InsertsAllowed(left, new)
       IN /\ tables' = IF ok THEN left \union new ELSE tables
          /\ refused' = ~ok

StoredSpec == StoredInit /\ [][StoredNext]_storedVars

-----------------------------------------------------------------------------
(* validateMaterializedView, written from the validator's side *)

Columns(table) == {r.columns : r \in {s \in tables : s.table = table}}

CountsMatch ==
  /\ Cardinality(Columns("rigging_assets")) = Len(assets)
  /\ Cardinality(Columns("load_test_records")) = Len(tests)
  /\ Cardinality(Columns("defects")) = Len(defects)

ValidateAssets ==
  \A c \in Columns("rigging_assets") :
    /\ c.id \in 1..Len(assets)
    /\ c.code = assets[c.id].code /\ c.ratedLoadKg = assets[c.id].ratedLoadKg
    /\ c.limitRequired = assets[c.id].limitRequired

ValidateTests ==
  \A c \in Columns("load_test_records") :
    /\ c.id \in 1..Len(tests)
    /\ <<c.asset, c.kind, c.result>> = <<tests[c.id].asset, tests[c.id].kind, tests[c.id].result>>

ValidateRetestLinks ==
  /\ \A c \in Columns("test_retest_links") :
       c.record \in 1..Len(tests) /\ tests[c.record].retestOf = c.original
  /\ Cardinality(Columns("test_retest_links")) =
       Cardinality({t \in 1..Len(tests) : tests[t].retestOf # NoId})

ValidateDefects ==
  \A c \in Columns("defects") :
    /\ c.id \in 1..Len(defects)
    /\ <<c.asset, c.severity, c.status>> =
         <<defects[c.id].asset, defects[c.id].severity, defects[c.id].status>>
    /\ IF defects[c.id].evidence = <<>> THEN c.evidence = Nil
       ELSE c.evidence = Last(defects[c.id].evidence)

\* Evidence is looked up by version, decisions by sequence: one, two, three.
ValidateDefectHistory ==
  LET evidence == UNION {{d} \X (1..Len(defects[d].evidence)) : d \in 1..Len(defects)}
      decisions == UNION {{d} \X (1..Len(defects[d].decisions)) : d \in 1..Len(defects)}
  IN /\ \A x \in evidence :
          [defect |-> x[1], version |-> x[2], content |-> defects[x[1]].evidence[x[2]]]
            \in Columns("defect_evidence_versions")
     /\ \A x \in decisions :
          DecisionColumns(x[1], x[2], x[2]) \in Columns("defect_review_decisions")
     /\ Cardinality(Columns("defect_evidence_versions")) = Cardinality(evidence)
     /\ Cardinality(Columns("defect_review_decisions")) = Cardinality(decisions)

ValidateFrozenArtifacts ==
  /\ {<<c.digest, c.content>> : c \in Columns("frozen_reports")} =
       IF report = Nil THEN {} ELSE {<<report.digest, report.content>>}
  /\ {<<c.reportDigest, c.issuedAt, c.verificationDigest>> : c \in Columns("certificates")} =
       IF certificate = Nil THEN {}
       ELSE {<<certificate.reportDigest, certificate.issuedAt, certificate.verificationDigest>>}

ValidateMaterializedView ==
  /\ CountsMatch /\ ValidateAssets /\ ValidateTests /\ ValidateRetestLinks
  /\ ValidateDefects /\ ValidateDefectHistory /\ ValidateFrozenArtifacts

-----------------------------------------------------------------------------
(* Properties *)

\* No command that the rules accept is lost to a key or a reference of the
\* schema, whatever the rows that earlier commands of the case left.
EveryCommandStored == ~refused

\* After any history of commands the detail rows say what the snapshot says,
\* in the validator's own terms: opening the store does not refuse the case.
ViewValid == ~refused => ValidateMaterializedView
=============================================================================
