--------------------------- MODULE DetailTablesProofs ---------------------------
(***************************************************************************)
(* Theorems about DetailTables: no accepted command is lost to a key or a  *)
(* reference of the schema, and the rows that a command leaves pass the    *)
(* comparison with the snapshot, for every history of a case.              *)
(***************************************************************************)
EXTENDS DetailTables, CaseHistoryProofs, FiniteSetTheorems

-----------------------------------------------------------------------------
(* The order of the statements *)

LEMMA MinOfTwo ==
  ASSUME NEW a \in Nat, NEW b \in Nat
  PROVE  /\ Min({a, b}) \in {a, b} /\ Min({a, b}) <= a /\ Min({a, b}) <= b
<1>1. \E x \in {a, b} : \A y \in {a, b} : x <= y
  OBVIOUS
<1>2. Min({a, b}) \in {a, b} /\ \A y \in {a, b} : Min({a, b}) <= y
  BY <1>1 DEF Min
<1> QED BY <1>2

\* A table that one statement names is found at that statement.
LEMMA PlaceFound ==
  ASSUME NEW order, Len(order) = 8, NEW table \in Tables,
         NEW i \in 1..8, order[i] = table, \A j \in 1..8 : order[j] = table => j = i
  PROVE  PlaceIn(order)[table] = i
<1>1. {j \in 1..Len(order) : order[j] = table} \union {Len(order) + 1} = {i, 9}
  OBVIOUS
<1>2. Min({i, 9}) = i
  BY MinOfTwo
<1> QED BY <1>1, <1>2 DEF PlaceIn

LEMMA Emptied ==
  /\ EmptiedBy["test_retest_links"] = 1 /\ EmptiedBy["defect_review_decisions"] = 2
  /\ EmptiedBy["defect_evidence_versions"] = 3 /\ EmptiedBy["load_test_records"] = 4
  /\ EmptiedBy["defects"] = 5 /\ EmptiedBy["rigging_assets"] = 6
  /\ EmptiedBy["frozen_reports"] = 7 /\ EmptiedBy["certificates"] = 8
  BY PlaceFound DEF EmptiedBy, DeleteOrder, Tables

LEMMA Filled ==
  /\ FilledBy["rigging_assets"] = 1 /\ FilledBy["load_test_records"] = 2
  /\ FilledBy["test_retest_links"] = 3 /\ FilledBy["defects"] = 4
  /\ FilledBy["defect_evidence_versions"] = 5 /\ FilledBy["defect_review_decisions"] = 6
  /\ FilledBy["frozen_reports"] = 7 /\ FilledBy["certificates"] = 8
  BY PlaceFound DEF FilledBy, InsertOrder, Tables

-----------------------------------------------------------------------------
(* The rows *)

\* The key that identifies a row in its table names that table; the code of an
\* asset is a second one.
KeyTables ==
  [rigging_assets |-> "rigging_assets", asset_code |-> "rigging_assets",
   load_test_records |-> "load_test_records", link |-> "test_retest_links",
   defects |-> "defects", evidence |-> "defect_evidence_versions",
   decision |-> "defect_review_decisions", report |-> "frozen_reports",
   certificate |-> "certificates"]

\* The table, keys and references of each kind of row.
LEMMA RowParts ==
  /\ \A a : /\ AssetRow(a).table = "rigging_assets"
            /\ AssetRow(a).keys = {AssetKey(a), <<"asset_code", assets[a].code>>}
            /\ AssetRow(a).under = {} /\ AssetRow(a).on = {}
  /\ \A t : /\ TestRow(t).table = "load_test_records"
            /\ LinkRow(t).table = "test_retest_links"
            /\ TestRow(t).keys = {TestKey(t)} /\ TestRow(t).under = {}
            /\ TestRow(t).on = {AssetKey(tests[t].asset)}
            /\ LinkRow(t).keys = {<<"link", t>>} /\ LinkRow(t).under = {TestKey(t)}
            /\ LinkRow(t).on = {TestKey(tests[t].retestOf)}
  /\ \A d : /\ DefectRow(d).table = "defects"
            /\ DefectRow(d).keys = {DefectKey(d)} /\ DefectRow(d).under = {}
            /\ DefectRow(d).on = {AssetKey(defects[d].asset)}
  /\ \A d, i : /\ EvidenceRow(d, i).table = "defect_evidence_versions"
               /\ DecisionRow(d, i).table = "defect_review_decisions"
               /\ EvidenceRow(d, i).keys = {<<"evidence", d, i>>}
               /\ EvidenceRow(d, i).under = {DefectKey(d)} /\ EvidenceRow(d, i).on = {}
               /\ DecisionRow(d, i).keys = {<<"decision", d, i>>}
               /\ DecisionRow(d, i).under = {DefectKey(d)} /\ DecisionRow(d, i).on = {}
  /\ ReportRow.table = "frozen_reports" /\ CertificateRow.table = "certificates"
  /\ ReportRow.keys = {<<"report">>} /\ ReportRow.under = {} /\ ReportRow.on = {}
  /\ CertificateRow.keys = {<<"certificate">>} /\ CertificateRow.under = {}
  /\ CertificateRow.on = {}
  BY DEF AssetRow, TestRow, LinkRow, DefectRow, EvidenceRow, DecisionRow, DecisionSequence,
         ReportRow, CertificateRow, Row

\* What a row of the case is.
RowOf(r) ==
  \/ \E a \in 1..Len(assets) : r = AssetRow(a)
  \/ \E t \in 1..Len(tests) : r = TestRow(t)
  \/ \E t \in 1..Len(tests) : tests[t].retestOf # NoId /\ r = LinkRow(t)
  \/ \E d \in 1..Len(defects) : r = DefectRow(d)
  \/ \E d \in 1..Len(defects) : \E i \in 1..Len(defects[d].evidence) : r = EvidenceRow(d, i)
  \/ \E d \in 1..Len(defects) : \E i \in 1..Len(defects[d].decisions) : r = DecisionRow(d, i)
  \/ report # Nil /\ r = ReportRow
  \/ certificate # Nil /\ r = CertificateRow

LEMMA RowsOfCase == \A r : r \in DetailRows <=> RowOf(r)
<1> TAKE r
<1> DEFINE assetRows == {AssetRow(a) : a \in 1..Len(assets)}
           testRows == {TestRow(t) : t \in 1..Len(tests)}
           linkRows == {LinkRow(t) : t \in {u \in 1..Len(tests) : tests[u].retestOf # NoId}}
           defectRows == {DefectRow(d) : d \in 1..Len(defects)}
           evidenceRows == UNION {{EvidenceRow(d, i) : i \in 1..Len(defects[d].evidence)} :
                                    d \in 1..Len(defects)}
           decisionRows == UNION {{DecisionRow(d, i) : i \in 1..Len(defects[d].decisions)} :
                                    d \in 1..Len(defects)}
           reportRows == IF report = Nil THEN {} ELSE {ReportRow}
           certificateRows == IF certificate = Nil THEN {} ELSE {CertificateRow}
<1>1. r \in assetRows <=> \E a \in 1..Len(assets) : r = AssetRow(a)
  OBVIOUS
<1>2. r \in testRows <=> \E t \in 1..Len(tests) : r = TestRow(t)
  OBVIOUS
<1>3. r \in linkRows <=> \E t \in 1..Len(tests) : tests[t].retestOf # NoId /\ r = LinkRow(t)
  OBVIOUS
<1>4. r \in defectRows <=> \E d \in 1..Len(defects) : r = DefectRow(d)
  OBVIOUS
<1>5. r \in evidenceRows <=>
        \E d \in 1..Len(defects) : \E i \in 1..Len(defects[d].evidence) : r = EvidenceRow(d, i)
  OBVIOUS
<1>6. r \in decisionRows <=>
        \E d \in 1..Len(defects) : \E i \in 1..Len(defects[d].decisions) : r = DecisionRow(d, i)
  OBVIOUS
<1>7. r \in reportRows <=> report # Nil /\ r = ReportRow
  OBVIOUS
<1>8. r \in certificateRows <=> certificate # Nil /\ r = CertificateRow
  OBVIOUS
<1>9. DetailRows = assetRows \union testRows \union linkRows \union defectRows
                     \union evidenceRows \union decisionRows
                     \union reportRows \union certificateRows
  BY DEF DetailRows
<1> HIDE DEF assetRows, testRows, linkRows, defectRows, evidenceRows, decisionRows,
             reportRows, certificateRows
<1> QED BY <1>1, <1>2, <1>3, <1>4, <1>5, <1>6, <1>7, <1>8, <1>9 DEF RowOf

LEMMA KeyTags ==
  /\ \A a : AssetKey(a)[1] = "rigging_assets"
  /\ \A t : TestKey(t)[1] = "load_test_records"
  /\ \A d : DefectKey(d)[1] = "defects"
  BY DEF AssetKey, TestKey, DefectKey

\* A key tells the table of its row.
LEMMA KeysNameTable ==
  ASSUME NEW r \in DetailRows, NEW key \in r.keys
  PROVE  KeyTables[key[1]] = r.table
<1>0. RowOf(r)
  BY RowsOfCase
<1>1. CASE \E a \in 1..Len(assets) : r = AssetRow(a)
  <2>1. PICK a : r = AssetRow(a)
    BY <1>1
  <2>2. r.table = "rigging_assets" /\ (key = AssetKey(a) \/ key = <<"asset_code", assets[a].code>>)
    BY <2>1, RowParts
  <2>3. key[1] \in {"rigging_assets", "asset_code"}
    BY <2>2, KeyTags
  <2> QED BY <2>2, <2>3 DEF KeyTables
<1>2. CASE \E t \in 1..Len(tests) : r = TestRow(t)
  BY <1>2, RowParts, KeyTags DEF KeyTables
<1>3. CASE \E t \in 1..Len(tests) : tests[t].retestOf # NoId /\ r = LinkRow(t)
  <2>1. PICK t : r = LinkRow(t)
    BY <1>3
  <2>2. r.table = "test_retest_links" /\ key = <<"link", t>>
    BY <2>1, RowParts
  <2> QED BY <2>2 DEF KeyTables
<1>4. CASE \E d \in 1..Len(defects) : r = DefectRow(d)
  BY <1>4, RowParts, KeyTags DEF KeyTables
<1>5. CASE \E d \in 1..Len(defects) : \E i \in 1..Len(defects[d].evidence) : r = EvidenceRow(d, i)
  <2>1. PICK d, i : r = EvidenceRow(d, i)
    BY <1>5
  <2>2. r.table = "defect_evidence_versions" /\ key = <<"evidence", d, i>>
    BY <2>1, RowParts
  <2> QED BY <2>2 DEF KeyTables
<1>6. CASE \E d \in 1..Len(defects) : \E i \in 1..Len(defects[d].decisions) : r = DecisionRow(d, i)
  <2>1. PICK d, i : r = DecisionRow(d, i)
    BY <1>6
  <2>2. r.table = "defect_review_decisions" /\ key = <<"decision", d, i>>
    BY <2>1, RowParts
  <2> QED BY <2>2 DEF KeyTables
<1>7. CASE report # Nil /\ r = ReportRow
  <2>1. r.table = "frozen_reports" /\ key = <<"report">>
    BY <1>7, RowParts
  <2> QED BY <2>1 DEF KeyTables
<1>8. CASE certificate # Nil /\ r = CertificateRow
  <2>1. r.table = "certificates" /\ key = <<"certificate">>
    BY <1>8, RowParts
  <2> QED BY <2>1 DEF KeyTables
<1> QED BY <1>0, <1>1, <1>2, <1>3, <1>4, <1>5, <1>6, <1>7, <1>8 DEF RowOf

\* A row of a table is of that table's kind.
LEMMA RowByTable ==
  ASSUME NEW r \in DetailRows
  PROVE  /\ r.table \in Tables
         /\ r.table = "rigging_assets" => \E a \in 1..Len(assets) : r = AssetRow(a)
         /\ r.table = "load_test_records" => \E t \in 1..Len(tests) : r = TestRow(t)
         /\ r.table = "test_retest_links" =>
              \E t \in 1..Len(tests) : tests[t].retestOf # NoId /\ r = LinkRow(t)
         /\ r.table = "defects" => \E d \in 1..Len(defects) : r = DefectRow(d)
         /\ r.table = "defect_evidence_versions" =>
              \E d \in 1..Len(defects) : \E i \in 1..Len(defects[d].evidence) :
                r = EvidenceRow(d, i)
         /\ r.table = "defect_review_decisions" =>
              \E d \in 1..Len(defects) : \E i \in 1..Len(defects[d].decisions) :
                r = DecisionRow(d, i)
         /\ r.table = "frozen_reports" => report # Nil /\ r = ReportRow
         /\ r.table = "certificates" => certificate # Nil /\ r = CertificateRow
<1>1. RowOf(r)
  BY RowsOfCase
<1> QED BY <1>1, RowParts DEF RowOf, Tables

-----------------------------------------------------------------------------
(* What the schema asks of the rows, given that the case is sound *)

\* No two rows of a sound case take the same key.
LEMMA KeysOfCaseUnique ==
  ASSUME AssetsValid
  PROVE  KeysUnique(DetailRows)
<1> SUFFICES ASSUME NEW r \in DetailRows, NEW s \in DetailRows,
                    NEW key, key \in r.keys, key \in s.keys
             PROVE  r = s
  BY DEF KeysUnique
<1>1. r.table = s.table /\ r.table \in Tables
  BY KeysNameTable, RowByTable
<1>2. CASE r.table = "rigging_assets"
  <2>1. PICK a \in 1..Len(assets) : r = AssetRow(a)
    BY <1>2, RowByTable
  <2>2. PICK b \in 1..Len(assets) : s = AssetRow(b)
    BY <1>1, <1>2, RowByTable
  <2>3. /\ key = <<"rigging_assets", a>> \/ key = <<"asset_code", assets[a].code>>
        /\ key = <<"rigging_assets", b>> \/ key = <<"asset_code", assets[b].code>>
    BY <2>1, <2>2, RowParts DEF AssetKey
  <2>4. a = b \/ assets[a].code = assets[b].code
    BY <2>3
  <2> QED BY <2>1, <2>2, <2>4 DEF AssetsValid
<1>3. CASE r.table = "load_test_records"
  <2>1. PICK t : r = TestRow(t)
    BY <1>3, RowByTable
  <2>2. PICK u : s = TestRow(u)
    BY <1>1, <1>3, RowByTable
  <2>3. TestKey(t) = TestKey(u)
    BY <2>1, <2>2, RowParts
  <2> QED BY <2>1, <2>2, <2>3 DEF TestKey
<1>4. CASE r.table = "test_retest_links"
  <2>1. PICK t : r = LinkRow(t)
    BY <1>4, RowByTable
  <2>2. PICK u : s = LinkRow(u)
    BY <1>1, <1>4, RowByTable
  <2>3. <<"link", t>> = <<"link", u>>
    BY <2>1, <2>2, RowParts
  <2> QED BY <2>1, <2>2, <2>3
<1>5. CASE r.table = "defects"
  <2>1. PICK d : r = DefectRow(d)
    BY <1>5, RowByTable
  <2>2. PICK e : s = DefectRow(e)
    BY <1>1, <1>5, RowByTable
  <2>3. DefectKey(d) = DefectKey(e)
    BY <2>1, <2>2, RowParts
  <2> QED BY <2>1, <2>2, <2>3 DEF DefectKey
<1>6. CASE r.table = "defect_evidence_versions"
  <2>1. PICK d, i : r = EvidenceRow(d, i)
    BY <1>6, RowByTable
  <2>2. PICK e, j : s = EvidenceRow(e, j)
    <3>1. \E e \in 1..Len(defects) : \E j \in 1..Len(defects[e].evidence) : s = EvidenceRow(e, j)
      BY <1>1, <1>6, RowByTable
    <3> QED BY <3>1
  <2>3. <<"evidence", d, i>> = <<"evidence", e, j>>
    BY <2>1, <2>2, RowParts
  <2> QED BY <2>1, <2>2, <2>3
<1>7. CASE r.table = "defect_review_decisions"
  <2>1. PICK d, i : r = DecisionRow(d, i)
    BY <1>7, RowByTable
  <2>2. PICK e, j : s = DecisionRow(e, j)
    <3>1. \E e \in 1..Len(defects) : \E j \in 1..Len(defects[e].decisions) : s = DecisionRow(e, j)
      BY <1>1, <1>7, RowByTable
    <3> QED BY <3>1
  <2>3. <<"decision", d, i>> = <<"decision", e, j>>
    BY <2>1, <2>2, RowParts
  <2> QED BY <2>1, <2>2, <2>3
<1>8. CASE r.table \in {"frozen_reports", "certificates"}
  BY <1>1, <1>8, RowByTable
<1> QED BY <1>1, <1>2, <1>3, <1>4, <1>5, <1>6, <1>7, <1>8 DEF Tables

\* Every row finds what it refers to among the rows of a sound case, in a table
\* that is filled before its own.
LEMMA ReferencesOfCaseHold ==
  ASSUME TestsValid, DefectsPlaced
  PROVE  ReferencesHold({}, DetailRows)
<1>1. \A a \in 1..Len(assets) : AssetKey(a) \in KeysOf(DetailRows)
  <2>1. ASSUME NEW a \in 1..Len(assets) PROVE AssetKey(a) \in KeysOf(DetailRows)
    <3>1. AssetRow(a) \in DetailRows /\ AssetKey(a) \in AssetRow(a).keys
      BY RowsOfCase, RowParts DEF RowOf
    <3> QED BY <3>1 DEF KeysOf
  <2> QED BY <2>1
<1>2. \A t \in 1..Len(tests) : TestKey(t) \in KeysOf(DetailRows)
  <2>1. ASSUME NEW t \in 1..Len(tests) PROVE TestKey(t) \in KeysOf(DetailRows)
    <3>1. TestRow(t) \in DetailRows /\ TestKey(t) \in TestRow(t).keys
      BY RowsOfCase, RowParts DEF RowOf
    <3> QED BY <3>1 DEF KeysOf
  <2> QED BY <2>1
<1>3. \A d \in 1..Len(defects) : DefectKey(d) \in KeysOf(DetailRows)
  <2>1. ASSUME NEW d \in 1..Len(defects) PROVE DefectKey(d) \in KeysOf(DetailRows)
    <3>1. DefectRow(d) \in DetailRows /\ DefectKey(d) \in DefectRow(d).keys
      BY RowsOfCase, RowParts DEF RowOf
    <3> QED BY <3>1 DEF KeysOf
  <2> QED BY <2>1
<1>4. SUFFICES ASSUME NEW r \in DetailRows, NEW key \in r.under \union r.on
               PROVE  key \in KeysOf(DetailRows) /\ FilledBy[key[1]] < FilledBy[r.table]
  BY DEF ReferencesHold
<1>5. RowOf(r)
  BY RowsOfCase
<1>6. CASE \E t \in 1..Len(tests) : r = TestRow(t)
  <2>1. PICK t \in 1..Len(tests) : r = TestRow(t)
    BY <1>6
  <2>2. key = AssetKey(tests[t].asset) /\ r.table = "load_test_records"
    BY <1>4, <2>1, RowParts
  <2>3. tests[t].asset \in 1..Len(assets)
    BY DEF TestsValid
  <2> QED BY <1>1, <2>2, <2>3, KeyTags, Filled
<1>7. CASE \E t \in 1..Len(tests) : tests[t].retestOf # NoId /\ r = LinkRow(t)
  <2>1. PICK t \in 1..Len(tests) : tests[t].retestOf # NoId /\ r = LinkRow(t)
    BY <1>7
  <2>2. key \in {TestKey(t), TestKey(tests[t].retestOf)} /\ r.table = "test_retest_links"
    BY <1>4, <2>1, RowParts
  <2>3. tests[t].retestOf \in 1..Len(tests)
    BY <2>1 DEF TestsValid
  <2> QED BY <1>2, <2>2, <2>3, KeyTags, Filled
<1>8. CASE \E d \in 1..Len(defects) : r = DefectRow(d)
  <2>1. PICK d \in 1..Len(defects) : r = DefectRow(d)
    BY <1>8
  <2>2. key = AssetKey(defects[d].asset) /\ r.table = "defects"
    BY <1>4, <2>1, RowParts
  <2>3. defects[d].asset \in 1..Len(assets)
    BY DEF DefectsPlaced, DefectPlaced
  <2> QED BY <1>1, <2>2, <2>3, KeyTags, Filled
<1>9. CASE \E d \in 1..Len(defects) : \E i \in 1..Len(defects[d].evidence) : r = EvidenceRow(d, i)
  <2>1. PICK d \in 1..Len(defects) : \E i \in 1..Len(defects[d].evidence) : r = EvidenceRow(d, i)
    BY <1>9
  <2>2. key = DefectKey(d) /\ r.table = "defect_evidence_versions"
    BY <1>4, <2>1, RowParts
  <2> QED BY <1>3, <2>2, KeyTags, Filled
<1>10. CASE \E d \in 1..Len(defects) : \E i \in 1..Len(defects[d].decisions) : r = DecisionRow(d, i)
  <2>1. PICK d \in 1..Len(defects) : \E i \in 1..Len(defects[d].decisions) : r = DecisionRow(d, i)
    BY <1>10
  <2>2. key = DefectKey(d) /\ r.table = "defect_review_decisions"
    BY <1>4, <2>1, RowParts
  <2> QED BY <1>3, <2>2, KeyTags, Filled
<1>11. CASE \/ \E a \in 1..Len(assets) : r = AssetRow(a)
            \/ r = ReportRow \/ r = CertificateRow
  BY <1>4, <1>11, RowParts
<1> QED BY <1>5, <1>6, <1>7, <1>8, <1>9, <1>10, <1>11 DEF RowOf

\* When a row goes, and that it goes: with its table or with the row above it.
LEMMA RowGoes ==
  ASSUME NEW r \in DetailRows
  PROVE  GoneAt(r) \in 1..8 /\ GoneAt(r) <= EmptiedBy[r.table]
<1>1. \A table \in Tables : EmptiedBy[table] \in 1..8
  BY Emptied DEF Tables
<1>2. \E other \in Tables : {r.table} \union {key[1] : key \in r.under} = {r.table, other}
  <2>1. RowOf(r)
    BY RowsOfCase
  <2>2. \/ r.under = {}
        \/ \E t : r.under = {TestKey(t)}
        \/ \E d : r.under = {DefectKey(d)}
    BY <2>1, RowParts DEF RowOf
  <2>3. CASE r.under = {}
    BY <2>3, RowByTable
  <2>4. CASE \E t : r.under = {TestKey(t)}
    <3>1. {key[1] : key \in r.under} = {"load_test_records"}
      BY <2>4, KeyTags
    <3> QED BY <3>1 DEF Tables
  <2>5. CASE \E d : r.under = {DefectKey(d)}
    <3>1. {key[1] : key \in r.under} = {"defects"}
      BY <2>5, KeyTags
    <3> QED BY <3>1 DEF Tables
  <2> QED BY <2>2, <2>3, <2>4, <2>5
<1>3. PICK other \in Tables : {r.table} \union {key[1] : key \in r.under} = {r.table, other}
  BY <1>2
<1>4. GoneAt(r) = Min({EmptiedBy[r.table], EmptiedBy[other]})
  <2>1. {EmptiedBy[table] : table \in {r.table, other}} = {EmptiedBy[r.table], EmptiedBy[other]}
    OBVIOUS
  <2> QED BY <1>3, <2>1 DEF GoneAt
<1>5. EmptiedBy[r.table] \in 1..8 /\ EmptiedBy[other] \in 1..8
  BY <1>1, RowByTable
<1> QED BY <1>4, <1>5, MinOfTwo

\* The rows of a case can be deleted in the order of the code, and none stays.
LEMMA DeletesOfCaseAllowed == DeletesAllowed(DetailRows) /\ Remaining(DetailRows) = {}
<1>1. ASSUME NEW r \in DetailRows, NEW key \in r.on
      PROVE  EmptiedBy[r.table] <= EmptiedBy[key[1]] /\ EmptiedBy[key[1]] \in Nat
                                                     /\ EmptiedBy[r.table] \in Nat
  <2>1. RowOf(r)
    BY RowsOfCase
  <2>2. \/ r.table = "load_test_records" /\ key[1] = "rigging_assets"
        \/ r.table = "test_retest_links" /\ key[1] = "load_test_records"
        \/ r.table = "defects" /\ key[1] = "rigging_assets"
    BY <1>1, <2>1, RowParts, KeyTags DEF RowOf
  <2> QED BY <2>2, Emptied
<1>2. DeletesAllowed(DetailRows)
  <2>1. ASSUME NEW r \in DetailRows, NEW key \in r.on
        PROVE  GoneAt(r) <= EmptiedBy[key[1]]
    <3>1. GoneAt(r) \in Nat /\ GoneAt(r) <= EmptiedBy[r.table]
      BY RowGoes
    <3>2. /\ EmptiedBy[r.table] <= EmptiedBy[key[1]]
          /\ EmptiedBy[key[1]] \in Nat /\ EmptiedBy[r.table] \in Nat
      BY <1>1
    <3> QED BY <3>1, <3>2
  <2> QED BY <2>1 DEF DeletesAllowed
<1>3. Remaining(DetailRows) = {}
  <2>1. Len(DeleteOrder) = 8
    BY DEF DeleteOrder
  <2>2. \A r \in DetailRows : ~(GoneAt(r) > 8)
    BY RowGoes
  <2> QED BY <2>1, <2>2 DEF Remaining
<1> QED BY <1>2, <1>3

-----------------------------------------------------------------------------
(* The tables follow the case *)

\* Storing commands asks nothing more of the case: its theorems are theorems of
\* the stored case too.
LEMMA StoredCase == StoredSpec => Spec
<1>1. StoredInit => Init
  BY DEF StoredInit
<1>2. [StoredNext]_storedVars => [Next]_vars
  BY DEF StoredNext, storedVars
<1> QED BY <1>1, <1>2, PTL DEF StoredSpec, Spec

\* What the schema accepts, in every state of a case.
Storable ==
  /\ KeysUnique(DetailRows) /\ ReferencesHold({}, DetailRows)
  /\ DeletesAllowed(DetailRows) /\ Remaining(DetailRows) = {}

LEMMA CaseStorable == HistorySound => Storable
  BY KeysOfCaseUnique, ReferencesOfCaseHold, DeletesOfCaseAllowed DEF HistorySound, Storable

\* The rows are those of the case as it is, and no command has been lost.
TablesFollow == tables = DetailRows /\ ~refused

\* After every history the tables hold the rows of the case and nothing else.
THEOREM TablesAlwaysFollow == StoredSpec => []TablesFollow
<1>1. StoredInit => TablesFollow
  <2> SUFFICES ASSUME StoredInit PROVE DetailRows = {}
    BY DEF StoredInit, TablesFollow
  <2>1. Len(assets) = 0 /\ Len(tests) = 0 /\ Len(defects) = 0 /\ report = Nil /\ certificate = Nil
    BY DEF StoredInit, Init
  <2>2. \A r : ~RowOf(r)
    BY <2>1 DEF RowOf
  <2> QED BY <2>2, RowsOfCase
<1>2. TablesFollow /\ Storable /\ Storable' /\ [StoredNext]_storedVars => TablesFollow'
  <2> SUFFICES ASSUME TablesFollow, Storable, Storable', [StoredNext]_storedVars
               PROVE  TablesFollow'
    OBVIOUS
  <2>1. CASE UNCHANGED storedVars
    <3>1. tables' = tables /\ refused' = refused
          /\ UNCHANGED <<assets, tests, defects, report, certificate>>
      BY <2>1 DEF storedVars, vars
    <3>2. DetailRows' = DetailRows
      BY <3>1 DEF DetailRows, AssetRow, TestRow, LinkRow, DefectRow, EvidenceRow, DecisionRow,
                  DecisionColumns, ReportRow, CertificateRow
    <3> QED BY <3>1, <3>2 DEF TablesFollow
  <2>2. CASE StoredNext
    <3>1. DeletesAllowed(tables) /\ Remaining(tables) = {}
      BY DEF TablesFollow, Storable
    <3>2. KeysUnique(DetailRows') /\ ReferencesHold({}, DetailRows')
      BY DEF Storable, KeysUnique, ReferencesHold, KeysOf
    <3>3. InsertsAllowed({}, DetailRows')
      <4>1. {} \union DetailRows' = DetailRows' /\ {} \intersect DetailRows' = {}
        OBVIOUS
      <4> QED BY <3>2, <4>1 DEF InsertsAllowed
    <3>4. tables' = {} \union DetailRows' /\ refused' = FALSE
      BY <2>2, <3>1, <3>3 DEF StoredNext
    <3>5. {} \union DetailRows' = DetailRows'
      OBVIOUS
    <3> QED BY <3>4, <3>5 DEF TablesFollow
  <2> QED BY <2>1, <2>2
<1>3. StoredSpec => []Storable
  BY StoredCase, HistoryKept, CaseStorable, PTL
<1> QED BY <1>1, <1>2, <1>3, PTL DEF StoredSpec

\* No command that the rules accept is ever lost to a key or a reference of the
\* schema, for every history, spelling of codes and number of assets.
THEOREM EveryCommandAlwaysStored == StoredSpec => []EveryCommandStored
<1>1. TablesFollow => EveryCommandStored
  BY DEF TablesFollow, EveryCommandStored
<1> QED BY <1>1, TablesAlwaysFollow, PTL

-----------------------------------------------------------------------------
(* What the validator reads in them *)

\* A set has as many members as another that it is paired with.
LEMMA CountByPairing ==
  ASSUME NEW S, IsFiniteSet(S), NEW T, NEW f \in [S -> T],
         \A x, y \in S : f[x] = f[y] => x = y,
         \A t \in T : \E x \in S : f[x] = t
  PROVE  Cardinality(T) = Cardinality(S)
<1>1. f \in Bijection(S, T)
  BY DEF Bijection, Injection, Surjection, IsInjective
<1>2. ExistsBijection(S, T)
  BY <1>1 DEF ExistsBijection
<1> QED BY <1>2, FS_Bijection

LEMMA CountByPosition ==
  ASSUME NEW n \in Nat, NEW T, NEW f \in [1..n -> T],
         \A x, y \in 1..n : f[x] = f[y] => x = y,
         \A t \in T : \E x \in 1..n : f[x] = t
  PROVE  Cardinality(T) = n
<1>1. IsFiniteSet(1..n) /\ Cardinality(1..n) = n
  BY FS_Interval
<1> QED BY <1>1, CountByPairing

\* The columns of each table, when the rows are those of the case.
LEMMA ColumnsOfCase ==
  ASSUME tables = DetailRows
  PROVE  /\ Columns("rigging_assets") = {AssetRow(a).columns : a \in 1..Len(assets)}
         /\ Columns("load_test_records") = {TestRow(t).columns : t \in 1..Len(tests)}
         /\ \A c : c \in Columns("test_retest_links") <=>
              \E t \in 1..Len(tests) : tests[t].retestOf # NoId /\ c = LinkRow(t).columns
         /\ Columns("defects") = {DefectRow(d).columns : d \in 1..Len(defects)}
         /\ \A c : c \in Columns("defect_evidence_versions") <=>
              \E d \in 1..Len(defects) : \E i \in 1..Len(defects[d].evidence) :
                c = EvidenceRow(d, i).columns
         /\ \A c : c \in Columns("defect_review_decisions") <=>
              \E d \in 1..Len(defects) : \E i \in 1..Len(defects[d].decisions) :
                c = DecisionRow(d, i).columns
         /\ \A c : c \in Columns("frozen_reports") <=> report # Nil /\ c = ReportRow.columns
         /\ \A c : c \in Columns("certificates") <=>
              certificate # Nil /\ c = CertificateRow.columns
<1>0. \A table, c : c \in Columns(table) <=>
        \E r \in DetailRows : r.table = table /\ c = r.columns
  BY DEF Columns
<1>1. \A c : c \in Columns("rigging_assets") <=>
        \E a \in 1..Len(assets) : c = AssetRow(a).columns
  <2> TAKE c
  <2>1. ASSUME c \in Columns("rigging_assets")
        PROVE  \E a \in 1..Len(assets) : c = AssetRow(a).columns
    <3>1. PICK r \in DetailRows : r.table = "rigging_assets" /\ c = r.columns
      BY <1>0, <2>1
    <3> QED BY <3>1, RowByTable
  <2>2. ASSUME NEW a \in 1..Len(assets), c = AssetRow(a).columns
        PROVE  c \in Columns("rigging_assets")
    <3>1. AssetRow(a) \in DetailRows /\ AssetRow(a).table = "rigging_assets"
      BY RowsOfCase, RowParts DEF RowOf
    <3> QED BY <1>0, <2>2, <3>1
  <2> QED BY <2>1, <2>2
<1>2. \A c : c \in Columns("load_test_records") <=>
        \E t \in 1..Len(tests) : c = TestRow(t).columns
  <2> TAKE c
  <2>1. ASSUME c \in Columns("load_test_records")
        PROVE  \E t \in 1..Len(tests) : c = TestRow(t).columns
    <3>1. PICK r \in DetailRows : r.table = "load_test_records" /\ c = r.columns
      BY <1>0, <2>1
    <3> QED BY <3>1, RowByTable
  <2>2. ASSUME NEW t \in 1..Len(tests), c = TestRow(t).columns
        PROVE  c \in Columns("load_test_records")
    <3>1. TestRow(t) \in DetailRows /\ TestRow(t).table = "load_test_records"
      BY RowsOfCase, RowParts DEF RowOf
    <3> QED BY <1>0, <2>2, <3>1
  <2> QED BY <2>1, <2>2
<1>3. \A c : c \in Columns("test_retest_links") <=>
        \E t \in 1..Len(tests) : tests[t].retestOf # NoId /\ c = LinkRow(t).columns
  <2> TAKE c
  <2>1. ASSUME c \in Columns("test_retest_links")
        PROVE  \E t \in 1..Len(tests) : tests[t].retestOf # NoId /\ c = LinkRow(t).columns
    <3>1. PICK r \in DetailRows : r.table = "test_retest_links" /\ c = r.columns
      BY <1>0, <2>1
    <3> QED BY <3>1, RowByTable
  <2>2. ASSUME NEW t \in 1..Len(tests), tests[t].retestOf # NoId, c = LinkRow(t).columns
        PROVE  c \in Columns("test_retest_links")
    <3>1. LinkRow(t) \in DetailRows /\ LinkRow(t).table = "test_retest_links"
      BY <2>2, RowsOfCase, RowParts DEF RowOf
    <3> QED BY <1>0, <2>2, <3>1
  <2> QED BY <2>1, <2>2
<1>4. \A c : c \in Columns("defects") <=> \E d \in 1..Len(defects) : c = DefectRow(d).columns
  <2> TAKE c
  <2>1. ASSUME c \in Columns("defects")
        PROVE  \E d \in 1..Len(defects) : c = DefectRow(d).columns
    <3>1. PICK r \in DetailRows : r.table = "defects" /\ c = r.columns
      BY <1>0, <2>1
    <3> QED BY <3>1, RowByTable
  <2>2. ASSUME NEW d \in 1..Len(defects), c = DefectRow(d).columns
        PROVE  c \in Columns("defects")
    <3>1. DefectRow(d) \in DetailRows /\ DefectRow(d).table = "defects"
      BY RowsOfCase, RowParts DEF RowOf
    <3> QED BY <1>0, <2>2, <3>1
  <2> QED BY <2>1, <2>2
<1>5. \A c : c \in Columns("defect_evidence_versions") <=>
        \E d \in 1..Len(defects) : \E i \in 1..Len(defects[d].evidence) :
          c = EvidenceRow(d, i).columns
  <2> TAKE c
  <2>1. ASSUME c \in Columns("defect_evidence_versions")
        PROVE  \E d \in 1..Len(defects) : \E i \in 1..Len(defects[d].evidence) :
                 c = EvidenceRow(d, i).columns
    <3>1. PICK r \in DetailRows : r.table = "defect_evidence_versions" /\ c = r.columns
      BY <1>0, <2>1
    <3> QED BY <3>1, RowByTable
  <2>2. ASSUME NEW d \in 1..Len(defects), NEW i \in 1..Len(defects[d].evidence),
               c = EvidenceRow(d, i).columns
        PROVE  c \in Columns("defect_evidence_versions")
    <3>1. EvidenceRow(d, i) \in DetailRows
      BY RowsOfCase DEF RowOf
    <3>2. EvidenceRow(d, i).table = "defect_evidence_versions"
      BY RowParts
    <3> QED BY <1>0, <2>2, <3>1, <3>2
  <2> QED BY <2>1, <2>2
<1>6. \A c : c \in Columns("defect_review_decisions") <=>
        \E d \in 1..Len(defects) : \E i \in 1..Len(defects[d].decisions) :
          c = DecisionRow(d, i).columns
  <2> TAKE c
  <2>1. ASSUME c \in Columns("defect_review_decisions")
        PROVE  \E d \in 1..Len(defects) : \E i \in 1..Len(defects[d].decisions) :
                 c = DecisionRow(d, i).columns
    <3>1. PICK r \in DetailRows : r.table = "defect_review_decisions" /\ c = r.columns
      BY <1>0, <2>1
    <3> QED BY <3>1, RowByTable
  <2>2. ASSUME NEW d \in 1..Len(defects), NEW i \in 1..Len(defects[d].decisions),
               c = DecisionRow(d, i).columns
        PROVE  c \in Columns("defect_review_decisions")
    <3>1. DecisionRow(d, i) \in DetailRows
      BY RowsOfCase DEF RowOf
    <3>2. DecisionRow(d, i).table = "defect_review_decisions"
      BY RowParts
    <3> QED BY <1>0, <2>2, <3>1, <3>2
  <2> QED BY <2>1, <2>2
<1>7. \A c : /\ c \in Columns("frozen_reports") <=> report # Nil /\ c = ReportRow.columns
             /\ c \in Columns("certificates") <=> certificate # Nil /\ c = CertificateRow.columns
  <2>1. report # Nil => ReportRow \in DetailRows /\ ReportRow.table = "frozen_reports"
    BY RowsOfCase, RowParts DEF RowOf
  <2>2. certificate # Nil =>
          CertificateRow \in DetailRows /\ CertificateRow.table = "certificates"
    BY RowsOfCase, RowParts DEF RowOf
  <2>3. \A r \in DetailRows :
          /\ r.table = "frozen_reports" => report # Nil /\ r = ReportRow
          /\ r.table = "certificates" => certificate # Nil /\ r = CertificateRow
    BY RowByTable
  <2> QED BY <1>0, <2>1, <2>2, <2>3
<1> QED BY <1>1, <1>2, <1>3, <1>4, <1>5, <1>6, <1>7

\* The columns of each kind of row, read field by field.
LEMMA ColumnFields ==
  /\ \A a : LET c == AssetRow(a).columns
            IN  /\ c.id = a /\ c.code = assets[a].code
                /\ c.ratedLoadKg = assets[a].ratedLoadKg
                /\ c.limitRequired = assets[a].limitRequired
  /\ \A t : LET c == TestRow(t).columns
            IN  /\ c.id = t /\ c.asset = tests[t].asset /\ c.kind = tests[t].kind
                /\ c.result = tests[t].result
  /\ \A t : LET c == LinkRow(t).columns
            IN  c.record = t /\ c.original = tests[t].retestOf
  /\ \A d : LET c == DefectRow(d).columns
            IN  /\ c.id = d /\ c.asset = defects[d].asset /\ c.severity = defects[d].severity
                /\ c.status = defects[d].status
                /\ c.evidence = IF defects[d].evidence = <<>> THEN Nil
                                ELSE Last(defects[d].evidence)
  /\ \A d, i : /\ EvidenceRow(d, i).columns =
                    [defect |-> d, version |-> i, content |-> defects[d].evidence[i]]
               /\ DecisionRow(d, i).columns = DecisionColumns(d, i, i)
  /\ ReportRow.columns.digest = report.digest /\ ReportRow.columns.content = report.content
  /\ CertificateRow.columns = certificate
  BY DEF AssetRow, TestRow, LinkRow, DefectRow, EvidenceRow, DecisionRow, DecisionSequence,
         ReportRow, CertificateRow, Row

\* One row of a kind for each record of the case.
LEMMA CountsAgreeWithCase ==
  ASSUME TypeOK, tables = DetailRows
  PROVE  CountsMatch
<1>1. Len(assets) \in Nat /\ Len(tests) \in Nat /\ Len(defects) \in Nat
  BY SeqElement DEF TypeOK
<1>2. Cardinality(Columns("rigging_assets")) = Len(assets)
  <2> DEFINE T == {AssetRow(a).columns : a \in 1..Len(assets)}
             f == [a \in 1..Len(assets) |-> AssetRow(a).columns]
  <2>1. f \in [1..Len(assets) -> T]
    OBVIOUS
  <2>2. \A x \in 1..Len(assets) : f[x].id = x
    BY ColumnFields
  <2>3. \A t \in T : \E x \in 1..Len(assets) : f[x] = t
    OBVIOUS
  <2> HIDE DEF f, T
  <2>4. Cardinality(T) = Len(assets)
    BY <1>1, <2>1, <2>2, <2>3, CountByPosition
  <2> QED BY <2>4, ColumnsOfCase DEF T
<1>3. Cardinality(Columns("load_test_records")) = Len(tests)
  <2> DEFINE T == {TestRow(t).columns : t \in 1..Len(tests)}
             f == [t \in 1..Len(tests) |-> TestRow(t).columns]
  <2>1. f \in [1..Len(tests) -> T]
    OBVIOUS
  <2>2. \A x \in 1..Len(tests) : f[x].id = x
    BY ColumnFields
  <2>3. \A t \in T : \E x \in 1..Len(tests) : f[x] = t
    OBVIOUS
  <2> HIDE DEF f, T
  <2>4. Cardinality(T) = Len(tests)
    BY <1>1, <2>1, <2>2, <2>3, CountByPosition
  <2> QED BY <2>4, ColumnsOfCase DEF T
<1>4. Cardinality(Columns("defects")) = Len(defects)
  <2> DEFINE T == {DefectRow(d).columns : d \in 1..Len(defects)}
             f == [d \in 1..Len(defects) |-> DefectRow(d).columns]
  <2>1. f \in [1..Len(defects) -> T]
    OBVIOUS
  <2>2. \A x \in 1..Len(defects) : f[x].id = x
    BY ColumnFields
  <2>3. \A t \in T : \E x \in 1..Len(defects) : f[x] = t
    OBVIOUS
  <2> HIDE DEF f, T
  <2>4. Cardinality(T) = Len(defects)
    BY <1>1, <2>1, <2>2, <2>3, CountByPosition
  <2> QED BY <2>4, ColumnsOfCase DEF T
<1> QED BY <1>2, <1>3, <1>4 DEF CountsMatch

\* Records and their rows say the same.
LEMMA RecordsAgree ==
  ASSUME TypeOK, tables = DetailRows
  PROVE  ValidateAssets /\ ValidateTests /\ ValidateRetestLinks /\ ValidateDefects
<1>1. ValidateAssets
  BY ColumnsOfCase, ColumnFields DEF ValidateAssets
<1>2. ValidateTests
  BY ColumnsOfCase, ColumnFields DEF ValidateTests
<1>3. ValidateDefects
  BY ColumnsOfCase, ColumnFields DEF ValidateDefects
<1>4. ValidateRetestLinks
  <2> DEFINE S == {t \in 1..Len(tests) : tests[t].retestOf # NoId}
             T == Columns("test_retest_links")
             f == [t \in S |-> LinkRow(t).columns]
  <2>1. \A c \in T : c.record \in 1..Len(tests) /\ tests[c.record].retestOf = c.original
    BY ColumnsOfCase, ColumnFields
  <2>2. \A c : c \in T <=> \E t \in S : c = LinkRow(t).columns
    <3>1. \A c : c \in T <=>
            \E t \in 1..Len(tests) : tests[t].retestOf # NoId /\ c = LinkRow(t).columns
      BY ColumnsOfCase
    <3> HIDE DEF T
    <3> QED BY <3>1
  <2>3. IsFiniteSet(S)
    <3>1. Len(tests) \in Nat
      BY SeqElement DEF TypeOK
    <3>2. IsFiniteSet(1..Len(tests)) /\ S \in SUBSET (1..Len(tests))
      BY <3>1, FS_Interval
    <3> QED BY <3>2, FS_Subset
  <2> HIDE DEF S, T
  <2>4. f \in [S -> T] /\ \A t \in T : \E x \in S : f[x] = t
    BY <2>2
  <2>5. \A x \in S : f[x].record = x
    BY ColumnFields
  <2> HIDE DEF f
  <2>6. Cardinality(T) = Cardinality(S)
    BY <2>3, <2>4, <2>5, CountByPairing
  <2> QED BY <2>1, <2>6 DEF ValidateRetestLinks, S, T
<1> QED BY <1>1, <1>2, <1>3, <1>4

\* The places in a list of n lists, as the validator counts them.
Places(n, lengths) == UNION {{d} \X (1..lengths[d]) : d \in 1..n}

LEMMA PlacesFinite ==
  ASSUME NEW n \in Nat, NEW m \in [1..n -> Nat]
  PROVE  /\ IsFiniteSet(Places(n, m))
         /\ \A x : x \in Places(n, m) <=> \E d \in 1..n : \E i \in 1..m[d] : x = <<d, i>>
<1> DEFINE parts == {{d} \X (1..m[d]) : d \in 1..n}
           g == [d \in 1..n |-> {d} \X (1..m[d])]
<1>1. IsFiniteSet(1..n)
  BY FS_Interval
<1>2. g \in Surjection(1..n, parts)
  BY DEF Surjection
<1>3. IsFiniteSet(parts)
  BY <1>1, <1>2, FS_Surjection
<1>4. ASSUME NEW part \in parts PROVE IsFiniteSet(part)
  <2>1. PICK d \in 1..n : part = {d} \X (1..m[d])
    OBVIOUS
  <2>2. IsFiniteSet({d})
    BY FS_Singleton
  <2>3. m[d] \in Int
    OBVIOUS
  <2>4. IsFiniteSet(1..m[d])
    BY <2>3, FS_Interval
  <2> QED BY <2>1, <2>2, <2>4, FS_Product
<1>5. IsFiniteSet(UNION parts)
  BY <1>3, <1>4, FS_UNION
<1>6. \A x : x \in UNION parts <=> \E d \in 1..n : \E i \in 1..m[d] : x = <<d, i>>
  <2> TAKE x
  <2>1. x \in UNION parts <=> \E d \in 1..n : x \in {d} \X (1..m[d])
    OBVIOUS
  <2>2. \A d \in 1..n : x \in {d} \X (1..m[d]) <=> \E i \in 1..m[d] : x = <<d, i>>
    OBVIOUS
  <2> QED BY <2>1, <2>2
<1> QED BY <1>5, <1>6 DEF Places

\* Every version of evidence and every decision has its row, and no other has.
LEMMA HistoryAgrees ==
  ASSUME TypeOK, tables = DetailRows
  PROVE  ValidateDefectHistory
<1> DEFINE evidence == UNION {{d} \X (1..Len(defects[d].evidence)) : d \in 1..Len(defects)}
           decisions == UNION {{d} \X (1..Len(defects[d].decisions)) : d \in 1..Len(defects)}
           evidenceOf(x) == [defect |-> x[1], version |-> x[2],
                             content |-> defects[x[1]].evidence[x[2]]]
           decisionOf(x) == DecisionColumns(x[1], x[2], x[2])
<1>1. /\ Len(defects) \in Nat
      /\ \A d \in 1..Len(defects) :
           Len(defects[d].evidence) \in Nat /\ Len(defects[d].decisions) \in Nat
  <2>1. Len(defects) \in Nat /\ \A d \in 1..Len(defects) : defects[d] \in Defect
    BY SeqElement DEF TypeOK
  <2>2. \A d \in 1..Len(defects) :
          defects[d].evidence \in Seq(Evidence) /\ defects[d].decisions \in Seq(ItemDecision)
    BY <2>1 DEF Defect
  <2> QED BY <2>1, <2>2, SeqElement
<1>2. /\ IsFiniteSet(evidence)
      /\ \A x : x \in evidence <=>
           \E d \in 1..Len(defects) : \E i \in 1..Len(defects[d].evidence) : x = <<d, i>>
  <2> DEFINE m == [d \in 1..Len(defects) |-> Len(defects[d].evidence)]
  <2>1. m \in [1..Len(defects) -> Nat] /\ \A d \in 1..Len(defects) : m[d] = Len(defects[d].evidence)
    BY <1>1
  <2> HIDE DEF m
  <2>2. evidence = Places(Len(defects), m)
    BY <2>1 DEF Places
  <2> HIDE DEF evidence
  <2>3. /\ IsFiniteSet(Places(Len(defects), m))
        /\ \A x : x \in Places(Len(defects), m) <=>
             \E d \in 1..Len(defects) : \E i \in 1..m[d] : x = <<d, i>>
    BY <1>1, <2>1, PlacesFinite
  <2>4. \A x : (\E d \in 1..Len(defects) : \E i \in 1..m[d] : x = <<d, i>>) <=>
              \E d \in 1..Len(defects) : \E i \in 1..Len(defects[d].evidence) : x = <<d, i>>
    BY <2>1
  <2> QED BY <2>2, <2>3, <2>4
<1>3. /\ IsFiniteSet(decisions)
      /\ \A x : x \in decisions <=>
           \E d \in 1..Len(defects) : \E i \in 1..Len(defects[d].decisions) : x = <<d, i>>
  <2> DEFINE m == [d \in 1..Len(defects) |-> Len(defects[d].decisions)]
  <2>1. m \in [1..Len(defects) -> Nat] /\ \A d \in 1..Len(defects) : m[d] = Len(defects[d].decisions)
    BY <1>1
  <2> HIDE DEF m
  <2>2. decisions = Places(Len(defects), m)
    BY <2>1 DEF Places
  <2> HIDE DEF decisions
  <2>3. /\ IsFiniteSet(Places(Len(defects), m))
        /\ \A x : x \in Places(Len(defects), m) <=>
             \E d \in 1..Len(defects) : \E i \in 1..m[d] : x = <<d, i>>
    BY <1>1, <2>1, PlacesFinite
  <2>4. \A x : (\E d \in 1..Len(defects) : \E i \in 1..m[d] : x = <<d, i>>) <=>
              \E d \in 1..Len(defects) : \E i \in 1..Len(defects[d].decisions) : x = <<d, i>>
    BY <2>1
  <2> QED BY <2>2, <2>3, <2>4
<1>4. \A c : c \in Columns("defect_evidence_versions") <=> \E x \in evidence : c = evidenceOf(x)
  <2> HIDE DEF evidence, decisions
  <2>1. \A c : c \in Columns("defect_evidence_versions") <=>
          \E d \in 1..Len(defects) : \E i \in 1..Len(defects[d].evidence) :
            c = EvidenceRow(d, i).columns
    BY ColumnsOfCase
  <2>2. \A d, i : EvidenceRow(d, i).columns = evidenceOf(<<d, i>>)
    BY ColumnFields
  <2> HIDE DEF evidenceOf
  <2> TAKE c
  <2>3. ASSUME c \in Columns("defect_evidence_versions")
        PROVE  \E x \in evidence : c = evidenceOf(x)
    <3>1. PICK d \in 1..Len(defects) : \E i \in 1..Len(defects[d].evidence) : c = EvidenceRow(d, i).columns
      BY <2>1, <2>3
    <3>2. PICK i \in 1..Len(defects[d].evidence) : c = EvidenceRow(d, i).columns
      BY <3>1
    <3>3. <<d, i>> \in evidence /\ c = evidenceOf(<<d, i>>)
      BY <1>2, <2>2, <3>2
    <3> QED BY <3>3
  <2>4. ASSUME NEW x \in evidence, c = evidenceOf(x)
        PROVE  c \in Columns("defect_evidence_versions")
    <3>1. PICK d \in 1..Len(defects) : \E i \in 1..Len(defects[d].evidence) : x = <<d, i>>
      BY <1>2
    <3>2. PICK i \in 1..Len(defects[d].evidence) : x = <<d, i>>
      BY <3>1
    <3>3. c = EvidenceRow(d, i).columns
      BY <2>2, <2>4, <3>2
    <3> QED BY <2>1, <3>2, <3>3
  <2> QED BY <2>3, <2>4
<1>5. \A c : c \in Columns("defect_review_decisions") <=> \E x \in decisions : c = decisionOf(x)
  <2> HIDE DEF evidence, decisions
  <2>1. \A c : c \in Columns("defect_review_decisions") <=>
          \E d \in 1..Len(defects) : \E i \in 1..Len(defects[d].decisions) :
            c = DecisionRow(d, i).columns
    BY ColumnsOfCase
  <2>2. \A d, i : DecisionRow(d, i).columns = decisionOf(<<d, i>>)
    BY ColumnFields
  <2> HIDE DEF decisionOf
  <2> TAKE c
  <2>3. ASSUME c \in Columns("defect_review_decisions")
        PROVE  \E x \in decisions : c = decisionOf(x)
    <3>1. PICK d \in 1..Len(defects) : \E i \in 1..Len(defects[d].decisions) : c = DecisionRow(d, i).columns
      BY <2>1, <2>3
    <3>2. PICK i \in 1..Len(defects[d].decisions) : c = DecisionRow(d, i).columns
      BY <3>1
    <3>3. <<d, i>> \in decisions /\ c = decisionOf(<<d, i>>)
      BY <1>3, <2>2, <3>2
    <3> QED BY <3>3
  <2>4. ASSUME NEW x \in decisions, c = decisionOf(x)
        PROVE  c \in Columns("defect_review_decisions")
    <3>1. PICK d \in 1..Len(defects) : \E i \in 1..Len(defects[d].decisions) : x = <<d, i>>
      BY <1>3
    <3>2. PICK i \in 1..Len(defects[d].decisions) : x = <<d, i>>
      BY <3>1
    <3>3. c = DecisionRow(d, i).columns
      BY <2>2, <2>4, <3>2
    <3> QED BY <2>1, <3>2, <3>3
  <2> QED BY <2>3, <2>4
<1>6. Cardinality(Columns("defect_evidence_versions")) = Cardinality(evidence)
  <2> DEFINE f == [x \in evidence |-> evidenceOf(x)]
             T == Columns("defect_evidence_versions")
  <2>1. \A x, y \in evidence : evidenceOf(x) = evidenceOf(y) => x = y
    <3>1. \A x \in evidence : x = <<x[1], x[2]>>
      <4> HIDE DEF evidence
      <4> QED BY <1>2
    <3>2. \A x : evidenceOf(x).defect = x[1] /\ evidenceOf(x).version = x[2]
      OBVIOUS
    <3> HIDE DEF evidence, evidenceOf
    <3> QED BY <3>1, <3>2
  <2> HIDE DEF T, evidence, evidenceOf
  <2>2. f \in [evidence -> T] /\ \A t \in T : \E x \in evidence : f[x] = t
    BY <1>4 DEF T
  <2>3. \A x, y \in evidence : f[x] = f[y] => x = y
    BY <2>1
  <2> HIDE DEF f
  <2>4. Cardinality(T) = Cardinality(evidence)
    BY <1>2, <2>2, <2>3, CountByPairing
  <2> QED BY <2>4 DEF T
<1>7. Cardinality(Columns("defect_review_decisions")) = Cardinality(decisions)
  <2> DEFINE f == [x \in decisions |-> decisionOf(x)]
             T == Columns("defect_review_decisions")
  <2>1. \A x, y \in decisions : decisionOf(x) = decisionOf(y) => x = y
    <3>1. \A x \in decisions : x = <<x[1], x[2]>>
      <4> HIDE DEF decisions
      <4> QED BY <1>3
    <3>2. \A x : decisionOf(x).defect = x[1] /\ decisionOf(x).sequence = x[2]
      BY DEF DecisionColumns
    <3> HIDE DEF decisions, decisionOf
    <3> QED BY <3>1, <3>2
  <2> HIDE DEF T, decisions, decisionOf
  <2>2. f \in [decisions -> T] /\ \A t \in T : \E x \in decisions : f[x] = t
    BY <1>5 DEF T
  <2>3. \A x, y \in decisions : f[x] = f[y] => x = y
    BY <2>1
  <2> HIDE DEF f
  <2>4. Cardinality(T) = Cardinality(decisions)
    BY <1>3, <2>2, <2>3, CountByPairing
  <2> QED BY <2>4 DEF T
<1>8. /\ \A x \in evidence :
           [defect |-> x[1], version |-> x[2], content |-> defects[x[1]].evidence[x[2]]]
             \in Columns("defect_evidence_versions")
      /\ \A x \in decisions :
           DecisionColumns(x[1], x[2], x[2]) \in Columns("defect_review_decisions")
  <2> HIDE DEF evidence, decisions
  <2> QED BY <1>4, <1>5
<1> QED BY <1>6, <1>7, <1>8 DEF ValidateDefectHistory

\* The report and the certificate are kept as they are.
LEMMA ArtifactsAgree ==
  ASSUME tables = DetailRows
  PROVE  ValidateFrozenArtifacts
<1>1. \A c : /\ c \in Columns("frozen_reports") <=> report # Nil /\ c = ReportRow.columns
             /\ c \in Columns("certificates") <=> certificate # Nil /\ c = certificate
  BY ColumnsOfCase, ColumnFields
<1>2. {<<c.digest, c.content>> : c \in Columns("frozen_reports")} =
        IF report = Nil THEN {} ELSE {<<report.digest, report.content>>}
  <2>1. CASE report = Nil
    BY <1>1, <2>1
  <2>2. CASE report # Nil
    <3>1. Columns("frozen_reports") = {ReportRow.columns}
      BY <1>1, <2>2
    <3> QED BY <2>2, <3>1, ColumnFields
  <2> QED BY <2>1, <2>2
<1>3. {<<c.reportDigest, c.issuedAt, c.verificationDigest>> : c \in Columns("certificates")} =
        IF certificate = Nil THEN {}
        ELSE {<<certificate.reportDigest, certificate.issuedAt, certificate.verificationDigest>>}
  <2>1. CASE certificate = Nil
    BY <1>1, <2>1
  <2>2. CASE certificate # Nil
    <3>1. Columns("certificates") = {certificate}
      BY <1>1, <2>2
    <3> QED BY <2>2, <3>1
  <2> QED BY <2>1, <2>2
<1> QED BY <1>2, <1>3 DEF ValidateFrozenArtifacts

\* Whatever commands have been accepted, the validator finds in the rows what
\* the snapshot says: opening the store, or verifying its certificate, never
\* refuses a case for the way its rows were written.
THEOREM ViewAlwaysValid == StoredSpec => []ViewValid
<1>1. TypeOK /\ TablesFollow => ViewValid
  BY CountsAgreeWithCase, RecordsAgree, HistoryAgrees, ArtifactsAgree
     DEF TablesFollow, ViewValid, ValidateMaterializedView
<1> QED BY <1>1, StoredCase, Typing, TablesAlwaysFollow, PTL
=============================================================================
