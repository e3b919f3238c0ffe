---------------------------- MODULE CaseLifecycle ----------------------------
(***************************************************************************)
(* What an inspection case promises to whoever relies on its certificate,  *)
(* with no word of how review, evidence or hashing work:                   *)
(*   - every failed measurement leaves a finding, and measurements are     *)
(*     only ever added, while the case is open;                            *)
(*   - approval settles every finding, and from then on neither            *)
(*     measurements nor findings change;                                   *)
(*   - the seal is what was approved, and the certificate names the seal.  *)
(***************************************************************************)
EXTENDS Naturals, Sequences

CONSTANT Nothing   \* no seal, no certificate yet

VARIABLES
  phase,        \* open, under_review, approved, sealed, released
  measured,     \* the results taken, in order
  findings,     \* for each finding, whether it is settled
  seal,         \* what was sealed
  certificate   \* the seal that the certificate names

vars == <<phase, measured, findings, seal, certificate>>

Init ==
  /\ phase = "open"
  /\ measured = <<>> /\ findings = <<>>
  /\ seal = Nothing /\ certificate = Nothing

Measure(result) ==
  /\ phase = "open"
  /\ measured' = Append(measured, result)
  /\ findings' = IF result = "fail" THEN Append(findings, FALSE) ELSE findings
  /\ UNCHANGED <<phase, seal, certificate>>

Observe ==
  /\ phase = "open"
  /\ findings' = Append(findings, FALSE)
  /\ UNCHANGED <<phase, measured, seal, certificate>>

Submit ==
  /\ phase = "open"
  /\ phase' = "under_review"
  /\ UNCHANGED <<measured, findings, seal, certificate>>

SendBack ==
  /\ phase = "under_review"
  /\ phase' = "open"
  /\ UNCHANGED <<measured, findings, seal, certificate>>

Approve ==
  /\ phase = "under_review"
  /\ phase' = "approved"
  /\ findings' = [f \in 1..Len(findings) |-> TRUE]
  /\ UNCHANGED <<measured, seal, certificate>>

Seal ==
  /\ phase = "approved"
  /\ phase' = "sealed"
  /\ seal' = [measured |-> measured, findings |-> findings]
  /\ UNCHANGED <<measured, findings, certificate>>

Release ==
  /\ phase = "sealed"
  /\ phase' = "released"
  /\ certificate' = seal
  /\ UNCHANGED <<measured, findings, seal>>

Next ==
  \/ \E result \in {"pass", "fail"} : Measure(result)
  \/ Observe \/ Submit \/ SendBack \/ Approve \/ Seal \/ Release

Spec == Init /\ [][Next]_vars
=============================================================================
