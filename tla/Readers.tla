-------------------------------- MODULE Readers --------------------------------
(***************************************************************************)
(* Requests that only read, beside commands that commit.  Readers do not   *)
(* see one another, so it is enough to put each beside the commits alone:  *)
(* a behaviour pages through the work queue or verifies a certificate.     *)
(***************************************************************************)
EXTENDS WorkQueue, CertificateCheck

vars == <<store, session, check>>

Init == InitRows /\ InitSession /\ InitCheck

Next ==
  \/ held = Nil /\ QueueStep /\ UNCHANGED <<store, check>>
  \/ step = "idle" /\ CheckStep /\ UNCHANGED <<store, session>>
  \/ Tick /\ UNCHANGED <<session, check>>
  \/ \E n \in Numbers : CommitBeside(n) /\ UNCHANGED check

Spec == Init /\ [][Next]_vars

\* Types of what readers carry from one statement to the next.
TypeOK ==
  /\ rows \in [Numbers -> {Nil} \union RowRecords]
  /\ clock \in 0..MaxTime /\ commits \in 0..MaxCommits
  /\ step \in SessionSteps /\ step # "idle" => query.limit \in 1..MaxLimit
  /\ page \union shown \subseteq Entries /\ cursor # Nil => cursor \in shown
  /\ touched \subseteq Numbers
  /\ found \in {Nil} \union Numbers
  /\ answer # Nil => answer \subseteq Reasons
=============================================================================
