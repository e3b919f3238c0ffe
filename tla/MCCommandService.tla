--------------------------- MODULE MCCommandService ---------------------------
(***************************************************************************)
(* Small instances of CommandService.  Case numbers are spelled out:       *)
(*   "h 1" and "H 1" share a mutex and name the stored case H 1;           *)
(*   "h  1" (two spaces) has a mutex of its own, H  1, and creates H 1;    *)
(*   "w 1" is another case.                                                *)
(***************************************************************************)
EXTENDS CommandService, TLC

MCLockName == [s \in {"h 1", "H 1", "h  1", "w 1"} |->
  CASE s = "h  1" -> "H  1" [] s = "w 1" -> "W 1" [] OTHER -> "H 1"]

MCStoredName == [s \in DOMAIN MCLockName |-> IF s = "w 1" THEN "W 1" ELSE "H 1"]

Sent(key, command, body, target, caseNumber, expected) ==
  [complete |-> TRUE, key |-> key, command |-> command, body |-> body, target |-> target,
   caseNumber |-> caseNumber, expected |-> expected]

Create == Sent("k0", "create_case", "hall", "none", "h 1", 0)
Prepare == Sent("k1", "prepare_baseline", "none", "none", "h 1", 1)

\* A case is created and worked on by a command that is sent twice, once with
\* the number in capitals.  Another creation, under the key of the first, writes
\* the number in another way.  One command names no actor.
MCRetries ==
  [create |-> Create,
   work |-> Prepare,
   resent |-> [Prepare EXCEPT !.caseNumber = "H 1"],
   misspelt |-> Sent("k0", "create_case", "ward", "none", "h  1", 0),
   nameless |-> [Prepare EXCEPT !.complete = FALSE]]

\* The same command sent twice, a rival that wants the same version, and the
\* creation of another case, under the key of the rival.
MCRivals ==
  [create |-> Create,
   work |-> Prepare,
   resent |-> [Prepare EXCEPT !.caseNumber = "H 1"],
   rival |-> Sent("k2", "prepare_baseline", "other", "none", "h 1", 1),
   elsewhere |-> Sent("k2", "create_case", "ward", "none", "w 1", 0)]

\* One key, one body, two defects of the same case.
MCTwoDefects ==
  [create |-> Create,
   first |-> Sent("k1", "remediate_defect", "evidence", "defect 1", "h 1", 1),
   second |-> Sent("k1", "remediate_defect", "evidence", "defect 2", "h 1", 1)]

MCRetriesCalls == DOMAIN MCRetries
MCRivalsCalls == DOMAIN MCRivals
MCTwoDefectsCalls == DOMAIN MCTwoDefects

\* Processes differ only in their names; the properties of the run with this
\* symmetry are safety properties and name no process.
MCSymmetry == Permutations(Processes)
=============================================================================
