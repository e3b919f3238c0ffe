------------------------------- MODULE MCReaders -------------------------------
(***************************************************************************)
(* A small instance of Readers: three cases, one certified by the earlier  *)
(* version, with which another shares the end of its identifier.           *)
(***************************************************************************)
EXTENDS Readers

MCSuffix == [n \in Numbers |-> IF n = 2 THEN "b" ELSE "a"]

\* None, two minor ones, one minor and one major.
MCOpenDefects ==
  {NoDefects, [NoDefects EXCEPT !["minor"] = 2], [NoDefects EXCEPT !["minor"] = 1, !["major"] = 1]}

\* A page is one entry long, or two, or as long as the default allows.
Asked(statuses, highest, from, to, limit) ==
  [statuses |-> statuses, highest |-> highest, from |-> from, to |-> to, limit |-> limit]

MCQueries ==
  {Asked({}, Any, Any, Any, 1), Asked({}, Any, Any, Any, 0),
   Asked({}, "minor", Any, Any, 1),
   Asked({"testing"}, Any, 1, Any, 1),
   Asked({}, Any, 1, 0, 1), Asked({}, Any, Any, Any, 4)}
=============================================================================
