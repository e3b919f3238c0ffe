------------------------------ MODULE MCCaseRoutes ------------------------------
(* Case numbers with and without the characters that mean something to a path. *)
EXTENDS CaseRoutes

MCCaseNumbers ==
  {<<"HALL">>, <<"HALL", "/", "audit">>, <<"100", "%">>, <<"HALL", "%", "2F">>}
=============================================================================
