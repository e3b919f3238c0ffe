----------------------------- MODULE MCDetailTables -----------------------------
(* The instances of MCInspectionCase, with the rows that are stored of a case. *)
EXTENDS DetailTables, MCInspectionCase
=============================================================================
