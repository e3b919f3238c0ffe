------------------------------ MODULE MCServerLife ------------------------------
(* Files as other runs may have left them: none, one of the earlier version    *)
(* with fewer tables and a case, one of a version to come.  The runs themselves *)
(* leave the others: half set up, up to date, with a case that is not intact.   *)
EXTENDS ServerLife

CONSTANT q  \* one of the processes

\* Both processes serve the file; one also checks itself on it, one in memory.
MCFlags ==
  [r \in Processes |->
     {[selfcheck |-> b, memory |-> b /\ r = q] : b \in BOOLEAN}]

MCInitialFiles ==
  {EmptyFile, [tables |-> {1}, version |-> 1, commits |-> 1, intact |-> TRUE],
   [tables |-> {1, 2}, version |-> 3, commits |-> 0, intact |-> TRUE]}
=============================================================================
