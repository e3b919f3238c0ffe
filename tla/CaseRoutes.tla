------------------------------- MODULE CaseRoutes -------------------------------
(***************************************************************************)
(* How a request finds its case and its operation: HandleCaseResource and  *)
(* dispatchAction of internal/httpapi.  A text is the sequence of its runs *)
(* of ordinary characters and of the characters / and %, which alone mean  *)
(* something to a path.                                                    *)
(*                                                                         *)
(* A client escapes the case number in the path it sends; net/http undoes  *)
(* that once, so r.URL.Path holds the number as the client meant it.       *)
(***************************************************************************)
EXTENDS Integers, SequencesExt, FiniteSetsExt

CONSTANTS
  CaseNumbers,  \* the numbers that clients create cases with
  DefectIds,
  Nil

VARIABLES
  cases,    \* the numbers of the stored cases
  request,  \* the case a client means, the method, and the rest of the path
  handled   \* the operation and the case it came to, or the problem's status

vars == <<cases, request, handled>>

Route(method, operation, parts) ==
  [method |-> method, operation |-> operation, parts |-> parts]

\* The table of README.md and of dispatchAction, for a given defect.
Routes(defect) ==
  {Route("GET", "case", <<>>), Route("GET", "audit", <<"audit">>),
   Route("GET", "certificate", <<"certificate">>),
   Route("GET", "coverage", <<"tests", "coverage">>),
   Route("POST", "prepare", <<"prepare">>), Route("POST", "add_asset", <<"assets">>),
   Route("POST", "add_assets_batch", <<"assets", "batch">>),
   Route("POST", "lock_baseline", <<"baseline", "lock">>),
   Route("POST", "record_test", <<"tests">>), Route("POST", "add_defect", <<"defects">>),
   Route("POST", "remediate", <<"defects", defect, "remediation">>),
   Route("POST", "review_defect", <<"defects", defect, "review">>),
   Route("POST", "submit", <<"review", "submit">>),
   Route("POST", "return", <<"review", "return">>),
   Route("POST", "approve", <<"review", "approve">>),
   Route("POST", "freeze", <<"report", "freeze">>),
   Route("POST", "issue", <<"certificate", "issue">>),
   Route("POST", "verify", <<"certificate", "verify">>),
   Route("POST", "verify", <<"certificate", "verification">>)}

AllRoutes == UNION {Routes(defect) : defect \in DefectIds}

-----------------------------------------------------------------------------
(* Pieces of the handlers *)

\* r.URL.Path after the prefix.
PathOf(number, parts) ==
  number \o FlattenSeq([i \in 1..Len(parts) |-> <<"/", parts[i]>>])

\* strings.Trim(path, "/")
Trimmed(path) ==
  LET inner == {i \in 1..Len(path) : path[i] # "/"}
  IN IF inner = {} THEN <<>> ELSE SubSeq(path, Min(inner), Max(inner))

\* strings.Split(path, "/")
Split(path) ==
  FoldLeft(LAMBDA parts, c : IF c = "/" THEN Append(parts, <<>>)
                             ELSE Append(Front(parts), Append(Last(parts), c)),
           << <<>> >>, path)

\* url.PathUnescape: two hexadecimal digits must follow every percent sign.
HexByte == [x \in {"2F", "25"} |-> IF x = "2F" THEN "/" ELSE "%"]

EscapeValid(text) ==
  \A i \in 1..Len(text) : text[i] = "%" => i < Len(text) /\ text[i + 1] \in DOMAIN HexByte

PathUnescape(text) ==
  LET decoded == [i \in 1..Len(text) |->
        IF i > 1 /\ text[i - 1] = "%" THEN HexByte[text[i]] ELSE text[i]]
      kept == SetToSortSeq({i \in 1..Len(text) : text[i] # "%"}, <)
  IN [i \in 1..Len(kept) |-> decoded[kept[i]]]

Problem(status) == [operation |-> status, case |-> Nil]

\* dispatchAction: the parts after the number, each one plain word here.
DispatchAction(method, number, parts) ==
  LET matching == {r \in AllRoutes : r.parts # <<>> /\ r.method = method /\
                     parts = [i \in 1..Len(r.parts) |-> <<r.parts[i]>>]}
  IN IF matching # {} THEN {[operation |-> r.operation, case |-> number] : r \in matching}
     ELSE {Problem(IF method = "POST" THEN 404 ELSE 405)}

HandleCaseResource(method, path) ==
  LET parts == Split(Trimmed(path))
  IN IF parts[1] = <<>> THEN {Problem(404)}
     ELSE IF ~EscapeValid(parts[1]) THEN {Problem(400)}
     ELSE IF Len(parts) > 1 THEN DispatchAction(method, PathUnescape(parts[1]), Tail(parts))
     ELSE IF method = "GET" THEN {[operation |-> "case", case |-> PathUnescape(parts[1])]}
     ELSE {Problem(405)}

-----------------------------------------------------------------------------
(* Steps *)

Init == cases = {} /\ request = Nil /\ handled = Nil

\* NewInspectionCase asks of a number only that it is neither empty nor long.
CreateCase(number) ==
  /\ number # <<>> /\ number \notin cases
  /\ cases' = cases \union {number}
  /\ UNCHANGED <<request, handled>>

Send(number, route) ==
  /\ number \in cases
  /\ request' = [case |-> number, route |-> route]
  /\ handled' = Nil
  /\ UNCHANGED cases

\* The handler of an operation hands the case on to the service, unless it
\* cannot decode the body of the request.
Handle ==
  LET method == request.route.method
  IN /\ request # Nil /\ handled = Nil
     /\ \E result \in HandleCaseResource(method, PathOf(request.case, request.route.parts)) :
          \/ handled' = result
          \/ method = "POST" /\ result.case # Nil /\ handled' = Problem(400)
     /\ UNCHANGED <<cases, request>>

Next ==
  \/ \E number \in CaseNumbers : CreateCase(number)
  \/ \E number \in CaseNumbers, route \in AllRoutes : Send(number, route)
  \/ Handle

Spec == Init /\ [][Next]_vars

-----------------------------------------------------------------------------
(* What the documentation says and the code does not do *)

\* README.md:54-77: a route of the table is about the case whose number stands
\* in its path.  So no request is answered for another case, whatever the
\* numbers that cases were created with.
ServesNoOtherCase ==
  handled # Nil /\ handled.case \in cases => handled.case = request.case
=============================================================================
