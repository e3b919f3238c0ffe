--------------------------- MODULE MCInspectionCase ---------------------------
(***************************************************************************)
(* Small instances of InspectionCase.  Names are spelled out, so that what *)
(* normalisation and case folding do to them can be read off:              *)
(*   "wei", "WEI " one person, who EqualFold recognises after TrimSpace;   *)
(*   "wei li", "wei  li" one person, who it does not (inner white space).  *)
(***************************************************************************)
EXTENDS InspectionCase

MCActors == {"wei", "WEI ", "lin"}
MCTwoSpaces == {"wei  li", "lin", "bo"}
MCTwoPeople == {"wei", "lin"}

MCContents == {"photo", "report"}

MCNormalizeText == [x \in Actors \union Contents |->
  CASE x = "WEI " -> "WEI"
    [] x = "wei  li" -> "wei li"
    [] OTHER -> x]

MCFoldName == [x \in Actors \union {MCNormalizeText[a] : a \in Actors} |->
  IF x \in {"WEI ", "WEI"} THEN "wei" ELSE x]

MCRawCodes == {"w-1", " W-1", "B-2"}
MCOneCode == {"w-1"}
MCNormalizeCode == [x \in RawCodes |-> IF x = "B-2" THEN "B-2" ELSE "W-1"]

MCAllKinds == {"static_load", "dynamic_load", "brake_distance", "limit_trigger"}
=============================================================================
