------------------------------- MODULE MCText -------------------------------
(***************************************************************************)
(* The XML parser, and the reader of texts above it: one at a time.        *)
(***************************************************************************)
EXTENDS TextXML, MCXmlParser

VARIABLE which     \* "text" or "parser"

\* Of the elements that are handled alike, one is enough.
SomeElements == Names \ {"none", "span", "tab", "line_break", "header"}

NoParser ==
  /\ doc = "none" /\ fed = 0 /\ x = "none" /\ proc = "none" /\ parsing = "none" /\ buf = "none"
  /\ call = Idle /\ pos = Origin /\ told = <<>> /\ status = "none" /\ made = "none"

MCInit ==
  /\ which \in {"text", "parser"}
  /\ Init
  /\ IF which = "parser" THEN ParsingInit ELSE NoParser

MCNext ==
  /\ UNCHANGED which
  /\ \/ which = "text" /\ Next /\ UNCHANGED parsingVars
     \/ which = "parser" /\ ParsingNext /\ UNCHANGED vars

MCSpec == MCInit /\ [][MCNext]_<<vars, parsingVars, which>>

-----------------------------------------------------------------------------
(***************************************************************************)
(* The invariants of XmlParser, where it is at work.                       *)
(***************************************************************************)
Parsing == which = "parser"
AllToldAsWritten == Parsing => ToldAsWritten
BoundedParser    == Parsing => ParserBounded
=============================================================================
