------------------------------ MODULE MCSheet ------------------------------
(***************************************************************************)
(* The cell container alone, fast searches, and searches by rows and       *)
(* columns: one of the three at a time.                                    *)
(***************************************************************************)
EXTENDS SheetModel

CONSTANTS Columns, Rows     \* the grid, inside the key; fast searches use two rows

VARIABLE which      \* "cells", "fast" or "ordered"

Grid == [x : Columns, y : Rows]

\* A row and a column that the key takes for row 0 and column 0.
Beyond == {[x |-> 0, y |-> KeyMod], [x |-> KeyMod, y |-> 0]}
GridAndBeyond == Grid \union Beyond

\* "abc" and "Abc" are one text when the case does not matter.
Alphabet == {"abc", "Abc", "x"}
SmallLetters == [t \in Alphabet |-> IF t = "Abc" THEN "abc" ELSE t]
Parts == {<<t, t>> : t \in Alphabet}

FastFlags    == {{"Fast", "SubStr", "NoCase"}, {"Fast", "Exact", "Case"}, {"Fast"}}
OrderedFlags == {{"Rows", "SubStr", "NoCase"}, {"Columns", "Exact"}, {"Rows"}, {"Exact", "Case"}}
SomeFlags    == FastFlags \union OrderedFlags \union {{"Exact", "SubStr", "Fast"}}

searchVars == <<request, m_lSearchFromBegin, m_OrderSearchPosition, answer, history>>

MCInit == SheetInit /\ which \in {"cells", "fast", "ordered"}

\* The calls of SheetNext with these requests.
Calls(texts, flagSets) ==
  \/ Editing
  \/ \E t \in texts, flags \in flagSets : FindFirstL(t, flags)
  \/ FindFirstAgainL
  \/ FindNextL

MCNext ==
  /\ UNCHANGED which
  /\ \/ /\ which = "cells" /\ Next /\ UNCHANGED searchVars
        /\ DOMAIN stored' \subseteq Beyond \union [x : {0, 1}, y : {0}] \union [x : {0}, y : {1}]
     \/ /\ which = "fast" /\ Calls(Text, FlagSets \ OrderedFlags)
        /\ \A p \in DOMAIN stored' : p \in Grid /\ p.y < 2
        /\ disturbed' = {}
     \/ /\ which = "ordered" /\ Calls({"Abc"}, OrderedFlags)
        /\ DOMAIN stored' \subseteq Grid /\ disturbed' = {}

MCSpec == MCInit /\ [][MCNext]_<<sheetVars, which>>

\* The searches by rows and columns alone.
RowsSpec == MCInit /\ which = "ordered" /\ [][MCNext]_<<sheetVars, which>>
=============================================================================
