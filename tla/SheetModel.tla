----------------------------- MODULE SheetModel -----------------------------
(***************************************************************************)
(* CSheetModel (sheetcontrol/src/sheet_model.cpp): the cells of one sheet  *)
(* and a search over them that keeps its place between calls.  The place   *)
(* is the iterator inside CCellMapArray for a "fast" search and            *)
(* m_OrderSearchPosition for a search by rows or by columns; an edit of    *)
(* the cells moves neither.                                                *)
(***************************************************************************)
EXTENDS CellMap, Sequences

CONSTANTS
  Text,       \* what a user may search for
  LowerCase,  \* a function: the lower case of a text
  Contains,   \* the pairs <<a, b>> with text b a part of text a
  FlagSets,   \* the combinations of enFind... flags callers pass
  NoText,     \* m_sTextToFind = NULL
  None, Failed, Unreached   \* the answers EFalse, a leave, ASSERT(FALSE)

Flags == {"Exact", "SubStr", "Case", "NoCase", "Rows", "Columns", "Fast"}

ASSUME FlagAssumption   == FlagSets \subseteq SUBSET Flags
ASSUME AnswerAssumption ==
  None \notin [x : Nat, y : Nat] /\ None # Failed /\ None # Unreached

VARIABLES
  m_sTextToFind,          \* the text of the request, in lower case if NoCase
  m_nFindFlags,           \* its flags
  m_lSearchFromBegin,     \* "begin" (ETrue), "resume" (EFalse) or "end" (2)
  m_OrderSearchPosition,  \* where a search by rows or columns resumes
  answer,                 \* what the last call of Find... answered
  reported,               \* history: the answers of the present sweep, in order
  fresh                   \* history: no edit since the sweep began

cellVars == <<m_pTree, m_Range, m_nCount, owner, asPut>>
request  == <<m_sTextToFind, m_nFindFlags>>
place    == <<m_Pos, m_lSearchFromBegin, m_OrderSearchPosition>>
history  == <<reported, fresh>>
sheetVars == <<cellVars, request, place, answer, history>>

Origin == [x |-> 0, y |-> 0]

SheetInit ==
  /\ Init
  /\ m_sTextToFind = NoText
  /\ m_nFindFlags = {}
  /\ m_lSearchFromBegin = "begin"
  /\ m_OrderSearchPosition = Origin
  /\ answer = None
  /\ reported = <<>>
  /\ fresh = TRUE

-----------------------------------------------------------------------------
(***************************************************************************)
(* Edits.  None of them touches the search: a sweep begun is a sweep over  *)
(* other cells from here on.                                               *)
(***************************************************************************)
Edited ==
  /\ fresh' = (m_lSearchFromBegin = "begin")
  /\ reported' = <<>>
  /\ UNCHANGED <<request, m_lSearchFromBegin, m_OrderSearchPosition, answer>>

SheetInsertL(p, c) == InsertL(p, c) /\ Edited
SheetModifyL(p, c) == Modify(p, c)  /\ Edited
SheetRemoveL(p)    == DeleteL(p)    /\ Edited
SheetRemoveAllL    == RemoveAllL    /\ Edited

-----------------------------------------------------------------------------
(***************************************************************************)
(* The comparison of one cell with the request.                            *)
(***************************************************************************)
Folded(t, flags) == IF "NoCase" \in flags THEN LowerCase[t] ELSE t

Matches(c, text, flags) ==
  IF "Exact" \in flags THEN Folded(c, flags) = text
  ELSE "SubStr" \in flags /\ <<Folded(c, flags), text>> \in Contains

Comparable(flags) == {"Exact", "SubStr"} \intersect flags # {}

(***************************************************************************)
(* How a call ends.  A sweep that starts over forgets what it reported.    *)
(***************************************************************************)
Before(from) == IF from = "begin" THEN <<>> ELSE reported
Clean(from)  == from = "begin" \/ fresh

Found(from, p) ==
  /\ answer' = p
  /\ reported' = IF Clean(from) THEN Append(Before(from), p) ELSE <<>>
  /\ fresh' = Clean(from)

NotFound(from, next) ==
  /\ answer' = None
  /\ m_lSearchFromBegin' = next
  /\ reported' = IF next = "begin" THEN <<>> ELSE Before(from)
  /\ fresh' = (next = "begin" \/ Clean(from))

Leaves(why) == answer' = why /\ reported' = <<>> /\ fresh' = FALSE

\* "2": the previous answer was taken for the last one.
AtEnd ==
  /\ NotFound("end", "begin")
  /\ UNCHANGED <<m_Pos, m_OrderSearchPosition>>

(***************************************************************************)
(* enFindOrderFast: the order of the keys, from the shared iterator.       *)
(***************************************************************************)
\* Mutant: a resumed search looks at the cell under the iterator again.
AheadFromHere(from) ==
  IF from = "begin" THEN {DOMAIN m_pTree}
  ELSE IF m_Pos = Stale
  THEN {{l \in DOMAIN m_pTree : ~ KeyLess(l, k)} : k \in DOMAIN m_pTree} \union {{}}
  ELSE {After(m_Pos) \union ({m_Pos} \intersect DOMAIN m_pTree)}

\* The entries still to visit; a stale iterator stands anywhere.
Ahead(from) ==
  IF from = "begin" THEN {DOMAIN m_pTree}
  ELSE IF m_Pos = Stale
  THEN {{l \in DOMAIN m_pTree : ~ KeyLess(l, k)} : k \in DOMAIN m_pTree} \union {{}}
  ELSE {After(m_Pos)}

FindFast(text, flags, from) ==
  /\ UNCHANGED m_OrderSearchPosition
  /\ \E ahead \in Ahead(from) :
       LET hits == {k \in ahead : Matches(m_pTree[k], text, flags)} IN
       \/ /\ ~ Comparable(flags) /\ ahead # {}
          /\ m_Pos' \in FirstOf(ahead)
          /\ m_lSearchFromBegin' = "resume"
          /\ Leaves(Failed)
       \/ /\ hits # {}
          /\ m_Pos' \in FirstOf(hits)
          /\ m_lSearchFromBegin' = IF m_Pos' = m_Range.br THEN "end" ELSE "resume"
          /\ Found(from, m_Pos')
       \/ /\ hits = {} /\ (Comparable(flags) \/ ahead = {})
          /\ m_Pos' = Stale
          /\ NotFound(from, "begin")

(***************************************************************************)
(* enFindOrderRows (first) and enFindOrderColumns: m_Range is walked line  *)
(* by line.  One walk is described, along the x axis; a search by columns  *)
(* is the same walk over the transposed sheet.                             *)
(***************************************************************************)
Turned(p, flags) == IF "Rows" \in flags THEN p ELSE [x |-> p.y, y |-> p.x]

Earlier(p, q) == p.y < q.y \/ (p.y = q.y /\ p.x < q.x)

\* Mutant: xBegin stays where the search resumed.
NeverLeft(start, end, y, flags) == start.x

(***************************************************************************)
(* xBegin on line y: it falls back to 0 only behind a line whose last      *)
(* place held a cell (the NULL branch "continue"s past the reset).         *)
(***************************************************************************)
xBegin(start, end, y, flags) ==
  IF /\ start.x <= end.x
     /\ \E l \in start.y .. y - 1 : IsExistL(Turned([x |-> end.x, y |-> l], flags))
  THEN 0 ELSE start.x

\* Mutant: the corner is not the end.
AdvancedPastEnd(p, end) ==
  IF p.x < end.x THEN [x |-> p.x + 1, y |-> p.y] ELSE [x |-> 0, y |-> p.y + 1]

\* Where the next call begins after a match at p.
Advanced(p, end) ==
  IF p.x < end.x THEN [x |-> p.x + 1, y |-> p.y]
  ELSE IF p = end THEN p ELSE [x |-> 0, y |-> p.y + 1]

FindOrdered(text, flags, from) ==
  LET turn(p)  == Turned(p, flags)
      begin    == turn(m_Range.tl)
      end      == turn(m_Range.br)
      start    == IF from = "begin" THEN begin ELSE turn(m_OrderSearchPosition)
      lines    == [x : 0 .. end.x, y : start.y .. end.y]
      walk     == {p \in lines : p.x >= xBegin(start, end, p.y, flags)}
      cells    == {p \in walk : IsExistL(turn(p))}
      hits     == {p \in cells : Matches(AtL(turn(p)), text, flags)}
      first(S) == {p \in S : \A q \in S : q = p \/ Earlier(p, q)}
      stands   == IF from = "begin" THEN Origin ELSE turn(m_OrderSearchPosition)
  IN
  /\ UNCHANGED m_Pos
  /\ \/ /\ ~ Comparable(flags)
        /\ \E p \in first(cells) : m_OrderSearchPosition' = turn(p)
        /\ m_lSearchFromBegin' = "resume"
        /\ Leaves(Failed)
     \/ /\ Comparable(flags)
        /\ \E p \in first(hits) :
             /\ m_OrderSearchPosition' = turn(Advanced(p, end))
             /\ m_lSearchFromBegin' = IF Advanced(p, end) = end THEN "end" ELSE "resume"
             /\ Found(from, turn(p))
     \/ /\ hits = {} /\ (Comparable(flags) \/ cells = {})
        /\ LET last == IF walk = {} THEN stands ELSE end IN
             /\ m_OrderSearchPosition' = turn(last)
             /\ NotFound(from, IF last = end THEN "begin" ELSE "resume")

-----------------------------------------------------------------------------
(***************************************************************************)
(* FindNextL for a request that is stored or just being stored.            *)
(***************************************************************************)
Find(text, flags, from) ==
  IF text = NoText \/ flags = {}
  THEN Leaves(Failed) /\ UNCHANGED place
  ELSE \/ "Fast" \in flags /\ from # "end" /\ FindFast(text, flags, from)
       \/ "Fast" \notin flags /\ {"Rows", "Columns"} \intersect flags # {} /\ from # "end"
          /\ FindOrdered(text, flags, from)
       \/ {"Fast", "Rows", "Columns"} \intersect flags # {} /\ from = "end" /\ AtEnd
       \/ {"Fast", "Rows", "Columns"} \intersect flags = {}
          /\ Leaves(Unreached) /\ m_lSearchFromBegin' = from
          /\ UNCHANGED <<m_Pos, m_OrderSearchPosition>>

FindNextL ==
  /\ Find(m_sTextToFind, m_nFindFlags, m_lSearchFromBegin)
  /\ UNCHANGED <<cellVars, request>>

(***************************************************************************)
(* FindFirstL: a request with contradictory flags leaves and changes       *)
(* nothing; an empty sheet answers without restarting the search.          *)
(***************************************************************************)
Contradictory(flags) ==
  \/ flags = {}
  \/ {"Exact", "SubStr"} \subseteq flags
  \/ {"Case", "NoCase"} \subseteq flags
  \/ {"Rows", "Columns", "Fast"} \subseteq flags

Begin(text, flags) ==
  /\ IF m_nCount = 0
     THEN /\ answer' = None /\ reported' = <<>> /\ fresh' = (m_lSearchFromBegin = "begin")
          /\ UNCHANGED place
     ELSE Find(text, flags, "begin")
  /\ UNCHANGED cellVars

FindFirstL(t, flags) ==
  IF Contradictory(flags)
  THEN Leaves(Failed) /\ UNCHANGED <<cellVars, request, place>>
  ELSE /\ m_sTextToFind' = Folded(t, flags)
       /\ m_nFindFlags' = flags
       /\ Begin(Folded(t, flags), flags)

\* sText is a reference to NULL: the previous request once more.
FindFirstAgainL == Begin(m_sTextToFind, m_nFindFlags) /\ UNCHANGED request

Editing ==
  \/ \E p \in Position, c \in Cell : SheetInsertL(p, c)
  \/ \E p \in Position, c \in Cell : SheetModifyL(p, c)
  \/ \E p \in Position : SheetRemoveL(p)
  \/ SheetRemoveAllL

Searching ==
  \/ \E t \in Text, flags \in FlagSets : FindFirstL(t, flags)
  \/ FindFirstAgainL
  \/ FindNextL

SheetNext == Editing \/ Searching

SheetSpec == SheetInit /\ [][SheetNext]_sheetVars

-----------------------------------------------------------------------------
(***************************************************************************)
(* Types of the state of the search.                                       *)
(***************************************************************************)
SheetTypeOK ==
  /\ TypeOK
  /\ m_nFindFlags \subseteq Flags
  /\ m_lSearchFromBegin \in {"begin", "resume", "end"}
  /\ m_OrderSearchPosition \in Point
  /\ answer \in Point \union {None, Failed, Unreached}
  /\ reported \in Seq(Point)
  /\ fresh \in BOOLEAN

Wanted(tree, text, flags) ==
  {k \in DOMAIN tree : text # NoText /\ Matches(tree[k], text, flags)}

Named(sequence) == {sequence[i] : i \in DOMAIN sequence}

Sweep == INSTANCE SearchSpec WITH
  Position <- Keys, matches <- Wanted(m_pTree, m_sTextToFind, m_nFindFlags)

\* No request yet, or one in the fast order.
Fast == m_nFindFlags = {} \/ "Fast" \in m_nFindFlags

(***************************************************************************)
(* A fast search is the abstract sweep: FindFirstL and repeated FindNextL  *)
(* name every matching cell once and then answer EFalse, and after EFalse  *)
(* the search starts over even when the cells were edited under it.  It    *)
(* does not matter what another search, in another order, left behind.     *)
(***************************************************************************)
SweepSpec == Sweep!Init /\ [][Fast' => [Sweep!Next]_(Sweep!vars)]_sheetVars

(***************************************************************************)
(* A search by rows or by columns moves on: within a sweep each answer     *)
(* lies behind the previous one in the order asked for, so that no cell is *)
(* named twice and a sweep ends.                                           *)
(***************************************************************************)
Ordered == "Fast" \notin m_nFindFlags /\ m_sTextToFind # NoText

MovesOn ==
  Ordered => \A i, j \in DOMAIN reported : i < j =>
    Earlier(Turned(reported[i], m_nFindFlags), Turned(reported[j], m_nFindFlags))

(***************************************************************************)
(* A search by rows or by columns goes over holes.  When every line ends   *)
(* in a cell (the last column of m_Range is full; the last row for a       *)
(* search by columns) and the rows and columns fit the key, it reports     *)
(* everything but, at most, the last cell: a match right before the corner *)
(* of m_Range is taken for the last one.                                   *)
(***************************************************************************)
LinesEndInCells(flags) ==
  LET begin == Turned(m_Range.tl, flags)
      end   == Turned(m_Range.br, flags)
  IN  \A y \in begin.y .. end.y : IsExistL(Turned([x |-> end.x, y |-> y], flags))

Closed(flags) == m_Range.br \in Keys /\ LinesEndInCells(flags)

OnlyTheCornerIsMissed ==
  [][(Ordered /\ fresh /\ answer' = None /\ Closed(m_nFindFlags) /\ FindNextL)
       => Wanted(m_pTree, m_sTextToFind, m_nFindFlags) \ Named(Before(m_lSearchFromBegin))
            \subseteq {m_Range.br}]_sheetVars

(***************************************************************************)
(* Within a sweep the search never stands behind the last line: what a     *)
(* call did not reach, a later call still reaches or the search restarts.  *)
(* After an edit it may stand there for ever and answer EFalse.            *)
(***************************************************************************)
NeverStranded ==
  (fresh /\ Ordered /\ m_nCount > 0 /\ m_lSearchFromBegin = "resume")
    => /\ m_OrderSearchPosition.x <= m_Range.br.x
       /\ m_OrderSearchPosition.y <= m_Range.br.y

(***************************************************************************)
(* A search by rows or by columns goes its way to the end.                 *)
(***************************************************************************)
SearchMovesOn == SheetTypeOK /\ MovesOn /\ NeverStranded

(***************************************************************************)
(* enFindOrderRows, "int this case I search row by row" (sheet_model.h):   *)
(* when the search says there is no other match, all have been reported.   *)
(***************************************************************************)
RowSweepComplete ==
  [][(Ordered /\ fresh /\ answer' = None /\ FindNextL)
       => Wanted(m_pTree, m_sTextToFind, m_nFindFlags) = Named(Before(m_lSearchFromBegin))]_sheetVars
=============================================================================
