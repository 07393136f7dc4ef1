------------------------------ MODULE TableXML ------------------------------
(***************************************************************************)
(* CTableXML (Engine/src/XML.cpp) and the cell cursor of COpenDocument:    *)
(* how the elements of content.xml, reported one by one by the parser,     *)
(* become the cells of the sheet on show.  The document is any well-formed *)
(* spreadsheet within the bounds; beside the state of the code the module  *)
(* keeps what the document says, to compare with what is shown.            *)
(***************************************************************************)
EXTENDS Integers, Sequences

CONSTANTS
  Table,      \* names of tables
  NoTable,    \* iTable = NULL: no name was asked for
  CellKind,   \* attributes of a cell: [style, value, repeated, spanned, rows]
  Text,       \* what a text node holds; Space, when text:s may occur
  Space,
  RowRepeat,  \* values of number-rows-repeated
  MaxRowRepeat,                    \* a greater value is taken for 1 (100)
  MaxTable, MaxRow, MaxColumn, MaxCell, MaxPiece   \* bounds of the documents

ASSUME KindAssumption ==
  CellKind \subseteq [style : {"none", "plain", "coloured"}, value : {"none", "string"},
                      repeated : Nat \ {0}, spanned : Nat \ {0}, rows : Nat \ {0}]
\* A cell that spans columns is not repeated: the cells it covers would stand between.
ASSUME SpanAssumption == \A k \in CellKind : k.repeated = 1 \/ k.spanned = 1
ASSUME RepeatAssumption == RowRepeat \subseteq Nat \ {0} /\ MaxRowRepeat \in Nat \ {0}
ASSUME BoundAssumption ==
  MaxTable \in Nat /\ MaxRow \in Nat /\ MaxColumn \in Nat
  /\ MaxCell \in Nat /\ MaxPiece \in Nat
ASSUME NameAssumption == NoTable \notin Table /\ Space \notin Text

VARIABLES
  place,      \* the innermost open element; "idle" when no document is read
  \* CTableXML
  iTable, iCorrectTable, iColumnRepeated, iColumnSpanned, iRowRepeated, iAddFormat,
  \* COpenDocument, CPara and the sheet
  iPosition, iCellEnd, iTables,
  coloured,   \* the style CPara stands at has a colour
  cells,      \* the texts of the cells: a function from positions
  painted,    \* the positions a colour was set at
  \* history: what the document says
  kind, pieces,     \* the open cell and the pieces of its text
  opened, said,     \* how many cells and texts the document had, for the bounds
  column, row, nextRow,      \* where the document is in the present table
  announced,        \* the covered cells that the cell last closed has announced in its row
  hanging,          \* the positions covered from a row above
  written,          \* the cells of the table asked for: position -> [text, first, last]
  colours,          \* the positions it gives a colour
  again,            \* its rows that repeat the row above them
  spoilt,           \* where text of a covered cell, or a cell covered from above, stood
  cut, astray       \* a row repetition was cut; text:s outside the cells asked for

parser   == <<iTable, iCorrectTable, iColumnRepeated, iColumnSpanned, iRowRepeated, iAddFormat>>
document == <<iPosition, iCellEnd, iTables, coloured, cells, painted>>
cell     == <<kind, pieces, opened, said>>
progress == <<column, row, nextRow, announced, hanging>>
meant    == <<progress, written, colours, again, spoilt, cut, astray>>
vars     == <<place, parser, document, cell, meant>>

Point   == [x : Nat, y : Nat]
At(x, y) == [x |-> x, y |-> y]
Origin  == At(0, 0)
Nothing == [p \in {} |-> <<>>]
NoKind  == [style |-> "none", value |-> "none", repeated |-> 1, spanned |-> 1, rows |-> 1]

Higher(a, b) == IF b > a THEN b ELSE a

Init ==
  /\ place = "idle"
  /\ iTable = NoTable /\ iCorrectTable = FALSE
  /\ iColumnRepeated = 1 /\ iColumnSpanned = 0 /\ iRowRepeated = 1 /\ iAddFormat = FALSE
  /\ iPosition = Origin /\ iCellEnd = 0 /\ iTables = <<>> /\ coloured = FALSE
  /\ cells = Nothing /\ painted = {}
  /\ kind = NoKind /\ pieces = <<>> /\ opened = 0 /\ said = 0
  /\ column = 0 /\ row = 0 /\ nextRow = 0 /\ announced = 0 /\ hanging = {}
  /\ written = Nothing /\ colours = {} /\ again = {} /\ spoilt = {}
  /\ cut = FALSE /\ astray = FALSE

-----------------------------------------------------------------------------
(***************************************************************************)
(* GetContentSheet: a new parser reads the document from its start.  The   *)
(* caller hands over an empty sheet; a name comes from the tables of the   *)
(* previous reading.  iCellEnd is left as it was.                          *)
(***************************************************************************)
GetContentSheet(t) ==
  /\ place = "idle"
  /\ t = NoTable \/ \E i \in DOMAIN iTables : iTables[i] = t
  /\ place' = "document"
  /\ iTable' = t /\ iCorrectTable' = FALSE
  /\ iColumnRepeated' = 1 /\ iColumnSpanned' = 0 /\ iRowRepeated' = 1 /\ iAddFormat' = FALSE
  /\ iPosition' = Origin /\ iTables' = <<>> /\ coloured' = FALSE
  /\ cells' = Nothing /\ painted' = {}
  /\ opened' = 0 /\ said' = 0
  /\ UNCHANGED <<iCellEnd, kind, pieces>>
  /\ column' = 0 /\ row' = 0 /\ nextRow' = 0 /\ announced' = 0 /\ hanging' = {}
  /\ written' = Nothing /\ colours' = {} /\ again' = {} /\ spoilt' = {}
  /\ cut' = FALSE /\ astray' = FALSE

\* What the reader asked for: the table named, or the first one.
Last(s) == s[Len(s)]
AskedFor(names) == IF iTable = NoTable THEN Len(names) = 1 ELSE Last(names) = iTable

StartTable(n) ==
  /\ place = "document" /\ Len(iTables) < MaxTable
  /\ \A i \in DOMAIN iTables : iTables[i] # n
  /\ place' = "table"
  /\ iTables' = Append(iTables, n)
  /\ iCorrectTable' = (iCorrectTable \/ iTable \in {NoTable, n})
  /\ IF n = iTable THEN iPosition' = Origin /\ iCellEnd' = 0 ELSE UNCHANGED <<iPosition, iCellEnd>>
  /\ column' = 0 /\ row' = 0 /\ nextRow' = 0 /\ announced' = 0 /\ hanging' = {}
  /\ UNCHANGED <<iTable, iColumnRepeated, iColumnSpanned, iRowRepeated, iAddFormat,
                 coloured, cells, painted, cell, written, colours, again, spoilt, cut, astray>>

\* A bound: no row with cells covered from above is repeated.
StartRow(n) ==
  /\ place = "table" /\ row + n <= MaxRow
  /\ n > 1 => \A p \in hanging : p.y >= row + n
  /\ place' = "row"
  /\ iRowRepeated' = CASE n > MaxRowRepeat -> 1 [] n = 1 -> iRowRepeated [] OTHER -> n   \* 1: not named
  /\ column' = 0 /\ nextRow' = row + n
  /\ again' = again \union IF AskedFor(iTables) THEN row + 1 .. row + n - 1 ELSE {}
  /\ cut' = (cut \/ n > MaxRowRepeat)
  /\ UNCHANGED <<iTable, iCorrectTable, iColumnRepeated, iColumnSpanned, iAddFormat, document,
                 cell, row, announced, hanging, written, colours, spoilt, astray>>

(***************************************************************************)
(* AddCellText and AddCellFormat at the positions of a set: the text is    *)
(* appended to what a cell holds; a colour needs a cell to be kept in.     *)
(***************************************************************************)
Held(cs, p) == IF p \in DOMAIN cs THEN cs[p] ELSE <<>>

AddCellText(cs, where, t) ==
  [p \in DOMAIN cs \union where |-> IF p \in where THEN Append(Held(cs, p), t) ELSE cs[p]]

AddCell(cs, where) == [p \in DOMAIN cs \union where |-> Held(cs, p)]

Ahead(n) == {At(iPosition.x + i, iPosition.y) : i \in 0 .. n - 1}

\* The columns a cell takes, the covered ones included.
Width(k) == k.repeated + k.spanned - 1

\* An attribute that is absent leaves the member as it was; number-rows-spanned is not
\* looked at.  A bound: a cell of a repeated row spans no rows.
StartCell(k) ==
  /\ place = "row" /\ opened < MaxCell /\ announced = 0 /\ column + Width(k) <= MaxColumn
  /\ \A i \in 0 .. Width(k) - 1 : At(column + i, row) \notin hanging
  /\ k.rows > 1 => nextRow = row + 1
  /\ place' = "cell"
  /\ iAddFormat' = (k.style # "none")
  /\ coloured' = IF k.style = "none" THEN coloured ELSE k.style = "coloured"
  /\ cells' = IF k.value = "string" /\ iCorrectTable THEN AddCell(cells, {iPosition}) ELSE cells
  /\ iColumnRepeated' = IF k.repeated > 1 THEN k.repeated ELSE iColumnRepeated
  /\ iColumnSpanned' = IF k.spanned > 1 THEN k.spanned ELSE iColumnSpanned
  /\ kind' = k /\ pieces' = <<>> /\ opened' = opened + 1 /\ UNCHANGED said
  /\ UNCHANGED <<iTable, iCorrectTable, iRowRepeated, iPosition, iCellEnd, iTables, painted, meant>>

(***************************************************************************)
(* table:covered-table-cell, for a column the cell before it spans or one  *)
(* covered from a row above: the code knows neither its start nor its end, *)
(* and moves the cursor for neither; the text in it is taken like that of  *)
(* a cell.  One that is repeated stands for as many without text.          *)
(***************************************************************************)
Covered == announced > 0 \/ At(column, row) \in hanging

StartCovered ==
  /\ place = "row" /\ Covered /\ column < MaxColumn
  /\ place' = "covered"
  /\ UNCHANGED <<parser, document, cell, meant>>

\* The row of the table asked for is no longer to be trusted from here on.
Spoilt == spoilt \union IF AskedFor(iTables) THEN {At(column + announced, row)} ELSE {}

EndCovered ==
  /\ place = "covered" /\ place' = "row"
  /\ column' = column + 1
  /\ announced' = IF announced > 0 THEN announced - 1 ELSE 0
  /\ spoilt' = IF announced > 0 THEN spoilt ELSE Spoilt
  /\ pieces' = <<>>
  /\ UNCHANGED <<parser, document, kind, opened, said, row, nextRow, hanging, written, colours, again,
                 cut, astray>>

(***************************************************************************)
(* A piece of the text of a cell.  The first one is written to every       *)
(* repetition; the cursor is then at the last of them.                     *)
(***************************************************************************)
\* Mutant: the cursor stays at the first repetition.
CharacterDataStays(t) ==
  /\ place \in {"cell", "covered"} /\ said < MaxPiece
  /\ pieces' = Append(pieces, t) /\ said' = said + 1
  /\ spoilt' = IF place = "covered" THEN Spoilt ELSE spoilt
  /\ IF iCorrectTable
     THEN /\ cells' = AddCellText(cells, Ahead(iColumnRepeated), t)
          /\ painted' = painted \union IF iAddFormat /\ coloured THEN Ahead(iColumnRepeated) ELSE {}
          /\ iCellEnd' = Higher(iCellEnd, iPosition.y)
          /\ iColumnRepeated' = 1
     ELSE UNCHANGED <<cells, painted, iCellEnd, iColumnRepeated>>
  /\ UNCHANGED <<place, iTable, iCorrectTable, iColumnSpanned, iRowRepeated, iAddFormat,
                 iPosition, iTables, coloured, kind, opened,
                 progress, written, colours, again, cut, astray>>

CharacterData(t) ==
  /\ place \in {"cell", "covered"} /\ said < MaxPiece
  /\ pieces' = Append(pieces, t) /\ said' = said + 1
  /\ spoilt' = IF place = "covered" THEN Spoilt ELSE spoilt
  /\ IF iCorrectTable
     THEN /\ cells' = AddCellText(cells, Ahead(iColumnRepeated), t)
          /\ painted' = painted \union IF iAddFormat /\ coloured THEN Ahead(iColumnRepeated) ELSE {}
          /\ iPosition' = At(iPosition.x + iColumnRepeated - 1, iPosition.y)
          /\ iCellEnd' = Higher(iCellEnd, iPosition.y)
          /\ iColumnRepeated' = 1
     ELSE UNCHANGED <<cells, painted, iPosition, iCellEnd, iColumnRepeated>>
  /\ UNCHANGED <<place, iTable, iCorrectTable, iColumnSpanned, iRowRepeated, iAddFormat,
                 iTables, coloured, kind, opened,
                 progress, written, colours, again, cut, astray>>

(***************************************************************************)
(* text:s, in the text of the cell or of an annotation, in any table.  A   *)
(* bound: the first annotation with a space is the last.                   *)
(***************************************************************************)
WhiteSpace(inAnnotation) ==
  /\ place \in {"cell", "covered"} /\ said < MaxPiece /\ (inAnnotation => ~ astray)
  /\ cells' = AddCellText(cells, {iPosition}, Space)
  /\ iCellEnd' = Higher(iCellEnd, iPosition.y)
  /\ pieces' = IF inAnnotation THEN pieces ELSE Append(pieces, Space)
  /\ said' = said + 1
  /\ astray' = (astray \/ inAnnotation \/ ~ AskedFor(iTables))
  /\ spoilt' = IF place = "covered" THEN Spoilt ELSE spoilt
  /\ UNCHANGED <<place, parser, iPosition, iTables, coloured, painted, kind, opened,
                 progress, written, colours, again, cut>>

-----------------------------------------------------------------------------
(***************************************************************************)
(* The end of a cell.  Repetitions not yet walked are walked and given     *)
(* their colour; a cell that is not repeated takes as many columns as it   *)
(* spans, without a colour.                                                *)
(***************************************************************************)
\* The positions the document gives the cell: on every repetition of its row.
Run(n) == {At(column + i, y) : i \in 0 .. n - 1, y \in row .. nextRow - 1}

Noted ==
  /\ IF AskedFor(iTables) /\ pieces # <<>>
     THEN written' = [p \in DOMAIN written \union Run(kind.repeated) |->
                        IF p \in Run(kind.repeated)
                        THEN [text |-> pieces, first |-> p.x = column,
                              last |-> p.x = column + kind.repeated - 1]
                        ELSE written[p]]
     ELSE UNCHANGED written
  /\ colours' = colours \union
       IF AskedFor(iTables) /\ kind.style = "coloured" THEN Run(kind.repeated) ELSE {}
  /\ column' = column + kind.repeated /\ announced' = kind.spanned - 1
  /\ hanging' = hanging \union
       {At(column + i, row + j) : i \in 0 .. Width(kind) - 1, j \in 1 .. kind.rows - 1}
  /\ kind' = NoKind /\ pieces' = <<>> /\ UNCHANGED <<opened, said>>

\* Mutant: the number of repetitions survives its cell.
EndCellRepeats ==
  /\ place = "cell" /\ place' = "row"
  /\ IF iColumnRepeated > iColumnSpanned
     THEN /\ LET colour == IF iAddFormat /\ coloured THEN Ahead(iColumnRepeated) ELSE {} IN
               cells' = AddCell(cells, colour) /\ painted' = painted \union colour
          /\ iPosition' = At(iPosition.x + iColumnRepeated, iPosition.y)
     ELSE /\ iPosition' = At(iPosition.x + iColumnSpanned, iPosition.y)
          /\ UNCHANGED <<cells, painted>>
  /\ iColumnSpanned' = 1
  /\ Noted
  /\ UNCHANGED <<iTable, iCorrectTable, iColumnRepeated, iRowRepeated, iAddFormat, iCellEnd, iTables,
                 coloured, row, nextRow, again, spoilt, cut, astray>>

EndCell ==
  /\ place = "cell" /\ place' = "row"
  /\ IF iColumnRepeated > iColumnSpanned
     THEN /\ LET colour == IF iAddFormat /\ coloured THEN Ahead(iColumnRepeated) ELSE {} IN
               cells' = AddCell(cells, colour) /\ painted' = painted \union colour
          /\ iPosition' = At(iPosition.x + iColumnRepeated, iPosition.y)
     ELSE /\ iPosition' = At(iPosition.x + iColumnSpanned, iPosition.y)
          /\ UNCHANGED <<cells, painted>>
  /\ iColumnRepeated' = 1 /\ iColumnSpanned' = 1
  /\ Noted
  /\ UNCHANGED <<iTable, iCorrectTable, iRowRepeated, iAddFormat, iCellEnd, iTables, coloured,
                 row, nextRow, again, spoilt, cut, astray>>

EndRow ==
  /\ place = "row" /\ announced = 0 /\ place' = "table"
  /\ iPosition' = At(0, iPosition.y + iRowRepeated)
  /\ row' = nextRow /\ column' = 0 /\ nextRow' = 0
  /\ iRowRepeated' = 1
  /\ UNCHANGED <<iTable, iCorrectTable, iColumnRepeated, iColumnSpanned, iAddFormat, iCellEnd,
                 iTables, coloured, cells, painted, cell, announced, hanging, written, colours,
                 again, spoilt, cut, astray>>

EndTable ==
  /\ place = "table" /\ place' = "document"
  /\ iCorrectTable' = FALSE
  /\ row' = 0
  /\ UNCHANGED <<iTable, iColumnRepeated, iColumnSpanned, iRowRepeated, iAddFormat,
                 document, cell, column, nextRow, announced, hanging, written, colours,
                 again, spoilt, cut, astray>>

EndDocument == place = "document" /\ place' = "idle" /\ UNCHANGED <<parser, document, cell, meant>>

Reading ==
  \/ \E n \in Table : StartTable(n)
  \/ \E n \in RowRepeat : StartRow(n)
  \/ \E k \in CellKind : StartCell(k)
  \/ StartCovered
  \/ EndCovered
  \/ \E t \in Text : CharacterData(t)
  \/ \E inAnnotation \in BOOLEAN : WhiteSpace(inAnnotation)
  \/ EndCell
  \/ EndRow
  \/ EndTable
  \/ EndDocument

Next ==
  \/ \E t \in Table \union {NoTable} : GetContentSheet(t)
  \/ Reading

Spec == Init /\ [][Next]_vars

-----------------------------------------------------------------------------
(***************************************************************************)
(* Types of the state.                                                     *)
(***************************************************************************)
TypeOK ==
  /\ place \in {"idle", "document", "table", "row", "cell", "covered"}
  /\ iTable \in Table \union {NoTable}
  /\ iCorrectTable \in BOOLEAN /\ iAddFormat \in BOOLEAN /\ coloured \in BOOLEAN
  /\ iColumnRepeated \in Nat \ {0} /\ iColumnSpanned \in Nat /\ iRowRepeated \in Nat \ {0}
  /\ iPosition \in Point /\ iCellEnd \in Nat
  /\ iTables \in Seq(Table)
  /\ DOMAIN cells \subseteq Point
  /\ \A p \in DOMAIN cells : cells[p] \in Seq(Text \union {Space})
  /\ painted \subseteq DOMAIN cells
  /\ kind \in CellKind \union {NoKind}
  /\ column \in Nat /\ row \in Nat /\ nextRow \in Nat /\ announced \in Nat
  /\ hanging \subseteq Point /\ again \subseteq Nat /\ spoilt \subseteq Point

Filled == {p \in DOMAIN cells : cells[p] # <<>>}

\* The row is to be trusted up to p, and is not the repetition of another.
Sound(p) == p.y \notin again /\ \A q \in spoilt : q.y = p.y => p.x < q.x

IsText(text, i) == i \in DOMAIN text /\ text[i] \in Text
FirstText(text, f) == IsText(text, f) /\ \A k \in 1 .. f - 1 : ~ IsText(text, k)
OnlySpaces(text) == \A i \in DOMAIN text : text[i] = Space

\* What a cell or a repetition of it may show.  The first one begins with its text, the last
\* one ends with it, and each shows its first characters; spaces come before them.
Faithful(shown, w) ==
  /\ w.first /\ (w.last \/ OnlySpaces(w.text)) => shown = w.text
  /\ ~ OnlySpaces(w.text) =>
       \E i, j, f \in DOMAIN w.text :
         /\ shown = SubSeq(w.text, i, j) /\ i <= f /\ f <= j /\ FirstText(w.text, f)
         /\ w.first => i = 1
         /\ w.last => j = Len(w.text)

(***************************************************************************)
(* Outside a cell every cell of the table asked for shows the text the     *)
(* document gives it, and at its place, whatever columns were repeated,    *)
(* spanned or left empty before it, whatever rows were repeated or spanned *)
(* above it and whatever other tables the document holds; nothing else is  *)
(* shown.  A repeated cell whose text comes in pieces shows all of it only *)
(* over its repetitions: see Faithful (XML.cpp:618-634); one of spaces only   *)
(* shows them in the first.  A repeated row stands once, where the first   *)
(* of its repetitions belongs, and the others stay empty (XML.cpp:647).    *)
(* Not covered: what follows, in a row, a cell covered from a row above or *)
(* a text in a covered cell; any cell once a repetition of rows was cut or *)
(* a space was astray.                                                     *)
(***************************************************************************)
CellsInTheirPlace ==
  (place \notin {"cell", "covered"} /\ ~ cut /\ ~ astray) =>
    /\ \A p \in DOMAIN written : Sound(p) => Faithful(Held(cells, p), written[p])
    /\ \A p \in Filled : p.y \notin again
    /\ iTable # NoTable => \A p \in Filled : Sound(p) => p \in DOMAIN written

(***************************************************************************)
(* CellEnd() is the last row of the table named that has text, repetitions *)
(* of a row aside: the command End goes there.  Without a name it may be a *)
(* row of an earlier reading, but not one above the table shown.           *)
(***************************************************************************)
Named == \E i \in DOMAIN iTables : iTables[i] = iTable

CellEndIsTheLastRow ==
  (place = "idle" /\ ~ cut /\ ~ astray) =>
    /\ \A p \in DOMAIN written : p.y \notin again => p.y <= iCellEnd
    /\ Named => \/ iCellEnd = 0
                \/ \E p \in DOMAIN written \union spoilt : p.y = iCellEnd /\ p.y \notin again

(***************************************************************************)
(* A cell with text that the document gives a colour is shown in colour;   *)
(* the bounds are those above.                                             *)
(***************************************************************************)
HasText(p) == \E i \in DOMAIN written[p].text : written[p].text[i] \in Text

TextKeepsItsColour ==
  (place \notin {"cell", "covered"} /\ ~ cut) =>
    \A p \in colours \intersect DOMAIN written : HasText(p) /\ Sound(p) => p \in painted

(***************************************************************************)
(* "nothing set, so we talk the first one" (XML.cpp): without a name the   *)
(* first table is shown.                                                   *)
(***************************************************************************)
OnlyTheFirstTable ==
  (place = "idle" /\ iTable = NoTable /\ ~ cut /\ ~ astray /\ spoilt = {}) => Filled \subseteq DOMAIN written

(***************************************************************************)
(* The cells of the table asked for are where the document has them, and   *)
(* the command End finds the last of them.                                 *)
(***************************************************************************)
SheetAsWritten == TypeOK /\ CellsInTheirPlace /\ CellEndIsTheLastRow
=============================================================================
