--------------------------- MODULE TableXMLProof ---------------------------
(***************************************************************************)
(* The reader of spreadsheets, for documents of every size: the cells of   *)
(* the table asked for are shown where the document has them, their texts  *)
(* keep their colours and the last row is known.                           *)
(***************************************************************************)
EXTENDS TableXML, SequenceTheorems, TLAPS

Piece == Text \union {Space}

-----------------------------------------------------------------------------
(***************************************************************************)
(* The invariant, in parts.  A table is open, and it is the one asked for; *)
(* that one has begun.                                                     *)
(***************************************************************************)
Inner == place \in {"row", "cell", "covered"}
Open  == place \in {"table", "row", "cell", "covered"}
Asked == Open /\ AskedFor(iTables)
Begun == IF iTable = NoTable THEN iTables # <<>> ELSE Named

Typed ==
  /\ TypeOK
  /\ pieces \in Seq(Piece)
  /\ DOMAIN written \subseteq Point /\ colours \subseteq Point

\* The members of CTableXML, and the document, between the elements.
Reader ==
  /\ iCorrectTable = (Open /\ iTable \in {NoTable, Last(iTables)})
  /\ Open => iTables # <<>>
  /\ place # "cell" => iColumnRepeated = 1 /\ iColumnSpanned \in {0, 1}
  /\ place \notin {"cell", "covered"} => pieces = <<>>
  /\ place = "cell" => /\ kind \in CellKind /\ announced = 0
                       /\ iColumnSpanned = kind.spanned \/ (kind.spanned = 1 /\ iColumnSpanned = 0)
                       /\ kind.style = "coloured" => iAddFormat /\ coloured
  /\ ~ Inner => iRowRepeated = 1 /\ column = 0 /\ nextRow = 0 /\ announced = 0
  /\ Inner => row < nextRow /\ (~ cut => nextRow = row + iRowRepeated)
  /\ ~ Open => row = 0

\* Before the table asked for begins nothing is shown.
NotYet ==
  ~ Begun => /\ DOMAIN written = {} /\ colours = {} /\ again = {} /\ spoilt = {}
             /\ ~ astray => Filled = {}
             /\ iTable = NoTable => iPosition = Origin

\* A text has characters other than spaces; so has that of the cell.
Says(text) == \E i \in DOMAIN text : IsText(text, i)
Spoken == Says(pieces)

\* The cursor is where the document is, or at the last repetition written; or it was lost
\* before, by a covered cell.
OnCourse ==
  /\ place # "cell" => iPosition.x = column + announced
  /\ (place = "cell" /\ Spoken) => iPosition.x = column + kind.repeated - 1 /\ iColumnRepeated = 1
  /\ (place = "cell" /\ ~ Spoken) => iPosition.x = column /\ iColumnRepeated = kind.repeated

Lost == \E q \in spoilt : q.y = row /\ q.x <= iPosition.x /\ q.x <= column + announced

Cursor == (Asked /\ ~ cut) => iPosition.y = row /\ (OnCourse \/ Lost)

\* What was written lies behind the document's place, and above any later table.
Past(p) == p.y < row \/ (p.y < nextRow /\ p.x < column)
AllPast == Asked => \A p \in DOMAIN written \union colours : Past(p)
AllAbove ==
  (iTable = NoTable /\ Begun /\ ~ Asked /\ ~ cut) =>
    (\A p \in DOMAIN written : p.y < iPosition.y) /\ (\A y \in again : y < iPosition.y)

\* The rows that repeat the one above them, and those spoilt, in the table asked for.
Rows ==
  Asked => /\ \A y \in again : y < row \/ (row < y /\ y < nextRow)
           /\ Inner => \A y \in Nat : row < y /\ y < nextRow => y \in again
           /\ \A q \in spoilt : q.y <= row

\* A strip of cells, from a column on along a row; the positions of the open cell, in the
\* table asked for.
Strip(x, y, n) == {At(x + i, y) : i \in 0 .. n - 1}
Writing == IF Asked /\ place = "cell" THEN Strip(column, row, kind.repeated) ELSE {}

\* What a repetition holds while the text of its cell is still being read.
Stands(held, text, first, last) ==
  IF Says(text)
  THEN \E f \in DOMAIN text :
         /\ FirstText(text, f)
         /\ held = SubSeq(text, IF first THEN 1 ELSE f, IF last THEN Len(text) ELSE f)
  ELSE held = IF first THEN text ELSE <<>>

First(p) == p.x = column
Final(p) == p.x = column + kind.repeated - 1

Content ==
  (~ cut /\ ~ astray) =>
    /\ \A p \in DOMAIN written : Sound(p) => Faithful(Held(cells, p), written[p])
    /\ \A p \in Writing : Sound(p) => Stands(Held(cells, p), pieces, First(p), Final(p))

OnlyThose ==
  (~ cut /\ ~ astray) =>
    /\ \A p \in Filled : p.y \notin again
    /\ (iTable # NoTable \/ Len(iTables) <= 1) =>
         \A p \in Filled : Sound(p) => p \in DOMAIN written \union Writing

Colour ==
  ~ cut =>
    /\ \A p \in colours \intersect DOMAIN written : HasText(p) /\ Sound(p) => p \in painted
    /\ (kind.style = "coloured" /\ Spoken) => \A p \in Writing : Sound(p) => p \in painted

LastRow ==
  (~ cut /\ ~ astray) =>
    /\ \A p \in DOMAIN written : p.y \notin again => p.y <= iCellEnd
    /\ (Asked /\ place = "cell" /\ pieces # <<>>) => row <= iCellEnd
    /\ Named => \/ iCellEnd = 0
                \/ \E p \in DOMAIN written \union spoilt : p.y = iCellEnd /\ p.y \notin again
                \/ Asked /\ place = "cell" /\ pieces # <<>> /\ iCellEnd = row

Inv ==
  /\ Typed /\ Reader /\ NotYet /\ Cursor /\ AllPast /\ AllAbove /\ Rows
  /\ Content /\ OnlyThose /\ Colour /\ LastRow

-----------------------------------------------------------------------------
\* A strip is the cells of its row from x on, n of them.
LEMMA StripCells ==
  ASSUME NEW x \in Nat, NEW y \in Nat, NEW n \in Nat
  PROVE  /\ Strip(x, y, n) \subseteq Point
         /\ \A p \in Point : p \in Strip(x, y, n) <=> p.y = y /\ x <= p.x /\ p.x < x + n
  <1>1. ASSUME NEW i \in 0 .. n - 1
        PROVE  At(x + i, y) \in Point /\ At(x + i, y).x = x + i /\ At(x + i, y).y = y
    BY DEF At, Point
  <1>2. ASSUME NEW p \in Point, p.y = y, x <= p.x, p.x < x + n PROVE p \in Strip(x, y, n)
    <2>1. p.x - x \in 0 .. n - 1 /\ p = At(x + (p.x - x), y)
      BY <1>2 DEF At, Point
    <2> QED BY <2>1 DEF Strip
  <1>3. ASSUME NEW p \in Strip(x, y, n) PROVE p \in Point /\ p.y = y /\ x <= p.x /\ p.x < x + n
    <2>1. PICK i \in 0 .. n - 1 : p = At(x + i, y)
      BY DEF Strip
    <2> QED BY <1>1, <2>1
  <1> QED BY <1>2, <1>3

\* The positions of a cell are a block: those columns, on each repetition of the row.
LEMMA RunCells ==
  ASSUME NEW n \in Nat, column \in Nat, row \in Nat, nextRow \in Nat
  PROVE  /\ Run(n) \subseteq Point
         /\ \A p \in Point : p \in Run(n) <=> /\ row <= p.y /\ p.y < nextRow
                                             /\ column <= p.x /\ p.x < column + n
  <1>1. ASSUME NEW i \in 0 .. n - 1, NEW y \in row .. nextRow - 1
        PROVE  /\ At(column + i, y) \in Point /\ At(column + i, y).x = column + i
               /\ At(column + i, y).y = y
    BY DEF At, Point
  <1>2. ASSUME NEW p \in Point, row <= p.y, p.y < nextRow, column <= p.x, p.x < column + n
        PROVE  p \in Run(n)
    <2>1. p.x - column \in 0 .. n - 1 /\ p.y \in row .. nextRow - 1 /\ p = At(column + (p.x - column), p.y)
      BY <1>2 DEF At, Point
    <2> QED BY <2>1 DEF Run
  <1>3. ASSUME NEW p \in Run(n)
        PROVE  p \in Point /\ row <= p.y /\ p.y < nextRow /\ column <= p.x /\ p.x < column + n
    <2>1. PICK i \in 0 .. n - 1, y \in row .. nextRow - 1 : p = At(column + i, y)
      BY DEF Run
    <2> QED BY <1>1, <2>1
  <1> QED BY <1>2, <1>3

(***************************************************************************)
(* What a position holds after a text was added.                           *)
(***************************************************************************)
LEMMA HeldAfterText ==
  ASSUME NEW cs, NEW where, NEW t
  PROVE  \A p : Held(AddCellText(cs, where, t), p) =
                   IF p \in where THEN Append(Held(cs, p), t) ELSE Held(cs, p)
  BY DEF Held, AddCellText

(***************************************************************************)
(* A cell that is added holds what was held, be it nothing.                *)
(***************************************************************************)
LEMMA HeldAfterCell ==
  ASSUME NEW cs, NEW where
  PROVE  \A p : Held(AddCell(cs, where), p) = Held(cs, p)
  BY DEF Held, AddCell

(***************************************************************************)
(* The cells with text are those that hold something.                      *)
(***************************************************************************)
LEMMA FilledHeld == \A p : p \in Filled <=> Held(cells, p) # <<>>
  BY DEF Filled, Held

(***************************************************************************)
(* The cells keep their types.                                             *)
(***************************************************************************)
CellsTyped(cs) == DOMAIN cs \subseteq Point /\ \A p \in DOMAIN cs : cs[p] \in Seq(Piece)

\* Adding text to cells keeps their types and makes the cells that were not there
\* (AddCellText, XML.cpp:622).
LEMMA TextTypes ==
  ASSUME NEW cs, CellsTyped(cs), NEW where \in SUBSET Point, NEW t \in Piece
  PROVE  /\ CellsTyped(AddCellText(cs, where, t))
         /\ DOMAIN AddCellText(cs, where, t) = DOMAIN cs \union where
         /\ \A p : Held(cs, p) \in Seq(Piece)
  <1>1. <<>> \in Seq(Piece)
    BY EmptySeq
  <1>2. \A p : Held(cs, p) \in Seq(Piece)
    BY <1>1 DEF Held, CellsTyped
  <1>3. \A p : Append(Held(cs, p), t) \in Seq(Piece)
    BY <1>2, AppendProperties
  <1> QED BY <1>2, <1>3 DEF CellsTyped, AddCellText

(***************************************************************************)
(* So they do when a cell is added.                                        *)
(***************************************************************************)
LEMMA CellTypes ==
  ASSUME NEW cs, CellsTyped(cs), NEW where \in SUBSET Point
  PROVE  CellsTyped(AddCell(cs, where)) /\ DOMAIN AddCell(cs, where) = DOMAIN cs \union where
  <1>1. <<>> \in Seq(Piece)
    BY EmptySeq
  <1> QED BY <1>1 DEF Held, CellsTyped, AddCell

-----------------------------------------------------------------------------
(***************************************************************************)
(* A text that grows: the parts of it that were there, and those that end  *)
(* with it.                                                                *)
(***************************************************************************)
LEMMA Grown ==
  ASSUME NEW s \in Seq(Piece), NEW t \in Piece
  PROVE  /\ Append(s, t) \in Seq(Piece) /\ Len(s) \in Nat /\ Len(Append(s, t)) = Len(s) + 1
         /\ DOMAIN s = 1 .. Len(s) /\ DOMAIN Append(s, t) = 1 .. Len(s) + 1
         /\ Append(s, t)[Len(s) + 1] = t /\ \A i \in 1 .. Len(s) : Append(s, t)[i] = s[i]
         /\ \A i \in 1 .. Len(s) : s[i] \in Piece
  BY AppendProperties, LenProperties, ElementOfSeq

\* A part that was there.
LEMMA OldPart ==
  ASSUME NEW s \in Seq(Piece), NEW t \in Piece, NEW i \in 1 .. Len(s), NEW j \in 1 .. Len(s)
  PROVE  SubSeq(Append(s, t), i, j) = SubSeq(s, i, j)
  <1> DEFINE u == Append(s, t)
  <1>1. Len(s) \in Nat /\ \A k \in 1 .. Len(s) : u[k] = s[k] /\ s[k] \in Piece /\ u[k] \in Piece
    BY Grown
  <1> HIDE DEF u
  <1>2. \A k \in i .. j : u[k] \in Piece /\ s[k] \in Piece
    BY <1>1
  <1>3. /\ SubSeq(u, i, j) \in Seq(Piece) /\ SubSeq(s, i, j) \in Seq(Piece)
        /\ Len(SubSeq(u, i, j)) = IF i <= j THEN j - i + 1 ELSE 0
        /\ Len(SubSeq(s, i, j)) = IF i <= j THEN j - i + 1 ELSE 0
        /\ \A k \in 1 .. j - i + 1 : SubSeq(u, i, j)[k] = u[i + k - 1] /\ SubSeq(s, i, j)[k] = s[i + k - 1]
    BY <1>2, SubSeqProperties
  <1>4. \A k \in 1 .. Len(SubSeq(u, i, j)) : SubSeq(u, i, j)[k] = SubSeq(s, i, j)[k]
    <2>1. \A k \in 1 .. j - i + 1 : i + k - 1 \in 1 .. Len(s)
      BY <1>1
    <2> QED BY <1>1, <1>3, <2>1
  <1> QED BY <1>3, <1>4, SeqEqual DEF u

\* The part from a place on to the end.
LEMMA LastPart ==
  ASSUME NEW s \in Seq(Piece), NEW t \in Piece, NEW i \in 1 .. Len(s) + 1
  PROVE  SubSeq(Append(s, t), i, Len(s) + 1) = Append(SubSeq(s, i, Len(s)), t)
  <1> DEFINE u == Append(s, t)
             n == Len(s)
             m == n - i + 1
             a == SubSeq(u, i, n + 1)
             b == SubSeq(s, i, n)
  <1>1. /\ n \in Nat /\ u[n + 1] = t
        /\ \A k \in 1 .. n : u[k] = s[k] /\ s[k] \in Piece /\ u[k] \in Piece
    BY Grown
  <1> HIDE DEF u, n
  <1>2. i \in Nat /\ 1 <= i /\ i <= n + 1
    BY <1>1 DEF n
  <1>3. (\A k \in i .. n + 1 : u[k] \in Piece) /\ (\A k \in i .. n : s[k] \in Piece)
    <2>1. \A k \in i .. n + 1 : k \in 1 .. n \/ k = n + 1
      BY <1>1, <1>2
    <2>2. \A k \in i .. n : k \in 1 .. n
      BY <1>1, <1>2
    <2> QED BY <1>1, <2>1, <2>2
  <1>4. /\ a \in Seq(Piece) /\ Len(a) = m + 1
        /\ \A k \in 1 .. m + 1 : a[k] = u[i + k - 1]
    <2>1. Len(a) = IF i <= n + 1 THEN n + 1 - i + 1 ELSE 0
      BY <1>1, <1>2, <1>3, SubSeqProperties
    <2>2. a \in Seq(Piece) /\ \A k \in 1 .. n + 1 - i + 1 : a[k] = u[i + k - 1]
      BY <1>1, <1>2, <1>3, SubSeqProperties
    <2>3. n + 1 - i + 1 = m + 1
      BY <1>1, <1>2 DEF m
    <2> QED BY <1>2, <2>1, <2>2, <2>3
  <1>5. /\ b \in Seq(Piece) /\ Len(b) = m
        /\ \A k \in 1 .. m : b[k] = s[i + k - 1]
    <2>1. Len(b) = IF i <= n THEN n - i + 1 ELSE 0
      BY <1>1, <1>2, <1>3, SubSeqProperties
    <2>2. b \in Seq(Piece) /\ \A k \in 1 .. n - i + 1 : b[k] = s[i + k - 1]
      BY <1>1, <1>2, <1>3, SubSeqProperties
    <2>3. m = IF i <= n THEN n - i + 1 ELSE 0
      BY <1>1, <1>2 DEF m
    <2> QED BY <2>1, <2>2, <2>3 DEF m
  <1>m. m \in Nat /\ i + (m + 1) - 1 = n + 1 /\ \A k \in 1 .. m : i + k - 1 \in 1 .. n
    BY <1>1, <1>2 DEF m
  <1> HIDE DEF a, b, m
  <1>6. /\ Append(b, t) \in Seq(Piece) /\ Len(Append(b, t)) = m + 1
        /\ \A k \in 1 .. m : Append(b, t)[k] = b[k]
        /\ Append(b, t)[m + 1] = t
    BY <1>5, AppendProperties
  <1>7. ASSUME NEW k \in 1 .. Len(a) PROVE a[k] = Append(b, t)[k]
    <2>1. k \in 1 .. m \/ k = m + 1
      BY <1>4, <1>m
    <2>2. k \in 1 .. m + 1 /\ a[k] = u[i + k - 1]
      BY <1>4
    <2>3. CASE k \in 1 .. m
      <3>1. i + k - 1 \in 1 .. n
        BY <1>m, <2>3
      <3> QED BY <1>1, <1>5, <1>6, <2>2, <2>3, <3>1
    <2>4. CASE k = m + 1
      BY <1>1, <1>6, <1>m, <2>2, <2>4
    <2> QED BY <2>1, <2>3, <2>4
  <1>8. Len(a) = Len(Append(b, t))
    BY <1>4, <1>6
  <1>9. a = Append(b, t)
    BY <1>4, <1>6, <1>7, <1>8, SeqEqual
  <1> QED BY <1>9 DEF a, b, u, n

\* A text that grows says what it said, and what is new.
LEMMA SaysMore ==
  ASSUME NEW s \in Seq(Piece), NEW t \in Piece
  PROVE  /\ Says(s) => Says(Append(s, t))
         /\ t \in Text => Says(Append(s, t))
         /\ Says(Append(s, t)) => Says(s) \/ t \in Text
         /\ \A i \in 1 .. Len(s) : IsText(Append(s, t), i) <=> IsText(s, i)
         /\ \A f \in 1 .. Len(s) : FirstText(s, f) => FirstText(Append(s, t), f)
  <1> DEFINE u == Append(s, t)
             n == Len(s)
  <1>1. /\ n \in Nat /\ DOMAIN s = 1 .. n /\ DOMAIN u = 1 .. n + 1
        /\ u[n + 1] = t /\ \A i \in 1 .. n : u[i] = s[i]
    BY Grown
  <1> HIDE DEF u, n
  <1>2. \A i \in 1 .. n : IsText(u, i) <=> IsText(s, i)
    BY <1>1 DEF IsText
  <1>3. IsText(u, n + 1) <=> t \in Text
    BY <1>1 DEF IsText
  <1>4. \A i \in DOMAIN u : i \in DOMAIN s \/ i = n + 1
    BY <1>1
  <1>5. n + 1 \in DOMAIN u /\ \A i \in DOMAIN s : i \in DOMAIN u
    BY <1>1
  <1>6. \A f \in 1 .. n : FirstText(s, f) => FirstText(u, f)
    <2> SUFFICES ASSUME NEW f \in 1 .. n, FirstText(s, f), NEW k \in 1 .. f - 1 PROVE ~ IsText(u, k)
      BY <1>2 DEF FirstText
    <2>1. k \in 1 .. n
      BY <1>1
    <2> QED BY <1>2, <2>1 DEF FirstText
  <1>7. /\ Says(s) => Says(u)
        /\ t \in Text => Says(u)
        /\ Says(u) => Says(s) \/ t \in Text
    BY <1>1, <1>2, <1>3, <1>4, <1>5 DEF Says
  <1> QED BY <1>2, <1>6, <1>7 DEF u, n

(***************************************************************************)
(* What a repetition holds before its cell has text, and when the first    *)
(* characters come to all of them (XML.cpp:620-631).                       *)
(***************************************************************************)
LEMMA StandsEmpty ==
  ASSUME NEW first \in BOOLEAN, NEW last \in BOOLEAN
  PROVE  Stands(<<>>, <<>>, first, last)
  <1>1. ~ Says(<<>>)
    BY DEF Says
  <1> QED BY <1>1 DEF Stands

\* The first characters come to every repetition.
LEMMA StandsFirst ==
  ASSUME NEW h, NEW s \in Seq(Piece), NEW t \in Text, NEW first \in BOOLEAN, NEW last \in BOOLEAN,
         ~ Says(s), Stands(h, s, first, last)
  PROVE  Stands(Append(h, t), Append(s, t), first, last)
  <1> DEFINE u == Append(s, t)
             n == Len(s)
  <1>1. t \in Piece
    BY DEF Piece
  <1>2. /\ n \in Nat /\ DOMAIN s = 1 .. n /\ DOMAIN u = 1 .. n + 1 /\ Len(u) = n + 1 /\ u \in Seq(Piece)
        /\ u[n + 1] = t /\ \A i \in 1 .. n : u[i] = s[i]
    BY <1>1, Grown
  <1>3. Says(u) /\ \A i \in 1 .. n : ~ IsText(u, i)
    <2>1. Says(u) /\ \A i \in 1 .. n : IsText(u, i) <=> IsText(s, i)
      BY <1>1, SaysMore
    <2> QED BY <1>2, <2>1 DEF Says
  <1>4. n + 1 \in DOMAIN u /\ FirstText(u, n + 1)
    <2>1. n + 1 \in DOMAIN u /\ (\A k \in 1 .. n + 1 - 1 : k \in 1 .. n)
      BY <1>2
    <2> QED BY <1>2, <1>3, <2>1 DEF FirstText, IsText
  <1>5. h = IF first THEN s ELSE <<>>
    BY DEF Stands
  <1>6. SubSeq(u, 1, n + 1) = Append(s, t)
    BY <1>2, SubSeqFull
  <1>7. SubSeq(u, n + 1, n + 1) = Append(<<>>, t)
    <2>1. n + 1 \in 1 .. Len(s) + 1
      BY <1>2
    <2>2. SubSeq(u, n + 1, n + 1) = Append(SubSeq(s, n + 1, n), t)
      BY <1>1, <2>1, LastPart
    <2>3. SubSeq(s, n + 1, n) = <<>>
      BY <1>2, SubSeqEmpty
    <2> QED BY <2>2, <2>3
  <1>8. Append(h, t) = SubSeq(u, IF first THEN 1 ELSE n + 1, IF last THEN Len(u) ELSE n + 1)
    BY <1>2, <1>5, <1>6, <1>7
  <1> QED BY <1>3, <1>4, <1>8 DEF Stands

\* A space before them comes to the first repetition only.
LEMMA StandsSpace ==
  ASSUME NEW h, NEW s \in Seq(Piece), NEW first \in BOOLEAN, NEW last \in BOOLEAN,
         ~ Says(s), Stands(h, s, first, last)
  PROVE  Stands(IF first THEN Append(h, Space) ELSE h, Append(s, Space), first, last)
  <1>1. Space \in Piece /\ Space \notin Text
    BY NameAssumption DEF Piece
  <1>2. ~ Says(Append(s, Space))
    BY <1>1, SaysMore
  <1> QED BY <1>2 DEF Stands

\* What follows them comes to the last repetition only (XML.cpp:633).
LEMMA StandsMore ==
  ASSUME NEW h, NEW s \in Seq(Piece), NEW t \in Piece, NEW first \in BOOLEAN, NEW last \in BOOLEAN,
         Says(s), Stands(h, s, first, last)
  PROVE  Stands(IF last THEN Append(h, t) ELSE h, Append(s, t), first, last)
  <1> DEFINE u == Append(s, t)
             n == Len(s)
  <1>1. PICK f \in DOMAIN s :
          /\ FirstText(s, f)
          /\ h = SubSeq(s, IF first THEN 1 ELSE f, IF last THEN n ELSE f)
    BY DEF Stands
  <1>2. /\ n \in Nat /\ DOMAIN s = 1 .. n /\ DOMAIN u = 1 .. n + 1 /\ Len(u) = n + 1
    BY Grown
  <1>3. Says(u) /\ FirstText(u, f)
    BY <1>1, <1>2, SaysMore
  <1> DEFINE i == IF first THEN 1 ELSE f
  <1>4. i \in 1 .. n /\ f \in 1 .. n /\ f \in DOMAIN u /\ i \in 1 .. n + 1
    BY <1>1, <1>2
  <1> HIDE DEF i
  <1>5. CASE last
    <2>1. SubSeq(u, i, n + 1) = Append(SubSeq(s, i, n), t)
      BY <1>4, LastPart
    <2>2. h = SubSeq(s, i, n)
      BY <1>1, <1>5 DEF i
    <2>3. Append(h, t) = SubSeq(u, i, Len(u))
      BY <1>2, <2>1, <2>2
    <2> QED BY <1>3, <1>4, <1>5, <2>3 DEF Stands, i
  <1>6. CASE ~ last
    <2>1. SubSeq(u, i, f) = SubSeq(s, i, f)
      BY <1>4, OldPart
    <2>2. h = SubSeq(u, i, f)
      BY <1>1, <1>6, <2>1 DEF i
    <2> QED BY <1>3, <1>4, <1>6, <2>2 DEF Stands, i
  <1> QED BY <1>5, <1>6

(***************************************************************************)
(* So what stands there at the end of the cell is faithful to its text.    *)
(***************************************************************************)
LEMMA StandsFaithful ==
  ASSUME NEW h, NEW s \in Seq(Piece), s # <<>>, NEW first \in BOOLEAN, NEW last \in BOOLEAN,
         Stands(h, s, first, last)
  PROVE  Faithful(h, [text |-> s, first |-> first, last |-> last])
  <1> DEFINE w == [text |-> s, first |-> first, last |-> last]
             n == Len(s)
  <1>1. w.text = s /\ w.first = first /\ w.last = last
    OBVIOUS
  <1>2. n \in Nat /\ n # 0 /\ DOMAIN s = 1 .. n /\ \A i \in 1 .. n : s[i] \in Piece
    BY LenProperties, EmptySeq, ElementOfSeq
  <1>3. OnlySpaces(s) <=> ~ Says(s)
    <2>1. \A i \in DOMAIN s : IsText(s, i) <=> s[i] # Space
      BY <1>2, NameAssumption DEF IsText, Piece
    <2> QED BY <2>1 DEF OnlySpaces, Says
  <1>4. 1 \in DOMAIN s /\ n \in DOMAIN s
    BY <1>2
  <1> HIDE DEF w, n
  <1>5. CASE ~ Says(s)
    <2>1. h = IF first THEN s ELSE <<>>
      BY <1>5 DEF Stands
    <2> QED BY <1>1, <1>3, <1>5, <2>1 DEF Faithful, w
  <1>6. CASE Says(s)
    <2>1. PICK f \in DOMAIN s :
            /\ FirstText(s, f)
            /\ h = SubSeq(s, IF first THEN 1 ELSE f, IF last THEN n ELSE f)
      BY <1>6 DEF Stands, n
    <2>2. first /\ last => h = s
      BY <2>1, SubSeqFull DEF n
    <2> DEFINE i == IF first THEN 1 ELSE f
               j == IF last THEN n ELSE f
    <2>3. i \in DOMAIN s /\ j \in DOMAIN s /\ i <= f /\ f <= j
      BY <1>2, <1>4
    <2>4. h = SubSeq(s, i, j) /\ (first => i = 1) /\ (last => j = n)
      BY <2>1
    <2> HIDE DEF i, j
    <2> QED BY <1>1, <1>3, <1>6, <2>1, <2>2, <2>3, <2>4 DEF Faithful, w, n
  <1> QED BY <1>5, <1>6

-----------------------------------------------------------------------------
(***************************************************************************)
(* Before a document is read, and when a reading begins, nothing is shown. *)
(***************************************************************************)
Bare ==
  /\ place \in {"idle", "document"} /\ iTable \in Table \union {NoTable}
  /\ iCorrectTable = FALSE /\ iColumnRepeated = 1 /\ iColumnSpanned = 0 /\ iRowRepeated = 1
  /\ iAddFormat = FALSE
  /\ iPosition = Origin /\ iCellEnd \in Nat /\ iTables = <<>> /\ coloured = FALSE
  /\ cells = Nothing /\ painted = {}
  /\ kind \in CellKind \union {NoKind} /\ pieces = <<>>
  /\ column = 0 /\ row = 0 /\ nextRow = 0 /\ announced = 0 /\ hanging = {}
  /\ written = Nothing /\ colours = {} /\ again = {} /\ spoilt = {}
  /\ cut = FALSE /\ astray = FALSE

\* The invariant holds where nothing of a document has been read.
LEMMA BareInv == Bare => Inv
  <1> SUFFICES ASSUME Bare PROVE Inv
    OBVIOUS
  <1>1. DOMAIN cells = {} /\ DOMAIN written = {} /\ colours = {} /\ Origin \in Point
    BY DEF Bare, Nothing, Origin, At, Point
  <1>2. iTables \in Seq(Table) /\ pieces \in Seq(Piece) /\ iTables = <<>> /\ pieces = <<>>
    <2>1. <<>> \in Seq(Table) /\ <<>> \in Seq(Piece)
      BY EmptySeq
    <2> QED BY <2>1 DEF Bare
  <1>3. Typed
    <2>1. /\ place \in {"idle", "document", "table", "row", "cell", "covered"} /\ iTable \in Table \union {NoTable}
          /\ iCellEnd \in Nat /\ kind \in CellKind \union {NoKind}
      BY DEF Bare
    <2>2. iCorrectTable \in BOOLEAN /\ iAddFormat \in BOOLEAN /\ coloured \in BOOLEAN
      BY Zenon DEF Bare
    <2>3. /\ iColumnRepeated \in Nat \ {0} /\ iColumnSpanned \in Nat /\ iRowRepeated \in Nat \ {0}
          /\ column \in Nat /\ row \in Nat /\ nextRow \in Nat /\ announced \in Nat
      <3>1. /\ iColumnRepeated = 1 /\ iColumnSpanned = 0 /\ iRowRepeated = 1
            /\ column = 0 /\ row = 0 /\ nextRow = 0 /\ announced = 0
        BY Zenon DEF Bare
      <3> QED BY <3>1
    <2>4. iPosition \in Point /\ painted = {} /\ hanging = {} /\ again = {} /\ spoilt = {}
      BY <1>1 DEF Bare
    <2> QED BY <1>1, <1>2, <2>1, <2>2, <2>3, <2>4 DEF Typed, TypeOK
  <1>4. ~ Open /\ ~ Begun /\ ~ Asked /\ ~ Named /\ ~ Inner
    BY <1>2 DEF Bare, Open, Asked, Begun, Named, Inner
  <1>5. Filled = {} /\ Writing = {}
    BY <1>1, <1>4 DEF Filled, Writing
  <1>6. Reader
    BY <1>4 DEF Bare, Open, Reader
  <1>7. NotYet /\ Cursor /\ AllPast /\ AllAbove /\ Rows /\ Content /\ OnlyThose /\ Colour
    BY <1>1, <1>4, <1>5 DEF Bare, NotYet, Cursor, AllPast, AllAbove, Rows, Content, OnlyThose, Colour
  <1>8. LastRow
    BY <1>1, <1>4 DEF LastRow
  <1> QED BY <1>3, <1>6, <1>7, <1>8 DEF Inv

(***************************************************************************)
(* So it is before the first document.                                     *)
(***************************************************************************)
LEMMA InitInv == Init => Inv
  <1>1. Init => Bare
    BY DEF Init, Bare
  <1> QED BY <1>1, BareInv

(***************************************************************************)
(* GetContentSheet hands over an empty sheet and a new reader.             *)
(***************************************************************************)
LEMMA GetContentSheetInv ==
  ASSUME Inv, NEW t \in Table \union {NoTable}, GetContentSheet(t)
  PROVE  Inv'
  <1>1. Bare'
    <2>1. place \in {"idle"} /\ pieces = <<>> /\ iCellEnd \in Nat /\ kind \in CellKind \union {NoKind}
      BY DEF Inv, Typed, TypeOK, Reader, GetContentSheet
    <2> QED BY <2>1 DEF GetContentSheet, Bare
  <1> QED BY <1>1, BareInv, PTL

(***************************************************************************)
(* A table starts: if it is the one asked for, nothing was shown before.   *)
(***************************************************************************)
LEMMA StartTableInv ==
  ASSUME Inv, NEW n \in Table, StartTable(n)
  PROVE  Inv'
  <1>1. /\ place = "document" /\ place' = "table"
        /\ \A i \in DOMAIN iTables : iTables[i] # n
        /\ iTables' = Append(iTables, n)
        /\ iCorrectTable' = (iCorrectTable \/ iTable \in {NoTable, n})
        /\ n = iTable => iPosition' = Origin /\ iCellEnd' = 0
        /\ n # iTable => iPosition' = iPosition /\ iCellEnd' = iCellEnd
        /\ column' = 0 /\ row' = 0 /\ nextRow' = 0 /\ announced' = 0 /\ hanging' = {}
        /\ iTable' = iTable
    BY DEF StartTable
  <1>2. /\ UNCHANGED <<iColumnRepeated, iColumnSpanned, iRowRepeated, iAddFormat>>
        /\ UNCHANGED <<coloured, cells, painted, kind, pieces, written, colours, again, spoilt>>
        /\ UNCHANGED <<cut, astray>>
    BY DEF StartTable, cell
  <1>3. iTables \in Seq(Table) /\ iTable \in Table \union {NoTable} /\ Origin \in Point
    BY DEF Inv, Typed, TypeOK, Origin, At, Point
  <1>4. /\ iTables' \in Seq(Table) /\ Len(iTables') = Len(iTables) + 1 /\ Last(iTables') = n
        /\ Len(iTables) \in Nat
        /\ \A i \in DOMAIN iTables : i \in DOMAIN iTables' /\ iTables'[i] = iTables[i]
        /\ \A i \in DOMAIN iTables' : i \in DOMAIN iTables \/ iTables'[i] = n
        /\ Len(iTables') \in DOMAIN iTables' /\ iTables'[Len(iTables')] = n
        /\ iTables = <<>> <=> Len(iTables) = 0
    BY <1>1, <1>3, AppendProperties, LenProperties, EmptySeq DEF Last
  <1>5. iTables' # <<>>
    BY <1>1, <1>3, AppendProperties
  <1>6. /\ ~ Open /\ ~ Asked /\ Open' /\ ~ Inner /\ ~ Inner' /\ Named' = (Named \/ n = iTable)
        /\ (Asked' <=> IF iTable = NoTable THEN Len(iTables) = 0 ELSE n = iTable)
    <2>1. ~ Open /\ Open'
      BY <1>1 DEF Open
    <2>2. Named' <=> (Named \/ n = iTable)
      BY <1>1, <1>4 DEF Named
    <2>3. Asked' <=> IF iTable = NoTable THEN Len(iTables) = 0 ELSE n = iTable
      <3>1. AskedFor(iTables)' <=> IF iTable = NoTable THEN Len(iTables') = 1 ELSE Last(iTables') = iTable
        BY <1>1 DEF AskedFor
      <3> QED BY <1>4, <2>1, <3>1 DEF Asked
    <2>4. ~ Inner /\ ~ Inner'
      BY <1>1 DEF Inner
    <2> QED BY <2>1, <2>2, <2>3, <2>4 DEF Asked, Named
  <1>7. Asked' => ~ Begun
    BY <1>1, <1>4, <1>6 DEF Begun, Named
  <1>8. Writing = {} /\ Writing' = {} /\ Filled' = Filled /\ \A p : Sound(p)' = Sound(p)
    BY <1>1, <1>2 DEF Writing, Filled, Sound
  <1>9. Typed'
    BY <1>1, <1>2, <1>3, <1>4 DEF Inv, Typed, TypeOK
  <1>10. Reader'
    BY <1>1, <1>2, <1>4, <1>5, <1>6 DEF Inv, Reader, Open
  <1>11. NotYet'
    <2> SUFFICES ASSUME ~ Begun' PROVE NotYet'
      BY DEF NotYet
    <2>1. iTable # NoTable /\ ~ Begun
      BY <1>1, <1>5, <1>6 DEF Begun
    <2> QED BY <1>1, <1>2, <1>8, <2>1 DEF Inv, NotYet
  <1>12. Cursor'
    <2> SUFFICES ASSUME Asked' PROVE iPosition' = Origin
      BY <1>1 DEF Cursor, OnCourse, Origin, At
    <2>1. CASE iTable = NoTable
      BY <1>1, <1>7, <2>1, NameAssumption DEF Inv, NotYet
    <2>2. CASE iTable # NoTable
      BY <1>1, <1>6, <2>2
    <2> QED BY <2>1, <2>2
  <1>13. AllPast'
    BY <1>2, <1>7 DEF Inv, NotYet, AllPast
  <1>14. AllAbove'
    BY <1>1, <1>2, <1>4, <1>6, NameAssumption DEF Inv, AllAbove, Begun
  <1>15. Rows'
    BY <1>1, <1>2, <1>6, <1>7 DEF Inv, NotYet, Rows
  <1>16. Content' /\ OnlyThose'
    <2>1. (iTable' # NoTable \/ Len(iTables') <= 1) => (iTable # NoTable \/ Len(iTables) <= 1)
      BY <1>1, <1>4
    <2> QED BY <1>2, <1>8, <2>1 DEF Inv, Content, OnlyThose, Held
  <1>17. Colour'
    BY <1>2, <1>8 DEF Inv, Colour, HasText
  <1>18. LastRow'
    <2>1. place' # "cell"
      BY <1>1
    <2>2. CASE n = iTable
      <3>1. DOMAIN written = {} /\ iCellEnd' = 0
        BY <1>1, <1>3, <2>2, NameAssumption DEF Inv, NotYet, Begun, Named
      <3> QED BY <1>2, <2>1, <3>1 DEF LastRow
    <2>3. CASE n # iTable
      BY <1>1, <1>2, <1>6, <2>1, <2>3 DEF Inv, LastRow
    <2> QED BY <2>2, <2>3
  <1> QED BY <1>9, <1>10, <1>11, <1>12, <1>13, <1>14, <1>15, <1>16, <1>17, <1>18 DEF Inv

(***************************************************************************)
(* A row starts.                                                           *)
(***************************************************************************)
LEMMA StartRowInv ==
  ASSUME Inv, NEW n \in RowRepeat, StartRow(n)
  PROVE  Inv'
  <1>1. /\ place = "table" /\ place' = "row" /\ column' = 0 /\ nextRow' = row + n
        /\ iRowRepeated' = CASE n > MaxRowRepeat -> 1 [] n = 1 -> iRowRepeated [] OTHER -> n
        /\ cut' = (cut \/ n > MaxRowRepeat)
        /\ again' = again \union IF AskedFor(iTables) THEN row + 1 .. row + n - 1 ELSE {}
    BY DEF StartRow
  <1>2. /\ UNCHANGED <<iTable, iCorrectTable, iColumnRepeated, iColumnSpanned, iAddFormat>>
        /\ UNCHANGED <<iPosition, iCellEnd, iTables, coloured, cells, painted>>
        /\ UNCHANGED <<kind, pieces, row, announced, hanging, written, colours, spoilt, astray>>
    BY DEF StartRow, document, cell
  <1>3. /\ n \in Nat \ {0} /\ MaxRowRepeat \in Nat \ {0} /\ row \in Nat
        /\ iRowRepeated = 1 /\ column = 0 /\ nextRow = 0 /\ announced = 0
    BY <1>1, RepeatAssumption DEF Inv, Typed, TypeOK, Reader, Inner
  <1>4. iRowRepeated' \in Nat \ {0} /\ (~ cut' => iRowRepeated' = n)
    <2>1. CASE n > MaxRowRepeat
      <3>1. iRowRepeated' = 1 /\ cut'
        BY <1>1, <1>3, <2>1
      <3> QED BY <3>1
    <2>2. CASE ~ (n > MaxRowRepeat) /\ n = 1
      BY <1>1, <1>3, <2>2
    <2>3. CASE ~ (n > MaxRowRepeat) /\ n # 1
      BY <1>1, <1>3, <2>3
    <2> QED BY <2>1, <2>2, <2>3
  <1>5. column' = column /\ (~ cut' => ~ cut)
    BY <1>1, <1>3
  <1>6. /\ Open /\ Open' /\ ~ Inner /\ Inner' /\ Asked' = Asked /\ Named' = Named /\ Begun' = Begun
        /\ Writing' = {} /\ Writing = {} /\ Filled' = Filled
    BY <1>1, <1>2, <1>5 DEF Open, Inner, Asked, AskedFor, Named, Begun, Writing, Filled
  <1>7. /\ again \subseteq again' /\ again' \subseteq Nat
        /\ \A y \in again' : y \in again \/ (Asked /\ row < y /\ y < nextRow')
        /\ Asked => \A y \in Nat : row < y /\ y < nextRow' => y \in again'
        /\ ~ Asked => again' = again
    <2>1. Asked <=> AskedFor(iTables)
      BY <1>6 DEF Asked
    <2>2. again \subseteq Nat
      BY DEF Inv, Typed, TypeOK
    <2>3. \A y : y \in row + 1 .. row + n - 1 <=> y \in Nat /\ row < y /\ y < row + n
      BY <1>3
    <2> QED BY <1>1, <2>1, <2>2, <2>3
  <1>8. \A p : Sound(p)' => Sound(p)
    BY <1>2, <1>7 DEF Sound
  <1>9. Asked => /\ \A p \in DOMAIN written \union colours : p.y \in Nat /\ p.y < row
                 /\ \A y \in again : y < row
                 /\ \A q \in spoilt : q.y \in Nat /\ q.y <= row
    <2>1. \A p \in DOMAIN written \union colours \union spoilt : p.x \in Nat /\ p.y \in Nat
      BY DEF Inv, Typed, TypeOK, Point
    <2>2. Asked => \A p \in DOMAIN written \union colours : p.y < row \/ (p.y < 0 /\ p.x < 0)
      BY <1>3 DEF Inv, AllPast, Past
    <2>3. Asked => \A y \in again : y < row \/ (row < y /\ y < 0)
      BY <1>3 DEF Inv, Rows
    <2>4. again \subseteq Nat
      BY DEF Inv, Typed, TypeOK
    <2>5. Asked => \A q \in spoilt : q.y <= row
      BY DEF Inv, Rows
    <2>6. \A k \in Nat : ~ (k < 0)
      OBVIOUS
    <2>7. Asked => \A p \in DOMAIN written \union colours : p.y < row
      BY <2>1, <2>2, <2>6
    <2>8. Asked => \A y \in again : y < row
      BY <2>3, <2>4, <2>6
    <2> QED BY <2>1, <2>5, <2>7, <2>8
  <1>10. Typed'
    BY <1>1, <1>2, <1>3, <1>4, <1>7 DEF Inv, Typed, TypeOK
  <1>11. Reader'
    BY <1>1, <1>2, <1>3, <1>4, <1>6 DEF Inv, Reader, Open
  <1>12. NotYet'
    <2>1. ~ Begun => ~ Asked
      BY <1>2, <1>6 DEF Inv, Reader, Asked, Begun, Named, AskedFor, Last, Typed, TypeOK
    <2> QED BY <1>1, <1>2, <1>6, <1>7, <2>1 DEF Inv, NotYet
  <1>13. Cursor'
    BY <1>1, <1>2, <1>5, <1>6 DEF Inv, Cursor, OnCourse, Lost
  <1>14. AllPast'
    BY <1>2, <1>6, <1>9 DEF AllPast, Past
  <1>15. AllAbove'
    BY <1>1, <1>2, <1>5, <1>6, <1>7 DEF Inv, AllAbove
  <1>16. Rows'
    BY <1>1, <1>2, <1>6, <1>7, <1>9 DEF Rows
  <1>17. Content'
    BY <1>1, <1>2, <1>5, <1>6, <1>8 DEF Inv, Content, Held
  <1>18. OnlyThose'
    <2> SUFFICES ASSUME ~ cut, ~ astray PROVE OnlyThose'
      BY <1>2, <1>5 DEF OnlyThose
    <2>1. (iTable # NoTable \/ Len(iTables) <= 1) =>
            \A p \in Filled : Sound(p)' => p \in DOMAIN written
      BY <1>6, <1>8 DEF Inv, OnlyThose
    <2>2. ASSUME NEW p \in Filled PROVE p.y \notin again'
      <3>1. p.y \notin again
        BY DEF Inv, OnlyThose
      <3>2. CASE Asked
        <4>1. iTable # NoTable \/ Len(iTables) <= 1
          <5>1. iTable = NoTable => Len(iTables) = 1
            BY <3>2 DEF Asked, AskedFor
          <5>2. Len(iTables) = 1 => Len(iTables) <= 1
            <6>1. 1 <= 1
              OBVIOUS
            <6> QED BY <6>1, Zenon
          <5> QED BY <5>1, <5>2
        <4>2. p \in DOMAIN written \/ \E q \in spoilt : q.y = p.y
          BY <1>6, <3>1, <4>1 DEF Inv, OnlyThose, Sound
        <4>3. p.y \in Nat /\ p.y <= row
          BY <1>3, <1>9, <3>2, <4>2
        <4> QED BY <1>3, <1>7, <3>1, <4>3
      <3>3. CASE ~ Asked
        BY <1>7, <3>1, <3>3
      <3> QED BY <3>2, <3>3
    <2> QED BY <1>2, <1>6, <2>1, <2>2 DEF OnlyThose
  <1>19. Colour'
    BY <1>1, <1>2, <1>5, <1>6, <1>8 DEF Inv, Colour, HasText
  <1>20. LastRow'
    <2> SUFFICES ASSUME ~ cut, ~ astray PROVE LastRow'
      BY <1>2, <1>5 DEF LastRow
    <2>1. place # "cell" /\ place' # "cell"
      BY <1>1
    <2>2. \A p \in DOMAIN written : p.y \notin again' => p.y <= iCellEnd
      BY <1>7 DEF Inv, LastRow
    <2>3. \A p \in DOMAIN written \union spoilt : p.y \notin again => p.y \notin again'
      BY <1>3, <1>7, <1>9
    <2>4. Named => iCellEnd = 0 \/ \E p \in DOMAIN written \union spoilt : p.y = iCellEnd /\ p.y \notin again'
      BY <2>1, <2>3 DEF Inv, LastRow
    <2> QED BY <1>2, <1>6, <2>1, <2>2, <2>4 DEF LastRow
  <1> QED BY <1>10, <1>11, <1>12, <1>13, <1>14, <1>15, <1>16, <1>17, <1>18, <1>19, <1>20 DEF Inv

-----------------------------------------------------------------------------
(***************************************************************************)
(* The positions from the cursor on, and those of the document's cell.     *)
(***************************************************************************)
LEMMA Places ==
  ASSUME Inv, NEW n \in Nat
  PROVE  /\ Ahead(n) = Strip(iPosition.x, iPosition.y, n)
         /\ iPosition \in Point /\ iPosition.x \in Nat /\ iPosition.y \in Nat
         /\ column \in Nat /\ row \in Nat /\ announced \in Nat
         /\ Ahead(n) \subseteq Point /\ Strip(column, row, n) \subseteq Point
         /\ \A p \in Ahead(n) : p.y = iPosition.y /\ iPosition.x <= p.x
         /\ \A p \in Strip(column, row, n) : ~ Past(p) /\ p.y = row /\ column <= p.x
  <1>1. iPosition \in Point /\ column \in Nat /\ row \in Nat /\ announced \in Nat /\ nextRow \in Nat
    BY DEF Inv, Typed, TypeOK
  <1>2. iPosition.x \in Nat /\ iPosition.y \in Nat
    BY <1>1 DEF Point
  <1>3. Ahead(n) = Strip(iPosition.x, iPosition.y, n)
    BY DEF Ahead, Strip
  <1>4. Ahead(n) \subseteq Point /\ Strip(column, row, n) \subseteq Point
    BY <1>1, <1>2, <1>3, StripCells
  <1>5. \A p \in Ahead(n) : p.y = iPosition.y /\ iPosition.x <= p.x
    BY <1>2, <1>3, <1>4, StripCells
  <1>6. ASSUME NEW p \in Strip(column, row, n) PROVE ~ Past(p) /\ p.y = row /\ column <= p.x
    <2>1. p.y = row /\ column <= p.x /\ p.x \in Nat /\ p.y \in Nat
      BY <1>1, <1>4, StripCells DEF Point
    <2> QED BY <1>1, <2>1 DEF Past
  <1> QED BY <1>1, <1>2, <1>3, <1>4, <1>5, <1>6

(***************************************************************************)
(* Where the cursor was lost, nothing from it on is claimed.               *)
(***************************************************************************)
LEMMA LostIsUnsound ==
  ASSUME Inv, Lost
  PROVE  /\ \A p \in Writing : ~ Sound(p)
         /\ \A p \in Point : p.y = row /\ iPosition.x <= p.x => ~ Sound(p)
  <1>1. PICK q \in spoilt : q.y = row /\ q.x <= iPosition.x /\ q.x <= column + announced
    BY DEF Lost
  <1>2. q.x \in Nat /\ iPosition.x \in Nat /\ column \in Nat /\ announced \in Nat
    BY DEF Inv, Typed, TypeOK, Point
  <1>3. ASSUME NEW p \in Writing PROVE ~ Sound(p)
    <2>1. Asked /\ place = "cell" /\ p \in Strip(column, row, kind.repeated)
      BY <1>3 DEF Writing
    <2>2. announced = 0 /\ kind.repeated \in Nat
      BY <2>1, KindAssumption DEF Inv, Reader
    <2>3. p \in Point /\ p.y = row /\ column <= p.x
      BY <2>1, <2>2, Places
    <2>4. p.x \in Nat /\ q.x <= p.x
      BY <1>1, <1>2, <2>2, <2>3 DEF Point
    <2>5. ~ (p.x < q.x)
      BY <1>2, <2>4
    <2> QED BY <1>1, <2>3, <2>5 DEF Sound
  <1>4. ASSUME NEW p \in Point, p.y = row, iPosition.x <= p.x PROVE ~ Sound(p)
    <2>1. p.x \in Nat /\ ~ (p.x < q.x)
      BY <1>1, <1>2, <1>4 DEF Point
    <2> QED BY <1>1, <1>4, <2>1 DEF Sound
  <1> QED BY <1>3, <1>4

(***************************************************************************)
(* In a cell of the table asked for the cursor stands at the first of its  *)
(* positions, and once it has text, at the last of them.                   *)
(***************************************************************************)
LEMMA CursorInCell ==
  ASSUME Inv, place = "cell", Asked, ~ cut, OnCourse
  PROVE  /\ iPosition.y = row /\ iPosition \in Writing
         /\ ~ Spoken => Ahead(iColumnRepeated) = Writing
         /\ Spoken => Ahead(iColumnRepeated) = {iPosition}
         /\ \A p \in Writing : p = iPosition <=> IF Spoken THEN Final(p) ELSE First(p)
  <1> DEFINE r == kind.repeated
             c == iColumnRepeated
  <1>1. r \in Nat \ {0} /\ c \in Nat \ {0} /\ r \in Nat /\ c \in Nat
    BY KindAssumption DEF Inv, Typed, TypeOK, Reader
  <1>2. /\ Ahead(c) = Strip(iPosition.x, iPosition.y, c)
        /\ iPosition \in Point /\ iPosition.x \in Nat /\ iPosition.y \in Nat
        /\ column \in Nat /\ row \in Nat
        /\ Ahead(c) \subseteq Point /\ Strip(column, row, r) \subseteq Point
    BY <1>1, Places
  <1>3. Writing = Strip(column, row, r)
    BY DEF Writing
  <1>4. /\ iPosition.y = row
        /\ Spoken => iPosition.x = column + r - 1 /\ c = 1
        /\ ~ Spoken => iPosition.x = column /\ c = r
    BY DEF Inv, Cursor, OnCourse
  <1>5. \A p \in Writing : Final(p) <=> p.x = column + r - 1
    BY DEF Final
  <1> HIDE DEF r, c
  <1>6. /\ \A p \in Point : p \in Ahead(c) <=> p.y = row /\ iPosition.x <= p.x /\ p.x < iPosition.x + c
        /\ \A p \in Point : p \in Writing <=> p.y = row /\ column <= p.x /\ p.x < column + r
    BY <1>1, <1>2, <1>3, <1>4, StripCells
  <1>7. iPosition \in Writing
    BY <1>1, <1>2, <1>4, <1>6
  <1>8. ~ Spoken => Ahead(c) = Writing
    BY <1>1, <1>2, <1>3, <1>4
  <1>9. \A p, q \in Point : p.x = q.x /\ p.y = q.y => p = q
    BY DEF Point
  <1>10. ASSUME Spoken PROVE Ahead(c) = {iPosition}
    <2>1. c = 1
      BY <1>4, <1>10
    <2>2. iPosition \in Ahead(c)
      BY <1>2, <1>4, <1>6, <2>1
    <2>3. ASSUME NEW p \in Ahead(c) PROVE p = iPosition
      <3>1. p \in Point /\ p.y = row /\ iPosition.x <= p.x /\ p.x < iPosition.x + 1 /\ p.x \in Nat
        BY <1>2, <1>6, <2>1 DEF Point
      <3>2. p.x = iPosition.x
        BY <1>2, <3>1
      <3> QED BY <1>2, <1>4, <1>9, <3>1, <3>2
    <2> QED BY <2>2, <2>3
  <1>11. ASSUME NEW p \in Writing PROVE p = iPosition <=> IF Spoken THEN Final(p) ELSE First(p)
    <2>1. p \in Point /\ p.y = row
      BY <1>2, <1>3, <1>6
    <2>2. p = iPosition <=> p.x = iPosition.x
      BY <1>2, <1>4, <1>9, <2>1
    <2> QED BY <1>4, <1>5, <2>2 DEF First
  <1> QED BY <1>4, <1>7, <1>8, <1>10, <1>11 DEF r, c

(***************************************************************************)
(* What the reader takes for the correct table is the one asked for; only  *)
(* without a name it takes every later one for correct, too.               *)
(***************************************************************************)
LEMMA CorrectTable ==
  ASSUME Inv, Open
  PROVE  /\ iCorrectTable => Begun
         /\ Asked => iCorrectTable
         /\ (iCorrectTable /\ ~ Asked) => iTable = NoTable
         /\ (iCorrectTable /\ (iTable # NoTable \/ Len(iTables) <= 1)) => Asked
         /\ Asked => iTable # NoTable \/ Len(iTables) <= 1
         /\ Named => iTable # NoTable
  <1>1. /\ iTables \in Seq(Table) /\ iTables # <<>> /\ Len(iTables) \in Nat
        /\ iCorrectTable <=> iTable \in {NoTable, Last(iTables)}
    BY LenProperties DEF Inv, Typed, TypeOK, Reader
  <1>2. Len(iTables) # 0 /\ Len(iTables) \in DOMAIN iTables /\ Last(iTables) = iTables[Len(iTables)]
    BY <1>1, LenProperties, EmptySeq DEF Last
  <1>3. Named => iTable # NoTable
    <2>1. \A i \in DOMAIN iTables : iTables[i] \in Table
      BY <1>1
    <2> QED BY <2>1, NameAssumption DEF Named
  <1>4. iCorrectTable => Begun
    BY <1>1, <1>2 DEF Begun, Named
  <1>5. CASE iTable = NoTable
    <2>1. iCorrectTable /\ (Asked <=> Len(iTables) = 1)
      BY <1>1, <1>5 DEF Asked, AskedFor
    <2>2. Len(iTables) <= 1 <=> Len(iTables) = 1
      <3>1. \A n \in Nat : n # 0 => (n <= 1 <=> n = 1)
        OBVIOUS
      <3> QED BY <1>1, <1>2, <3>1, Zenon
    <2> QED BY <1>3, <1>4, <1>5, <2>1, <2>2, Zenon
  <1>6. CASE iTable # NoTable
    <2>1. (iCorrectTable <=> iTable = Last(iTables)) /\ (Asked <=> iTable = Last(iTables))
      BY <1>1, <1>6 DEF Asked, AskedFor
    <2> QED BY <1>3, <1>4, <1>6, <2>1
  <1> QED BY <1>5, <1>6

(***************************************************************************)
(* A cell starts: nothing is shown yet at its positions.                   *)
(***************************************************************************)
LEMMA StartCellInv ==
  ASSUME Inv, NEW k \in CellKind, StartCell(k)
  PROVE  Inv'
  <1>1. /\ place = "row" /\ place' = "cell"
        /\ iAddFormat' = (k.style # "none")
        /\ coloured' = IF k.style = "none" THEN coloured ELSE k.style = "coloured"
        /\ cells' = IF k.value = "string" /\ iCorrectTable THEN AddCell(cells, {iPosition}) ELSE cells
        /\ iColumnRepeated' = IF k.repeated > 1 THEN k.repeated ELSE iColumnRepeated
        /\ iColumnSpanned' = IF k.spanned > 1 THEN k.spanned ELSE iColumnSpanned
        /\ kind' = k /\ pieces' = <<>> /\ announced = 0
    BY DEF StartCell
  <1>2. /\ UNCHANGED <<iTable, iCorrectTable, iRowRepeated, iPosition, iCellEnd, iTables, painted>>
        /\ UNCHANGED <<column, row, nextRow, announced, hanging, written, colours, again, spoilt>>
        /\ UNCHANGED <<cut, astray>>
    BY DEF StartCell, meant, progress
  <1>3. /\ k.repeated \in Nat \ {0} /\ k.spanned \in Nat \ {0}
        /\ iColumnRepeated = 1 /\ iColumnSpanned \in {0, 1} /\ pieces = <<>>
    BY <1>1, KindAssumption DEF Inv, Reader
  <1>4. iColumnRepeated' = k.repeated /\ (iColumnSpanned' = k.spanned \/ (k.spanned = 1 /\ iColumnSpanned' = 0))
    BY <1>1, <1>3
  <1>5. CellsTyped(cells) /\ iPosition \in Point /\ painted \subseteq DOMAIN cells
    BY DEF Inv, Typed, TypeOK, CellsTyped, Piece
  <1>6. CellsTyped(cells') /\ painted \subseteq DOMAIN cells'
    <2>1. cells' = AddCell(cells, {iPosition}) \/ cells' = cells
      BY <1>1
    <2>2. {iPosition} \in SUBSET Point
      BY <1>5
    <2>3. CellsTyped(AddCell(cells, {iPosition})) /\ DOMAIN AddCell(cells, {iPosition}) = DOMAIN cells \union {iPosition}
      BY <1>5, <2>2, CellTypes
    <2> QED BY <1>5, <2>1, <2>3
  <1>7. \A p : Held(cells', p) = Held(cells, p)
    <2>1. cells' = AddCell(cells, {iPosition}) \/ cells' = cells
      BY <1>1
    <2> QED BY <2>1, HeldAfterCell
  <1>8. Filled' = Filled
    <2>1. \A p : p \in Filled' <=> Held(cells', p) # <<>>
      BY FilledHeld DEF Filled, Held
    <2> QED BY <1>7, <2>1, FilledHeld
  <1>9. /\ Open /\ Open' /\ Inner /\ Inner' /\ Asked' = Asked /\ Named' = Named /\ Begun' = Begun
        /\ Writing = {} /\ Writing' = IF Asked THEN Strip(column, row, k.repeated) ELSE {}
        /\ ~ Spoken' /\ \A p : Past(p)' = Past(p) /\ Sound(p)' = Sound(p)
    <2>1. Open /\ Open' /\ Inner /\ Inner' /\ Asked' = Asked /\ Named' = Named /\ Begun' = Begun
      BY <1>1, <1>2 DEF Open, Inner, Asked, AskedFor, Named, Begun
    <2>2. Writing = {} /\ Writing' = IF Asked THEN Strip(column, row, k.repeated) ELSE {}
      BY <1>1, <1>2, <2>1 DEF Writing
    <2>3. ~ Spoken' /\ \A p : Past(p)' = Past(p) /\ Sound(p)' = Sound(p)
      BY <1>1, <1>2 DEF Spoken, Says, Past, Sound
    <2> QED BY <2>1, <2>2, <2>3
  <1>10. Typed'
    <2>1. pieces' \in Seq(Piece)
      BY <1>1, EmptySeq
    <2>2. iAddFormat' \in BOOLEAN /\ coloured' \in BOOLEAN
      BY <1>1, Zenon DEF Inv, Typed, TypeOK
    <2>3. iColumnRepeated' \in Nat \ {0} /\ iColumnSpanned' \in Nat
      BY <1>3, <1>4
    <2> QED BY <1>1, <1>2, <1>6, <2>1, <2>2, <2>3 DEF Inv, Typed, TypeOK, CellsTyped, Piece
  <1>11. Reader'
    <2>1. k.style = "coloured" => iAddFormat' /\ coloured'
      BY <1>1
    <2> QED BY <1>1, <1>2, <1>4, <1>9, <2>1 DEF Inv, Reader, Open
  <1>12. NotYet' /\ AllPast' /\ AllAbove' /\ Rows'
    BY <1>1, <1>2, <1>8, <1>9 DEF Inv, NotYet, AllPast, AllAbove, Rows
  <1>13. Cursor'
    <2>1. OnCourse => OnCourse'
      <3>1. column + 0 = column
        BY DEF Inv, Typed, TypeOK
      <3> QED BY <1>1, <1>2, <1>4, <1>9, <3>1 DEF OnCourse
    <2>2. Lost => Lost'
      BY <1>1, <1>2 DEF Lost
    <2> QED BY <1>1, <1>2, <1>9, <2>1, <2>2 DEF Inv, Cursor
  <1>14. Content'
    <2> SUFFICES ASSUME ~ cut, ~ astray PROVE Content'
      BY <1>2 DEF Content
    <2>1. ASSUME NEW p \in Writing', Sound(p) PROVE Held(cells, p) = <<>>
      <3>1. Asked /\ p \in Strip(column, row, k.repeated)
        BY <1>9, <2>1
      <3>2. iTable # NoTable \/ Len(iTables) <= 1
        BY <1>9, <3>1, CorrectTable
      <3>3. p \notin DOMAIN written
        BY <1>3, <3>1, Places DEF Inv, AllPast
      <3>4. p \notin Filled
        BY <1>9, <2>1, <3>2, <3>3 DEF Inv, OnlyThose
      <3> QED BY <3>4, FilledHeld
    <2>2. \A p \in Writing' : Sound(p) => Stands(Held(cells, p), <<>>, First(p)', Final(p)')
      <3>1. ASSUME NEW p PROVE First(p)' \in BOOLEAN /\ Final(p)' \in BOOLEAN
        BY DEF First, Final
      <3> QED BY <2>1, <3>1, StandsEmpty
    <2>3. \A p : Stands(Held(cells, p), pieces, First(p), Final(p))'
                 <=> Stands(Held(cells', p), <<>>, First(p)', Final(p)')
      BY <1>1 DEF Stands, Held, First, Final
    <2>4. \A p \in DOMAIN written : Sound(p) => Faithful(Held(cells, p), written[p])
      BY DEF Inv, Content
    <2> QED BY <1>2, <1>7, <1>9, <2>2, <2>3, <2>4 DEF Content, Held
  <1>15. OnlyThose'
    BY <1>1, <1>2, <1>8, <1>9 DEF Inv, OnlyThose
  <1>16. Colour'
    BY <1>1, <1>2, <1>9 DEF Inv, Colour, HasText
  <1>17. LastRow'
    BY <1>1, <1>2, <1>3, <1>9 DEF Inv, LastRow
  <1> QED BY <1>10, <1>11, <1>12, <1>13, <1>14, <1>15, <1>16, <1>17 DEF Inv

(***************************************************************************)
(* A covered cell starts.                                                  *)
(***************************************************************************)
LEMMA StartCoveredInv ==
  ASSUME Inv, StartCovered
  PROVE  Inv'
  <1>1. /\ place = "row" /\ place' = "covered"
        /\ UNCHANGED <<iTable, iCorrectTable, iColumnRepeated, iColumnSpanned, iRowRepeated, iAddFormat>>
        /\ UNCHANGED <<iPosition, iCellEnd, iTables, coloured, cells, painted, kind, pieces>>
        /\ UNCHANGED <<column, row, nextRow, announced, hanging, written, colours, again, spoilt>>
        /\ UNCHANGED <<cut, astray>>
    BY DEF StartCovered, parser, document, cell, meant, progress
  <1>2. /\ Open /\ Open' /\ Inner /\ Inner' /\ Asked' = Asked /\ Named' = Named /\ Begun' = Begun
        /\ Writing = {} /\ Writing' = {} /\ Filled' = Filled
        /\ \A p : Past(p)' = Past(p) /\ Sound(p)' = Sound(p)
    <2>1. Open /\ Open' /\ Inner /\ Inner' /\ Asked' = Asked /\ Named' = Named /\ Begun' = Begun
      BY <1>1 DEF Open, Inner, Asked, AskedFor, Named, Begun
    <2> QED BY <1>1, <2>1 DEF Writing, Filled, Past, Sound
  <1>3. Typed'
    BY <1>1 DEF Inv, Typed, TypeOK
  <1>4. Reader'
    BY <1>1, <1>2 DEF Inv, Reader
  <1>5. NotYet' /\ AllPast' /\ AllAbove' /\ Rows'
    BY <1>1, <1>2 DEF Inv, NotYet, AllPast, AllAbove, Rows
  <1>6. Cursor'
    BY <1>1, <1>2 DEF Inv, Cursor, OnCourse, Lost
  <1>7. Content' /\ OnlyThose' /\ Colour'
    BY <1>1, <1>2 DEF Inv, Content, OnlyThose, Colour, Held, HasText
  <1>8. LastRow'
    BY <1>1, <1>2 DEF Inv, LastRow
  <1> QED BY <1>3, <1>4, <1>5, <1>6, <1>7, <1>8 DEF Inv

(***************************************************************************)
(* A covered cell ends: if it is covered from above, the cursor is lost.   *)
(***************************************************************************)
LEMMA EndCoveredInv ==
  ASSUME Inv, EndCovered
  PROVE  Inv'
  <1>1. /\ place = "covered" /\ place' = "row" /\ column' = column + 1
        /\ announced' = IF announced > 0 THEN announced - 1 ELSE 0
        /\ spoilt' = IF announced > 0 THEN spoilt ELSE Spoilt
        /\ pieces' = <<>>
        /\ UNCHANGED <<iTable, iCorrectTable, iColumnRepeated, iColumnSpanned, iRowRepeated, iAddFormat>>
        /\ UNCHANGED <<iPosition, iCellEnd, iTables, coloured, cells, painted, kind>>
        /\ UNCHANGED <<row, nextRow, hanging, written, colours, again, cut, astray>>
    BY DEF EndCovered, parser, document
  <1>2. /\ column \in Nat /\ announced \in Nat /\ row \in Nat /\ iPosition.x \in Nat
        /\ spoilt \subseteq Point
    BY DEF Inv, Typed, TypeOK, Point
  <1>3. /\ column' \in Nat /\ announced' \in Nat
        /\ announced > 0 => column' + announced' = column + announced
        /\ column + announced <= column' + announced'
        /\ ~ (announced > 0) => announced = 0
    BY <1>1, <1>2
  <1>4. /\ Open /\ Open' /\ Inner /\ Inner' /\ Asked' = Asked /\ Named' = Named /\ Begun' = Begun
        /\ Writing = {} /\ Writing' = {} /\ Filled' = Filled
    <2>1. Open /\ Open' /\ Inner /\ Inner' /\ Asked' = Asked /\ Named' = Named /\ Begun' = Begun
      BY <1>1 DEF Open, Inner, Asked, AskedFor, Named, Begun
    <2> QED BY <1>1, <2>1 DEF Writing, Filled
  <1>5. /\ spoilt \subseteq spoilt' /\ spoilt' \subseteq Point
        /\ \A q \in spoilt' : q \in spoilt \/ (Asked /\ q.y = row)
        /\ (Asked /\ announced = 0) => At(column, row) \in spoilt'
    <2>1. At(column + announced, row) \in Point /\ At(column + announced, row).y = row
      BY <1>2 DEF At, Point
    <2>2. Asked <=> AskedFor(iTables)
      BY <1>4 DEF Asked
    <2>3. announced = 0 => ~ (announced > 0) /\ column + announced = column
      BY <1>2
    <2> QED BY <1>1, <1>2, <2>1, <2>2, <2>3 DEF Spoilt
  <1>6. \A p : Sound(p)' => Sound(p)
    BY <1>1, <1>5 DEF Sound
  <1>7. Typed'
    <2>1. pieces' \in Seq(Piece)
      BY <1>1, EmptySeq
    <2> QED BY <1>1, <1>3, <1>5, <2>1 DEF Inv, Typed, TypeOK
  <1>8. Reader'
    BY <1>1, <1>4 DEF Inv, Reader
  <1>9. NotYet'
    <2>1. ~ Begun => ~ Asked
      BY <1>4, CorrectTable
    <2> QED BY <1>1, <1>4, <1>5, <2>1 DEF Inv, NotYet
  <1>10. Cursor'
    <2> SUFFICES ASSUME Asked, ~ cut PROVE iPosition.y = row /\ (OnCourse' \/ Lost')
      BY <1>1, <1>4 DEF Cursor
    <2>1. iPosition.y = row /\ (OnCourse \/ Lost)
      BY DEF Inv, Cursor
    <2>2. CASE Lost
      <3>1. PICK q \in spoilt : q.y = row /\ q.x <= iPosition.x /\ q.x <= column + announced
        BY <2>2 DEF Lost
      <3>2. q \in spoilt' /\ q.x <= column' + announced'
        <4>1. q.x \in Nat
          BY <1>2 DEF Point
        <4>2. \A i, j, k \in Nat : i <= j /\ j <= k => i <= k
          OBVIOUS
        <4>3. column + announced \in Nat /\ column' + announced' \in Nat
          <5>1. \A i, j \in Nat : i + j \in Nat
            OBVIOUS
          <5> QED BY <1>2, <1>3, <5>1, Zenon
        <4>4. q.x <= column' + announced'
          BY <1>3, <3>1, <4>1, <4>2, <4>3
        <4> QED BY <1>5, <4>4
      <3> QED BY <1>1, <2>1, <3>1, <3>2 DEF Lost
    <2>3. CASE OnCourse /\ announced > 0
      <3>1. iPosition.x = column' + announced'
        BY <1>1, <1>3, <2>3 DEF OnCourse
      <3> QED BY <1>1, <2>1, <3>1 DEF OnCourse
    <2>4. CASE OnCourse /\ ~ (announced > 0)
      <3>1. /\ At(column, row) \in spoilt' /\ At(column, row).y = row /\ At(column, row).x = column
            /\ iPosition.x = column + announced
        BY <1>1, <1>3, <1>5, <2>4 DEF OnCourse, At
      <3>2. column <= iPosition.x /\ column <= column' + announced'
        BY <1>1, <1>2, <1>3, <3>1
      <3> QED BY <1>1, <2>1, <3>1, <3>2 DEF Lost
    <2> QED BY <2>1, <2>2, <2>3, <2>4
  <1>11. AllPast'
    <2> SUFFICES ASSUME Asked, NEW p \in DOMAIN written \union colours
                 PROVE  p.y < row \/ (p.y < nextRow /\ p.x < column')
      BY <1>1, <1>4 DEF AllPast, Past
    <2>1. p.x \in Nat /\ (p.y < row \/ (p.y < nextRow /\ p.x < column))
      BY DEF Inv, AllPast, Past, Typed, Point
    <2> QED BY <1>1, <1>2, <2>1
  <1>12. AllAbove'
    BY <1>1, <1>4 DEF Inv, AllAbove
  <1>13. Rows'
    <2>1. Asked => \A q \in spoilt' : q.y <= row
      <3>1. row <= row
        BY <1>2
      <3> QED BY <1>5, <3>1 DEF Inv, Rows
    <2> QED BY <1>1, <1>4, <2>1 DEF Inv, Rows
  <1>14. Content' /\ OnlyThose' /\ Colour'
    BY <1>1, <1>4, <1>6 DEF Inv, Content, OnlyThose, Colour, Held, HasText
  <1>15. LastRow'
    BY <1>1, <1>4, <1>5 DEF Inv, LastRow
  <1> QED BY <1>7, <1>8, <1>9, <1>10, <1>11, <1>12, <1>13, <1>14, <1>15 DEF Inv

-----------------------------------------------------------------------------
\* Nothing happens but that a piece of text comes; a text in a covered cell spoils the row.
SameCell ==
  /\ UNCHANGED <<place, iTable, iTables, kind, column, row, nextRow, announced, hanging>>
  /\ UNCHANGED <<written, colours, again, cut>>
  /\ spoilt' = IF place = "covered" THEN Spoilt ELSE spoilt

(***************************************************************************)
(* The table and the cell the document is in stay what they are.           *)
(***************************************************************************)
LEMMA SameMeaning ==
  ASSUME SameCell
  PROVE  /\ Open' = Open /\ Inner' = Inner /\ Asked' = Asked /\ Named' = Named /\ Begun' = Begun
         /\ Writing' = Writing
         /\ \A p : Past(p)' = Past(p) /\ HasText(p)' = HasText(p) /\ First(p)' = First(p)
                   /\ Final(p)' = Final(p)
         /\ \A p : Sound(p)' => Sound(p)
         /\ place # "covered" => spoilt' = spoilt /\ \A p : Sound(p)' = Sound(p)
         /\ spoilt \subseteq spoilt'
  <1>1. Open' = Open /\ Inner' = Inner /\ Asked' = Asked /\ Named' = Named /\ Begun' = Begun
    BY DEF SameCell, Open, Inner, Asked, AskedFor, Named, Begun
  <1>2. spoilt \subseteq spoilt' /\ (place # "covered" => spoilt' = spoilt)
    BY DEF SameCell, Spoilt
  <1>3. (\A p : Sound(p)' => Sound(p)) /\ (place # "covered" => \A p : Sound(p)' = Sound(p))
    <2>1. again' = again
      BY DEF SameCell
    <2>2. \A p : Sound(p)' => Sound(p)
      BY <1>2, <2>1 DEF Sound
    <2>3. spoilt' = spoilt => \A p : Sound(p)' = Sound(p)
      BY <2>1 DEF Sound
    <2> QED BY <1>2, <2>2, <2>3
  <1>4. \A p : Past(p)' = Past(p) /\ HasText(p)' = HasText(p) /\ First(p)' = First(p)
               /\ Final(p)' = Final(p)
    BY DEF SameCell, Past, HasText, First, Final
  <1>5. Writing' = Writing
    BY <1>1 DEF SameCell, Writing
  <1> QED BY <1>1, <1>2, <1>3, <1>4, <1>5

(***************************************************************************)
(* What a text in a covered cell spoils: the row from the cursor on.       *)
(***************************************************************************)
LEMMA CoveredText ==
  ASSUME Inv, SameCell
  PROVE  /\ spoilt' \subseteq Point
         /\ \A q \in spoilt' : q \in spoilt \/ (Asked /\ q.y = row)
         /\ ~ Asked => spoilt' = spoilt
         /\ (place = "covered" /\ Asked) =>
              \E q \in spoilt' : q.y = row /\ q.x = column + announced
         /\ (place = "covered" /\ Asked /\ ~ cut) =>
              /\ \E q \in spoilt' : q.y = row /\ q.x <= iPosition.x /\ q.x <= column + announced
              /\ \A p \in Point : p.y = row /\ iPosition.x <= p.x => ~ Sound(p)'
  <1> DEFINE m == column + announced
  <1>1. /\ column \in Nat /\ announced \in Nat /\ row \in Nat /\ iPosition.x \in Nat
        /\ spoilt \subseteq Point
    BY DEF Inv, Typed, TypeOK, Point
  <1>2. m \in Nat
    BY <1>1
  <1>3. spoilt' = IF place = "covered" /\ AskedFor(iTables) THEN spoilt \union {At(m, row)} ELSE spoilt
    BY DEF SameCell, Spoilt
  <1> HIDE DEF m
  <1>4. At(m, row) \in Point /\ At(m, row).y = row /\ At(m, row).x = m
    BY <1>1, <1>2 DEF At, Point
  <1>5. place = "covered" => (Asked <=> AskedFor(iTables))
    BY DEF Asked, Open
  <1>6. /\ spoilt' \subseteq Point
        /\ \A q \in spoilt' : q \in spoilt \/ (Asked /\ q.y = row)
        /\ ~ Asked => spoilt' = spoilt
    BY <1>1, <1>3, <1>4, <1>5
  <1>7. (place = "covered" /\ Asked) => At(m, row) \in spoilt' /\ spoilt \subseteq spoilt'
    BY <1>3, <1>5
  <1>8. ASSUME place = "covered", Asked, ~ cut
        PROVE  \E q \in spoilt' : q.y = row /\ q.x <= iPosition.x /\ q.x <= m
    <2>1. CASE Lost
      BY <1>7, <1>8, <2>1 DEF Lost, m
    <2>2. CASE OnCourse
      <3>1. iPosition.x = m
        BY <1>8, <2>2 DEF OnCourse, m
      <3>2. m <= iPosition.x /\ m <= m
        BY <1>2, <3>1
      <3> QED BY <1>4, <1>7, <1>8, <3>2
    <2> QED BY <1>8, <2>1, <2>2 DEF Inv, Cursor
  <1>9. ASSUME place = "covered", Asked, ~ cut, NEW p \in Point, p.y = row, iPosition.x <= p.x
        PROVE  ~ Sound(p)'
    <2>1. PICK q \in spoilt' : q.y = row /\ q.x <= iPosition.x
      BY <1>8, <1>9
    <2>2. q.x \in Nat /\ p.x \in Nat
      BY <1>6, <2>1 DEF Point
    <2>3. ~ (p.x < q.x)
      BY <1>1, <1>9, <2>1, <2>2
    <2>4. Sound(p)' => \A z \in spoilt' : z.y = p.y => p.x < z.x
      BY DEF Sound
    <2> QED BY <1>9, <2>1, <2>3, <2>4
  <1> QED BY <1>4, <1>6, <1>7, <1>8, <1>9 DEF m

(***************************************************************************)
(* A piece that comes to the open cell, or where nothing is claimed any    *)
(* more, leaves the other cells as they are.                               *)
(***************************************************************************)
LEMMA OthersStay ==
  ASSUME Inv, Asked, Inner, ~ cut, ~ astray, SameCell, NEW t, NEW where \in SUBSET Point,
         cells' = AddCellText(cells, where, t),
         \A p \in where : p.y = row,
         \A p \in where : p \in Writing \/ ~ Sound(p)'
  PROVE  /\ \A p \in DOMAIN written : Sound(p)' => Faithful(Held(cells', p), written[p])
         /\ OnlyThose'
  <1>1. /\ Asked' = Asked /\ Writing' = Writing /\ \A p : Sound(p)' => Sound(p)
        /\ UNCHANGED <<iTable, iTables, kind, written, again>>
    BY SameMeaning DEF SameCell
  <1>2. \A p : Held(cells', p) = IF p \in where THEN Append(Held(cells, p), t) ELSE Held(cells, p)
    BY HeldAfterText
  <1>3. \A p \in Writing : p \notin DOMAIN written
    <2>1. place = "cell" => kind.repeated \in Nat
      BY KindAssumption DEF Inv, Reader
    <2> QED BY <2>1, Places DEF Writing, Inv, AllPast
  <1>4. \A p \in DOMAIN written : Sound(p)' => Faithful(Held(cells', p), written[p])
    BY <1>1, <1>2, <1>3 DEF Inv, Content
  <1>5. \A p \in Filled' : p \in Filled \/ p \in where
    <2>1. \A p : p \in Filled' <=> Held(cells', p) # <<>>
      BY DEF Filled, Held
    <2> QED BY <1>2, <2>1, FilledHeld
  <1>6. row \notin again
    <2>1. row \in Nat /\ ~ (row < row)
      BY DEF Inv, Typed, TypeOK
    <2> QED BY <2>1 DEF Inv, Rows
  <1>7. \A p \in Filled' : p.y \notin again
    BY <1>5, <1>6 DEF Inv, OnlyThose
  <1>8. iTable # NoTable \/ Len(iTables) <= 1
    BY CorrectTable DEF Asked
  <1>9. \A p \in Filled' : Sound(p)' => p \in DOMAIN written \union Writing
    BY <1>1, <1>5, <1>8 DEF Inv, OnlyThose
  <1> QED BY <1>1, <1>4, <1>7, <1>9 DEF OnlyThose

(***************************************************************************)
(* A piece is added to the text of a cell asked for.                       *)
(***************************************************************************)
LEMMA OpenCellGrows ==
  ASSUME Inv, place = "cell", Asked, ~ cut, ~ astray, SameCell,
         NEW t \in Piece, NEW where,
         cells' = AddCellText(cells, where, t), pieces' = Append(pieces, t),
         OnCourse => where = IF ~ Spoken /\ t \in Text THEN Writing ELSE {iPosition},
         NEW p \in Writing, Sound(p)
  PROVE  Stands(Held(cells', p), pieces', First(p), Final(p))
  <1>1. OnCourse
    BY LostIsUnsound DEF Inv, Cursor
  <1>2. Held(cells', p) = IF p \in where THEN Append(Held(cells, p), t) ELSE Held(cells, p)
    BY HeldAfterText
  <1>3. Stands(Held(cells, p), pieces, First(p), Final(p))
    BY DEF Inv, Content
  <1>4. pieces \in Seq(Piece) /\ First(p) \in BOOLEAN /\ Final(p) \in BOOLEAN
    BY DEF Inv, Typed, First, Final
  <1>5. p = iPosition <=> IF Spoken THEN Final(p) ELSE First(p)
    BY <1>1, CursorInCell
  <1>6. CASE ~ Spoken /\ t \in Text
    <2>1. Held(cells', p) = Append(Held(cells, p), t) /\ ~ Says(pieces)
      BY <1>1, <1>2, <1>6 DEF Spoken
    <2> QED BY <1>3, <1>4, <1>6, <2>1, StandsFirst
  <1>7. CASE ~ Spoken /\ t \notin Text
    <2>1. t = Space /\ ~ Says(pieces)
      BY <1>7 DEF Piece, Spoken
    <2>2. Held(cells', p) = IF First(p) THEN Append(Held(cells, p), Space) ELSE Held(cells, p)
      BY <1>1, <1>2, <1>5, <1>7, <2>1
    <2> QED BY <1>3, <1>4, <2>1, <2>2, StandsSpace
  <1>8. CASE Spoken
    <2>1. Says(pieces) /\ Held(cells', p) = IF Final(p) THEN Append(Held(cells, p), t) ELSE Held(cells, p)
      BY <1>1, <1>2, <1>5, <1>8 DEF Spoken
    <2> QED BY <1>3, <1>4, <2>1, StandsMore
  <1> QED BY <1>6, <1>7, <1>8

(***************************************************************************)
(* The row of the piece is the last one, or there was a later one.         *)
(***************************************************************************)
LEMMA LastRowGrows ==
  ASSUME Inv, place \in {"cell", "covered"}, Asked, ~ cut, ~ astray, SameCell,
         iCellEnd' = Higher(iCellEnd, iPosition.y), pieces' # <<>>
  PROVE  LastRow'
  <1>1. /\ Asked' = Asked /\ Named' = Named /\ spoilt \subseteq spoilt'
        /\ UNCHANGED <<place, row, written, again>>
    BY SameMeaning DEF SameCell
  <1>2. iPosition.y = row /\ iCellEnd \in Nat /\ row \in Nat
    BY DEF Inv, Cursor, Typed, TypeOK
  <1>3. /\ iCellEnd <= iCellEnd' /\ row <= iCellEnd' /\ iCellEnd' \in Nat
        /\ iCellEnd' = iCellEnd \/ iCellEnd' = row
    BY <1>2 DEF Higher
  <1>4. \A p \in DOMAIN written : p.y \in Nat
    BY DEF Inv, Typed, Point
  <1>5. \A p \in DOMAIN written : p.y \notin again => p.y <= iCellEnd
    BY DEF Inv, LastRow
  <1>6. \A p \in DOMAIN written : p.y \notin again => p.y <= iCellEnd'
    <2>1. \A i, j, k \in Nat : i <= j /\ j <= k => i <= k
      OBVIOUS
    <2> QED BY <1>2, <1>3, <1>4, <1>5, <2>1
  <1>7. row \notin again
    <2>1. ~ (row < row)
      BY <1>2
    <2> QED BY <2>1 DEF Inv, Rows
  <1>8. place = "covered" => \E q \in DOMAIN written \union spoilt' : q.y = row /\ q.y \notin again
    BY <1>7, CoveredText
  <1>9. ASSUME Named
        PROVE  \/ iCellEnd' = 0
               \/ \E p \in DOMAIN written \union spoilt' : p.y = iCellEnd' /\ p.y \notin again
               \/ place = "cell" /\ iCellEnd' = row
    <2>1. \/ iCellEnd = 0
          \/ \E p \in DOMAIN written \union spoilt' : p.y = iCellEnd /\ p.y \notin again
          \/ place = "cell" /\ iCellEnd = row
      BY <1>1, <1>9 DEF Inv, LastRow
    <2>2. CASE iCellEnd' = iCellEnd
      BY <2>1, <2>2
    <2>3. CASE iCellEnd' = row
      BY <1>8, <2>3
    <2> QED BY <1>3, <2>2, <2>3
  <1> QED BY <1>1, <1>3, <1>6, <1>9 DEF LastRow

(***************************************************************************)
(* What no piece of text changes.                                          *)
(***************************************************************************)
LEMMA TextLeaves ==
  ASSUME Inv, SameCell, place \in {"cell", "covered"}
  PROVE  /\ AllPast' /\ Rows'
         /\ (Asked => Begun)
  <1>1. /\ Asked' = Asked /\ Inner' = Inner /\ \A p : Past(p)' = Past(p)
    BY SameMeaning
  <1>2. AllPast'
    BY <1>1 DEF Inv, AllPast, SameCell
  <1>3. row <= row
    BY DEF Inv, Typed, TypeOK
  <1>4. Asked => \A q \in spoilt' : q.y <= row
    BY <1>3, CoveredText DEF Inv, Rows
  <1>5. Rows'
    BY <1>1, <1>4 DEF Inv, Rows, SameCell
  <1>6. Asked => Begun
    BY CorrectTable DEF Open
  <1> QED BY <1>2, <1>5, <1>6

(***************************************************************************)
(* A piece of text.  In a table that is not the correct one it is ignored; *)
(* in one that is, but that was not asked for, it goes below all that was. *)
(***************************************************************************)
LEMMA CharacterDataInv ==
  ASSUME Inv, NEW t \in Text, CharacterData(t)
  PROVE  Inv'
  <1>1. /\ place \in {"cell", "covered"} /\ pieces' = Append(pieces, t)
        /\ UNCHANGED <<iCorrectTable, iColumnSpanned, iRowRepeated, iAddFormat, coloured>>
        /\ UNCHANGED <<astray>> /\ SameCell
    BY DEF CharacterData, progress, SameCell
  <1>2. \/ /\ iCorrectTable
           /\ cells' = AddCellText(cells, Ahead(iColumnRepeated), t)
           /\ painted' = painted \union IF iAddFormat /\ coloured THEN Ahead(iColumnRepeated) ELSE {}
           /\ iPosition' = At(iPosition.x + iColumnRepeated - 1, iPosition.y)
           /\ iCellEnd' = Higher(iCellEnd, iPosition.y)
           /\ iColumnRepeated' = 1
        \/ /\ ~ iCorrectTable
           /\ UNCHANGED <<cells, painted, iPosition, iCellEnd, iColumnRepeated>>
    BY DEF CharacterData
  <1>3. /\ Open' = Open /\ Inner' = Inner /\ Asked' = Asked /\ Named' = Named /\ Begun' = Begun
        /\ Writing' = Writing
        /\ \A p : /\ HasText(p)' = HasText(p) /\ First(p)' = First(p) /\ Final(p)' = Final(p)
                  /\ Sound(p)' => Sound(p)
        /\ place = "cell" => \A p : Sound(p)' = Sound(p)
    <2>1. place = "cell" => place # "covered"
      OBVIOUS
    <2> QED BY <1>1, <2>1, SameMeaning
  <1>4. Open /\ Inner /\ t \in Piece /\ pieces \in Seq(Piece)
    BY <1>1 DEF Open, Inner, Piece, Inv, Typed
  <1>5. pieces' \in Seq(Piece) /\ pieces' # <<>> /\ Spoken'
    <2>1. pieces' \in Seq(Piece) /\ pieces' # <<>>
      BY <1>1, <1>4, AppendProperties
    <2>2. Says(pieces')
      BY <1>1, <1>4, SaysMore
    <2> QED BY <2>1, <2>2 DEF Spoken
  <1>6. AllPast' /\ Rows' /\ (Asked => Begun)
    BY <1>1, TextLeaves
  <1>7. /\ spoilt' \subseteq Point /\ (~ Asked => spoilt' = spoilt) /\ spoilt \subseteq spoilt'
    BY <1>1, CoveredText, SameMeaning
  <1>8. CASE ~ iCorrectTable
    <2>1. UNCHANGED <<cells, painted, iPosition, iCellEnd, iColumnRepeated>>
      BY <1>2, <1>8
    <2>2. ~ Asked /\ Filled' = Filled
      BY <1>4, <1>8, <2>1, CorrectTable DEF Filled
    <2>3. Writing = {}
      BY <2>2 DEF Writing
    <2>4. Typed'
      BY <1>1, <1>5, <1>7, <2>1 DEF Inv, Typed, TypeOK, SameCell
    <2>5. Reader'
      BY <1>1, <1>3, <2>1 DEF Inv, Reader, SameCell
    <2>6. NotYet' /\ Cursor' /\ AllAbove'
      BY <1>1, <1>3, <1>7, <2>1, <2>2 DEF Inv, NotYet, Cursor, AllAbove, SameCell
    <2>7. Content' /\ OnlyThose' /\ Colour'
      BY <1>1, <1>3, <2>1, <2>2, <2>3 DEF Inv, Content, OnlyThose, Colour, SameCell, Held
    <2>8. LastRow'
      BY <1>1, <1>3, <1>7, <2>1, <2>2 DEF Inv, LastRow, SameCell
    <2> QED BY <1>6, <2>4, <2>5, <2>6, <2>7, <2>8 DEF Inv
  <1>9. CASE iCorrectTable
    <2> DEFINE where == Ahead(iColumnRepeated)
    <2>1. /\ cells' = AddCellText(cells, where, t)
          /\ painted' = painted \union IF iAddFormat /\ coloured THEN where ELSE {}
          /\ iPosition' = At(iPosition.x + iColumnRepeated - 1, iPosition.y)
          /\ iCellEnd' = Higher(iCellEnd, iPosition.y)
          /\ iColumnRepeated' = 1
      BY <1>2, <1>9
    <2>2. iColumnRepeated \in Nat \ {0} /\ iColumnRepeated \in Nat /\ iCellEnd \in Nat
      BY DEF Inv, Typed, TypeOK
    <2>3. /\ where \subseteq Point /\ \A p \in where : p.y = iPosition.y /\ iPosition.x <= p.x
          /\ iPosition.x \in Nat /\ iPosition.y \in Nat /\ column \in Nat /\ announced \in Nat
      BY <2>2, Places
    <2>4. /\ iPosition' \in Point /\ iPosition'.y = iPosition.y
          /\ iPosition'.x = iPosition.x + iColumnRepeated - 1 /\ iPosition.x <= iPosition'.x
      BY <2>1, <2>2, <2>3 DEF At, Point
    <2>5. Begun /\ Begun'
      BY <1>3, <1>4, <1>9, CorrectTable
    <2> HIDE DEF where
    <2>6. Typed'
      <3>1. CellsTyped(cells) /\ painted \subseteq DOMAIN cells
        BY DEF Inv, Typed, TypeOK, CellsTyped, Piece
      <3>2. CellsTyped(cells') /\ DOMAIN cells' = DOMAIN cells \union where
        BY <1>4, <2>1, <2>3, <3>1, TextTypes
      <3>3. painted' \subseteq DOMAIN cells'
        BY <2>1, <3>1, <3>2
      <3>4. iCellEnd' \in Nat /\ iColumnRepeated' \in Nat \ {0}
        BY <2>1, <2>2, <2>3 DEF Higher
      <3> QED BY <1>1, <1>5, <1>7, <2>4, <3>2, <3>3, <3>4
              DEF Inv, Typed, TypeOK, CellsTyped, Piece, SameCell
    <2>7. Reader'
      BY <1>1, <1>3, <2>1 DEF Inv, Reader, SameCell
    <2>8. NotYet' /\ AllAbove'
      BY <1>1, <1>3, <2>4, <2>5 DEF Inv, NotYet, AllAbove, SameCell
    <2>9. Cursor'
      <3> SUFFICES ASSUME Asked, ~ cut PROVE iPosition'.y = row /\ (OnCourse' \/ Lost')
        BY <1>1, <1>3 DEF Cursor, SameCell
      <3>1. iPosition.y = row /\ (OnCourse \/ Lost)
        BY DEF Inv, Cursor
      <3>2. ASSUME NEW q \in spoilt', q.y = row, q.x <= iPosition.x, q.x <= column + announced
            PROVE  Lost'
        <4>1. q.x \in Nat /\ q.x <= iPosition'.x
          <5>1. q.x \in Nat /\ iPosition'.x \in Nat
            BY <1>7, <2>4 DEF Point
          <5>2. \A i, j, k \in Nat : i <= j /\ j <= k => i <= k
            OBVIOUS
          <5> QED BY <2>3, <2>4, <3>2, <5>1, <5>2
        <4> QED BY <1>1, <3>2, <4>1 DEF Lost, SameCell
      <3>3. CASE Lost
        BY <1>7, <2>4, <3>1, <3>2, <3>3 DEF Lost
      <3>4. CASE place = "covered"
        BY <1>1, <2>4, <3>1, <3>2, <3>4, CoveredText
      <3>5. CASE OnCourse /\ place = "cell"
        <4>1. /\ Spoken => iPosition.x = column + kind.repeated - 1 /\ iColumnRepeated = 1
              /\ ~ Spoken => iPosition.x = column /\ iColumnRepeated = kind.repeated
          BY <3>5 DEF OnCourse
        <4>2. iPosition'.x = column + kind.repeated - 1
          BY <2>2, <2>3, <2>4, <4>1
        <4> QED BY <1>1, <1>5, <2>1, <2>4, <3>1, <3>5, <4>2 DEF OnCourse, SameCell
      <3> QED BY <1>1, <3>1, <3>3, <3>4, <3>5
    <2>10. CASE Asked /\ ~ cut
      <3>1. iPosition.y = row
        BY <2>10 DEF Inv, Cursor
      <3>2. place = "cell" /\ OnCourse => where = IF ~ Spoken /\ t \in Text THEN Writing ELSE {iPosition}
        BY <2>10, CursorInCell DEF where
      <3>3. \A p \in where : p \in Writing \/ ~ Sound(p)'
        <4>1. CASE Lost
          BY <1>3, <2>3, <3>1, <4>1, LostIsUnsound
        <4>2. CASE place = "covered"
          BY <1>1, <2>3, <2>10, <3>1, <4>2, CoveredText
        <4>3. CASE place = "cell" /\ OnCourse
          <5>1. iPosition \in Writing
            BY <2>10, <4>3, CursorInCell
          <5> QED BY <3>2, <4>3, <5>1
        <4> QED BY <1>1, <2>10, <4>1, <4>2, <4>3 DEF Inv, Cursor
      <3>4. Content' /\ OnlyThose'
        <4> SUFFICES ASSUME ~ astray PROVE Content' /\ OnlyThose'
          BY <1>1 DEF Content, OnlyThose
        <4>1. /\ \A p \in DOMAIN written : Sound(p)' => Faithful(Held(cells', p), written[p])
              /\ OnlyThose'
          BY <1>1, <1>4, <2>1, <2>3, <2>10, <3>1, <3>3, OthersStay
        <4>2. ASSUME NEW p \in Writing, Sound(p)'
              PROVE  Stands(Held(cells', p), pieces', First(p), Final(p))
          <5>1. place = "cell" /\ Sound(p)
            BY <1>3, <4>2 DEF Writing
          <5> QED BY <1>1, <1>4, <2>1, <2>10, <3>2, <5>1, OpenCellGrows
        <4>3. \A p : /\ Stands(Held(cells, p), pieces, First(p), Final(p))'
                         <=> Stands(Held(cells', p), pieces', First(p)', Final(p)')
                     /\ Faithful(Held(cells, p), written[p])' <=> Faithful(Held(cells', p), written'[p])
          BY DEF Stands, Faithful, Held
        <4>4. Content'
          BY <1>1, <1>3, <4>1, <4>2, <4>3 DEF Content, SameCell
        <4> QED BY <4>1, <4>4
      <3>5. Colour'
        <4>1. \A p \in colours \intersect DOMAIN written : HasText(p) /\ Sound(p)' => p \in painted'
          BY <1>3, <2>1, <2>10 DEF Inv, Colour
        <4>2. ASSUME kind.style = "coloured", NEW p \in Writing, Sound(p)' PROVE p \in painted'
          <5>1. place = "cell" /\ Sound(p) /\ ~ Lost
            BY <1>3, <4>2, LostIsUnsound DEF Writing
          <5>2. OnCourse /\ iAddFormat /\ coloured
            BY <2>10, <4>2, <5>1 DEF Inv, Cursor, Reader
          <5>3. Spoken => p \in painted
            BY <2>10, <4>2, <5>1 DEF Inv, Colour
          <5>4. ~ Spoken => p \in where
            BY <3>2, <4>2, <5>1, <5>2
          <5> QED BY <2>1, <5>2, <5>3, <5>4
        <4> QED BY <1>1, <1>3, <4>1, <4>2 DEF Colour, SameCell
      <3>6. LastRow'
        <4>1. CASE astray
          BY <1>1, <4>1 DEF LastRow
        <4>2. CASE ~ astray
          BY <1>1, <1>5, <2>1, <2>10, <4>2, LastRowGrows
        <4> QED BY <4>1, <4>2
      <3> QED BY <1>6, <2>6, <2>7, <2>8, <2>9, <3>4, <3>5, <3>6 DEF Inv
    <2>11. CASE cut
      BY <1>1, <1>6, <2>6, <2>7, <2>8, <2>9, <2>11 DEF Inv, Content, OnlyThose, Colour, LastRow, SameCell
    <2>12. CASE ~ Asked /\ ~ cut
      <3>1. /\ iTable = NoTable /\ ~ (Len(iTables) <= 1) /\ ~ Named /\ Writing = {}
        BY <1>4, <1>9, <2>12, CorrectTable DEF Writing
      <3>2. (\A p \in DOMAIN written : p \notin where) /\ (\A p \in where : p.y \notin again)
        <4>1. \A p \in DOMAIN written : p.y < iPosition.y /\ p.y \in Nat
          BY <2>5, <2>12, <3>1 DEF Inv, AllAbove, Typed, Point
        <4>2. \A y \in again : y < iPosition.y /\ y \in Nat
          BY <2>5, <2>12, <3>1 DEF Inv, AllAbove, Typed, TypeOK
        <4>3. ~ (iPosition.y < iPosition.y)
          BY <2>3
        <4> QED BY <2>3, <4>1, <4>2, <4>3
      <3>3. \A p : Held(cells', p) = IF p \in where THEN Append(Held(cells, p), t) ELSE Held(cells, p)
        BY <2>1, HeldAfterText
      <3>4. \A p : Held(cells, p)' = Held(cells', p)
        BY DEF Held
      <3>5. Content'
        BY <1>1, <1>3, <3>1, <3>2, <3>3, <3>4 DEF Inv, Content, SameCell
      <3>6. OnlyThose'
        <4>1. \A p \in Filled' : p \in Filled \/ p \in where
          <5>1. \A p : p \in Filled' <=> Held(cells', p) # <<>>
            BY DEF Filled, Held
          <5> QED BY <3>3, <5>1, FilledHeld
        <4> QED BY <1>1, <3>1, <3>2, <4>1 DEF Inv, OnlyThose, SameCell
      <3>7. Colour'
        BY <1>1, <1>3, <2>1, <3>1 DEF Inv, Colour, SameCell
      <3>8. LastRow'
        <4>1. ~ astray => \A p \in DOMAIN written : p.y \notin again => p.y <= iCellEnd'
          <5>1. iCellEnd <= iCellEnd' /\ iCellEnd' \in Nat
            BY <2>1, <2>2, <2>3 DEF Higher
          <5>2. \A p \in DOMAIN written : p.y \in Nat
            BY DEF Inv, Typed, Point
          <5>3. \A i, j, k \in Nat : i <= j /\ j <= k => i <= k
            OBVIOUS
          <5>4. ~ astray => \A p \in DOMAIN written : p.y \notin again => p.y <= iCellEnd
            BY <2>12 DEF Inv, LastRow
          <5> QED BY <2>2, <5>1, <5>2, <5>3, <5>4
        <4> QED BY <1>1, <1>3, <2>12, <3>1, <4>1 DEF LastRow, SameCell
      <3> QED BY <1>6, <2>6, <2>7, <2>8, <2>9, <3>5, <3>6, <3>7, <3>8 DEF Inv
    <2> QED BY <2>10, <2>11, <2>12
  <1> QED BY <1>8, <1>9

(***************************************************************************)
(* A space.  It is no text; one outside the cells asked for is astray.     *)
(***************************************************************************)
LEMMA WhiteSpaceInv ==
  ASSUME Inv, NEW inAnnotation \in BOOLEAN, WhiteSpace(inAnnotation)
  PROVE  Inv'
  <1>1. /\ place \in {"cell", "covered"} /\ SameCell
        /\ cells' = AddCellText(cells, {iPosition}, Space)
        /\ iCellEnd' = Higher(iCellEnd, iPosition.y)
        /\ pieces' = IF inAnnotation THEN pieces ELSE Append(pieces, Space)
        /\ UNCHANGED <<iCorrectTable, iColumnRepeated, iColumnSpanned, iRowRepeated, iAddFormat>>
        /\ UNCHANGED <<iPosition, coloured, painted>>
    BY DEF WhiteSpace, SameCell, parser, progress
  <1>2. astray' = (astray \/ inAnnotation \/ ~ AskedFor(iTables))
    BY DEF WhiteSpace
  <1>3. /\ Open' = Open /\ Inner' = Inner /\ Asked' = Asked /\ Named' = Named /\ Begun' = Begun
        /\ Writing' = Writing
        /\ \A p : /\ HasText(p)' = HasText(p) /\ First(p)' = First(p) /\ Final(p)' = Final(p)
                  /\ Sound(p)' => Sound(p)
        /\ place = "cell" => \A p : Sound(p)' = Sound(p)
    <2>1. place = "cell" => place # "covered"
      OBVIOUS
    <2> QED BY <1>1, <2>1, SameMeaning
  <1>4. Open /\ Inner /\ Space \in Piece /\ pieces \in Seq(Piece)
    BY <1>1 DEF Open, Inner, Piece, Inv, Typed
  <1>5. pieces' \in Seq(Piece) /\ (Spoken' <=> Spoken)
    <2>1. CASE inAnnotation
      BY <1>1, <1>4, <2>1 DEF Spoken
    <2>2. CASE ~ inAnnotation
      <3>1. pieces' = Append(pieces, Space) /\ Append(pieces, Space) \in Seq(Piece)
        BY <1>1, <1>4, <2>2, AppendProperties
      <3>2. Says(pieces') <=> Says(pieces)
        BY <1>4, <3>1, SaysMore, NameAssumption
      <3> QED BY <3>1, <3>2 DEF Spoken
    <2> QED BY <2>1, <2>2
  <1>6. AllPast' /\ Rows' /\ (Asked => Begun)
    BY <1>1, TextLeaves
  <1>7. /\ spoilt' \subseteq Point /\ (~ Asked => spoilt' = spoilt) /\ spoilt \subseteq spoilt'
    BY <1>1, CoveredText, SameMeaning
  <1>8. ASSUME ~ astray' PROVE Asked /\ ~ astray /\ pieces' = Append(pieces, Space)
    BY <1>1, <1>2, <1>4, <1>8 DEF Asked
  <1>9. iPosition \in Point /\ iPosition.x \in Nat /\ iPosition.y \in Nat /\ iCellEnd \in Nat
    BY DEF Inv, Typed, TypeOK, Point
  <1>10. Typed'
    <2>1. CellsTyped(cells) /\ painted \subseteq DOMAIN cells
      BY DEF Inv, Typed, TypeOK, CellsTyped, Piece
    <2>2. {iPosition} \in SUBSET Point
      BY <1>9
    <2>3. CellsTyped(cells') /\ DOMAIN cells' = DOMAIN cells \union {iPosition}
      BY <1>1, <1>4, <2>1, <2>2, TextTypes
    <2>4. painted' \subseteq DOMAIN cells' /\ iCellEnd' \in Nat
      BY <1>1, <1>9, <2>1, <2>3 DEF Higher
    <2> QED BY <1>1, <1>5, <1>7, <2>3, <2>4 DEF Inv, Typed, TypeOK, CellsTyped, Piece, SameCell
  <1>11. Reader'
    BY <1>1, <1>3 DEF Inv, Reader, SameCell
  <1>12. NotYet' /\ AllAbove'
    <2>1. ~ Begun => ~ Asked
      BY <1>6
    <2> QED BY <1>1, <1>3, <1>7, <1>8, <2>1 DEF Inv, NotYet, AllAbove, SameCell
  <1>13. Cursor'
    <2>1. OnCourse => OnCourse'
      BY <1>1, <1>5 DEF OnCourse, SameCell
    <2>2. Lost => Lost'
      BY <1>1, <1>7 DEF Lost, SameCell
    <2> QED BY <1>1, <1>3, <2>1, <2>2 DEF Inv, Cursor, SameCell
  <1>14. Content' /\ OnlyThose' /\ LastRow'
    <2> SUFFICES ASSUME ~ cut, ~ astray' PROVE Content' /\ OnlyThose' /\ LastRow'
      BY <1>1 DEF Content, OnlyThose, LastRow, SameCell
    <2>1. Asked /\ ~ astray /\ pieces' = Append(pieces, Space) /\ iPosition.y = row
      BY <1>8 DEF Inv, Cursor
    <2>2. {iPosition} \in SUBSET Point /\ iPosition.x <= iPosition.x
      BY <1>9
    <2>3. ASSUME NEW p, p = iPosition PROVE p \in Writing \/ ~ Sound(p)'
      <3>1. p \in Point /\ p.y = row /\ iPosition.x <= p.x
        BY <1>9, <2>1, <2>2, <2>3
      <3>2. CASE Lost
        BY <1>3, <3>1, <3>2, LostIsUnsound
      <3>3. CASE place = "covered"
        BY <1>1, <2>1, <3>1, <3>3, CoveredText
      <3>4. CASE place = "cell" /\ OnCourse
        BY <2>1, <2>3, <3>4, CursorInCell
      <3> QED BY <1>1, <2>1, <3>2, <3>3, <3>4 DEF Inv, Cursor
    <2>4. /\ \A p \in DOMAIN written : Sound(p)' => Faithful(Held(cells', p), written[p])
          /\ OnlyThose'
      <3> DEFINE where == {iPosition}
      <3>1. /\ where \in SUBSET Point /\ cells' = AddCellText(cells, where, Space)
            /\ \A p \in where : p.y = row
            /\ \A p \in where : p \in Writing \/ ~ Sound(p)'
        <4>1. where \in SUBSET Point /\ cells' = AddCellText(cells, where, Space)
          BY <1>1, <2>2
        <4>2. \A p \in where : p = iPosition
          OBVIOUS
        <4> QED BY <2>1, <2>3, <4>1, <4>2
      <3> HIDE DEF where
      <3> QED BY <1>1, <1>4, <2>1, <3>1, OthersStay
    <2>5. ASSUME NEW p \in Writing, Sound(p)'
          PROVE  Stands(Held(cells', p), pieces', First(p), Final(p))
      <3>1. place = "cell" /\ Sound(p)
        BY <1>3, <2>5 DEF Writing
      <3> QED BY <1>1, <1>4, <2>1, <3>1, OpenCellGrows, NameAssumption
    <2>6. \A p : /\ Stands(Held(cells, p), pieces, First(p), Final(p))'
                     <=> Stands(Held(cells', p), pieces', First(p)', Final(p)')
                 /\ Faithful(Held(cells, p), written[p])' <=> Faithful(Held(cells', p), written'[p])
      BY DEF Stands, Faithful, Held
    <2>7. Content'
      BY <1>1, <1>3, <2>4, <2>5, <2>6 DEF Content, SameCell
    <2>8. pieces' # <<>>
      BY <1>4, <2>1, AppendProperties
    <2> QED BY <1>1, <2>1, <2>4, <2>7, <2>8, LastRowGrows
  <1>15. Colour'
    BY <1>1, <1>3, <1>5 DEF Inv, Colour, SameCell
  <1> QED BY <1>6, <1>10, <1>11, <1>12, <1>13, <1>14, <1>15 DEF Inv

-----------------------------------------------------------------------------
(***************************************************************************)
(* At the end of a cell the cursor moves to the column after it: what is   *)
(* left of a repetition is walked, or the columns spanned are.             *)
(***************************************************************************)
LEMMA CursorMovesOn ==
  ASSUME Inv, EndCell
  PROVE  /\ iPosition'.y = iPosition.y /\ iPosition' \in Point /\ iPosition.x <= iPosition'.x
         /\ column' \in Nat /\ announced' \in Nat /\ column <= column'
         /\ column' = column + kind.repeated /\ column + announced <= column' + announced'
         /\ (Asked /\ ~ cut /\ OnCourse) => iPosition'.x = column' + announced'
  <1> DEFINE r == kind.repeated
             s == kind.spanned
             c == iColumnRepeated
             d == iColumnSpanned
             x == iPosition.x
  <1>1. /\ place = "cell" /\ column' = column + r /\ announced' = s - 1
        /\ \/ c > d /\ iPosition' = At(x + c, iPosition.y)
           \/ ~ (c > d) /\ iPosition' = At(x + d, iPosition.y)
    BY DEF EndCell, Noted
  <1>2. /\ r \in Nat \ {0} /\ s \in Nat \ {0} /\ (r = 1 \/ s = 1)
        /\ (d = s \/ (s = 1 /\ d = 0)) /\ announced = 0
    BY <1>1, KindAssumption, SpanAssumption DEF Inv, Reader
  <1>3. c \in Nat \ {0} /\ column \in Nat /\ x \in Nat /\ iPosition.y \in Nat /\ d \in Nat
    BY DEF Inv, Typed, TypeOK, Point
  <1>4. OnCourse => \/ x = column + r - 1 /\ c = 1
                    \/ x = column /\ c = r
    BY <1>1 DEF OnCourse
  <1>5. /\ iPosition'.y = iPosition.y
        /\ \/ c > d /\ iPosition'.x = x + c
           \/ ~ (c > d) /\ iPosition'.x = x + d
    BY <1>1 DEF At
  <1>6. iPosition' \in Point
    BY <1>1, <1>3 DEF At, Point
  <1> HIDE DEF r, s, c, d, x
  <1>7. x <= iPosition'.x
    BY <1>3, <1>5
  <1>8. column' \in Nat /\ announced' \in Nat /\ column <= column' /\ column + announced <= column' + announced'
    BY <1>1, <1>2, <1>3
  <1>9. ASSUME OnCourse PROVE iPosition'.x = column' + announced'
    <2>1. CASE s = 1
      BY <1>1, <1>2, <1>3, <1>4, <1>5, <1>9, <2>1
    <2>2. CASE s # 1
      BY <1>1, <1>2, <1>3, <1>4, <1>5, <1>9, <2>2
    <2> QED BY <2>1, <2>2
  <1> QED BY <1>1, <1>5, <1>6, <1>7, <1>8, <1>9 DEF r, x

(***************************************************************************)
(* What the document says of a cell concerns its own positions, none of    *)
(* which was spoken of before, and only in the table asked for; those of   *)
(* them that are claimed are in the first repetition of the row.           *)
(***************************************************************************)
LEMMA NotedInPlace ==
  ASSUME Inv, EndCell
  PROVE  /\ ~ Asked \/ pieces = <<>> => written' = written
         /\ ~ Asked => colours' = colours
         /\ Run(kind.repeated) \subseteq Point
         /\ \A p \in Run(kind.repeated) : p.y < nextRow /\ p.x < column'
         /\ Asked => /\ colours' = colours \union IF kind.style = "coloured" THEN Run(kind.repeated) ELSE {}
                     /\ Writing \subseteq Run(kind.repeated) /\ At(column, row) \in Writing
                     /\ \A p \in Writing : p.y = row
                     /\ row \notin again
                     /\ \A p \in Run(kind.repeated) : p \notin DOMAIN written /\ p \notin colours
                     /\ \A p \in Run(kind.repeated) : p.y \notin again => p \in Writing
         /\ Asked /\ pieces # <<>> =>
              /\ DOMAIN written' = DOMAIN written \union Run(kind.repeated)
              /\ \A p \in Run(kind.repeated) :
                   written'[p] = [text |-> pieces, first |-> First(p), last |-> Final(p)]
              /\ \A p \in DOMAIN written : written'[p] = written[p]
  <1> DEFINE n == kind.repeated
             own == Run(n)
  <1>1. /\ place = "cell"
        /\ IF AskedFor(iTables) /\ pieces # <<>>
           THEN written' = [p \in DOMAIN written \union own |->
                              IF p \in own
                              THEN [text |-> pieces, first |-> First(p), last |-> Final(p)]
                              ELSE written[p]]
           ELSE written' = written
        /\ colours' = colours \union IF AskedFor(iTables) /\ kind.style = "coloured" THEN own ELSE {}
        /\ column' = column + n
    BY DEF EndCell, Noted, First, Final
  <1>2. (Asked <=> AskedFor(iTables)) /\ (Asked => Writing = Strip(column, row, n)) /\ Inner
    BY <1>1 DEF Asked, Open, Writing, Inner
  <1>3. /\ n \in Nat \ {0} /\ column \in Nat /\ row \in Nat /\ nextRow \in Nat /\ row < nextRow
        /\ column + n \in Nat
    BY <1>1, <1>2, KindAssumption DEF Inv, Reader, Typed, TypeOK
  <1> HIDE DEF n
  <1>4. /\ own \subseteq Point
        /\ \A p \in Point : p \in own <=> row <= p.y /\ p.y < nextRow /\ column <= p.x /\ p.x < column + n
    BY <1>3, RunCells
  <1>5. /\ Strip(column, row, n) \subseteq Point
        /\ \A p \in Point : p \in Strip(column, row, n) <=> p.y = row /\ column <= p.x /\ p.x < column + n
    BY <1>3, StripCells
  <1> HIDE DEF own
  <1>6. \A p \in own : p.y < nextRow /\ p.x < column'
    BY <1>1, <1>4
  <1>7. Asked => Writing \subseteq own /\ \A p \in Writing : p.y = row
    <2>1. row <= row
      BY <1>3
    <2> QED BY <1>2, <1>3, <1>4, <1>5, <2>1
  <1>8. Asked => At(column, row) \in Writing
    <2>1. At(column, row) \in Point /\ At(column, row).x = column /\ At(column, row).y = row
      BY <1>3 DEF At, Point
    <2>2. column <= column /\ column < column + n
      BY <1>3
    <2> QED BY <1>2, <1>5, <2>1, <2>2
  <1>9. Asked => row \notin again
    <2>1. ~ (row < row)
      BY <1>3
    <2> QED BY <2>1 DEF Inv, Rows
  <1>10. ASSUME Asked, NEW p \in own
         PROVE  /\ p \notin DOMAIN written /\ p \notin colours
                /\ p.y \notin again => p \in Writing
    <2>1. p \in Point /\ p.x \in Nat /\ p.y \in Nat /\ row <= p.y /\ p.y < nextRow /\ column <= p.x /\ p.x < column + n
      BY <1>4, <1>10 DEF Point
    <2>2. ~ (p.y < row) /\ ~ (p.x < column)
      BY <1>3, <2>1
    <2>3. p \notin DOMAIN written /\ p \notin colours
      BY <1>10, <2>2 DEF Inv, AllPast, Past
    <2>4. ASSUME p.y \notin again PROVE p \in Writing
      <3>1. ~ (row < p.y)
        BY <1>2, <1>10, <2>1, <2>4 DEF Inv, Rows
      <3>2. p.y = row
        BY <1>3, <2>1, <3>1
      <3> QED BY <1>2, <1>5, <1>10, <2>1, <3>2
    <2> QED BY <2>3, <2>4
  <1>11. ~ Asked \/ pieces = <<>> => written' = written
    BY <1>1, <1>2
  <1>12. ASSUME Asked, pieces # <<>>
         PROVE  /\ DOMAIN written' = DOMAIN written \union own
                /\ \A p \in own : written'[p] = [text |-> pieces, first |-> First(p), last |-> Final(p)]
                /\ \A p \in DOMAIN written : written'[p] = written[p]
    <2>1. written' = [p \in DOMAIN written \union own |->
                        IF p \in own
                        THEN [text |-> pieces, first |-> First(p), last |-> Final(p)]
                        ELSE written[p]]
      BY <1>1, <1>2, <1>12
    <2> QED BY <1>10, <1>12, <2>1
  <1>13. ~ Asked => colours' = colours
    BY <1>1, <1>2
  <1>14. Asked => colours' = colours \union IF kind.style = "coloured" THEN own ELSE {}
    BY <1>1, <1>2
  <1> QED BY <1>4, <1>6, <1>7, <1>8, <1>9, <1>10, <1>11, <1>12, <1>13, <1>14 DEF own, n

-----------------------------------------------------------------------------
\* The positions a cell covers in the rows below it are positions.
LEMMA CoveredBelow ==
  ASSUME Inv, EndCell
  PROVE  hanging' \subseteq Point
  <1>1. place = "cell" /\ kind \in CellKind
    BY DEF EndCell, Inv, Reader
  <1>2. kind.repeated \in Nat /\ kind.spanned \in Nat /\ kind.rows \in Nat
    BY <1>1, KindAssumption
  <1>3. column \in Nat /\ row \in Nat /\ hanging \subseteq Point
    BY DEF Inv, Typed, TypeOK
  <1>4. ASSUME NEW i \in 0 .. Width(kind) - 1, NEW j \in 1 .. kind.rows - 1
        PROVE  At(column + i, row + j) \in Point
    <2>1. i \in Nat /\ j \in Nat
      BY <1>2 DEF Width
    <2>2. column + i \in Nat /\ row + j \in Nat
      BY <1>3, <2>1
    <2> QED BY <2>2 DEF At, Point
  <1>5. hanging' = hanging \union
           {At(column + i, row + j) : i \in 0 .. Width(kind) - 1, j \in 1 .. kind.rows - 1}
    BY DEF EndCell, Noted
  <1> QED BY <1>3, <1>4, <1>5

\* Nothing stands for a cell without text.
LEMMA StandsNothing ==
  ASSUME NEW h, NEW first, NEW last, Stands(h, <<>>, first, last)
  PROVE  h = <<>>
  <1>1. ~ Says(<<>>)
    BY DEF Says
  <1> QED BY <1>1 DEF Stands

(***************************************************************************)
(* The end of a cell: its text and its colour are where the document has   *)
(* them.                                                                   *)
(***************************************************************************)
LEMMA EndCellInv ==
  ASSUME Inv, EndCell
  PROVE  Inv'
  <1>1. /\ place = "cell" /\ place' = "row" /\ iColumnRepeated' = 1 /\ iColumnSpanned' = 1
        /\ UNCHANGED <<iTable, iCorrectTable, iRowRepeated, iAddFormat, iCellEnd, iTables>>
        /\ UNCHANGED <<coloured, row, nextRow, again, spoilt, cut, astray>>
        /\ kind' = NoKind /\ pieces' = <<>>
    BY DEF EndCell, Noted
  <1>2. \/ /\ cells' = AddCell(cells, IF iAddFormat /\ coloured THEN Ahead(iColumnRepeated) ELSE {})
           /\ painted' = painted \union IF iAddFormat /\ coloured THEN Ahead(iColumnRepeated) ELSE {}
        \/ UNCHANGED <<cells, painted>>
    BY DEF EndCell
  <1>3. /\ Open /\ Open' /\ Inner /\ Inner' /\ Asked' = Asked /\ Named' = Named /\ Begun' = Begun
        /\ Writing' = {} /\ \A p : Sound(p)' = Sound(p)
    <2>1. Open /\ Open' /\ Inner /\ Inner' /\ Asked' = Asked /\ Named' = Named /\ Begun' = Begun
      BY <1>1 DEF Open, Inner, Asked, AskedFor, Named, Begun
    <2>2. Writing' = {}
      BY <1>1 DEF Writing
    <2>3. \A p : Sound(p)' = Sound(p)
      BY <1>1 DEF Sound
    <2> QED BY <2>1, <2>2, <2>3
  <1>4. /\ iPosition'.y = iPosition.y /\ iPosition' \in Point /\ iPosition.x <= iPosition'.x
        /\ column' \in Nat /\ announced' \in Nat /\ column <= column'
        /\ column + announced <= column' + announced'
        /\ (Asked /\ ~ cut /\ OnCourse) => iPosition'.x = column' + announced'
    BY CursorMovesOn
  <1>5. column \in Nat /\ row \in Nat /\ nextRow \in Nat /\ announced \in Nat /\ iPosition \in Point
    BY DEF Inv, Typed, TypeOK
  <1>6. \A i, j, k \in Nat : i <= j /\ j <= k => i <= k
    OBVIOUS
  <1>7. \A p : Held(cells, p)' = Held(cells, p)
    <2>1. \A p : Held(cells, p)' = Held(cells', p)
      BY DEF Held
    <2>2. \A p : Held(cells', p) = Held(cells, p)
      BY <1>2, HeldAfterCell
    <2> QED BY <2>1, <2>2
  <1>8. Filled' = Filled
    <2>1. \A p : p \in Filled' <=> Held(cells, p)' # <<>>
      BY DEF Filled, Held
    <2> QED BY <1>7, <2>1, FilledHeld
  <1>9. painted \subseteq painted'
    BY <1>2
  <1>10. (~ Begun => ~ Asked) /\ (iTable = NoTable => Begun)
    <2>1. iTables # <<>>
      BY <1>3 DEF Inv, Reader
    <2> QED BY <1>3, <2>1, CorrectTable DEF Begun
  <1>11. DOMAIN written \subseteq Point /\ colours \subseteq Point /\ pieces \in Seq(Piece)
    BY DEF Inv, Typed
  <1>12. Typed'
    <2>1. CellsTyped(cells) /\ painted \subseteq DOMAIN cells
      BY DEF Inv, Typed, TypeOK, CellsTyped, Piece
    <2>2. CellsTyped(cells') /\ painted' \subseteq DOMAIN cells'
      <3> DEFINE colour == IF iAddFormat /\ coloured THEN Ahead(iColumnRepeated) ELSE {}
      <3>1. colour \in SUBSET Point
        <4>1. iColumnRepeated \in Nat
          BY DEF Inv, Typed, TypeOK
        <4> QED BY <4>1, Places
      <3> HIDE DEF colour
      <3>2. CellsTyped(AddCell(cells, colour)) /\ DOMAIN AddCell(cells, colour) = DOMAIN cells \union colour
        BY <2>1, <3>1, CellTypes
      <3>3. \/ cells' = AddCell(cells, colour) /\ painted' = painted \union colour
            \/ cells' = cells /\ painted' = painted
        BY <1>2 DEF colour
      <3> QED BY <2>1, <3>2, <3>3
    <2>3. DOMAIN written' \subseteq Point /\ colours' \subseteq Point
      BY <1>11, NotedInPlace
    <2>4. pieces' \in Seq(Piece)
      BY <1>1, EmptySeq
    <2> QED BY <1>1, <1>4, <2>2, <2>3, <2>4, CoveredBelow DEF Inv, Typed, TypeOK, CellsTyped, Piece
  <1>13. Reader'
    BY <1>1, <1>3 DEF Inv, Reader, Open
  <1>14. NotYet'
    BY <1>1, <1>3, <1>8, <1>10, NotedInPlace DEF Inv, NotYet
  <1>15. Cursor'
    <2> SUFFICES ASSUME Asked, ~ cut PROVE iPosition'.y = row /\ (OnCourse' \/ Lost')
      BY <1>1, <1>3 DEF Cursor
    <2>1. iPosition'.y = row
      BY <1>4 DEF Inv, Cursor
    <2>2. ASSUME OnCourse PROVE OnCourse'
      BY <1>1, <1>4, <2>2 DEF OnCourse
    <2>3. ASSUME Lost PROVE Lost'
      <3>1. PICK q \in spoilt : q.y = row /\ q.x <= iPosition.x /\ q.x <= column + announced
        BY <2>3 DEF Lost
      <3>2. /\ q.x \in Nat /\ iPosition.x \in Nat /\ iPosition'.x \in Nat
            /\ column + announced \in Nat /\ column' + announced' \in Nat
        <4>1. q \in Point /\ iPosition \in Point /\ iPosition' \in Point
          BY <1>4, <1>5 DEF Inv, Typed, TypeOK
        <4>2. column + announced \in Nat /\ column' + announced' \in Nat
          <5>1. column' \in Nat /\ announced' \in Nat /\ column \in Nat /\ announced \in Nat
            BY <1>4, <1>5
          <5>2. \A i, j \in Nat : i + j \in Nat
            OBVIOUS
          <5> QED BY <5>1, <5>2
        <4> QED BY <4>1, <4>2 DEF Point
      <3>3. q.x <= iPosition'.x /\ q.x <= column' + announced'
        BY <1>4, <1>6, <3>1, <3>2
      <3> QED BY <1>1, <3>1, <3>3 DEF Lost
    <2> QED BY <2>1, <2>2, <2>3 DEF Inv, Cursor
  <1>16. AllPast'
    <2> SUFFICES ASSUME Asked, NEW p \in DOMAIN written' \union colours'
                 PROVE  p.y < row \/ (p.y < nextRow /\ p.x < column')
      BY <1>1, <1>3 DEF AllPast, Past
    <2>1. p \in DOMAIN written \union colours \/ p \in Run(kind.repeated)
      BY NotedInPlace
    <2>2. CASE p \in DOMAIN written \union colours
      <3>1. p \in Point /\ (p.y < row \/ (p.y < nextRow /\ p.x < column))
        BY <1>11, <2>2 DEF Inv, AllPast, Past
      <3>2. p.x \in Nat
        BY <3>1 DEF Point
      <3>3. p.x < column => p.x < column'
        BY <1>4, <1>5, <3>2
      <3> QED BY <3>1, <3>3
    <2>3. CASE p \in Run(kind.repeated)
      BY <2>3, NotedInPlace
    <2> QED BY <2>1, <2>2, <2>3
  <1>17. AllAbove'
    BY <1>1, <1>3, <1>4, NotedInPlace DEF Inv, AllAbove
  <1>18. Rows'
    BY <1>1, <1>3 DEF Inv, Rows
  <1>19. ASSUME NEW p, p \in Run(kind.repeated), Asked, Sound(p) PROVE p \in Writing
    BY <1>19, NotedInPlace DEF Sound
  <1>20. Content'
    <2> SUFFICES ASSUME ~ cut, ~ astray PROVE Content'
      BY <1>1 DEF Content
    <2>1. ASSUME NEW p \in DOMAIN written', Sound(p) PROVE Faithful(Held(cells, p), written'[p])
      <3>1. CASE Asked /\ pieces # <<>> /\ p \in Run(kind.repeated)
        <4>1. p \in Writing /\ written'[p] = [text |-> pieces, first |-> First(p), last |-> Final(p)]
          BY <1>19, <2>1, <3>1, NotedInPlace
        <4>2. Stands(Held(cells, p), pieces, First(p), Final(p))
          BY <2>1, <4>1 DEF Inv, Content
        <4>3. First(p) \in BOOLEAN /\ Final(p) \in BOOLEAN
          BY DEF First, Final
        <4> QED BY <1>11, <3>1, <4>1, <4>2, <4>3, StandsFaithful
      <3>2. CASE ~ (Asked /\ pieces # <<>> /\ p \in Run(kind.repeated))
        <4>1. p \in DOMAIN written /\ written'[p] = written[p]
          BY <2>1, <3>2, NotedInPlace
        <4> QED BY <2>1, <4>1 DEF Inv, Content
      <3> QED BY <3>1, <3>2
    <2>2. \A p : Faithful(Held(cells, p), written[p])' <=> Faithful(Held(cells, p)', written'[p])
      BY DEF Faithful, OnlySpaces, IsText, FirstText
    <2> QED BY <1>3, <1>7, <2>1, <2>2 DEF Content
  <1>21. OnlyThose'
    <2> SUFFICES ASSUME ~ cut, ~ astray PROVE OnlyThose'
      BY <1>1 DEF OnlyThose
    <2>1. ASSUME iTable # NoTable \/ Len(iTables) <= 1, NEW p \in Filled, Sound(p)
          PROVE  p \in DOMAIN written'
      <3>1. p \in DOMAIN written \union Writing
        BY <2>1 DEF Inv, OnlyThose
      <3>2. CASE p \in DOMAIN written
        BY <3>2, NotedInPlace
      <3>3. CASE p \in Writing /\ pieces # <<>>
        <4>1. Asked
          BY <3>3 DEF Writing
        <4> QED BY <3>3, <4>1, NotedInPlace
      <3>4. CASE p \in Writing /\ pieces = <<>>
        <4>1. Stands(Held(cells, p), <<>>, First(p), Final(p))
          BY <2>1, <3>4 DEF Inv, Content
        <4>2. Held(cells, p) = <<>>
          BY <4>1, StandsNothing
        <4> QED BY <2>1, <4>2, FilledHeld
      <3> QED BY <3>1, <3>2, <3>3, <3>4
    <2>2. \A p \in Filled : p.y \notin again
      BY DEF Inv, OnlyThose
    <2> QED BY <1>1, <1>3, <1>8, <2>1, <2>2 DEF OnlyThose
  <1>22. Colour'
    <2> SUFFICES ASSUME ~ cut PROVE Colour'
      BY <1>1 DEF Colour
    <2>1. ASSUME NEW p \in colours' \intersect DOMAIN written', HasText(p)', Sound(p) PROVE p \in painted
      <3>1. CASE Asked /\ p \in Run(kind.repeated)
        <4>1. /\ kind.style = "coloured" /\ pieces # <<>> /\ p \in Writing
              /\ written'[p].text = pieces
          <5>1. p \notin DOMAIN written /\ p \notin colours /\ p \in Writing
            BY <1>19, <2>1, <3>1, NotedInPlace
          <5>2. kind.style = "coloured" /\ pieces # <<>>
            BY <2>1, <3>1, <5>1, NotedInPlace
          <5>3. written'[p] = [text |-> pieces, first |-> First(p), last |-> Final(p)]
            BY <3>1, <5>2, NotedInPlace
          <5> QED BY <5>1, <5>2, <5>3
        <4>2. Spoken
          BY <2>1, <4>1 DEF HasText, Spoken, Says, IsText
        <4> QED BY <2>1, <4>1, <4>2 DEF Inv, Colour
      <3>2. CASE ~ (Asked /\ p \in Run(kind.repeated))
        <4>1. p \in colours \intersect DOMAIN written /\ written'[p] = written[p]
          <5>1. CASE Asked /\ pieces # <<>>
            BY <2>1, <3>2, <5>1, NotedInPlace
          <5>2. CASE ~ (Asked /\ pieces # <<>>)
            BY <2>1, <3>2, <5>2, NotedInPlace
          <5> QED BY <5>1, <5>2
        <4>2. HasText(p)
          BY <2>1, <4>1 DEF HasText
        <4> QED BY <2>1, <4>1, <4>2 DEF Inv, Colour
      <3> QED BY <3>1, <3>2
    <2>2. kind'.style # "coloured"
      BY <1>1 DEF NoKind
    <2> QED BY <1>3, <1>9, <2>1, <2>2 DEF Colour
  <1>23. LastRow'
    <2> SUFFICES ASSUME ~ cut, ~ astray PROVE LastRow'
      BY <1>1, <1>3 DEF LastRow
    <2>1. /\ \A p \in DOMAIN written : p.y \notin again => p.y <= iCellEnd
          /\ (Asked /\ pieces # <<>>) => row <= iCellEnd
          /\ Named => \/ iCellEnd = 0
                      \/ \E p \in DOMAIN written \union spoilt : p.y = iCellEnd /\ p.y \notin again
                      \/ Asked /\ pieces # <<>> /\ iCellEnd = row
      BY <1>1 DEF Inv, LastRow
    <2>2. CASE Asked /\ pieces # <<>>
      <3>1. At(column, row) \in DOMAIN written' /\ At(column, row).y = row /\ row \notin again
        BY <2>2, NotedInPlace DEF At
      <3>2. ASSUME NEW p \in DOMAIN written', p.y \notin again PROVE p.y <= iCellEnd
        <4>1. p \in DOMAIN written \/ p \in Run(kind.repeated)
          BY <2>2, NotedInPlace
        <4>2. p \in Run(kind.repeated) => p.y = row
          BY <2>2, <3>2, NotedInPlace
        <4> QED BY <2>1, <2>2, <3>2, <4>1, <4>2
      <3>3. Named => \/ iCellEnd = 0
                     \/ \E p \in DOMAIN written' \union spoilt : p.y = iCellEnd /\ p.y \notin again
        <4>1. DOMAIN written \subseteq DOMAIN written'
          BY <2>2, NotedInPlace
        <4> QED BY <2>1, <2>2, <3>1, <4>1
      <3> QED BY <1>1, <1>3, <3>2, <3>3 DEF LastRow
    <2>3. CASE ~ (Asked /\ pieces # <<>>)
      <3>1. written' = written
        BY <2>3, NotedInPlace
      <3> QED BY <1>1, <1>3, <2>1, <2>3, <3>1 DEF LastRow
    <2> QED BY <2>2, <2>3
  <1> QED BY <1>12, <1>13, <1>14, <1>15, <1>16, <1>17, <1>18, <1>20, <1>21, <1>22, <1>23 DEF Inv

-----------------------------------------------------------------------------
(***************************************************************************)
(* The end of a row, repeated or not.                                      *)
(***************************************************************************)
LEMMA EndRowInv ==
  ASSUME Inv, EndRow
  PROVE  Inv'
  <1>1. /\ place = "row" /\ announced = 0 /\ place' = "table"
        /\ iPosition' = At(0, iPosition.y + iRowRepeated)
        /\ row' = nextRow /\ column' = 0 /\ nextRow' = 0 /\ iRowRepeated' = 1
        /\ UNCHANGED <<iTable, iCorrectTable, iColumnRepeated, iColumnSpanned, iAddFormat, iCellEnd>>
        /\ UNCHANGED <<iTables, coloured, cells, painted, kind, pieces, written, colours>>
        /\ UNCHANGED <<announced, hanging, again, spoilt, cut, astray>>
    BY DEF EndRow, cell
  <1>2. /\ Open /\ Open' /\ Inner /\ ~ Inner' /\ Asked' = Asked /\ Named' = Named /\ Begun' = Begun
        /\ Writing = {} /\ Writing' = {} /\ Filled' = Filled /\ Spoken' = Spoken
        /\ pieces = <<>> /\ \A p : Sound(p)' = Sound(p) /\ HasText(p)' = HasText(p)
    <2>1. Open /\ Open' /\ Inner /\ ~ Inner' /\ Asked' = Asked /\ Named' = Named /\ Begun' = Begun
      BY <1>1 DEF Open, Inner, Asked, AskedFor, Named, Begun
    <2>2. Writing = {} /\ Writing' = {} /\ Filled' = Filled /\ Spoken' = Spoken /\ pieces = <<>>
      BY <1>1 DEF Writing, Filled, Spoken, Inv, Reader
    <2>3. \A p : Sound(p)' = Sound(p) /\ HasText(p)' = HasText(p)
      BY <1>1 DEF Sound, HasText
    <2> QED BY <2>1, <2>2, <2>3
  <1>3. /\ iPosition.y \in Nat /\ iRowRepeated \in Nat \ {0} /\ row \in Nat /\ nextRow \in Nat
        /\ row < nextRow /\ (~ cut => nextRow = row + iRowRepeated)
    BY <1>1, <1>2 DEF Inv, Typed, TypeOK, Reader, Point
  <1>4. /\ iPosition' \in Point /\ iPosition'.x = 0 /\ iPosition'.y = iPosition.y + iRowRepeated
        /\ iPosition.y < iPosition'.y /\ iPosition'.y \in Nat
    BY <1>1, <1>3 DEF At, Point
  <1>5. \A p \in DOMAIN written \union colours \union spoilt : p.x \in Nat /\ p.y \in Nat
    BY DEF Inv, Typed, TypeOK, Point
  <1>6. again \subseteq Nat
    BY DEF Inv, Typed, TypeOK
  <1>7. Typed'
    BY <1>1, <1>3, <1>4 DEF Inv, Typed, TypeOK
  <1>8. Reader'
    BY <1>1, <1>2 DEF Inv, Reader, Open
  <1>9. NotYet'
    BY <1>1, <1>2 DEF Inv, NotYet, Reader, Begun
  <1>10. Cursor'
    <2>1. OnCourse'
      BY <1>1, <1>4 DEF OnCourse
    <2> QED BY <1>1, <1>2, <1>3, <1>4, <2>1 DEF Inv, Cursor
  <1>11. AllPast'
    <2> SUFFICES ASSUME Asked, NEW p \in DOMAIN written \union colours PROVE p.y < nextRow
      BY <1>1, <1>2 DEF AllPast, Past
    <2>1. p.y < row \/ p.y < nextRow
      BY DEF Inv, AllPast, Past
    <2> QED BY <1>3, <1>5, <2>1
  <1>12. AllAbove'
    <2> SUFFICES ASSUME iTable = NoTable, Begun, ~ Asked, ~ cut
                 PROVE  (\A p \in DOMAIN written : p.y < iPosition'.y) /\ (\A y \in again : y < iPosition'.y)
      BY <1>1, <1>2 DEF AllAbove
    <2>1. (\A p \in DOMAIN written : p.y < iPosition.y) /\ (\A y \in again : y < iPosition.y)
      BY DEF Inv, AllAbove
    <2>2. \A i, j, k \in Nat : i < j /\ j < k => i < k
      OBVIOUS
    <2> QED BY <1>3, <1>4, <1>5, <1>6, <2>1, <2>2
  <1>13. Rows'
    <2> SUFFICES ASSUME Asked
                 PROVE  (\A y \in again : y < nextRow) /\ (\A q \in spoilt : q.y <= nextRow)
      BY <1>1, <1>2 DEF Rows
    <2>1. \A y \in again : y < row \/ (row < y /\ y < nextRow)
      BY DEF Inv, Rows
    <2>2. \A q \in spoilt : q.y <= row
      BY DEF Inv, Rows
    <2>3. \A y \in again : y < nextRow
      BY <1>3, <1>6, <2>1
    <2>4. \A i \in Nat : i <= row => i <= nextRow
      BY <1>3
    <2> QED BY <1>5, <2>2, <2>3, <2>4
  <1>14. Content' /\ OnlyThose' /\ Colour'
    <2>1. \A p : Faithful(Held(cells, p), written[p])' <=> Faithful(Held(cells, p), written[p])
      BY <1>1 DEF Faithful, OnlySpaces, IsText, FirstText, Held
    <2> QED BY <1>1, <1>2, <2>1 DEF Inv, Content, OnlyThose, Colour
  <1>15. LastRow'
    BY <1>1, <1>2 DEF Inv, LastRow
  <1> QED BY <1>7, <1>8, <1>9, <1>10, <1>11, <1>12, <1>13, <1>14, <1>15 DEF Inv

(***************************************************************************)
(* The end of a table: all that was written is above the cursor.           *)
(***************************************************************************)
LEMMA EndTableInv ==
  ASSUME Inv, EndTable
  PROVE  Inv'
  <1>1. /\ place = "table" /\ place' = "document" /\ iCorrectTable' = FALSE /\ row' = 0
        /\ UNCHANGED <<iTable, iColumnRepeated, iColumnSpanned, iRowRepeated, iAddFormat>>
        /\ UNCHANGED <<iPosition, iCellEnd, iTables, coloured, cells, painted, kind, pieces>>
        /\ UNCHANGED <<column, nextRow, announced, hanging, written, colours>>
        /\ UNCHANGED <<again, spoilt, cut, astray>>
    BY DEF EndTable, document, cell
  <1>2. /\ Open /\ ~ Open' /\ ~ Inner /\ ~ Inner' /\ ~ Asked' /\ Named' = Named /\ Begun' = Begun
        /\ Writing = {} /\ Writing' = {} /\ Filled' = Filled /\ Spoken' = Spoken
        /\ pieces = <<>> /\ column = 0 /\ nextRow = 0
        /\ \A p : Sound(p)' = Sound(p) /\ HasText(p)' = HasText(p)
    <2>1. Open /\ ~ Open' /\ ~ Inner /\ ~ Inner' /\ ~ Asked' /\ Named' = Named /\ Begun' = Begun
      BY <1>1 DEF Open, Inner, Asked, Named, Begun
    <2>2. Writing = {} /\ Writing' = {} /\ Filled' = Filled /\ Spoken' = Spoken
      BY <1>1 DEF Writing, Filled, Spoken
    <2>3. pieces = <<>> /\ column = 0 /\ nextRow = 0
      BY <1>1, <2>1 DEF Inv, Reader
    <2>4. \A p : Sound(p)' = Sound(p) /\ HasText(p)' = HasText(p)
      BY <1>1 DEF Sound, HasText
    <2> QED BY <2>1, <2>2, <2>3, <2>4
  <1>3. Typed'
    BY <1>1 DEF Inv, Typed, TypeOK
  <1>4. Reader'
    BY <1>1, <1>2 DEF Inv, Reader
  <1>5. NotYet'
    BY <1>1, <1>2 DEF Inv, NotYet, Reader, Begun
  <1>6. Cursor' /\ AllPast' /\ Rows'
    BY <1>2 DEF Cursor, AllPast, Rows
  <1>7. AllAbove'
    <2> SUFFICES ASSUME iTable = NoTable, Begun, ~ cut
                 PROVE  (\A p \in DOMAIN written : p.y < iPosition.y) /\ (\A y \in again : y < iPosition.y)
      BY <1>1, <1>2 DEF AllAbove
    <2>1. CASE ~ Asked
      BY <2>1 DEF Inv, AllAbove
    <2>2. CASE Asked
      <3>1. /\ iPosition.y = row /\ row \in Nat /\ again \subseteq Nat
            /\ \A p \in DOMAIN written : p.y < row \/ (p.y < 0 /\ p.x < 0)
            /\ \A y \in again : y < row \/ (row < y /\ y < 0)
        BY <1>2, <2>2 DEF Inv, Cursor, AllPast, Past, Rows, Typed, TypeOK
      <3>2. \A p \in DOMAIN written : p.y \in Nat
        BY DEF Inv, Typed, Point
      <3>3. \A i \in Nat : ~ (i < 0)
        OBVIOUS
      <3> QED BY <3>1, <3>2, <3>3
    <2> QED BY <2>1, <2>2
  <1>8. Content' /\ OnlyThose' /\ Colour'
    <2>1. \A p : Faithful(Held(cells, p), written[p])' <=> Faithful(Held(cells, p), written[p])
      BY <1>1 DEF Faithful, OnlySpaces, IsText, FirstText, Held
    <2> QED BY <1>1, <1>2, <2>1 DEF Inv, Content, OnlyThose, Colour
  <1>9. LastRow'
    BY <1>1, <1>2 DEF Inv, LastRow
  <1> QED BY <1>3, <1>4, <1>5, <1>6, <1>7, <1>8, <1>9 DEF Inv

(***************************************************************************)
(* The end of the document, and steps of others, change nothing.           *)
(***************************************************************************)
Unread ==
  /\ (~ Open /\ place' \in {"idle", "document"}) \/ place' = place
  /\ UNCHANGED <<parser, document, cell, meant>>

\* An element outside the tables disturbs nothing.
LEMMA UnreadInv ==
  ASSUME Inv, Unread
  PROVE  Inv'
  <1>1. /\ UNCHANGED <<iTable, iCorrectTable, iColumnRepeated, iColumnSpanned, iRowRepeated, iAddFormat>>
        /\ UNCHANGED <<iPosition, iCellEnd, iTables, coloured, cells, painted, kind, pieces>>
        /\ UNCHANGED <<column, row, nextRow, announced, hanging>>
        /\ UNCHANGED <<written, colours, again, spoilt, cut, astray>>
    BY DEF Unread, parser, document, cell, meant, progress
  <1>2. /\ Open' = Open /\ Inner' = Inner /\ (place = "cell" <=> place' = "cell")
        /\ (place = "covered" <=> place' = "covered")
        /\ place' \in {"idle", "document", "table", "row", "cell", "covered"}
    BY DEF Unread, Open, Inner, Inv, Typed, TypeOK
  <1>3. /\ Asked' = Asked /\ Named' = Named /\ Begun' = Begun /\ Writing' = Writing
        /\ Filled' = Filled /\ Spoken' = Spoken
    BY <1>1, <1>2 DEF Asked, AskedFor, Named, Begun, Writing, Filled, Spoken
  <1>4. \A p : /\ Past(p)' = Past(p) /\ Sound(p)' = Sound(p) /\ HasText(p)' = HasText(p)
               /\ First(p)' = First(p) /\ Final(p)' = Final(p)
    BY <1>1 DEF Past, Sound, HasText, First, Final
  <1>5. Typed'
    BY <1>1, <1>2 DEF Inv, Typed, TypeOK
  <1>6. Reader'
    BY <1>1, <1>2 DEF Inv, Reader
  <1>7. NotYet' /\ AllPast' /\ AllAbove' /\ Rows'
    BY <1>1, <1>2, <1>3, <1>4 DEF Inv, NotYet, AllPast, AllAbove, Rows
  <1>8. Cursor'
    <2>1. OnCourse' = OnCourse /\ Lost' = Lost
      BY <1>1, <1>2, <1>3 DEF OnCourse, Lost
    <2> QED BY <1>1, <1>3, <2>1 DEF Inv, Cursor
  <1>9. Content'
    <2>1. \A p : /\ Faithful(Held(cells, p), written[p])' <=> Faithful(Held(cells, p), written[p])
                 /\ Stands(Held(cells, p), pieces, First(p), Final(p))'
                      <=> Stands(Held(cells, p), pieces, First(p), Final(p))
      BY <1>1 DEF Faithful, OnlySpaces, IsText, FirstText, Held, Stands, Says, First, Final
    <2> QED BY <1>1, <1>3, <1>4, <2>1 DEF Inv, Content
  <1>10. OnlyThose' /\ Colour' /\ LastRow'
    BY <1>1, <1>2, <1>3, <1>4 DEF Inv, OnlyThose, Colour, LastRow
  <1> QED BY <1>5, <1>6, <1>7, <1>8, <1>9, <1>10 DEF Inv

-----------------------------------------------------------------------------
(***************************************************************************)
(* Every step keeps the invariant.                                         *)
(***************************************************************************)
LEMMA NextInv ==
  ASSUME Inv, [Next]_vars
  PROVE  Inv'
  <1>1. CASE \E t \in Table \union {NoTable} : GetContentSheet(t)
    BY <1>1, GetContentSheetInv
  <1>2. CASE \E n \in Table : StartTable(n)
    BY <1>2, StartTableInv
  <1>3. CASE \E n \in RowRepeat : StartRow(n)
    BY <1>3, StartRowInv
  <1>4. CASE \E k \in CellKind : StartCell(k)
    BY <1>4, StartCellInv
  <1>5. CASE StartCovered
    BY <1>5, StartCoveredInv
  <1>6. CASE EndCovered
    BY <1>6, EndCoveredInv
  <1>7. CASE \E t \in Text : CharacterData(t)
    BY <1>7, CharacterDataInv
  <1>8. CASE \E inAnnotation \in BOOLEAN : WhiteSpace(inAnnotation)
    BY <1>8, WhiteSpaceInv
  <1>9. CASE EndCell
    BY <1>9, EndCellInv
  <1>10. CASE EndRow
    BY <1>10, EndRowInv
  <1>11. CASE EndTable
    BY <1>11, EndTableInv
  <1>12. CASE EndDocument
    <2>1. Unread
      BY <1>12 DEF EndDocument, Unread, Open
    <2> QED BY <2>1, UnreadInv
  <1>13. CASE UNCHANGED vars
    <2>1. Unread
      BY <1>13 DEF vars, Unread
    <2> QED BY <2>1, UnreadInv
  <1> QED BY <1>1, <1>2, <1>3, <1>4, <1>5, <1>6, <1>7, <1>8, <1>9, <1>10, <1>11, <1>12, <1>13
          DEF Next, Reading

(***************************************************************************)
(* The invariant says that the sheet is shown as written.                  *)
(***************************************************************************)
LEMMA InvShows == Inv => SheetAsWritten
  <1> SUFFICES ASSUME Inv PROVE SheetAsWritten
    OBVIOUS
  <1>1. TypeOK
    BY DEF Inv, Typed
  <1>2. CellsInTheirPlace
    <2> SUFFICES ASSUME place \notin {"cell", "covered"}, ~ cut, ~ astray
                 PROVE  /\ \A p \in DOMAIN written : Sound(p) => Faithful(Held(cells, p), written[p])
                        /\ \A p \in Filled : p.y \notin again
                        /\ iTable # NoTable => \A p \in Filled : Sound(p) => p \in DOMAIN written
      BY DEF CellsInTheirPlace
    <2>1. Writing = {}
      BY DEF Writing
    <2> QED BY <2>1 DEF Inv, Content, OnlyThose
  <1>3. CellEndIsTheLastRow
    <2>1. place = "idle" => ~ Asked
      BY DEF Asked, Open
    <2> QED BY <2>1 DEF Inv, LastRow, CellEndIsTheLastRow
  <1> QED BY <1>1, <1>2, <1>3 DEF SheetAsWritten

(***************************************************************************)
(* The cells of the table asked for are where the document has them, for   *)
(* documents of every size and every sequence of readings, with covered    *)
(* cells, rows and columns spanned or repeated and texts in pieces, and    *)
(* CellEnd is the last row with text (CTableXML, COpenDocument).           *)
(***************************************************************************)
THEOREM SheetCorrect == Spec => []SheetAsWritten
  <1>1. Inv /\ [Next]_vars => Inv'
    BY NextInv
  <1> QED BY <1>1, InitInv, InvShows, PTL DEF Spec

(***************************************************************************)
(* A text that is given a colour is shown in it, at every repetition of    *)
(* its cell (CTableXML::characterData and endElement).                     *)
(***************************************************************************)
THEOREM ColourCorrect == Spec => []TextKeepsItsColour
  <1>1. Inv /\ [Next]_vars => Inv'
    BY NextInv
  <1>2. Inv => TextKeepsItsColour
    BY DEF Inv, Colour, TextKeepsItsColour
  <1> QED BY <1>1, <1>2, InitInv, PTL DEF Spec
=============================================================================
