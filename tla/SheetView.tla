----------------------------- MODULE SheetView -----------------------------
(***************************************************************************)
(* CSheetView with the sizes of CSheetData and the geometry of             *)
(* CSheetDrawer (sheetcontrol/src): which cell is current, which is drawn  *)
(* at the top left, how large rows and columns are and at what zoom.  The  *)
(* two dimensions are treated alike: x are columns and widths, y are rows  *)
(* and heights.                                                            *)
(***************************************************************************)
EXTENDS Integers, FiniteSets

CONSTANTS
  Zoom,        \* the values of EZoomMode
  Divident,    \* a function: m_nZoomDivident for each zoom
  Divisor,     \* m_nZoomDivisor, the value of enZoomSmall
  Small,       \* the initial zoom
  Rect,        \* the extents of the control: portrait, landscape, full screen
  Room,        \* Room[r][z]: the pixels of m_pSheetWnd in extent r at zoom z
  MinSize, MaxSize,   \* m_MinCellSize and m_MaxCellSize
  NormalSize,  \* the sizes CSheetData::ConstructL takes from the font
  Step,        \* m_nCellAjustmentStepInPixels
  LastColumn,  \* the greatest column IsPositionInGoodRange accepts
  ResetSize,   \* sizes callers give ResetCellSizeL
  Pixel,       \* where a pointer may touch the window
  Target,      \* cells a caller may ask for: answers of a search, Start, End
  MaxColumn, MaxRow   \* bounds: no cell beyond them is moved to or touched

Axis  == {"x", "y"}
Point == [x : Nat, y : Nat]
Unit(a) == [x |-> IF a = "x" THEN 1 ELSE 0, y |-> IF a = "y" THEN 1 ELSE 0]
Plus(p, q)  == [x |-> p.x + q.x, y |-> p.y + q.y]
Minus(p, q) == [x |-> p.x - q.x, y |-> p.y - q.y]

ASSUME ZoomAssumption ==
  /\ Small \in Zoom
  /\ Divisor \in Nat \ {0}
  /\ Divident \in [Zoom -> Nat]
  /\ Divident[Small] = Divisor
  \* No mode is smaller than enZoomSmall, none twice as large.
  /\ \A z \in Zoom : Divident[z] \in Divisor .. 2 * Divisor - 1
ASSUME RoomAssumption == Room \in [Rect -> [Zoom -> Point]]
ASSUME SizeAssumption ==
  /\ MinSize \in Point /\ MaxSize \in Point /\ NormalSize \in Point
  /\ ResetSize \subseteq Point
  /\ Step \in Nat /\ Step >= 2   \* a step of one pixel is lost in the larger modes
ASSUME PlaceAssumption ==
  /\ Pixel \subseteq Point
  /\ Target \subseteq Point
  /\ LastColumn \in Nat /\ MaxColumn \in Nat /\ MaxRow \in Nat

VARIABLES
  m_Current,              \* the current cell
  m_TopLeft,              \* the cell in the corner of m_pSheetWnd
  m_lCellAjustmentMode,   \* the arrows resize the current cell
  m_enZoomMode,
  own,        \* m_pColumnSizes (x), m_pRowSizes (y): sizes of their own, not zoomed
  normal,     \* m_ColumnHeaderSize.iWidth (x), m_RowHeaderSize.iHeight (y)
  rect,       \* the extent of the control
  resized     \* history: the window changed size and nothing scrolled since

place == <<m_Current, m_TopLeft>>
sizes == <<own, normal>>
vars  == <<place, m_lCellAjustmentMode, m_enZoomMode, sizes, rect, resized>>

-----------------------------------------------------------------------------
(***************************************************************************)
(* Zooming.  A size is kept unzoomed; what is shown is rounded up, what is *)
(* set is rounded down.                                                    *)
(***************************************************************************)
\* Mutant: the shown size is rounded down as well, as it once was.
ShownTruncated(size, z) == (size * Divident[z]) \div Divisor

Shown(size, z) ==
  (size * Divident[z]) \div Divisor + IF (size * Divident[z]) % Divisor = 0 THEN 0 ELSE 1

Unzoomed(pixels, z) == (pixels * Divisor) \div Divident[z]

BaseSize(o, n, a, i) == IF i \in DOMAIN o[a] THEN o[a][i] ELSE n[a]

\* ColumnHeaderWidthL (a = "x") and RowHeaderHeightL (a = "y").
SizeOf(o, n, a, i, z) == Shown(BaseSize(o, n, a, i), z)

\* CellAjustmentLimits.
Limit(size, z) == (size * Divident[z]) \div Divisor

(***************************************************************************)
(* Ends[k]: pixels from the corner to the far end of the k first columns   *)
(* (rows) behind "first", a grid line for each.                            *)
(***************************************************************************)
Ends(o, n, a, first, z) ==
  LET end[k \in Nat] == IF k = 0 THEN 0 ELSE end[k - 1] + SizeOf(o, n, a, first + k - 1, z) + 1
  IN end

\* NumberOfCellsThatFitInRectL: those that end inside the window.
Fit(o, n, a, first, r, z) ==
  LET end == Ends(o, n, a, first, z)
  IN Cardinality({k \in 1 .. Room[r][z][a] : end[k] < Room[r][z][a]})

FitHere(a) == Fit(own, normal, a, m_TopLeft[a], rect, m_enZoomMode)

\* Mutant: the loop of CellbyPositionL ends one cell too far.
CellOnePast(a, pixel) ==
  LET end == Ends(own, normal, a, m_TopLeft[a], m_enZoomMode)
  IN m_TopLeft[a] + Cardinality({k \in 0 .. pixel : 1 + end[k] <= pixel})

\* CellbyPositionL.  On the grid line at pixel 0: the cell before the corner.
CellbyPosition(a, pixel) ==
  LET end == Ends(own, normal, a, m_TopLeft[a], m_enZoomMode)
  IN m_TopLeft[a] - 1 + Cardinality({k \in 0 .. pixel : 1 + end[k] <= pixel})

-----------------------------------------------------------------------------
Nothing == [i \in {} |-> i]

Init ==
  /\ m_Current = [x |-> 0, y |-> 0]
  /\ m_TopLeft = m_Current
  /\ m_lCellAjustmentMode = FALSE
  /\ m_enZoomMode = Small
  /\ own = [x |-> Nothing, y |-> Nothing]
  /\ normal = NormalSize
  /\ rect \in Rect
  /\ resized = FALSE

(***************************************************************************)
(* ScrollToMakeCellVisibleL( m_Current ), with the number of cells that    *)
(* fit counted from the corner as it stands before the scrolling.          *)
(***************************************************************************)
\* Mutant: the corner goes one cell too far.
ScrolledPast(top, at, n) ==
  IF at < top THEN at ELSE IF at > top + n THEN at - n + 1 ELSE top

Scrolled(top, at, n) ==
  IF at < top THEN at
  ELSE IF at > top + n THEN at - n + (IF n > 1 THEN 1 ELSE 0)
  ELSE top

ScrollToCurrent(o, n, z) ==
  m_TopLeft' = [x |-> Scrolled(m_TopLeft.x, m_Current.x, Fit(o, n, "x", m_TopLeft.x, rect, z)),
                y |-> Scrolled(m_TopLeft.y, m_Current.y, Fit(o, n, "y", m_TopLeft.y, rect, z))]

\* The window is laid out for the new zoom before it scrolls.
SetZoomModeL(z) ==
  /\ z # m_enZoomMode
  /\ m_enZoomMode' = z
  /\ ScrollToCurrent(own, normal, z)
  /\ resized' = FALSE
  /\ UNCHANGED <<m_Current, m_lCellAjustmentMode, sizes, rect>>

ResetCellSizeL(size) ==
  /\ \A a \in Axis : size[a] \in Limit(MinSize[a], m_enZoomMode) .. Limit(MaxSize[a], m_enZoomMode)
  /\ own' = [x |-> Nothing, y |-> Nothing]
  /\ normal' = [x |-> Unzoomed(size.x, m_enZoomMode), y |-> Unzoomed(size.y, m_enZoomMode)]
  /\ ScrollToCurrent(own', normal', m_enZoomMode)
  /\ resized' = FALSE
  /\ UNCHANGED <<m_Current, m_lCellAjustmentMode, m_enZoomMode, rect>>

(***************************************************************************)
(* HandleResourceChange: the sheet scrolls first, then its parent gives it *)
(* the new extent.  Toggling full screen only gives it the new extent.     *)
(***************************************************************************)
SwitchLayout(r) ==
  /\ ScrollToCurrent(own, normal, m_enZoomMode)
  /\ rect' = r
  /\ resized' = (r # rect)
  /\ UNCHANGED <<m_Current, m_lCellAjustmentMode, m_enZoomMode, sizes>>

SetRect(r) ==
  /\ rect' = r
  /\ resized' = (resized \/ r # rect)
  /\ UNCHANGED <<place, m_lCellAjustmentMode, m_enZoomMode, sizes>>

-----------------------------------------------------------------------------
(***************************************************************************)
(* HandleCellAjustmentEventL: the size shown grows or shrinks by a step in *)
(* one dimension; both are written back.  The newest entry of a row or     *)
(* column is the one found again.                                          *)
(***************************************************************************)
Override(f, i, v) == [j \in DOMAIN f \union {i} |-> IF j = i THEN v ELSE f[j]]

MayAdjust(shown, a, d) ==
  IF d = 1 THEN shown + Step <= Limit(MaxSize[a], m_enZoomMode)
  ELSE shown - Step >= Limit(MinSize[a], m_enZoomMode)

Adjusted(o, a, d) ==
  LET shown == [b \in Axis |-> SizeOf(o, normal, b, m_Current[b], m_enZoomMode)]
      set(b) == Override(o[b], m_Current[b],
                         Unzoomed(shown[b] + (IF b = a THEN d * Step ELSE 0), m_enZoomMode))
  IN IF d # 0 /\ MayAdjust(shown[a], a, d) THEN [x |-> set("x"), y |-> set("y")] ELSE o

AdjustCell(a, d) ==
  /\ m_lCellAjustmentMode
  /\ own' = Adjusted(own, a, d)
  /\ UNCHANGED <<place, m_lCellAjustmentMode, m_enZoomMode, normal, rect, resized>>

\* A drag adjusts the width, then the height, and ends the mode.
Drag(dx, dy) ==
  /\ own' = Adjusted(Adjusted(own, "x", dx), "y", dy)
  /\ m_lCellAjustmentMode' = FALSE
  /\ UNCHANGED <<place, m_enZoomMode, normal, rect, resized>>

\* The menu begins the mode, Enter ends it.
SetCellAjustmentMode(mode) ==
  /\ m_lCellAjustmentMode' = mode
  /\ UNCHANGED <<place, m_enZoomMode, sizes, rect, resized>>

-----------------------------------------------------------------------------
Within(p) == p.x <= MaxColumn /\ p.y <= MaxRow

IsPositionInGoodRange(p) == p.x <= LastColumn /\ p.y >= 0

\* Move( enMoveUp ) and Move( enMoveLeft ).
MoveBack(a) ==
  /\ ~ m_lCellAjustmentMode
  /\ m_Current[a] > 0
  /\ m_Current' = Minus(m_Current, Unit(a))
  /\ m_TopLeft' = IF m_Current[a] - 1 < m_TopLeft[a] THEN Minus(m_TopLeft, Unit(a)) ELSE m_TopLeft
  /\ UNCHANGED <<m_lCellAjustmentMode, m_enZoomMode, sizes, rect, resized>>

\* Move( enMoveDown ) and Move( enMoveRight ).
MoveOn(a) ==
  /\ ~ m_lCellAjustmentMode
  /\ IsPositionInGoodRange(Plus(m_Current, Unit(a)))
  /\ Within(Plus(m_Current, Unit(a)))
  /\ m_Current' = Plus(m_Current, Unit(a))
  /\ m_TopLeft' = IF m_Current[a] + 1 - m_TopLeft[a] > FitHere(a) - 1
                  THEN Plus(m_TopLeft, Unit(a)) ELSE m_TopLeft
  /\ UNCHANGED <<m_lCellAjustmentMode, m_enZoomMode, sizes, rect, resized>>

(***************************************************************************)
(* SetCurrentCell leaves on a negative position.  A cell outside the       *)
(* window becomes its corner.  Inside, the old cell is drawn first, which  *)
(* leaves when it lies before the corner (CellPositionL).                  *)
(***************************************************************************)
InWindow(p) == \A a \in Axis : p[a] \in m_TopLeft[a] .. m_TopLeft[a] + FitHere(a)

SetCurrentCell(p) ==
  /\ p.x >= 0 /\ p.y >= 0
  /\ IF InWindow(p)
     THEN /\ \A a \in Axis : m_Current[a] >= m_TopLeft[a]
          /\ UNCHANGED m_TopLeft
     ELSE m_TopLeft' = p
  /\ m_Current' = p
  /\ resized' = FALSE
  /\ UNCHANGED <<m_lCellAjustmentMode, m_enZoomMode, sizes, rect>>

\* The pointer goes down in the window.
Tap(pixel) ==
  /\ pixel.x < Room[rect][m_enZoomMode].x /\ pixel.y < Room[rect][m_enZoomMode].y
  /\ LET p == [x |-> CellbyPosition("x", pixel.x), y |-> CellbyPosition("y", pixel.y)]
     IN Within(p) /\ SetCurrentCell(p)

Next ==
  \/ \E z \in Zoom : SetZoomModeL(z)
  \/ \E size \in ResetSize : ResetCellSizeL(size)
  \/ \E r \in Rect : SwitchLayout(r)
  \/ \E r \in Rect : SetRect(r)
  \/ \E a \in Axis, d \in {-1, 1} : AdjustCell(a, d)
  \/ \E dx \in {-1, 0, 1}, dy \in {-1, 0, 1} : Drag(dx, dy)
  \/ \E mode \in BOOLEAN : SetCellAjustmentMode(mode)
  \/ \E a \in Axis : MoveBack(a)
  \/ \E a \in Axis : MoveOn(a)
  \/ \E p \in Target : SetCurrentCell(p)
  \/ \E pixel \in Pixel : Tap(pixel)

Spec == Init /\ [][Next]_vars

-----------------------------------------------------------------------------
(***************************************************************************)
(* Types of the state.                                                     *)
(***************************************************************************)
TypeOK ==
  /\ m_Current \in Point /\ m_TopLeft \in Point
  /\ m_lCellAjustmentMode \in BOOLEAN
  /\ m_enZoomMode \in Zoom
  /\ DOMAIN own = Axis
  /\ \A a \in Axis : \A i \in DOMAIN own[a] : i \in Nat /\ own[a][i] \in Nat
  /\ normal \in Point
  /\ rect \in Rect
  /\ resized \in BOOLEAN

(***************************************************************************)
(* The current cell never lies before the corner of the window.            *)
(* CSheetDrawer::CellPositionL leaves for such a cell, and SetCurrentCell, *)
(* which draws the old cell first, would then refuse every cell in sight.  *)
(***************************************************************************)
CornerNotPastCurrent == \A a \in Axis : m_TopLeft[a] <= m_Current[a]

(***************************************************************************)
(* Adjusting at one zoom and then at another never drives a size out of    *)
(* the limits by more than the pixel lost in unzooming, while the common   *)
(* size keeps to them (AdjustCellSizeL compares zoomed sizes with zoomed   *)
(* limits).                                                                *)
(***************************************************************************)
KeptSizes(a) == MinSize[a] - 1 .. MaxSize[a]

SizesWithinLimits ==
  \A a \in Axis :
    normal[a] \in KeptSizes(a) => \A i \in DOMAIN own[a] : own[a][i] \in KeptSizes(a)

(***************************************************************************)
(* The window never begins behind the current cell, and the sizes of rows  *)
(* and columns keep to their limits.                                       *)
(***************************************************************************)
WellLaidOut == TypeOK /\ CornerNotPastCurrent /\ SizesWithinLimits

(***************************************************************************)
(* While no row or column has a size of its own, the current cell is in    *)
(* the window, through every mixture of zooms, resets, moves and jumps; a  *)
(* change of the window's extent may hide it until the next scroll.        *)
(***************************************************************************)
Even == \A a \in Axis : DOMAIN own[a] = {}

CurrentInSight == (Even /\ ~ resized) => InWindow(m_Current)

(***************************************************************************)
(* After one adjustment that the limits admit the current cell is shown in *)
(* the size asked for, a step more or less in one dimension, and in the    *)
(* other dimension as before.  At the small zoom that is exact; at the     *)
(* larger ones it may be one pixel short, so that growing adds a step or a *)
(* pixel less and shrinking takes a step or a pixel MORE: the size is      *)
(* rounded down when it is kept and up when it is shown.                   *)
(* "Cell/Row resizing works only in normal mode, not when it is zoomed to  *)
(* medium or large, e.g. pressing the right arrow makes the height smaller *)
(* or nothing happens" is the bug report quoted in sheet_data.cpp.         *)
(***************************************************************************)
ShownOf(o, a) == SizeOf(o, normal, a, m_Current[a], m_enZoomMode)

Rounded(asked) == {asked} \union (IF m_enZoomMode = Small THEN {} ELSE {asked - 1})

AdjustsAsAsked ==
  [][\A a \in Axis, d \in {-1, 1} :
       (AdjustCell(a, d) /\ MayAdjust(ShownOf(own, a), a, d))
         => /\ ShownOf(own', a) \in Rounded(ShownOf(own, a) + d * Step)
            /\ \A b \in Axis \ {a} : ShownOf(own', b) = ShownOf(own, b)]_vars

(***************************************************************************)
(* A touch inside the window, off the grid line at its edge, chooses a     *)
(* cell that is in sight: the two loops of CSheetDrawer that walk the      *)
(* window agree, and the sheet does not scroll under the finger.           *)
(***************************************************************************)
TouchDoesNotScroll ==
  [][m_TopLeft' # m_TopLeft
       => \A pixel \in Pixel : (pixel.x > 0 /\ pixel.y > 0) => ~ Tap(pixel)]_vars

(***************************************************************************)
(* "set new top left cell to show current cell", sheet_view.cpp says of    *)
(* the scroll at the end of SetZoomModeL.                                  *)
(***************************************************************************)
ZoomShowsCurrent == [][(\E z \in Zoom : SetZoomModeL(z)) => InWindow(m_Current)']_vars
=============================================================================
