--------------------------- MODULE SheetViewProof ---------------------------
(***************************************************************************)
(* SheetView for every screen, every zoom that does not shrink and every   *)
(* choice of limits: the types, that the current cell never lies before    *)
(* the corner of the window, that sizes keep to their limits and change as *)
(* asked, that a touch does not scroll, and that over cells of one size    *)
(* the current cell is in sight.                                           *)
(***************************************************************************)
EXTENDS SheetView, FiniteSetTheorems, WellFoundedInduction, TLAPS

(***************************************************************************)
(* Integer division of naturals gives a natural.                           *)
(***************************************************************************)
LEMMA DivType ==
  ASSUME NEW m \in Nat, NEW n \in Nat \ {0}
  PROVE  m \div n \in Nat
  OBVIOUS

(***************************************************************************)
(* A product of naturals is a natural.                                     *)
(***************************************************************************)
LEMMA ProductType ==
  ASSUME NEW m \in Nat, NEW n \in Nat
  PROVE  m * n \in Nat
  OBVIOUS

(***************************************************************************)
(* The three conversions between kept and shown sizes give naturals.       *)
(***************************************************************************)
LEMMA ZoomType ==
  ASSUME NEW z \in Zoom
  PROVE  Divident[z] \in Nat \ {0} /\ Divisor \in Nat \ {0}
  BY ZoomAssumption

(***************************************************************************)
(* The size drawn at a zoom (CSheetData::CellSize) is a natural.           *)
(***************************************************************************)
LEMMA ShownType ==
  ASSUME NEW z \in Zoom, NEW s \in Nat
  PROVE  Shown(s, z) \in Nat
  <1>1. s * Divident[z] \in Nat
    BY ProductType, ZoomType
  <1>2. (s * Divident[z]) \div Divisor \in Nat
    BY <1>1, DivType, ZoomType
  <1> QED BY <1>2 DEF Shown

(***************************************************************************)
(* A limit of the sizes, zoomed as AdjustCellSizeL zooms it, is a natural. *)
(***************************************************************************)
LEMMA LimitType ==
  ASSUME NEW z \in Zoom, NEW s \in Nat
  PROVE  Limit(s, z) \in Nat
  BY ProductType, DivType, ZoomType DEF Limit

(***************************************************************************)
(* The size kept for a size drawn (the way back in SetCellSizeL) is a      *)
(* natural.                                                                *)
(***************************************************************************)
LEMMA UnzoomedType ==
  ASSUME NEW z \in Zoom, NEW s \in Nat
  PROVE  Unzoomed(s, z) \in Nat
  BY ProductType, DivType, ZoomType DEF Unzoomed

(***************************************************************************)
(* The number of cells that fit is a natural, whatever their sizes: that   *)
(* is all the scrolling needs to know of it.                               *)
(***************************************************************************)
LEMMA FitType ==
  ASSUME NEW o, NEW n, NEW a \in Axis, NEW f, NEW r \in Rect, NEW z \in Zoom
  PROVE  Fit(o, n, a, f, r, z) \in Nat
  <1> DEFINE w == Room[r][z][a]
             S == {k \in 1 .. w : Ends(o, n, a, f, z)[k] < w}
  <1>1. w \in Nat
    BY RoomAssumption DEF Axis, Point
  <1>2. IsFiniteSet(1 .. w)
    BY <1>1, FS_Interval
  <1>3. IsFiniteSet(S)
    BY <1>2, FS_Subset
  <1>4. Cardinality(S) \in Nat
    BY <1>3, FS_CardinalityType
  <1> QED BY <1>4 DEF Fit

(***************************************************************************)
(* The cell under a pixel has an integer coordinate: possibly one before   *)
(* the corner, never something else.                                       *)
(***************************************************************************)
LEMMA TouchedType ==
  ASSUME NEW a \in Axis, NEW pixel \in Nat, m_TopLeft \in Point
  PROVE  CellbyPosition(a, pixel) \in Int
  <1> DEFINE S == {k \in 0 .. pixel : 1 + Ends(own, normal, a, m_TopLeft[a], m_enZoomMode)[k] <= pixel}
  <1>1. IsFiniteSet(0 .. pixel)
    BY FS_Interval
  <1>2. IsFiniteSet(S)
    BY <1>1, FS_Subset
  <1>3. Cardinality(S) \in Nat
    BY <1>2, FS_CardinalityType
  <1>4. m_TopLeft[a] \in Nat
    BY DEF Axis, Point
  <1> HIDE DEF S
  <1>5. m_TopLeft[a] - 1 + Cardinality(S) \in Int
    BY <1>3, <1>4
  <1> QED BY <1>5 DEF CellbyPosition, S

(***************************************************************************)
(* Scrolling never carries the corner past the cell it is to show.         *)
(***************************************************************************)
LEMMA ScrolledBefore ==
  ASSUME NEW top \in Nat, NEW at \in Nat, NEW n \in Nat, top <= at
  PROVE  Scrolled(top, at, n) \in Nat /\ Scrolled(top, at, n) <= at
  BY DEF Scrolled

-----------------------------------------------------------------------------
(***************************************************************************)
(* The inductive invariant: with the types, the corner at or before the    *)
(* current cell.  The types alone are not inductive: it is the order of    *)
(* the two cells that keeps the corner from going below zero when both     *)
(* move back.                                                              *)
(***************************************************************************)
IInv == TypeOK /\ CornerNotPastCurrent

(***************************************************************************)
(* The view as ConstructL leaves it satisfies the invariant: both cells    *)
(* are the first one and no row or column has a size of its own.           *)
(***************************************************************************)
LEMMA InitIInv == Init => IInv
  <1> SUFFICES ASSUME Init PROVE IInv
    OBVIOUS
  <1>1. DOMAIN Nothing = {}
    BY DEF Nothing
  <1> HIDE DEF Nothing
  <1>2. DOMAIN own = Axis
    BY DEF Init, Axis
  <1>3. own["x"] = Nothing /\ own["y"] = Nothing
    BY DEF Init
  <1>4. \A a \in Axis : \A i \in DOMAIN own[a] : i \in Nat /\ own[a][i] \in Nat
    BY <1>1, <1>3 DEF Axis
  <1>5. m_Current \in Point /\ m_TopLeft = m_Current
    BY DEF Init, Point
  <1>6. CornerNotPastCurrent
    BY <1>5 DEF CornerNotPastCurrent, Point, Axis
  <1> QED BY <1>2, <1>4, <1>5, <1>6, ZoomAssumption, SizeAssumption DEF Init, IInv, TypeOK

(***************************************************************************)
(* A scroll to the current cell, whatever sizes it counts with.            *)
(***************************************************************************)
LEMMA ScrollIInv ==
  ASSUME IInv, NEW o, NEW n, NEW z \in Zoom, ScrollToCurrent(o, n, z), m_Current' = m_Current
  PROVE  m_TopLeft' \in Point /\ CornerNotPastCurrent'
  <1> DEFINE X == Scrolled(m_TopLeft.x, m_Current.x, Fit(o, n, "x", m_TopLeft.x, rect, z))
             Y == Scrolled(m_TopLeft.y, m_Current.y, Fit(o, n, "y", m_TopLeft.y, rect, z))
  <1>1. /\ m_TopLeft.x \in Nat /\ m_Current.x \in Nat /\ m_TopLeft.x <= m_Current.x
        /\ m_TopLeft.y \in Nat /\ m_Current.y \in Nat /\ m_TopLeft.y <= m_Current.y
    BY DEF IInv, TypeOK, CornerNotPastCurrent, Point, Axis
  <1>2. rect \in Rect
    BY DEF IInv, TypeOK
  <1>3. X \in Nat /\ X <= m_Current.x
    BY <1>1, <1>2, FitType, ScrolledBefore DEF Axis
  <1>4. Y \in Nat /\ Y <= m_Current.y
    BY <1>1, <1>2, FitType, ScrolledBefore DEF Axis
  <1>5. m_TopLeft' = [x |-> X, y |-> Y]
    BY DEF ScrollToCurrent
  <1> HIDE DEF X, Y
  <1> QED BY <1>3, <1>4, <1>5 DEF CornerNotPastCurrent, Point, Axis

(***************************************************************************)
(* The tables of sizes: per axis, the sizes of the rows or columns that    *)
(* have one of their own.                                                  *)
(***************************************************************************)
SizeTables(o) ==
  DOMAIN o = Axis /\ \A a \in Axis : \A i \in DOMAIN o[a] : i \in Nat /\ o[a][i] \in Nat

(***************************************************************************)
(* An adjustment keeps the tables of sizes what they are.                  *)
(***************************************************************************)
LEMMA AdjustedType ==
  ASSUME IInv, NEW o, SizeTables(o), NEW a \in Axis, NEW d \in {-1, 0, 1}
  PROVE  SizeTables(Adjusted(o, a, d))
  <1> DEFINE z == m_enZoomMode
             shown == [b \in Axis |-> SizeOf(o, normal, b, m_Current[b], z)]
             step(b) == IF b = a THEN d * Step ELSE 0
             new(b) == Unzoomed(shown[b] + step(b), z)
             set(b) == Override(o[b], m_Current[b], new(b))
  <1>1. z \in Zoom /\ \A b \in Axis : normal[b] \in Nat /\ m_Current[b] \in Nat
    BY DEF IInv, TypeOK, Point, Axis
  <1>2. CASE ~ (d # 0 /\ MayAdjust(shown[a], a, d))
    BY <1>2 DEF Adjusted
  <1>3. CASE d # 0 /\ MayAdjust(shown[a], a, d)
    <2>1. \A b \in Axis : BaseSize(o, normal, b, m_Current[b]) \in Nat
      BY <1>1 DEF BaseSize, SizeTables
    <2>2. \A b \in Axis : shown[b] \in Nat
      BY <1>1, <2>1, ShownType DEF SizeOf
    <2>3. Limit(MinSize[a], z) \in Nat
      BY <1>1, LimitType, SizeAssumption DEF Point, Axis
    <2> HIDE DEF shown, z
    <2>4. shown[a] + d * Step \in Nat
      BY <1>3, <2>2, <2>3, SizeAssumption DEF MayAdjust, z
    <2>5. \A b \in Axis : shown[b] + step(b) \in Nat
      BY <2>2, <2>4
    <2>6. \A b \in Axis : new(b) \in Nat
      BY <1>1, <2>5, UnzoomedType
    <2> HIDE DEF new
    <2>7. \A b \in Axis : \A i \in DOMAIN set(b) : i \in Nat /\ set(b)[i] \in Nat
      BY <1>1, <2>6 DEF Override, SizeTables
    <2>8. Adjusted(o, a, d) = [x |-> set("x"), y |-> set("y")]
      BY <1>3 DEF Adjusted, new, shown, z
    <2> HIDE DEF set
    <2> QED BY <2>7, <2>8 DEF SizeTables, Axis
  <1> QED BY <1>2, <1>3

-----------------------------------------------------------------------------
(***************************************************************************)
(* The steps that move neither cell keep their order.                      *)
(***************************************************************************)
LEMMA AdjustIInv ==
  ASSUME IInv, UNCHANGED <<place, m_enZoomMode, normal, rect, resized>>,
         SizeTables(own'), m_lCellAjustmentMode' \in BOOLEAN
  PROVE  IInv'
  BY DEF IInv, TypeOK, CornerNotPastCurrent, SizeTables, place

(***************************************************************************)
(* A move carries both cells at most one step, the corner back only when   *)
(* the current cell stands on it.                                          *)
(***************************************************************************)
LEMMA MoveIInv ==
  ASSUME IInv, NEW a \in Axis, MoveBack(a) \/ MoveOn(a)
  PROVE  IInv'
  <1>1. /\ m_Current.x \in Nat /\ m_Current.y \in Nat
        /\ m_TopLeft.x \in Nat /\ m_TopLeft.y \in Nat
        /\ m_TopLeft.x <= m_Current.x /\ m_TopLeft.y <= m_Current.y
        /\ m_Current \in Point /\ m_TopLeft \in Point
    BY DEF IInv, TypeOK, CornerNotPastCurrent, Point, Axis
  <1>2. /\ m_Current' \in Point /\ m_TopLeft' \in Point
        /\ m_TopLeft'.x <= m_Current'.x /\ m_TopLeft'.y <= m_Current'.y
    <2>1. CASE MoveBack(a)
      <3>1. CASE a = "x"
        BY <1>1, <2>1, <3>1 DEF MoveBack, Minus, Unit, Point
      <3>2. CASE a = "y"
        BY <1>1, <2>1, <3>2 DEF MoveBack, Minus, Unit, Point
      <3> QED BY <3>1, <3>2 DEF Axis
    <2>2. CASE MoveOn(a)
      <3>1. CASE a = "x"
        <4>1. /\ m_Current' = [x |-> m_Current.x + 1, y |-> m_Current.y]
              /\ m_TopLeft' \in {m_TopLeft, [x |-> m_TopLeft.x + 1, y |-> m_TopLeft.y]}
          BY <1>1, <2>2, <3>1 DEF MoveOn, Plus, Unit
        <4> QED BY <1>1, <4>1 DEF Point
      <3>2. CASE a = "y"
        <4>1. /\ m_Current' = [x |-> m_Current.x, y |-> m_Current.y + 1]
              /\ m_TopLeft' \in {m_TopLeft, [x |-> m_TopLeft.x, y |-> m_TopLeft.y + 1]}
          BY <1>1, <2>2, <3>2 DEF MoveOn, Plus, Unit
        <4> QED BY <1>1, <4>1 DEF Point
      <3> QED BY <3>1, <3>2 DEF Axis
    <2> QED BY <2>1, <2>2
  <1>3. UNCHANGED <<m_lCellAjustmentMode, m_enZoomMode, sizes, rect, resized>>
    BY DEF MoveBack, MoveOn
  <1> QED BY <1>2, <1>3 DEF IInv, TypeOK, CornerNotPastCurrent, sizes, Axis

(***************************************************************************)
(* A jump: inside the window no cell lies before the corner, and outside   *)
(* the new cell is the corner.                                             *)
(***************************************************************************)
LEMMA SetCurrentIInv ==
  ASSUME IInv, NEW p \in [x : Int, y : Int], SetCurrentCell(p)
  PROVE  IInv'
  <1>1. p \in Point /\ m_Current' = p
    BY DEF SetCurrentCell, Point
  <1>2. CASE InWindow(p)
    <2>1. m_TopLeft' = m_TopLeft
      BY <1>2 DEF SetCurrentCell
    <2>2. \A a \in Axis : FitHere(a) \in Nat
      BY FitType DEF FitHere, IInv, TypeOK
    <2>3. \A a \in Axis : m_TopLeft[a] \in Nat /\ m_TopLeft[a] <= p[a]
      BY <1>1, <1>2, <2>2 DEF InWindow, IInv, TypeOK, Point, Axis
    <2> QED BY <1>1, <2>1, <2>3 DEF SetCurrentCell, IInv, TypeOK, CornerNotPastCurrent, sizes
  <1>3. CASE ~ InWindow(p)
    <2>1. m_TopLeft' = p
      BY <1>3 DEF SetCurrentCell
    <2>2. CornerNotPastCurrent'
      BY <1>1, <2>1 DEF CornerNotPastCurrent, Point, Axis
    <2> QED BY <1>1, <2>1, <2>2 DEF SetCurrentCell, IInv, TypeOK, sizes
  <1> QED BY <1>2, <1>3

(***************************************************************************)
(* Every step of the view preserves the invariant.                         *)
(***************************************************************************)
LEMMA NextIInv == IInv /\ [Next]_vars => IInv'
  <1> SUFFICES ASSUME IInv, [Next]_vars PROVE IInv'
    OBVIOUS
  <1>0. SizeTables(own) /\ m_enZoomMode \in Zoom
    BY DEF SizeTables, IInv, TypeOK
  <1>1. ASSUME NEW z \in Zoom, SetZoomModeL(z) PROVE IInv'
    <2>1. m_TopLeft' \in Point /\ CornerNotPastCurrent'
      BY <1>1, ScrollIInv DEF SetZoomModeL
    <2> QED BY <1>1, <2>1 DEF SetZoomModeL, IInv, TypeOK, sizes
  <1>2. ASSUME NEW size \in ResetSize, ResetCellSizeL(size) PROVE IInv'
    <2>1. m_TopLeft' \in Point /\ CornerNotPastCurrent'
      BY <1>0, <1>2, ScrollIInv DEF ResetCellSizeL
    <2>2. size \in Point
      BY SizeAssumption
    <2>3. normal' \in Point
      BY <1>0, <1>2, <2>2, UnzoomedType DEF ResetCellSizeL, Point
    <2>4. SizeTables(own')
      <3>1. DOMAIN Nothing = {}
        BY DEF Nothing
      <3>2. own' = [x |-> Nothing, y |-> Nothing]
        BY <1>2 DEF ResetCellSizeL
      <3> HIDE DEF Nothing
      <3>3. DOMAIN own' = Axis /\ own'["x"] = Nothing /\ own'["y"] = Nothing
        BY <3>2 DEF Axis
      <3> QED BY <3>1, <3>3 DEF SizeTables, Axis
    <2> QED BY <1>2, <2>1, <2>3, <2>4 DEF ResetCellSizeL, IInv, TypeOK, SizeTables
  <1>3. ASSUME NEW r \in Rect, SwitchLayout(r) PROVE IInv'
    <2>1. m_TopLeft' \in Point /\ CornerNotPastCurrent'
      BY <1>0, <1>3, ScrollIInv DEF SwitchLayout
    <2> QED BY <1>3, <2>1 DEF SwitchLayout, IInv, TypeOK, sizes
  <1>4. ASSUME NEW r \in Rect, SetRect(r) PROVE IInv'
    BY <1>4 DEF SetRect, IInv, TypeOK, CornerNotPastCurrent, sizes, place
  <1>5. ASSUME NEW a \in Axis, NEW d \in {-1, 1}, AdjustCell(a, d) PROVE IInv'
    BY <1>0, <1>5, AdjustedType, AdjustIInv DEF AdjustCell, IInv, TypeOK
  <1>6. ASSUME NEW dx \in {-1, 0, 1}, NEW dy \in {-1, 0, 1}, Drag(dx, dy) PROVE IInv'
    <2>1. SizeTables(Adjusted(own, "x", dx))
      BY <1>0, AdjustedType DEF Axis
    <2>2. SizeTables(own')
      BY <1>6, <2>1, AdjustedType DEF Drag, Axis
    <2> QED BY <1>6, <2>2, AdjustIInv DEF Drag
  <1>7. ASSUME NEW mode \in BOOLEAN, SetCellAjustmentMode(mode) PROVE IInv'
    BY <1>0, <1>7, AdjustIInv DEF SetCellAjustmentMode, sizes
  <1>8. ASSUME NEW a \in Axis, MoveBack(a) \/ MoveOn(a) PROVE IInv'
    BY <1>8, MoveIInv
  <1>9. ASSUME NEW p \in Target, SetCurrentCell(p) PROVE IInv'
    BY <1>9, SetCurrentIInv, PlaceAssumption DEF Point
  <1>10. ASSUME NEW pixel \in Pixel, Tap(pixel) PROVE IInv'
    <2>1. pixel.x \in Nat /\ pixel.y \in Nat
      BY PlaceAssumption DEF Point
    <2>2. CellbyPosition("x", pixel.x) \in Int /\ CellbyPosition("y", pixel.y) \in Int
      BY <2>1, TouchedType DEF IInv, TypeOK, Axis
    <2> QED BY <1>10, <2>2, SetCurrentIInv DEF Tap
  <1>11. CASE UNCHANGED vars
    BY <1>11 DEF vars, place, sizes, IInv, TypeOK, CornerNotPastCurrent
  <1> QED BY <1>1, <1>2, <1>3, <1>4, <1>5, <1>6, <1>7, <1>8, <1>9, <1>10, <1>11 DEF Next

(***************************************************************************)
(* The invariant holds in every reachable state of the view.               *)
(***************************************************************************)
THEOREM Inductive == Spec => []IInv
  BY InitIInv, NextIInv, PTL DEF Spec

(***************************************************************************)
(* The state has its types: no size becomes negative, neither cell leaves  *)
(* the sheet on the upper or the left side.                                *)
(***************************************************************************)
THEOREM TypeCorrect == Spec => []TypeOK
  <1>1. IInv => TypeOK
    BY DEF IInv
  <1> QED BY <1>1, Inductive, PTL

(***************************************************************************)
(* The current cell is never before the corner, for all sizes of cells     *)
(* and of the window: CellPositionL never leaves for it.                   *)
(***************************************************************************)
THEOREM CornerCorrect == Spec => []CornerNotPastCurrent
  <1>1. IInv => CornerNotPastCurrent
    BY DEF IInv
  <1> QED BY <1>1, Inductive, PTL

-----------------------------------------------------------------------------
(***************************************************************************)
(* Arithmetic: comparing products with a common positive factor, and what  *)
(* \div tells of the number divided.                                       *)
(***************************************************************************)
LEMMA Cancel ==
  ASSUME NEW a \in Int, NEW b \in Int, NEW n \in Nat \ {0}, n * a < n * b
  PROVE  a < b
  <1> SUFFICES ASSUME b <= a PROVE FALSE
    OBVIOUS
  <1>1. PICK c \in Nat : a = b + c
    <2>1. a - b \in Nat /\ a = b + (a - b)
      OBVIOUS
    <2> QED BY <2>1
  <1>2. n * a = n * b + n * c
    BY <1>1
  <1>3. n * c \in Nat
    BY ProductType
  <1> QED BY <1>2, <1>3

(***************************************************************************)
(* A quotient times its divisor is at most the dividend, and less than one *)
(* divisor below it.                                                       *)
(***************************************************************************)
LEMMA DivBounds ==
  ASSUME NEW m \in Nat, NEW n \in Nat \ {0}
  PROVE  n * (m \div n) <= m /\ m < n * (m \div n) + n
  OBVIOUS

(***************************************************************************)
(* Dividend, quotient and remainder of a division of naturals.             *)
(***************************************************************************)
LEMMA DivMod ==
  ASSUME NEW m \in Nat, NEW n \in Nat \ {0}
  PROVE  m = n * (m \div n) + (m % n) /\ m % n \in 0 .. n - 1
  OBVIOUS

(***************************************************************************)
(* What is shown is the kept size times the zoom, rounded up.              *)
(***************************************************************************)
LEMMA ShownBounds ==
  ASSUME NEW z \in Zoom, NEW s \in Nat
  PROVE  /\ s * Divident[z] <= Divisor * Shown(s, z)
         /\ Divisor * Shown(s, z) < s * Divident[z] + Divisor
  <1> DEFINE m == s * Divident[z]
             q == m \div Divisor
  <1>1. m \in Nat /\ Divisor \in Nat \ {0}
    BY ProductType, ZoomType
  <1>2. q \in Nat
    BY <1>1, DivType
  <1>3. m = Divisor * q + (m % Divisor) /\ m % Divisor \in 0 .. Divisor - 1
    BY <1>1, DivMod
  <1>4. Shown(s, z) = IF m % Divisor = 0 THEN q ELSE q + 1
    BY <1>2 DEF Shown
  <1> HIDE DEF m, q
  <1>5. Divisor * (q + 1) = Divisor * q + Divisor
    BY <1>1, <1>2
  <1>6. m <= Divisor * Shown(s, z) /\ Divisor * Shown(s, z) < m + Divisor
    <2>1. Divisor * q \in Nat
      BY <1>1, <1>2, ProductType
    <2>2. CASE m % Divisor = 0
      BY <1>1, <1>3, <1>4, <2>1, <2>2
    <2>3. CASE m % Divisor # 0
      BY <1>1, <1>3, <1>4, <1>5, <2>1, <2>3
    <2> QED BY <2>2, <2>3
  <1> QED BY <1>6 DEF m

(***************************************************************************)
(* What is kept is the number of pixels by the zoom, rounded down.         *)
(***************************************************************************)
LEMMA UnzoomedBounds ==
  ASSUME NEW z \in Zoom, NEW y \in Nat
  PROVE  /\ Divident[z] * Unzoomed(y, z) <= y * Divisor
         /\ y * Divisor < Divident[z] * Unzoomed(y, z) + Divident[z]
  BY ProductType, ZoomType, DivBounds DEF Unzoomed

(***************************************************************************)
(* Writing back a size as it is shown does not change it.                  *)
(***************************************************************************)
LEMMA RoundTrip ==
  ASSUME NEW z \in Zoom, NEW s \in Nat
  PROVE  Unzoomed(Shown(s, z), z) = s
  <1> DEFINE n == Divident[z]
             S == Shown(s, z)
             k == Unzoomed(S, z)
  <1>1. n \in Nat \ {0} /\ Divisor \in Nat \ {0} /\ Divisor <= n
    BY ZoomAssumption, ZoomType
  <1>2. S \in Nat /\ k \in Nat
    BY ShownType, UnzoomedType
  <1>3. s * n <= Divisor * S /\ Divisor * S < s * n + Divisor
    BY ShownBounds
  <1>4. n * k <= S * Divisor /\ S * Divisor < n * k + n
    BY <1>2, UnzoomedBounds
  <1> HIDE DEF n, S, k
  <1>5. n * (s + 1) = s * n + n /\ n * (k + 1) = n * k + n /\ n * s = s * n
    BY <1>1, <1>2
  <1>6. S * Divisor = Divisor * S /\ Divisor * S \in Nat /\ s * n \in Nat /\ n * k \in Nat
    BY <1>1, <1>2, ProductType
  <1>7. n * k < n * (s + 1) /\ n * s < n * (k + 1)
    BY <1>1, <1>3, <1>4, <1>5, <1>6
  <1>8. k < s + 1 /\ s < k + 1
    BY <1>1, <1>2, <1>7, Cancel
  <1>9. k = s
    BY <1>2, <1>8
  <1> QED BY <1>9 DEF k, S

(***************************************************************************)
(* A size that is kept and shown again is what it was or a pixel less, and *)
(* at the small zoom what it was.                                          *)
(***************************************************************************)
LEMMA ShownAgain ==
  ASSUME NEW z \in Zoom, NEW y \in Nat
  PROVE  /\ Shown(Unzoomed(y, z), z) \in {y, y - 1}
         /\ z = Small => Shown(Unzoomed(y, z), z) = y
  <1> DEFINE n == Divident[z]
             k == Unzoomed(y, z)
             T == Shown(k, z)
  <1>1. /\ n \in Nat \ {0} /\ Divisor \in Nat \ {0} /\ n < 2 * Divisor
        /\ z = Small => n = Divisor
    BY ZoomAssumption, ZoomType
  <1>3. k \in Nat /\ T \in Nat
    BY ShownType, UnzoomedType
  <1>5. n * k <= y * Divisor /\ y * Divisor < n * k + n
    BY UnzoomedBounds
  <1>6. k * n <= Divisor * T /\ Divisor * T < k * n + Divisor
    BY <1>3, ShownBounds
  <1> HIDE DEF n, k, T
  <1>7. /\ n * k \in Nat /\ Divisor * T \in Nat /\ n * k = k * n
        /\ y * Divisor = Divisor * y
        /\ Divisor * (y + 1) = Divisor * y + Divisor
        /\ Divisor * (y - 2) = Divisor * y - 2 * Divisor
        /\ Divisor * (y - 1) = Divisor * y - Divisor
    BY <1>1, <1>3, ProductType
  <1>8. Divisor * T < Divisor * (y + 1) /\ Divisor * (y - 2) < Divisor * T
    BY <1>1, <1>5, <1>6, <1>7
  <1>9. T < y + 1 /\ y - 2 < T
    BY <1>1, <1>3, <1>8, Cancel
  <1>10. ASSUME z = Small PROVE T = y
    <2>1. Divisor * (y - 1) < Divisor * T
      BY <1>1, <1>5, <1>6, <1>7, <1>10
    <2>2. y - 1 < T
      BY <1>1, <1>3, <2>1, Cancel
    <2> QED BY <1>3, <1>9, <2>2
  <1>11. T \in {y, y - 1}
    BY <1>3, <1>9
  <1> QED BY <1>10, <1>11 DEF T, k

(***************************************************************************)
(* What is kept for a larger size is not smaller.                          *)
(***************************************************************************)
LEMMA UnzoomedGrows ==
  ASSUME NEW z \in Zoom, NEW y \in Nat, NEW w \in Nat, y <= w
  PROVE  Unzoomed(y, z) <= Unzoomed(w, z)
  <1> DEFINE n == Divident[z]
             k == Unzoomed(y, z)
             l == Unzoomed(w, z)
  <1>1. n \in Nat \ {0} /\ Divisor \in Nat \ {0} /\ k \in Nat /\ l \in Nat
    BY ZoomType, UnzoomedType
  <1>2. n * k <= y * Divisor /\ w * Divisor < n * l + n
    BY UnzoomedBounds
  <1> HIDE DEF n, k, l
  <1>3. y * Divisor <= w * Divisor
    <2>1. w - y \in Nat /\ w = y + (w - y)
      OBVIOUS
    <2>2. PICK c \in Nat : w = y + c
      BY <2>1
    <2>3. w * Divisor = y * Divisor + c * Divisor /\ c * Divisor \in Nat /\ y * Divisor \in Nat
      BY <1>1, <2>2, ProductType
    <2> QED BY <2>3
  <1>4. n * k \in Nat /\ n * (l + 1) = n * l + n /\ y * Divisor \in Nat /\ w * Divisor \in Nat /\ n * l \in Nat
    BY <1>1, ProductType
  <1>5. n * k < n * (l + 1)
    BY <1>1, <1>2, <1>3, <1>4
  <1>6. k < l + 1
    BY <1>1, <1>5, Cancel
  <1>7. k <= l
    BY <1>1, <1>6
  <1> QED BY <1>7 DEF k, l

(***************************************************************************)
(* A size shown that is within the zoomed limits is kept within the limits *)
(* or one pixel below the lower one: both limits are rounded down.         *)
(***************************************************************************)
LEMMA LimitsKept ==
  ASSUME NEW z \in Zoom, NEW y \in Nat, NEW m \in Nat
  PROVE  /\ y <= Limit(m, z) => Unzoomed(y, z) <= m
         /\ y >= Limit(m, z) => Unzoomed(y, z) >= m - 1
  <1> DEFINE n == Divident[z]
             k == Unzoomed(y, z)
             q == Limit(m, z)
  <1>1. n \in Nat \ {0} /\ Divisor \in Nat \ {0} /\ Divisor <= n
    BY ZoomAssumption, ZoomType
  <1>2. k \in Nat /\ q \in Nat
    BY UnzoomedType, LimitType
  <1>3. n * k <= y * Divisor /\ y * Divisor < n * k + n
    BY UnzoomedBounds
  <1>4. Divisor * q <= m * n /\ m * n < Divisor * q + Divisor
    BY <1>1, ProductType, DivBounds DEF Limit
  <1> HIDE DEF n, k, q
  <1>5. /\ n * k \in Nat /\ y * Divisor \in Nat /\ m * n \in Nat /\ Divisor * q \in Nat
        /\ m * n = n * m /\ y * Divisor = Divisor * y
        /\ n * (m + 1) = n * m + n /\ n * (k + 2) = n * k + n + n
    BY <1>1, <1>2, ProductType
  <1>6. ASSUME y <= q PROVE k <= m
    <2>1. Divisor * y <= Divisor * q
      <3>1. q - y \in Nat /\ q = y + (q - y)
        BY <1>2, <1>6
      <3>2. PICK c \in Nat : q = y + c
        BY <3>1
      <3>3. Divisor * q = Divisor * y + Divisor * c /\ Divisor * c \in Nat
        BY <1>1, <3>2, ProductType
      <3> QED BY <1>5, <3>3
    <2>2. n * k < n * (m + 1)
      BY <1>1, <1>3, <1>4, <1>5, <2>1
    <2>3. k < m + 1
      BY <1>1, <1>2, <2>2, Cancel
    <2> QED BY <1>2, <2>3
  <1>7. ASSUME y >= q PROVE k >= m - 1
    <2>1. Divisor * q <= Divisor * y
      <3>1. y - q \in Nat /\ y = q + (y - q)
        BY <1>2, <1>7
      <3>2. PICK c \in Nat : y = q + c
        BY <3>1
      <3>3. Divisor * y = Divisor * q + Divisor * c /\ Divisor * c \in Nat
        BY <1>1, <1>2, <3>2, ProductType
      <3> QED BY <1>5, <3>3
    <2>2. n * m < n * (k + 2)
      BY <1>1, <1>3, <1>4, <1>5, <2>1
    <2>3. m < k + 2
      BY <1>1, <1>2, <2>2, Cancel
    <2> QED BY <1>2, <2>3
  <1> QED BY <1>6, <1>7 DEF k, q

(***************************************************************************)
(* A table of sizes that keeps to the limits.                              *)
(***************************************************************************)
WithinLimits(o, a) == \A i \in DOMAIN o[a] : o[a][i] \in KeptSizes(a)

(***************************************************************************)
(* An adjustment keeps the sizes within their limits, both in the          *)
(* dimension adjusted and in the other, which is written back.             *)
(***************************************************************************)
LEMMA AdjustedLimits ==
  ASSUME IInv, NEW o, SizeTables(o), NEW b \in Axis, NEW a \in Axis, NEW d \in {-1, 0, 1},
         normal[b] \in KeptSizes(b), WithinLimits(o, b)
  PROVE  WithinLimits(Adjusted(o, a, d), b)
  <1> DEFINE z == m_enZoomMode
             base == BaseSize(o, normal, b, m_Current[b])
             S == Shown(base, z)
             shown == [c \in Axis |-> SizeOf(o, normal, c, m_Current[c], z)]
             step(c) == IF c = a THEN d * Step ELSE 0
             new(c) == Unzoomed(shown[c] + step(c), z)
             set(c) == Override(o[c], m_Current[c], new(c))
  <1>1. z \in Zoom /\ normal[b] \in Nat /\ MinSize[b] \in Nat /\ MaxSize[b] \in Nat /\ Step \in Nat
    BY SizeAssumption DEF IInv, TypeOK, Point, Axis
  <1>2. base \in Nat /\ base \in KeptSizes(b)
    BY <1>1 DEF BaseSize, SizeTables, WithinLimits
  <1>3. S \in Nat /\ shown[b] = S
    BY <1>1, <1>2, ShownType DEF SizeOf
  <1>4. CASE ~ (d # 0 /\ MayAdjust(shown[a], a, d))
    BY <1>4 DEF Adjusted
  <1>5. CASE d # 0 /\ MayAdjust(shown[a], a, d)
    <2>1. Adjusted(o, a, d) = [x |-> set("x"), y |-> set("y")]
      BY <1>5 DEF Adjusted
    <2>2. new(b) \in KeptSizes(b)
      <3>1. CASE a # b
        <4>1. shown[b] + step(b) = S
          BY <1>3, <3>1
        <4>2. new(b) = base
          BY <1>1, <1>2, <4>1, RoundTrip
        <4> QED BY <1>2, <4>2
      <3>2. CASE a = b /\ d = 1
        <4>1. S + Step \in Nat /\ S <= S + Step /\ S + Step <= Limit(MaxSize[b], z)
          BY <1>1, <1>3, <1>5, <3>2 DEF MayAdjust
        <4>2. new(b) = Unzoomed(S + Step, z)
          BY <1>1, <1>3, <3>2
        <4>3. new(b) \in Nat /\ new(b) <= MaxSize[b]
          BY <1>1, <4>1, <4>2, LimitsKept, UnzoomedType
        <4>4. base <= new(b)
          BY <1>1, <1>2, <1>3, <4>1, <4>2, UnzoomedGrows, RoundTrip
        <4> HIDE DEF base, new
        <4> QED BY <1>1, <1>2, <4>3, <4>4 DEF KeptSizes
      <3>3. CASE a = b /\ d = -1
        <4>1. S - Step >= Limit(MinSize[b], z) /\ Limit(MinSize[b], z) \in Nat
          BY <1>1, <1>3, <1>5, <3>3, LimitType DEF MayAdjust
        <4>2. S - Step \in Nat /\ S - Step <= S
          BY <1>1, <1>3, <4>1
        <4>3. new(b) = Unzoomed(S - Step, z)
          BY <1>1, <1>3, <3>3
        <4>4. new(b) \in Nat /\ new(b) >= MinSize[b] - 1
          BY <1>1, <4>1, <4>2, <4>3, LimitsKept, UnzoomedType
        <4>5. new(b) <= base
          BY <1>1, <1>2, <1>3, <4>2, <4>3, UnzoomedGrows, RoundTrip
        <4> HIDE DEF base, new
        <4> QED BY <1>1, <1>2, <4>4, <4>5 DEF KeptSizes
      <3> QED BY <1>5, <3>1, <3>2, <3>3
    <2> HIDE DEF new
    <2>3. \A i \in DOMAIN set(b) : set(b)[i] \in KeptSizes(b)
      BY <2>2 DEF Override, WithinLimits
    <2> HIDE DEF set
    <2> QED BY <2>1, <2>3 DEF WithinLimits, Axis
  <1> QED BY <1>4, <1>5

(***************************************************************************)
(* The adjustments and the reset are the steps that touch sizes.           *)
(***************************************************************************)
LEMMA LimitsStep == IInv /\ SizesWithinLimits /\ [Next]_vars => SizesWithinLimits'
  <1> SUFFICES ASSUME IInv, SizesWithinLimits, [Next]_vars, NEW b \in Axis,
                      normal'[b] \in KeptSizes(b)
               PROVE  WithinLimits(own', b)
    BY DEF SizesWithinLimits, WithinLimits, KeptSizes
  <1>1. SizeTables(own)
    BY DEF SizeTables, IInv, TypeOK
  <1>2. normal[b] \in KeptSizes(b) => WithinLimits(own, b)
    BY DEF SizesWithinLimits, WithinLimits
  <1>3. CASE own' = own /\ normal' = normal
    BY <1>2, <1>3 DEF WithinLimits
  <1>4. ASSUME NEW size \in ResetSize, ResetCellSizeL(size) PROVE WithinLimits(own', b)
    BY <1>4 DEF ResetCellSizeL, WithinLimits, Nothing, Axis
  <1>5. ASSUME NEW a \in Axis, NEW d \in {-1, 1}, AdjustCell(a, d) PROVE WithinLimits(own', b)
    BY <1>1, <1>2, <1>5, AdjustedLimits DEF AdjustCell
  <1>6. ASSUME NEW dx \in {-1, 0, 1}, NEW dy \in {-1, 0, 1}, Drag(dx, dy) PROVE WithinLimits(own', b)
    <2>1. normal[b] \in KeptSizes(b)
      BY <1>6 DEF Drag
    <2>2. SizeTables(Adjusted(own, "x", dx))
      BY <1>1, AdjustedType DEF Axis
    <2>3. WithinLimits(Adjusted(own, "x", dx), b)
      BY <1>1, <1>2, <2>1, AdjustedLimits DEF Axis
    <2> QED BY <1>6, <2>1, <2>2, <2>3, AdjustedLimits DEF Drag, Axis
  <1> QED
    BY <1>3, <1>4, <1>5, <1>6
    DEF Next, vars, sizes, SetZoomModeL, SwitchLayout, SetRect, SetCellAjustmentMode, MoveBack, MoveOn,
        SetCurrentCell, Tap

(***************************************************************************)
(* The window never begins behind the current cell, and no size leaves its *)
(* limits, for every screen, all zooms and every choice of limits.         *)
(***************************************************************************)
THEOREM LayoutCorrect == Spec => []WellLaidOut
  <1>1. Init => SizesWithinLimits
    BY DEF Init, SizesWithinLimits, Nothing, Axis
  <1>2. IInv /\ SizesWithinLimits => WellLaidOut
    BY DEF IInv, WellLaidOut
  <1> QED BY <1>1, <1>2, Inductive, LimitsStep, PTL DEF Spec

(***************************************************************************)
(* One adjustment that the limits admit: the dimension asked for changes   *)
(* as asked, the other is written back unchanged.                          *)
(***************************************************************************)
AsAsked(a, d) ==
  (AdjustCell(a, d) /\ MayAdjust(ShownOf(own, a), a, d))
    => /\ ShownOf(own', a) \in Rounded(ShownOf(own, a) + d * Step)
       /\ \A b \in Axis \ {a} : ShownOf(own', b) = ShownOf(own, b)

(***************************************************************************)
(* Every step that adjusts a size within the limits does as asked.         *)
(***************************************************************************)
LEMMA AdjustStep ==
  ASSUME IInv, NEW a \in Axis, NEW d \in {-1, 1}
  PROVE  AsAsked(a, d)
  <1> SUFFICES ASSUME AdjustCell(a, d), MayAdjust(ShownOf(own, a), a, d)
               PROVE  /\ ShownOf(own', a) \in Rounded(ShownOf(own, a) + d * Step)
                      /\ \A b \in Axis \ {a} : ShownOf(own', b) = ShownOf(own, b)
    BY DEF AsAsked
  <1> DEFINE z == m_enZoomMode
             base(b) == BaseSize(own, normal, b, m_Current[b])
             step(b) == IF b = a THEN d * Step ELSE 0
             new(b) == Unzoomed(Shown(base(b), z) + step(b), z)
  <1>1. z \in Zoom /\ \A b \in Axis : m_Current[b] \in Nat
    BY DEF IInv, TypeOK, Point, Axis
  <1>2. \A b \in Axis : base(b) \in Nat
    BY DEF BaseSize, IInv, TypeOK, Point, Axis
  <1>3. \A b \in Axis : ShownOf(own, b) = Shown(base(b), z)
    BY DEF ShownOf, SizeOf
  <1>4. \A b \in Axis : own'[b] = Override(own[b], m_Current[b], new(b))
    BY <1>3 DEF AdjustCell, Adjusted, ShownOf, SizeOf, Axis
  <1>5. \A b \in Axis : BaseSize(own', normal, b, m_Current[b]) = new(b)
    BY <1>4, ZenonT(40) DEF Override, BaseSize
  <1>6. \A b \in Axis : ShownOf(own', b) = Shown(new(b), z)
    BY <1>5 DEF ShownOf, SizeOf
  <1>7. ASSUME NEW b \in Axis \ {a}
        PROVE  ShownOf(own', b) = ShownOf(own, b)
    <2>1. Shown(base(b), z) \in Nat
      BY <1>1, <1>2, ShownType
    <2>2. new(b) = Unzoomed(Shown(base(b), z), z)
      BY <2>1
    <2>3. new(b) = base(b)
      BY <1>1, <1>2, <2>2, RoundTrip
    <2> QED BY <1>3, <1>6, <2>3
  <1>8. ShownOf(own', a) \in Rounded(ShownOf(own, a) + d * Step)
    <2> DEFINE S == Shown(base(a), z)
               y == S + d * Step
    <2>1. S \in Nat /\ Step \in Nat
      BY <1>1, <1>2, ShownType, SizeAssumption
    <2>2. ShownOf(own', a) = Shown(Unzoomed(y, z), z) /\ ShownOf(own, a) = S
      BY <1>3, <1>6
    <2>3. y \in Nat
      <3>1. CASE d = 1
        BY <2>1, <3>1
      <3>2. CASE d = -1
        <4>1. Limit(MinSize[a], z) \in Nat
          BY <1>1, LimitType, SizeAssumption DEF Point, Axis
        <4>2. S - Step >= Limit(MinSize[a], z)
          BY <2>2, <3>2 DEF MayAdjust
        <4> HIDE DEF S
        <4> QED BY <2>1, <3>2, <4>1, <4>2
      <3> QED BY <3>1, <3>2
    <2> HIDE DEF y, S
    <2>4. Shown(Unzoomed(y, z), z) \in Rounded(y)
      BY <1>1, <2>3, ShownAgain DEF Rounded
    <2> QED BY <2>2, <2>4 DEF y
  <1> QED BY <1>7, <1>8

(***************************************************************************)
(* Every adjustment the limits admit does what was asked, at every zoom:   *)
(* the bug report quoted in sheet_data.cpp is answered.                    *)
(***************************************************************************)
THEOREM AdjustmentCorrect == Spec => AdjustsAsAsked
  <1>1. IInv /\ [Next]_vars =>
          [\A a \in Axis, d \in {-1, 1} :
             (AdjustCell(a, d) /\ MayAdjust(ShownOf(own, a), a, d))
               => /\ ShownOf(own', a) \in Rounded(ShownOf(own, a) + d * Step)
                  /\ \A b \in Axis \ {a} : ShownOf(own', b) = ShownOf(own, b)]_vars
    BY AdjustStep DEF AsAsked
  <1> QED BY <1>1, Inductive, PTL DEF Spec, AdjustsAsAsked

-----------------------------------------------------------------------------
(***************************************************************************)
(* The ends of the cells behind the corner are given by recursion over     *)
(* the naturals.  That there is such a function is shown here by the       *)
(* smallest number it could fail at; all later results count with it.      *)
(***************************************************************************)
LEMMA LeastNat ==
  ASSUME NEW T, T \subseteq Nat, T # {}
  PROVE  \E m \in T : \A k \in T : m <= k
  <1>1. PICK m \in T : \A k \in T : ~ (<<k, m>> \in OpToRel(<, Nat))
    BY NatLessThanWellFounded, WFMin
  <1>2. \A k \in T : ~ (k < m)
    BY <1>1 DEF OpToRel
  <1> QED BY <1>2

\* The first n cells behind the corner end where f says, if cell k takes step[k] pixels.
EndsFor(f, step, n) == f[0] = 0 /\ \A k \in 1 .. n : f[k] = f[k - 1] + step[k] + 1

EndsUpTo(f, step, n) == f \in [0 .. n -> Nat] /\ EndsFor(f, step, n)

AllEnds(e, step) == e \in [Nat -> Nat] /\ \A n \in Nat : EndsFor(e, step, n)

(***************************************************************************)
(* Two sequences of ends agree as far as both go.                          *)
(***************************************************************************)
LEMMA EndsAgree ==
  ASSUME NEW step, NEW n \in Nat, NEW f, NEW g, EndsFor(f, step, n), EndsFor(g, step, n)
  PROVE  \A k \in 0 .. n : f[k] = g[k]
  <1> DEFINE T == {k \in 0 .. n : f[k] # g[k]}
  <1> SUFFICES ASSUME T # {} PROVE FALSE
    OBVIOUS
  <1>1. T \subseteq Nat
    OBVIOUS
  <1>2. PICK m \in T : \A k \in T : m <= k
    BY <1>1, LeastNat
  <1>3. m \in 1 .. n /\ m - 1 \in 0 .. n /\ ~ (m <= m - 1)
    BY <1>2 DEF EndsFor
  <1>4. f[m - 1] = g[m - 1]
    BY <1>2, <1>3
  <1> QED BY <1>2, <1>3, <1>4 DEF EndsFor

(***************************************************************************)
(* There is a sequence of ends up to any cell.                             *)
(***************************************************************************)
LEMMA EndsReach ==
  ASSUME NEW step \in [Nat -> Nat], NEW n \in Nat
  PROVE  \E f : EndsUpTo(f, step, n)
  <1> DEFINE T == {k \in Nat : ~ \E f : EndsUpTo(f, step, k)}
  <1> SUFFICES ASSUME T # {} PROVE FALSE
    OBVIOUS
  <1>1. PICK m \in T : \A k \in T : m <= k
    BY LeastNat
  <1>2. m # 0
    <2>1. EndsUpTo([k \in 0 .. 0 |-> 0], step, 0)
      BY DEF EndsUpTo, EndsFor
    <2> QED BY <1>1, <2>1
  <1>3. m - 1 \in Nat /\ ~ (m <= m - 1) /\ m \in Nat \ {0}
    BY <1>1, <1>2
  <1>4. PICK f : EndsUpTo(f, step, m - 1)
    BY <1>1, <1>3
  <1> DEFINE g == [k \in 0 .. m |-> IF k = m THEN f[m - 1] + step[m] + 1 ELSE f[k]]
  <1>5. /\ f \in [0 .. m - 1 -> Nat] /\ f[0] = 0
        /\ \A k \in 1 .. m - 1 : f[k] = f[k - 1] + step[k] + 1
        /\ f[m - 1] \in Nat /\ step[m] \in Nat
    BY <1>3, <1>4 DEF EndsUpTo, EndsFor
  <1>6. g \in [0 .. m -> Nat] /\ g[0] = 0
    <2>1. ASSUME NEW k \in 0 .. m PROVE (IF k = m THEN f[m - 1] + step[m] + 1 ELSE f[k]) \in Nat
      <3>1. k # m => k \in 0 .. m - 1
        BY <1>3
      <3>2. k # m => f[k] \in Nat
        BY <1>5, <3>1
      <3>3. f[m - 1] \in Nat /\ step[m] \in Nat
        BY <1>5
      <3>4. f[m - 1] + step[m] + 1 \in Nat
        BY <3>3
      <3> QED BY <3>2, <3>4
    <2>2. 0 \in 0 .. m /\ 0 # m
      BY <1>3
    <2> QED BY <1>5, <2>1, <2>2
  <1>7. ASSUME NEW k \in 1 .. m PROVE g[k] = g[k - 1] + step[k] + 1
    <2>1. /\ k \in 0 .. m /\ k - 1 \in 0 .. m /\ k - 1 # m
          /\ (k # m => k \in 1 .. m - 1)
      BY <1>3
    <2>2. g[k - 1] = f[k - 1] /\ g[k] = IF k = m THEN f[m - 1] + step[m] + 1 ELSE f[k]
      BY <2>1
    <2> HIDE DEF g
    <2> QED BY <1>5, <2>1, <2>2
  <1>8. EndsUpTo(g, step, m)
    BY <1>6, <1>7 DEF EndsUpTo, EndsFor
  <1> QED BY <1>1, <1>8

(***************************************************************************)
(* There is a sequence of all ends.                                        *)
(***************************************************************************)
LEMMA EndsExist ==
  ASSUME NEW step \in [Nat -> Nat]
  PROVE  \E e : AllEnds(e, step)
  <1> DEFINE p == [n \in Nat |-> CHOOSE f : EndsUpTo(f, step, n)]
             e == [n \in Nat |-> p[n][n]]
  <1>1. \A n \in Nat : EndsUpTo(p[n], step, n)
    BY EndsReach
  <1> HIDE DEF p
  <1>2. e \in [Nat -> Nat]
    <2>1. ASSUME NEW n \in Nat PROVE p[n][n] \in Nat
      <3>1. n \in 0 .. n
        OBVIOUS
      <3>2. p[n] \in [0 .. n -> Nat]
        BY <1>1 DEF EndsUpTo
      <3> QED BY <3>1, <3>2
    <2> QED BY <2>1
  <1>3. e[0] = 0
    BY <1>1 DEF EndsUpTo, EndsFor
  <1>4. ASSUME NEW k \in Nat \ {0} PROVE e[k] = e[k - 1] + step[k] + 1
    <2>1. k \in Nat /\ k - 1 \in Nat /\ k \in 1 .. k /\ k - 1 \in 0 .. k - 1
      OBVIOUS
    <2>2. EndsUpTo(p[k], step, k) /\ EndsUpTo(p[k - 1], step, k - 1)
      BY <1>1, <2>1
    <2> DEFINE f == p[k]  g == p[k - 1]
    <2>3. EndsUpTo(f, step, k) /\ EndsUpTo(g, step, k - 1)
      BY <2>2
    <2> HIDE DEF f, g
    <2>4. f[k] = f[k - 1] + step[k] + 1 /\ f[k - 1] = g[k - 1]
      <3>1. EndsFor(f, step, k) /\ EndsFor(g, step, k - 1)
        BY <2>3 DEF EndsUpTo
      <3>2. \A i \in 1 .. k - 1 : i \in 1 .. k
        BY <2>1
      <3>3. EndsFor(f, step, k - 1)
        BY <3>1, <3>2 DEF EndsFor
      <3>4. \A i \in 0 .. k - 1 : f[i] = g[i]
        BY <2>1, <3>1, <3>3, EndsAgree
      <3> QED BY <2>1, <3>1, <3>4 DEF EndsFor
    <2>5. e[k] = f[k] /\ e[k - 1] = g[k - 1]
      BY <2>1 DEF f, g
    <2> HIDE DEF e
    <2> QED BY <2>4, <2>5
  <1> HIDE DEF e
  <1> QED BY <1>2, <1>3, <1>4 DEF AllEnds, EndsFor


(***************************************************************************)
(* Every row or column has a size that is a natural, so the ends behind    *)
(* any corner are what their recursion says.                               *)
(***************************************************************************)
Steps(o, n, a, first, z) == [k \in Nat |-> SizeOf(o, n, a, first + k - 1, z)]

\* Every size along a row or column is a natural.
LEMMA StepsType ==
  ASSUME NEW o, SizeTables(o), NEW n \in Point, NEW a \in Axis, NEW first, NEW z \in Zoom
  PROVE  Steps(o, n, a, first, z) \in [Nat -> Nat]
  <1>1. ASSUME NEW i PROVE BaseSize(o, n, a, i) \in Nat
    BY DEF BaseSize, SizeTables, Point, Axis
  <1>2. ASSUME NEW i PROVE SizeOf(o, n, a, i, z) \in Nat
    BY <1>1, ShownType DEF SizeOf
  <1> QED BY <1>2 DEF Steps

\* Ends adds up the sizes, whatever the corner.
LEMMA EndsAreEnds ==
  ASSUME NEW o, SizeTables(o), NEW n \in Point, NEW a \in Axis, NEW first, NEW z \in Zoom
  PROVE  AllEnds(Ends(o, n, a, first, z), Steps(o, n, a, first, z))
  <1> DEFINE step == Steps(o, n, a, first, z)
             size(k) == SizeOf(o, n, a, first + k - 1, z)
             F(e) == [k \in Nat |-> IF k = 0 THEN 0 ELSE e[k - 1] + size(k) + 1]
             E == Ends(o, n, a, first, z)
  <1>1. step \in [Nat -> Nat] /\ \A k \in Nat : step[k] = size(k)
    BY StepsType DEF Steps
  <1>2. E = CHOOSE e : e = F(e)
    BY DEF Ends
  <1> HIDE DEF step, size, E
  <1>3. PICK e : AllEnds(e, step)
    BY <1>1, EndsExist
  <1>4. e = F(e)
    <2>1. ASSUME NEW k \in Nat PROVE e[k] = IF k = 0 THEN 0 ELSE e[k - 1] + size(k) + 1
      <3>1. EndsFor(e, step, k)
        BY <1>3 DEF AllEnds
      <3>2. e[0] = 0 /\ (k # 0 => e[k] = e[k - 1] + step[k] + 1)
        BY <3>1 DEF EndsFor
      <3> QED BY <1>1, <3>2
    <2>2. e \in [Nat -> Nat]
      BY <1>3 DEF AllEnds
    <2> QED BY <2>1, <2>2
  <1>5. E = F(E)
    BY <1>2, <1>4
  <1>6. /\ E[0] = 0
        /\ \A k \in Nat \ {0} : E[k] = E[k - 1] + step[k] + 1
    BY <1>1, <1>5
  <1>7. \A n2 \in Nat : EndsFor(E, step, n2)
    BY <1>6 DEF EndsFor
  <1>8. ASSUME NEW k \in Nat PROVE E[k] = e[k]
    <2>1. EndsFor(E, step, k) /\ EndsFor(e, step, k)
      BY <1>3, <1>7 DEF AllEnds
    <2> QED BY <2>1, EndsAgree
  <1>9. E = e
    <2>1. DOMAIN E = Nat
      BY <1>5
    <2> QED BY <1>3, <1>5, <1>8 DEF AllEnds
  <1> QED BY <1>3, <1>9 DEF step, E


(***************************************************************************)
(* Where no row or column has a size of its own, the ends, and so the      *)
(* number of cells that fit, are the same behind every corner.             *)
(***************************************************************************)
LEMMA EvenEnds ==
  ASSUME NEW o, SizeTables(o), NEW n \in Point, NEW a \in Axis, DOMAIN o[a] = {},
         NEW f, NEW g, NEW z \in Zoom
  PROVE  Ends(o, n, a, f, z) = Ends(o, n, a, g, z)
  <1> DEFINE E == Ends(o, n, a, f, z)
             F == Ends(o, n, a, g, z)
             step == Steps(o, n, a, f, z)
  <1>1. step = Steps(o, n, a, g, z)
    BY DEF Steps, SizeOf, BaseSize
  <1>2. AllEnds(E, step) /\ AllEnds(F, step)
    BY <1>1, EndsAreEnds
  <1> HIDE DEF E, F, step
  <1>3. ASSUME NEW k \in Nat PROVE E[k] = F[k]
    <2>1. EndsFor(E, step, k) /\ EndsFor(F, step, k)
      BY <1>2 DEF AllEnds
    <2> QED BY <2>1, EndsAgree
  <1>4. E = F
    BY <1>2, <1>3 DEF AllEnds
  <1> QED BY <1>4 DEF E, F

\* Where no row or column has a size of its own, the same number of them fit
\* behind every corner.
LEMMA EvenFit ==
  ASSUME NEW o, SizeTables(o), NEW n \in Point, NEW a \in Axis, DOMAIN o[a] = {},
         NEW f, NEW g, NEW r, NEW z \in Zoom
  PROVE  Fit(o, n, a, f, r, z) = Fit(o, n, a, g, r, z)
  <1> DEFINE E == Ends(o, n, a, f, z)
             F == Ends(o, n, a, g, z)
  <1>1. E = F
    BY EvenEnds
  <1>2. /\ Fit(o, n, a, f, r, z) = Cardinality({k \in 1 .. Room[r][z][a] : E[k] < Room[r][z][a]})
        /\ Fit(o, n, a, g, r, z) = Cardinality({k \in 1 .. Room[r][z][a] : F[k] < Room[r][z][a]})
    BY DEF Fit
  <1> HIDE DEF E, F
  <1> QED BY <1>1, <1>2

-----------------------------------------------------------------------------
(***************************************************************************)
(* The loop of CellbyPositionL stops at a cell that the loop of            *)
(* NumberOfCellsThatFitInRectL counts, or at the one behind them.          *)
(***************************************************************************)
LEMMA TouchedInSight ==
  ASSUME IInv, NEW a \in Axis, NEW pixel \in Nat, pixel > 0, pixel < Room[rect][m_enZoomMode][a]
  PROVE  CellbyPosition(a, pixel) \in m_TopLeft[a] .. m_TopLeft[a] + FitHere(a)
  <1> DEFINE w == Room[rect][m_enZoomMode][a]
             E == Ends(own, normal, a, m_TopLeft[a], m_enZoomMode)
             S == {k \in 0 .. pixel : 1 + E[k] <= pixel}
             T == {k \in 1 .. w : E[k] < w}
  <1>1. /\ w \in Nat /\ m_TopLeft[a] \in Nat /\ m_enZoomMode \in Zoom /\ normal \in Point
        /\ SizeTables(own)
    BY RoomAssumption DEF IInv, TypeOK, SizeTables, Axis, Point
  <1>2. E \in [Nat -> Nat] /\ E[0] = 0
    <2>1. AllEnds(E, Steps(own, normal, a, m_TopLeft[a], m_enZoomMode))
      BY <1>1, EndsAreEnds
    <2>2. E \in [Nat -> Nat] /\ EndsFor(E, Steps(own, normal, a, m_TopLeft[a], m_enZoomMode), 0)
      BY <2>1 DEF AllEnds
    <2> QED BY <2>2 DEF EndsFor
  <1> HIDE DEF w, E
  <1>3. pixel \in Nat /\ pixel > 0 /\ pixel < w
    BY DEF w
  <1>4. IsFiniteSet(T) /\ Cardinality(T) \in Nat
    <2>1. w \in Int /\ 1 \in Int
      BY <1>1
    <2>2. IsFiniteSet(1 .. w)
      BY <2>1, FS_Interval
    <2>3. IsFiniteSet(T)
      BY <2>2, FS_Subset
    <2> QED BY <2>3, FS_CardinalityType
  <1>5. S \subseteq T \union {0} /\ {0} \subseteq S
    <2>1. ASSUME NEW k \in S, k # 0 PROVE k \in T
      <3>1. k \in 1 .. w /\ k \in Nat
        BY <1>1, <1>3, <2>1
      <3>2. E[k] \in Nat /\ 1 + E[k] <= pixel
        BY <1>2, <2>1, <3>1
      <3>3. E[k] < w
        BY <1>1, <1>3, <3>2
      <3> QED BY <3>1, <3>3
    <2>2. 0 \in S
      BY <1>2, <1>3
    <2> QED BY <2>1, <2>2
  <1>6. 0 \notin T
    OBVIOUS
  <1> HIDE DEF S, T
  <1>7. IsFiniteSet(T \union {0}) /\ Cardinality(T \union {0}) = Cardinality(T) + 1
    BY <1>4, <1>6, FS_AddElement
  <1>8. IsFiniteSet(S) /\ Cardinality(S) <= Cardinality(T) + 1
    BY <1>5, <1>7, FS_Subset
  <1>9. Cardinality(S) \in Nat /\ 1 <= Cardinality(S)
    <2>1. Cardinality({0}) = 1
      BY FS_Singleton
    <2> QED BY <1>5, <1>8, <2>1, FS_Subset, FS_CardinalityType
  <1>10. CellbyPosition(a, pixel) = m_TopLeft[a] - 1 + Cardinality(S)
    BY DEF CellbyPosition, S, E
  <1>11. FitHere(a) = Cardinality(T)
    BY DEF FitHere, Fit, T, E, w
  <1> QED BY <1>1, <1>4, <1>8, <1>9, <1>10, <1>11

(***************************************************************************)
(* A touch off the grid line at the edge leaves the corner where it is.    *)
(***************************************************************************)
LEMMA TouchStays ==
  ASSUME IInv, NEW pixel \in Pixel, pixel.x > 0, pixel.y > 0, Tap(pixel)
  PROVE  m_TopLeft' = m_TopLeft
  <1> DEFINE p == [x |-> CellbyPosition("x", pixel.x), y |-> CellbyPosition("y", pixel.y)]
  <1>1. pixel.x \in Nat /\ pixel.y \in Nat
    BY PlaceAssumption DEF Point
  <1>2. /\ pixel.x < Room[rect][m_enZoomMode]["x"] /\ pixel.y < Room[rect][m_enZoomMode]["y"]
        /\ SetCurrentCell(p)
    BY DEF Tap
  <1>3. /\ p["x"] \in m_TopLeft["x"] .. m_TopLeft["x"] + FitHere("x")
        /\ p["y"] \in m_TopLeft["y"] .. m_TopLeft["y"] + FitHere("y")
    BY <1>1, <1>2, TouchedInSight DEF Axis
  <1> HIDE DEF p
  <1>4. InWindow(p)
    BY <1>3 DEF InWindow, Axis
  <1> QED BY <1>2, <1>4 DEF SetCurrentCell

(***************************************************************************)
(* The sheet does not scroll under the finger, for every screen, every     *)
(* zoom and all sizes of rows and columns.                                 *)
(***************************************************************************)
THEOREM TouchCorrect == Spec => TouchDoesNotScroll
  <1>1. IInv /\ [Next]_vars =>
          [m_TopLeft' # m_TopLeft
             => \A pixel \in Pixel : (pixel.x > 0 /\ pixel.y > 0) => ~ Tap(pixel)]_vars
    BY TouchStays
  <1> QED BY <1>1, Inductive, PTL DEF Spec, TouchDoesNotScroll


-----------------------------------------------------------------------------
(***************************************************************************)
(* A scroll shows the cell asked for, when as many cells fit behind the    *)
(* new corner as fitted behind the old one.                                *)
(***************************************************************************)
LEMMA ScrolledShows ==
  ASSUME NEW top \in Nat, NEW at \in Nat, NEW n \in Nat
  PROVE  at \in Scrolled(top, at, n) .. Scrolled(top, at, n) + n
  BY DEF Scrolled

\* The cell p is in the window whose corner is top, in both dimensions.
Shows(o, n, top, p, r, z) ==
  \A a \in Axis : p[a] \in top[a] .. top[a] + Fit(o, n, a, top[a], r, z)

\* After ScrollToCurrent the current cell is in the window, where all rows and
\* columns have one size.
LEMMA ScrollShows ==
  ASSUME IInv, NEW o, SizeTables(o), NEW n \in Point, NEW z \in Zoom,
         \A a \in Axis : DOMAIN o[a] = {}, ScrollToCurrent(o, n, z)
  PROVE  Shows(o, n, m_TopLeft', m_Current, rect, z)
  <1> SUFFICES ASSUME NEW a \in Axis
               PROVE  m_Current[a] \in m_TopLeft'[a] .. m_TopLeft'[a] + Fit(o, n, a, m_TopLeft'[a], rect, z)
    BY DEF Shows
  <1> DEFINE N == Fit(o, n, a, m_TopLeft[a], rect, z)
  <1>1. m_TopLeft[a] \in Nat /\ m_Current[a] \in Nat /\ N \in Nat
    BY FitType DEF IInv, TypeOK, Point, Axis
  <1>2. m_TopLeft'[a] = Scrolled(m_TopLeft[a], m_Current[a], N)
    <2>1. CASE a = "x"
      BY <2>1 DEF ScrollToCurrent
    <2>2. CASE a = "y"
      BY <2>2 DEF ScrollToCurrent
    <2> QED BY <2>1, <2>2 DEF Axis
  <1>3. Fit(o, n, a, m_TopLeft'[a], rect, z) = N
    BY EvenFit
  <1> HIDE DEF N
  <1> QED BY <1>1, <1>2, <1>3, ScrolledShows

(***************************************************************************)
(* A move leaves the current cell in a window that showed it.              *)
(***************************************************************************)
LEMMA MoveShows ==
  ASSUME IInv, Even, InWindow(m_Current), NEW a \in Axis, MoveBack(a) \/ MoveOn(a)
  PROVE  Shows(own, normal, m_TopLeft', m_Current', rect, m_enZoomMode)
  <1> SUFFICES ASSUME NEW b \in Axis
               PROVE  m_Current'[b] \in m_TopLeft'[b]
                        .. m_TopLeft'[b] + Fit(own, normal, b, m_TopLeft'[b], rect, m_enZoomMode)
    BY DEF Shows
  <1> DEFINE N == FitHere(b)
             step == IF a = b THEN 1 ELSE 0
  <1>1. /\ m_TopLeft[b] \in Nat /\ m_Current[b] \in Nat
        /\ m_TopLeft \in Point /\ m_Current \in Point /\ m_TopLeft[b] <= m_Current[b]
    BY DEF IInv, TypeOK, CornerNotPastCurrent, Point, Axis
  <1>2. N \in Nat
    BY FitType DEF FitHere, IInv, TypeOK
  <1>3. m_Current[b] <= m_TopLeft[b] + N
    BY <1>1, <1>2 DEF InWindow
  <1>4. Fit(own, normal, b, m_TopLeft'[b], rect, m_enZoomMode) = N
    <2>1. SizeTables(own) /\ normal \in Point /\ m_enZoomMode \in Zoom /\ DOMAIN own[b] = {}
      BY DEF IInv, TypeOK, SizeTables, Even
    <2> QED BY <2>1, EvenFit DEF FitHere
  <1>5. CASE MoveBack(a)
    <2>1. /\ m_Current'[b] = m_Current[b] - step
          /\ m_TopLeft'[b] = IF m_Current[a] - 1 < m_TopLeft[a] THEN m_TopLeft[b] - step ELSE m_TopLeft[b]
      <3>1. CASE a = "x"
        BY <1>1, <1>5, <3>1 DEF MoveBack, Minus, Unit, Point, Axis
      <3>2. CASE a = "y"
        BY <1>1, <1>5, <3>2 DEF MoveBack, Minus, Unit, Point, Axis
      <3> QED BY <3>1, <3>2 DEF Axis
    <2> HIDE DEF N
    <2>2. CASE a = b
      BY <1>1, <1>2, <1>3, <1>4, <2>1, <2>2
    <2>3. CASE a # b
      BY <1>1, <1>2, <1>3, <1>4, <2>1, <2>3
    <2> QED BY <2>2, <2>3
  <1>6. CASE MoveOn(a)
    <2>1. /\ m_Current'[b] = m_Current[b] + step
          /\ m_TopLeft'[b] = IF m_Current[a] + 1 - m_TopLeft[a] > FitHere(a) - 1
                             THEN m_TopLeft[b] + step ELSE m_TopLeft[b]
      <3>1. CASE a = "x"
        BY <1>1, <1>6, <3>1 DEF MoveOn, Plus, Unit, Point, Axis
      <3>2. CASE a = "y"
        BY <1>1, <1>6, <3>2 DEF MoveOn, Plus, Unit, Point, Axis
      <3> QED BY <3>1, <3>2 DEF Axis
    <2>2. CASE a = b
      <3>1. m_TopLeft'[b] = IF m_Current[b] + 1 - m_TopLeft[b] > N - 1
                            THEN m_TopLeft[b] + 1 ELSE m_TopLeft[b]
        BY <2>1, <2>2
      <3> HIDE DEF N
      <3> QED BY <1>1, <1>2, <1>3, <1>4, <2>1, <2>2, <3>1
    <2>3. CASE a # b
      <3>1. m_TopLeft'[b] = m_TopLeft[b] /\ m_Current'[b] = m_Current[b]
        BY <1>1, <2>1, <2>3
      <3> HIDE DEF N
      <3> QED BY <1>1, <1>2, <1>3, <1>4, <3>1
    <2> QED BY <2>2, <2>3
  <1> QED BY <1>5, <1>6

(***************************************************************************)
(* A jump shows the cell it goes to.                                       *)
(***************************************************************************)
LEMMA JumpShows ==
  ASSUME IInv, NEW p \in [x : Int, y : Int], SetCurrentCell(p)
  PROVE  Shows(own, normal, m_TopLeft', m_Current', rect, m_enZoomMode)
  <1>1. m_Current' = p /\ p \in Point
    BY DEF SetCurrentCell, Point
  <1>2. CASE InWindow(p)
    BY <1>1, <1>2 DEF SetCurrentCell, InWindow, Shows, FitHere
  <1>3. CASE ~ InWindow(p)
    <2>1. m_TopLeft' = p
      BY <1>3 DEF SetCurrentCell
    <2>2. ASSUME NEW a \in Axis
          PROVE  p[a] \in p[a] .. p[a] + Fit(own, normal, a, p[a], rect, m_enZoomMode)
      <3>1. Fit(own, normal, a, p[a], rect, m_enZoomMode) \in Nat /\ p[a] \in Nat
        BY <1>1, FitType DEF IInv, TypeOK, Point, Axis
      <3> QED BY <3>1
    <2> QED BY <1>1, <2>1, <2>2 DEF Shows
  <1> QED BY <1>2, <1>3


(***************************************************************************)
(* An adjustment leaves all sizes, or gives the current row and column     *)
(* sizes of their own.                                                     *)
(***************************************************************************)
LEMMA AdjustedUneven ==
  ASSUME NEW o, NEW a \in Axis, NEW d
  PROVE  Adjusted(o, a, d) = o \/ \A b \in Axis : DOMAIN Adjusted(o, a, d)[b] # {}
  <1> DEFINE shown == [b \in Axis |-> SizeOf(o, normal, b, m_Current[b], m_enZoomMode)]
             set(b) == Override(o[b], m_Current[b],
                                Unzoomed(shown[b] + (IF b = a THEN d * Step ELSE 0), m_enZoomMode))
  <1>1. Adjusted(o, a, d) = o \/ Adjusted(o, a, d) = [x |-> set("x"), y |-> set("y")]
    BY DEF Adjusted
  <1>2. \A b \in Axis : m_Current[b] \in DOMAIN set(b)
    BY DEF Override
  <1> HIDE DEF set
  <1> QED BY <1>1, <1>2 DEF Axis

(***************************************************************************)
(* Every step of the view keeps the current cell in sight, or ends the     *)
(* evenness of sizes, or changes the window.                               *)
(***************************************************************************)
LEMMA SightStep == IInv /\ IInv' /\ CurrentInSight /\ [Next]_vars => CurrentInSight'
  <1> SUFFICES ASSUME IInv, IInv', CurrentInSight, [Next]_vars, Even', ~ resized'
               PROVE  Shows(own', normal', m_TopLeft', m_Current', rect', m_enZoomMode')
    BY DEF CurrentInSight, InWindow, Shows, FitHere
  <1>0. /\ SizeTables(own) /\ SizeTables(own') /\ normal \in Point /\ normal' \in Point
        /\ m_enZoomMode \in Zoom /\ m_enZoomMode' \in Zoom
    BY DEF SizeTables, IInv, TypeOK
  <1>1. ASSUME UNCHANGED <<own, resized>>
        PROVE  Even /\ InWindow(m_Current)
    BY <1>1 DEF CurrentInSight, Even
  <1>2. ASSUME UNCHANGED vars
        PROVE  Shows(own', normal', m_TopLeft', m_Current', rect', m_enZoomMode')
    BY <1>1, <1>2 DEF vars, place, sizes, InWindow, Shows, FitHere
  <1>3. ASSUME NEW z \in Zoom, SetZoomModeL(z)
        PROVE  Shows(own', normal', m_TopLeft', m_Current', rect', m_enZoomMode')
    <2>1. Even
      BY <1>3 DEF SetZoomModeL, sizes, Even
    <2> QED BY <1>0, <1>3, <2>1, ScrollShows DEF SetZoomModeL, sizes, Even
  <1>4. ASSUME NEW size \in ResetSize, ResetCellSizeL(size)
        PROVE  Shows(own', normal', m_TopLeft', m_Current', rect', m_enZoomMode')
    <2>1. ScrollToCurrent(own', normal', m_enZoomMode) /\ UNCHANGED <<m_Current, m_enZoomMode, rect>>
      BY <1>4 DEF ResetCellSizeL
    <2> QED BY <1>0, <2>1, ScrollShows DEF Even
  <1>5. ASSUME NEW r \in Rect, SwitchLayout(r)
        PROVE  Shows(own', normal', m_TopLeft', m_Current', rect', m_enZoomMode')
    <2>1. Even /\ rect' = rect
      BY <1>5 DEF SwitchLayout, sizes, Even
    <2> QED BY <1>0, <1>5, <2>1, ScrollShows DEF SwitchLayout, sizes, Even
  <1>6. ASSUME NEW r \in Rect, SetRect(r)
        PROVE  Shows(own', normal', m_TopLeft', m_Current', rect', m_enZoomMode')
    <2>1. UNCHANGED vars
      BY <1>6 DEF SetRect, vars, IInv, TypeOK
    <2> QED BY <1>2, <2>1
  <1>7. ASSUME own' = own \/ \A b \in Axis : DOMAIN own'[b] # {},
               UNCHANGED <<place, m_enZoomMode, normal, rect, resized>>
        PROVE  Shows(own', normal', m_TopLeft', m_Current', rect', m_enZoomMode')
    <2>1. own' = own
      BY <1>7 DEF Even, Axis
    <2> QED BY <1>1, <1>7, <2>1 DEF place, InWindow, Shows, FitHere
  <1>8. ASSUME NEW a \in Axis, NEW d \in {-1, 1}, AdjustCell(a, d)
        PROVE  Shows(own', normal', m_TopLeft', m_Current', rect', m_enZoomMode')
    <2>1. own' = own \/ \A b \in Axis : DOMAIN own'[b] # {}
      BY <1>8, AdjustedUneven DEF AdjustCell
    <2> QED BY <1>7, <1>8, <2>1 DEF AdjustCell
  <1>9. ASSUME NEW dx \in {-1, 0, 1}, NEW dy \in {-1, 0, 1}, Drag(dx, dy)
        PROVE  Shows(own', normal', m_TopLeft', m_Current', rect', m_enZoomMode')
    <2> DEFINE o == Adjusted(own, "x", dx)
    <2>1. o = own \/ \A b \in Axis : DOMAIN o[b] # {}
      BY AdjustedUneven DEF Axis
    <2> HIDE DEF o
    <2>2. own' = Adjusted(o, "y", dy)
      BY <1>9 DEF Drag, o
    <2>3. own' = o \/ \A b \in Axis : DOMAIN own'[b] # {}
      BY <2>2, AdjustedUneven DEF Axis
    <2> QED BY <1>7, <1>9, <2>1, <2>3 DEF Drag
  <1>10. ASSUME NEW mode \in BOOLEAN, SetCellAjustmentMode(mode)
         PROVE  Shows(own', normal', m_TopLeft', m_Current', rect', m_enZoomMode')
    BY <1>7, <1>10 DEF SetCellAjustmentMode, sizes
  <1>11. ASSUME NEW a \in Axis, MoveBack(a) \/ MoveOn(a)
         PROVE  Shows(own', normal', m_TopLeft', m_Current', rect', m_enZoomMode')
    <2>1. UNCHANGED <<m_enZoomMode, sizes, rect, resized>>
      BY <1>11 DEF MoveBack, MoveOn
    <2> QED BY <1>1, <1>11, <2>1, MoveShows DEF sizes
  <1>12. ASSUME NEW p \in [x : Int, y : Int], SetCurrentCell(p)
         PROVE  Shows(own', normal', m_TopLeft', m_Current', rect', m_enZoomMode')
    <2>1. UNCHANGED <<m_enZoomMode, sizes, rect>>
      BY <1>12 DEF SetCurrentCell
    <2> QED BY <1>12, <2>1, JumpShows DEF sizes
  <1>13. ASSUME NEW p \in Target, SetCurrentCell(p)
         PROVE  Shows(own', normal', m_TopLeft', m_Current', rect', m_enZoomMode')
    BY <1>12, <1>13, PlaceAssumption DEF Point
  <1>14. ASSUME NEW pixel \in Pixel, Tap(pixel)
         PROVE  Shows(own', normal', m_TopLeft', m_Current', rect', m_enZoomMode')
    <2>1. pixel.x \in Nat /\ pixel.y \in Nat
      BY PlaceAssumption DEF Point
    <2>2. CellbyPosition("x", pixel.x) \in Int /\ CellbyPosition("y", pixel.y) \in Int
      BY <2>1, TouchedType DEF IInv, TypeOK, Axis
    <2> QED BY <1>12, <1>14, <2>2 DEF Tap
  <1> QED
    BY <1>2, <1>3, <1>4, <1>5, <1>6, <1>8, <1>9, <1>10, <1>11, <1>13, <1>14 DEF Next

(***************************************************************************)
(* While no row or column has a size of its own, the current cell is in    *)
(* the window, for every screen, all zooms and every order of zooms,       *)
(* resets, moves, jumps and touches.                                       *)
(***************************************************************************)
THEOREM InSightCorrect == Spec => []CurrentInSight
  <1>1. Init => CurrentInSight
    <2> SUFFICES ASSUME Init PROVE InWindow(m_Current)
      BY DEF CurrentInSight
    <2>1. IInv /\ m_TopLeft = m_Current
      BY InitIInv DEF Init
    <2>2. ASSUME NEW a \in Axis PROVE m_Current[a] \in m_TopLeft[a] .. m_TopLeft[a] + FitHere(a)
      <3>1. FitHere(a) \in Nat /\ m_Current[a] \in Nat
        BY <2>1, FitType DEF FitHere, IInv, TypeOK, Point, Axis
      <3> QED BY <2>1, <3>1
    <2> QED BY <2>2 DEF InWindow
  <1> QED BY <1>1, Inductive, SightStep, PTL DEF Spec
=============================================================================
