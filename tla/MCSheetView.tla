---------------------------- MODULE MCSheetView ----------------------------
(***************************************************************************)
(* SheetView at the real zoom ratios (1.0, 1.4, 1.7) on a small screen     *)
(* with small cells; the wide screen shows one column more.                *)
(***************************************************************************)
EXTENDS SheetView

CONSTANTS Medium, Large, Tall, Wide

Ratio == [z \in Zoom |-> CASE z = Small -> 10 [] z = Medium -> 14 [] z = Large -> 17]

At(w, h) == [x |-> w, y |-> h]

\* The headers grow with the zoom and leave the sheet less room.
Screen == [r \in Rect |-> [z \in Zoom |->
  LET lost == IF z = Small THEN 0 ELSE 1
  IN IF r = Tall THEN At(8 - lost, 8 - lost) ELSE At(10 - lost, 5 - lost)]]

\* A screen that shows six narrow columns, fewer and fewer as the zoom grows.
Broad == [r \in Rect |-> [z \in Zoom |->
  CASE z = Small -> At(20, 8) [] z = Medium -> At(18, 7) [] z = Large -> At(16, 6)]]

Least    == At(2, 2)
Greatest == At(4, 4)
Roomy    == At(6, 2)
Usual    == At(2, 2)
Resets   == {At(2, 3), At(6, 5)}
Touches  == {At(0, 1), At(1, 4), At(7, 1)}
Asked    == {At(0, 0), At(0, 2), At(3, 1)}
NoResets == {}
Nowhere  == {}
=============================================================================
