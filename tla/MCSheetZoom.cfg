\* Zooming over columns of different widths: five columns and a row, at every zoom and between moves.
CONSTANTS
  Small = Small
  Medium = Medium
  Large = Large
  Tall = Tall
  Wide = Wide
  Zoom = {Small, Medium, Large}
  Divident <- Ratio
  Divisor = 10
  Rect = {Tall}
  Room <- Broad
  MinSize <- Least
  MaxSize <- Roomy
  NormalSize <- Usual
  Step = 2
  LastColumn = 4
  ResetSize <- NoResets
  Pixel <- Nowhere
  Target <- Nowhere
  MaxColumn = 4
  MaxRow = 0
SPECIFICATION Spec
PROPERTY ZoomShowsCurrent
