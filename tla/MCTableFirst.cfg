\* Two tables, none of them asked for by name.
CONSTANTS
  Table = {"A", "B"}
  NoTable = NoTable
  CellKind <- Kinds
  Text = {"a"}
  Space = Space
  RowRepeat = {1}
  MaxRowRepeat = 2
  MaxTable = 2
  MaxRow = 1
  MaxColumn = 2
  MaxCell = 2
  MaxPiece = 1
SPECIFICATION Spec
INVARIANT OnlyTheFirstTable
