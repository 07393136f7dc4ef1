\* Repeated, spanned, coloured and empty cells and rows, up to three texts.
CONSTANTS
  Table = {A, B}
  NoTable = NoTable
  CellKind <- Kinds
  Text = {"a"}
  Space = Space
  RowRepeat = {1, 2, 3}
  MaxRowRepeat = 2
  MaxTable = 2
  MaxRow = 3
  MaxColumn = 4
  MaxCell = 2
  MaxPiece = 3
SPECIFICATION Spec
SYMMETRY Alike
INVARIANTS SheetAsWritten TextKeepsItsColour
