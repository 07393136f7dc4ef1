\* Searches stay inside the key; the container alone goes beyond it.
SPECIFICATION MCSpec
CONSTANTS
  Columns = {0, 1}
  Rows = {0, 1, 2}
  Position <- GridAndBeyond
  Text = {"Abc", "abc"}
  LowerCase <- SmallLetters
  Contains <- Parts
  FlagSets <- SomeFlags
  Cell = {"Abc", "x"}
  KeyMod = 3
  Far = 9
  Stale = Stale
  NoText = NoText
  None = None
  Failed = Failed
  Unreached = Unreached
INVARIANTS Consistent CellsAsPut SearchMovesOn
PROPERTIES SweepSpec OnlyTheCornerIsMissed
