\* The sheet view on a tall screen and a wide one.
SPECIFICATION MCSpec
CONSTANTS
  Tree <- AllPaths
  Content = {"long", "short", "empty"}
  Entries <- InDirectory
  Stored <- InFile
  Size <- Bytes
  Packed <- Deflated
  NameSize <- Letters
  Path <- AddedPaths
  Part <- Members
  NoArchive = NoArchive
  Empty = "empty"
  Lost = "lost"
  MaxCalls = 2
  ParaNames = {"p1", "both"}
  TextNames = {"t1", "both"}
  NoName = "unnamed"
  NoParent = "no parent"
  MaxDeclared = 3
  MaxParagraphs = 2
  ListNames = {"l1", "l2"}
  Digits = 2
  MaxStyles = 2
  MaxLevels = 2
  MaxLists = 3
  MaxItems = 3
  MaxDepth = 2
  Small = Small
  Medium = Medium
  Large = Large
  Tall = Tall
  Wide = Wide
  Zoom = {Small, Medium, Large}
  Divident <- Ratio
  Divisor = 10
  Rect = {Tall, Wide}
  Room <- Screen
  MinSize <- Least
  MaxSize <- Greatest
  NormalSize <- Usual
  Step = 2
  LastColumn = 3
  ResetSize <- Resets
  Pixel <- Touches
  Target <- Asked
  MaxColumn = 4
  MaxRow = 2
INVARIANTS WellLaidOut CurrentInSight ArchiveFits StylesAligned StylesShown ListsShown
PROPERTIES TouchDoesNotScroll AdjustsAsAsked KeepsItsPromise
CHECK_DEADLOCK FALSE
