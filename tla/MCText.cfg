\* Texts of up to six elements four deep; 32 documents for the parser, cut anywhere, with
\* up to two calls (three on short ones) and two stops.
SPECIFICATION MCSpec
CONSTANTS
  Styles = {"standard"}
  NoStyle = "no style"
  Elements <- SomeElements
  MaxDepth = 4
  MaxElements = 6
  MaxPieces = 2
  DeclHandler = "EStatusOk"
  GroupChunk = 2
  ExpandSpare = 2
  InitBuffer = 2
  MaxCalls = 2
  ShortText = 14
  MaxStops = 2
  Documents <- SomeDocuments
INVARIANTS TextWherePromised TextEatenOnlyInCellsAndBoxes ParagraphsStaySeparate NoStaleNote AllToldAsWritten BoundedParser
PROPERTIES ParserAnswers
CHECK_DEADLOCK FALSE
