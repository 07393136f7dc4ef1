------------------------------- MODULE MCView -------------------------------
(***************************************************************************)
(* The sheet view over rows and columns of one size, the view while sizes  *)
(* are adjusted, the writer of archives, the styles of paragraphs and      *)
(* those of lists: one of the five at a time.                              *)
(***************************************************************************)
EXTENDS MCSheetView, Lists, Archive

VARIABLE
  which       \* "alike", "uneven", "archive", "styles" or "lists"

\* Moves, jumps, touches, zooms, resets and changes of the extent; a step too
\* large for the limits, so that no row or column gets a size of its own.
Alike == INSTANCE SheetView WITH Step <- 5

\* Adjusting three columns and a row, at every zoom and between moves.
Uneven == INSTANCE SheetView WITH
  Rect <- {Tall}, LastColumn <- 2, ResetSize <- {}, Pixel <- {}, Target <- {},
  MaxColumn <- 2, MaxRow <- 0

\* A directory that holds a file, a directory with another file, and an empty one.
Docs == <<"c", "docs", "">>
File == <<"c", "docs", "a">>
Sub  == <<"c", "docs", "sub", "">>
Deep == <<"c", "docs", "sub", "b">>
Void == <<"c", "docs", "void", "">>

InDirectory(dir) ==
  IF dir = Docs THEN <<File, Sub, Void>> ELSE IF dir = Sub THEN <<Deep>> ELSE <<>>

\* One content becomes smaller when it is deflated, one does not.
InFile(path)      == IF path = File THEN "long" ELSE "short"
Bytes(content)    == IF content = "long" THEN 3 ELSE IF content = "short" THEN 1 ELSE 0
Deflated(content) == 2
Letters(name)     == IF name = <<"">> THEN 0 ELSE Len(name)

\* Two members added by name, and one under the name of a directory.
Members ==
  {[path |-> <<"mimetype">>, content |-> "short", level |-> 0],
   [path |-> <<"META-INF", "manifest">>, content |-> "long", level |-> 1],
   [path |-> Void, content |-> "long", level |-> -1]}
AllPaths   == {Docs, File, Sub, Deep, Void} \cup {m.path : m \in Members}
AddedPaths == {Docs, File}

MCInit ==
  /\ which \in {"alike", "uneven", "archive", "styles", "lists"}
  /\ IF which = "alike" THEN Alike!Init ELSE Uneven!Init
  /\ ZipInit /\ StylesInit /\ ListsInit

MCNext ==
  /\ UNCHANGED which
  /\ \/ which = "alike" /\ Alike!Next /\ UNCHANGED <<zipVars, styleVars, listVars>>
     \/ which = "uneven" /\ Uneven!Next /\ UNCHANGED <<zipVars, styleVars, listVars>>
     \/ which = "archive" /\ ZipNext /\ UNCHANGED <<vars, styleVars, listVars>>
     \/ which = "styles" /\ StylesNext /\ UNCHANGED <<vars, zipVars, listVars>>
     \/ which = "lists" /\ ListsNext /\ UNCHANGED <<vars, zipVars, styleVars>>

MCSpec == MCInit /\ [][MCNext]_<<vars, zipVars, styleVars, listVars, which>>
=============================================================================
