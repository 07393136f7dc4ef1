# A TLA+ model of Office Reader

Office Reader (`officereader/`) shows OpenDocument texts, spreadsheets and
presentations on Symbian phones (S60 3rd edition and UIQ 3).  This directory
holds TLA+ modules that model its own logic, the TLC configurations that check
them, and proofs checked by TLAPS.

Everything runs on one thread.  What makes the program hard is not parallelism
but the long-lived state that many small callbacks share: the handlers the XML
parser calls element by element, the active objects that decode pictures long
after the text is there, the cursors (of a search, of a spreadsheet cell) that
stay where they are while something else changes under them, and the views that
come and go while the document still points to them.

## 1. Inventory

### Sheet control (`sheetcontrol/`)

| Part | State | Operations | What makes it correct |
|---|---|---|---|
| Cell container `CCellMapArray` (`cell_array.cpp/.h`) | B-tree from packed keys to cells, bounding rectangle `m_Range`, counter `m_nCount`, one iterator `m_Pos` shared by all readers | `InsertL`, `DeleteL`, `RemoveAllL`, `AtL`, `IsExistL`, `GetFirstL`, `GetNextL` | the counter and the rectangle follow the tree; a position holds what was put there, though its key belongs to others too; the iterator is not used across edits |
| Sheet model `CSheetModel` (`sheet_model.cpp`) | text and flags of the present search, where it resumes (twice: iterator and `m_OrderSearchPosition`), a flag begin / resume / end | edits of cells; `FindFirstL`, `FindNextL` in three orders | a sweep names every match once and then says there is none, whatever is edited between two calls |
| Sheet view `CSheetView`, sizes `CSheetData`, geometry `CSheetDrawer`, control `CSheetCtrl` | current cell, corner of the window, zoom, sizes of rows and columns, adjustment mode | moves, jumps, touches, zoom, resets, adjusting by keys and drags, rotation and full screen | the current cell is where it can be seen and drawn; an adjustment does what was asked at the zoom shown |
| Cells `CCell`, `CCellFormat` | text, type, colour, alignment | setters | see the spreadsheet reader |
| `sheet_trace.cpp`, `sheet_lib.cpp` | none | logging, library entry | - |

### Engine (`officereader/Engine/`)

| Part | State | Operations | What makes it correct |
|---|---|---|---|
| Spreadsheet reader `CTableXML` and the cell cursor of `COpenDocument` | repeat and span counters, "is this the table asked for", the position of the cursor, the last row with text | one handler per element | every cell's text and colour end up where the document puts the cell, and nothing else is shown |
| Text reader `CTextXML`, `CTags`, `CXML` | stack of open tags, flags for notes, headers, lists | one handler per element, one for text | pushes and pops match; a text node goes to the paragraph, note, table or header it belongs to |
| Styles `CPara`, bullets `CBullets` | stack of styles, stack of list levels with their numbers | enter, leave, look up by name | the style after an element is the one before it; numbering of nested lists |
| Pictures `CCImageEngine`, `CMyPicture` and their host `COpenDocument` | the engines in the order started; each with its request, its two stages and its data | start, completion, error, cancellation, callback into the view on the screen | each picture is shown once, in its place; data are deleted once; nothing waits for ever |
| Notes and the floating box (`COpenDocument`, `CTextBox`) | the notes, the index shown, nesting of boxes | add, next, previous, clear | the index stays inside the notes |
| Document life cycle, encryption (`COpenDocument`, `CEncryptionData`, `CEncryptDecrypt`, BlowFish) | archive, parts unpacked, key data, password | open, ask for the password, read, close | nothing of one document survives into the next; a wrong password shows nothing |
| Archives `CCZip`, `CCreateZip`, `crc32` | offsets of entries, central directory | unpack, write | offsets written are those of the entries |
| Word wrap `hint.h` | none | wrap a text at a width | no word lost, no line too long |
| XML parser SyExpat / expat (`SyExpat/`) | string pool, hash tables of names, state of the prolog, open tags with their namespaces, buffer, position | tokenize, parse in pieces, stop, reset; callbacks | what is told is what the document means, however it is cut; a finished name stays where it is |

### Front ends

| Part | State | Operations |
|---|---|---|
| S60 (`S60_3rd/src`) | the active view, where Back leads, the current item of the list | menu commands that call the engine and the sheet |
| UIQ (`UIQ3/Src`) | views, scroll bars | the same over another framework |

### How they interact

```
   S60 / UIQ views --commands--> COpenDocument --starts--> SyExpat --callbacks--> CTextXML / CTableXML
        ^    |                        |  ^                                            |
        |    +--search, moves------+  |  +------------- AddTextL, AddCellText, GetPicture
        |                          v  v
        |                    CSheetCtrl: CSheetView + CSheetModel + CCellMapArray
        |                             |
        +---HandleControlEventL, text-+------ CCImageEngine (active objects, run later)
```

The reader drives the sheet through `COpenDocument`'s cursor; views drive it
through moves and searches; both share `CCellMapArray`'s one iterator.  Pictures
are started by the reader and come back after it has returned, possibly to a
view that has been replaced.

The behaviours that are hard to test are listed one by one, with their source
lines and the properties that watch them, under `hazards` in `PROJECT.json`.

## 2. What is modelled

| Module | Code | Built on |
|---|---|---|
| `CellMap` | `CCellMapArray` | - |
| `SheetModel` | `CSheetModel`: every edit and every search | `CellMap` |
| `SearchSpec` | abstract: what a caller of Find / Find Again relies on | refined by `SheetModel` |
| `SheetView` | `CSheetView`, `CSheetData`, `CSheetDrawer`, `CSheetCtrl` | - |
| `TableXML` | `CTableXML`, cursor of `COpenDocument` | - |
| `TextXML` | `CTextXML`, `CTags`, and the edits of the text in `COpenDocument` | - |
| `ParaStyles` | `CPara`, as `CTextXML` declares and uses its styles | - |
| `Lists` | list styles of `CPara`, `CBullets` | `ParaStyles` |
| `Pictures` | `CCImageEngine`, `COpenDocument`, the S60 commands that change the view | - |
| `Viewer` | `COpenDocument` (file, type, keys, notes, box, tables, engines) under the four S60 views | - |
| `Archive` | `CCreateZip`, and `CCZip` as its reader | - |
| `ArchiveSpec` | abstract: what writer and reader promise together | refined by `Archive` |
| `XmlTok` | the tokenizers of content, prolog, CDATA sections and values | - |
| `XmlValue` | attributes, references, values, the XML declaration | `XmlTok` |
| `XmlTokens` | inputs that arrive symbol by symbol, and the grammar of XML | `XmlValue` |
| `XmlRole` | `xmlrole.c`: the roles of the tokens of the prolog | - |
| `XmlDtd` | `doProlog`: declarations, and what SyExpat tells of them | `XmlRole`, `XmlValue` |
| `XmlProlog` | prologs token by token, the grammar, the meaning of declarations | `XmlDtd` |
| `XmlContent` | `doContent`, `storeAtts`, bindings, CDATA sections | `XmlDtd` |
| `XmlParser` | `XML_Parse`, its buffer, Stop, Reset; `CExpatParserBase` | `XmlContent` |
| `StringPool` | `STRING_POOL` | - |
| `XmlNames` | `HASH_TABLE`, element types, attributes, prefixes | `StringPool` |
| `NameSet` | abstract: three growing sets of names, an answer to each call | refined by `XmlNames` |
| `*Proof` | theorems; those about `CellMap`, `Lists` and `Archive` are in `SheetModelProof`, `ParaStylesProof` and `PicturesProof` | the module each one names |
| `MC*` | small instances for TLC | |

Names of variables and actions are those of the source.  Where an action stands
for several functions its comment names them; `map` in `PROJECT.json` gives the
lines of every definition.  Variables marked "history" or "environment" in their
comments are not the program's: they record what was asked of it, what the
document says, or that a case occurred about which a property makes no promise.

**CellMap.**  The tree is a function from keys to cells; a key is the pair of
coordinates modulo `KeyMod` (2^16 in `cell_array.h`).  Three variables are history:
`owner`, the position each entry was inserted at; `stored`, the sheet as its callers
believe it to be, one cell for each position and no keys; `disturbed`, the positions
at which that belief may be wrong, because another position with the same key was
used.  An insertion or a deletion moves entries between the pages of the Symbian
B-tree, so that the shared iterator is `Stale` afterwards, and `GetNextL` from there
may go to any entry.

**SheetModel.**  The state of a search is `m_lSearchFromBegin` (`ETrue`,
`EFalse` and the undocumented 2, here "begin", "resume" and "end"), the shared
iterator and `m_OrderSearchPosition`.  The two nested loops of `FindNextL` are
one operator: the walk is the set of positions the loops visit, given where
`xBegin` is reset.  A search by columns is the search by rows over the
transposed sheet, as it is in the code.  `reported` and `fresh` are history:
what the present sweep has named, and whether an edit came between.  `SheetInit`,
`SheetNext` and the other names that begin with `Sheet` are the whole sheet's;
without the prefix they are the container's.

**SheetView.**  Both dimensions are one function over `Axis`.  Sizes are kept
unzoomed and shown zoomed, with the rounding of `sheet_data.cpp` both ways.
`SwitchLayout` scrolls with the old window and then gets the new one, in the
order of `CSheetCtrl::HandleResourceChange`.  `own` takes the newest entry for a
row or column: the array behind it (`sheet_data.h:296`) is inserted into with
duplicates allowed, and the callers rely on the newest being found.

**TableXML.**  The environment is the parser, which reports any well-formed
spreadsheet within the bounds, one element at a time: cells with their attributes,
the covered cells that must follow a cell that spans columns or stand below one that
spans rows (`StartCovered`; the code handles neither their tags nor
`number-rows-spanned`), texts in pieces.  `column`, `row`, `announced` (covered
cells still to come in this row), `hanging` (positions covered from above),
`written` and `colours` record what the document says, computed from the attributes
and never from the reader's counters: a cell is written at every repetition of its
column and of its row.  Where the code shows less, the property says so and not the
record: `again` are the rows that repeat the one above, `spoilt` the places behind
which a row is shifted by covered cells, and `Faithful` says which pieces of a text
each repetition of a cell shows.  The file may differ between two readings, and a
reading without a name may come after one with a name and find its `iCellEnd`.  By
`SpanAssumption` a cell that spans columns is not repeated, as the cells it covers
would stand between; two bounds: in a repeated row no cell is covered from above and
none spans rows.  `cut` is set once a row repetition beyond the limit (100 in the
code, `MaxRowRepeat` here) was taken for 1, `astray` once a `text:s` was read
outside the cells asked for; the properties make no promise after either.

**TextXML.**  The reader decides by its stack of open elements where a text node
goes.  A character of the text is known by what it is for (text, link, inserted
text, line end, paragraph end, ...); a footnote is the sequence of its pieces.
`mixed` is set once a paragraph stood in a paragraph; deletions say from where in
the document (cell, box, flow of text) they took a character.  What `CPara`
answers is one value here, the style in use; how it comes to that is
`ParaStyles`.

**ParaStyles, Lists.**  Parallel arrays with three positions, and a stack of
levels for each list style.  A format is known by the style whose declaration set
it last, a bullet by its level and number.  The environment declares and uses
styles in the order of the two files of a document (`part`).  The flags `lost`,
`again`, `orphan`, `moved`, `foreign`, `short`, `unstyled` and `late` name the
cases of section 6; the properties are about everything else.

**Pictures.**  An engine is a record: what it is for, where its picture belongs,
its stage, whether a request is outstanding, its data, its outcome.  `iEditor`
and `iBitmapContainer` are the document's pointers into the views; after a view
is left they dangle, and what a callback does through them is a choice between a
crash and nothing visible.

**Viewer.**  The document object is one record, because its operations call each
other in the middle of an action; each operation is an operator from a record to
a record, each action is a whole command.  What is on the screen is the record
`ui`.  Reading a file is one step: what becomes of its elements is `TextXML` and
`TableXML`; here it yields its notes, its engines and its tables (all of them
without a name, as run `table_first` finds, the one named otherwise), or, without
the right key, nothing that makes sense.  `sought` is history: the files whose
thumbnail was asked for since a document was last read.  `temps` are the archives
taken out of hybrid PDFs, `litter` those left when the program died.  A panic is
the value of `stop`; the user starts the program again.  An archive that cannot be
opened is a leave: in a command over a sheet the framework traps it and the
program goes on with an emptied sheet (`UnreadSheet`); while a view is activated
the container stays half made, and whether the program goes on with it or is
given up is left open (`HalfMade`).

**Archive.**  The file is a sequence of pieces with sizes, so that the offsets in
the directory can be followed as `CCZip` follows them.  A write may stop behind
any piece, `AddFile` may leave inside a directory.  What is on a disk and in its
files are parameters (`Tree`, `Entries`, `Stored`, `Content`), and so are the bytes
of a content, deflated or not, and of a name.  `ArchiveConstants` says of them that
a directory lies in another, a drive at least (`GetDir` lists what is below it and
`directory_level` counts names from there), and that only an empty content has no
bytes.  A file that is not there and one of no bytes are one state: neither has an
end record.

**XML parser.**  The input is a sequence of symbols (a byte, or a word that is
never cut); characters of two bytes are two symbols.  The tokenizer is a set of
operators from a position to a token.  The prolog is a table of rows (`XmlRole`)
and an operator for each declaration (`XmlDtd`).  `XmlParser` takes one step per
token, so that a handler can stop the parser after any of them, and one per call
of the application, which may cut the document anywhere.  The tree a document was
written from is kept beside its text: what the handlers should hear is computed
from the tree.

**StringPool, XmlNames.**  Blocks have addresses; memory may fail, may return an
address that was freed, may move a block it enlarges.  `XmlNames` puts the names
of the tables into the pool as the code does: built first, then kept or
discarded.  `XmlNames` uses the whole pool, so that a table's entry is the address
of a string that must still be there.

Several small components share a run (see section 3): the module of the run holds
a variable `which` that says which of them moves, and none of them can disturb
another.

## 3. The runs

| Run | Bounds | What it shows |
|---|---|---|
| `sheet` | `KeyMod` 3. `which`: the container alone, on three positions inside the key and two beyond it, (0, 3) and (3, 0), that share the key of (0, 0), with two contents; fast searches on 2 x 2, two texts, four sets of flags (one refused); ordered searches by rows and columns on 2 x 3 | `Consistent`: counter, rectangle and tree agree. `CellsAsPut`: a position holds what was put there, until one that shares its key is used. `SweepSpec`: a fast search implements `SearchSpec`, with every edit between two calls. `SearchMovesOn`, and, on sheets whose lines end in cells, `OnlyTheCornerIsMissed` for ordered searches |
| `view` | `which`: a sheet of equal sizes (5 columns, 3 rows, two extents), one of uneven sizes (3 columns), both at the three real zooms; archives of up to two calls over a directory with a file, a directory in it and an empty one; three styles, two paragraphs; two list styles of two levels, three lists, three items | `WellLaidOut`, `CurrentInSight`, `TouchDoesNotScroll`, `AdjustsAsAsked`; `ArchiveFits`, `KeepsItsPromise` (`Archive` implements `ArchiveSpec`); `StylesAligned`, `StylesShown`; `ListsShown` |
| `table` | two tables, two cells, three rows, four columns; rows repeated 1, 2 and beyond the limit; four kinds of cells: bare, coloured and repeated three times, spanning two columns, of type string, coloured and spanning two rows; covered cells; three texts or spaces, in one cell or in several, inside and outside of covered cells | `SheetAsWritten`, `TextKeepsItsColour` |
| `text` | `which`: the reader on texts of six elements, four deep, two text nodes; the parser on 32 documents, well-formed and not, two calls (three on short ones), two stops | `TextWherePromised`, `TextEatenOnlyInCellsAndBoxes`, `ParagraphsStaySeparate`, `NoStaleNote`; `AllToldAsWritten`, `BoundedParser`, `ParserAnswers` |
| `pictures` | two characters, three pictures, one thumbnail | `PicturesSafe`, `NeverTooEarly`, `EveryPictureSettles` |
| `viewer` | a letter with notes, picture and thumbnail, and with it either an encrypted hybrid PDF and an encrypted sheet of two tables, both of which may vanish, or a file of unknown type with a thumbnail of its own | `BoxShowsCurrentNote`, `LegibleWhenUnlocked`, `ShowsTheOpenFile`, `BackToOrigin`, `NoArchiveLeft`, `ThumbnailArrives` |
| `names` | `which`: two names of elements and three of attributes, three calls; the pool alone, three blocks, two finished strings, three characters; tokenizers on beginnings of inputs and three to five symbols more | `PoolSafe`, `TableSound`, `KeepsTheNames` (`XmlNames` implements `NameSet`); `MarkupIsXml`, `TokensStand`, `ValuesAsWritten` |
| `prolog` | five beginnings of a prolog and five to eight tokens more | `LanguageIsXml`, `DtdAsDeclared` |
| `sheet_rows` | 2 x 3 sheet | **violated**: `RowSweepComplete` |
| `view_zoom` | 5 columns of different widths | **violated**: `ZoomShowsCurrent` |
| `table_first` | two tables, no name asked for | **violated**: `OnlyTheFirstTable` |
| `pictures_place` | two pictures | **violated**: `PicturesInTheirPlace` |

Why these bounds are enough.  A search cursor can go wrong at the start of a
line, at its end, at the corner and between two lines: two columns and three
rows have all four, and every hole in them is reached by deletion.  Sizes can go
wrong at a limit and by rounding: the real ratios 1.0, 1.4 and 1.7 are used,
with limits a few pixels apart so that each adjustment meets one.  A window of
two to three cells has an inside, an edge and an outside.  The counters of the
spreadsheet reader survive one cell at most into the next, or one table into the
next: two of each, read twice (the second reading with `iCellEnd` of the first),
show every case of a counter left over.  A cell repeated three times has a first,
a middle and a last repetition; three rows hold one that repeats the row above,
one covered from above, and one below either.  Three pictures have an order of arrival
that is neither the order started nor its reverse, and the thumbnail adds an
engine to the list that is not a picture of the text.

In the text reader the longest chain of elements that decides about a text node
is a note body in a note in a paragraph with a comment or deletion around or in
it; six elements hold that and another paragraph before or behind it.  Of the
elements the reader treats alike one is used (`SomeElements`).  Of styles, what
can go wrong is an insertion before others: a paragraph style behind a text
style, a default style without a name, a name in both families, three
declarations.  The `Void` directory and `File` are the archive's cases of nothing
inside and one thing inside; `Deep` is the one that makes `directory_level` count
to two.  The viewer's files differ in every predicate the code asks of a file,
and its one document object forgets or keeps everything within two files: the
third is opened to see what the second kept of the first.  They are on the phone
in two groups (`Disks`): the letter with the encrypted files, which have passwords
and notes to confuse, and the letter with the other file that has a thumbnail, so
that the engine of one file is at work, and done first or last, while the
thumbnail of the other is waited for.  All four together cost many times the
states, and the unknown file shares no code with the encrypted ones that the
letter does not also take.

For the parser the cut may be anywhere in the document, and every call may be the
final one.  On documents of more than fourteen symbols a second call brings all of the
rest, one symbol or none (`Amounts`), which are the cases a processor distinguishes:
it goes on, it waits again, it is at the end.  `InitBuffer` is 2 instead of 1024, so
that the buffer is moved and enlarged in the middle of every document; `GroupChunk` 2
instead of 32, `ExpandSpare` 2 instead of 24 and `InitSize`, the first size of a table
of names, 4 instead of 64 likewise.  The tokenizers decide by at most three symbols of
lookahead.

Deadlock is checked where the system cannot stop by itself: `sheet`, `table`,
`viewer` and the violated runs but `pictures_place`.  In the others a component
that crashes or panics, a document read to its end, or a prolog, an input or a
number of calls at its bound has no successor.

### Fairness

`Pictures`: the parser returns (`WF` on `EndOfDocument`: the file is finite), and
each engine's `RunL` runs once its request is complete (`WF` on `RunL(i)`: the
active scheduler runs every active object that is ready, and the image servers
complete every request, with success or an error, and do not report
`KErrUnderflow` for ever).  `RunL` includes the step that goes on decoding, which
changes nothing; weak fairness asks for a step that changes something.

`Viewer`: the same for the engine of each picture and thumbnail (`WF` on
`EngineDone`).  A file has one thumbnail, so that two engines for it do the same;
engines of different files are distinct, come back in any order, and each is
waited for by itself.

Nothing is assumed of the user, and nothing of the application above the parser:
that `Parse` is called again until the document is over is its affair, and no
liveness is claimed there.

## 4. What the violated runs say of the code

* **Find Again by rows misses the last cell** (`sheet_model.cpp:358`): after a
  match the position is advanced and then compared with the corner; a match
  right before the corner makes the corner "already reported".  By
  `OnlyTheCornerIsMissed` this is all that is missed on a sheet whose lines end in
  cells, with or without holes before.
* **A zoom can hide the current cell** (`sheet_view.cpp:296`): the number of
  cells that fit is counted from the old corner.  Over cells of one size it
  cannot (`CurrentInSight`).
* **Without a name all tables are shown** (`XML.cpp:500`), not the first.
* **Pictures are put too far back** (`OpenDocument.cpp:995`): each is moved on
  by the number of all engines but one, not of the pictures inserted before it.
  By `NeverTooEarly` the error goes in one direction only.

## 5. What is proved

All theorems hold for every value of the constants that satisfies the modules'
named assumptions.  Each inductive invariant, or what it adds to the properties, was
checked by TLC in the run of its module before it was proved.

**SheetModelProof, of `CellMap`** (assumes `PositionAssumption`, `KeyModAssumption`,
`FarAssumption`).  `IInv` is `TypeOK`, `CountExact`, `RangeCovers` and that the tree
is finite; the last is not an invariant anybody asked for, but without it a
cardinality cannot be compared with a counter.  From it `ContainerCorrect`
(`Consistent`).  `CellsCorrect` (`CellsAsPut`) is about the keys, for coordinates of
any size.  `Kept` strengthens the property: every entry of the tree belongs to a
position something was put at, and a position not `disturbed` has an entry of its
own, with what was put there (`InPlace`).  Two positions have one key exactly when
their rows and their columns are a multiple of `KeyMod` apart (`KeysShared`, from
lemmas about division), so that an operation at another position changes this one's
entry only if it is noted in `disturbed`.

**SheetModelProof, of `SheetModel`** (those of `CellMap`; `FlagAssumption`: callers
pass flags; `AnswerAssumption`: "no", a leave and a failed assertion are told apart,
and no place is "no").  `State` is the invariant of the container and the types of
the search. `FastRefines` (`SheetSpec => SweepSpec`, every step of a fast search a
step of `SearchSpec`) rests on `SweepInv`: in a sweep without edits what was
reported is what matches up to the iterator, and a sweep taken for ended stands at
the corner of `m_Range`.  The corner is the end although `m_Range` keeps an extent
that deletions have left, and although keys wrap: a key is not greater than the
position it was made of, so no key comes behind the corner
(`NothingBehindTheCorner`).  The searches by rows and columns rest on `WayInv`,
which says how far a sweep has come when the next call begins (`Reached`): its
answers lie before that place, in order; the place lies in the range; and on a sheet
whose lines end in cells (`Closed`) everything asked for before it was named.  The
last needs that the walk meets every cell, over all holes (`WalkMeetsAll`): `xBegin`
falls back to 0 only behind a line whose last place holds a cell, and on such a
sheet all do.  From it `WayCorrect` (`SearchMovesOn`) and `CornerCorrect`
(`OnlyTheCornerIsMissed`).

**SheetViewProof** (`ZoomAssumption`, `RoomAssumption`, `SizeAssumption`,
`PlaceAssumption`).  `IInv` is `TypeOK` and `CornerNotPastCurrent`.  The types alone
are not inductive: a move back takes one from the corner, and only the order of the
two cells says that the corner is not at zero.  `LayoutCorrect` adds the limits of
the sizes (`WithinLimits`), which need the rounding: a size shown within its limits
is kept as one within the limits of sizes kept. `AdjustmentCorrect` is arithmetic:
what is kept was unzoomed rounding down and is shown rounding up, so that what was
shown before is shown again (`RoundTrip`), and what a step makes of it is shown as
asked or one pixel short (`ShownAgain`); at the small zoom nothing is rounded
(`AdjustStep` has both cases).  The rounding is exact because no zoom is smaller
than 1 and none as large as 2, which `ZoomAssumption` states. `TouchCorrect`
(`TouchDoesNotScroll`) and `InSightCorrect` (`CurrentInSight`) are about where cells
end, a recursive function over the naturals.  That there is such a function is
proved by the smallest number at which it could fail (`EndsExist`, `EndsAreEnds`),
which needs no induction theorem.  A touch then finds a cell that ends in the
window, or the one behind the last of them (`TouchedInSight`).  Over cells of one
size the same number of cells fits behind every corner (`EvenFit`), so that a number
counted from the old corner is right for the new one; `ScrollShows`, `MoveShows` and
`JumpShows` follow.

**TableXMLProof** (`KindAssumption`, `SpanAssumption`, `RepeatAssumption`,
`NameAssumption`).  What the
properties say of the time between two cells needs to be said of the inside of a
cell first.  `Cursor`: until a cell has text other than spaces the cursor is at its
first position and all its repetitions are to come; afterwards it is at the last
and none is; and in either case `EndCell` walks on to the column behind the cell.
That is so while the reader is on course (`OnCourse`).  Behind a cell covered from
above, or a text in a covered one, it need not be (`Lost`): cursor and document
are both behind a spoilt place, in one row still, and the end of the row brings
them together.  `Sound` is what the properties say of such rows: the places before the
first spoilt one.  `Content`, `Colour` and `LastRow` say of the open cell what it
holds so far; of a repetition, that it shows a stretch of the text so far which
contains its first characters (`Stands`), from which `Faithful` follows when the
cell is closed (`StandsFaithful`).  That a cell is not written twice follows from
`AllPast`: what was written lies before the place the document has come to.  A
document read without a name needs two parts more, as later tables go to the same
sheet: `NotYet`, nothing is shown before the table asked for begins, and
`AllAbove`, the cursor stays below all that was written.  The one premise about
documents is `SpanAssumption`, no cell both spans columns and repeats; TLC finds
`SheetCorrect` false without it.  `SheetCorrect` (`SheetAsWritten`) and
`ColourCorrect` (`TextKeepsItsColour`) hold for documents of every size, and any
number of readings one after another.

**PicturesProof** (`BoundAssumption`).  `Inv` is `TypeOK`, `DataDeletedOnce` and
`ActiveHasData`: an engine with a request outstanding still has its data.  The
destructor deletes the data only through `Cancel()`, which calls `DoCancel` only
while a request is outstanding, so the two deletions exclude each other; the
dangling pointer left by `RunL` is harmless for that reason and no other.
For `PlaceCorrect` (`NeverTooEarly`) the invariant is `PlacedInv`: while the
document is read no picture stands in the text, every picture that does is that
of an engine at rest, and no engine's picture stands there twice.  So before the
place of a picture there are at most as many others as there are engines but
one, which is the number the code adds to the place (`CharsCounted`): what is
left is text, and enough of it.

**PicturesProof, of `Archive`** (`ArchiveConstants`).  `WriterCorrect` is
`ArchiveFits`, `ArchiveRefines` is `KeepsItsPromise`: for every tree of directories,
every content, any number of calls and of writes that stop anywhere, whoever opens
the archive sees what was listed when it was written, or no archive.
`ArchiveInv` has two parts.  `ListInv` is about the names.  The code keeps of a path
as many names as `directory_level` says, and only while that is the number of
directories under way, each one name below the next (`Walking`), does the name begin
at the root the caller gave; a call that leaves from within a directory breaks this
for good, which is why the names are promised only before one did (`strayed`).
The other part is about the disk: `FileFits` of what is there.  It follows from how
`WriteToFile` lays out a file (`LaidOut`), and the offsets from an induction over
the entries: where the code counts the bytes written so far, the pieces end
(`EntryEnds`, `EndsAtOffsets`), be there data or not and a descriptor or not.  A
reader who looks for a piece at that offset finds this one, because only data may
be empty (`PieceFound`), and every header is found once (`BeforeDirectory`,
`TheDirectory`).  For the refinement the entry read back must be the content listed
(`ReadAsPromised`), and each call must be a step on what is listed: one member more,
one less, one for another, none, or all gone (`Reworked`).  `Sums` and `FlattenSeq`
are recursive functions; what they are is shown by the least number at which they
would be something else (`SumsAre`, `Flattened`).

**TextXMLProof** (`StyleAssumption`, `BoundAssumption`).  The properties speak of
the text and the notes, the invariant of the stack of elements (`Good`): each
element stands in a parent it may stand in (`Nested`), what belongs into a
paragraph has one around it (`HasParagraph`), between such an element and its
paragraph there are only elements that start no paragraph, or one of the three
in which a paragraph may start again (`OnlyPlain`), and no note stands in a note
(`OneNote`).  From the stack follows what a removal of a character meets
(`DeletionsSilent`) and which part of a note is under construction (`NoteInv`).
`SeparateCorrect`, `EatenCorrect` and `NoStaleNoteCorrect` hold for documents of
every depth and length.

`PromiseCorrect` (`TextWherePromised`) adds `ShownInv`: but for what a new
paragraph removed, the text shown is at every moment the text due, and the links
shown are as many as the notes finished and the one begun (`LinkInv`).  Elements
are `Quiet`: they neither put text nor take any unnoticed, and so only a text
node changes either side.  There the flags of `CTags` must lead where the
document wants the node (`RoutedAsWanted`); that fails only where a hidden text
overlaps a note or a change (`mixed`), the premise of the property.  The
selection of characters (`Only`) is a recursive function; that there is one for
every text is shown by looking at the least length at which there were none
(`KeptReach`), that there is only one likewise (`KeptAgree`).

**StringPoolProof** (`BlockAssumption`, `SizeAssumption`).  `Good` has six parts:
the types (`Typed`), the finished strings stand where they stood (`Stay`), in the
current block they lie before the string being built (`Behind`), none lies in a
free block (`NotFree`), no block is in the lists twice (`Once`), and what is in
the lists is allocated (`Allocated`).  `Behind` is why a block may be enlarged,
and so moved, only when the string being built starts it: `Alone` in `Grown`.
`PoolCorrect` is for every memory, every alphabet and every size of the first
block; it needs no bound on the number of blocks.

The larger part of the module is about `XmlNames` (`NamesAssumption`: the special
characters are characters and the mark is not the closing 0, names are made of
characters other than it; `ColonAssumption`: no name has two colons, which the
model of `setElementTypePrefix` rests on; `InitSizeAssumption`).
`TablesCorrect` is `TableSound` for all names, hashes, numbers of attributes of a
tag and failures of memory, under one hypothesis, `HashesAreNumbers`: `hash` is an
`unsigned long` for every text.  It is no ASSUME because TLC cannot go through
all the texts.  The argument has three layers.

* The walk.  The sizes of the tables are powers of two, and the steps
  (`ProbeStep`) odd, so that a walk comes to every place once (`WalkOnce`,
  `WalkThrough`).  The backends know nothing of powers: `Coprime` says of a size
  what is needed, that an odd factor can be divided out, and it is passed on when
  a size is doubled.
* A table (`Sound`).  Every entry lies on the way of its own hash with no empty
  place and no namesake before it (`InPlace`), and half the places at least are
  empty, so that each search ends (`FreePlace`).  Entering a name and copying the
  entries into a table of twice the size preserve that (`EntryPut`,
  `RehashedWell`, `LookupWell`).
* The pool under the tables (`Well`).  Every entry points into a finished string
  before one of its zeros (`Held`), so that what it reads as cannot change
  (`ReadStays`); the character before the name of an attribute lies in no
  finished string (`Apart`), so that the marks of `storeAtts` touch no name.
  While a new name is entered but not yet finished its entry is not held: it is
  the `loose` one of `Well`.  `Steady` is what every step of a call leaves, with
  one lemma for each function of the code (`PrefixWell`, `TypeWell`, `TagWell`,
  `AttWell`, `AttributeWell`, `StoreAttsWell`, `UnmarkedWell`).

`NamesPoolCorrect` is `PoolSafe` for the pool as these calls use it.

`NamesRefine` is `KeepsTheNames`, the refinement of `NameSet`, under the same
hypothesis.  Two things are added to `Well`.  What is being built is spelled
character by character (`Spelled`), through every move of the block, so that the
entry made for it reads as the name that was asked for and not only as some name
(`StoredSpelled`, `SpelledReads`, `EnterGives`).  And the character before the
name of an attribute is itself held, as a string of one character (`Signs` in
`Guarded`): it is the mark for the marked attributes and 0 for all others
(`SignRead`).  Without the second part "already in this tag" cannot be told
from "has a stray character before it", which is the whole of the test of
`storeAtts`.  The mark of one attribute and the signs of all others are kept
apart because every attribute has an address of its own (`MarkedReady`).  Each
function of the code then says which names it adds to which table (`Told`): all
it should when it ends well, nothing else when it fails.  A tag is an induction
over its attributes (`TagNext`): up to the first repeat every attribute was
unmarked, at the first repeat the answer is "duplicate" with all names so far
known (`TagSo`, `StoreAttsTold`, for tags of every length), and the marks are
all off again when it ends well (`UnmarkedRested`), which is what the next tag
starts from (`Rested` in `NamesKept`).

**ViewerProof** (`ViewerConstants`, which says what files there may be).  The invariant
behind `BackCorrect`, `ArchiveCorrect`, `BoxCorrect`, `LegibleCorrect` and `FileCorrect`
is one relation between the document and the screen, `Faithful`: in the editor
view, the flags and keys are those of the open file (`Keyed`), what is on the
screen was read of it and makes sense exactly when the password is the right one
(`Loaded`), a live editor waits only for pictures of its own text
(`EditorOfTheFile`, `PicturesOf`), a box shows the note of the index (`BoxOf`), a
sheet shows the table named or, without a name, all tables of the file, unless the
user cancelled (`SheetOfTheFile`, with `Laid` for what `GetContentSheet` lays
out); outside the editor view the screen shows nothing of a file (`Blank`).  Keys
may be those of another file only where no file is shown (`Keys`), and every
thumbnail on its way is one asked for since the last reading
(`Sought`).  A leave keeps all of that: a view half made shows nothing
(`HalfMadeIsFaithful`), a sheet that could not be read is empty
(`UnreadSheetIsEmpty`).  None of
the properties is inductive without the others: `LegibleWhenUnlocked` needs that
keys were read for this file, which needs that no command of another view leaves
content behind.  The proof has a lemma for each operation of `COpenDocument`,
which says what it leaves alone and what it makes true, and one for each command.

**ParaStylesProof** (`StyleConstants`: the bounds are numbers, and the marks for a
missing parent and for formats nobody declared are no styles).  The arrays are
parallel in every document (`Aligned`).  More holds while no name is used again for
another style, the case the code does not guard (`again`): names are told apart,
those of paragraph styles come first, and the style in use is the paragraph style or
lies behind all paragraph styles (`InUse` in `Sorted`).  The last part is what
nobody wrote down, and everything hangs on it: `AddTextItem` adds one to `iPos`
where it sets `iPosGlobal`, and the two agree only because a text style cannot be in
use when all styles are paragraph styles.  `Kept` says of each style that it has the
formats wanted of it, wherever insertions have moved it.  `AddTextItem` and
`SetParent` are proved first on a record (`ParaSorted`, `TextSorted`, `AgainSorted`,
`ParentSorted`), then one lemma per action follows.  From the same invariant come
`AlignedCorrect` (`StylesAligned`) and, with the positions of the styles at hand
(`AtHand`), `ShownCorrect` (`StylesShown`).

The last part is about `Lists` (`ListConstants`: there is a digit, and the mark
for a missing name is no name).  `ListsInv` says, of plain documents, that all
open lists are of the style in use (`OfOneStyle`), that this style is as deep as
the lists are and every other at depth 0 (`AtItsDepth`).  The end of a list takes
one from the style in use, whichever that is; that it is the one the list
began with is what `OfOneStyle` is for: a list can only name the style in use or
none, and a name is found at the one style that has it (`NamesKept`,
`IndexFound`).  `ListsCorrect` is `ListsShown`; outside plain documents nothing of
it holds but the types, and section 6 says how.

Three things are out of the provers' reach and only model-checked: liveness
(`EveryPictureSettles`, `ThumbnailArrives`); everything about the tokenizers and
the parser above them, whose scan functions are recursive operators, as they are
loops over input in the code (of `names` the tokenizers, `prolog`, the parser's
part of `text`); and what a fold computes for a sequence of every length.

## 6. What is seen in the models and has no property of its own

These follow from the code and can be seen in the state graph, but no sentence
of the repository says what should happen instead.

Cells and sheets:

* A row or column beyond 16 bits takes the key of another cell
  (`cell_array.h:97`), and `sheet_model.h:93` gives the program no greatest row.
  An insertion at the second of two such positions is dropped, a write or a
  deletion there goes to the first.  `CellsAsPut` says that nothing else happens:
  only positions a multiple of 2^16 away in both coordinates disturb each other.
* Search flags without an order, the declared default, run into `ASSERT(EFalse)`
  (`sheet_model.cpp:371`; `Unreached`).  The viewers always name one.
* After an edit an ordered search may stand behind the last line and answer
  `EFalse` for good (`NeverStranded` says "within a sweep").  On a sheet with a
  line that ends in a hole it may skip the beginning of the next line, as `xBegin`
  is not reset there (`sheet_model.cpp:316`; `Closed`).
* At the medium and the large zoom an adjustment may be one pixel short of the
  step asked for, so that growing adds a pixel less and shrinking takes a pixel
  more (`sheet_view.cpp:216`; `Rounded`).
* A touch at the first pixel of the window names the cell before it and scrolls
  the sheet (`sheet_drawer.cpp:104`; `TouchDoesNotScroll` is about the others).
* After a rotation the current cell may be out of sight until the next scroll
  (`sheet_ctrl.cpp:432`; `resized`).
* An empty coloured cell that is not repeated loses its colour, except the first
  of a document (`XML.cpp:663`: `iColumnSpanned` is 0 only before the first).
* `text:s`, in tables that were not asked for and in annotations, is written at
  the cursor all the same (`XML.cpp:596`).
* More than 100 repetitions of a row are taken for one, and all rows below move
  up (`XML.cpp:479`).
* The repetitions of a cell differ when its text comes in more than one piece:
  the first piece other than a space goes to all of them, spaces before it to the
  first only, and what follows to the last only (`XML.cpp:633`; `Faithful`).
* A repeated row is shown once and followed by as many empty rows as it has
  further repetitions: its end only moves the cursor (`XML.cpp:647`; `again`).
* A covered cell is not known to the reader (`XML.cpp:420`).  Those a cell spans
  in its own row are made up for by the width of the span; those below a cell that
  spans rows are not, and the cells behind them in the row stand too far left; the
  text of a covered cell goes to the cell the cursor is at (`spoilt`).
* A cell that both repeats and spans columns, which `SpanAssumption` excludes,
  moves the cursor further with a text than without one (`XML.cpp:654`).
* Without a name `iCellEnd` stays that of an earlier reading when that was lower
  (`OpenDocument.cpp:226`): the command End then goes below the sheet.

Texts, styles and lists:

* `DeleteL` removes more than the paragraph ends it is called for
  (`XML.cpp:907`): the last character of whatever a cell or box held.
* A first paragraph in the style declared last is shown in the last text style
  (`Para.cpp:684`; flag `moved`).
* The end of an inner span ends the outer one too: `SetPosToGlobal` (`lost`).
* A name in both families, or declared again, takes the first of that name
  (`again`).  A parent that is set between text styles is written at an index of
  the wrong array (`Para.cpp:797`; `orphan`); a parent declared later is not
  inherited.
* A list in a list of another style (`foreign`), one deeper than its style has
  levels (`short`) and one without a style where none is in use (`unstyled`) run
  out of their arrays; a list style declared after its first use has a wrong name
  or none (`Para.cpp:1023`; `late`).  Numbering is not restarted; the text
  properties of a level go to the style declared last.

Pictures and the viewer:

* An engine whose request fails keeps its bitmap data
  (`CImageEngine.cpp:133`), against the comment at `OpenDocument.cpp:161`.
* `iEditor` and `iBitmapContainer` outlive their views (`EditorViewView.cpp:260`
  has the cancellation commented out): a late picture goes to a deleted editor, a
  late thumbnail to a deleted container or to the view of another file.
* A picture moved beyond the end of the text is inserted there; the fault
  "beyond the end".
* The properties of an encrypted file before any password was asked for follow
  a null `iPassword` (`OpenDocument.cpp:434`).  They ask for a password by the
  flag of the file before, show the data of the file before when the user
  cancels, and are decrypted with the salt of another member.
* A wrong password parses a buffer that was not initialised.
* After a cancelled query, on entering the editor again, notes of the encrypted
  text are still offered; the worksheets of a file before are offered over a
  file of unknown type and may select a sheet that is not there.
* A thumbnail that is late goes to whatever thumbnail is on the screen, that of
  another file included (`OpenDocument.cpp:993`): of two files looked at one after
  the other the first one's may replace the second's.  `ThumbnailArrives` says only
  that the right one comes, `ThumbnailSought` only that the one shown was asked for
  since a document was last read.
* A sheet whose file vanished is emptied by the choice of another table, and the
  names of its tables are still offered (`OpenDocument.cpp:289`).
* A PDF that vanished after it was listed is read through a closed handle.
* More than eleven tables cannot be selected; the note index may be -1 when a
  text has no notes; the archive of a hybrid PDF stays when the program dies.

Archives:

* A leave inside a directory leaves the static `directory_level` too high for
  every later archive (`strayed`); an empty directory keeps the last name of its
  path only; content that deflation does not shrink is lost; content under the
  name of a directory is stored; `FlushToZip` deletes the old file before it
  creates the new one, and does not clear its list (`createzip.h:172`);
  `ReplaceFile` removes the old member though the new one cannot be read.

The XML parser:

* `SyExpat` sets a default handler, so that internal entities are reported and
  not expanded.  Without a declaration handler `NotStandalone` answers 0, an
  error, where `SyExpat.h:302` says nothing of it (`SyExpat.cpp:231`).
* An element with a URI and no prefix is told with an empty local name
  (`SyExpat.cpp:66` against `SyExpat.h:107`).  After an abort `Parse` does not
  answer an error (`xmlparse.c:1471` against `SyExpat.h:574`), and up to two
  tokens more are told.  `Resume` is declared and defined nowhere;
  `GetParsingStatus` writes through a null pointer; after `Reset` `SetHandler`
  follows one.
* Handlers build descriptors from null names for a document type without
  identifiers, the default namespace and the like.
* "a:1" is a prefixed name to the prolog; the value of `version` is not looked
  at; text before "]]>" is told when the input is cut there and not when it is
  whole; a carriage return at the end of a piece behind the root element is
  counted as a line of its own.
* A reference to a parameter entity in the internal subset is not noticed
  (`XML_DTD` is not defined), so that undeclared entities stay errors.
* When memory fails in the middle of `getAttributeId`, the attribute stays in the
  table without its prefix, and the next use of it follows a null pointer
  (`xmlparse.c:5256`); the prefix of an `xmlns` attribute may be missing
  unnoticed (`xmlparse.c:5239`).  A `realloc` that fails in `poolGrow` forgets
  the list of blocks.

## 7. What is not modelled, and the plan

Not modelled: the arithmetic of BlowFish and of check sums (no state of their
own), dates and the spelling of names in archives, drawing, word wrap of hints
(`hint.h`), logging, resources, and the UIQ front end, which calls the same engine
over another framework.  "New text" is in no menu of the S60 front end, so
editing a text is not modelled.  A document without its `mimetype` member, which
`GetType` follows a null pointer for, is not among the viewer's files.  Of the
parser: encodings other than UTF-8, parsers for external entities (no handler
asks for one), the build with `XML_DTD`, byte order marks within a document.

## 8. Running

```
tlc -workers 2 -config MCTableXML.cfg MCTableXML      # any run: see PROJECT.json
tlapm ViewerProof.tla
```

The largest runs (`viewer`, `table`, `text`, `names`, `view`, `sheet`) take two to
three minutes, the proofs up to ten minutes each.

Each property of a passing run has a mutant, an operator next to the definition
it changes, marked "Mutant" in its comment; putting it in place of the
definition makes TLC report that property.
