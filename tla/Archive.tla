------------------------------- MODULE Archive ------------------------------
(***************************************************************************)
(* CCreateZip (Engine/src/createzip.cpp) and CCZip::GetFileText (CZip.cpp):*)
(* files, directories and contents are put in a list, the list is written  *)
(* as an archive, and the archive is read by its directory.                *)
(* A path is a sequence of names, that of a directory ends in "".  What is *)
(* on the disk is a sequence of pieces with a size each, so that offsets   *)
(* mean what they mean in the file; no file and an empty one are the same  *)
(* to a reader.  Dates, check sums and the spelling of names are left out; *)
(* entries are counted and bytes measured within their 16 and 32 bits.     *)
(***************************************************************************)
EXTENDS Integers, Sequences, SequencesExt

CONSTANTS
  Tree,           \* the paths of the disk, and of members added by name
  Content,        \* the contents of files
  Entries(_),     \* the paths in a directory, sorted
  Stored(_),      \* the content of a file
  Size(_),        \* bytes of a content
  Packed(_),      \* bytes of a content when it is deflated
  NameSize(_),    \* bytes of a name
  Path,           \* the paths AddFile is called with
  Part,           \* the contents added by name: [path, content, level]
  NoArchive, Empty, Lost,
  MaxCalls        \* bound: calls that change the list

IsDir(path) == Last(path) = ""

\* A directory is in another, a drive at least; what it holds is one name longer.
ASSUME ArchiveConstants ==
  /\ MaxCalls \in Nat /\ Path \subseteq Tree /\ Tree \subseteq Seq(STRING) \ {<<>>}
  /\ \A p \in Tree :
       /\ Stored(p) \in Content
       /\ \A i \in 1 .. Len(p) : NameSize(SubSeq(p, i, Len(p))) \in Nat
  /\ \A dir \in Tree : IsDir(dir) =>
       /\ Len(dir) >= 2 /\ Entries(dir) \in Seq(Tree)
       /\ \A i \in DOMAIN Entries(dir) :
            LET p == Entries(dir)[i]
            IN  Len(p) = Len(dir) + (IF IsDir(p) THEN 1 ELSE 0)
  /\ \A part \in Part : part.path \in Tree /\ part.content \in Content /\ part.level \in Int
  /\ \A c \in Content : {Size(c), Packed(c)} \subseteq Nat /\ (Size(c) = 0 <=> c = Empty)
  /\ Empty \in Content

VARIABLES
  level,          \* directory_level: static, it outlives every CCreateZip
  list,           \* iFileList
  walk,           \* the calls of AddFile under way, innermost first
  disk,           \* the file iZipFileName
  strayed,        \* history: AddFile has left from within a directory
  calls           \* calls that changed the list

zipVars == <<level, list, walk, disk, strayed, calls>>

LocalSize      == 30
DescriptorSize == 16
CentralSize    == 46
EndSize        == 22

(***************************************************************************)
(* Adding                                                                  *)
(***************************************************************************)
\* The last names of a path, one more than there are levels.
KeptName(path, dirLevel) ==
  LET count == IF dirLevel < 0 THEN 1 ELSE dirLevel + 1
  IN  IF count >= Len(path) THEN path ELSE SubSeq(path, Len(path) + 1 - count, Len(path))

\* What an entry has for data.  The output of the compressor is as large as
\* its input: a stream that is larger does not end.
Data(content, compress) ==
  IF Size(content) = 0 THEN {[form |-> "none", of |-> Empty, size |-> 0]}
  ELSE IF ~compress THEN {[form |-> "plain", of |-> content, size |-> Size(content)]}
  ELSE IF Packed(content) <= Size(content)
       THEN {[form |-> "deflated", of |-> content, size |-> Packed(content)]}
       ELSE {[form |-> "cut", of |-> content, size |-> n] : n \in 0 .. Size(content)}

\* TZipNodeEntry: root is the path the caller gave (history), <<>> for a content.
Nodes(path, content, compress, dirLevel, root) ==
  {[name |-> KeptName(path, dirLevel), full |-> path, root |-> root,
    deflate |-> compress /\ ~IsDir(path), content |-> content, compress |-> compress,
    uncompressed |-> Size(content), data |-> d] : d \in Data(content, compress)}

Frame(dir, compress, root) ==
  [dir |-> dir, left |-> Entries(dir), compress |-> compress, root |-> root]

\* AddFile of a path, by its caller, to the entries l; it may leave.
StartAdd(path, compress, l) ==
  \/ /\ IsDir(path)
     /\ level' = level + 1
     /\ walk' = <<Frame(path, compress, path)>>
     /\ list' = l
  \/ /\ ~IsDir(path)
     /\ \E n \in Nodes(path, Stored(path), compress, level, path) : list' = Append(l, n)
     /\ UNCHANGED <<level, walk>>
  \/ /\ list' = l
     /\ UNCHANGED <<level, walk>>

\* The caller changes the list.
Change == walk = <<>> /\ calls < MaxCalls /\ calls' = calls + 1

AddFile(path, compress) ==
  /\ Change
  /\ StartAdd(path, compress, list)
  /\ UNCHANGED <<disk, strayed>>

AddContent(part, compress) ==
  /\ Change
  /\ \E n \in Nodes(part.path, part.content, compress, part.level, <<>>) :
       list' = Append(list, n)
  /\ UNCHANGED <<level, walk, disk, strayed>>

Top == Head(walk)

\* The rest of the directory, without its first path.
Onward == <<[Top EXCEPT !.left = Tail(@)]>> \o Tail(walk)

\* The next path of the directory is a file.
WalkFile ==
  /\ walk # <<>> /\ Top.left # <<>> /\ ~IsDir(Head(Top.left))
  /\ \E n \in Nodes(Head(Top.left), Stored(Head(Top.left)), Top.compress, level, Top.root) :
       list' = Append(list, n)
  /\ walk' = Onward
  /\ UNCHANGED <<level, disk, strayed, calls>>

WalkInto ==
  /\ walk # <<>> /\ Top.left # <<>> /\ IsDir(Head(Top.left))
  /\ level' = level + 1
  /\ walk' = <<Frame(Head(Top.left), Top.compress, Top.root)>> \o Onward
  /\ UNCHANGED <<list, disk, strayed, calls>>

\* A file that cannot be read, a directory that cannot be listed: the calls
\* are left, and the level stays as it is.  Bound: it happens once.
WalkLeaves ==
  /\ walk # <<>> /\ Top.left # <<>> /\ ~strayed
  /\ walk' = <<>>
  /\ strayed' = TRUE
  /\ UNCHANGED <<level, list, disk, calls>>

\* Mutant: the level stays when the directory is done.
LevelStays == level

LevelAbove == level - 1

\* An empty directory becomes an entry.
WalkReturns ==
  /\ walk # <<>> /\ Top.left = <<>>
  /\ level' = LevelAbove
  /\ IF Entries(Top.dir) = <<>>
     THEN \E n \in Nodes(Top.dir, Empty, Top.compress, LevelAbove, Top.root) :
            list' = Append(list, n)
     ELSE UNCHANGED list
  /\ walk' = Tail(walk)
  /\ UNCHANGED <<disk, strayed, calls>>

(***************************************************************************)
(* Removing and replacing: the first entry of that full name.              *)
(***************************************************************************)
Matches(path) == {i \in 1 .. Len(list) : list[i].full = path}

Removed(path) ==
  RemoveAt(list, CHOOSE i \in Matches(path) : \A j \in Matches(path) : i <= j)

Removable(path) == ~IsDir(path) /\ Matches(path) # {}

RemoveFile(path) ==
  /\ Change /\ Removable(path)
  /\ list' = Removed(path)
  /\ UNCHANGED <<level, walk, disk, strayed>>

ReplaceFile(old, new, compress) ==
  /\ Change /\ Removable(old)
  /\ StartAdd(new, compress, Removed(old))
  /\ UNCHANGED <<disk, strayed>>

\* ResetL, and a CCreateZip deleted and another made: the list is empty,
\* directory_level stays.
Reset ==
  /\ Change
  /\ list' = <<>>
  /\ UNCHANGED <<level, walk, disk, strayed>>

(***************************************************************************)
(* Writing: CZipNodeLinkedList::WriteToFile                                *)
(***************************************************************************)
\* writeDataDescriptor, which an entry sets for all that follow.
Described(i) == \E j \in 1 .. i : list[j].deflate

\* The header of an entry; what else is in it stands in the directory, too.
Local(n) == [kind |-> "local", size |-> LocalSize + NameSize(n.name), name |-> n.name]

DataPiece(n) ==
  [kind |-> "data", size |-> n.data.size, of |-> n.data.of, form |-> n.data.form]

Descriptor == [kind |-> "descriptor", size |-> DescriptorSize]

Central(n, offset) ==
  [kind |-> "central", size |-> CentralSize + NameSize(n.name), name |-> n.name,
   deflate |-> n.deflate, compressed |-> n.data.size, uncompressed |-> n.uncompressed,
   offset |-> offset]

EntryPieces(i) ==
  <<Local(list[i])>>
    \o (IF list[i].data.form = "none" THEN <<>> ELSE <<DataPiece(list[i])>>)
    \o (IF Described(i) THEN <<Descriptor>> ELSE <<>>)

\* Mutant: a descriptor is counted by the flag of its own entry.
AdvanceByFlag(i) ==
  LocalSize + NameSize(list[i].name) + list[i].data.size
    + (IF list[i].deflate THEN DescriptorSize ELSE 0)

\* What localHeaderOffSet grows by.
Advance(i) ==
  LocalSize + NameSize(list[i].name) + list[i].data.size
    + (IF Described(i) THEN DescriptorSize ELSE 0)

\* The sums of the first numbers of a sequence.
Sums(sizes) ==
  LET sum[i \in 0 .. Len(sizes)] == IF i = 0 THEN 0 ELSE sum[i - 1] + sizes[i]
  IN  sum

\* localHeaderOffSet after the first i entries.
Offset == Sums([i \in 1 .. Len(list) |-> Advance(i)])

\* centralDirectorySize.
DirectorySize == Sums([i \in 1 .. Len(list) |-> CentralSize + NameSize(list[i].name)])[Len(list)]

EndRecord(offset) ==
  LET count == Len(list)
  IN  [kind |-> "end", size |-> EndSize, entries |-> count, directory |-> DirectorySize,
       offset |-> offset[count]]

Pieces ==
  LET offset == Offset
  IN  FlattenSeq([i \in 1 .. Len(list) |-> EntryPieces(i)])
        \o [i \in 1 .. Len(list) |-> Central(list[i], offset[i - 1])] \o <<EndRecord(offset)>>

FlushToZip ==
  /\ walk = <<>>
  /\ disk' = Pieces
  /\ UNCHANGED <<level, list, walk, strayed, calls>>

\* The old file is gone and the new one is not there, or not to its end.
FlushFails ==
  /\ walk = <<>>
  /\ LET pieces == Pieces
     IN  \E last \in 0 .. Len(pieces) - 1 : disk' = SubSeq(pieces, 1, last)
  /\ UNCHANGED <<level, list, walk, strayed, calls>>

-----------------------------------------------------------------------------
ZipInit ==
  /\ level = 0 /\ list = <<>> /\ walk = <<>> /\ disk = <<>> /\ strayed = FALSE
  /\ calls = 0

ZipNext ==
  \/ \E path \in Path, compress \in BOOLEAN : AddFile(path, compress)
  \/ \E part \in Part, compress \in BOOLEAN : AddContent(part, compress)
  \/ WalkFile \/ WalkInto \/ WalkLeaves \/ WalkReturns
  \/ \E path \in Path : RemoveFile(path)
  \/ \E old, new \in Path, compress \in BOOLEAN : ReplaceFile(old, new, compress)
  \/ Reset \/ FlushToZip \/ FlushFails

ZipSpec == ZipInit /\ [][ZipNext]_zipVars

(***************************************************************************)
(* Reading: the archive library, and GetFileText                           *)
(***************************************************************************)
\* Where the pieces end, and the next ones begin.
PieceEnds(file) == Sums([i \in 1 .. Len(file) |-> file[i].size])

PieceAt(file, offset) ==
  LET begin == PieceEnds(file)
      at   == {i \in 1 .. Len(file) : file[i].size > 0 /\ begin[i - 1] = offset}
  IN  IF at = {} THEN [kind |-> "nothing", index |-> 0]
      ELSE LET i == CHOOSE i \in at : TRUE IN [kind |-> file[i].kind, index |-> i]

\* The bytes of a member: those behind the header its entry points to.
GetFileText(file, entry) ==
  LET at == PieceAt(file, entry.offset)
  IN  IF at.kind # "local" \/ file[at.index].name # entry.name THEN Lost
      ELSE IF entry.uncompressed = 0 THEN Empty
      ELSE LET piece == file[at.index + 1]
           IN  IF piece.kind = "data" /\ piece.size = entry.compressed
                    /\ piece.form = (IF entry.deflate THEN "deflated" ELSE "plain")
               THEN piece.of ELSE Lost

\* The entries of the directory, or none if there is no end of an archive.
IsArchive(file) == file # <<>> /\ Last(file).kind = "end"

OfKind(file, kind) == {i \in 1 .. Len(file) : file[i].kind = kind}

\* Where the end record says the directory is.
Announced(file) ==
  LET end   == Last(file)
      first == PieceAt(file, end.offset).index
  IN  first .. first + end.entries - 1

Directory(file) == Announced(file) \cap OfKind(file, "central")

-----------------------------------------------------------------------------
(***************************************************************************)
(* Types; a level is never below that of the calls under way.              *)
(***************************************************************************)
ZipTypeOK ==
  /\ level \in Nat /\ Len(walk) <= level
  /\ \A i \in 1 .. Len(list) :
       /\ list[i].name # <<>> /\ list[i].data.size <= list[i].uncompressed
       /\ list[i].data.form \in {"none", "plain", "deflated", "cut"}
  /\ \A i \in 1 .. Len(disk) : disk[i].size \in Nat
  /\ strayed \in BOOLEAN /\ calls \in 0 .. MaxCalls

(***************************************************************************)
(* A file added with a directory has the name of that directory before its *)
(* own, and one added alone has its own only, whatever was added before:   *)
(* the level of AddFile is back at 0 after each call.  (One that was left  *)
(* from within a directory spoils the names of all later ones.)            *)
(***************************************************************************)
FirstOf(root) == IF IsDir(root) THEN Len(root) - 1 ELSE Len(root)

NamedFromTheirRoot ==
  strayed \/ \A i \in 1 .. Len(list) :
    LET n == list[i]
    IN  IsDir(n.full) \/ n.root = <<>> \/ n.name = SubSeq(n.full, FirstOf(n.root), Len(n.full))

(***************************************************************************)
(* What stands on the disk under an end record is an archive for every     *)
(* reader: the directory begins where the entries end, it ends where the   *)
(* end record begins, and it points to each entry once, in their order.    *)
(***************************************************************************)
DirectoryFits ==
  IsArchive(disk) =>
    LET end   == Last(disk)
        dir   == OfKind(disk, "central")
        entry == [i \in dir |-> PieceAt(disk, disk[i].offset).index]
    IN  /\ PieceEnds(disk)[Len(disk) - 1] = end.offset + end.directory
        /\ Announced(disk) = dir
        /\ {entry[i] : i \in dir} = OfKind(disk, "local")
        /\ \A i, j \in dir : i < j => entry[i] < entry[j]
        /\ \A i \in dir : disk[entry[i]].name = disk[i].name

(***************************************************************************)
(* Whoever opens the archive sees what was listed when it was written: all *)
(* of it or no archive, also after a write that failed on its way          *)
(* (FlushToZip, WriteToFile, GetFileText).  What does not become smaller   *)
(* when it is deflated is lost, and so is a deflated content under the     *)
(* name of a directory.                                                    *)
(***************************************************************************)
Promised(n) ==
  IF n.compress /\ n.uncompressed > 0 /\ (Packed(n.content) > Size(n.content) \/ IsDir(n.full))
  THEN Lost ELSE n.content

Listed == [i \in 1 .. Len(list) |-> [name |-> list[i].name, content |-> Promised(list[i])]]

Seen ==
  IF IsArchive(disk)
  THEN {[name |-> disk[i].name, content |-> GetFileText(disk, disk[i])] : i \in Directory(disk)}
  ELSE NoArchive

Promise == INSTANCE ArchiveSpec WITH listed <- Listed, seen <- Seen

KeepsItsPromise == Promise!Spec

(***************************************************************************)
(* An archive on the disk is one that every reader can follow, with the    *)
(* names that were asked for.                                              *)
(***************************************************************************)
ArchiveFits == ZipTypeOK /\ NamedFromTheirRoot /\ DirectoryFits
=============================================================================
