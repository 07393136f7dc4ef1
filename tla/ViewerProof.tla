---------------------------- MODULE ViewerProof -----------------------------
(***************************************************************************)
(* Proofs about Viewer.  One invariant relates the document object to the  *)
(* view above it: outside the editor view nothing is shown of a file and   *)
(* nothing holds a control; inside, the flags and keys are those of the    *)
(* file, what was read is its content as far as the password allows, the   *)
(* engines of pictures are those of the text, and the box shows the note   *)
(* of the index.                                                           *)
(***************************************************************************)
EXTENDS Viewer, TLAPS

\* The engines of thumbnails at work were asked for and not cleared since.
Sought(d) == \A e \in d.iBitmaps : e.kind = "thumbnail" => e.of \in d.sought

\* No box, no editor, nothing of a file on the screen.
Blank(d) ==
    d.iFloating = None /\ d.content = Nothing /\ d.iEditor # "live" /\ Sought(d)

\* The flags and keys are those of the file.
Keyed(d) ==
    /\ d.iFileName \in Files
    /\ d.iEncrypted <=> d.iFileName \in Secret
    /\ d.iEncrypted => d.iEncryptData = d.iFileName

\* They are where something was read; a container left half made has none.
Keys(d, u) == u.sheet \/ d.content.file # None => Keyed(d)

\* What is on the screen was read of the file.
Loaded(d) ==
    d.content.file # None => d.content.file = d.iFileName /\ (d.content.good <=> Makes(d))

\* An editor at work shows the file, and its pictures are on their way.
EditorOfTheFile(d, u) ==
    d.iEditor = "live" =>
        /\ u.editor /\ d.content.file = d.iFileName
        /\ \A e \in d.iBitmaps : e.kind = "picture" => e.of = d.iFileName

PicturesOf(c) == c.pics \subseteq {c.file}

BoxOf(d, u) ==
    d.iFloating # None =>
        u.editor /\ InRange(d) /\ d.iFloating = d.iNotes[d.iNoteIndex + 1]

NamesOf(f) == {Tables[f][i] : i \in DOMAIN Tables[f]}

\* All the tables, or the one of that name.
Laid(c, f) == IF c.named = None THEN c.tables = NamesOf(f)
              ELSE c.named \in NamesOf(f) /\ c.tables = {c.named}

\* The names stay those of the file when a sheet cannot be read again.
SheetOfTheFile(d, u) ==
    u.sheet /\ ~u.cancelled =>
        /\ d.content.good => d.iTables = Tables[d.content.file] /\ Laid(d.content, d.content.file)
        /\ Makes(d) => d.iTables = Tables[d.iFileName]

Editing(d, u) ==
    /\ Keys(d, u) /\ Loaded(d) /\ EditorOfTheFile(d, u) /\ PicturesOf(d.content)
    /\ BoxOf(d, u) /\ SheetOfTheFile(d, u) /\ Sought(d)

MetaOfTheFile(d, u) ==
    u.view = "props" /\ ~u.cancelled => d.iMeta \in {None, d.iFileName}

ThumbOf(d, u) == u.view = "image" => u.thumb \in d.sought \cup {None}

\* The document and the view over it agree.
Faithful(d, u) ==
    IF d.stop = "no" /\ u.view = "editor" THEN Editing(d, u)
    ELSE Blank(d) /\ (d.stop = "no" => MetaOfTheFile(d, u) /\ ThumbOf(d, u))

\* The list box has its current item among its items.
Shows(u) == u \in Screen /\ u.item \in u.listed \cup {None}

\* A program that ended by itself has removed its archive.
CleanExit == doc.stop = "off" => ~doc.iHybridPDF

IInv ==
    /\ TypeOK
    /\ Faithful(doc, ui)
    /\ CleanExit
    /\ BackToOrigin
    /\ NoArchiveLeft

-----------------------------------------------------------------------------
(***************************************************************************)
(* What the operations of COpenDocument leave alone.  Whatever a document  *)
(* is asked for, it keeps the file, and the archive, it was opened with.   *)
(***************************************************************************)
SameFile(d, e) ==
    /\ e.iFileName = d.iFileName /\ e.iHybridPDF = d.iHybridPDF
    /\ e.stop = d.stop /\ e.iNextViewID = d.iNextViewID

(***************************************************************************)
(* A document is a record of its members, each of its type: both are       *)
(* stated one by one, because each operation sets a few of them.           *)
(***************************************************************************)
Fields(d) ==
    [iFileName |-> d.iFileName, iHybridPDF |-> d.iHybridPDF, iEncrypted |-> d.iEncrypted,
     iEncryptData |-> d.iEncryptData, iPassword |-> d.iPassword,
     iNextViewID |-> d.iNextViewID, iNotes |-> d.iNotes, iNoteIndex |-> d.iNoteIndex,
     iFloating |-> d.iFloating, iTables |-> d.iTables, iMeta |-> d.iMeta,
     iEditor |-> d.iEditor, iBitmaps |-> d.iBitmaps, sought |-> d.sought,
     content |-> d.content, heap |-> d.heap, stop |-> d.stop]

Typed(d) ==
    /\ d.iFileName \in Files \cup {None} /\ d.iHybridPDF \in BOOLEAN
    /\ d.iEncrypted \in BOOLEAN /\ d.iEncryptData \in Secret \cup {None}
    /\ d.iPassword \in Secret \cup {None, "wrong"}
    /\ d.iNextViewID \in {None, "list", "editor"}
    /\ d.iNotes \in Seq(Note) /\ d.iNoteIndex \in Int /\ d.iFloating \in Note \cup {None}
    /\ d.iTables \in Seq(STRING) /\ d.iMeta \in Files \cup {None}
    /\ d.iEditor \in {"none", "live", "dead"} /\ d.iBitmaps \in SUBSET Engine
    /\ d.sought \in SUBSET Files
    /\ d.content \in Content /\ d.heap \in Files \cup {None}
    /\ d.stop \in {"no", "off"} \cup Dead

\* COpenDocument as a record, field by field.
LEMMA DocumentFields ==
  ASSUME NEW d \in Document
  PROVE  d = Fields(d) /\ Typed(d)
BY DEF Document, Fields, Typed

\* A record of these fields with their types is a document.
LEMMA DocumentBuilt ==
  ASSUME NEW d, d = Fields(d), Typed(d)
  PROVE  d \in Document
<1>1. Fields(d) \in Document
  BY DEF Document, Fields, Typed
<1> QED
  BY <1>1

\* What the parser has found before it reads is content of no file.
LEMMA NothingIsContent == Nothing \in Content
BY DEF Nothing, Content

(***************************************************************************)
(* A document that died holds nothing, and still names its file.           *)
(***************************************************************************)
LEMMA DiedIsBlank ==
  ASSUME NEW d \in Document, NEW why \in {"off"} \cup Dead
  PROVE  /\ Died(d, why) \in Document /\ Blank(Died(d, why))
         /\ Died(d, why).stop = why /\ Died(d, why).stop # "no"
         /\ Died(d, why).iFileName = d.iFileName
         /\ Died(d, why).iHybridPDF = d.iHybridPDF
<1>1. d = Fields(d) /\ Typed(d)
  BY DocumentFields
<1> DEFINE c == Died(d, why)
<1>2. c = Died(d, why)
  OBVIOUS
<1> HIDE DEF c
<1>3. c = Fields(c)
  BY <1>2, Zenon DEF Died, NewDocument, Fields
<1>4. Typed(c)
  BY <1>1, <1>2, NothingIsContent DEF Died, NewDocument, Typed
<1>5. c \in Document
  BY <1>3, <1>4, DocumentBuilt
<1>6. /\ Blank(c) /\ c.stop = why /\ why # "no"
      /\ c.iFileName = d.iFileName /\ c.iHybridPDF = d.iHybridPDF
  BY <1>2 DEF Died, NewDocument, Dead, Blank, Sought
<1> QED
  BY <1>2, <1>5, <1>6

(***************************************************************************)
(* A view that is left leaves a blank document behind, but for the box.    *)
(***************************************************************************)
LEMMA LeftIsBlank ==
  ASSUME NEW d \in Document, d.iFloating = None, Sought(d)
  PROVE  /\ Left(d) \in Document /\ Blank(Left(d)) /\ SameFile(d, Left(d))
         /\ Left(d).iEncrypted = d.iEncrypted /\ Left(d).heap = d.heap
         /\ Left(d).iMeta = d.iMeta /\ Left(d).sought = d.sought
<1>1. d = Fields(d) /\ Typed(d)
  BY DocumentFields
<1> DEFINE c == Left(d)
<1>2. c = Left(d)
  OBVIOUS
<1> HIDE DEF c
<1>3. c = Fields(c)
  BY <1>1, <1>2, Zenon DEF Left, Fields
<1>4. Typed(c)
  BY <1>1, <1>2, NothingIsContent DEF Left, Fields, Typed
<1>5. c \in Document
  BY <1>3, <1>4, DocumentBuilt
<1>6. /\ Blank(c) /\ SameFile(d, c)
      /\ c.iEncrypted = d.iEncrypted /\ c.heap = d.heap /\ c.iMeta = d.iMeta
      /\ c.sought = d.sought
  BY <1>1, <1>2 DEF Left, Fields, Blank, SameFile, Sought
<1> QED
  BY <1>2, <1>5, <1>6

(***************************************************************************)
(* GetType: the keys fit the file, the rest stays.                         *)
(***************************************************************************)
LEMMA TypeGivesKeys ==
  ASSUME NEW d \in Document, d.iFileName \in Files
  PROVE  /\ GetType(d) \in Document /\ Keyed(GetType(d)) /\ SameFile(d, GetType(d))
         /\ Blank(d) => Blank(GetType(d))
         /\ GetType(d).iPassword = d.iPassword /\ GetType(d).heap = d.heap
         /\ GetType(d).iMeta = d.iMeta
<1>1. d = Fields(d) /\ Typed(d)
  BY DocumentFields
<1> DEFINE c == GetType(d)
<1>2. c = GetType(d)
  OBVIOUS
<1> HIDE DEF c
<1>3. c = Fields(c)
  BY <1>1, <1>2, Zenon DEF GetType, Fields
<1>4. Typed(c)
  BY <1>1, <1>2 DEF GetType, Fields, Typed
<1>5. c \in Document
  BY <1>3, <1>4, DocumentBuilt
<1>6. /\ Keyed(c) /\ SameFile(d, c) /\ (Blank(d) => Blank(c))
      /\ c.iPassword = d.iPassword /\ c.heap = d.heap /\ c.iMeta = d.iMeta
  BY <1>1, <1>2 DEF GetType, Fields, Keyed, SameFile, Blank, Sought
<1> QED
  BY <1>2, <1>5, <1>6

(***************************************************************************)
(* SetPassword changes the password alone.                                 *)
(***************************************************************************)
LEMMA PasswordKeepsKeys ==
  ASSUME NEW d \in Document, NEW a
  PROVE  /\ SetPassword(d, a) \in Document /\ SameFile(d, SetPassword(d, a))
         /\ Keyed(d) => Keyed(SetPassword(d, a))
         /\ Blank(d) => Blank(SetPassword(d, a))
         /\ SetPassword(d, a).heap = d.heap /\ SetPassword(d, a).iEncrypted = d.iEncrypted
         /\ SetPassword(d, a).iMeta = d.iMeta
<1>1. d = Fields(d) /\ Typed(d)
  BY DocumentFields
<1> DEFINE c == SetPassword(d, a)
<1>2. c = SetPassword(d, a)
  OBVIOUS
<1> HIDE DEF c
<1>3. c = Fields(c)
  BY <1>1, <1>2, Zenon DEF SetPassword, Fields
<1>4. Typed(c)
  BY <1>1, <1>2 DEF SetPassword, Fields, Typed
<1>5. c \in Document
  BY <1>3, <1>4, DocumentBuilt
<1>6. /\ SameFile(d, c) /\ (Keyed(d) => Keyed(c)) /\ (Blank(d) => Blank(c))
      /\ c.heap = d.heap /\ c.iEncrypted = d.iEncrypted /\ c.iMeta = d.iMeta
  BY <1>1, <1>2 DEF SetPassword, Fields, Keyed, SameFile, Blank, Sought
<1> QED
  BY <1>2, <1>5, <1>6

(***************************************************************************)
(* The notes of a file are a sequence of notes.                            *)
(***************************************************************************)
LEMMA NotesAreNotes ==
  ASSUME NEW f \in Files
  PROVE  Notes(f) \in Seq(Note)
BY ViewerConstants DEF Notes, Note

(***************************************************************************)
(* ClearContent: no notes, and no engine of a picture, are left.           *)
(***************************************************************************)
LEMMA ClearForgets ==
  ASSUME NEW d \in Document
  PROVE  /\ ClearContent(d) \in Document /\ SameFile(d, ClearContent(d))
         /\ Keyed(d) => Keyed(ClearContent(d))
         /\ Blank(d) => Blank(ClearContent(d))
         /\ Makes(ClearContent(d)) <=> Makes(d)
         /\ ClearContent(d).iBitmaps = {} /\ ClearContent(d).iNotes = <<>>
         /\ ClearContent(d).iNoteIndex = 0 /\ ClearContent(d).heap = d.heap
         /\ ClearContent(d).iFloating = d.iFloating /\ ClearContent(d).iEditor = d.iEditor
         /\ ClearContent(d).iTables = d.iTables /\ ClearContent(d).iPassword = d.iPassword
<1>1. d = Fields(d) /\ Typed(d)
  BY DocumentFields
<1> DEFINE c == ClearContent(d)
<1>2. c = ClearContent(d)
  OBVIOUS
<1> HIDE DEF c
<1>3. c = Fields(c)
  BY <1>1, <1>2, Zenon DEF ClearContent, Fields
<1>4. Typed(c)
  BY <1>1, <1>2 DEF ClearContent, Fields, Typed
<1>5. c \in Document
  BY <1>3, <1>4, DocumentBuilt
<1>6. /\ SameFile(d, c) /\ (Keyed(d) => Keyed(c)) /\ (Blank(d) => Blank(c))
      /\ Makes(c) <=> Makes(d)
      /\ c.iBitmaps = {} /\ c.iNotes = <<>> /\ c.iNoteIndex = 0 /\ c.heap = d.heap
      /\ c.iFloating = d.iFloating /\ c.iEditor = d.iEditor
      /\ c.iTables = d.iTables /\ c.iPassword = d.iPassword
  BY <1>1, <1>2 DEF ClearContent, Fields, Keyed, SameFile, Blank, Sought, Makes
<1> QED
  BY <1>2, <1>5, <1>6

(***************************************************************************)
(* What reading the file of d makes of it: a document that shows the file  *)
(* in the view u, or a program that died for want of a password.           *)
(***************************************************************************)
Reads(d, r, u) ==
    /\ r \in Document
    /\ r.iFileName = d.iFileName /\ r.iHybridPDF = d.iHybridPDF
    /\ \/ r.stop = "password" /\ Blank(r)
       \/ r.stop = "no" /\ Editing(r, u) /\ r.iNextViewID = d.iNextViewID

(***************************************************************************)
(* A text that is read: it is that of the file, with its notes and its     *)
(* pictures, as far as the password allows, or the program is dead.        *)
(***************************************************************************)
LEMMA TextIsOfTheFile ==
  ASSUME NEW d \in Document, Keyed(d), Blank(d), d.stop = "no",
         NEW g \in {None, d.heap}, NEW u, u.editor = TRUE, u.sheet = FALSE
  PROVE  Reads(d, GetContentText(d, g), u)
<1> DEFINE c == ClearContent(d)
           f == d.iFileName
           n == IF Makes(d) THEN Notes(f) ELSE IF g # None THEN Notes(g) ELSE <<>>
           b == IF Makes(d) THEN Picture(f) ELSE {}
           k == [Nothing EXCEPT !.file = f, !.good = Makes(d)]
           r == [c EXCEPT !.iEditor = "live", !.iNotes = n, !.iBitmaps = b,
                          !.content = k, !.heap = f]
<1>1. CASE d.iEncrypted /\ d.iPassword = None
  <2>1. GetContentText(d, g) = Died(c, "password")
    BY <1>1 DEF GetContentText
  <2>2. c \in Document /\ c.iFileName = d.iFileName /\ c.iHybridPDF = d.iHybridPDF
    BY ClearForgets DEF SameFile
  <2> QED
    BY <2>1, <2>2, DiedIsBlank DEF Reads, Dead
<1>2. CASE ~(d.iEncrypted /\ d.iPassword = None)
  <2>1. f \in Files /\ g \in Files \cup {None}
    BY DEF Keyed, Document
  <2>2. n \in Seq(Note)
    BY <2>1, NotesAreNotes
  <2>3. b \in SUBSET Engine /\ \A e \in b : e.of = f /\ e.kind = "picture"
    BY <2>1 DEF Picture, Engine
  <2>4. k \in Content /\ k.file = f /\ (k.good <=> Makes(d)) /\ k.pics = {}
    <3> DEFINE m == Makes(d)
    <3>1. m \in BOOLEAN
      BY DEF Makes
    <3>2. k = [Nothing EXCEPT !.file = f, !.good = m]
      OBVIOUS
    <3> HIDE DEF m, k
    <3>3. k \in Content /\ k.file = f /\ k.good = m /\ k.pics = {}
      BY <2>1, <3>1, <3>2 DEF Content, Nothing
    <3> QED
      BY <3>3 DEF m
  <2>5. /\ c \in Document /\ SameFile(d, c) /\ Keyed(c) /\ Blank(c) /\ (Makes(c) <=> Makes(d))
        /\ c.iBitmaps = {} /\ c.iNotes = <<>>
    BY ClearForgets
  <2>6. GetContentText(d, g) = r
    <3>1. c.iNotes \o n = n /\ c.iBitmaps \cup b = b
      BY <2>2, <2>5
    <3> QED
      BY <1>2, <3>1 DEF GetContentText
  <2>0. r = [c EXCEPT !.iEditor = "live", !.iNotes = n, !.iBitmaps = b,
                       !.content = k, !.heap = f]
    OBVIOUS
  <2> HIDE DEF c, n, b, k, f, r
  <2>7. r \in Document
    <3>1. c = Fields(c) /\ Typed(c)
      BY <2>5, DocumentFields
    <3>2. r = Fields(r)
      BY <2>0, <3>1, Zenon DEF Fields
    <3>3. Typed(r)
      BY <2>0, <2>1, <2>2, <2>3, <2>4, <3>1 DEF Fields, Typed
    <3> QED
      BY <3>2, <3>3, DocumentBuilt
  <2>8. /\ r.iEditor = "live" /\ r.iNotes = n /\ r.iBitmaps = b /\ r.content = k
        /\ r.iFileName = c.iFileName /\ r.iHybridPDF = c.iHybridPDF /\ r.stop = c.stop
        /\ r.iEncrypted = c.iEncrypted /\ r.iEncryptData = c.iEncryptData
        /\ r.iPassword = c.iPassword /\ r.iNextViewID = c.iNextViewID
        /\ r.iFloating = c.iFloating
    <3>1. c = Fields(c)
      BY <2>5, DocumentFields
    <3> QED
      BY <2>0, <3>1 DEF Fields
  <2>9. r.iFileName = f /\ r.iHybridPDF = d.iHybridPDF /\ r.stop = "no"
        /\ r.iNextViewID = d.iNextViewID /\ r.iFloating = None
    BY <2>5, <2>8 DEF SameFile, Blank, f
  <2>10. Keyed(r) /\ (Makes(r) <=> Makes(d))
    BY <2>5, <2>8 DEF Keyed, Makes
  <2>11. Editing(r, u)
    <3>1. Loaded(r)
      BY <2>4, <2>8, <2>9, <2>10 DEF Loaded
    <3>2. EditorOfTheFile(r, u)
      BY <2>3, <2>4, <2>8, <2>9 DEF EditorOfTheFile
    <3>3. PicturesOf(r.content) /\ BoxOf(r, u) /\ SheetOfTheFile(r, u)
      BY <2>4, <2>8, <2>9 DEF PicturesOf, BoxOf, SheetOfTheFile
    <3>4. Sought(r)
      BY <2>3, <2>8 DEF Sought
    <3> QED
      BY <2>10, <3>1, <3>2, <3>3, <3>4 DEF Editing, Keys
  <2> QED
    BY <2>6, <2>7, <2>9, <2>11 DEF Reads, f
<1> QED
  BY <1>1, <1>2

(***************************************************************************)
(* A sheet that is read: the tables are those of the file, and all of them *)
(* are shown or the one asked for, if the bytes make sense.                *)
(***************************************************************************)
LEMMA SheetIsOfTheFile ==
  ASSUME NEW d \in Document, Keyed(d), d.iFloating = None, d.iEditor # "live", d.stop = "no",
         NEW name \in STRING \cup {None}, NEW g \in {None, d.heap}, NEW u,
         u.sheet /\ ~u.cancelled /\ Makes(d) /\ name # None => name \in NamesOf(d.iFileName)
  PROVE  Reads(d, GetContentSheet(d, name, g), u)
<1> DEFINE c == ClearContent(d)
           f == d.iFileName
           names == IF Makes(d) THEN Tables[f] ELSE IF g # None THEN Tables[g] ELSE <<>>
           t == {names[i] : i \in {j \in DOMAIN names : name \in {None, names[j]}}}
           m == Makes(d)
           k == [Nothing EXCEPT !.file = f, !.good = m, !.named = name, !.tables = t]
           r == [c EXCEPT !.iTables = names, !.content = k, !.heap = f]
<1>1. CASE d.iEncrypted /\ d.iPassword = None
  <2>1. GetContentSheet(d, name, g) = Died(c, "password")
    BY <1>1 DEF GetContentSheet
  <2>2. c \in Document /\ c.iFileName = d.iFileName /\ c.iHybridPDF = d.iHybridPDF
    BY ClearForgets DEF SameFile
  <2> QED
    BY <2>1, <2>2, DiedIsBlank DEF Reads, Dead
<1>2. CASE ~(d.iEncrypted /\ d.iPassword = None)
  <2>1. f \in Files /\ g \in Files \cup {None}
    BY DEF Keyed, Document
  <2>2. names \in Seq(STRING)
    <3>1. \A x \in Files : Tables[x] \in Seq(STRING)
      BY ViewerConstants
    <3>2. <<>> \in Seq(STRING)
      OBVIOUS
    <3>3. g # None => Tables[g] \in Seq(STRING)
      BY <2>1, <3>1
    <3> QED
      BY <2>1, <3>1, <3>2, <3>3
  <2>3. t \in SUBSET STRING
    BY <2>2
  <2>4. m => /\ names = Tables[f]
             /\ name = None => t = NamesOf(f)
             /\ name # None /\ name \in NamesOf(f) => t = {name}
    BY DEF NamesOf
  <2>6. m \in BOOLEAN
    BY DEF Makes
  <2>7. /\ c \in Document /\ SameFile(d, c) /\ Keyed(c) /\ (Makes(c) <=> m)
        /\ c.iBitmaps = {} /\ c.iFloating = None /\ c.iEditor # "live"
    BY ClearForgets
  <2>8. GetContentSheet(d, name, g) = r
    BY <1>2 DEF GetContentSheet
  <2> HIDE DEF names, t, m
  <2>9. /\ k \in Content /\ k.file = f /\ k.good = m /\ k.named = name /\ k.tables = t
        /\ k.pics = {}
    BY <2>1, <2>3, <2>6 DEF Nothing, Content
  <2>0. r = [c EXCEPT !.iTables = names, !.content = k, !.heap = f]
    OBVIOUS
  <2> HIDE DEF k, c, r
  <2>10. r \in Document
    <3>1. c = Fields(c) /\ Typed(c)
      BY <2>7, DocumentFields
    <3>2. r = Fields(r)
      BY <2>0, <3>1, Zenon DEF Fields
    <3>3. Typed(r)
      BY <2>0, <2>1, <2>2, <2>9, <3>1 DEF Fields, Typed
    <3> QED
      BY <3>2, <3>3, DocumentBuilt
  <2>11. /\ r.iTables = names /\ r.content = k /\ r.iEditor = c.iEditor
         /\ r.iBitmaps = c.iBitmaps
         /\ r.iFileName = c.iFileName /\ r.iHybridPDF = c.iHybridPDF /\ r.stop = c.stop
         /\ r.iEncrypted = c.iEncrypted /\ r.iEncryptData = c.iEncryptData
         /\ r.iPassword = c.iPassword /\ r.iNextViewID = c.iNextViewID
         /\ r.iFloating = c.iFloating
    <3>1. c = Fields(c)
      BY <2>7, DocumentFields
    <3> QED
      BY <2>0, <3>1 DEF Fields
  <2>12. r.iFileName = f /\ r.iHybridPDF = d.iHybridPDF /\ r.stop = "no"
         /\ r.iNextViewID = d.iNextViewID /\ r.iFloating = None
    BY <2>7, <2>11 DEF SameFile
  <2>13. Keyed(r) /\ (Makes(r) <=> m)
    BY <2>7, <2>11 DEF Keyed, Makes
  <2>14. Loaded(r)
    BY <2>9, <2>11, <2>12, <2>13 DEF Loaded
  <2>15. EditorOfTheFile(r, u) /\ PicturesOf(r.content) /\ BoxOf(r, u)
    BY <2>7, <2>9, <2>11, <2>12 DEF EditorOfTheFile, PicturesOf, BoxOf
  <2>16. SheetOfTheFile(r, u)
    <3>1. m /\ u.sheet /\ ~u.cancelled => Laid(k, f)
      BY <2>4, <2>9 DEF Laid, m
    <3> QED
      BY <2>4, <2>9, <2>11, <2>12, <2>13, <3>1 DEF SheetOfTheFile
  <2>17. Keys(r, u) /\ Sought(r)
    BY <2>7, <2>11, <2>13 DEF Keys, Sought
  <2> QED
    BY <2>8, <2>10, <2>12, <2>14, <2>15, <2>16, <2>17 DEF Reads, Editing
<1> QED
  BY <1>1, <1>2

(***************************************************************************)
(* A file of which nothing was read.                                       *)
(***************************************************************************)
LEMMA BlankEditing ==
  ASSUME NEW d \in Document, Blank(d), NEW u, u.sheet => u.cancelled /\ Keyed(d)
  PROVE  Editing(d, u)
BY DEF Editing, Blank, Nothing, Keys, Loaded, EditorOfTheFile, PicturesOf, BoxOf, SheetOfTheFile

(***************************************************************************)
(* The controls over the document.                                         *)
(***************************************************************************)
ScreenFields(w) ==
    [view |-> w.view, listed |-> w.listed, item |-> w.item, editor |-> w.editor,
     sheet |-> w.sheet, thumb |-> w.thumb, cancelled |-> w.cancelled]

ScreenTyped(w) ==
    /\ w.view \in {"list", "editor", "props", "image"} /\ w.listed \in SUBSET Files
    /\ w.item \in w.listed \cup {None} /\ w.editor \in BOOLEAN /\ w.sheet \in BOOLEAN
    /\ w.thumb \in Files \cup {None} /\ w.cancelled \in BOOLEAN

\* A record of the fields of the screen with their types is a screen.
LEMMA ScreenBuilt ==
  ASSUME NEW w, w = ScreenFields(w), ScreenTyped(w)
  PROVE  Shows(w)
<1>1. ScreenFields(w) \in Screen
  BY DEF Screen, ScreenFields, ScreenTyped
<1> QED
  BY <1>1 DEF Shows, ScreenTyped

\* The fields of the screen, one by one.
LEMMA ScreenOf ==
  ASSUME NEW w, Shows(w)
  PROVE  w = ScreenFields(w) /\ ScreenTyped(w)
BY DEF Shows, Screen, ScreenFields, ScreenTyped

\* The list view, rescanned, is a screen.
LEMMA ListShows ==
  ASSUME NEW there \in SUBSET Files
  PROVE  Shows(ListView(there)) /\ ListView(there).view = "list"
<1>1. Rescan(there) \in there \cup {None}
  BY DEF Rescan
<1> QED
  BY <1>1 DEF ListView, Shows, Screen

\* Every view without its controls is a screen.
LEMMA OtherShows ==
  ASSUME NEW v \in {"list", "editor", "props", "image"}
  PROVE  /\ Shows(OtherView(v)) /\ OtherView(v).view = v /\ OtherView(v).thumb = None
         /\ OtherView(v).sheet = FALSE
<1> DEFINE l == ListView({})
           w == OtherView(v)
<1>1. l = ScreenFields(l) /\ ScreenTyped(l) /\ l.thumb = None /\ l.sheet = FALSE
  BY ListShows, ScreenOf DEF ListView
<1>2. w = [l EXCEPT !.view = v]
  BY DEF OtherView
<1> HIDE DEF l, w
<1>3. w = ScreenFields(w)
  BY <1>1, <1>2, Zenon DEF ScreenFields
<1>4. ScreenTyped(w) /\ w.view = v /\ w.thumb = None /\ w.sheet = FALSE
  BY <1>1, <1>2 DEF ScreenFields, ScreenTyped
<1> QED
  BY <1>3, <1>4, ScreenBuilt DEF w

\* So it is after a query for the password.
LEMMA AskedShows ==
  ASSUME NEW v \in {"list", "editor", "props", "image"}, NEW b \in BOOLEAN,
         NEW w, w = [OtherView(v) EXCEPT !.cancelled = b]
  PROVE  Shows(w) /\ w.view = v /\ w.cancelled = b
<1> DEFINE o == OtherView(v)
<1>1. o = ScreenFields(o) /\ ScreenTyped(o) /\ o.view = v
  BY OtherShows, ScreenOf
<1>2. w = [o EXCEPT !.cancelled = b]
  OBVIOUS
<1> HIDE DEF o
<1>3. w = ScreenFields(w)
  BY <1>1, <1>2, Zenon DEF ScreenFields
<1>4. ScreenTyped(w) /\ w.view = v /\ w.cancelled = b
  BY <1>1, <1>2 DEF ScreenFields, ScreenTyped
<1> QED
  BY <1>3, <1>4, ScreenBuilt

\* The editor view has an editor for a text and a sheet view for a table.
LEMMA EditorShows ==
  ASSUME NEW d, NEW a
  PROVE  /\ Shows(EditorControls(d, a)) /\ EditorControls(d, a).view = "editor"
         /\ EditorControls(d, a).editor = (Kind[d.iFileName] = "text")
         /\ EditorControls(d, a).sheet = (Kind[d.iFileName] = "sheet")
         /\ EditorControls(d, a).cancelled = (a = "cancel")
<1> DEFINE o == OtherView("editor")
           w == EditorControls(d, a)
           x == Kind[d.iFileName] = "text"
           y == Kind[d.iFileName] = "sheet"
           z == a = "cancel"
<1>1. o = ScreenFields(o) /\ ScreenTyped(o) /\ o.view = "editor"
  BY OtherShows, ScreenOf
<1>2. w = [o EXCEPT !.editor = x, !.sheet = y, !.cancelled = z]
  BY DEF EditorControls
<1>3. x \in BOOLEAN /\ y \in BOOLEAN /\ z \in BOOLEAN
  OBVIOUS
<1> HIDE DEF o, w, x, y, z
<1>4. w = ScreenFields(w)
  BY <1>1, <1>2, Zenon DEF ScreenFields
<1>5. ScreenTyped(w) /\ w.view = "editor" /\ w.editor = x /\ w.sheet = y /\ w.cancelled = z
  BY <1>1, <1>2, <1>3 DEF ScreenFields, ScreenTyped
<1>6. Shows(w)
  BY <1>4, <1>5, ScreenBuilt
<1> QED
  BY <1>5, <1>6 DEF w, x, y, z

(***************************************************************************)
(* The editor view comes up: what it shows is of the file.                 *)
(***************************************************************************)
LEMMA EditorShowsTheFile ==
  ASSUME NEW d \in Document, Blank(d), d.iFileName \in Files, d.stop = "no",
         NEW a \in {"right", "wrong", "cancel"}, NEW g \in {None, d.heap}
  PROVE  Reads(d, EditorContent(d, a, g), EditorControls(d, a))
<1> DEFINE t == GetType(d)
           k == IF t.iEncrypted THEN SetPassword(t, a) ELSE t
           u == EditorControls(d, a)
<1>1. /\ t \in Document /\ Keyed(t) /\ SameFile(d, t) /\ Blank(t) /\ t.heap = d.heap
  BY TypeGivesKeys
<1>2. /\ k \in Document /\ Keyed(k) /\ SameFile(d, k) /\ Blank(k) /\ k.heap = d.heap
  BY <1>1, PasswordKeepsKeys DEF SameFile
<1>3. /\ u.editor = (Kind[d.iFileName] = "text")
      /\ u.sheet = (Kind[d.iFileName] = "sheet")
      /\ u.cancelled = (a = "cancel")
  BY EditorShows
<1>4. EditorContent(d, a, g) =
        IF Kind[d.iFileName] = "unknown" THEN t
        ELSE IF t.iEncrypted /\ a = "cancel" THEN t
        ELSE IF Kind[d.iFileName] = "text" THEN GetContentText(k, g)
        ELSE GetContentSheet(k, None, g)
  BY DEF EditorContent
<1>5. Kind[d.iFileName] \in {"text", "sheet", "unknown"}
  BY ViewerConstants
<1> HIDE DEF t, k, u
<1>6. CASE Kind[d.iFileName] = "unknown" \/ (t.iEncrypted /\ a = "cancel")
  <2>1. EditorContent(d, a, g) = t
    BY <1>4, <1>6
  <2>2. u.sheet => u.cancelled
    BY <1>3, <1>6
  <2>3. Editing(t, u)
    BY <1>1, <2>2, BlankEditing
  <2> QED
    BY <1>1, <2>1, <2>3 DEF Reads, SameFile, u
<1>7. CASE Kind[d.iFileName] = "text" /\ ~(t.iEncrypted /\ a = "cancel")
  <2>1. EditorContent(d, a, g) = GetContentText(k, g)
    BY <1>4, <1>7
  <2>2. u.editor = TRUE /\ u.sheet = FALSE
    BY <1>3, <1>7
  <2>3. k.stop = "no" /\ g \in {None, k.heap}
    BY <1>2 DEF SameFile
  <2>4. Reads(k, GetContentText(k, g), u)
    BY <1>2, <2>2, <2>3, TextIsOfTheFile
  <2> QED
    BY <1>2, <2>1, <2>4 DEF Reads, SameFile, u
<1>8. CASE Kind[d.iFileName] = "sheet" /\ ~(t.iEncrypted /\ a = "cancel")
  <2>1. EditorContent(d, a, g) = GetContentSheet(k, None, g)
    BY <1>4, <1>8
  <2>2. k.stop = "no" /\ g \in {None, k.heap} /\ k.iFloating = None /\ k.iEditor # "live"
    BY <1>2 DEF SameFile, Blank
  <2>3. None \in STRING \cup {None}
    OBVIOUS
  <2>4. Reads(k, GetContentSheet(k, None, g), u)
    BY <1>2, <2>2, <2>3, SheetIsOfTheFile
  <2> QED
    BY <1>2, <2>1, <2>4 DEF Reads, SameFile, u
<1> QED
  BY <1>5, <1>6, <1>7, <1>8

\* Reading the properties changes nothing else of the document.
LEMMA MetaMoves ==
  ASSUME NEW d \in Document, NEW f \in Files \cup {None}
  PROVE  LET r == [d EXCEPT !.iMeta = f] IN
         r \in Document /\ SameFile(d, r) /\ (Blank(d) => Blank(r)) /\ r.iMeta = f
<1> DEFINE r == [d EXCEPT !.iMeta = f]
<1>1. d = Fields(d) /\ Typed(d) /\ r = [d EXCEPT !.iMeta = f]
  BY DocumentFields
<1> HIDE DEF r
<1>2. r = Fields(r)
  BY <1>1, Zenon DEF Fields
<1>3. Typed(r)
  BY <1>1 DEF Fields, Typed
<1>4. SameFile(d, r) /\ (Blank(d) => Blank(r)) /\ r.iMeta = f
  BY <1>1 DEF Fields, SameFile, Blank, Sought
<1> QED
  BY <1>2, <1>3, <1>4, DocumentBuilt DEF r

(***************************************************************************)
(* The properties: of the file, or none.                                   *)
(***************************************************************************)
LEMMA MetaIsOfTheFile ==
  ASSUME NEW d \in Document, Blank(d), d.iFileName \in Files, d.stop = "no"
  PROVE  LET r == LoadMetaInfomation(d) IN
         /\ r \in Document /\ Blank(r)
         /\ r.iFileName = d.iFileName /\ r.iHybridPDF = d.iHybridPDF
         /\ \/ r.stop = "password"
            \/ r.stop = "no" /\ r.iNextViewID = d.iNextViewID /\ r.iMeta \in {None, r.iFileName}
<1> DEFINE e == [d EXCEPT !.iMeta = None]
           t == GetType(e)
           m == [t EXCEPT !.iMeta = d.iFileName]
<1>1. e \in Document /\ SameFile(d, e) /\ Blank(e)
  BY MetaMoves
<1>2. t \in Document /\ Blank(t) /\ SameFile(e, t) /\ t.iMeta = e.iMeta
  BY <1>1, TypeGivesKeys DEF SameFile
<1>3. e.iMeta = None
  BY MetaMoves
<1>4. m \in Document /\ Blank(m) /\ SameFile(t, m) /\ m.iMeta = d.iFileName
  BY <1>2, MetaMoves
<1>5. LoadMetaInfomation(d) = IF t.iEncrypted
                             THEN IF t.iPassword = None THEN Died(t, "password") ELSE t
                             ELSE m
  BY DEF LoadMetaInfomation
<1> HIDE DEF t, e, m
<1>6. Died(t, "password") \in Document /\ Blank(Died(t, "password"))
      /\ Died(t, "password").stop = "password"
      /\ Died(t, "password").iFileName = t.iFileName
      /\ Died(t, "password").iHybridPDF = t.iHybridPDF
  BY <1>2, DiedIsBlank DEF Dead
<1>7. CASE t.iEncrypted /\ t.iPassword = None
  BY <1>1, <1>2, <1>5, <1>6, <1>7 DEF SameFile
<1>8. CASE t.iEncrypted /\ t.iPassword # None
  BY <1>1, <1>2, <1>3, <1>5, <1>8 DEF SameFile
<1>9. CASE ~t.iEncrypted
  BY <1>1, <1>2, <1>4, <1>5, <1>9 DEF SameFile
<1> QED
  BY <1>7, <1>8, <1>9

\* Properties shown without a cancelled query are those of the file, or none.
LEMMA PropertiesAreOfTheFile ==
  ASSUME NEW d \in Document, Blank(d), d.stop = "no", NEW a \in Answer(d.iEncrypted),
         d.iFileName \in Files \/ a = "cancel"
  PROVE  LET r == Properties(d, a) IN
         /\ r \in Document /\ Blank(r)
         /\ r.iFileName = d.iFileName /\ r.iHybridPDF = d.iHybridPDF
         /\ \/ r.stop = "password"
            \/ /\ r.stop = "no" /\ r.iNextViewID = d.iNextViewID
               /\ a # "cancel" => r.iMeta \in {None, r.iFileName}
<1> DEFINE s == SetPassword(d, a)
<1>1. CASE d.iEncrypted /\ a = "cancel"
  BY <1>1 DEF Properties
<1>2. CASE d.iEncrypted /\ a # "cancel"
  <2>1. Properties(d, a) = LoadMetaInfomation(s)
    BY <1>2 DEF Properties
  <2>2. s \in Document /\ SameFile(d, s) /\ Blank(s)
    BY PasswordKeepsKeys
  <2> HIDE DEF s
  <2>3. s.iFileName \in Files /\ s.stop = "no"
    BY <1>2, <2>2 DEF SameFile
  <2> QED
    BY <2>1, <2>2, <2>3, MetaIsOfTheFile DEF SameFile
<1>3. CASE ~d.iEncrypted
  <2>1. a # "cancel"
    BY <1>3 DEF Answer
  <2>2. Properties(d, a) = LoadMetaInfomation(d)
    BY <1>3 DEF Properties
  <2> QED
    BY <2>1, <2>2, MetaIsOfTheFile
<1> QED
  BY <1>1, <1>2, <1>3

(***************************************************************************)
(* One more engine for the thumbnail.                                      *)
(***************************************************************************)
LEMMA ThumbnailAddsAnEngine ==
  ASSUME NEW d \in Document, Blank(d)
  PROVE  LET r == GetThubnail(d) IN r \in Document /\ Blank(r) /\ SameFile(d, r)
<1> DEFINE r == GetThubnail(d)
           e == [kind |-> "thumbnail", of |-> d.iFileName]
           b == d.iBitmaps \cup {e}
           s == d.sought \cup {d.iFileName}
<1>1. CASE d.iFileName \notin Thumbnailed \ Secret
  BY <1>1 DEF GetThubnail, SameFile
<1>2. CASE d.iFileName \in Thumbnailed \ Secret
  <2>1. d = Fields(d) /\ Typed(d) /\ r = [d EXCEPT !.iBitmaps = b, !.sought = s]
    BY <1>2, DocumentFields DEF GetThubnail
  <2>2. b \in SUBSET Engine /\ s \in SUBSET Files
    BY <1>2, ViewerConstants DEF Document, Engine
  <2>3. \A x \in b : x.kind = "thumbnail" => x.of \in s
    BY DEF Blank, Sought
  <2> HIDE DEF b, e, r, s
  <2>4. r = Fields(r)
    BY <2>1, Zenon DEF Fields
  <2>5. Typed(r)
    BY <2>1, <2>2 DEF Fields, Typed
  <2>6. Blank(r) /\ SameFile(d, r)
    BY <2>1, <2>3 DEF Fields, SameFile, Blank, Sought
  <2> QED
    BY <2>4, <2>5, <2>6, DocumentBuilt DEF r
<1> QED
  BY <1>1, <1>2

(***************************************************************************)
(* What the activation of a view leaves: document and view agree, and the  *)
(* document is still that of the file.                                     *)
(***************************************************************************)
Activated(d, v) ==
    /\ doc' \in Document /\ Shows(ui') /\ Faithful(doc', ui')
    /\ doc'.iFileName = d.iFileName /\ doc'.iHybridPDF = d.iHybridPDF
    /\ doc'.stop # "off" /\ ui'.view = v
    /\ doc'.stop = "no" => doc'.iNextViewID = d.iNextViewID

\* Of properties that cannot be read nothing is left of the ones before.
LEMMA UnreadIsBlank ==
  ASSUME NEW d \in Document, Blank(d), NEW a
  PROVE  LET r == UnreadProperties(d, a) IN
         r \in Document /\ Blank(r) /\ SameFile(d, r) /\ r.iMeta = None
<1> DEFINE k == IF d.iEncrypted THEN SetPassword(d, a) ELSE d
<1>1. k \in Document /\ Blank(k) /\ SameFile(d, k)
  BY PasswordKeepsKeys DEF SameFile
<1>2. UnreadProperties(d, a) = [k EXCEPT !.iMeta = None]
  BY DEF UnreadProperties
<1> HIDE DEF k
<1> QED
  BY <1>1, <1>2, MetaMoves DEF SameFile

\* A container left half made shows nothing.
LEMMA HalfMadeIsFaithful ==
  ASSUME NEW d \in Document, Blank(d), d.stop = "no",
         NEW v \in {"editor", "props", "image"}, v = "props" => d.iMeta = None,
         HalfMade(d, v)
  PROVE  Activated(d, v)
<1>1. /\ Shows(ui') /\ ui'.view = v /\ ui'.thumb = None /\ ui'.sheet = FALSE
  BY OtherShows DEF HalfMade
<1>2. CASE doc' = d
  <2>1. Editing(doc', ui')
    BY <1>1, <1>2, BlankEditing
  <2> QED
    BY <1>1, <1>2, <2>1 DEF Activated, Faithful, MetaOfTheFile, ThumbOf
<1>3. CASE doc' = Died(d, "leave")
  <2>1. /\ doc' \in Document /\ Blank(doc') /\ doc'.stop = "leave"
        /\ doc'.iFileName = d.iFileName /\ doc'.iHybridPDF = d.iHybridPDF
    BY <1>3, DiedIsBlank DEF Dead
  <2> QED
    BY <1>1, <2>1 DEF Activated, Faithful
<1> QED
  BY <1>2, <1>3 DEF HalfMade

(***************************************************************************)
(* Whatever view is activated, document and view agree afterwards.         *)
(***************************************************************************)
LEMMA ActivateStep ==
  ASSUME NEW d \in Document, d.iFloating = None, Sought(d), d.stop = "no",
         NEW archives \in SUBSET Files, disk \in SUBSET Files,
         NEW v \in {"list", "editor", "props", "image"},
         Activate(d, v, archives)
  PROVE  Activated(d, v)
<1> DEFINE l == Left(d)
<1>1. l \in Document /\ Blank(l) /\ SameFile(d, l) /\ l.stop = "no"
      /\ l.iEncrypted = d.iEncrypted /\ l.heap = d.heap
  BY LeftIsBlank DEF SameFile
<1>2. Readable(d, archives) => d.iFileName \in Files
  BY DEF Readable
<1> HIDE DEF l
<1>3. CASE v = "list" /\ doc' = l /\ ui' = ListView(disk)
  BY <1>1, <1>3, ListShows DEF Activated, Faithful, MetaOfTheFile, ThumbOf, SameFile
<1>4. CASE /\ v = "editor" /\ Readable(d, archives)
           /\ \E a \in Answer(d.iFileName \in Secret), g \in {None, d.heap} :
                 doc' = EditorContent(l, a, g) /\ ui' = EditorControls(l, a)
  <2>1. PICK a \in Answer(d.iFileName \in Secret), g \in {None, d.heap} :
              doc' = EditorContent(l, a, g) /\ ui' = EditorControls(l, a)
    BY <1>4
  <2>2. a \in {"right", "wrong", "cancel"} /\ g \in {None, l.heap} /\ l.iFileName \in Files
    BY <1>1, <1>2, <1>4 DEF Answer, SameFile
  <2>3. Shows(ui') /\ ui'.view = "editor"
    BY <2>1, EditorShows
  <2>4. /\ doc' \in Document
        /\ doc'.iFileName = l.iFileName /\ doc'.iHybridPDF = l.iHybridPDF
        /\ \/ doc'.stop = "password" /\ Blank(doc')
           \/ doc'.stop = "no" /\ doc'.iNextViewID = l.iNextViewID /\ Editing(doc', ui')
    BY <1>1, <2>1, <2>2, EditorShowsTheFile DEF Reads
  <2> QED
    BY <1>1, <1>4, <2>3, <2>4 DEF Activated, Faithful, SameFile
<1>5. ASSUME NEW a \in Answer(d.iEncrypted), v = "props",
             Readable(d, archives) \/ a = "cancel",
             doc' = Properties(l, a), ui' = [OtherView(v) EXCEPT !.cancelled = a = "cancel"]
      PROVE  Activated(d, v)
  <2> DEFINE b == a = "cancel"
  <2>2. b \in BOOLEAN /\ ui' = [OtherView(v) EXCEPT !.cancelled = b]
    BY <1>5
  <2> HIDE DEF b
  <2>3. Shows(ui') /\ ui'.view = v /\ ui'.cancelled = b
    BY <2>2, AskedShows
  <2>4. a \in Answer(l.iEncrypted) /\ (l.iFileName \in Files \/ a = "cancel")
    BY <1>1, <1>2, <1>5 DEF SameFile
  <2>5. /\ doc' \in Document /\ Blank(doc')
        /\ doc'.iFileName = l.iFileName /\ doc'.iHybridPDF = l.iHybridPDF
        /\ \/ doc'.stop = "password"
           \/ /\ doc'.stop = "no" /\ doc'.iNextViewID = l.iNextViewID
              /\ a # "cancel" => doc'.iMeta \in {None, doc'.iFileName}
    BY <1>1, <1>5, <2>4, PropertiesAreOfTheFile
  <2> QED
    BY <1>1, <1>5, <2>3, <2>5 DEF Activated, Faithful, MetaOfTheFile, ThumbOf, SameFile, b
<1>6. CASE v = "image" /\ Readable(d, archives) /\ doc' = GetThubnail(l) /\ ui' = OtherView(v)
  <2>1. doc' \in Document /\ Blank(doc') /\ SameFile(l, doc')
    BY <1>1, <1>6, ThumbnailAddsAnEngine
  <2>2. Shows(ui') /\ ui'.view = v /\ ui'.thumb = None
    BY <1>6, OtherShows
  <2> QED
    BY <1>1, <1>6, <2>1, <2>2 DEF Activated, Faithful, MetaOfTheFile, ThumbOf, SameFile
<1>7. CASE v \in {"editor", "image"} /\ HalfMade(l, v)
  BY <1>1, <1>7, HalfMadeIsFaithful DEF Activated, SameFile
<1>8. ASSUME NEW a \in Answer(d.iEncrypted), v = "props", HalfMade(UnreadProperties(l, a), v)
      PROVE  Activated(d, v)
  <2> DEFINE r == UnreadProperties(l, a)
  <2>1. r \in Document /\ Blank(r) /\ SameFile(l, r) /\ r.iMeta = None
    BY <1>1, UnreadIsBlank
  <2> HIDE DEF r
  <2>2. r.stop = "no" /\ HalfMade(r, v)
    BY <1>1, <1>8, <2>1 DEF SameFile, r
  <2> QED
    BY <1>1, <1>8, <2>1, <2>2, HalfMadeIsFaithful DEF Activated, SameFile
<1>9. CASE v = "props"
  <2>1. PICK a \in Answer(d.iEncrypted) :
             IF Readable(d, archives) \/ a = "cancel"
             THEN /\ doc' = Properties(l, a)
                  /\ ui' = [OtherView(v) EXCEPT !.cancelled = a = "cancel"]
             ELSE HalfMade(UnreadProperties(l, a), v)
    BY <1>9 DEF Activate, l
  <2>2. CASE Readable(d, archives) \/ a = "cancel"
    BY <1>5, <1>9, <2>1, <2>2
  <2>3. CASE ~(Readable(d, archives) \/ a = "cancel")
    BY <1>8, <1>9, <2>1, <2>3
  <2> QED
    BY <2>2, <2>3
<1> QED
  BY <1>3, <1>4, <1>6, <1>7, <1>9 DEF Activate, l

-----------------------------------------------------------------------------
\* The archives a, but the one of the document d, are litter.
Tidy(d, a, rest) == a \subseteq rest \cup (IF d.iHybridPDF THEN {d.iFileName} ELSE {})

(***************************************************************************)
(* A file is chosen: the archive of the last one goes, its own comes, and  *)
(* what is shown stays.                                                    *)
(***************************************************************************)
LEMMA ChoiceIsTidy ==
  ASSUME NEW d \in Document, NEW f \in Files, NEW rest, temps \in SUBSET Files,
         Tidy(d, temps, rest), Blank(d), d.stop = "no"
  PROVE  LET r == SetFileName(d, f) IN
         /\ r \in Document /\ Blank(r)
         /\ TempsAfter(d, f) \in SUBSET Files /\ Tidy(r, TempsAfter(d, f), rest)
         /\ \/ r.stop = "pdf" /\ f \notin disk
            \/ r.stop = "no" /\ r.iFileName = f
<1> DEFINE h == f \in Hybrid
           z == [d EXCEPT !.iHybridPDF = FALSE]
<1>1. CASE h /\ f \notin disk
  <2>1. z \in Document /\ z.iHybridPDF = FALSE
    BY ZenonT(40) DEF Document
  <2>2. SetFileName(d, f) = Died(z, "pdf")
    BY <1>1 DEF SetFileName
  <2> HIDE DEF z
  <2>3. /\ Died(z, "pdf") \in Document /\ Blank(Died(z, "pdf"))
        /\ Died(z, "pdf").stop = "pdf" /\ Died(z, "pdf").iHybridPDF = FALSE
    BY <2>1, DiedIsBlank DEF Dead
  <2>4. TempsAfter(d, f) \subseteq temps /\ TempsAfter(d, f) \subseteq rest
    BY <1>1 DEF TempsAfter, Tidy
  <2> QED
    BY <1>1, <2>2, <2>3, <2>4 DEF Tidy
<1>2. CASE ~(h /\ f \notin disk)
  <2>1. h \in BOOLEAN /\ f \in Files \cup {None}
    OBVIOUS
  <2>2. SetFileName(d, f) = [d EXCEPT !.iFileName = f, !.iHybridPDF = h]
    BY <1>2 DEF SetFileName
  <2>3. TempsAfter(d, f) \subseteq Files
    BY DEF TempsAfter
  <2>4. TempsAfter(d, f) \subseteq rest \cup (IF h THEN {f} ELSE {})
    BY DEF TempsAfter, Tidy
  <2> HIDE DEF h
  <2> DEFINE r == SetFileName(d, f)
  <2>5. r = [d EXCEPT !.iFileName = f, !.iHybridPDF = h]
    BY <2>2
  <2> HIDE DEF r
  <2>6. d = Fields(d) /\ Typed(d)
    BY DocumentFields
  <2>7. r \in Document
    <3>1. r = Fields(r)
      BY <2>5, <2>6, Zenon DEF Fields
    <3>2. Typed(r)
      BY <2>1, <2>5, <2>6 DEF Fields, Typed
    <3> QED
      BY <3>1, <3>2, DocumentBuilt
  <2>8. /\ r.iFileName = f /\ r.iHybridPDF = h /\ r.stop = d.stop
        /\ r.iFloating = d.iFloating /\ r.content = d.content /\ r.iEditor = d.iEditor
        /\ r.iBitmaps = d.iBitmaps /\ r.sought = d.sought
    BY <2>5, <2>6 DEF Fields
  <2>9. Blank(r) /\ Tidy(r, TempsAfter(d, f), rest)
    BY <2>4, <2>8 DEF Tidy, Blank, Sought
  <2> QED
    BY <2>3, <2>7, <2>8, <2>9 DEF r
<1> QED
  BY <1>1, <1>2

(***************************************************************************)
(* What the list of files does first with any command.                     *)
(***************************************************************************)
LEMMA ChosenIsTidy ==
  ASSUME IInv, Running("list")
  PROVE  /\ Chosen \in Document /\ Blank(Chosen) /\ ChosenTemps \in SUBSET Files
         /\ Tidy(Chosen, ChosenTemps, litter)
         /\ \/ Chosen.stop = "pdf"
            \/ Chosen.stop = "no" /\ (ui.item # None => Chosen.iNextViewID = "list")
         /\ ui.item \in disk => Chosen.stop = "no"
<1>1. /\ doc \in Document /\ Blank(doc) /\ doc.stop = "no" /\ temps \in SUBSET Files
      /\ Tidy(doc, temps, litter) /\ ui.item \in Files \cup {None}
  BY DEF IInv, TypeOK, Faithful, Running, NoArchiveLeft, Tidy, Screen
<1>2. CASE ui.item = None
  BY <1>1, <1>2, ViewerConstants DEF Chosen, ChosenTemps
<1>3. CASE ui.item # None
  <2> DEFINE r == SetFileName(doc, ui.item)
             n == "list"
  <2>1. /\ r \in Document /\ Blank(r)
        /\ TempsAfter(doc, ui.item) \in SUBSET Files /\ Tidy(r, TempsAfter(doc, ui.item), litter)
        /\ \/ r.stop = "pdf" /\ ui.item \notin disk
           \/ r.stop = "no" /\ r.iFileName = ui.item
    BY <1>1, <1>3, ChoiceIsTidy
  <2>2. Chosen = [r EXCEPT !.iNextViewID = "list"] /\ ChosenTemps = TempsAfter(doc, ui.item)
    BY <1>3 DEF Chosen, ChosenTemps
  <2> HIDE DEF r
  <2>3. Chosen \in Document /\ Chosen.iNextViewID = "list"
    BY <2>1, <2>2 DEF Document
  <2>4. /\ Chosen.stop = r.stop /\ Chosen.iHybridPDF = r.iHybridPDF
        /\ Chosen.iFileName = r.iFileName /\ Chosen.iFloating = r.iFloating
        /\ Chosen.content = r.content /\ Chosen.iEditor = r.iEditor
        /\ Chosen.iBitmaps = r.iBitmaps /\ Chosen.sought = r.sought
    BY <2>1, <2>2 DEF Document
  <2> QED
    BY <2>1, <2>2, <2>3, <2>4 DEF Tidy, Blank, Sought
<1> QED
  BY <1>2, <1>3

(***************************************************************************)
(* The invariant after a change of view.                                   *)
(***************************************************************************)
LEMMA Switched ==
  ASSUME IInv, NEW d \in Document, d.iFloating = None, Sought(d), d.stop = "no",
         NEW archives \in SUBSET Files, NEW v \in {"list", "editor", "props", "image"},
         Activate(d, v, archives), Tidy(d, archives, litter'),
         temps' = archives, disk' = disk, litter' \in SUBSET Files, origin' \in {"list", "editor"},
         v \in {"props", "image"} => d.iNextViewID = origin'
  PROVE  IInv'
<1>1. disk \in SUBSET Files
  BY DEF IInv, TypeOK
<1>2. /\ doc' \in Document /\ Shows(ui') /\ Faithful(doc', ui')
      /\ doc'.iFileName = d.iFileName /\ doc'.iHybridPDF = d.iHybridPDF
      /\ doc'.stop # "off" /\ ui'.view = v
      /\ doc'.stop = "no" => doc'.iNextViewID = d.iNextViewID
  BY <1>1, ActivateStep DEF Activated
<1>3. TypeOK'
  BY <1>1, <1>2 DEF TypeOK, Shows
<1>4. BackToOrigin'
  BY <1>2 DEF BackToOrigin, Running
<1>5. NoArchiveLeft'
  BY <1>2 DEF NoArchiveLeft, Tidy
<1> QED
  BY <1>2, <1>3, <1>4, <1>5 DEF IInv, CleanExit

(***************************************************************************)
(* The invariant after a step that leaves a blank document under a view    *)
(* that shows nothing of it, or kills the program.                         *)
(***************************************************************************)
LEMMA Blanked ==
  ASSUME IInv, doc' \in Document, Blank(doc'), doc'.stop # "off", Shows(ui'),
         doc'.stop = "no" => ui'.view = "list",
         disk' \in SUBSET Files, temps' \in SUBSET Files, UNCHANGED <<litter, origin>>,
         Tidy(doc', temps', litter)
  PROVE  IInv'
<1>1. TypeOK'
  BY DEF IInv, TypeOK, Shows
<1>2. Faithful(doc', ui') /\ BackToOrigin' /\ CleanExit' /\ NoArchiveLeft'
  BY DEF Faithful, MetaOfTheFile, ThumbOf, BackToOrigin, Running, CleanExit, NoArchiveLeft, Tidy
<1> QED
  BY <1>1, <1>2 DEF IInv

(***************************************************************************)
(* The list of files.                                                      *)
(***************************************************************************)
LEMMA ListCommandStep ==
  ASSUME IInv, NEW v \in {"editor", "props", "image"}, ListCommand(v)
  PROVE  IInv'
<1>1. /\ Chosen \in Document /\ Blank(Chosen) /\ ChosenTemps \in SUBSET Files
      /\ Tidy(Chosen, ChosenTemps, litter)
      /\ \/ Chosen.stop = "pdf"
         \/ Chosen.stop = "no" /\ (ui.item # None => Chosen.iNextViewID = "list")
  BY ChosenIsTidy DEF ListCommand
<1>2. /\ temps' = ChosenTemps /\ disk' = disk /\ litter' = litter
      /\ litter \in SUBSET Files /\ disk \in SUBSET Files /\ origin \in {"list", "editor"}
      /\ ui.view = "list" /\ Shows(ui)
  BY DEF ListCommand, IInv, TypeOK, Running, Shows
<1>3. CASE doc' = Chosen /\ ui' = ui /\ origin' = origin
  BY <1>1, <1>2, <1>3, Blanked
<1>4. CASE /\ Chosen.stop = "no" /\ ui.item # None
           /\ Activate(Chosen, v, ChosenTemps) /\ origin' = "list"
  BY <1>1, <1>2, <1>4, Switched DEF Blank
<1>5. CASE doc' = Chosen /\ ui' = ListView(disk) /\ origin' = origin
  <2>1. Shows(ui') /\ ui'.view = "list"
    BY <1>2, <1>5, ListShows
  <2> QED
    BY <1>1, <1>2, <1>5, <2>1, Blanked
<1> QED
  BY <1>1, <1>3, <1>4, <1>5 DEF ListCommand

\* Opening a file from the list by the middle key keeps the invariant.
LEMMA ListEnterStep ==
  ASSUME IInv, ListEnter
  PROVE  IInv'
<1>1. /\ doc \in Document /\ Blank(doc) /\ doc.stop = "no" /\ temps \in SUBSET Files
      /\ Tidy(doc, temps, litter) /\ ui.item \in Files \cup {None} /\ ui.item # None
      /\ litter \in SUBSET Files /\ disk \in SUBSET Files /\ origin \in {"list", "editor"}
  BY DEF ListEnter, IInv, TypeOK, Faithful, Running, NoArchiveLeft, Tidy, Screen
<1>2. CASE /\ ui.item \in disk
           /\ Activate(SetFileName(doc, ui.item), "editor", TempsAfter(doc, ui.item))
           /\ temps' = TempsAfter(doc, ui.item)
  <2>1. /\ SetFileName(doc, ui.item) \in Document /\ Blank(SetFileName(doc, ui.item))
        /\ TempsAfter(doc, ui.item) \in SUBSET Files
        /\ Tidy(SetFileName(doc, ui.item), TempsAfter(doc, ui.item), litter)
        /\ SetFileName(doc, ui.item).stop = "no"
    BY <1>1, <1>2, ChoiceIsTidy
  <2>2. disk' = disk /\ litter' = litter /\ origin' = origin
    BY DEF ListEnter
  <2> QED
    BY <1>1, <1>2, <2>1, <2>2, Switched DEF Blank
<1>3. CASE ui' = ListView(disk) /\ UNCHANGED <<doc, temps>>
  <2>1. Shows(ui') /\ ui'.view = "list"
    BY <1>1, <1>3, ListShows
  <2> QED
    BY <1>1, <1>3, <2>1, Blanked DEF ListEnter
<1> QED
  BY <1>2, <1>3 DEF ListEnter

\* Deleting a file from the list leaves a screen that shows what is there.
LEMMA DeletedShows ==
  ASSUME Shows(ui), disk \in SUBSET Files, Deleted
  PROVE  Shows(ui') /\ ui'.view = ui.view /\ disk' \in SUBSET Files
<1>1. disk' \in SUBSET Files
  <2>1. disk' = disk \ {ui.item}
    BY Zenon DEF Deleted
  <2> QED
    BY <2>1
<1>2. CASE ui.item \notin disk
  <2>1. ui' = ui
    BY <1>2, Zenon DEF Deleted
  <2> QED
    BY <1>1, <2>1
<1>3. CASE ui.item \in disk
  <2> DEFINE w == ui'
  <2>1. PICK i \in (ui.listed \ {ui.item}) \cup {None} :
               w = [ui EXCEPT !.listed = @ \ {ui.item}, !.item = i]
    BY <1>3, Zenon DEF Deleted
  <2>2. ui = ScreenFields(ui) /\ ScreenTyped(ui)
    BY ScreenOf
  <2> HIDE DEF w
  <2>3. w = ScreenFields(w)
    BY <2>1, <2>2, Zenon DEF ScreenFields
  <2>4. ScreenTyped(w) /\ w.view = ui.view
    BY <2>1, <2>2 DEF ScreenFields, ScreenTyped
  <2> QED
    BY <1>1, <2>3, <2>4, ScreenBuilt DEF w
<1> QED
  BY <1>2, <1>3

\* Moving in the list, deleting from it and refreshing it keep the invariant.
LEMMA ListStep ==
  ASSUME IInv, ListRefresh \/ ListDelete \/ ListBackspace \/ \E f \in Files : Select(f)
  PROVE  IInv'
<1>1. /\ Running("list") /\ ui.view = "list" /\ Shows(ui) /\ disk \in SUBSET Files
      /\ doc \in Document /\ Blank(doc) /\ doc.stop = "no"
      /\ temps \in SUBSET Files /\ Tidy(doc, temps, litter)
  BY DEF ListRefresh, ListDelete, ListBackspace, Select, IInv, TypeOK, Faithful, Running, Shows,
         NoArchiveLeft, Tidy
<1>2. /\ Chosen \in Document /\ Blank(Chosen) /\ ChosenTemps \in SUBSET Files
      /\ Tidy(Chosen, ChosenTemps, litter) /\ Chosen.stop \in {"no", "pdf"}
  BY <1>1, ChosenIsTidy
<1>3. CASE ListRefresh
  <2>1. Shows(ui') /\ ui'.view = "list"
    BY <1>1, <1>3, ListShows DEF ListRefresh
  <2> QED
    BY <1>1, <1>2, <1>3, <2>1, Blanked DEF ListRefresh
<1>4. CASE ListDelete
  <2>1. Shows(ui') /\ ui'.view = "list" /\ disk' \in SUBSET Files
    BY <1>1, <1>4, DeletedShows DEF ListDelete
  <2> QED
    BY <1>1, <1>2, <1>4, <2>1, Blanked DEF ListDelete
<1>5. CASE ListBackspace
  <2>1. Shows(ui') /\ ui'.view = "list" /\ disk' \in SUBSET Files
    BY <1>1, <1>5, DeletedShows DEF ListBackspace
  <2> QED
    BY <1>1, <1>5, <2>1, Blanked DEF ListBackspace
<1>6. CASE \E f \in Files : Select(f)
  <2>1. PICK f \in Files : Select(f)
    BY <1>6
  <2>2. Shows(ui') /\ ui'.view = "list"
    BY <1>1, <2>1 DEF Select, Shows, Screen
  <2> QED
    BY <1>1, <2>1, <2>2, Blanked DEF Select
<1> QED
  BY <1>3, <1>4, <1>5, <1>6

(***************************************************************************)
(* The commands of the editor view hide the box and note the view.         *)
(***************************************************************************)
LEMMA FirstHides ==
  ASSUME NEW d \in Document
  PROVE  LET r == EditorFirst(d) IN
         /\ r \in Document /\ r.iNextViewID = "editor" /\ r.iFloating = None
         /\ r.iFileName = d.iFileName /\ r.iHybridPDF = d.iHybridPDF /\ r.stop = d.stop
         /\ r.iEncrypted = d.iEncrypted /\ r.iEncryptData = d.iEncryptData
         /\ r.iPassword = d.iPassword /\ r.iEditor = d.iEditor /\ r.content = d.content
         /\ r.iBitmaps = d.iBitmaps /\ r.iTables = d.iTables /\ r.heap = d.heap
         /\ r.iMeta = d.iMeta /\ r.sought = d.sought
<1> DEFINE r == EditorFirst(d)
<1>1. r = [[d EXCEPT !.iNextViewID = "editor"] EXCEPT !.iFloating = None]
  BY DEF EditorFirst, HideNote
<1> HIDE DEF r
<1>2. d = Fields(d) /\ Typed(d)
  BY DocumentFields
<1>3. r = Fields(r)
  BY <1>1, <1>2, Zenon DEF Fields
<1>4. Typed(r)
  BY <1>1, <1>2 DEF Fields, Typed
<1>5. r \in Document
  BY <1>3, <1>4, DocumentBuilt
<1>6. /\ r.iNextViewID = "editor" /\ r.iFloating = None
      /\ r.iFileName = d.iFileName /\ r.iHybridPDF = d.iHybridPDF /\ r.stop = d.stop
      /\ r.iEncrypted = d.iEncrypted /\ r.iEncryptData = d.iEncryptData
      /\ r.iPassword = d.iPassword /\ r.iEditor = d.iEditor /\ r.content = d.content
      /\ r.iBitmaps = d.iBitmaps /\ r.iTables = d.iTables /\ r.heap = d.heap
      /\ r.iMeta = d.iMeta /\ r.sought = d.sought
  BY <1>1, <1>2 DEF Fields
<1> QED
  BY <1>5, <1>6 DEF r

(***************************************************************************)
(* What holds in the editor view.                                          *)
(***************************************************************************)
LEMMA InTheEditor ==
  ASSUME IInv, Running("editor")
  PROVE  /\ doc \in Document /\ doc.stop = "no" /\ ui.view = "editor" /\ Shows(ui)
         /\ Editing(doc, ui) /\ Tidy(doc, temps, litter)
         /\ temps \in SUBSET Files /\ disk \in SUBSET Files /\ litter \in SUBSET Files
         /\ origin \in {"list", "editor"}
BY DEF IInv, TypeOK, Faithful, Running, NoArchiveLeft, Tidy, Shows

(***************************************************************************)
(* The invariant after a step within the editor view.                      *)
(***************************************************************************)
LEMMA Stayed ==
  ASSUME IInv, Running("editor"), doc' \in Document, UNCHANGED <<ui, disk, temps, litter, origin>>,
         doc'.iFileName = doc.iFileName, doc'.iHybridPDF = doc.iHybridPDF, doc'.stop # "off",
         IF doc'.stop = "no" THEN Editing(doc', ui) ELSE Blank(doc')
  PROVE  IInv'
<1>1. TypeOK' /\ BackToOrigin'
  BY InTheEditor DEF TypeOK, Shows, BackToOrigin, Running
<1>2. Faithful(doc', ui') /\ CleanExit' /\ NoArchiveLeft'
  BY InTheEditor DEF Faithful, CleanExit, NoArchiveLeft, Tidy
<1> QED
  BY <1>1, <1>2 DEF IInv

\* Going from the editor to the properties or the thumbnail keeps the invariant.
LEMMA EditorCommandStep ==
  ASSUME IInv, NEW v \in {"props", "image"}, EditorCommand(v)
  PROVE  IInv'
<1>1. Running("editor") /\ Activate(EditorFirst(doc), v, temps) /\ origin' = "editor"
      /\ UNCHANGED <<disk, temps, litter>>
  BY DEF EditorCommand
<1>2. /\ EditorFirst(doc) \in Document /\ EditorFirst(doc).iFloating = None
      /\ EditorFirst(doc).stop = "no" /\ EditorFirst(doc).iNextViewID = "editor"
      /\ Tidy(EditorFirst(doc), temps, litter) /\ Sought(EditorFirst(doc))
  BY <1>1, InTheEditor, FirstHides DEF Tidy, Sought, Editing
<1> QED
  BY <1>1, <1>2, InTheEditor, Switched

\* Going back from the editor to the list keeps the invariant.
LEMMA EditorBackStep ==
  ASSUME IInv, EditorBack
  PROVE  IInv'
<1> DEFINE e == EditorFirst(doc)
           c == ClearNote(e)
<1>1. Running("editor") /\ Activate(c, "list", temps) /\ UNCHANGED <<disk, temps, litter, origin>>
  BY DEF EditorBack
<1>2. e \in Document /\ e.stop = "no" /\ Tidy(e, temps, litter) /\ Sought(e)
  BY <1>1, InTheEditor, FirstHides DEF Tidy, Sought, Editing
<1> HIDE DEF e
<1>3. c = [e EXCEPT !.iFloating = None, !.iNotes = <<>>] /\ e = Fields(e) /\ Typed(e)
  BY <1>2, DocumentFields DEF ClearNote
<1> HIDE DEF c
<1>4. c \in Document
  <2>1. c = Fields(c)
    BY <1>3, Zenon DEF Fields
  <2>2. Typed(c)
    BY <1>3 DEF Fields, Typed
  <2> QED
    BY <2>1, <2>2, DocumentBuilt
<1>5. c.iFloating = None /\ c.stop = "no" /\ Tidy(c, temps, litter) /\ Sought(c)
  BY <1>2, <1>3 DEF Fields, Tidy, Sought
<1> QED
  BY <1>1, <1>4, <1>5, InTheEditor, Switched

(***************************************************************************)
(* A step that hides the box leaves the rest of the view as it was.        *)
(***************************************************************************)
LEMMA FirstKeepsEditing ==
  ASSUME NEW d \in Document, NEW u, Editing(d, u)
  PROVE  Editing(EditorFirst(d), u)
<1> DEFINE r == EditorFirst(d)
<1>1. /\ r.iFloating = None /\ r.iFileName = d.iFileName
      /\ r.iEncrypted = d.iEncrypted /\ r.iEncryptData = d.iEncryptData
      /\ r.iPassword = d.iPassword /\ r.iEditor = d.iEditor /\ r.content = d.content
      /\ r.iBitmaps = d.iBitmaps /\ r.iTables = d.iTables /\ r.sought = d.sought
  BY FirstHides
<1> HIDE DEF r
<1>2. Keys(r, u) /\ (Makes(r) <=> Makes(d))
  BY <1>1 DEF Editing, Keys, Keyed, Makes
<1>3. Loaded(r) /\ EditorOfTheFile(r, u)
  BY <1>1, <1>2 DEF Editing, Loaded, EditorOfTheFile
<1>4. PicturesOf(r.content) /\ BoxOf(r, u) /\ Sought(r)
  BY <1>1 DEF Editing, PicturesOf, BoxOf, Sought
<1>5. SheetOfTheFile(r, u)
  BY <1>1, <1>2 DEF Editing, SheetOfTheFile
<1> QED
  BY <1>2, <1>3, <1>4, <1>5 DEF Editing, r

\* Moving the cursor in the editor keeps the invariant.
LEMMA EditorMoveStep ==
  ASSUME IInv, EditorMove
  PROVE  IInv'
<1>1. Running("editor") /\ UNCHANGED <<ui, disk, temps, litter, origin>>
  BY DEF EditorMove
<1>2. CASE doc' = EditorFirst(doc)
  <2>1. /\ doc' \in Document /\ doc'.iFileName = doc.iFileName
        /\ doc'.iHybridPDF = doc.iHybridPDF /\ doc'.stop = "no" /\ Editing(doc', ui)
    BY <1>1, <1>2, InTheEditor, FirstHides, FirstKeepsEditing
  <2> QED
    BY <1>1, <2>1, Stayed
<1>3. CASE doc' = Died(doc, "sheet")
  <2>1. /\ doc' \in Document /\ doc'.iFileName = doc.iFileName /\ Blank(doc')
        /\ doc'.iHybridPDF = doc.iHybridPDF /\ doc'.stop = "sheet"
    BY <1>1, <1>3, InTheEditor, DiedIsBlank DEF Dead
  <2> QED
    BY <1>1, <2>1, Stayed
<1> QED
  BY <1>2, <1>3 DEF EditorMove

(***************************************************************************)
(* A sheet that cannot be read again shows nothing and keeps its names.    *)
(***************************************************************************)
LEMMA UnreadSheetIsEmpty ==
  ASSUME NEW d \in Document, NEW u, Editing(d, u), Keyed(d), d.iFloating = None,
         d.iEditor # "live"
  PROVE  /\ UnreadSheet(d) \in Document /\ SameFile(d, UnreadSheet(d))
         /\ Editing(UnreadSheet(d), u)
<1> DEFINE c == ClearContent(d)
           r == UnreadSheet(d)
<1>1. /\ c \in Document /\ SameFile(d, c) /\ Keyed(c) /\ (Makes(c) <=> Makes(d))
      /\ c.iBitmaps = {} /\ c.iFloating = None /\ c.iEditor # "live" /\ c.iTables = d.iTables
  BY ClearForgets
<1>2. r = [c EXCEPT !.content = Nothing]
  BY DEF UnreadSheet
<1> HIDE DEF c, r
<1>3. c = Fields(c) /\ Typed(c)
  BY <1>1, DocumentFields
<1>4. r = Fields(r)
  BY <1>2, <1>3, Zenon DEF Fields
<1>5. Typed(r)
  BY <1>2, <1>3, NothingIsContent DEF Fields, Typed
<1>6. /\ r.content = Nothing /\ r.iBitmaps = c.iBitmaps /\ r.iTables = c.iTables
      /\ r.iFileName = c.iFileName /\ r.iHybridPDF = c.iHybridPDF /\ r.stop = c.stop
      /\ r.iEncrypted = c.iEncrypted /\ r.iEncryptData = c.iEncryptData
      /\ r.iPassword = c.iPassword /\ r.iNextViewID = c.iNextViewID
      /\ r.iFloating = c.iFloating /\ r.iEditor = c.iEditor
  BY <1>2, <1>3 DEF Fields
<1>7. SameFile(d, r) /\ Keyed(r) /\ (Makes(r) <=> Makes(d)) /\ Sought(r)
  BY <1>1, <1>6 DEF SameFile, Keyed, Makes, Sought
<1>8. r.content.file = None /\ r.content.good = FALSE /\ r.content.pics = {}
  BY <1>6 DEF Nothing
<1>9. Keys(r, u) /\ Loaded(r) /\ EditorOfTheFile(r, u) /\ PicturesOf(r.content) /\ BoxOf(r, u)
  BY <1>1, <1>6, <1>7, <1>8 DEF Keys, Loaded, EditorOfTheFile, PicturesOf, BoxOf
<1>10. SheetOfTheFile(r, u)
  BY <1>1, <1>6, <1>7, <1>8 DEF SheetOfTheFile, Editing, SameFile
<1> QED
  BY <1>4, <1>5, <1>7, <1>9, <1>10, DocumentBuilt DEF Editing, r

(***************************************************************************)
(* Another table of the file: no editor is at work over a sheet.           *)
(***************************************************************************)
LEMMA EditorTableStep ==
  ASSUME IInv, NEW i \in DOMAIN doc.iTables, EditorTable(i)
  PROVE  IInv'
<1>1. Running("editor") /\ ~ui.editor /\ UNCHANGED <<ui, disk, temps, litter, origin>>
  BY DEF EditorTable
<1>2. PICK g \in {None, doc.heap} :
         doc' = CASE i > TableCommands -> EditorFirst(doc)
                  [] i <= TableCommands /\ ~ui.sheet -> Died(doc, "sheet")
                  [] i <= TableCommands /\ ui.sheet /\ ~Readable(doc, temps) ->
                       UnreadSheet(EditorFirst(doc))
                  [] OTHER -> GetContentSheet(EditorFirst(doc), doc.iTables[i], g)
  BY DEF EditorTable
<1>3. doc' \in {EditorFirst(doc), Died(doc, "sheet")}
      \/ (ui.sheet /\ doc' = UnreadSheet(EditorFirst(doc)))
      \/ (ui.sheet /\ doc' = GetContentSheet(EditorFirst(doc), doc.iTables[i], g))
  <2>1. i \in Nat /\ TableCommands \in Nat
    BY <1>1, InTheEditor, ViewerConstants DEF Document
  <2>2. CASE i > TableCommands
    BY <1>2, <2>2
  <2>3. CASE i <= TableCommands /\ ~ui.sheet
    BY <1>2, <2>1, <2>3
  <2>4. CASE i <= TableCommands /\ ui.sheet /\ ~Readable(doc, temps)
    BY <1>2, <2>1, <2>4
  <2>5. CASE i <= TableCommands /\ ui.sheet /\ Readable(doc, temps)
    BY <1>2, <2>1, <2>5
  <2> QED
    BY <2>1, <2>2, <2>3, <2>4, <2>5
<1>4. CASE doc' = EditorFirst(doc)
  <2>1. /\ doc' \in Document /\ doc'.iFileName = doc.iFileName
        /\ doc'.iHybridPDF = doc.iHybridPDF /\ doc'.stop = "no" /\ Editing(doc', ui)
    BY <1>1, <1>4, InTheEditor, FirstHides, FirstKeepsEditing
  <2> QED
    BY <1>1, <2>1, Stayed
<1>5. CASE doc' = Died(doc, "sheet")
  <2>1. /\ doc' \in Document /\ doc'.iFileName = doc.iFileName /\ Blank(doc')
        /\ doc'.iHybridPDF = doc.iHybridPDF /\ doc'.stop \notin {"no", "off"}
    BY <1>1, <1>5, InTheEditor, DiedIsBlank DEF Dead
  <2> QED
    BY <1>1, <2>1, Stayed
<1>6. CASE ui.sheet /\ doc' = GetContentSheet(EditorFirst(doc), doc.iTables[i], g)
  <2> DEFINE d == EditorFirst(doc)
             name == doc.iTables[i]
  <2>1. /\ d \in Document /\ d.iFloating = None /\ d.stop = "no"
        /\ d.iFileName = doc.iFileName /\ d.iHybridPDF = doc.iHybridPDF
        /\ d.iTables = doc.iTables /\ d.content = doc.content /\ d.iEditor = doc.iEditor
        /\ d.heap = doc.heap /\ Editing(d, ui)
    BY <1>1, InTheEditor, FirstHides, FirstKeepsEditing
  <2>2. name \in STRING
    BY <1>1, InTheEditor DEF Document
  <2>3. doc' = GetContentSheet(d, name, g) /\ g \in {None, d.heap} /\ name \in STRING \cup {None}
    BY <1>6, <2>1, <2>2
  <2>4. d.iEditor # "live" /\ Keyed(d)
    BY <1>1, <1>6, <2>1 DEF Editing, EditorOfTheFile, Keys
  <2>5. ui.sheet /\ ~ui.cancelled /\ Makes(d) => name \in NamesOf(d.iFileName)
    <3> SUFFICES ASSUME ui.sheet, ~ui.cancelled, Makes(d)
                 PROVE  name \in NamesOf(d.iFileName)
      OBVIOUS
    <3>1. doc.iTables = Tables[d.iFileName]
      BY <2>1 DEF Editing, SheetOfTheFile
    <3> QED
      BY <3>1 DEF NamesOf
  <2> HIDE DEF d, name
  <2>6. Reads(d, GetContentSheet(d, name, g), ui)
    BY <2>1, <2>3, <2>4, <2>5, SheetIsOfTheFile
  <2>7. /\ doc' \in Document
        /\ doc'.iFileName = d.iFileName /\ doc'.iHybridPDF = d.iHybridPDF
        /\ \/ doc'.stop = "password" /\ Blank(doc')
           \/ doc'.stop = "no" /\ Editing(doc', ui)
    BY <2>3, <2>6 DEF Reads
  <2> QED
    BY <1>1, <2>1, <2>7, Stayed
<1>7. CASE ui.sheet /\ doc' = UnreadSheet(EditorFirst(doc))
  <2> DEFINE d == EditorFirst(doc)
  <2>1. /\ d \in Document /\ d.iFloating = None /\ d.stop = "no" /\ Editing(d, ui)
        /\ d.iFileName = doc.iFileName /\ d.iHybridPDF = doc.iHybridPDF
        /\ d.iEditor = doc.iEditor
    BY <1>1, InTheEditor, FirstHides, FirstKeepsEditing
  <2>2. doc' = UnreadSheet(d)
    BY <1>7
  <2>3. d.iEditor # "live" /\ Keyed(d)
    BY <1>1, <1>7, <2>1 DEF Editing, EditorOfTheFile, Keys
  <2> HIDE DEF d
  <2>4. doc' \in Document /\ SameFile(d, doc') /\ Editing(doc', ui)
    BY <2>1, <2>2, <2>3, UnreadSheetIsEmpty
  <2> QED
    BY <1>1, <2>1, <2>4, Stayed DEF SameFile
<1> QED
  BY <1>3, <1>4, <1>5, <1>6, <1>7

(***************************************************************************)
(* The box, if there is one, shows the note of the index.                  *)
(***************************************************************************)
Boxed(d) == d.iFloating # None => InRange(d) /\ d.iFloating = d.iNotes[d.iNoteIndex + 1]

\* Two documents that differ in the box and the index at most.
SameButBox(d, r) ==
    /\ r.iFileName = d.iFileName /\ r.iHybridPDF = d.iHybridPDF /\ r.stop = d.stop
    /\ r.iEncrypted = d.iEncrypted /\ r.iEncryptData = d.iEncryptData
    /\ r.iPassword = d.iPassword /\ r.iEditor = d.iEditor /\ r.content = d.content
    /\ r.iBitmaps = d.iBitmaps /\ r.sought = d.sought
    /\ r.iTables = d.iTables /\ r.iNotes = d.iNotes

\* Showing or hiding the floating box changes nothing else.
LEMMA BoxMoves ==
  ASSUME NEW d \in Document, NEW x \in Note \cup {None}, NEW r, r = [d EXCEPT !.iFloating = x]
  PROVE  r \in Document /\ SameButBox(d, r) /\ r.iFloating = x /\ r.iNoteIndex = d.iNoteIndex
<1>1. d = Fields(d) /\ Typed(d)
  BY DocumentFields
<1>2. r = Fields(r)
  BY <1>1, Zenon DEF Fields
<1>3. Typed(r)
  BY <1>1 DEF Fields, Typed
<1>4. SameButBox(d, r) /\ r.iFloating = x /\ r.iNoteIndex = d.iNoteIndex
  BY <1>1 DEF Fields, SameButBox
<1> QED
  BY <1>2, <1>3, <1>4, DocumentBuilt

\* Moving the index of notes changes nothing else.
LEMMA IndexMoves ==
  ASSUME NEW d \in Document, NEW z \in Int, NEW r, r = [d EXCEPT !.iNoteIndex = z]
  PROVE  r \in Document /\ SameButBox(d, r) /\ r.iFloating = d.iFloating /\ r.iNoteIndex = z
<1>1. d = Fields(d) /\ Typed(d)
  BY DocumentFields
<1>2. r = Fields(r)
  BY <1>1, Zenon DEF Fields
<1>3. Typed(r)
  BY <1>1 DEF Fields, Typed
<1>4. SameButBox(d, r) /\ r.iFloating = d.iFloating /\ r.iNoteIndex = z
  BY <1>1 DEF Fields, SameButBox
<1> QED
  BY <1>2, <1>3, <1>4, DocumentBuilt

\* ShowNote puts the note of the index into the box.
LEMMA ShownIsBoxed ==
  ASSUME NEW d \in Document, d.iFloating # None => InRange(d)
  PROVE  ShowNote(d) \in Document /\ SameButBox(d, ShowNote(d)) /\ Boxed(ShowNote(d))
<1>1. CASE InRange(d)
  <2> DEFINE x == d.iNotes[d.iNoteIndex + 1]
  <2>1. d.iNotes \in Seq(Note) /\ d.iNoteIndex \in Int
    BY DEF Document
  <2>2. x \in Note \cup {None}
    BY <1>1, <2>1 DEF InRange
  <2>3. ShowNote(d) = [d EXCEPT !.iFloating = x]
    BY <1>1 DEF ShowNote
  <2> HIDE DEF x
  <2>4. /\ ShowNote(d) \in Document /\ SameButBox(d, ShowNote(d))
        /\ ShowNote(d).iFloating = x /\ ShowNote(d).iNoteIndex = d.iNoteIndex
    BY <2>2, <2>3, BoxMoves
  <2> QED
    BY <1>1, <2>4 DEF Boxed, InRange, SameButBox, x
<1>2. CASE ~InRange(d)
  BY <1>2 DEF ShowNote, SameButBox, Boxed
<1> QED
  BY <1>1, <1>2

\* Going to a note moves the box with the index.
LEMMA GoneToIsBoxed ==
  ASSUME NEW d \in Document, Boxed(d), NEW i \in Int,
         InRange(d) => 0 <= i /\ i < Len(d.iNotes)
  PROVE  GoToNote(d, i) \in Document /\ SameButBox(d, GoToNote(d, i)) /\ Boxed(GoToNote(d, i))
<1>1. CASE i = d.iNoteIndex
  BY <1>1 DEF GoToNote, SameButBox
<1>2. CASE i # d.iNoteIndex
  <2> DEFINE r == [d EXCEPT !.iNoteIndex = i]
  <2>1. r \in Document /\ SameButBox(d, r) /\ r.iFloating = d.iFloating /\ r.iNoteIndex = i
    BY IndexMoves
  <2>2. GoToNote(d, i) = ShowNote(r)
    BY <1>2 DEF GoToNote
  <2> HIDE DEF r
  <2>3. r.iFloating # None => InRange(r)
    BY <2>1 DEF Boxed, InRange, SameButBox
  <2>4. ShowNote(r) \in Document /\ SameButBox(r, ShowNote(r)) /\ Boxed(ShowNote(r))
    BY <2>1, <2>3, ShownIsBoxed
  <2> QED
    BY <2>1, <2>2, <2>4 DEF SameButBox
<1> QED
  BY <1>1, <1>2

\* The keys for notes leave a box with the note of the index, or none.
LEMMA KeysKeepTheBox ==
  ASSUME NEW d \in Document, Boxed(d),
         NEW r \in {GetCurrentNote(d), GetNextNote(d), GetPreviousNote(d)}
  PROVE  r \in Document /\ SameButBox(d, r) /\ Boxed(r)
<1>1. d.iNoteIndex \in Int /\ Len(d.iNotes) \in Nat
  BY DEF Document
<1>2. CASE r = GetCurrentNote(d)
  <2>1. CASE InRange(d) /\ d.iFloating # None
    <3>1. r = [d EXCEPT !.iFloating = None]
      BY <1>2, <2>1 DEF GetCurrentNote
    <3>2. r \in Document /\ SameButBox(d, r) /\ r.iFloating = None
      BY <3>1, BoxMoves, IndexMoves, 0 \in Int
    <3> QED
      BY <3>2 DEF Boxed
  <2>2. CASE ~(InRange(d) /\ d.iFloating # None)
    <3>1. r = ShowNote(d)
      BY <1>2, <2>2 DEF GetCurrentNote
    <3> QED
      BY <3>1, ShownIsBoxed DEF Boxed
  <2> QED
    BY <2>1, <2>2
<1>3. CASE r = GetNextNote(d)
  <2> DEFINE i == IF d.iNoteIndex + 1 > Len(d.iNotes) - 1 THEN 0 ELSE d.iNoteIndex + 1
  <2>1. i \in Int /\ (InRange(d) => 0 <= i /\ i < Len(d.iNotes))
    BY <1>1 DEF InRange
  <2>2. r = GoToNote(d, i)
    BY <1>3 DEF GetNextNote
  <2> HIDE DEF i
  <2> QED
    BY <2>1, <2>2, GoneToIsBoxed
<1>4. CASE r = GetPreviousNote(d)
  <2> DEFINE i == IF d.iNoteIndex - 1 < 0 THEN Len(d.iNotes) - 1 ELSE d.iNoteIndex - 1
  <2>1. i \in Int /\ (InRange(d) => 0 <= i /\ i < Len(d.iNotes))
    BY <1>1 DEF InRange
  <2>2. r = GoToNote(d, i)
    BY <1>4 DEF GetPreviousNote
  <2> HIDE DEF i
  <2> QED
    BY <2>1, <2>2, GoneToIsBoxed
<1> QED
  BY <1>2, <1>3, <1>4

(***************************************************************************)
(* The keys move the box to a note there is.                               *)
(***************************************************************************)
LEMMA NoteKeyStep ==
  ASSUME IInv, NoteKey
  PROVE  IInv'
<1>1. Running("editor") /\ ui.editor /\ UNCHANGED <<ui, disk, temps, litter, origin>>
      /\ doc' \in {GetCurrentNote(doc), GetNextNote(doc), GetPreviousNote(doc)}
  BY DEF NoteKey
<1>2. doc \in Document /\ doc.stop = "no" /\ Editing(doc, ui)
  BY <1>1, InTheEditor
<1>3. doc' \in Document /\ SameButBox(doc, doc') /\ Boxed(doc')
  BY <1>1, <1>2, KeysKeepTheBox DEF Editing, BoxOf, Boxed
<1>4. Editing(doc', ui)
  <2>1. Keys(doc', ui) /\ (Makes(doc') <=> Makes(doc))
    BY <1>2, <1>3 DEF Editing, Keys, Keyed, Makes, SameButBox
  <2>2. Loaded(doc') /\ EditorOfTheFile(doc', ui)
    BY <1>2, <1>3, <2>1 DEF Editing, Loaded, EditorOfTheFile, SameButBox
  <2>3. PicturesOf(doc'.content) /\ BoxOf(doc', ui) /\ Sought(doc')
    BY <1>1, <1>2, <1>3 DEF Editing, PicturesOf, Boxed, BoxOf, Sought, SameButBox
  <2>4. SheetOfTheFile(doc', ui)
    BY <1>2, <1>3, <2>1 DEF Editing, SheetOfTheFile, SameButBox
  <2> QED
    BY <2>1, <2>2, <2>3, <2>4 DEF Editing
<1> QED
  BY <1>1, <1>2, <1>3, <1>4, Stayed DEF SameButBox

(***************************************************************************)
(* The properties and the thumbnail, and the way back.                     *)
(***************************************************************************)
LEMMA SideStep ==
  ASSUME IInv, SideBack \/ \E v \in {"editor", "props", "image"} : SideCommand(v)
  PROVE  IInv'
<1>1. /\ doc \in Document /\ doc.stop = "no" /\ doc.iFloating = None /\ Sought(doc)
      /\ temps \in SUBSET Files /\ Tidy(doc, temps, litter) /\ doc.iNextViewID = origin
      /\ litter \in SUBSET Files /\ origin \in {"list", "editor"}
      /\ UNCHANGED <<disk, temps, litter, origin>>
  BY DEF SideBack, SideCommand, IInv, TypeOK, Faithful, Running, Blank, NoArchiveLeft, Tidy,
         BackToOrigin
<1>2. CASE SideBack
  <2>1. Activate(doc, origin, temps) /\ origin \in {"list", "editor", "props", "image"}
    BY <1>1, <1>2 DEF SideBack
  <2> QED
    BY <1>1, <2>1, Switched
<1>3. CASE \E v \in {"editor", "props", "image"} : SideCommand(v)
  <2>1. PICK v \in {"editor", "props", "image"} : Activate(doc, v, temps)
    BY <1>3 DEF SideCommand
  <2> QED
    BY <1>1, <2>1, Switched
<1> QED
  BY <1>2, <1>3

(***************************************************************************)
(* An engine is done: its picture goes to the text it belongs to.          *)
(***************************************************************************)
LEMMA EngineStep ==
  ASSUME IInv, NEW e \in doc.iBitmaps, EngineDone(e)
  PROVE  IInv'
<1> DEFINE b == doc.iBitmaps \ {e}
           d == [doc EXCEPT !.iBitmaps = b]
<1>1. /\ doc \in Document /\ doc.stop = "no" /\ Shows(ui) /\ Faithful(doc, ui)
      /\ Tidy(doc, temps, litter) /\ UNCHANGED <<disk, temps, litter, origin>>
      /\ e \in Engine /\ b \in SUBSET Engine
  BY DEF EngineDone, IInv, TypeOK, Shows, NoArchiveLeft, Tidy, Document
<1>2. /\ IF e.kind = "thumbnail"
         THEN IF ui.view = "image"
              THEN doc' = d /\ ui' = [ui EXCEPT !.thumb = e.of]
              ELSE doc' \in {d, Died(d, "container")} /\ ui' = ui
         ELSE /\ ui' = ui
              /\ IF doc.iEditor = "live"
                 THEN doc' = [d EXCEPT !.content.pics = @ \cup {e.of}]
                 ELSE doc' \in {d, Died(d, "editor")}
  BY DEF EngineDone
<1> HIDE DEF b
<1>3. /\ d \in Document /\ d.iBitmaps = b
      /\ d.iFileName = doc.iFileName /\ d.iHybridPDF = doc.iHybridPDF /\ d.stop = doc.stop
      /\ d.iEncrypted = doc.iEncrypted /\ d.iEncryptData = doc.iEncryptData
      /\ d.iPassword = doc.iPassword /\ d.iEditor = doc.iEditor /\ d.content = doc.content
      /\ d.iTables = doc.iTables /\ d.iNotes = doc.iNotes /\ d.iMeta = doc.iMeta
      /\ d.iNoteIndex = doc.iNoteIndex /\ d.iFloating = doc.iFloating
      /\ d.iNextViewID = doc.iNextViewID /\ d.sought = doc.sought
  BY <1>1 DEF Document
<1> HIDE DEF d
<1>4. Editing(doc, ui) => Editing(d, ui)
  <2> SUFFICES ASSUME Editing(doc, ui)
               PROVE  Editing(d, ui)
    OBVIOUS
  <2>1. Keys(d, ui) /\ (Makes(d) <=> Makes(doc))
    BY <1>3 DEF Editing, Keys, Keyed, Makes
  <2>2. Loaded(d) /\ EditorOfTheFile(d, ui)
    BY <1>3, <2>1 DEF Editing, Loaded, EditorOfTheFile, b
  <2>3. PicturesOf(d.content) /\ BoxOf(d, ui) /\ Sought(d)
    BY <1>3 DEF Editing, PicturesOf, BoxOf, InRange, Sought, b
  <2>4. SheetOfTheFile(d, ui)
    BY <1>3, <2>1 DEF Editing, SheetOfTheFile
  <2> QED
    BY <2>1, <2>2, <2>3, <2>4 DEF Editing
<1>5. Faithful(d, ui)
  BY <1>1, <1>3, <1>4 DEF Faithful, Blank, Sought, MetaOfTheFile, ThumbOf, b
<1>6. ASSUME doc' = d, Shows(ui'), ui'.view = ui.view,
             ui'.view = "editor" => ui' = ui, ui'.cancelled = ui.cancelled,
             ui'.thumb = ui.thumb \/ ui'.thumb \in d.sought
      PROVE  IInv'
  <2>1. Faithful(doc', ui')
    BY <1>5, <1>6 DEF Faithful, MetaOfTheFile, ThumbOf
  <2>2. TypeOK' /\ BackToOrigin' /\ NoArchiveLeft' /\ CleanExit'
    BY <1>1, <1>3, <1>6 DEF IInv, TypeOK, Shows, BackToOrigin, Running, NoArchiveLeft, CleanExit
  <2> QED
    BY <2>1, <2>2 DEF IInv
<1>7. ASSUME NEW why \in {"container", "editor"}, doc' = Died(d, why), ui' = ui
      PROVE  IInv'
  <2>1. /\ doc' \in Document /\ Blank(doc') /\ doc'.stop = why
        /\ doc'.iFileName = d.iFileName /\ doc'.iHybridPDF = d.iHybridPDF
    BY <1>3, <1>7, DiedIsBlank DEF Dead
  <2>2. TypeOK' /\ BackToOrigin' /\ NoArchiveLeft' /\ CleanExit' /\ Faithful(doc', ui')
    BY <1>1, <1>3, <1>7, <2>1 DEF IInv, TypeOK, Shows, BackToOrigin, Running, NoArchiveLeft,
       CleanExit, Faithful
  <2> QED
    BY <2>2 DEF IInv
<1>8. CASE e.kind = "thumbnail" /\ ui.view = "image"
  <2>1. /\ Shows(ui') /\ ui'.view = ui.view /\ ui'.cancelled = ui.cancelled
        /\ ui'.thumb = e.of
    BY <1>1, <1>2, <1>8 DEF Shows, Screen, Engine
  <2>2. e.of \in d.sought
    BY <1>1, <1>3, <1>8 DEF Faithful, Blank, Sought
  <2> QED
    BY <1>2, <1>6, <1>8, <2>1, <2>2
<1>9. CASE ui' = ui /\ doc' \in {d, Died(d, "container"), Died(d, "editor")}
  BY <1>1, <1>6, <1>7, <1>9
<1>10. CASE e.kind = "picture" /\ doc.iEditor = "live"
  <2> DEFINE p == d.content.pics \cup {e.of}
             k == [d.content EXCEPT !.pics = p]
  <2>1. ui' = ui /\ doc' = [d EXCEPT !.content = k]
    BY <1>2, <1>10
  <2>2. ui.view = "editor" /\ Editing(doc, ui)
    BY <1>1, <1>10 DEF Faithful, Blank
  <2>3. d.content.file = doc.iFileName /\ e.of = doc.iFileName
    BY <1>3, <1>10, <2>2 DEF Editing, EditorOfTheFile
  <2>4. d.content \in Content /\ PicturesOf(d.content)
    BY <1>3, <2>2 DEF Document, Editing
  <2>5. p \in SUBSET Files /\ p \subseteq {d.content.file}
    BY <1>1, <2>3, <2>4 DEF Content, PicturesOf, Engine
  <2> HIDE DEF p
  <2>6. /\ k \in Content /\ k.pics = p /\ k.file = d.content.file
        /\ k.good = d.content.good /\ k.named = d.content.named
        /\ k.tables = d.content.tables
    BY <2>4, <2>5 DEF Content
  <2> HIDE DEF k
  <2>7. /\ doc' \in Document /\ doc'.content = k /\ doc'.iBitmaps = d.iBitmaps
        /\ doc'.iFileName = d.iFileName /\ doc'.iHybridPDF = d.iHybridPDF /\ doc'.stop = d.stop
        /\ doc'.iEncrypted = d.iEncrypted /\ doc'.iEncryptData = d.iEncryptData
        /\ doc'.iPassword = d.iPassword /\ doc'.iEditor = d.iEditor
        /\ doc'.iTables = d.iTables /\ doc'.iNotes = d.iNotes
        /\ doc'.iNoteIndex = d.iNoteIndex /\ doc'.iFloating = d.iFloating
        /\ doc'.sought = d.sought
    BY <1>3, <2>1, <2>6 DEF Document
  <2>8. Editing(d, ui)
    BY <1>4, <2>2
  <2>9. Keys(doc', ui) /\ (Makes(doc') <=> Makes(d))
    BY <2>6, <2>7, <2>8 DEF Editing, Keys, Keyed, Makes
  <2>10. Loaded(doc') /\ EditorOfTheFile(doc', ui)
    BY <2>6, <2>7, <2>8, <2>9 DEF Editing, Loaded, EditorOfTheFile
  <2>11. PicturesOf(doc'.content) /\ BoxOf(doc', ui) /\ Sought(doc')
    BY <2>5, <2>6, <2>7, <2>8 DEF Editing, PicturesOf, BoxOf, InRange, Sought
  <2>12. SheetOfTheFile(doc', ui)
    BY <2>6, <2>7, <2>8, <2>9 DEF Editing, SheetOfTheFile, Laid
  <2>13. Editing(doc', ui)
    BY <2>9, <2>10, <2>11, <2>12 DEF Editing
  <2>14. Running("editor") /\ UNCHANGED <<ui, disk, temps, litter, origin>>
    BY <1>1, <2>1, <2>2 DEF Running
  <2> QED
    BY <1>1, <1>3, <2>7, <2>13, <2>14, Stayed
<1> QED
  BY <1>1, <1>2, <1>8, <1>9, <1>10 DEF Engine

(***************************************************************************)
(* Files vanish.                                                           *)
(***************************************************************************)
LEMMA VanishStep ==
  ASSUME IInv, NEW f \in Files, Vanish(f)
  PROVE  IInv'
<1>1. disk' \subseteq disk /\ UNCHANGED <<doc, ui, temps, litter, origin>>
  BY DEF Vanish
<1> QED
  BY <1>1 DEF IInv, TypeOK, CleanExit, BackToOrigin, Running, NoArchiveLeft

(***************************************************************************)
(* The document of a program that has just started, or has ended.          *)
(***************************************************************************)
LEMMA NewIsBlank ==
  ASSUME NEW s \in {"no", "off"} \cup Dead, NEW n \in {None, "list", "editor"}
  PROVE  /\ NewDocument \in Document /\ Blank(NewDocument) /\ NewDocument.stop = "no"
         /\ NewDocument.iHybridPDF = FALSE
         /\ LET r == [NewDocument EXCEPT !.stop = s] IN
              r \in Document /\ Blank(r) /\ r.stop = s /\ r.iHybridPDF = FALSE
         /\ LET r == [NewDocument EXCEPT !.iNextViewID = n] IN
              r \in Document /\ Blank(r) /\ r.stop = "no" /\ r.iHybridPDF = FALSE
<1>1. NewDocument \in Document
  BY NothingIsContent DEF NewDocument, Document
<1>2. /\ NewDocument.stop = "no" /\ NewDocument.iHybridPDF = FALSE
      /\ NewDocument.iFloating = None /\ NewDocument.content = Nothing
      /\ NewDocument.iEditor = "none" /\ NewDocument.iBitmaps = {}
  BY DEF NewDocument
<1>3. LET r == [NewDocument EXCEPT !.stop = s] IN
        r \in Document /\ Blank(r) /\ r.stop = s /\ r.iHybridPDF = FALSE
  BY <1>1, <1>2 DEF Document, Blank, Sought
<1>4. LET r == [NewDocument EXCEPT !.iNextViewID = n] IN
        r \in Document /\ Blank(r) /\ r.stop = "no" /\ r.iHybridPDF = FALSE
  BY <1>1, <1>2 DEF Document, Blank, Sought
<1> QED
  BY <1>1, <1>2, <1>3, <1>4 DEF Blank, Sought

(***************************************************************************)
(* The user leaves: the archive in use goes.                               *)
(***************************************************************************)
LEMMA ExitStep ==
  ASSUME IInv, Exit
  PROVE  IInv'
<1> DEFINE d == IF ui.view = "list" THEN Chosen ELSE doc
           t == IF ui.view = "list" THEN ChosenTemps ELSE temps
           s == IF d.stop = "no" THEN "off" ELSE d.stop
<1>1. /\ d \in Document /\ t \in SUBSET Files /\ Tidy(d, t, litter) /\ d.stop \in {"no", "pdf"}
  <2>1. CASE ui.view = "list"
    <3>1. Running("list")
      BY <2>1 DEF Exit, Running
    <3> QED
      BY <2>1, <3>1, ChosenIsTidy
  <2>2. CASE ui.view # "list"
    BY <2>2 DEF IInv, TypeOK, NoArchiveLeft, Tidy, Exit
  <2> QED
    BY <2>1, <2>2
<1>2. /\ doc' = [NewDocument EXCEPT !.stop = s]
      /\ temps' = IF d.iHybridPDF THEN t \ {d.iFileName} ELSE t
      /\ ui' = OtherView("list") /\ UNCHANGED <<disk, litter, origin>>
  BY DEF Exit
<1>3. s \in {"off", "pdf"}
  BY <1>1
<1> HIDE DEF d, t, s
<1>4. /\ doc' \in Document /\ Blank(doc') /\ doc'.stop = s /\ doc'.iHybridPDF = FALSE
  BY <1>2, <1>3, NewIsBlank, None \in {None, "list", "editor"} DEF Dead
<1>5. temps' \in SUBSET Files /\ temps' \subseteq litter
  BY <1>1, <1>2 DEF Tidy
<1>6. Shows(ui') /\ ui'.view = "list"
  BY <1>2, OtherShows
<1>7. TypeOK'
  <2>1. disk \subseteq Files /\ litter \subseteq Files /\ origin \in {"list", "editor"}
    BY DEF IInv, TypeOK
  <2> QED
    BY <1>2, <1>4, <1>5, <1>6, <2>1 DEF TypeOK, Shows
<1>8. Faithful(doc', ui') /\ CleanExit' /\ BackToOrigin' /\ NoArchiveLeft'
  <2>1. doc'.stop # "no" /\ litter' = litter
    BY <1>2, <1>3, <1>4
  <2> QED
    BY <1>4, <1>5, <2>1 DEF Faithful, CleanExit, BackToOrigin, Running, NoArchiveLeft
<1> QED
  BY <1>7, <1>8 DEF IInv

(***************************************************************************)
(* The program starts: what a dead one left behind is litter.              *)
(***************************************************************************)
LEMMA StartStep ==
  ASSUME IInv, NEW f \in Files \cup {None}, Start(f)
  PROVE  IInv'
<1>1. /\ temps \in SUBSET Files /\ disk \in SUBSET Files /\ litter' \in SUBSET Files
      /\ temps \subseteq litter' /\ UNCHANGED <<disk, origin>> /\ origin \in {"list", "editor"}
  BY DEF Start, IInv, TypeOK, CleanExit, NoArchiveLeft
<1>2. CASE doc' = NewDocument /\ ui' = ListView(disk) /\ temps' = temps
  <2>1. doc' \in Document /\ Blank(doc') /\ doc'.stop = "no" /\ doc'.iHybridPDF = FALSE
    BY <1>2, NewIsBlank, None \in {None, "list", "editor"}
  <2>2. Shows(ui') /\ ui'.view = "list"
    BY <1>1, <1>2, ListShows
  <2>3. TypeOK'
    BY <1>1, <1>2, <2>1, <2>2 DEF TypeOK, Shows
  <2>4. Faithful(doc', ui') /\ CleanExit' /\ BackToOrigin' /\ NoArchiveLeft'
    BY <1>1, <1>2, <2>1, <2>2 DEF Faithful, MetaOfTheFile, ThumbOf, CleanExit, BackToOrigin,
       Running, NoArchiveLeft
  <2> QED
    BY <2>3, <2>4 DEF IInv
<1>3. CASE f # None
  <2> DEFINE d == [NewDocument EXCEPT !.iNextViewID = "list"]
  <2>1. d \in Document /\ Blank(d) /\ d.stop = "no" /\ d.iHybridPDF = FALSE
    BY NewIsBlank, "no" \in {"no", "off"} \cup Dead
  <2>2. /\ f \in disk /\ f \in Files /\ temps' = TempsAfter(d, f)
        /\ Activate(SetFileName(d, f), "editor", TempsAfter(d, f))
    BY <1>1, <1>3 DEF Start
  <2> HIDE DEF d
  <2>3. Tidy(d, temps, litter')
    BY <1>1 DEF Tidy
  <2>4. /\ SetFileName(d, f) \in Document /\ Blank(SetFileName(d, f))
        /\ TempsAfter(d, f) \in SUBSET Files
        /\ Tidy(SetFileName(d, f), TempsAfter(d, f), litter')
        /\ SetFileName(d, f).stop = "no"
    BY <1>1, <2>1, <2>2, <2>3, ChoiceIsTidy
  <2> QED
    BY <1>1, <2>2, <2>4, Switched DEF Blank
<1> QED
  BY <1>2, <1>3 DEF Start

-----------------------------------------------------------------------------
\* The application starts in the list, with nothing open.
LEMMA InitInv ==
  ASSUME Init
  PROVE  IInv
<1>1. NewDocument \in Document
  BY NewIsBlank, "no" \in {"no", "off"} \cup Dead, None \in {None, "list", "editor"}
<1>2. doc \in Document /\ Blank(doc) /\ doc.stop = "off" /\ doc.iHybridPDF = FALSE
  BY <1>1, DiedIsBlank DEF Init, NewDocument
<1>3. Shows(ui) /\ ui.view = "list"
  BY OtherShows DEF Init
<1>4. TypeOK
  BY <1>2, <1>3, ViewerConstants DEF Init, TypeOK, Shows
<1>5. Faithful(doc, ui) /\ CleanExit
  BY <1>2 DEF Faithful, CleanExit
<1>6. BackToOrigin /\ NoArchiveLeft
  BY <1>2 DEF Init, BackToOrigin, Running, NoArchiveLeft
<1> QED
  BY <1>4, <1>5, <1>6 DEF IInv

\* Every command, callback and fault keeps the invariant.
LEMMA NextInv ==
  ASSUME IInv, [Next]_vars
  PROVE  IInv'
<1>1. CASE \E f \in Files : Select(f) \/ Vanish(f)
  BY <1>1, ListStep, VanishStep
<1>2. CASE \E v \in {"editor", "props", "image"} :
             ListCommand(v) \/ EditorCommand(v) \/ SideCommand(v)
  <2>1. PICK v \in {"editor", "props", "image"} :
               ListCommand(v) \/ EditorCommand(v) \/ SideCommand(v)
    BY <1>2
  <2>2. EditorCommand(v) => v \in {"props", "image"}
    BY DEF EditorCommand
  <2> QED
    BY <2>1, <2>2, ListCommandStep, EditorCommandStep, SideStep
<1>3. CASE ListEnter \/ SideBack
  BY <1>3, ListEnterStep, SideStep
<1>4. CASE ListRefresh \/ ListDelete \/ ListBackspace
  BY <1>4, ListStep
<1>5. CASE EditorBack \/ EditorMove \/ NoteKey
  BY <1>5, EditorBackStep, EditorMoveStep, NoteKeyStep
<1>6. CASE \E i \in DOMAIN doc.iTables : EditorTable(i)
  BY <1>6, EditorTableStep
<1>7. CASE \E e \in doc.iBitmaps : EngineDone(e)
  BY <1>7, EngineStep
<1>8. CASE Exit
  BY <1>8, ExitStep
<1>9. CASE \E f \in Files \cup {None} : Start(f)
  BY <1>9, StartStep
<1>10. CASE UNCHANGED vars
  BY <1>10 DEF vars, IInv, TypeOK, CleanExit, BackToOrigin, Running, NoArchiveLeft
<1> QED
  BY <1>1, <1>2, <1>3, <1>4, <1>5, <1>6, <1>7, <1>8, <1>9, <1>10 DEF Next

(***************************************************************************)
(* Document and view agree in every reachable state.                       *)
(***************************************************************************)
THEOREM InvCorrect == Spec => []IInv
BY InitInv, NextInv, PTL DEF Spec

(***************************************************************************)
(* Back leads to the view the properties or the thumbnail were called from *)
(* (iNextViewID), through any chain of commands.                           *)
(***************************************************************************)
THEOREM BackCorrect == Spec => []BackToOrigin
BY InvCorrect, PTL DEF IInv

(***************************************************************************)
(* SetFileName and the destructor leave no archive of a hybrid PDF behind, *)
(* unless the program died.                                                *)
(***************************************************************************)
THEOREM ArchiveCorrect == Spec => []NoArchiveLeft
BY InvCorrect, PTL DEF IInv

(***************************************************************************)
(* The floating box shows the current note of the text on the screen.      *)
(***************************************************************************)
THEOREM BoxCorrect == Spec => []BoxShowsCurrentNote
<1>1. IInv => BoxShowsCurrentNote
  BY DEF IInv, Faithful, Blank, Editing, BoxOf, BoxShowsCurrentNote, Running
<1> QED
  BY <1>1, InvCorrect, PTL

(***************************************************************************)
(* GetContent reads what the password of this very file unlocks.           *)
(***************************************************************************)
THEOREM LegibleCorrect == Spec => []LegibleWhenUnlocked
<1>1. IInv => LegibleWhenUnlocked
  <2> SUFFICES ASSUME IInv, doc.content.file # None
               PROVE  /\ doc.content.file = doc.iFileName
                      /\ doc.content.good <=>
                           (doc.content.file \in Secret => doc.iPassword = doc.content.file)
    BY DEF LegibleWhenUnlocked
  <2>1. Editing(doc, ui)
    BY DEF IInv, Faithful, Blank, Nothing
  <2> QED
    BY <2>1 DEF Editing, Keys, Loaded, Keyed, Makes
<1> QED
  BY <1>1, InvCorrect, PTL

(***************************************************************************)
(* Pictures, worksheets and properties on the screen are those of the file *)
(* that was opened last, and a thumbnail is one asked for since.           *)
(***************************************************************************)
THEOREM FileCorrect == Spec => []ShowsTheOpenFile
<1>1. IInv => ShowsTheOpenFile
  <2> SUFFICES ASSUME IInv
               PROVE  ShowsTheOpenFile
    OBVIOUS
  <2>1. PicturesOfTheText
    BY DEF IInv, Faithful, Blank, Nothing, Editing, PicturesOf, PicturesOfTheText
  <2>2. WorksheetsOfTheFile
    BY DEF IInv, Faithful, Editing, SheetOfTheFile, Laid, NamesOf, WorksheetsOfTheFile, Running
  <2>3. PropertiesOfTheFile
    BY DEF IInv, Faithful, MetaOfTheFile, PropertiesOfTheFile, Running
  <2>4. ThumbnailSought
    BY DEF IInv, Faithful, ThumbOf, ThumbnailSought, Running
  <2> QED
    BY <2>1, <2>2, <2>3, <2>4 DEF IInv, ShowsTheOpenFile
<1> QED
  BY <1>1, InvCorrect, PTL
=============================================================================
