------------------------------- MODULE Viewer -------------------------------
(***************************************************************************)
(* The viewer: COpenDocument (which file, its type, its keys, its notes,   *)
(* its tables, the pictures still being decoded) under the four views of   *)
(* the S60 program: the list of files, the editor view (a text or a        *)
(* sheet), the properties and the thumbnail.                               *)
(*                                                                         *)
(* One document object outlives all files that are opened with it, and the *)
(* containers of the views are deleted and made again around it: what is   *)
(* checked here is that nothing of an earlier file, or of a deleted        *)
(* control, gets into what the user sees.                                  *)
(*                                                                         *)
(* The user, the file server and the image decoder are the environment:    *)
(* commands come in any order the menus allow, files vanish, pictures are  *)
(* ready when they are, and a panic ends the program, which the user then  *)
(* starts again.  What is read inside a file is TextXML, TableXML, and so  *)
(* on; here a file has notes, tables, a picture and a thumbnail or not.    *)
(***************************************************************************)
EXTENDS Integers, Sequences

CONSTANTS
    Files,          \* the files there may be on the phone
    Kind,           \* Files -> "text" | "sheet" | "unknown": the mimetype member
    Hybrid,         \* files that are hybrid PDFs
    Secret,         \* files whose members are encrypted
    NoteCount,      \* Files -> number of footnotes
    Tables,         \* Files -> sequence of the names of the tables
    Illustrated,    \* texts with a picture
    Thumbnailed,    \* files with a thumbnail that decodes
    TableCommands,  \* how many commands 10000, 10001, ... the view handles
    Disks,          \* bound: which files are on the phone at first
    Perishable,     \* bound: the files that are deleted or vanish
    None

ASSUME ViewerConstants ==
    /\ \A S \in {Hybrid, Secret, Illustrated, Thumbnailed, Perishable} : S \subseteq Files
    /\ Kind \in [Files -> {"text", "sheet", "unknown"}]
    /\ NoteCount \in [Files -> Nat]
    /\ Tables \in [Files -> Seq(STRING)]
    /\ TableCommands \in Nat
    /\ Disks \subseteq SUBSET Files
    /\ None \notin Files

VARIABLES
    doc,      \* COpenDocument; sought is history: the thumbnails asked for and not cleared
    ui,       \* the active view and its container
    disk,     \* files that exist
    temps,    \* hybrid PDFs whose extracted archive "<name>pdftmp" exists
    litter,   \* history: archives that were there when the program died
    origin    \* history: the view the properties or the thumbnail came from

vars == <<doc, ui, disk, temps, litter, origin>>

\* What the user answers, if the password is asked for.
Answer(asked) == IF asked THEN {"right", "wrong", "cancel"} ELSE {"right"}
Dead == {"password", "sheet", "editor", "container", "pdf", "leave"}

\* What a control holds: the file, whether its bytes made sense, the table that
\* was asked for by its name and the tables a sheet shows, and the files whose
\* pictures were inserted.
Nothing == [file |-> None, good |-> FALSE, named |-> None, tables |-> {}, pics |-> {}]
Notes(f) == [k \in 1..NoteCount[f] |-> <<f, k>>]

NewDocument ==
    [iFileName |-> None, iHybridPDF |-> FALSE, iEncrypted |-> FALSE,
     iEncryptData |-> None, iPassword |-> None, iNextViewID |-> None,
     iNotes |-> <<>>, iNoteIndex |-> 0, iFloating |-> None, iTables |-> <<>>,
     iMeta |-> None, iEditor |-> "none", iBitmaps |-> {}, sought |-> {}, content |-> Nothing,
     heap |-> None, stop |-> "no"]

Rescan(there) == IF there = {} THEN None ELSE CHOOSE f \in there : TRUE
ListView(there) == [view |-> "list", listed |-> there, item |-> Rescan(there),
                    editor |-> FALSE, sheet |-> FALSE, thumb |-> None, cancelled |-> FALSE]
OtherView(v) == [ListView({}) EXCEPT !.view = v]

\* The program dies: of its memory only what explains the files on disk is kept.
Died(d, why) == [NewDocument EXCEPT !.iFileName = d.iFileName,
                                    !.iHybridPDF = d.iHybridPDF, !.stop = why]

\* ---------------------------------------------------------- COpenDocument
\* SetFileName: the archive taken out of the last PDF is deleted, a new one is
\* written; a PDF that is gone is read all the same, through a closed handle.
SetFileName(d, f) ==
    IF f \in Hybrid /\ f \notin disk
    THEN Died([d EXCEPT !.iHybridPDF = FALSE], "pdf")
    ELSE [d EXCEPT !.iFileName = f, !.iHybridPDF = f \in Hybrid]

\* Mutant: the archive of the last PDF is left where it is.
TempsAfterKept(d, f) == temps \cup ({f} \cap Hybrid \cap disk)

TempsAfter(d, f) ==
    (IF d.iHybridPDF THEN temps \ {d.iFileName} ELSE temps) \cup ({f} \cap Hybrid \cap disk)

\* The archive the document names can be opened.
Readable(d, archives) == d.iFileName \in (IF d.iHybridPDF THEN archives ELSE disk)

\* Mutant: keys that are there already are kept.
GetTypeKeysKept(d) ==
    [d EXCEPT !.iEncrypted = d.iFileName \in Secret,
              !.iEncryptData = IF d.iFileName \in Secret /\ @ = None THEN d.iFileName ELSE @]

\* GetType: the mimetype member, then the manifest: the flag is reset, keys
\* are only replaced.
GetType(d) ==
    [d EXCEPT !.iEncrypted = d.iFileName \in Secret,
              !.iEncryptData = IF d.iFileName \in Secret THEN d.iFileName ELSE @]

SetPassword(d, a) ==
    [d EXCEPT !.iPassword = IF a = "right" /\ d.iFileName \in Secret THEN d.iFileName ELSE "wrong"]

\* The bytes GetContent gives to the parser are those of the member: plain, or
\* decrypted with the right password and this file's salt and size.  Other
\* bytes do not inflate; the error is dropped, and the buffer that is parsed
\* was never written: it holds nothing of use or, from a buffer freed before,
\* what was read last (heap); g is which of the two, a file or None.
Makes(d) == d.iEncrypted => d.iPassword = d.iFileName /\ d.iEncryptData = d.iFileName

\* Mutant: the engines of the last content go on.
ClearContentEngines(d) == [d EXCEPT !.iNotes = <<>>, !.iNoteIndex = 0, !.sought = {}]

ClearContent(d) ==
    [d EXCEPT !.iNotes = <<>>, !.iNoteIndex = 0, !.iBitmaps = {}, !.sought = {}]

Picture(f) == IF f \in Illustrated THEN {[kind |-> "picture", of |-> f]} ELSE {}

GetContentText(d, g) ==
    LET c == ClearContent(d)
        f == d.iFileName
    IN IF d.iEncrypted /\ d.iPassword = None
       THEN Died(c, "password")
       ELSE [c EXCEPT !.iEditor = "live",
                      !.iNotes = @ \o (IF Makes(d) THEN Notes(f)
                                       ELSE IF g # None THEN Notes(g) ELSE <<>>),
                      !.iBitmaps = @ \cup (IF Makes(d) THEN Picture(f) ELSE {}),
                      !.content = [Nothing EXCEPT !.file = f, !.good = Makes(d)],
                      !.heap = f]

\* The table of that name, or, without a name, every table, one below the other
\* (XML.cpp:499-500), read again from the file.
GetContentSheet(d, name, g) ==
    LET c == ClearContent(d)
        f == d.iFileName
        names == IF Makes(d) THEN Tables[f] ELSE IF g # None THEN Tables[g] ELSE <<>>
    IN IF d.iEncrypted /\ d.iPassword = None
       THEN Died(c, "password")
       ELSE [c EXCEPT !.iTables = names,
                      !.content = [Nothing EXCEPT !.file = f, !.good = Makes(d), !.named = name,
                                     !.tables = {names[i] : i \in {k \in DOMAIN names :
                                                                  name \in {None, names[k]}}}],
                      !.heap = f]

\* The archive cannot be opened any more (CZipFile::NewL leaves, CZip.cpp:71):
\* the sheet has been emptied, and the names of its tables are still there.
UnreadSheet(d) == [ClearContent(d) EXCEPT !.content = Nothing]

\* The properties.  meta.xml is decrypted with the salt of styles.xml, so that
\* nothing of an encrypted file is read.
LoadMetaInfomation(d) ==
    LET t == GetType([d EXCEPT !.iMeta = None])
    IN IF t.iEncrypted
       THEN IF t.iPassword = None THEN Died(t, "password") ELSE t
       ELSE [t EXCEPT !.iMeta = d.iFileName]

\* The notes and the box they are shown in.
InRange(d) == d.iNoteIndex >= 0 /\ d.iNoteIndex < Len(d.iNotes)
ShowNote(d) == IF InRange(d) THEN [d EXCEPT !.iFloating = d.iNotes[d.iNoteIndex + 1]] ELSE d

GetCurrentNote(d) ==
    IF InRange(d) /\ d.iFloating # None THEN [d EXCEPT !.iFloating = None] ELSE ShowNote(d)

GoToNote(d, i) == IF i = d.iNoteIndex THEN d ELSE ShowNote([d EXCEPT !.iNoteIndex = i])

GetNextNote(d) ==
    GoToNote(d, IF d.iNoteIndex + 1 > Len(d.iNotes) - 1 THEN 0 ELSE d.iNoteIndex + 1)

GetPreviousNote(d) ==
    GoToNote(d, IF d.iNoteIndex - 1 < 0 THEN Len(d.iNotes) - 1 ELSE d.iNoteIndex - 1)

\* Mutant: the box stays.
HideNoteNot(d) == d

HideNote(d) == [d EXCEPT !.iFloating = None]
ClearNote(d) == [d EXCEPT !.iFloating = None, !.iNotes = <<>>]

\* -------------------------------------------------------------- the views
\* DoDeactivate deletes the container; the document keeps its pointers.
Left(d) == [d EXCEPT !.iEditor = IF @ = "live" THEN "dead" ELSE @, !.content = Nothing]

\* CEditorViewContainer::ConstructL
EditorContent(d, a, g) ==
    LET t == GetType(d)
        k == IF t.iEncrypted THEN SetPassword(t, a) ELSE t
    IN CASE Kind[d.iFileName] = "unknown" -> t
         [] t.iEncrypted /\ a = "cancel" -> t
         [] OTHER -> IF Kind[d.iFileName] = "text" THEN GetContentText(k, g)
                     ELSE GetContentSheet(k, None, g)

EditorControls(d, a) ==
    [OtherView("editor") EXCEPT
        !.editor = Kind[d.iFileName] = "text", !.sheet = Kind[d.iFileName] = "sheet",
        !.cancelled = a = "cancel"]

\* CMobileOfficeContainer2::ConstructL asks by what the last GetType found.
Properties(d, a) ==
    CASE d.iEncrypted /\ a = "cancel" -> d
      [] d.iEncrypted /\ a # "cancel" -> LoadMetaInfomation(SetPassword(d, a))
      [] OTHER -> LoadMetaInfomation(d)

\* So does it when the properties cannot be read: what was there is gone.
UnreadProperties(d, a) ==
    [(IF d.iEncrypted THEN SetPassword(d, a) ELSE d) EXCEPT !.iMeta = None]

\* Mutant: nothing is decoded while another engine is at work.
GetThubnailOne(d) ==
    IF d.iFileName \in Thumbnailed \ Secret /\ d.iBitmaps = {}
    THEN [d EXCEPT !.iBitmaps = {[kind |-> "thumbnail", of |-> d.iFileName]},
                   !.sought = @ \cup {d.iFileName}]
    ELSE d

\* GetThubnail: one more engine, at work if the member is there and decodes.
\* Two engines that decode the same member are one here.
GetThubnail(d) ==
    IF d.iFileName \in Thumbnailed \ Secret
    THEN [d EXCEPT !.iBitmaps = @ \cup {[kind |-> "thumbnail", of |-> d.iFileName]},
                   !.sought = @ \cup {d.iFileName}]
    ELSE d

\* A leave while a view is activated: its container is half made.  Whether the
\* framework goes on with it or gives the program up is its own affair.
HalfMade(d, v) == ui' = OtherView(v) /\ doc' \in {d, Died(d, "leave")}

\* ActivateLocalViewL(v): the container of the old view goes, the one of the
\* new view is made, and may ask for a password.
Activate(d, v, archives) ==
    LET l == Left(d) IN
    \/ v = "list" /\ doc' = l /\ ui' = ListView(disk)
    \/ /\ v = "editor" /\ Readable(d, archives)
       /\ \E a \in Answer(d.iFileName \in Secret), g \in {None, d.heap} :
             doc' = EditorContent(l, a, g) /\ ui' = EditorControls(l, a)
    \/ /\ v = "props"
       /\ \E a \in Answer(d.iEncrypted) :
             IF Readable(d, archives) \/ a = "cancel"
             THEN /\ doc' = Properties(l, a)
                  /\ ui' = [OtherView(v) EXCEPT !.cancelled = a = "cancel"]
             ELSE HalfMade(UnreadProperties(l, a), v)
    \/ /\ v = "image" /\ Readable(d, archives)
       /\ doc' = GetThubnail(l)
       /\ ui' = OtherView(v)
    \/ /\ v \in {"editor", "image"} /\ ~Readable(d, archives)
       /\ HalfMade(l, v)

Running(v) == doc.stop = "no" /\ ui.view = v

\* ---------------------------------------------------------- list of files
Select(f) ==
    /\ Running("list")
    /\ f \in ui.listed \ {ui.item}
    /\ ui' = [ui EXCEPT !.item = f]
    /\ UNCHANGED <<doc, disk, temps, litter, origin>>

\* What CMobileOfficeView::HandleCommandL does first, whatever the command.
Chosen == IF ui.item = None THEN doc
          ELSE [SetFileName(doc, ui.item) EXCEPT !.iNextViewID = "list"]
ChosenTemps == IF ui.item = None THEN temps ELSE TempsAfter(doc, ui.item)

\* Open, Properties, Thumbnail.
ListCommand(v) ==
    /\ Running("list")
    /\ v \in {"editor", "props", "image"}
    /\ temps' = ChosenTemps
    /\ IF Chosen.stop # "no" \/ ui.item = None
       THEN doc' = Chosen /\ ui' = ui /\ origin' = origin
       ELSE IF ui.item \in disk
            THEN Activate(Chosen, v, ChosenTemps) /\ origin' = "list"
            ELSE doc' = Chosen /\ ui' = ListView(disk) /\ origin' = origin
    /\ UNCHANGED <<disk, litter>>

\* The middle key, or Enter.
ListEnter ==
    /\ Running("list")
    /\ ui.item # None
    /\ IF ui.item \in disk
       THEN /\ Activate(SetFileName(doc, ui.item), "editor", TempsAfter(doc, ui.item))
            /\ temps' = TempsAfter(doc, ui.item)
       ELSE ui' = ListView(disk) /\ UNCHANGED <<doc, temps>>
    /\ UNCHANGED <<disk, litter, origin>>

ListRefresh ==
    /\ Running("list")
    /\ doc' = Chosen
    /\ temps' = ChosenTemps
    /\ ui' = IF Chosen.stop = "no" THEN ListView(disk) ELSE ui
    /\ UNCHANGED <<disk, litter, origin>>

\* Delete of the container: which item is the current one afterwards is the
\* list box's affair.
Deleted == /\ ui.item \in Perishable
           /\ disk' = disk \ {ui.item}
           /\ IF ui.item \in disk
              THEN \E i \in (ui.listed \ {ui.item}) \cup {None} :
                     ui' = [ui EXCEPT !.listed = @ \ {ui.item}, !.item = i]
              ELSE ui' = ui

ListDelete ==
    /\ Running("list")
    /\ ui.item # None
    /\ doc' = Chosen
    /\ temps' = ChosenTemps
    /\ IF Chosen.stop = "no" THEN Deleted ELSE UNCHANGED <<disk, ui>>
    /\ UNCHANGED <<litter, origin>>

\* The backspace key deletes without choosing.
ListBackspace ==
    /\ Running("list")
    /\ ui.item # None
    /\ Deleted
    /\ UNCHANGED <<doc, temps, litter, origin>>

\* ------------------------------------------------------------ editor view
\* Mutant: the view to come back to is not noted.
EditorFirstUnnoted(d) == HideNote(d)

\* What CEditorViewView::HandleCommandL does first, whatever the command.
EditorFirst(d) == HideNote([d EXCEPT !.iNextViewID = "editor"])

EditorCommand(v) ==
    /\ Running("editor")
    /\ v \in {"props", "image"}
    /\ Activate(EditorFirst(doc), v, temps)
    /\ origin' = "editor"
    /\ UNCHANGED <<disk, temps, litter>>

EditorBack ==
    /\ Running("editor")
    /\ Activate(ClearNote(EditorFirst(doc)), "list", temps)
    /\ UNCHANGED <<disk, temps, litter, origin>>

\* Go to the start or the end, zoom: without an editor the sheet is used.
EditorMove ==
    /\ Running("editor")
    /\ doc' = IF ui.editor \/ ui.sheet THEN EditorFirst(doc)
              ELSE Died(doc, "sheet")
    /\ UNCHANGED <<ui, disk, temps, litter, origin>>

\* Worksheets: the menu is built from iTables, and not shown over a text.
EditorTable(i) ==
    /\ Running("editor")
    /\ ~ui.editor
    /\ i \in DOMAIN doc.iTables
    /\ \E g \in {None, doc.heap} :
         doc' = CASE i > TableCommands -> EditorFirst(doc)
                  [] i <= TableCommands /\ ~ui.sheet -> Died(doc, "sheet")
                  [] i <= TableCommands /\ ui.sheet /\ ~Readable(doc, temps) ->
                       UnreadSheet(EditorFirst(doc))
                  [] OTHER -> GetContentSheet(EditorFirst(doc), doc.iTables[i], g)
    /\ UNCHANGED <<ui, disk, temps, litter, origin>>

\* The keys: enter, right, left.
NoteKey ==
    /\ Running("editor")
    /\ ui.editor
    /\ doc' \in {GetCurrentNote(doc), GetNextNote(doc), GetPreviousNote(doc)}
    /\ UNCHANGED <<ui, disk, temps, litter, origin>>

\* -------------------------------------------- properties and thumbnail
SideCommand(v) ==
    /\ Running("props") \/ Running("image")
    /\ v \in {"editor", "props", "image"} \ {ui.view}
    /\ Activate(doc, v, temps)
    /\ UNCHANGED <<disk, temps, litter, origin>>

SideBack ==
    /\ Running("props") \/ Running("image")
    /\ Activate(doc, doc.iNextViewID, temps)
    /\ UNCHANGED <<disk, temps, litter, origin>>

\* ------------------------------------------------------------ environment
\* CCImageEngine is done: HandleEventL.  A thumbnail goes to the container
\* that asked last, a picture to iEditor; either may have been deleted, and
\* then the program dies or nothing is seen of it.
EngineDone(e) ==
    LET d == [doc EXCEPT !.iBitmaps = @ \ {e}] IN
    /\ doc.stop = "no"
    /\ e \in doc.iBitmaps
    /\ IF e.kind = "thumbnail"
       THEN IF ui.view = "image"
            THEN doc' = d /\ ui' = [ui EXCEPT !.thumb = e.of]
            ELSE doc' \in {d, Died(d, "container")} /\ ui' = ui
       ELSE /\ ui' = ui
            /\ IF doc.iEditor = "live"
               THEN doc' = [d EXCEPT !.content.pics = @ \cup {e.of}]
               ELSE doc' \in {d, Died(d, "editor")}
    /\ UNCHANGED <<disk, temps, litter, origin>>

Vanish(f) ==
    /\ f \in disk \cap Perishable
    /\ disk' = disk \ {f}
    /\ UNCHANGED <<doc, ui, temps, litter, origin>>

\* Exit deletes the document, and with it the archive of a hybrid PDF; in the
\* list of files the command first chooses, as any other.
Exit ==
    /\ doc.stop = "no"
    /\ LET d == IF ui.view = "list" THEN Chosen ELSE doc
           t == IF ui.view = "list" THEN ChosenTemps ELSE temps
       IN /\ doc' = [NewDocument EXCEPT !.stop = IF d.stop = "no" THEN "off" ELSE d.stop]
          /\ temps' = IF d.iHybridPDF THEN t \ {d.iFileName} ELSE t
    /\ ui' = OtherView("list")
    /\ UNCHANGED <<disk, litter, origin>>

\* The program is started, by itself or with a file (OpenFileL).
Start(f) ==
    /\ doc.stop # "no"
    /\ litter' = IF doc.stop = "off" THEN litter ELSE litter \cup temps
    /\ IF f = None
       THEN doc' = NewDocument /\ ui' = ListView(disk) /\ temps' = temps
       ELSE LET d == [NewDocument EXCEPT !.iNextViewID = "list"] IN
            /\ f \in disk
            /\ temps' = TempsAfter(d, f)
            /\ Activate(SetFileName(d, f), "editor", TempsAfter(d, f))
    /\ UNCHANGED <<disk, origin>>

Init ==
    /\ disk \in Disks
    /\ temps = {} /\ litter = {} /\ origin = "list"
    /\ doc = Died(NewDocument, "off")
    /\ ui = OtherView("list")

Next ==
    \/ \E f \in Files : Select(f) \/ Vanish(f)
    \/ \E v \in {"editor", "props", "image"} :
          ListCommand(v) \/ EditorCommand(v) \/ SideCommand(v)
    \/ ListEnter \/ SideBack
    \/ ListRefresh \/ ListDelete \/ ListBackspace
    \/ EditorBack \/ EditorMove \/ NoteKey
    \/ \E i \in DOMAIN doc.iTables : EditorTable(i)
    \/ \E e \in doc.iBitmaps : EngineDone(e)
    \/ Exit
    \/ \E f \in Files \cup {None} : Start(f)

\* An image that is being decoded gets done.
Spec == /\ Init /\ [][Next]_vars
        /\ \A f \in Illustrated : WF_vars(EngineDone([kind |-> "picture", of |-> f]))
        /\ \A f \in Thumbnailed : WF_vars(EngineDone([kind |-> "thumbnail", of |-> f]))

-----------------------------------------------------------------------------
(* Type invariant.                                                         *)
Engine == [kind : {"picture", "thumbnail"}, of : Files]
Note == Files \X Nat
Content == [file : Files \cup {None}, good : BOOLEAN,
            named : STRING \cup {None}, tables : SUBSET STRING, pics : SUBSET Files]
Document ==
    [iFileName : Files \cup {None}, iHybridPDF : BOOLEAN, iEncrypted : BOOLEAN,
     iEncryptData : Secret \cup {None}, iPassword : Secret \cup {None, "wrong"},
     iNextViewID : {None, "list", "editor"}, iNotes : Seq(Note), iNoteIndex : Int,
     iFloating : Note \cup {None}, iTables : Seq(STRING), iMeta : Files \cup {None},
     iEditor : {"none", "live", "dead"}, iBitmaps : SUBSET Engine, sought : SUBSET Files,
     content : Content, heap : Files \cup {None}, stop : {"no", "off"} \cup Dead]
Screen ==
    [view : {"list", "editor", "props", "image"}, listed : SUBSET Files,
     item : Files \cup {None}, editor : BOOLEAN, sheet : BOOLEAN,
     thumb : Files \cup {None}, cancelled : BOOLEAN]

TypeOK ==
    /\ doc \in Document
    /\ ui \in Screen /\ ui.item \in ui.listed \cup {None}
    /\ disk \subseteq Files /\ temps \subseteq Files /\ litter \subseteq Files
    /\ origin \in {"list", "editor"}

\* The box over the text shows the note the index names, one of the notes of
\* the text, and there is none over anything but a text: not over the list, a
\* sheet or a text that has been replaced (HideNote, ClearNote, ClearContent).
BoxShowsCurrentNote ==
    doc.stop = "no" /\ doc.iFloating # None =>
        /\ Running("editor") /\ ui.editor
        /\ InRange(doc) /\ doc.iFloating = doc.iNotes[doc.iNoteIndex + 1]

\* What is read of a file is legible exactly when it needs no password or the
\* one it was given is its own, whatever other encrypted files, whose salts
\* and flag the document object still holds, were opened before.
LegibleWhenUnlocked ==
    LET c == doc.content IN
    c.file # None => /\ c.file = doc.iFileName
                     /\ c.good <=> (c.file \in Secret => doc.iPassword = c.file)

\* A picture that gets done while a text is shown is a picture of that text:
\* the engines of the texts before are destroyed, and cancelled, by ClearContent.
PicturesOfTheText == doc.content.pics \subseteq {doc.content.file}

\* Over a sheet that was read, the worksheets offered are those of the file,
\* each once, and all of them are shown, or the one that was asked for by its
\* name, however often that was done; after a cancelled query for the password
\* the list is still that of the last sheet, whose names this one need not have.
WorksheetsOfTheFile ==
    LET c == doc.content
        names == {Tables[c.file][i] : i \in DOMAIN Tables[c.file]}
    IN Running("editor") /\ ui.sheet /\ ~ui.cancelled /\ c.good =>
        /\ doc.iTables = Tables[c.file]
        /\ IF c.named = None THEN c.tables = names
           ELSE c.named \in names /\ c.tables = {c.named}

\* The thumbnail on the screen is one that was asked for since a document was
\* last read: not every one is that of the file, for engines of other files may
\* still be at work, and the last to be done is shown (OpenDocument.cpp:993).
ThumbnailSought == Running("image") => ui.thumb \in doc.sought \cup {None}

\* The properties shown are those of the file or empty, unless the user
\* cancelled the query for the password.
PropertiesOfTheFile ==
    Running("props") /\ ~ui.cancelled => doc.iMeta \in {None, doc.iFileName}

\* Back from the properties or the thumbnail goes to the view they were
\* called from, over any chain of these two views.
BackToOrigin == Running("props") \/ Running("image") => doc.iNextViewID = origin

\* No archive taken out of a PDF is left on the phone but the one in use,
\* unless the program died: not by the next file, by a deletion, or by leaving.
NoArchiveLeft ==
    temps \subseteq litter \cup (IF doc.iHybridPDF THEN {doc.iFileName} ELSE {})

\* Who opens the thumbnail of a file comes to see it, though engines of other
\* files are still at work and done before it; one done later may replace it.
ThumbnailArrives ==
    \A f \in Thumbnailed \ Secret :
        Running("image") /\ doc.iFileName = f /\ f \in disk /\ ui.thumb = None
            ~> (~Running("image") \/ ui.thumb = f)

\* The pictures, the worksheets and the properties on the screen are those of the
\* file that was opened last, over every order of opening, leaving and asking, and a
\* thumbnail is none from before the last text or sheet was read.
ShowsTheOpenFile ==
    TypeOK /\ PicturesOfTheText /\ WorksheetsOfTheFile /\ PropertiesOfTheFile /\ ThumbnailSought
=============================================================================
