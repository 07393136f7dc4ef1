------------------------------ MODULE Pictures ------------------------------
(***************************************************************************)
(* The pictures of a text document: COpenDocument starts a CCImageEngine   *)
(* for each while it reads the document, the engines decode and scale in   *)
(* the background and come back in any order, long after the text is       *)
(* there, when the user may have gone on to another view (S60).  The       *)
(* picture view shows the thumbnail of the file by the same engines.       *)
(***************************************************************************)
EXTENDS Integers, Sequences, FiniteSets, SequencesExt

CONSTANTS MaxText, MaxPicture, MaxThumbnail   \* bounds of a document and of a visit
ASSUME BoundAssumption == MaxText \in Nat /\ MaxPicture \in Nat /\ MaxThumbnail \in Nat

VARIABLES
  view,              \* the view on the screen
  iNextViewID,       \* where Back leads from the picture view
  iEditor,           \* the editor COpenDocument points to
  iBitmapContainer,  \* the picture view it points to
  iRichText,         \* the text: Character, or the number of a picture
  loading,           \* the parser is at work: no callback runs
  iBitmaps,          \* the engines, in the order they were started
  misused,           \* history: bitmap data was deleted twice or read too late
  fault              \* the program has crashed

vars == <<view, iNextViewID, iEditor, iBitmapContainer, iRichText, loading, iBitmaps, misused, fault>>

Character == 0
Pointer   == {"null", "valid", "dangling"}
Engine    == [iDM : {"thumbnail", "image"}, iPos : Nat,
              status : {0, 1},            \* 0: decoding, 1: scaling
              active : BOOLEAN,           \* a request is outstanding
              iBitmapData : Pointer,
              outcome : {"waiting", "shown", "lost"}]   \* history
Faults    == {"none", "closed view", "beyond the end"}

Init ==
  /\ view = "list" /\ iNextViewID = "list"
  /\ iEditor = "null" /\ iBitmapContainer = "null"
  /\ iRichText = <<>> /\ loading = FALSE
  /\ iBitmaps = <<>>
  /\ misused = FALSE /\ fault = "none"

Started(mode, at) ==
  [iDM |-> mode, iPos |-> at, status |-> 0, active |-> TRUE,
   iBitmapData |-> "valid", outcome |-> "waiting"]

\* No such picture in the archive, or not one that can be decoded.
NotStarted(mode, at, data) ==
  [iDM |-> mode, iPos |-> at, status |-> 0, active |-> FALSE,
   iBitmapData |-> data, outcome |-> "lost"]

Ready == fault = "none" /\ ~ loading

-----------------------------------------------------------------------------
(***************************************************************************)
(* The destructors of all engines.  Cancel() calls DoCancel, which deletes *)
(* the bitmap data, only when a request is outstanding.                    *)
(***************************************************************************)
ResetAndDestroy ==
  /\ iBitmaps' = <<>>
  /\ misused' = (misused \/ \E i \in DOMAIN iBitmaps :
                   iBitmaps[i].active /\ iBitmaps[i].iBitmapData # "valid")

(***************************************************************************)
(* The editor view comes up with an editor of its own and reads the        *)
(* document; without its password, and when it is of no known type,        *)
(* nothing is read and all stays as it was.                                *)
(***************************************************************************)
OpenEditor ==
  /\ view' = "editor"
  /\ \/ /\ iEditor' = "valid" /\ iRichText' = <<>>
        /\ loading' = TRUE
        /\ ResetAndDestroy
     \/ UNCHANGED <<iEditor, iRichText, loading, iBitmaps, misused>>

Open ==
  /\ Ready /\ view = "list"
  /\ OpenEditor
  /\ iNextViewID' = "list"
  /\ UNCHANGED <<iBitmapContainer, fault>>

AddTextL ==
  /\ loading /\ Len(SelectSeq(iRichText, LAMBDA x : x = Character)) < MaxText
  /\ iRichText' = Append(iRichText, Character)
  /\ UNCHANGED <<view, iNextViewID, iEditor, iBitmapContainer, loading, iBitmaps, misused, fault>>

\* A picture that cannot be decoded leaves no trace.
GetPicture ==
  /\ loading /\ Len(iBitmaps) < MaxPicture
  /\ iBitmaps' = Append(iBitmaps, Started("image", Len(iRichText)))
  /\ UNCHANGED <<view, iNextViewID, iEditor, iBitmapContainer, iRichText, loading, misused, fault>>

EndOfDocument ==
  /\ loading /\ loading' = FALSE
  /\ UNCHANGED <<view, iNextViewID, iEditor, iBitmapContainer, iRichText, iBitmaps, misused, fault>>

\* A view leaves the screen and is deleted; the document still points to it.
CloseEditor == iEditor' = (IF iEditor = "valid" THEN "dangling" ELSE iEditor) /\ iRichText' = <<>>

(***************************************************************************)
(* Picture, from the list or from the editor: an engine for the thumbnail  *)
(* is kept whether it starts or not.                                       *)
(***************************************************************************)
GetThubnail ==
  /\ Len(iBitmaps) < MaxPicture + MaxThumbnail
  /\ \E engine \in {Started("thumbnail", 0)} \union {NotStarted("thumbnail", 0, d) : d \in {"null", "dangling"}} :
       iBitmaps' = Append(iBitmaps, engine)

Picture ==
  /\ Ready /\ view \in {"list", "editor"}
  /\ view' = "picture" /\ iNextViewID' = view
  /\ iBitmapContainer' = "valid"
  /\ GetThubnail
  /\ CloseEditor
  /\ UNCHANGED <<loading, misused, fault>>

Back ==
  /\ Ready
  /\ \/ /\ view = "editor" /\ view' = "list" /\ CloseEditor
        /\ iNextViewID' = "editor"
        /\ UNCHANGED <<iBitmapContainer, loading, iBitmaps, misused>>
     \/ /\ view = "picture" /\ iBitmapContainer' = "dangling"
        /\ \/ iNextViewID = "list" /\ view' = "list"
              /\ UNCHANGED <<iEditor, iRichText, loading, iBitmaps, misused>>
           \/ iNextViewID = "editor" /\ OpenEditor
        /\ UNCHANGED iNextViewID
  /\ UNCHANGED fault

-----------------------------------------------------------------------------
(***************************************************************************)
(* HandleEventL.  A picture goes where the text ended when it was met,     *)
(* moved on by the number of engines but one.  What points to a view that  *)
(* is gone may crash the program or go unnoticed.                          *)
(***************************************************************************)
\* Mutant: the pictures inserted before are not counted.
AsMet(i) == iBitmaps[i].iPos

Place(i) == iBitmaps[i].iPos + Len(iBitmaps) - 1

AddPictureL(i) ==
  \/ /\ iEditor = "valid" /\ Place(i) <= Len(iRichText)
     /\ iRichText' = InsertAt(iRichText, Place(i) + 1, i) /\ UNCHANGED fault
  \/ /\ iEditor = "valid" /\ Place(i) > Len(iRichText)
     /\ fault' = "beyond the end" /\ UNCHANGED iRichText
  \/ /\ iEditor = "dangling" /\ fault' \in {"none", "closed view"} /\ UNCHANGED iRichText

HandleControlEventL ==
  /\ fault' \in IF iBitmapContainer = "valid" THEN {"none"} ELSE {"none", "closed view"}
  /\ UNCHANGED iRichText

HandleEventL(i) == IF iBitmaps[i].iDM = "image" THEN AddPictureL(i) ELSE HandleControlEventL

Reads(i) == misused' = (misused \/ iBitmaps[i].iBitmapData # "valid")

\* Mutant: the scaler is started, but no request is noted.
ScaleUnnoted(i) ==
  /\ iBitmaps[i].status = 0
  /\ iBitmaps' = [iBitmaps EXCEPT ![i].status = 1, ![i].active = FALSE]
  /\ UNCHANGED <<iRichText, fault>>

\* Mutant: the data are deleted as soon as they are decoded.
ScaleAlone(i) ==
  /\ iBitmaps[i].status = 0
  /\ iBitmaps' = [iBitmaps EXCEPT ![i].status = 1, ![i].iBitmapData = "dangling"]
  /\ UNCHANGED <<iRichText, fault>>

\* The picture is decoded: the engine goes on to scale it.
Scale(i) ==
  /\ iBitmaps[i].status = 0
  /\ iBitmaps' = [iBitmaps EXCEPT ![i].status = 1]
  /\ UNCHANGED <<iRichText, fault>>

\* The picture is scaled: it is shown and its data are deleted.
Finish(i) ==
  /\ iBitmaps[i].status = 1
  /\ HandleEventL(i)
  /\ iBitmaps' = [iBitmaps EXCEPT ![i].active = FALSE, ![i].iBitmapData = "dangling",
                                  ![i].outcome = "shown"]

\* Any other error: nothing is done.
GiveUp(i) ==
  /\ iBitmaps' = [iBitmaps EXCEPT ![i].active = FALSE, ![i].outcome = "lost"]
  /\ UNCHANGED <<iRichText, fault>>

\* KErrUnderflow: the decoder is told to go on.
ContinueConvert(i) == iBitmaps[i].status = 0 /\ UNCHANGED <<iBitmaps, iRichText, fault>>

RunL(i) ==
  /\ Ready /\ i \in DOMAIN iBitmaps /\ iBitmaps[i].active
  /\ Scale(i) \/ Finish(i) \/ GiveUp(i) \/ ContinueConvert(i)
  /\ Reads(i)
  /\ UNCHANGED <<view, iNextViewID, iEditor, iBitmapContainer, loading>>

Next ==
  \/ Open \/ AddTextL \/ GetPicture \/ EndOfDocument \/ Picture \/ Back
  \/ \E i \in 1 .. MaxPicture + MaxThumbnail : RunL(i)

(***************************************************************************)
(* The parser returns, and the active scheduler runs every engine whose    *)
(* request the image servers have completed; they complete each request.   *)
(***************************************************************************)
Fairness ==
  /\ WF_vars(EndOfDocument)
  /\ \A i \in 1 .. MaxPicture + MaxThumbnail : WF_vars(RunL(i))

Spec == Init /\ [][Next]_vars
FairSpec == Spec /\ Fairness

-----------------------------------------------------------------------------
(***************************************************************************)
(* Types of the state.                                                     *)
(***************************************************************************)
TypeOK ==
  /\ view \in {"list", "editor", "picture"} /\ iNextViewID \in {"list", "editor"}
  /\ iEditor \in Pointer /\ iBitmapContainer \in Pointer
  /\ iRichText \in Seq(Nat)
  /\ loading \in BOOLEAN /\ misused \in BOOLEAN
  /\ iBitmaps \in Seq(Engine)
  /\ fault \in Faults

(***************************************************************************)
(* "iBitmapData is deleted in RunL function" (OpenDocument.cpp): the       *)
(* pointer is never cleared, and yet no data are deleted twice or read     *)
(* after they are gone, whatever is cancelled at whatever time.            *)
(***************************************************************************)
DataDeletedOnce == ~ misused

\* What keeps it so: an engine with a request outstanding has its data.
ActiveHasData ==
  \A i \in DOMAIN iBitmaps : iBitmaps[i].active => iBitmaps[i].iBitmapData = "valid"

(***************************************************************************)
(* Cancelled at whatever time, the engines use their data once.            *)
(***************************************************************************)
PicturesSafe == TypeOK /\ DataDeletedOnce

(***************************************************************************)
(* In whatever order the pictures come back, and whichever of them fail,   *)
(* none stands before text that comes before it in the document.           *)
(***************************************************************************)
TextBefore(j) == Cardinality({k \in 1 .. j : iRichText[k] = Character})
Shown == {j \in DOMAIN iRichText : iRichText[j] # Character}

NeverTooEarly == \A j \in Shown : TextBefore(j) >= iBitmaps[iRichText[j]].iPos

(***************************************************************************)
(* "add the position of the bitmap in the array, because if we added 100   *)
(* bitmaps before, our current documentlength is 100 positions longer"     *)
(* (OpenDocument.cpp): a picture stands right behind the text it followed. *)
(***************************************************************************)
PicturesInTheirPlace == \A j \in Shown : TextBefore(j) = iBitmaps[iRichText[j]].iPos

(***************************************************************************)
(* A picture whose decoding was started is shown, given up or discarded    *)
(* with its document; no engine waits for ever.                            *)
(***************************************************************************)
Waiting(i) == i \in DOMAIN iBitmaps /\ iBitmaps[i].outcome = "waiting"

EveryPictureSettles ==
  \A i \in 1 .. MaxPicture + MaxThumbnail : Waiting(i) ~> (~ Waiting(i) \/ fault # "none")
=============================================================================
