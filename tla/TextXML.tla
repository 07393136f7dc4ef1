------------------------------- MODULE TextXML -------------------------------
(* CTextXML and CTags (Engine/src/XML.cpp): the handlers that fill the text   *)
(* editor from content.xml and styles.xml, element by element.                *)
(*                                                                            *)
(* The parser is the environment: it reports any document whose elements nest *)
(* as in `Inside`, within the bounds.  What a text node becomes is decided by *)
(* the stack of open elements, iTags, whose top is its first member.  What    *)
(* CPara does with styles and lists is module ParaStyles; here only the       *)
(* answer of GetIndexByName counts: is this the paragraph style in use?       *)
EXTENDS Naturals, Sequences

CONSTANTS
    Styles,         \* the paragraph styles of the document
    NoStyle,        \* a paragraph without attributes
    Elements,       \* the elements the documents may use
    MaxDepth,       \* bound: nesting of elements
    MaxElements,    \* bound: elements of one document
    MaxPieces       \* bound: text nodes of one document

ASSUME StyleAssumption == NoStyle \notin Styles
ASSUME BoundAssumption == /\ MaxDepth \in Nat
                          /\ MaxElements \in Nat
                          /\ MaxPieces \in Nat

VARIABLES
    iTags,          \* the open elements, innermost first
    iChange,        \* between text:change-start and text:change-end
    temp,           \* the footnote under construction; <<>> stands for NULL
    iRichText,      \* the text of the editor, as the kinds of its characters
    iNotes,         \* the footnotes of the document
    style,          \* the paragraph style in use (iName[iPosGlobal] of CPara)
    crashed,        \* a null pointer was followed
    before,         \* environment: the last element closed at this level
    elements,       \* environment: how many elements have been opened
    pieces,         \* environment: how many text nodes have been reported
    eaten,          \* history: what DeleteL removed, and where
    due,            \* history: where the document wants its text nodes
    mixed,          \* history: a hidden text overlapped a note or a change
    cut             \* history: a citation was reported in several text nodes

vars == <<iTags, iChange, temp, iRichText, iNotes, style, crashed,
          before, elements, pieces, eaten, due, mixed, cut>>

------------------------------------------------------------------------------
\* The elements that matter to the handlers, and what may stand in them.
Paragraphs == {"p", "h"}
Inline == {"span", "note", "annotation", "text_box", "tab", "s", "line_break",
           "change_start", "change_end"}
Body == {"p", "h", "list", "table_row", "tracked_changes", "page"}
Inside ==
    [none |-> Body \cup {"header", "footer"},
     p |-> Inline, h |-> Inline, span |-> Inline,
     note |-> {"note_citation", "note_body"}, note_citation |-> {},
     note_body |-> {"p", "h"}, annotation |-> {"p"}, text_box |-> {"p"},
     list |-> {"list_item"}, list_item |-> {"p", "h", "list"},
     table_row |-> {"table_cell"}, table_cell |-> {"p", "h", "list"},
     tracked_changes |-> {"p"}, header |-> {"p"}, footer |-> {"p"},
     page |-> {"text_box"}, tab |-> {}, s |-> {}, line_break |-> {},
     change_start |-> {}, change_end |-> {}]
Names == DOMAIN Inside

Open == {iTags[i] : i \in DOMAIN iTags}
Top == IF iTags = <<>> THEN "none" ELSE Head(iTags)

\* Characters of the editor's text.
Text == {"text", "link", "inserted"}
Chars == Text \cup {"enter", "paragraph", "tab", "space", "page"}

Places == {"text", "link", "inserted", "note", "nowhere"}

------------------------------------------------------------------------------
\* CTags: what the stack says.
IsText == Open \cap {"p", "h", "span"} # {}
\* Mutant of IsNote: only the innermost element is asked.
IsNoteTop == Top = "note_body"
IsNote == "note_body" \in Open
IsNoteCitation == Top = "note_citation"
IsTrackedChanges == "tracked_changes" \in Open
IsFooter == "footer" \in Open
IsAnnotation == "annotation" \in Open
IsList == Len(iTags) > 1 /\ iTags[2] = "list_item"

\* The two that are asked after the element was pushed or popped.
IsListIn(tags) == Len(tags) > 1 /\ tags[2] = "list_item"
IsTableTop(tags) == tags # <<>> /\ Head(tags) \in {"table_cell", "table_row"}

\* COpenDocument's edits of the text: all at its end.
LastChar == iRichText[Len(iRichText)]
DeleteL(doc) == IF Len(doc) > 0 THEN SubSeq(doc, 1, Len(doc) - 1) ELSE doc
AppendParagraphL(doc) == IF Len(doc) > 0 THEN Append(doc, "paragraph") ELSE doc

\* Mutant of BreaksParagraph: in notes and comments too.
BreaksAnyParagraph(e, st, tags) ==
    \/ st # NoStyle /\ (st # style \/ IsListIn(tags))
    \/ st = NoStyle /\ e = "p" /\ IsListIn(tags)

\* Does this paragraph replace the last character by the end of a paragraph?
\* Not when the style is the one in use already, except in a list.
BreaksParagraph(e, st, tags) ==
    /\ ~IsNote /\ ~IsAnnotation
    /\ \/ st # NoStyle /\ (st # style \/ IsListIn(tags))
       \/ st = NoStyle /\ e = "p" /\ IsListIn(tags)

\* Where DeleteL takes its character: in a table cell, in a text box, or in
\* the flow of the text.
Where == IF "table_cell" \in Open THEN "cell"
         ELSE IF "text_box" \in Open THEN "box" ELSE "flow"

------------------------------------------------------------------------------
Init ==
    /\ iTags = <<>> /\ iChange = FALSE /\ temp = <<>>
    /\ iRichText = <<>> /\ iNotes = <<>> /\ style = NoStyle /\ crashed = FALSE
    /\ before = "none" /\ elements = 0 /\ pieces = 0
    /\ eaten = {} /\ due = <<>> /\ mixed = FALSE /\ cut = FALSE

\* What every start does, whatever the element: push (CXML::StartElement).
Push(e) ==
    /\ ~crashed
    /\ e \in Inside[Top] \cap Elements
    /\ Len(iTags) < MaxDepth /\ elements < MaxElements
    /\ iTags' = <<e>> \o iTags
    /\ before' = "none" /\ elements' = elements + 1
    /\ UNCHANGED <<crashed, pieces, due, mixed, cut>>

\* text:p and text:h.
StartParagraph(e, st) ==
    /\ e \in Paragraphs
    /\ Push(e)
    /\ IF BreaksParagraph(e, st, <<e>> \o iTags)
       THEN /\ iRichText' = AppendParagraphL(DeleteL(iRichText))
            /\ eaten' = IF iRichText = <<>> THEN eaten
                        ELSE eaten \cup {<<LastChar, Where>>}
       ELSE UNCHANGED <<iRichText, eaten>>
    /\ style' = IF st = NoStyle \/ IsNote \/ IsAnnotation THEN style ELSE st
    /\ UNCHANGED <<iChange, temp, iNotes>>

\* draw:page, a slide: AddNewPageL.
PageBreak == "page"

\* Elements that put a character where they start, wherever that is.
StartCharacter(e) ==
    /\ e \in {"tab", "s", "page"}
    /\ Push(e)
    /\ iRichText' = Append(iRichText, CASE e = "tab" -> "tab" [] e = "s" -> "space"
                                       [] e = "page" -> PageBreak)
    /\ UNCHANGED <<iChange, temp, iNotes, style, eaten>>

\* text:change-start, an empty element; a region does not start in another,
\* nor in deleted text.
StartChange ==
    /\ ~iChange /\ ~IsTrackedChanges
    /\ Push("change_start")
    /\ iChange' = TRUE
    /\ UNCHANGED <<temp, iRichText, iNotes, style, eaten>>

\* All others are only pushed here.  A note has its citation first and then
\* its body; styles.xml is read first, and deletions come before the text.
StartOther(e) ==
    /\ e \notin Paragraphs \cup {"tab", "s", "page", "change_start"}
    /\ e = "note_citation" => before = "none"
    /\ e = "note_body" => before = "note_citation"
    /\ e = "change_end" => iChange
    /\ e = "note" => ~IsNote
    /\ e \in {"header", "footer", "tracked_changes"} =>
           before \in {"none", "header", "footer"}
    /\ Push(e)
    /\ UNCHANGED <<iChange, temp, iRichText, iNotes, style, eaten>>

StartElement == \E e \in Elements :
    \/ \E st \in Styles \cup {NoStyle} : StartParagraph(e, st)
    \/ StartCharacter(e)
    \/ StartChange
    \/ StartOther(e)

------------------------------------------------------------------------------
\* Where the document wants a text node: nothing of a comment, of deleted text
\* and of a footer is shown; the rest is a note's or the text's.
Hidden == Open \cap {"annotation", "tracked_changes", "footer"} # {}
Wanted == CASE Hidden -> "nowhere"
            [] ~Hidden /\ Top = "note_citation" -> "link"
            [] ~Hidden /\ Top # "note_citation" /\ "note_body" \in Open -> "note"
            [] OTHER -> IF iChange THEN "inserted" ELSE "text"

\* Where CharacterData puts it.
Routed ==
    IF /\ IsText /\ ~IsNote /\ ~IsNoteCitation /\ ~IsFooter
       /\ ~IsAnnotation /\ ~iChange /\ ~IsTrackedChanges THEN "text"
    ELSE IF IsNoteCitation THEN "link"
    ELSE IF IsNote THEN "note"
    ELSE IF iChange THEN "inserted" ELSE "nowhere"

\* A text node.  The parser reports one in a paragraph or in a citation, and
\* may report one text in several.
CharacterData ==
    /\ ~crashed /\ pieces < MaxPieces
    /\ Top \in Paragraphs \cup {"span", "note_citation"}
    /\ pieces' = pieces + 1
    /\ due' = Append(due, Wanted)
    /\ mixed' = (mixed \/ (Hidden /\ (Open \cap {"note_citation", "note_body"} # {} \/ iChange)))
    /\ cut' = (cut \/ (Top = "note_citation" /\ temp # <<>>))
    /\ iRichText' = IF Routed \in Text THEN Append(iRichText, Routed)
                    ELSE iRichText
    /\ temp' = CASE Routed = "link" -> <<"citation">>
                 [] Routed = "note" -> Append(temp, "words")
                 [] OTHER -> temp
    /\ UNCHANGED <<iTags, iChange, iNotes, style, crashed, before, elements,
                   eaten>>

------------------------------------------------------------------------------
\* What every end does: pop.
Pop(e) ==
    /\ ~crashed
    /\ iTags # <<>> /\ Head(iTags) = e
    /\ e = "note" => before = "note_body"
    /\ iTags' = Tail(iTags)
    /\ before' = e
    /\ UNCHANGED <<elements, pieces, eaten, due, mixed, cut, style>>

\* Mutant of EndParagraph: no enter behind a heading.
EndParagraphOnly(e) ==
    /\ e \in Paragraphs
    /\ Pop(e)
    /\ iRichText' =
         IF e = "p" /\ ~IsTableTop(Tail(iTags)) /\ ~IsNote /\ ~IsTrackedChanges
                    /\ ~IsAnnotation
         THEN Append(iRichText, "enter") ELSE iRichText
    /\ UNCHANGED <<iChange, temp, iNotes, crashed>>

\* text:p and text:h: the enter, except in cells, and for text:p in notes and
\* comments and deleted text.
EndParagraph(e) ==
    /\ e \in Paragraphs
    /\ Pop(e)
    /\ iRichText' =
         IF /\ ~IsTableTop(Tail(iTags))
            /\ e = "p" => ~IsNote /\ ~IsTrackedChanges /\ ~IsAnnotation
         THEN Append(iRichText, "enter") ELSE iRichText
    /\ UNCHANGED <<iChange, temp, iNotes, crashed>>

\* What the end of a row and of a cell put.
TableSeparator(e) == IF e = "table_cell" THEN <<"tab", "tab">> ELSE <<"enter">>

\* Ends that put characters: the line break, the row, and the cell with two.
EndCharacter(e) ==
    /\ e \in {"line_break", "table_row", "table_cell"}
    /\ Pop(e)
    /\ iRichText' = iRichText \o (IF e = "line_break" THEN <<"enter">> ELSE TableSeparator(e))
    /\ UNCHANGED <<iChange, temp, iNotes, crashed>>

\* text:note-citation: appends ") " to temp, which is NULL when the citation
\* was empty.
EndCitation ==
    /\ Pop("note_citation")
    /\ IF temp = <<>>
       THEN crashed' = TRUE /\ UNCHANGED temp
       ELSE temp' = Append(temp, "addition") /\ UNCHANGED crashed
    /\ UNCHANGED <<iChange, iRichText, iNotes>>

\* Mutant of EndNoteBody: temp is not reset.
EndNoteBodyKept ==
    /\ Pop("note_body")
    /\ IF temp = <<>>
       THEN crashed' = TRUE /\ UNCHANGED iNotes
       ELSE iNotes' = Append(iNotes, temp) /\ UNCHANGED crashed
    /\ UNCHANGED <<temp, iChange, iRichText>>

\* text:note-body: the note is trimmed, through temp, and complete.
EndNoteBody ==
    /\ Pop("note_body")
    /\ IF temp = <<>>
       THEN crashed' = TRUE /\ UNCHANGED <<iNotes, temp>>
       ELSE /\ iNotes' = Append(iNotes, temp)
            /\ temp' = <<>>
            /\ UNCHANGED crashed
    /\ UNCHANGED <<iChange, iRichText>>

EndChange ==
    /\ Pop("change_end")
    /\ iChange' = FALSE
    /\ UNCHANGED <<temp, iRichText, iNotes, crashed>>

EndOther(e) ==
    /\ e \notin Paragraphs \cup {"line_break", "table_row", "table_cell",
                                 "note_citation", "note_body", "change_end"}
    /\ Pop(e)
    /\ UNCHANGED <<iChange, temp, iRichText, iNotes, crashed>>

EndElement ==
    \/ \E e \in Elements : EndParagraph(e) \/ EndCharacter(e) \/ EndOther(e)
    \/ EndCitation
    \/ EndNoteBody
    \/ EndChange

Next == StartElement \/ CharacterData \/ EndElement

Spec == Init /\ [][Next]_vars

------------------------------------------------------------------------------
(* Properties.                                                                *)

\* The members of s that are of some kinds, in their order: SelectSeq, written
\* as a function the provers can unfold.
Only(kinds, s) ==
    LET kept[n \in 0..Len(s)] ==
          IF n = 0 THEN <<>>
          ELSE IF s[n] \in kinds THEN Append(kept[n - 1], s[n]) ELSE kept[n - 1]
    IN  kept[Len(s)]

Shown == Only(Text, iRichText)
EatenText == {e \in eaten : e[1] \in Text}

\* Type invariant.
TypeOK ==
    /\ iTags \in Seq(Names \ {"none"})
    /\ iChange \in BOOLEAN /\ crashed \in BOOLEAN
    /\ mixed \in BOOLEAN /\ cut \in BOOLEAN
    /\ temp \in Seq({"citation", "addition", "words"})
    /\ iRichText \in Seq(Chars)
    /\ iNotes \in Seq(Seq({"citation", "addition", "words"}))
    /\ style \in Styles \cup {NoStyle}
    /\ before \in Names
    /\ elements \in Nat /\ pieces \in Nat
    /\ eaten \subseteq (Chars \X {"cell", "box", "flow"})
    /\ due \in Seq(Places)

\* What the editor shows is what the document wants shown, in its order: the
\* routing by CTags (XML.cpp:1114) sends no text of a note, comment, footer or
\* deletion into the text, and none of the text elsewhere.
TextWhereWanted ==
    ~mixed /\ EatenText = {} => Shown = Only(Text, due)

\* A paragraph that takes the last character away (XML.cpp:907) takes text
\* only inside a table cell or a text box; in the flow of the text it never
\* does, whatever notes, lists, comments and headers come between.
TextEatenOnlyInCellsAndBoxes ==
    ~mixed => \A e \in eaten : e[1] \in Text => e[2] \in {"cell", "box"}

\* Between two paragraphs outside table cells the last character is no text:
\* two paragraphs never run together.
ParagraphsStaySeparate ==
    ~mixed /\ Open \cap (Paragraphs \cup {"table_cell"}) = {} /\ iRichText # <<>>
    => LastChar \notin Text

\* Each finished note is a citation, what was added to it, and its words; and
\* there are as many of them as links in the text lead to.
NotesComplete ==
    /\ \A i \in DOMAIN iNotes :
          /\ Len(iNotes[i]) >= 2
          /\ \A j \in DOMAIN iNotes[i] :
                iNotes[i][j] = IF j = 1 THEN "citation"
                               ELSE IF j = 2 THEN "addition" ELSE "words"
    /\ ~cut /\ EatenText = {} /\ ~crashed =>
          Len(Only({"link"}, iRichText)) =
              Len(iNotes) + (IF temp = <<>> THEN 0 ELSE 1)

\* A note under construction never outlives its element (`temp = NULL` at the
\* end of text:note-body): no words of one note get into the next.
NoStaleNote == temp # <<>> => "note" \in Open

\* Outside a repair of the document by the reader, text is shown where the
\* document has it, and every note is whole and has its link.
TextWherePromised == TypeOK /\ TextWhereWanted /\ NotesComplete
==============================================================================
