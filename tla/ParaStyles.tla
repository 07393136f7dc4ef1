----------------------------- MODULE ParaStyles -----------------------------
(* The styles of CPara (Engine/src/Para.cpp), as CTextXML declares and uses   *)
(* them (XML.cpp:706 and 894).                                                *)
(*                                                                            *)
(* CPara keeps the styles in parallel arrays: names and character formats of  *)
(* all, paragraph formats of the paragraph styles only, which are to come     *)
(* first.  Three positions say which style is filled in or in use.  Positions *)
(* count from 1 here; 0 is the -1 of the code.  A format is told by the style *)
(* whose declaration set it last; its mask goes with it.                      *)
EXTENDS Naturals, Sequences, SequencesExt

CONSTANTS
    ParaNames,      \* styles of the family paragraph
    TextNames,      \* styles of the family text; a name may be in both
    NoName,         \* the name of a default style, which has none
    NoParent,       \* no parent-style-name
    MaxDeclared,    \* bound: declarations of a document
    MaxParagraphs   \* bound: paragraphs of a document

Globals == ParaNames \cup {NoName}
StyleNames == Globals \cup TextNames

\* The marks for formats and for a missing parent are no styles.
ASSUME StyleConstants ==
    /\ MaxDeclared \in Nat /\ MaxParagraphs \in Nat
    /\ NoParent \notin StyleNames
    /\ {"reset", "fresh", "none"} \cap StyleNames = {}

VARIABLES
    iName,          \* the names
    iArrayFormat,   \* the character formats, one for each name
    iParaFormat,    \* the paragraph formats, for the first names
    iPos,           \* the style whose characters are formatted
    iPosGlobal,     \* the paragraph style
    iLast,          \* the last style
    panicked,       \* an index was out of range
    part,           \* environment: 1 and 3 declare, 2 and 4 are text
    declaring,      \* environment: the style being declared
    declared,       \* environment: how many declarations there were
    paragraphs,     \* environment: how many paragraphs there were
    paragraph,      \* environment: the style of the open paragraph
    spans,          \* environment: the styles of the open spans, innermost first
    want,           \* history: what the document wants of each style
    again,          \* history: a name was used again for another style
    orphan,         \* history: a parent came later, or between text styles
    moved,          \* history: the paragraph style changed after declarations
    lost            \* history: an inner span has ended in an outer one

cpara == <<iName, iArrayFormat, iParaFormat, iPos, iPosGlobal, iLast, panicked>>
document == <<part, declaring, declared, paragraphs, paragraph, spans>>
history == <<want, again, orphan, moved, lost>>
styleVars == <<cpara, document, history>>

------------------------------------------------------------------------------
\* CPara as a record, so that a handler can make several calls.
Now == [name |-> iName, char |-> iArrayFormat, par |-> iParaFormat,
        pos |-> iPos, global |-> iPosGlobal, last |-> iLast,
        panic |-> panicked]
Becomes(c) ==
    /\ iName' = c.name /\ iArrayFormat' = c.char /\ iParaFormat' = c.par
    /\ iPos' = c.pos /\ iPosGlobal' = c.global /\ iLast' = c.last
    /\ panicked' = c.panic

Panic(c) == [c EXCEPT !.panic = TRUE]

\* The first style of a name, or 0.
Exists(c, name) ==
    IF \E i \in DOMAIN c.name : c.name[i] = name
    THEN CHOOSE i \in DOMAIN c.name :
            c.name[i] = name /\ \A j \in 1..(i - 1) : c.name[j] # name
    ELSE 0

\* Sets defaults: characters at iPos, the paragraph at iPosGlobal.  A bullet
\* stays.
Initialise(c) ==
    IF c.pos \in DOMAIN c.char /\ c.global \in DOMAIN c.par
    THEN [c EXCEPT !.char[c.pos] = "reset", !.par[c.global].from = "reset"]
    ELSE Panic(c)

NewPara == [from |-> "fresh", bullet |-> FALSE]

\* Mutant of AddTextItem: a paragraph style always goes to the end.
AddTextItemAtEnd(c, init, name) ==
    LET added == [c EXCEPT !.name = Append(@, name), !.last = @ + 1,
                           !.char = Append(@, "fresh")]
    IN  IF Exists(c, name) # 0 THEN Initialise([c EXCEPT !.pos = Exists(c, name)])
        ELSE IF ~init THEN [added EXCEPT !.pos = c.last + 1]
        ELSE Initialise([added EXCEPT !.par = Append(@, NewPara),
                                      !.pos = c.last + 1, !.global = @ + 1])

\* A known style starts again.  A text style goes to the end, a paragraph
\* style behind the paragraph style in use.
AddTextItem(c, init, name) ==
    IF Exists(c, name) # 0 THEN Initialise([c EXCEPT !.pos = Exists(c, name)])
    ELSE IF ~init THEN
        [c EXCEPT !.name = Append(@, name), !.char = Append(@, "fresh"),
                  !.pos = c.last + 1, !.last = @ + 1]
    ELSE IF c.last = c.global THEN
        LET d == Initialise([c EXCEPT
                     !.name = Append(@, name), !.char = Append(@, "fresh"),
                     !.par = Append(@, NewPara),
                     !.pos = @ + 1, !.global = @ + 1])
        IN  [d EXCEPT !.last = @ + 1]
    ELSE IF c.global > Len(c.par) THEN Panic(c)
    ELSE
        LET at == c.global + 1
            d == Initialise([c EXCEPT
                     !.name = InsertAt(@, at, name),
                     !.char = InsertAt(@, at, "fresh"),
                     !.par = InsertAt(@, at, NewPara),
                     !.pos = at, !.global = at])
        IN  [d EXCEPT !.last = @ + 1]

\* Copies the formats of the parent.  Between text styles the positions are
\* taken for those of an array of text styles only.
SetParent(c, parent) ==
    LET i == Exists(c, parent)
        paras == Len(c.par)
    IN  IF i = 0 THEN c
        ELSE IF c.pos <= paras THEN
            IF i > paras THEN Panic(c)
            ELSE [c EXCEPT !.par[c.pos] = c.par[i], !.char[c.pos] = c.char[i]]
        ELSE IF i > paras + 1 THEN
            [c EXCEPT !.char[c.pos - paras] = c.char[i - paras]]
        ELSE [c EXCEPT !.char[c.pos] = c.char[i]]

------------------------------------------------------------------------------
\* ClearParas, before styles.xml is read.
StylesInit ==
    /\ iName = <<>> /\ iArrayFormat = <<>> /\ iParaFormat = <<>>
    /\ iPos = 0 /\ iPosGlobal = 0 /\ iLast = 0 /\ panicked = FALSE
    /\ part = 1 /\ declaring = NoParent /\ declared = 0 /\ paragraphs = 0
    /\ paragraph = NoParent /\ spans = <<>>
    /\ want = <<>>
    /\ again = FALSE /\ orphan = FALSE /\ moved = FALSE /\ lost = FALSE

IsDeclared(name) == name \in DOMAIN want
IsText(name) == want[name].par.from = "none"

\* style:style, style:default-style: the item, and its parent.
Declare(name, init, parent) ==
    /\ ~panicked /\ part \in {1, 3} /\ declared < MaxDeclared
    /\ name \in IF init THEN Globals ELSE TextNames
    /\ parent \in {NoParent} \cup IF init THEN ParaNames ELSE TextNames
    /\ parent # name /\ (name = NoName => parent = NoParent)
    /\ LET c == AddTextItem(Now, init, name)
       IN  IF parent = NoParent \/ c.panic THEN Becomes(c)
           ELSE Becomes(SetParent(c, parent))
    /\ declared' = declared + 1 /\ declaring' = name
    /\ again' = (again \/ (Exists(Now, name) \notin {0, iPosGlobal})
                       \/ (Exists(Now, name) # 0 /\ (iPos # iPosGlobal \/ ~init))
                       \/ (IsDeclared(parent) /\ IsText(parent) = init))
    /\ orphan' = (orphan \/ (parent # NoParent /\ ~(IsDeclared(parent) /\ init)))
    /\ LET new == [char |-> IF init THEN "reset" ELSE "fresh",
                   par |-> [from |-> IF init THEN "reset" ELSE "none",
                            bullet |-> IsDeclared(name) /\ want[name].par.bullet]]
       IN  want' = [n \in DOMAIN want \cup {name} |->
                      IF n # name THEN want[n]
                      ELSE IF parent # NoParent /\ IsDeclared(parent)
                      THEN want[parent] ELSE new]
    /\ moved' = FALSE
    /\ UNCHANGED <<part, paragraphs, paragraph, spans, lost>>

\* The setters of CPara: of characters at iPos, of paragraphs at iPosGlobal.
FormatChar(c, name) == [c EXCEPT !.char[c.pos] = name]
FormatPara(c, name) == [c EXCEPT !.par[c.global].from = name]

\* style:text-properties in the declaration.
TextProperties ==
    /\ ~panicked /\ part \in {1, 3} /\ declaring # NoParent
    /\ Becomes(FormatChar(Now, declaring))
    /\ want' = [want EXCEPT ![declaring].char = declaring]
    /\ UNCHANGED <<document, again, orphan, moved, lost>>

\* style:paragraph-properties in the declaration of a paragraph style.
ParagraphProperties ==
    /\ ~panicked /\ part \in {1, 3} /\ declaring \in Globals \ TextNames
    /\ Becomes(FormatPara(Now, declaring))
    /\ want' = [want EXCEPT ![declaring].par.from = declaring]
    /\ UNCHANGED <<document, again, orphan, moved, lost>>

\* From declarations to text: the headers of styles.xml, the body of
\* content.xml; and from styles.xml to the declarations of content.xml.
NextPart ==
    /\ ~panicked /\ part < 4 /\ paragraph = NoParent
    /\ part' = part + 1 /\ declaring' = NoParent
    /\ UNCHANGED <<cpara, declared, paragraphs, paragraph, spans, history>>

\* The style in use, unless it is the same paragraph style.
GetIndexByName(c, name, global) ==
    IF global /\ c.global = 0 THEN Panic(c)
    ELSE IF global /\ c.name[c.global] = name THEN c
    ELSE IF Exists(c, name) = 0 THEN c
    ELSE [c EXCEPT !.pos = Exists(c, name),
                   !.global = IF global THEN Exists(c, name) ELSE @]

\* The bullet of a paragraph in a list goes into its style.
SetBulletChar(c) ==
    IF c.panic THEN c
    ELSE IF c.global \notin DOMAIN c.par THEN Panic(c)
    ELSE [c EXCEPT !.par[c.global].bullet = TRUE]

\* text:p with a style, which the document has declared.
StartParagraph(name, inList) ==
    /\ ~panicked /\ part \in {2, 4} /\ paragraph = NoParent
    /\ paragraphs < MaxParagraphs
    /\ name \in ParaNames /\ IsDeclared(name) /\ ~IsText(name)
    /\ LET c == GetIndexByName(Now, name, TRUE)
       IN  /\ Becomes(IF inList THEN SetBulletChar(c) ELSE c)
           /\ moved' = (moved \/ iPosGlobal # c.global)
    /\ paragraphs' = paragraphs + 1 /\ paragraph' = name
    /\ want' = IF inList THEN [want EXCEPT ![name].par.bullet = TRUE] ELSE want
    /\ UNCHANGED <<part, declaring, declared, spans, again, orphan, lost>>

\* text:span with a style.
StartSpan(name) ==
    /\ ~panicked /\ paragraph # NoParent /\ Len(spans) < 2
    /\ name \in TextNames /\ IsDeclared(name) /\ IsText(name)
    /\ Becomes(GetIndexByName(Now, name, FALSE))
    /\ spans' = <<name>> \o spans /\ lost' = FALSE
    /\ UNCHANGED <<part, declaring, declared, paragraphs, paragraph, want,
                   again, orphan, moved>>

\* Mutant of EndSpan: the style of the span stays.
EndSpanKept ==
    /\ ~panicked /\ spans # <<>>
    /\ spans' = Tail(spans) /\ lost' = (Len(spans) > 1)
    /\ UNCHANGED <<cpara, part, declaring, declared, paragraphs, paragraph,
                   want, again, orphan, moved>>

\* The end of any span: SetPosToGlobal.
EndSpan ==
    /\ ~panicked /\ spans # <<>>
    /\ Becomes([Now EXCEPT !.pos = iPosGlobal])
    /\ spans' = Tail(spans) /\ lost' = (Len(spans) > 1)
    /\ UNCHANGED <<part, declaring, declared, paragraphs, paragraph, want,
                   again, orphan, moved>>

EndParagraph ==
    /\ ~panicked /\ paragraph # NoParent /\ spans = <<>>
    /\ paragraph' = NoParent
    /\ UNCHANGED <<cpara, part, declaring, declared, paragraphs, spans, history>>

\* COpenDocument::AddTextL: the formats it applies to a text, and the step,
\* which changes the text only (TextXML) when there are styles.
Applied == [par |-> iParaFormat[iPosGlobal], char |-> iArrayFormat[iPos]]
AddTextL ==
    /\ ~panicked /\ paragraph # NoParent
    /\ panicked' = (iPosGlobal # 0 /\ iPosGlobal \notin DOMAIN iParaFormat)
    /\ UNCHANGED <<iName, iArrayFormat, iParaFormat, iPos, iPosGlobal, iLast,
                   document, want, again, orphan, moved, lost>>

StylesNext ==
    \/ \E name \in StyleNames, init \in BOOLEAN,
          parent \in StyleNames \cup {NoParent} : Declare(name, init, parent)
    \/ TextProperties \/ ParagraphProperties \/ NextPart
    \/ \E name \in ParaNames, inList \in BOOLEAN : StartParagraph(name, inList)
    \/ \E name \in TextNames : StartSpan(name)
    \/ EndSpan \/ EndParagraph \/ AddTextL

StylesSpec == StylesInit /\ [][StylesNext]_styleVars

------------------------------------------------------------------------------
(* Properties.                                                                *)

Formats == StyleNames \cup {"reset", "fresh", "none"}
ParaFormats == [from : Formats, bullet : BOOLEAN]

\* Type invariant.
StylesTypeOK ==
    /\ iName \in Seq(StyleNames) /\ iArrayFormat \in Seq(Formats)
    /\ iParaFormat \in Seq(ParaFormats)
    /\ iPos \in Nat /\ iPosGlobal \in Nat /\ iLast \in Nat
    /\ panicked \in BOOLEAN
    /\ part \in 1..4 /\ declaring \in StyleNames \cup {NoParent}
    /\ declared \in 0..MaxDeclared /\ paragraphs \in 0..MaxParagraphs
    /\ paragraph \in ParaNames \cup {NoParent} /\ spans \in Seq(TextNames)
    /\ {again, orphan, moved, lost} \subseteq BOOLEAN

\* The arrays stay parallel, and the positions inside them.
ArraysAligned ==
    ~panicked =>
        /\ Len(iName) = iLast /\ Len(iArrayFormat) = iLast
        /\ Len(iParaFormat) <= iLast
        /\ iPos \in 0..iLast /\ iPosGlobal \in 0..iLast
        /\ iPosGlobal = 0 <=> iParaFormat = <<>>

\* "Insert at the correct position, so all globals are first" (Para.cpp:240):
\* the styles with a paragraph format are the paragraph styles, wherever the
\* text has left iPosGlobal before the next declaration.
GlobalsFirst ==
    ~panicked /\ ~again =>
        \A i \in 1..Len(iName) :
            i <= Len(iParaFormat) <=> ~IsText(iName[i])

\* Declarations and uses in any order never index outside the arrays.
NeverOutOfRange == ~again => ~panicked

\* Every style keeps the formats its declaration and its parent give it, though
\* later declarations move it.
FormatsKept ==
    ~panicked /\ ~again /\ ~orphan =>
        \A i \in 1..Len(iName) :
            /\ iArrayFormat[i] = want[iName[i]].char
            /\ i <= Len(iParaFormat) => iParaFormat[i] = want[iName[i]].par

\* Text is shown in its paragraph's style and its innermost span's, once the
\* paragraph style has changed since the last declaration.
ShownAsDeclared ==
    ~panicked /\ ~again /\ ~orphan /\ moved /\ ~lost /\ paragraph # NoParent =>
        Applied = [par |-> want[paragraph].par,
                   char |-> want[IF spans = <<>> THEN paragraph
                                 ELSE Head(spans)].char]

\* The arrays of styles stay aligned through every order of declarations and uses.
StylesAligned == StylesTypeOK /\ ArraysAligned /\ GlobalsFirst /\ NeverOutOfRange

\* What was declared of a style is kept, and it is what its text is shown in.
StylesShown == FormatsKept /\ ShownAsDeclared
==============================================================================
