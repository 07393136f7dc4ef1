----------------------------- MODULE TextXMLProof -----------------------------
(* Theorems about TextXML, for documents of every size and nesting.           *)
EXTENDS TextXML, SequenceTheorems, WellFoundedInduction, TLAPS

Tags == Names \ {"none"}
TopOf(s) == IF s = <<>> THEN "none" ELSE s[1]
OpenIn(s) == {s[i] : i \in 1..Len(s)}

\* Elements that stand in a paragraph, and those among them in which no other
\* paragraph can start.
InParagraph == {"span", "note", "note_citation", "note_body", "annotation"}
Plain == {"span", "note", "note_citation", "tab", "s", "line_break",
          "change_start", "change_end"}

\* What the nesting of the elements says of a stack: each stands in its parent.
Nested(s) == \A i \in 1..Len(s) :
    s[i] \in Inside[IF i = Len(s) THEN "none" ELSE s[i + 1]]

\* Text elements have a paragraph around them.
HasParagraph(s) == \A i \in 1..Len(s) :
    s[i] \in InParagraph => \E j \in (i + 1)..Len(s) : s[j] \in Paragraphs

\* Between a paragraph and what stands in it there are only plain elements, or
\* one of those in which a paragraph may start again.
Breaks == {"note_body", "annotation", "text_box"}
OnlyPlain(s) == \A i \in 1..Len(s), k \in 1..Len(s) :
    k < i /\ s[i] \in Paragraphs /\ (\A j \in k..(i - 1) : s[j] \notin Breaks)
    => s[k] \in Plain

\* Notes do not nest.
OneNote(s) == \A i \in 1..Len(s), k \in 1..Len(s) :
    k < i /\ s[i] = "note_body" => s[k] \notin {"note", "note_citation"}

Good(s) == Nested(s) /\ HasParagraph(s) /\ OnlyPlain(s) /\ OneNote(s)

------------------------------------------------------------------------------
\* The names of the elements, one by one.
LEMMA NamesListed ==
  Names = {"none", "p", "h", "span", "note", "note_citation", "note_body",
           "annotation", "text_box", "list", "list_item", "table_row",
           "table_cell", "tracked_changes", "header", "footer", "page", "tab",
           "s", "line_break", "change_start", "change_end"}
BY DEF Names, Inside

\* Which parents an element may have.
LEMMA Parents ==
  ASSUME NEW x \in Names, NEW e \in Inside[x]
  PROVE  /\ e \in Tags
         /\ e \in {"span", "note", "annotation"} => x \in {"p", "h", "span"}
         /\ e \in {"note_citation", "note_body"} => x = "note"
         /\ x \in Plain \cup Paragraphs => e \in Plain \cup Breaks
         /\ e \in Paragraphs =>
               x \in {"none", "list_item", "table_cell", "tracked_changes",
                      "header", "footer"} \cup Breaks
         /\ e \in {"tracked_changes", "header", "footer"} => x = "none"
<1> USE NamesListed DEF Tags, Plain, Paragraphs, Breaks, Body, Inline
<1>1. CASE x \in {"none", "p", "h", "span", "note"}
  <2>1. /\ Inside["none"] = Body \cup {"header", "footer"}
        /\ Inside["p"] = Inline /\ Inside["h"] = Inline
        /\ Inside["span"] = Inline
        /\ Inside["note"] = {"note_citation", "note_body"}
    BY DEF Inside
  <2>2. QED  BY <1>1, <2>1
<1>2. CASE x \in {"note_body", "annotation", "text_box", "list", "list_item"}
  <2>1. /\ Inside["note_body"] = {"p", "h"} /\ Inside["annotation"] = {"p"}
        /\ Inside["text_box"] = {"p"} /\ Inside["list"] = {"list_item"}
        /\ Inside["list_item"] = {"p", "h", "list"}
    BY DEF Inside
  <2>2. QED  BY <1>2, <2>1
<1>3. CASE x \in {"table_row", "table_cell", "tracked_changes", "header",
                  "footer", "page"}
  <2>1. /\ Inside["table_row"] = {"table_cell"}
        /\ Inside["table_cell"] = {"p", "h", "list"}
        /\ Inside["tracked_changes"] = {"p"} /\ Inside["header"] = {"p"}
        /\ Inside["footer"] = {"p"} /\ Inside["page"] = {"text_box"}
    BY DEF Inside
  <2>2. QED  BY <1>3, <2>1
<1>4. CASE x \in {"note_citation", "tab", "s", "line_break", "change_start",
                  "change_end"}
  <2>1. /\ Inside["note_citation"] = {} /\ Inside["tab"] = {}
        /\ Inside["s"] = {} /\ Inside["line_break"] = {}
        /\ Inside["change_start"] = {} /\ Inside["change_end"] = {}
    BY DEF Inside
  <2>2. QED  BY <1>4, <2>1
<1>5. QED  BY <1>1, <1>2, <1>3, <1>4

\* The stack after a push, member by member.
LEMMA PushMembers ==
  ASSUME NEW s \in Seq(Tags), NEW e \in Tags
  PROVE  /\ <<e>> \o s \in Seq(Tags)
         /\ Len(<<e>> \o s) = Len(s) + 1
         /\ (<<e>> \o s)[1] = e
         /\ \A i \in 2..(Len(s) + 1) : (<<e>> \o s)[i] = s[i - 1]
OBVIOUS

\* The stack after a pop, member by member.
LEMMA PopMembers ==
  ASSUME NEW s \in Seq(Tags), s # <<>>
  PROVE  /\ Tail(s) \in Seq(Tags)
         /\ Len(Tail(s)) = Len(s) - 1
         /\ \A i \in 1..(Len(s) - 1) : Tail(s)[i] = s[i + 1]
         /\ OpenIn(s) = OpenIn(Tail(s)) \cup {s[1]}
<1>1. /\ Tail(s) \in Seq(Tags)
      /\ Len(Tail(s)) = Len(s) - 1
      /\ \A i \in 1..(Len(s) - 1) : Tail(s)[i] = s[i + 1]
      /\ Len(s) \in Nat \ {0}
  OBVIOUS
<1>2. ASSUME NEW x \in OpenIn(s) PROVE x = s[1] \/ x \in OpenIn(Tail(s))
  <2>1. PICK i \in 1..Len(s) : x = s[i]  BY DEF OpenIn
  <2>2. CASE i = 1  BY <2>1, <2>2
  <2>3. CASE i # 1
    <3>1. i - 1 \in 1..(Len(s) - 1) /\ Tail(s)[i - 1] = s[i]  BY <1>1, <2>3
    <3>2. QED  BY <1>1, <2>1, <3>1 DEF OpenIn
  <2>4. QED  BY <2>2, <2>3
<1>3. ASSUME NEW x \in OpenIn(Tail(s)) PROVE x \in OpenIn(s)
  <2>1. PICK i \in 1..Len(Tail(s)) : x = Tail(s)[i]  BY DEF OpenIn
  <2>2. i + 1 \in 1..Len(s) /\ s[i + 1] = x  BY <1>1, <2>1
  <2>3. QED  BY <2>2 DEF OpenIn
<1>4. s[1] \in OpenIn(s)  BY <1>1 DEF OpenIn
<1>5. QED  BY <1>1, <1>2, <1>3, <1>4

\* A push that the nesting allows keeps the stack good.
LEMMA GoodPush ==
  ASSUME NEW s \in Seq(Tags), Good(s), NEW e \in Inside[TopOf(s)],
         e = "note" => "note_body" \notin OpenIn(s)
  PROVE  Good(<<e>> \o s)
<1> DEFINE t == <<e>> \o s
<1>0. TopOf(s) \in Names
  BY NamesListed DEF TopOf, Tags
<1> e \in Tags  BY <1>0, Parents
<1>1. /\ t \in Seq(Tags) /\ Len(t) = Len(s) + 1 /\ Len(s) \in Nat
      /\ t[1] = e
      /\ \A i \in 2..(Len(s) + 1) : t[i] = s[i - 1]
  BY <1>0, PushMembers
<1> HIDE DEF t
<1>2. Nested(t)
  <2> SUFFICES ASSUME NEW i \in 1..Len(t)
               PROVE  t[i] \in Inside[IF i = Len(t) THEN "none" ELSE t[i + 1]]
    BY DEF Nested
  <2>1. CASE i = 1
    <3>1. CASE s = <<>>  BY <1>1, <2>1, <3>1 DEF TopOf
    <3>2. CASE s # <<>>
      <4>1. Len(s) >= 1 /\ t[2] = s[1] /\ i # Len(t)  BY <1>1, <2>1, <3>2
      <4>2. QED  BY <1>1, <2>1, <3>2, <4>1 DEF TopOf
    <3>3. QED  BY <3>1, <3>2
  <2>2. CASE i # 1
    <3>1. i - 1 \in 1..Len(s) /\ t[i] = s[i - 1]  BY <1>1, <2>2
    <3>2. CASE i = Len(t)  BY <1>1, <3>1, <3>2 DEF Good, Nested
    <3>3. CASE i # Len(t)
      <4>1. i + 1 \in 2..(Len(s) + 1)  BY <1>1, <3>3
      <4>2. t[i + 1] = s[(i - 1) + 1] /\ i - 1 # Len(s)  BY <1>1, <3>3, <4>1
      <4>3. QED  BY <3>1, <3>3, <4>2 DEF Good, Nested
    <3>4. QED  BY <3>2, <3>3
  <2>3. QED  BY <2>1, <2>2
<1>3. HasParagraph(t)
  <2> SUFFICES ASSUME NEW i \in 1..Len(t), t[i] \in InParagraph
               PROVE  \E j \in (i + 1)..Len(t) : t[j] \in Paragraphs
    BY DEF HasParagraph
  <2>1. CASE i = 1
    <3>1. TopOf(s) \in Paragraphs \cup {"span", "note"}
      BY <1>0, <1>1, <2>1, Parents DEF InParagraph, Paragraphs
    <3>2. s # <<>> /\ s[1] = TopOf(s) /\ Len(s) >= 1
      BY <3>1 DEF TopOf, Paragraphs
    <3>3. CASE s[1] \in Paragraphs
      <4>1. 2 \in (i + 1)..Len(t) /\ t[2] = s[1]  BY <1>1, <2>1, <3>2
      <4>2. QED  BY <3>3, <4>1
    <3>4. CASE s[1] \notin Paragraphs
      <4>1. PICK j \in 2..Len(s) : s[j] \in Paragraphs
        BY <3>1, <3>2, <3>4 DEF Good, HasParagraph, InParagraph
      <4>2. j + 1 \in (i + 1)..Len(t) /\ t[j + 1] = s[j]  BY <1>1, <2>1, <4>1
      <4>3. QED  BY <4>1, <4>2
    <3>5. QED  BY <3>3, <3>4
  <2>2. CASE i # 1
    <3>1. i - 1 \in 1..Len(s) /\ t[i] = s[i - 1]  BY <1>1, <2>2
    <3>2. PICK j \in i..Len(s) : s[j] \in Paragraphs
      BY <3>1 DEF Good, HasParagraph
    <3>3. j + 1 \in (i + 1)..Len(t) /\ t[j + 1] = s[j]  BY <1>1, <3>1, <3>2
    <3>4. QED  BY <3>2, <3>3
  <2>3. QED  BY <2>1, <2>2
<1>4. OnlyPlain(t)
  <2> SUFFICES ASSUME NEW i \in 1..Len(t), NEW k \in 1..Len(t), k < i,
                      t[i] \in Paragraphs,
                      \A j \in k..(i - 1) : t[j] \notin Breaks
               PROVE  t[k] \in Plain
    BY DEF OnlyPlain
  <2>1. i - 1 \in 1..Len(s) /\ s[i - 1] \in Paragraphs  BY <1>1
  <2>2. \A m \in 1..Len(s) : m < i - 1 /\ m + 1 >= k => s[m] \in Plain
    <3> SUFFICES ASSUME NEW m \in 1..Len(s), m < i - 1, m + 1 >= k
                 PROVE  s[m] \in Plain
      OBVIOUS
    <3>1. ASSUME NEW j \in m..(i - 2) PROVE s[j] \notin Breaks
      <4>1. j + 1 \in k..(i - 1) /\ t[j + 1] = s[j]  BY <1>1, SMTT(30)
      <4>2. QED  BY <4>1
    <3>2. QED  BY <2>1, <3>1 DEF Good, OnlyPlain
  <2>3. CASE k = 1
    <3>1. e \notin Breaks  BY <1>1, <2>1, <2>3
    <3>2. s # <<>> /\ TopOf(s) = s[1] /\ Len(s) >= 1  BY <2>1 DEF TopOf
    <3>3. s[1] \in Plain \cup Paragraphs
      <4>1. CASE i - 1 = 1  BY <2>1, <4>1
      <4>2. CASE i - 1 # 1  BY <2>1, <2>2, <2>3, <3>2, <4>2
      <4>3. QED  BY <4>1, <4>2
    <3>4. e \in Plain  BY <1>0, <3>1, <3>2, <3>3, Parents
    <3>5. QED  BY <1>1, <2>3, <3>4
  <2>4. CASE k # 1
    <3>1. k - 1 \in 1..Len(s) /\ k - 1 < i - 1 /\ t[k] = s[k - 1]  BY <1>1, <2>4
    <3>2. QED  BY <2>2, <3>1
  <2>5. QED  BY <2>3, <2>4
<1>5. OneNote(t)
  <2> SUFFICES ASSUME NEW i \in 1..Len(t), NEW k \in 1..Len(t), k < i,
                      t[i] = "note_body"
               PROVE  t[k] \notin {"note", "note_citation"}
    BY DEF OneNote
  <2>1. i - 1 \in 1..Len(s) /\ s[i - 1] = "note_body"  BY <1>1
  <2>2. CASE k = 1
    <3>1. e # "note"  BY <2>1 DEF OpenIn
    <3>2. ASSUME e = "note_citation" PROVE FALSE
      <4>1. TopOf(s) = "note"  BY <1>0, <3>2, Parents
      <4>2. s[1] = "note" /\ i - 1 # 1 /\ 1 \in 1..Len(s)  BY <2>1, <4>1 DEF TopOf
      <4>3. QED  BY <2>1, <4>2 DEF Good, OneNote
    <3>3. QED  BY <1>1, <2>2, <3>1, <3>2
  <2>3. CASE k # 1
    <3>1. k - 1 \in 1..Len(s) /\ k - 1 < i - 1 /\ t[k] = s[k - 1]  BY <1>1, <2>3
    <3>2. QED  BY <2>1, <3>1 DEF Good, OneNote
  <2>4. QED  BY <2>2, <2>3
<1>6. QED  BY <1>2, <1>3, <1>4, <1>5 DEF Good, t

\* So does every pop.
LEMMA GoodPop ==
  ASSUME NEW s \in Seq(Tags), s # <<>>, Good(s)
  PROVE  Good(Tail(s))
<1> DEFINE t == Tail(s)
<1>1. /\ t \in Seq(Tags) /\ Len(t) = Len(s) - 1 /\ Len(t) \in Nat
      /\ Len(s) \in Nat
      /\ \A i \in 1..Len(t) : t[i] = s[i + 1] /\ i + 1 \in 1..Len(s)
  BY PopMembers
<1> HIDE DEF t
<1>2. Nested(t)
  <2> SUFFICES ASSUME NEW i \in 1..Len(t)
               PROVE  t[i] \in Inside[IF i = Len(t) THEN "none" ELSE t[i + 1]]
    BY DEF Nested
  <2>1. t[i] = s[i + 1] /\ i + 1 \in 1..Len(s)  BY <1>1
  <2>2. CASE i = Len(t)  BY <1>1, <2>1, <2>2 DEF Good, Nested
  <2>3. CASE i # Len(t)
    <3>1. i + 1 \in 1..Len(t) /\ i + 1 # Len(s)  BY <1>1, <2>3
    <3>2. t[i + 1] = s[(i + 1) + 1]  BY <1>1, <3>1
    <3>3. QED  BY <2>1, <2>3, <3>1, <3>2 DEF Good, Nested
  <2>4. QED  BY <2>2, <2>3
<1>3. HasParagraph(t)
  <2> SUFFICES ASSUME NEW i \in 1..Len(t), t[i] \in InParagraph
               PROVE  \E j \in (i + 1)..Len(t) : t[j] \in Paragraphs
    BY DEF HasParagraph
  <2>0. i + 1 \in 1..Len(s) /\ s[i + 1] \in InParagraph  BY <1>1
  <2>1. PICK j \in ((i + 1) + 1)..Len(s) : s[j] \in Paragraphs
    BY <2>0 DEF Good, HasParagraph
  <2>2. j - 1 \in (i + 1)..Len(t) /\ t[j - 1] = s[j]  BY <1>1, <2>1
  <2>3. QED  BY <2>1, <2>2
<1>4. OnlyPlain(t)
  <2> SUFFICES ASSUME NEW i \in 1..Len(t), NEW k \in 1..Len(t), k < i,
                      t[i] \in Paragraphs,
                      \A j \in k..(i - 1) : t[j] \notin Breaks
               PROVE  t[k] \in Plain
    BY DEF OnlyPlain
  <2>1. ASSUME NEW j \in (k + 1)..((i + 1) - 1) PROVE s[j] \notin Breaks
    <3>1. j - 1 \in k..(i - 1) /\ t[j - 1] = s[j]  BY <1>1
    <3>2. QED  BY <3>1
  <2>2. s[i + 1] \in Paragraphs /\ i + 1 \in 1..Len(s) /\ k + 1 \in 1..Len(s)
        /\ k + 1 < i + 1 /\ t[k] = s[k + 1]
    BY <1>1
  <2>3. QED  BY <2>1, <2>2 DEF Good, OnlyPlain
<1>5. OneNote(t)
  <2> SUFFICES ASSUME NEW i \in 1..Len(t), NEW k \in 1..Len(t), k < i,
                      t[i] = "note_body"
               PROVE  t[k] \notin {"note", "note_citation"}
    BY DEF OneNote
  <2>1. /\ s[i + 1] = "note_body" /\ i + 1 \in 1..Len(s)
        /\ k + 1 \in 1..Len(s) /\ k + 1 < i + 1 /\ t[k] = s[k + 1]
    BY <1>1
  <2>2. QED  BY <2>1 DEF Good, OneNote
<1>6. QED  BY <1>2, <1>3, <1>4, <1>5 DEF Good, t

------------------------------------------------------------------------------
(* The inductive invariant.                                                   *)

Shape(n) ==
    /\ Len(n) >= 2
    /\ \A j \in 1..Len(n) :
          n[j] = IF j = 1 THEN "citation"
                 ELSE IF j = 2 THEN "addition" ELSE "words"

\* Deleted text puts nothing that is text at the end.
DeletionsSilent ==
    ~mixed /\ "tracked_changes" \in OpenIn(iTags) /\ iRichText # <<>>
    => LastChar \notin Text

\* How far the note under construction is.
NoteInv ==
    /\ NoStaleNote
    /\ \A i \in 1..Len(iNotes) : Shape(iNotes[i])
    /\ ~crashed =>
         /\ TopOf(iTags) = "note" /\ before = "none" => temp = <<>>
         /\ TopOf(iTags) = "note_citation" => temp \in {<<>>, <<"citation">>}
         /\ TopOf(iTags) = "note" /\ before = "note_citation" => Shape(temp)
         /\ "note_body" \in OpenIn(iTags) => Shape(temp)
         /\ TopOf(iTags) = "note" /\ before = "note_body" => temp = <<>>

TextInv == ParagraphsStaySeparate /\ DeletionsSilent
           /\ TextEatenOnlyInCellsAndBoxes

IInv == TypeOK /\ Good(iTags) /\ TextInv /\ NoteInv

------------------------------------------------------------------------------
\* What is open is what is on the stack of the reader.
LEMMA OpenIsOpenIn == iTags \in Seq(Tags) => Open = OpenIn(iTags)
BY DEF Open, OpenIn

\* The innermost open element is the top of that stack.
LEMMA TopIsTopOf == iTags \in Seq(Tags) => Top = TopOf(iTags)
BY DEF Top, TopOf

\* What a push opens.
LEMMA OpenPush ==
  ASSUME NEW s \in Seq(Tags), NEW e \in Tags
  PROVE  OpenIn(<<e>> \o s) = OpenIn(s) \cup {e} /\ TopOf(<<e>> \o s) = e
<1> DEFINE t == <<e>> \o s
<1>1. /\ Len(t) = Len(s) + 1 /\ t[1] = e /\ Len(s) \in Nat /\ t \in Seq(Tags)
      /\ \A i \in 2..(Len(s) + 1) : t[i] = s[i - 1]
  BY PushMembers
<1> HIDE DEF t
<1>2. t # <<>>  BY <1>1
<1>3. ASSUME NEW x \in OpenIn(t) PROVE x \in OpenIn(s) \cup {e}
  <2>1. PICK i \in 1..Len(t) : x = t[i]  BY DEF OpenIn
  <2>2. CASE i = 1  BY <1>1, <2>1, <2>2
  <2>3. CASE i # 1
    <3>1. i - 1 \in 1..Len(s) /\ t[i] = s[i - 1]  BY <1>1, <2>3
    <3>2. QED  BY <2>1, <3>1 DEF OpenIn
  <2>4. QED  BY <2>2, <2>3
<1>4. ASSUME NEW x \in OpenIn(s) PROVE x \in OpenIn(t)
  <2>1. PICK i \in 1..Len(s) : x = s[i]  BY DEF OpenIn
  <2>2. i + 1 \in 1..Len(t) /\ t[i + 1] = s[i]  BY <1>1
  <2>3. QED  BY <2>1, <2>2 DEF OpenIn
<1>5. e \in OpenIn(t)  BY <1>1 DEF OpenIn
<1>6. TopOf(t) = e  BY <1>1, <1>2 DEF TopOf
<1>7. QED  BY <1>3, <1>4, <1>5, <1>6 DEF t

\* The elements of a good stack: what stands around what.
LEMMA StackFacts ==
  ASSUME NEW s \in Seq(Tags), Good(s)
  PROVE  /\ OpenIn(s) \cap InParagraph # {} => OpenIn(s) \cap Paragraphs # {}
         /\ "note_body" \in OpenIn(s) => "note" \in OpenIn(s)
         /\ TopOf(s) = "note_citation" =>
               "note" \in OpenIn(s) /\ "note_body" \notin OpenIn(s)
         /\ "note" \in OpenIn(s) =>
               \/ "note_body" \in OpenIn(s)
               \/ TopOf(s) \in {"note", "note_citation"}
         /\ s # <<>> => TopOf(s) \in OpenIn(s)
         /\ OpenIn(s) \cap Paragraphs # {} /\ OpenIn(s) \cap Breaks = {} =>
               TopOf(s) \in Plain \cup Paragraphs
<1>0. Len(s) \in Nat  OBVIOUS
<1> USE DEF OpenIn
<1>1. OpenIn(s) \cap InParagraph # {} => OpenIn(s) \cap Paragraphs # {}
  <2> SUFFICES ASSUME NEW i \in 1..Len(s), s[i] \in InParagraph
               PROVE  \E j \in 1..Len(s) : s[j] \in Paragraphs
    OBVIOUS
  <2>1. PICK j \in (i + 1)..Len(s) : s[j] \in Paragraphs
    BY DEF Good, HasParagraph
  <2>2. j \in 1..Len(s)  BY <1>0, <2>1
  <2>3. QED  BY <2>1, <2>2
\* A note has a child, unless it is the top.
<1>2. ASSUME NEW i \in 1..Len(s)
      PROVE  /\ s[i] \in {"note_body", "note_citation"} =>
                   i < Len(s) /\ s[i + 1] = "note"
             /\ i > 1 => s[i - 1] \in Inside[s[i]]
  <2>1. s[i] \in Tags /\ (i # Len(s) => s[i + 1] \in Tags)  OBVIOUS
  <2>2. s[i] \in Inside[IF i = Len(s) THEN "none" ELSE s[i + 1]]
    BY DEF Good, Nested
  <2>3. s[i] \in {"note_body", "note_citation"} => i < Len(s) /\ s[i + 1] = "note"
    <3> SUFFICES ASSUME s[i] \in {"note_body", "note_citation"}
                 PROVE  i < Len(s) /\ s[i + 1] = "note"
      OBVIOUS
    <3>1. CASE i = Len(s)
      <4>1. "none" \in Names /\ s[i] \in Inside["none"]
        BY <2>2, <3>1, NamesListed
      <4>2. QED  BY <4>1, Parents
    <3>2. CASE i # Len(s)
      <4>1. s[i + 1] \in Names /\ s[i] \in Inside[s[i + 1]]
        BY <2>1, <2>2, <3>2 DEF Tags
      <4>2. QED  BY <1>0, <3>2, <4>1, Parents
    <3>3. QED  BY <3>1, <3>2
  <2>4. i > 1 => s[i - 1] \in Inside[s[i]]
    <3> SUFFICES ASSUME i > 1 PROVE s[i - 1] \in Inside[s[i]]
      OBVIOUS
    <3>1. i - 1 \in 1..Len(s) /\ i - 1 # Len(s) /\ (i - 1) + 1 = i  BY <1>0
    <3>2. QED  BY <3>1 DEF Good, Nested
  <2>5. QED  BY <2>3, <2>4
<1>3. "note_body" \in OpenIn(s) => "note" \in OpenIn(s)
  <2> SUFFICES ASSUME NEW i \in 1..Len(s), s[i] = "note_body"
               PROVE  "note" \in OpenIn(s)
    OBVIOUS
  <2>1. i + 1 \in 1..Len(s) /\ s[i + 1] = "note"  BY <1>0, <1>2
  <2>2. QED  BY <2>1
<1>4. TopOf(s) = "note_citation" =>
        "note" \in OpenIn(s) /\ "note_body" \notin OpenIn(s)
  <2> SUFFICES ASSUME TopOf(s) = "note_citation"
               PROVE  "note" \in OpenIn(s) /\ "note_body" \notin OpenIn(s)
    OBVIOUS
  <2>1. s # <<>> /\ s[1] = "note_citation" /\ 1 \in 1..Len(s)
    BY <1>0 DEF TopOf
  <2>2. 2 \in 1..Len(s) /\ s[2] = "note"  BY <1>0, <1>2, <2>1
  <2>3. ASSUME NEW i \in 1..Len(s), s[i] = "note_body" PROVE FALSE
    <3>1. 1 < i  BY <2>1, <2>3
    <3>2. QED  BY <2>1, <2>3, <3>1 DEF Good, OneNote
  <2>4. QED  BY <2>2, <2>3
<1>5. "note" \in OpenIn(s) =>
        "note_body" \in OpenIn(s) \/ TopOf(s) \in {"note", "note_citation"}
  <2> SUFFICES ASSUME NEW i \in 1..Len(s), s[i] = "note"
               PROVE  "note_body" \in OpenIn(s)
                      \/ TopOf(s) \in {"note", "note_citation"}
    OBVIOUS
  <2>1. s # <<>> /\ TopOf(s) = s[1]  BY <1>0 DEF TopOf
  <2>2. CASE i = 1  BY <2>1, <2>2
  <2>3. CASE i # 1
    <3>1. i - 1 \in 1..Len(s) /\ s[i - 1] \in {"note_citation", "note_body"}
      <4>1. Inside["note"] = {"note_citation", "note_body"}  BY DEF Inside
      <4>2. QED  BY <1>0, <1>2, <2>3, <4>1
    <3>2. CASE s[i - 1] = "note_body"  BY <3>1, <3>2
    <3>3. CASE s[i - 1] = "note_citation"
      <4>1. Inside["note_citation"] = {}  BY DEF Inside
      <4>2. i - 1 = 1  BY <1>0, <1>2, <3>1, <3>3, <4>1
      <4>3. QED  BY <2>1, <3>3, <4>2
    <3>4. QED  BY <3>1, <3>2, <3>3
  <2>4. QED  BY <2>2, <2>3
<1>6. s # <<>> => TopOf(s) \in OpenIn(s)
  <2>1. s # <<>> => 1 \in 1..Len(s)  BY <1>0
  <2>2. QED  BY <2>1 DEF TopOf
<1>7. OpenIn(s) \cap Paragraphs # {} /\ OpenIn(s) \cap Breaks = {} =>
        TopOf(s) \in Plain \cup Paragraphs
  <2> SUFFICES ASSUME NEW i \in 1..Len(s), s[i] \in Paragraphs,
                      \A j \in 1..Len(s) : s[j] \notin Breaks
               PROVE  TopOf(s) \in Plain \cup Paragraphs
    OBVIOUS
  <2>1. s # <<>> /\ TopOf(s) = s[1] /\ 1 \in 1..Len(s)  BY <1>0 DEF TopOf
  <2>2. CASE i = 1  BY <2>1, <2>2
  <2>3. CASE i # 1
    <3>1. \A j \in 1..(i - 1) : s[j] \notin Breaks  BY <1>0
    <3>2. QED  BY <2>1, <2>3, <3>1 DEF Good, OnlyPlain
  <2>4. QED  BY <2>2, <2>3
<1>8. QED  BY <1>1, <1>3, <1>4, <1>5, <1>6, <1>7

------------------------------------------------------------------------------
(* What every push and every pop does to the stack.                           *)

\* The start of an element puts it into a parent it may stand in.
LEMMA PushStep ==
  ASSUME TypeOK, Good(iTags), NEW e, Push(e), e = "note" => ~IsNote
  PROVE  /\ iTags \in Seq(Tags) /\ iTags' \in Seq(Tags) /\ Good(iTags')
         /\ e \in Tags /\ TopOf(iTags) \in Names
         /\ e \in Inside[TopOf(iTags)]
         /\ OpenIn(iTags') = OpenIn(iTags) \cup {e} /\ TopOf(iTags') = e
         /\ Open = OpenIn(iTags) /\ Open' = OpenIn(iTags')
         /\ ~crashed /\ ~crashed' /\ before' = "none" /\ mixed' = mixed
<1>1. iTags \in Seq(Tags)  BY DEF TypeOK, Tags
<1>2. TopOf(iTags) \in Names  BY <1>1, NamesListed DEF TopOf, Tags
<1>3. e \in Inside[TopOf(iTags)]  BY <1>1, TopIsTopOf DEF Push
<1>4. e \in Tags  BY <1>2, <1>3, Parents
<1>5. iTags' = <<e>> \o iTags  BY DEF Push
<1>6. iTags' \in Seq(Tags)  BY <1>1, <1>4, <1>5
<1>7. Open = OpenIn(iTags) /\ Open' = OpenIn(iTags')
  BY <1>1, <1>6 DEF Open, OpenIn
<1>8. Good(iTags')  BY <1>1, <1>3, <1>5, <1>7, GoodPush DEF IsNote
<1>9. OpenIn(iTags') = OpenIn(iTags) \cup {e} /\ TopOf(iTags') = e
  BY <1>1, <1>4, <1>5, OpenPush
<1>10. QED
  BY <1>1, <1>2, <1>3, <1>4, <1>6, <1>7, <1>8, <1>9 DEF Push

\* The end of an element takes away the element itself.
LEMMA PopStep ==
  ASSUME TypeOK, Good(iTags), NEW e, Pop(e)
  PROVE  /\ iTags \in Seq(Tags) /\ iTags' \in Seq(Tags) /\ Good(iTags')
         /\ iTags # <<>> /\ iTags' = Tail(iTags) /\ TopOf(iTags) = e /\ e \in Tags
         /\ TopOf(iTags') \in Names /\ e \in Inside[TopOf(iTags')]
         /\ OpenIn(iTags) = OpenIn(iTags') \cup {e}
         /\ Open = OpenIn(iTags) /\ Open' = OpenIn(iTags')
         /\ ~crashed /\ before' = e /\ mixed' = mixed /\ eaten' = eaten
<1>1. iTags \in Seq(Tags) /\ iTags # <<>> /\ iTags' = Tail(iTags)
  BY DEF TypeOK, Tags, Pop
<1>2. TopOf(iTags) = e /\ iTags[1] = e /\ Len(iTags) \in Nat \ {0}
  BY <1>1 DEF Pop, TopOf
<1>3. e \in Tags  BY <1>1, <1>2
<1>4. /\ iTags' \in Seq(Tags) /\ Len(iTags') = Len(iTags) - 1
      /\ \A i \in 1..(Len(iTags) - 1) : iTags'[i] = iTags[i + 1]
      /\ OpenIn(iTags) = OpenIn(iTags') \cup {e}
  BY <1>1, <1>2, PopMembers
<1>5. Good(iTags')  BY <1>1, GoodPop
<1>6. TopOf(iTags') \in Names /\ e \in Inside[TopOf(iTags')]
  <2>1. 1 \in 1..Len(iTags)  BY <1>2
  <2>2. e \in Inside[IF 1 = Len(iTags) THEN "none" ELSE iTags[1 + 1]]
    BY <1>2, <2>1 DEF Good, Nested
  <2>3. CASE Len(iTags) = 1
    <3>1. iTags' = <<>>  BY <1>4, <2>3
    <3>2. QED  BY <2>2, <2>3, <3>1, NamesListed DEF TopOf
  <2>4. CASE Len(iTags) # 1
    <3>1. 1 \in 1..(Len(iTags) - 1) /\ iTags' # <<>>  BY <1>2, <1>4, <2>4
    <3>2. iTags'[1] = iTags[1 + 1]  BY <1>4, <3>1
    <3>3. iTags'[1] \in Tags  BY <1>4, <3>1
    <3>4. QED  BY <2>2, <2>4, <3>1, <3>2, <3>3 DEF TopOf, Tags
  <2>5. QED  BY <2>3, <2>4
<1>7. Open = OpenIn(iTags) /\ Open' = OpenIn(iTags')
  <2>1. iTags' \in Seq(Tags)  BY <1>4
  <2>2. DOMAIN iTags = 1..Len(iTags) /\ DOMAIN iTags' = 1..Len(iTags')
    BY <1>1, <2>1
  <2>3. QED  BY <2>2 DEF Open, OpenIn
<1>8. QED  BY <1>1, <1>2, <1>3, <1>4, <1>5, <1>6, <1>7 DEF Pop

\* Appending to the text.
LEMMA AppendFacts ==
  ASSUME NEW S, NEW doc \in Seq(S), NEW c \in S
  PROVE  /\ Append(doc, c) \in Seq(S)
         /\ Append(doc, c) # <<>>
         /\ Append(doc, c)[Len(Append(doc, c))] = c
OBVIOUS

\* What a new paragraph leaves at the end.
LEMMA BreakFacts ==
  ASSUME NEW doc \in Seq(Chars)
  PROVE  LET new == AppendParagraphL(DeleteL(doc))
         IN  /\ new \in Seq(Chars)
             /\ new # <<>> => new[Len(new)] = "paragraph"
<1> DEFINE less == DeleteL(doc)
<1>1. less \in Seq(Chars)
  <2>1. CASE Len(doc) > 0  BY <2>1, SubSeqProperties DEF DeleteL
  <2>2. CASE ~(Len(doc) > 0)  BY <2>2 DEF DeleteL
  <2>3. QED  BY <2>1, <2>2
<1> HIDE DEF less
<1>2. CASE Len(less) > 0
  <2>1. "paragraph" \in Chars  BY DEF Chars
  <2>2. QED  BY <1>1, <1>2, <2>1, AppendFacts DEF AppendParagraphL, less
<1>3. CASE ~(Len(less) > 0)
  <2>1. less = <<>>  BY <1>1, <1>3
  <2>2. QED  BY <1>1, <1>3, <2>1 DEF AppendParagraphL, less
<1>4. QED  BY <1>2, <1>3

------------------------------------------------------------------------------
(* The types.                                                                 *)

\* The reader starts outside all elements.
LEMMA InitInv == Init => IInv
<1> SUFFICES ASSUME Init PROVE IInv
  OBVIOUS
<1> USE DEF Init
<1>1. TypeOK
  <2>1. {} \subseteq (Chars \X {"cell", "box", "flow"}) /\ "none" \in Names
    BY NamesListed
  <2>2. /\ iTags \in Seq(Names \ {"none"}) /\ iRichText \in Seq(Chars)
        /\ temp \in Seq({"citation", "addition", "words"})
        /\ iNotes \in Seq(Seq({"citation", "addition", "words"}))
        /\ due \in Seq(Places)
    OBVIOUS
  <2>3. style \in Styles \cup {NoStyle}  OBVIOUS
  <2>4. iChange \in BOOLEAN /\ crashed \in BOOLEAN /\ mixed \in BOOLEAN
        /\ cut \in BOOLEAN /\ elements \in Nat /\ pieces \in Nat
        /\ before \in Names /\ eaten \subseteq (Chars \X {"cell", "box", "flow"})
    BY <2>1
  <2>5. QED  BY <2>2, <2>3, <2>4 DEF TypeOK
<1>2. Good(iTags)
  BY DEF Good, Nested, HasParagraph, OnlyPlain, OneNote
<1>3. TextInv
  BY DEF TextInv, ParagraphsStaySeparate, DeletionsSilent,
         TextEatenOnlyInCellsAndBoxes
<1>4. NoteInv
  <2>1. TopOf(iTags) = "none"  BY DEF TopOf
  <2>2. OpenIn(iTags) = {}  BY DEF OpenIn
  <2>3. QED  BY <2>1, <2>2 DEF NoteInv, NoStaleNote
<1>5. QED  BY <1>1, <1>2, <1>3, <1>4 DEF IInv

\* The conjuncts of TypeOK that a push settles.
LEMMA TypePush ==
  ASSUME TypeOK, Good(iTags), NEW e, Push(e), e = "note" => ~IsNote,
         iChange' \in BOOLEAN,
         temp' \in Seq({"citation", "addition", "words"}),
         iRichText' \in Seq(Chars),
         iNotes' \in Seq(Seq({"citation", "addition", "words"})),
         style' \in Styles \cup {NoStyle},
         eaten' \subseteq (Chars \X {"cell", "box", "flow"})
  PROVE  TypeOK'
<1>1. iTags' \in Seq(Names \ {"none"})  BY PushStep DEF Tags
<1>2. "none" \in Names  BY NamesListed
<1>3. QED  BY <1>1, <1>2 DEF TypeOK, Push

\* The end of an element keeps the types, if the texts it hands on have theirs.
LEMMA TypePop ==
  ASSUME TypeOK, Good(iTags), NEW e, Pop(e),
         iChange' \in BOOLEAN, crashed' \in BOOLEAN,
         temp' \in Seq({"citation", "addition", "words"}),
         iRichText' \in Seq(Chars),
         iNotes' \in Seq(Seq({"citation", "addition", "words"}))
  PROVE  TypeOK'
<1>1. iTags' \in Seq(Names \ {"none"}) /\ e \in Names  BY PopStep DEF Tags
<1>2. QED  BY <1>1 DEF TypeOK, Pop

\* Every step of the reader keeps the types.
LEMMA TypeStep == ASSUME IInv, Next PROVE TypeOK'
<1> USE DEF IInv
<1>0. /\ iTags \in Seq(Tags) /\ iRichText \in Seq(Chars)
      /\ temp \in Seq({"citation", "addition", "words"})
      /\ "enter" \in Chars /\ "tab" \in Chars /\ "space" \in Chars
      /\ "page" \in Chars
  BY DEF TypeOK, Tags, Chars
<1>1. ASSUME NEW e \in Elements, NEW st \in Styles \cup {NoStyle},
             StartParagraph(e, st)
      PROVE  TypeOK'
  <2>1. e # "note"  BY <1>1 DEF StartParagraph, Paragraphs
  <2>2. iRichText' \in Seq(Chars)
    BY <1>0, <1>1, BreakFacts DEF StartParagraph
  <2>3. eaten' \subseteq (Chars \X {"cell", "box", "flow"})
    <3>1. CASE iRichText = <<>>  BY <1>1, <3>1 DEF StartParagraph, TypeOK
    <3>2. CASE iRichText # <<>>
      <4>1. LastChar \in Chars  BY <1>0, <3>2 DEF LastChar
      <4>2. Where \in {"cell", "box", "flow"}  BY DEF Where
      <4>3. <<LastChar, Where>> \in Chars \X {"cell", "box", "flow"}
        BY <4>1, <4>2
      <4>4. QED  BY <1>1, <3>2, <4>3 DEF StartParagraph, TypeOK
    <3>3. QED  BY <3>1, <3>2
  <2>4. style' \in Styles \cup {NoStyle}  BY <1>1 DEF StartParagraph, TypeOK
  <2>5. QED
    BY <1>1, <2>1, <2>2, <2>3, <2>4, TypePush DEF StartParagraph, TypeOK
<1>2. ASSUME NEW e \in Elements, StartCharacter(e) PROVE TypeOK'
  <2>1. iRichText' \in Seq(Chars)
    BY <1>0, <1>2, AppendFacts DEF StartCharacter, PageBreak
  <2>2. QED  BY <1>2, <2>1, TypePush DEF StartCharacter, TypeOK
<1>3. ASSUME StartChange PROVE TypeOK'
  BY <1>3, TypePush DEF StartChange, TypeOK
<1>4. ASSUME NEW e \in Elements, StartOther(e) PROVE TypeOK'
  BY <1>4, TypePush DEF StartOther, TypeOK
<1>5. ASSUME CharacterData PROVE TypeOK'
  <2>1. Routed \in {"text", "link", "note", "inserted", "nowhere"}
    BY DEF Routed
  <2>2. iRichText' \in Seq(Chars)
    <3>1. Routed \in Text => Routed \in Chars  BY DEF Chars
    <3>2. QED  BY <1>0, <1>5, <3>1, AppendFacts DEF CharacterData
  <2>3. temp' \in Seq({"citation", "addition", "words"})
    <3>1. CASE Routed = "link"  BY <1>5, <3>1 DEF CharacterData
    <3>2. CASE Routed = "note"  BY <1>0, <1>5, <3>2 DEF CharacterData
    <3>3. CASE Routed \notin {"link", "note"}
      BY <1>0, <1>5, <3>3 DEF CharacterData
    <3>4. QED  BY <3>1, <3>2, <3>3
  <2>4. due' \in Seq(Places)
    <3>1. Wanted \in Places  BY DEF Wanted, Places
    <3>2. QED  BY <1>5, <3>1 DEF CharacterData, TypeOK
  <2>5. mixed' \in BOOLEAN /\ cut' \in BOOLEAN
    BY <1>5 DEF CharacterData
  <2>6. pieces' \in Nat  BY <1>5 DEF CharacterData, TypeOK
  <2>7. QED
    BY <1>5, <2>2, <2>3, <2>4, <2>5, <2>6 DEF CharacterData, TypeOK
<1>6. ASSUME NEW e \in Elements, EndParagraph(e) PROVE TypeOK'
  <2>1. iRichText' \in Seq(Chars)
    BY <1>0, <1>6, AppendFacts DEF EndParagraph
  <2>2. QED  BY <1>6, <2>1, TypePop DEF EndParagraph, TypeOK
<1>7. ASSUME NEW e \in Elements, EndCharacter(e) PROVE TypeOK'
  <2>1. iRichText' \in Seq(Chars)
    <3>1. <<"tab", "tab">> \in Seq(Chars) /\ <<"enter">> \in Seq(Chars)
      BY <1>0
    <3>2. QED  BY <1>0, <1>7, <3>1, ConcatProperties DEF EndCharacter, TableSeparator
  <2>2. QED  BY <1>7, <2>1, TypePop DEF EndCharacter, TypeOK
<1>8. ASSUME NEW e \in Elements, EndOther(e) PROVE TypeOK'
  BY <1>8, TypePop DEF EndOther, TypeOK
<1>9. ASSUME EndCitation PROVE TypeOK'
  <2>1. temp' \in Seq({"citation", "addition", "words"})
    BY <1>0, <1>9, AppendFacts DEF EndCitation
  <2>2. crashed' \in BOOLEAN  BY <1>9 DEF EndCitation, TypeOK
  <2>3. QED  BY <1>9, <2>1, <2>2, TypePop DEF EndCitation, TypeOK
<1>10. ASSUME EndNoteBody PROVE TypeOK'
  <2> DEFINE Note == Seq({"citation", "addition", "words"})
  <2>1. iNotes \in Seq(Note) /\ temp \in Note /\ <<>> \in Note
    BY <1>0 DEF TypeOK
  <2>2. crashed' \in BOOLEAN  BY <1>10 DEF EndNoteBody, TypeOK
  <2>3. temp' \in Note  BY <2>1, <1>10 DEF EndNoteBody
  <2> HIDE DEF Note
  <2>4. Append(iNotes, temp) \in Seq(Note)  BY <2>1, AppendFacts
  <2>5. iNotes' \in Seq(Note)  BY <2>1, <2>4, <1>10 DEF EndNoteBody
  <2>6. QED  BY <1>10, <2>2, <2>3, <2>5, TypePop DEF EndNoteBody, TypeOK, Note
<1>11. ASSUME EndChange PROVE TypeOK'
  BY <1>11, TypePop DEF EndChange, TypeOK
<1>12. QED
  BY <1>1, <1>2, <1>3, <1>4, <1>5, <1>6, <1>7, <1>8, <1>9, <1>10, <1>11
  DEF Next, StartElement, EndElement

\* The stack stays good: whatever the step, it is a push, a pop or neither.
LEMMA GoodStep == ASSUME IInv, Next PROVE Good(iTags')
<1> USE DEF IInv
<1>1. ASSUME StartElement PROVE Good(iTags')
  <2>1. PICK e : Push(e) /\ (e = "note" => ~IsNote)
    BY <1>1 DEF StartElement, StartParagraph, StartCharacter, PageBreak, StartChange,
                StartOther, Paragraphs
  <2>2. QED  BY <2>1, PushStep
<1>2. ASSUME EndElement PROVE Good(iTags')
  <2>1. PICK e : Pop(e)
    BY <1>2 DEF EndElement, EndParagraph, EndCharacter, TableSeparator, EndOther, EndCitation,
                EndNoteBody, EndChange
  <2>2. QED  BY <2>1, PopStep
<1>3. ASSUME CharacterData PROVE Good(iTags')
  BY <1>3 DEF CharacterData
<1>4. QED  BY <1>1, <1>2, <1>3 DEF Next

------------------------------------------------------------------------------
(* Text is taken away in cells and boxes only.                                *)

\* A step that leaves text and deletions alone and opens one more element.
LEMMA TextPush ==
  ASSUME TypeOK, Good(iTags), TextInv, NEW e, Push(e), e = "note" => ~IsNote,
         iRichText' = iRichText, eaten' = eaten
  PROVE  TextInv'
<1> USE PushStep
<1>1. ParagraphsStaySeparate'
  BY DEF TextInv, ParagraphsStaySeparate, LastChar
<1>2. DeletionsSilent'
  <2> SUFFICES ASSUME ~mixed, "tracked_changes" \in OpenIn(iTags'),
                      iRichText # <<>>
               PROVE  LastChar \notin Text
    BY DEF DeletionsSilent, LastChar
  <2>1. CASE "tracked_changes" \in OpenIn(iTags)
    BY <2>1 DEF TextInv, DeletionsSilent
  <2>2. CASE "tracked_changes" \notin OpenIn(iTags)
    <3>1. e = "tracked_changes"  BY <2>2
    <3>2. TopOf(iTags) = "none"  BY <3>1, Parents
    <3>3. iTags = <<>>
      BY <3>2, NamesListed DEF TopOf, Tags
    <3>4. OpenIn(iTags) = {}  BY <3>3 DEF OpenIn
    <3>5. QED  BY <3>4 DEF TextInv, ParagraphsStaySeparate
  <2>3. QED  BY <2>1, <2>2
<1>3. TextEatenOnlyInCellsAndBoxes'
  BY DEF TextInv, TextEatenOnlyInCellsAndBoxes
<1>4. QED  BY <1>1, <1>2, <1>3 DEF TextInv

\* A step after which the last character, if any, is no text.
LEMMA TextEnds ==
  ASSUME TextInv, mixed' = mixed, eaten' = eaten,
         iRichText' # <<>> => LastChar' \notin Text
  PROVE  TextInv'
BY DEF TextInv, ParagraphsStaySeparate, DeletionsSilent,
       TextEatenOnlyInCellsAndBoxes

\* A step that leaves the text alone and closes an element that is neither a
\* paragraph nor a cell.
LEMMA TextPop ==
  ASSUME TypeOK, Good(iTags), TextInv, NEW e, Pop(e),
         e \notin Paragraphs \cup {"table_cell"}, iRichText' = iRichText
  PROVE  TextInv'
<1> USE PopStep
<1>1. ParagraphsStaySeparate'
  <2>1. Open \cap (Paragraphs \cup {"table_cell"})
          = Open' \cap (Paragraphs \cup {"table_cell"})
    OBVIOUS
  <2>2. QED  BY <2>1 DEF TextInv, ParagraphsStaySeparate, LastChar
<1>2. DeletionsSilent'
  BY DEF TextInv, DeletionsSilent, LastChar
<1>3. TextEatenOnlyInCellsAndBoxes'
  BY DEF TextInv, TextEatenOnlyInCellsAndBoxes
<1>4. QED  BY <1>1, <1>2, <1>3 DEF TextInv

\* Every step of the reader keeps what is said of the text.
LEMMA TextStep == ASSUME IInv, Next PROVE TextInv'
<1> USE DEF IInv
<1>0. iTags \in Seq(Tags) /\ iRichText \in Seq(Chars) /\ Open = OpenIn(iTags)
      /\ Top = TopOf(iTags)
  <2>1. iTags \in Seq(Tags) /\ iRichText \in Seq(Chars)  BY DEF TypeOK, Tags
  <2>2. QED  BY <2>1, OpenIsOpenIn, TopIsTopOf
<1>00. Text \cap {"enter", "tab", "space", "page", "paragraph"} = {}
  BY DEF Text
<1>1. ASSUME NEW e \in Elements, NEW st \in Styles \cup {NoStyle},
             StartParagraph(e, st)
      PROVE  TextInv'
  <2>0. Push(e) /\ e \in Paragraphs /\ e # "note"
    BY <1>1 DEF StartParagraph, Paragraphs
  <2>1. CASE ~BreaksParagraph(e, st, <<e>> \o iTags)
    <3>1. iRichText' = iRichText /\ eaten' = eaten
      BY <1>1, <2>1 DEF StartParagraph
    <3>2. QED  BY <2>0, <3>1, TextPush
  <2>2. CASE BreaksParagraph(e, st, <<e>> \o iTags)
    <3>1. iRichText' # <<>> => LastChar' \notin Text
      <4>1. iRichText' = AppendParagraphL(DeleteL(iRichText))
        BY <1>1, <2>2 DEF StartParagraph
      <4>2. QED  BY <1>0, <1>00, <4>1, BreakFacts DEF LastChar
    <3>2. ParagraphsStaySeparate' /\ DeletionsSilent'
      BY <3>1 DEF ParagraphsStaySeparate, DeletionsSilent
    <3>3. TextEatenOnlyInCellsAndBoxes'
      <4> SUFFICES ASSUME ~mixed, NEW x \in eaten', x[1] \in Text
                   PROVE  x[2] \in {"cell", "box"}
        BY <2>0, PushStep DEF TextEatenOnlyInCellsAndBoxes
      <4>1. CASE x \in eaten
        BY <4>1 DEF TextInv, TextEatenOnlyInCellsAndBoxes
      <4>2. CASE x \notin eaten
        <5>1. iRichText # <<>> /\ x = <<LastChar, Where>>
          BY <1>1, <2>2, <4>2 DEF StartParagraph
        <5>2. LastChar \in Text  BY <5>1
        <5>3. SUFFICES ASSUME Where \notin {"cell", "box"} PROVE FALSE
          BY <5>1
        <5>4. "table_cell" \notin Open /\ "text_box" \notin Open
          BY <5>3 DEF Where
        <5>5. Open \cap Paragraphs # {}
          BY <5>1, <5>2, <5>4 DEF TextInv, ParagraphsStaySeparate
        <5>6. Open \cap Breaks = {}
          BY <2>2, <5>4 DEF BreaksParagraph, IsNote, IsAnnotation, Breaks
        <5>7. TopOf(iTags) \in Plain \cup Paragraphs
          BY <1>0, <5>5, <5>6, StackFacts
        <5>8. e \in Inside[TopOf(iTags)] /\ TopOf(iTags) \in Names
          BY <2>0, PushStep
        <5>9. e \in Plain \cup Breaks  BY <5>7, <5>8, Parents
        <5>10. QED  BY <2>0, <5>9 DEF Paragraphs, Plain, Breaks
      <4>3. QED  BY <4>1, <4>2
    <3>4. QED  BY <3>2, <3>3 DEF TextInv
  <2>3. QED  BY <2>1, <2>2
<1>2. ASSUME NEW e \in Elements, StartCharacter(e) PROVE TextInv'
  <2>1. mixed' = mixed /\ eaten' = eaten  BY <1>2 DEF StartCharacter, PageBreak, Push
  <2>2. LastChar' \notin Text
    <3>1. PICK c \in {"tab", "space", "page"} : iRichText' = Append(iRichText, c)
      BY <1>2 DEF StartCharacter, PageBreak
    <3>2. c \in Chars  BY <3>1 DEF Chars
    <3>3. QED  BY <1>0, <1>00, <3>1, <3>2, AppendFacts DEF LastChar
  <2>3. QED  BY <2>1, <2>2, TextEnds
<1>3. ASSUME StartChange PROVE TextInv'
  BY <1>3, TextPush DEF StartChange
<1>4. ASSUME NEW e \in Elements, StartOther(e) PROVE TextInv'
  BY <1>4, TextPush DEF StartOther
<1>5. ASSUME CharacterData PROVE TextInv'
  <2>0. iTags' = iTags /\ eaten' = eaten /\ Open' = Open /\ (mixed => mixed')
        /\ Top \in Paragraphs \cup {"span", "note_citation"}
    BY <1>5 DEF CharacterData, Open
  <2>1. CASE Routed \notin Text
    <3>1. iRichText' = iRichText  BY <1>5, <2>1 DEF CharacterData
    <3>2. QED
      BY <2>0, <3>1 DEF TextInv, ParagraphsStaySeparate, DeletionsSilent,
                        TextEatenOnlyInCellsAndBoxes, LastChar
  <2>2. CASE Routed \in Text
    <3>1. Open \cap Paragraphs # {}
      <4>1. Top \in Open
        <5>1. iTags # <<>>  BY <2>0 DEF Top, Paragraphs
        <5>2. QED  BY <1>0, <5>1, StackFacts
      <4>2. CASE Top \in Paragraphs  BY <4>1, <4>2
      <4>3. CASE Top \notin Paragraphs
        <5>1. OpenIn(iTags) \cap InParagraph # {}
          BY <1>0, <2>0, <4>1, <4>3 DEF InParagraph
        <5>2. QED  BY <1>0, <5>1, StackFacts
      <4>4. QED  BY <4>2, <4>3
    <3>2. ParagraphsStaySeparate'
      BY <2>0, <3>1 DEF ParagraphsStaySeparate
    <3>3. ~("tracked_changes" \in Open /\ ~mixed')
      <4> SUFFICES ASSUME "tracked_changes" \in Open, ~mixed' PROVE FALSE
        OBVIOUS
      <4>1. Hidden  BY DEF Hidden
      <4>2. /\ "note_citation" \notin Open /\ "note_body" \notin Open
            /\ ~iChange
        BY <1>5, <4>1 DEF CharacterData
      <4>3. Top # "note_citation"
        <5>1. Top = "note_citation" => iTags # <<>>  BY DEF Top
        <5>2. QED  BY <1>0, <4>2, <5>1, StackFacts
      <4>4. Routed = "nowhere"
        BY <4>2, <4>3
        DEF Routed, IsTrackedChanges, IsNoteCitation, IsNote
      <4>5. QED  BY <2>2, <4>4 DEF Text
    <3>4. DeletionsSilent'
      BY <1>0, <2>0, <3>3 DEF DeletionsSilent
    <3>5. TextEatenOnlyInCellsAndBoxes'
      BY <2>0 DEF TextInv, TextEatenOnlyInCellsAndBoxes
    <3>6. QED  BY <3>2, <3>4, <3>5 DEF TextInv
  <2>3. QED  BY <2>1, <2>2
<1>6. ASSUME NEW e \in Elements, EndParagraph(e) PROVE TextInv'
  <2>0. Pop(e) /\ e \in Paragraphs  BY <1>6 DEF EndParagraph
  <2>1. mixed' = mixed /\ eaten' = eaten  BY <2>0, PopStep
  <2>2. CASE iRichText' = Append(iRichText, "enter")
    <3>1. "enter" \in Chars  BY DEF Chars
    <3>2. LastChar' \notin Text
      BY <1>0, <1>00, <2>2, <3>1, AppendFacts DEF LastChar
    <3>3. QED  BY <2>1, <3>2, TextEnds
  <2>3. CASE iRichText' # Append(iRichText, "enter")
    <3>1. iRichText' = iRichText  BY <1>6, <2>3 DEF EndParagraph
    <3>2. /\ \/ IsTableTop(Tail(iTags))
             \/ e = "p" /\ (IsNote \/ IsTrackedChanges \/ IsAnnotation)
      BY <1>6, <2>3 DEF EndParagraph
    <3>3. /\ iTags' \in Seq(Tags) /\ Good(iTags') /\ iTags' = Tail(iTags)
          /\ OpenIn(iTags) = OpenIn(iTags') \cup {e} /\ Open' = OpenIn(iTags')
          /\ TopOf(iTags') \in Names /\ e \in Inside[TopOf(iTags')]
      BY <2>0, PopStep
    <3>4. ParagraphsStaySeparate'
      <4>1. CASE IsTableTop(Tail(iTags))
        <5>1. iTags' # <<>> /\ TopOf(iTags') \in {"table_cell", "table_row"}
          BY <3>3, <4>1 DEF IsTableTop, TopOf
        <5>2. TopOf(iTags') # "table_row"
          BY <2>0, <3>3, Parents DEF Breaks
        <5>3. "table_cell" \in Open'  BY <3>3, <5>1, <5>2, StackFacts
        <5>4. QED  BY <5>3 DEF ParagraphsStaySeparate
      <4>2. CASE IsNote \/ IsAnnotation
        <5>1. OpenIn(iTags') \cap InParagraph # {}
          BY <1>0, <2>0, <3>3, <4>2
          DEF IsNote, IsAnnotation, InParagraph, Paragraphs
        <5>2. Open' \cap Paragraphs # {}  BY <3>3, <5>1, StackFacts
        <5>3. QED  BY <5>2 DEF ParagraphsStaySeparate
      <4>3. CASE IsTrackedChanges
        BY <1>0, <2>1, <3>1, <4>3
        DEF TextInv, DeletionsSilent, IsTrackedChanges,
            ParagraphsStaySeparate, LastChar
      <4>4. QED  BY <3>2, <4>1, <4>2, <4>3
    <3>5. DeletionsSilent'
      BY <2>1, <3>1, <3>3 DEF TextInv, DeletionsSilent, LastChar
    <3>6. QED
      BY <2>1, <3>4, <3>5 DEF TextInv, TextEatenOnlyInCellsAndBoxes
  <2>4. QED  BY <2>2, <2>3
<1>7. ASSUME NEW e \in Elements, EndCharacter(e) PROVE TextInv'
  <2>1. mixed' = mixed /\ eaten' = eaten  BY <1>7 DEF EndCharacter, Pop
  <2>2. PICK c \in {"enter", "tab"}, doc \in Seq(Chars) :
          iRichText' = Append(doc, c)
    <3>1. "tab" \in Chars  BY DEF Chars
    <3>2. CASE e = "table_cell"
      <4>1. iRichText' = iRichText \o <<"tab", "tab">>
        BY <1>7, <3>2 DEF EndCharacter, TableSeparator
      <4>2. iRichText' = Append(Append(iRichText, "tab"), "tab")
        BY <1>0, <3>1, <4>1
      <4>3. Append(iRichText, "tab") \in Seq(Chars)  BY <1>0, <3>1
      <4>4. QED  BY <4>2, <4>3
    <3>3. CASE e # "table_cell"
      <4>1. iRichText' = iRichText \o <<"enter">>
        BY <1>7, <3>3 DEF EndCharacter, TableSeparator
      <4>2. iRichText' = Append(iRichText, "enter")  BY <1>0, <4>1
      <4>3. QED  BY <1>0, <4>2
    <3>4. QED  BY <3>2, <3>3
  <2>3. c \in Chars  BY <2>2 DEF Chars
  <2>4. LastChar' \notin Text
    BY <1>00, <2>2, <2>3, AppendFacts DEF LastChar
  <2>5. QED  BY <2>1, <2>4, TextEnds
<1>8. ASSUME NEW e \in Elements, EndOther(e) PROVE TextInv'
  <2>1. Pop(e) /\ iRichText' = iRichText /\ e \notin Paragraphs \cup {"table_cell"}
    BY <1>8 DEF EndOther
  <2>2. QED  BY <2>1, TextPop
<1>9. ASSUME EndCitation \/ EndNoteBody \/ EndChange PROVE TextInv'
  <2>1. PICK e \in {"note_citation", "note_body", "change_end"} :
          Pop(e) /\ iRichText' = iRichText
    BY <1>9 DEF EndCitation, EndNoteBody, EndChange
  <2>2. e \notin Paragraphs \cup {"table_cell"}  BY DEF Paragraphs
  <2>3. QED  BY <2>1, <2>2, TextPop
<1>10. QED
  BY <1>1, <1>2, <1>3, <1>4, <1>5, <1>6, <1>7, <1>8, <1>9
  DEF Next, StartElement, EndElement

------------------------------------------------------------------------------
(* The note under construction.                                               *)

\* A closed note body leaves no other open.
LEMMA OneBody ==
  ASSUME NEW s \in Seq(Tags), s # <<>>, Good(s), TopOf(s) = "note_body"
  PROVE  "note_body" \notin OpenIn(Tail(s))
<1>1. s[1] = "note_body"  BY DEF TopOf
<1>0. Len(s) \in Nat /\ Len(s) >= 1  OBVIOUS
<1>2. Len(s) # 1
  <2>1. "note_body" \notin Inside["none"]
    BY DEF Inside, Body
  <2>2. QED  BY <1>0, <1>1, <2>1 DEF Good, Nested
<1>3. s[2] = "note" /\ 2 \in 1..Len(s)
  <2> DEFINE n == Len(s)
  <2>00. n \in Nat /\ n >= 1 /\ n # 1  BY <1>0, <1>2
  <2> HIDE DEF n
  <2>01. 1 \in 1..n /\ 2 \in 1..n  BY <2>00
  <2>0. 1 \in 1..Len(s) /\ 2 \in 1..Len(s)  BY <2>01 DEF n
  <2>1. s[1] \in Inside[s[2]]  BY <1>2, <2>0 DEF Good, Nested
  <2>2. s[2] \in Names  BY <2>0 DEF Tags
  <2>3. QED  BY <1>1, <2>0, <2>1, <2>2, Parents
<1>4. SUFFICES ASSUME NEW i \in 1..Len(Tail(s)), Tail(s)[i] = "note_body"
               PROVE  FALSE
  BY DEF OpenIn
<1>5. i + 1 \in 2..Len(s) /\ s[i + 1] = "note_body"
  <2>1. /\ Len(Tail(s)) = Len(s) - 1
        /\ \A j \in 1..(Len(s) - 1) : Tail(s)[j] = s[j + 1]
    BY PopMembers
  <2>2. QED  BY <1>0, <1>4, <2>1
<1>6. i + 1 # 2  BY <1>3, <1>5
<1>7. QED  BY <1>0, <1>3, <1>5, <1>6 DEF Good, OneNote

\* A step that opens an element and leaves the note alone.
LEMMA NotePush ==
  ASSUME IInv, NEW e, Push(e), temp' = temp, iNotes' = iNotes,
         e = "note" => ~IsNote,
         e = "note_citation" => before = "none",
         e = "note_body" => before = "note_citation"
  PROVE  NoteInv'
<1> USE PushStep DEF IInv
<1>1. NoStaleNote'  BY DEF NoteInv, NoStaleNote
<1>2. ASSUME e = "note" PROVE temp = <<>>
  <2>1. TopOf(iTags) \in {"p", "h", "span"}  BY <1>2, Parents
  <2>2. "note_body" \notin OpenIn(iTags)  BY <1>2 DEF IsNote
  <2>3. "note" \notin Open  BY <2>1, <2>2, StackFacts
  <2>4. QED  BY <2>3 DEF NoteInv, NoStaleNote
<1>3. ASSUME e = "note_citation" PROVE temp = <<>>
  <2>1. TopOf(iTags) = "note" /\ before = "none"  BY <1>3, Parents
  <2>2. QED  BY <2>1 DEF NoteInv
<1>4. ASSUME "note_body" \in OpenIn(iTags') PROVE Shape(temp)
  <2>1. CASE "note_body" \in OpenIn(iTags)  BY <2>1 DEF NoteInv
  <2>2. CASE e = "note_body"
    <3>1. TopOf(iTags) = "note" /\ before = "note_citation"  BY <2>2, Parents
    <3>2. QED  BY <3>1 DEF NoteInv
  <2>3. QED  BY <1>4, <2>1, <2>2
<1>5. \A i \in 1..Len(iNotes') : Shape(iNotes'[i])  BY DEF NoteInv
<1>6. QED  BY <1>1, <1>2, <1>3, <1>4, <1>5 DEF NoteInv, Shape

\* What closing an element says of the note, when temp' is what it should be.
LEMMA NotePop ==
  ASSUME IInv, NEW e, Pop(e),
         temp' # <<>> => temp # <<>> /\ e # "note",
         \A i \in 1..Len(iNotes') : Shape(iNotes'[i]),
         ~crashed' /\ e = "note_citation" => Shape(temp'),
         ~crashed' /\ e = "note_body" => temp' = <<>>,
         e \notin {"note_citation", "note_body"} => temp' = temp
  PROVE  NoteInv'
<1> USE PopStep DEF IInv
<1>1. NoStaleNote'  BY DEF NoteInv, NoStaleNote
<1>2. before' = e /\ e # "none"  BY DEF Tags
<1>3. TopOf(iTags') # "note_citation"
  <2>1. Inside["note_citation"] = {}  BY DEF Inside
  <2>2. QED  BY <2>1
<1>4. ASSUME ~crashed', "note_body" \in OpenIn(iTags') PROVE Shape(temp')
  <2>1. "note_body" \in OpenIn(iTags)  BY <1>4
  <2>2. e # "note_citation"  BY <2>1, StackFacts
  <2>3. e # "note_body"  BY <1>4, OneBody
  <2>4. QED  BY <2>1, <2>2, <2>3 DEF NoteInv
<1>5. QED  BY <1>1, <1>2, <1>3, <1>4 DEF NoteInv, Shape

\* Every step of the reader keeps what is said of the notes.
LEMMA NoteStep == ASSUME IInv, Next PROVE NoteInv'
<1> USE DEF IInv
<1>0. iTags \in Seq(Tags) /\ Open = OpenIn(iTags) /\ Top = TopOf(iTags)
      /\ temp \in Seq({"citation", "addition", "words"})
  <2>1. iTags \in Seq(Tags)  BY DEF TypeOK, Tags
  <2>2. QED  BY <2>1, OpenIsOpenIn, TopIsTopOf DEF TypeOK
<1>1. ASSUME StartElement PROVE NoteInv'
  <2>1. PICK e : /\ Push(e) /\ temp' = temp /\ iNotes' = iNotes
                 /\ e = "note" => ~IsNote
                 /\ e = "note_citation" => before = "none"
                 /\ e = "note_body" => before = "note_citation"
    BY <1>1 DEF StartElement, StartParagraph, StartCharacter, PageBreak, StartChange,
                StartOther, Paragraphs
  <2>2. QED  BY <2>1, NotePush
<1>2. ASSUME CharacterData PROVE NoteInv'
  <2>0. /\ iTags' = iTags /\ before' = before /\ iNotes' = iNotes
        /\ crashed' = crashed /\ ~crashed
        /\ Open' = Open
        /\ TopOf(iTags) \in Paragraphs \cup {"span", "note_citation"}
    BY <1>0, <1>2 DEF CharacterData, Open
  <2>00. TopOf(iTags) # "note"  BY <2>0 DEF Paragraphs
  <2>1. CASE Routed = "link"
    <3>1. temp' = <<"citation">>  BY <1>2, <2>1 DEF CharacterData
    <3>2. TopOf(iTags) = "note_citation"
      BY <1>0, <2>1 DEF Routed, IsNoteCitation
    <3>3. "note" \in Open /\ "note_body" \notin OpenIn(iTags)
      BY <1>0, <3>2, StackFacts
    <3>4. QED
      BY <2>0, <2>00, <3>1, <3>3 DEF NoteInv, NoStaleNote
  <2>2. CASE Routed = "note"
    <3>1. temp' = Append(temp, "words")  BY <1>2, <2>2 DEF CharacterData
    <3>2. "note_body" \in OpenIn(iTags)
      BY <1>0, <2>2 DEF Routed, IsNote
    <3>3. Shape(temp')
      <4>1. Shape(temp)  BY <2>0, <3>2 DEF NoteInv
      <4>2. QED  BY <1>0, <3>1, <4>1 DEF Shape
    <3>4. "note" \in Open /\ TopOf(iTags) # "note_citation"
      BY <1>0, <3>2, StackFacts
    <3>5. QED
      BY <2>0, <2>00, <3>3, <3>4 DEF NoteInv, NoStaleNote
  <2>3. CASE Routed \notin {"link", "note"}
    <3>1. temp' = temp  BY <1>2, <2>3 DEF CharacterData
    <3>2. QED  BY <2>0, <3>1 DEF NoteInv, NoStaleNote, Shape
  <2>4. QED  BY <2>1, <2>2, <2>3
<1>3. ASSUME NEW e, Pop(e), e \notin {"note_citation", "note_body"},
             temp' = temp, iNotes' = iNotes
      PROVE  NoteInv'
  <2>1. temp' # <<>> => e # "note"
    <3>1. e = "note" => TopOf(iTags) = "note" /\ before = "note_body" /\ ~crashed
      BY <1>3, PopStep DEF Pop
    <3>2. QED  BY <1>3, <3>1 DEF NoteInv
  <2>2. \A i \in 1..Len(iNotes') : Shape(iNotes'[i])
    BY <1>3 DEF NoteInv
  <2>3. QED  BY <1>3, <2>1, <2>2, NotePop
<1>4. ASSUME EndCitation PROVE NoteInv'
  <2>1. Pop("note_citation") /\ iNotes' = iNotes  BY <1>4 DEF EndCitation
  <2>2. temp' # <<>> => temp # <<>>  BY <1>4 DEF EndCitation
  <2>3. ASSUME ~crashed' PROVE Shape(temp')
    <3>1. temp # <<>> /\ temp' = Append(temp, "addition")
      BY <1>4, <2>3 DEF EndCitation
    <3>2. temp \in {<<>>, <<"citation">>}
      BY <2>1, PopStep DEF NoteInv
    <3>3. QED  BY <3>1, <3>2 DEF Shape
  <2>4. \A i \in 1..Len(iNotes') : Shape(iNotes'[i])
    BY <2>1 DEF NoteInv
  <2>5. QED  BY <2>1, <2>2, <2>3, <2>4, NotePop
<1>5. ASSUME EndNoteBody PROVE NoteInv'
  <2>1. Pop("note_body")  BY <1>5 DEF EndNoteBody
  <2>2. temp' = <<>>  BY <1>5 DEF EndNoteBody
  <2>3. \A i \in 1..Len(iNotes') : Shape(iNotes'[i])
    <3>1. CASE iNotes' = iNotes  BY <3>1 DEF NoteInv
    <3>2. CASE iNotes' = Append(iNotes, temp)
      <4>1. Shape(temp)
        <5>1. "note_body" \in OpenIn(iTags) /\ ~crashed
          BY <2>1, PopStep
        <5>2. QED  BY <5>1 DEF NoteInv
      <4>2. iNotes \in Seq(Seq({"citation", "addition", "words"}))
        BY DEF TypeOK
      <4>3. QED  BY <3>2, <4>1, <4>2 DEF NoteInv
    <3>3. QED  BY <1>5, <3>1, <3>2 DEF EndNoteBody
  <2>4. QED  BY <2>1, <2>2, <2>3, NotePop
<1>6. QED
  <2>1. ASSUME EndElement PROVE NoteInv'
    <3>1. CASE EndCitation \/ EndNoteBody  BY <1>4, <1>5, <3>1
    <3>2. CASE ~(EndCitation \/ EndNoteBody)
      <4>1. PICK e : /\ Pop(e) /\ temp' = temp /\ iNotes' = iNotes
                     /\ e \notin {"note_citation", "note_body"}
        BY <2>1, <3>2 DEF EndElement, EndParagraph, EndCharacter, TableSeparator, EndOther,
                          EndChange, Paragraphs
      <4>2. QED  BY <1>3, <4>1
    <3>3. QED  BY <3>1, <3>2
  <2>2. QED  BY <1>1, <1>2, <2>1 DEF Next

------------------------------------------------------------------------------
(* What the editor shows, and the links of the notes.                         *)

\* The smallest of some numbers.
LEMMA LeastNat ==
  ASSUME NEW T, T \subseteq Nat, T # {}
  PROVE  \E m \in T : \A k \in T : m <= k
<1>1. PICK m \in T : \A k \in T : ~(<<k, m>> \in OpToRel(<, Nat))
  BY NatLessThanWellFounded, WFMin, Zenon
<1>2. \A k \in T : ~(k < m)  BY <1>1 DEF OpToRel
<1>3. QED  BY <1>2

\* f keeps the members of s that are in K, up to the n-th.
KeptFor(f, K, s, n) ==
    /\ f[0] = <<>>
    /\ \A i \in 1..n : f[i] = IF s[i] \in K THEN Append(f[i - 1], s[i]) ELSE f[i - 1]

SameUpTo(s, t, n) == \A i \in 1..n : s[i] = t[i]

\* Two ways to keep them agree, as far as the sequences do.
LEMMA KeptAgree ==
  ASSUME NEW K, NEW s, NEW t, NEW n \in Nat, SameUpTo(s, t, n),
         NEW f, NEW g, KeptFor(f, K, s, n), KeptFor(g, K, t, n)
  PROVE  \A k \in 0..n : f[k] = g[k]
<1> DEFINE T == {k \in 0..n : f[k] # g[k]}
<1> SUFFICES ASSUME T # {} PROVE FALSE
  OBVIOUS
<1>1. T \subseteq Nat  OBVIOUS
<1>2. PICK m \in T : \A k \in T : m <= k  BY <1>1, LeastNat
<1>3. m \in 1..n /\ m - 1 \in 0..n /\ ~(m <= m - 1)  BY <1>2 DEF KeptFor
<1>4. f[m - 1] = g[m - 1]  BY <1>2, <1>3
<1>5. s[m] = t[m]  BY <1>3 DEF SameUpTo
<1>6. QED  BY <1>2, <1>3, <1>4, <1>5 DEF KeptFor

\* There is such a function, up to every member.
LEMMA KeptReach ==
  ASSUME NEW S, NEW K, NEW s \in Seq(S), NEW n \in 0..Len(s)
  PROVE  \E f \in [0..n -> Seq(S)] : KeptFor(f, K, s, n)
<1> DEFINE T == {k \in 0..Len(s) : ~\E f \in [0..k -> Seq(S)] : KeptFor(f, K, s, k)}
<1> SUFFICES ASSUME T # {} PROVE FALSE
  OBVIOUS
<1>0. Len(s) \in Nat /\ \A i \in 1..Len(s) : s[i] \in S  OBVIOUS
<1>1. PICK m \in T : \A k \in T : m <= k
  <2>1. T \subseteq Nat  BY <1>0
  <2>2. QED  BY <2>1, LeastNat
<1>2. m # 0
  <2>1. [k \in 0..0 |-> <<>>] \in [0..0 -> Seq(S)]  OBVIOUS
  <2>2. KeptFor([k \in 0..0 |-> <<>>], K, s, 0)  BY DEF KeptFor
  <2>3. QED  BY <1>1, <2>1, <2>2
<1>3. m \in Nat \ {0} /\ m \in 1..Len(s) /\ m - 1 \in 0..Len(s) /\ ~(m <= m - 1)
  BY <1>0, <1>1, <1>2
<1>4. PICK f \in [0..(m - 1) -> Seq(S)] : KeptFor(f, K, s, m - 1)
  BY <1>1, <1>3
<1> DEFINE last == IF s[m] \in K THEN Append(f[m - 1], s[m]) ELSE f[m - 1]
           g == [k \in 0..m |-> IF k = m THEN last ELSE f[k]]
<1>5. last \in Seq(S)
  <2>1. m - 1 \in 0..(m - 1) /\ s[m] \in S  BY <1>0, <1>3
  <2>2. f[m - 1] \in Seq(S)  BY <2>1
  <2>3. Append(f[m - 1], s[m]) \in Seq(S)  BY <2>1, <2>2, AppendProperties
  <2>4. QED  BY <2>2, <2>3
<1> HIDE DEF last
<1>6. g \in [0..m -> Seq(S)]
  <2>1. ASSUME NEW k \in 0..m, k # m PROVE f[k] \in Seq(S)
    <3>1. k \in 0..(m - 1)  BY <1>3, <2>1
    <3>2. QED  BY <3>1
  <2>2. QED  BY <1>5, <2>1
<1>7. KeptFor(g, K, s, m)
  <2>1. g[0] = <<>>
    <3>1. 0 \in 0..m /\ 0 # m  BY <1>3
    <3>2. QED  BY <1>4, <3>1 DEF KeptFor
  <2>2. ASSUME NEW i \in 1..m
        PROVE  g[i] = IF s[i] \in K THEN Append(g[i - 1], s[i]) ELSE g[i - 1]
    <3>1. /\ i \in 0..m /\ i - 1 \in 0..m /\ i - 1 # m
          /\ i # m => i \in 1..(m - 1)
      BY <1>3
    <3>2. g[i - 1] = f[i - 1] /\ g[i] = IF i = m THEN last ELSE f[i]
      BY <3>1
    <3> HIDE DEF g
    <3>3. CASE i = m  BY <3>2, <3>3 DEF last
    <3>4. CASE i # m  BY <1>4, <3>1, <3>2, <3>4 DEF KeptFor
    <3>5. QED  BY <3>3, <3>4
  <2>3. QED  BY <2>1, <2>2 DEF KeptFor
<1>8. QED  BY <1>1, <1>6, <1>7

\* Only is given by such a function.
LEMMA OnlyIsKept ==
  ASSUME NEW S, NEW K, NEW s \in Seq(S)
  PROVE  \E f : KeptFor(f, K, s, Len(s)) /\ Only(K, s) = f[Len(s)] /\ Only(K, s) \in Seq(S)
<1> DEFINE G(f) == [n \in 0..Len(s) |->
                      IF n = 0 THEN <<>>
                      ELSE IF s[n] \in K THEN Append(f[n - 1], s[n]) ELSE f[n - 1]]
           E == CHOOSE f : f = G(f)
<1>0. Len(s) \in Nat /\ Len(s) \in 0..Len(s)  OBVIOUS
<1>1. Only(K, s) = E[Len(s)]  BY DEF Only
<1>2. PICK f \in [0..Len(s) -> Seq(S)] : KeptFor(f, K, s, Len(s))
  BY <1>0, KeptReach
<1>3. f = G(f) /\ E = CHOOSE h : h = G(h)
  <2>1. ASSUME NEW n \in 0..Len(s)
        PROVE  f[n] = IF n = 0 THEN <<>>
                      ELSE IF s[n] \in K THEN Append(f[n - 1], s[n]) ELSE f[n - 1]
    <3>1. CASE n = 0  BY <1>2, <3>1 DEF KeptFor
    <3>2. CASE n # 0
      <4>1. n \in 1..Len(s)  BY <1>0, <3>2
      <4>2. QED  BY <1>2, <3>2, <4>1 DEF KeptFor
    <3>3. QED  BY <3>1, <3>2
  <2>2. f = G(f)  BY <2>1
  <2>3. QED  BY <2>2
<1> HIDE DEF E
<1>4. E = G(E)  BY <1>3, Zenon
<1>5. KeptFor(E, K, s, Len(s))
  <2>1. E[0] = <<>>  BY <1>0, <1>4
  <2>2. ASSUME NEW i \in 1..Len(s)
        PROVE  E[i] = IF s[i] \in K THEN Append(E[i - 1], s[i]) ELSE E[i - 1]
    <3>1. i \in 0..Len(s) /\ i # 0  BY <1>0
    <3>2. QED  BY <1>4, <3>1
  <2>3. QED  BY <2>1, <2>2 DEF KeptFor
<1>6. E[Len(s)] = f[Len(s)]
  <2>1. SameUpTo(s, s, Len(s))  BY DEF SameUpTo
  <2>2. \A k \in 0..Len(s) : E[k] = f[k]  BY <1>0, <1>2, <1>5, <2>1, KeptAgree
  <2>3. QED  BY <1>0, <2>2
<1>7. f[Len(s)] \in Seq(S)  BY <1>0
<1>8. QED  BY <1>1, <1>5, <1>6, <1>7

\* Nothing is left of nothing.
LEMMA OnlyEmpty == ASSUME NEW K PROVE Only(K, <<>>) = <<>>
<1>1. PICK f : KeptFor(f, K, <<>>, Len(<<>>)) /\ Only(K, <<>>) = f[Len(<<>>)]
  <2>1. <<>> \in Seq({})  OBVIOUS
  <2>2. QED  BY <2>1, OnlyIsKept
<1>2. QED  BY <1>1 DEF KeptFor

\* A member that is appended is kept, or it changes nothing.
LEMMA OnlyAppend ==
  ASSUME NEW S, NEW K, NEW s \in Seq(S), NEW x \in S
  PROVE  /\ Only(K, s) \in Seq(S)
         /\ Only(K, Append(s, x)) = IF x \in K THEN Append(Only(K, s), x) ELSE Only(K, s)
<1> DEFINE t == Append(s, x)
           n == Len(s)
<1>1. /\ n \in Nat /\ t \in Seq(S) /\ Len(t) = n + 1 /\ t[n + 1] = x
      /\ \A i \in 1..n : t[i] = s[i]
  BY AppendProperties
<1> HIDE DEF t, n
<1>2. PICK f : KeptFor(f, K, s, n) /\ Only(K, s) = f[n] /\ Only(K, s) \in Seq(S)
  BY OnlyIsKept DEF n
<1>3. PICK g : KeptFor(g, K, t, n + 1) /\ Only(K, t) = g[n + 1]
  BY <1>1, OnlyIsKept
<1>4. KeptFor(g, K, t, n)
  <2>1. \A i \in 1..n : i \in 1..(n + 1)  BY <1>1
  <2>2. QED  BY <1>3, <2>1 DEF KeptFor
<1>5. g[n] = f[n]
  <2>1. SameUpTo(t, s, n)  BY <1>1 DEF SameUpTo
  <2>2. \A k \in 0..n : g[k] = f[k]  BY <1>1, <1>2, <1>4, <2>1, KeptAgree
  <2>3. QED  BY <1>1, <2>2
<1>6. g[n + 1] = IF x \in K THEN Append(g[n], x) ELSE g[n]
  <2>1. n + 1 \in 1..(n + 1) /\ (n + 1) - 1 = n  BY <1>1
  <2>2. QED  BY <1>1, <1>3, <2>1 DEF KeptFor
<1>7. QED  BY <1>2, <1>3, <1>5, <1>6 DEF t

\* What the document wants shown is shown, and every note has its link.
LinkInv ==
    ~cut /\ EatenText = {} /\ ~crashed =>
        Len(Only({"link"}, iRichText)) = Len(iNotes) + (IF temp = <<>> THEN 0 ELSE 1)

ShownInv == TextWhereWanted /\ LinkInv

\* A change of the text that is no text.
Silent(new) ==
    /\ Only(Text, new) = Only(Text, iRichText)
    /\ Only({"link"}, new) = Only({"link"}, iRichText)

\* Characters that are no text are not shown as such.
LEMMA SilentAppend ==
  ASSUME NEW doc \in Seq(Chars), Silent(doc), NEW c \in Chars, c \notin Text
  PROVE  Silent(Append(doc, c))
<1>1. c \notin {"link"}  BY DEF Text
<1>2. /\ Only(Text, Append(doc, c)) = Only(Text, doc)
      /\ Only({"link"}, Append(doc, c)) = Only({"link"}, doc)
  BY <1>1, OnlyAppend
<1>3. QED  BY <1>2 DEF Silent

\* A new paragraph takes text away and remembers it, or it takes none.
LEMMA SilentBreak ==
  ASSUME iRichText \in Seq(Chars), iRichText # <<>> => LastChar \notin Text
  PROVE  Silent(AppendParagraphL(DeleteL(iRichText)))
<1> DEFINE less == DeleteL(iRichText)
<1>1. less \in Seq(Chars) /\ Silent(less)
  <2>1. CASE iRichText = <<>>
    <3>1. less = iRichText  BY <2>1 DEF DeleteL
    <3>2. QED  BY <3>1 DEF Silent
  <2>2. CASE iRichText # <<>>
    <3>1. Len(iRichText) \in Nat \ {0}  BY <2>2
    <3>2. less = SubSeq(iRichText, 1, Len(iRichText) - 1)  BY <3>1 DEF DeleteL
    <3>3. less \in Seq(Chars) /\ Len(less) = Len(iRichText) - 1
          /\ \A i \in 1..(Len(iRichText) - 1) : less[i] = iRichText[i]
      <4>1. \A n \in Nat \ {0} : n - 1 \in 0..n /\ 1..(n - 1) \subseteq 1..n  OBVIOUS
      <4>2. ASSUME NEW s \in Seq(Chars), NEW n \in 0..Len(s)
            PROVE  /\ SubSeq(s, 1, n) \in Seq(Chars) /\ Len(SubSeq(s, 1, n)) = n
                   /\ \A i \in 1..n : SubSeq(s, 1, n)[i] = s[i]
        OBVIOUS
      <4>3. Len(iRichText) - 1 \in 0..Len(iRichText)  BY <3>1, <4>1
      <4>4. /\ SubSeq(iRichText, 1, Len(iRichText) - 1) \in Seq(Chars)
            /\ Len(SubSeq(iRichText, 1, Len(iRichText) - 1)) = Len(iRichText) - 1
            /\ \A i \in 1..(Len(iRichText) - 1) :
                 SubSeq(iRichText, 1, Len(iRichText) - 1)[i] = iRichText[i]
        BY <4>2, <4>3
      <4> HIDE DEF less
      <4>5. QED  BY <3>2, <4>4
    <3>4. LastChar \in Chars /\ LastChar = iRichText[Len(iRichText)]
      BY <3>1 DEF LastChar
    <3> HIDE DEF less
    <3>5. iRichText = Append(less, LastChar)
      <4>1. /\ Append(less, LastChar) \in Seq(Chars)
            /\ Len(Append(less, LastChar)) = Len(less) + 1
            /\ Append(less, LastChar)[Len(less) + 1] = LastChar
            /\ \A i \in 1..Len(less) : Append(less, LastChar)[i] = less[i]
        BY <3>3, <3>4, AppendProperties
      <4>2. Len(Append(less, LastChar)) = Len(iRichText)  BY <3>1, <3>3, <4>1
      <4>3. ASSUME NEW i \in 1..Len(iRichText)
            PROVE  iRichText[i] = Append(less, LastChar)[i]
        <5>1. CASE i = Len(iRichText)  BY <3>1, <3>3, <3>4, <4>1, <5>1
        <5>2. CASE i # Len(iRichText)
          <6>1. i \in 1..(Len(iRichText) - 1) /\ i \in 1..Len(less)  BY <3>1, <3>3, <5>2
          <6>2. QED  BY <3>3, <4>1, <6>1
        <5>3. QED  BY <5>1, <5>2
      <4>4. QED  BY <4>1, <4>2, <4>3, SeqEqual
    <3>6. LastChar \notin Text /\ LastChar \notin {"link"}  BY <2>2 DEF Text
    <3>7. /\ Only(Text, Append(less, LastChar)) = Only(Text, less)
          /\ Only({"link"}, Append(less, LastChar)) = Only({"link"}, less)
      BY <3>3, <3>4, <3>6, OnlyAppend
    <3>8. QED  BY <3>3, <3>5, <3>7 DEF Silent
  <2>3. QED  BY <2>1, <2>2
<1> HIDE DEF less
<1>2. CASE Len(less) > 0
  <2>1. "paragraph" \in Chars /\ "paragraph" \notin Text  BY DEF Chars, Text
  <2>2. Silent(Append(less, "paragraph"))  BY <1>1, <2>1, SilentAppend
  <2>3. QED  BY <1>2, <2>2 DEF AppendParagraphL, less
<1>3. CASE ~(Len(less) > 0)
  BY <1>1, <1>3 DEF AppendParagraphL, less
<1>4. QED  BY <1>2, <1>3

\* Between two text nodes no text comes and none goes unnoticed.
Quiet ==
    /\ due' = due /\ mixed' = mixed /\ cut' = cut
    /\ eaten \subseteq eaten'
    /\ EatenText' = {} => Silent(iRichText')

\* No element that starts puts or takes text.
LEMMA QuietStart == ASSUME TypeOK, StartElement PROVE Quiet
<1>0. iRichText \in Seq(Chars) /\ Silent(iRichText)  BY DEF TypeOK, Silent
<1>1. ASSUME NEW e \in Elements, NEW st \in Styles \cup {NoStyle},
             StartParagraph(e, st)
      PROVE  Quiet
  <2>1. due' = due /\ mixed' = mixed /\ cut' = cut  BY <1>1 DEF StartParagraph, Push
  <2>2. CASE UNCHANGED <<iRichText, eaten>>  BY <1>0, <2>1, <2>2 DEF Quiet
  <2>3. CASE /\ iRichText' = AppendParagraphL(DeleteL(iRichText))
             /\ eaten' = IF iRichText = <<>> THEN eaten
                         ELSE eaten \cup {<<LastChar, Where>>}
    <3>1. eaten \subseteq eaten'  BY <2>3
    <3>2. ASSUME EatenText' = {}, iRichText # <<>> PROVE LastChar \notin Text
      <4>1. <<LastChar, Where>> \in eaten'  BY <2>3, <3>2
      <4>2. QED  BY <3>2, <4>1 DEF EatenText
    <3>3. EatenText' = {} => Silent(iRichText')  BY <1>0, <2>3, <3>2, SilentBreak
    <3>4. QED  BY <2>1, <3>1, <3>3 DEF Quiet
  <2>4. QED  BY <1>1, <2>2, <2>3 DEF StartParagraph
<1>2. ASSUME NEW e \in Elements, StartCharacter(e) PROVE Quiet
  <2>1. due' = due /\ mixed' = mixed /\ cut' = cut /\ eaten' = eaten
    BY <1>2 DEF StartCharacter, PageBreak, Push
  <2>2. PICK c \in {"tab", "space", "page"} : iRichText' = Append(iRichText, c)
    BY <1>2 DEF StartCharacter, PageBreak
  <2>3. c \in Chars /\ c \notin Text  BY DEF Chars, Text
  <2>4. Silent(iRichText')  BY <1>0, <2>2, <2>3, SilentAppend
  <2>5. QED  BY <2>1, <2>4 DEF Quiet
<1>3. ASSUME StartChange PROVE Quiet
  BY <1>0, <1>3 DEF StartChange, Push, Quiet
<1>4. ASSUME NEW e \in Elements, StartOther(e) PROVE Quiet
  BY <1>0, <1>4 DEF StartOther, Push, Quiet
<1>5. QED  BY <1>1, <1>2, <1>3, <1>4 DEF StartElement

\* So it is at the end of an element.
LEMMA QuietEnd == ASSUME TypeOK, EndElement PROVE Quiet
<1>0. iRichText \in Seq(Chars) /\ Silent(iRichText)  BY DEF TypeOK, Silent
<1>1. due' = due /\ mixed' = mixed /\ cut' = cut /\ eaten' = eaten
  BY DEF EndElement, EndParagraph, EndCharacter, TableSeparator, EndOther, EndCitation,
         EndNoteBody, EndChange, Pop
<1>2. \/ iRichText' = iRichText
      \/ iRichText' = Append(iRichText, "enter")
      \/ iRichText' = iRichText \o <<"enter">>
      \/ iRichText' = iRichText \o <<"tab", "tab">>
  BY DEF EndElement, EndParagraph, EndCharacter, TableSeparator, EndOther, EndCitation,
         EndNoteBody, EndChange
<1>3. /\ "enter" \in Chars /\ "enter" \notin Text
      /\ "tab" \in Chars /\ "tab" \notin Text
  BY DEF Chars, Text
<1>4. Silent(Append(iRichText, "enter"))  BY <1>0, <1>3, SilentAppend
<1>5. Silent(Append(Append(iRichText, "tab"), "tab"))
  <2>1. Append(iRichText, "tab") \in Seq(Chars)  BY <1>0, <1>3, AppendProperties
  <2>2. Silent(Append(iRichText, "tab"))  BY <1>0, <1>3, SilentAppend
  <2>3. QED  BY <1>3, <2>1, <2>2, SilentAppend
<1>6. iRichText \o <<"enter">> = Append(iRichText, "enter")  BY <1>0
<1>7. iRichText \o <<"tab", "tab">> = Append(Append(iRichText, "tab"), "tab")  BY <1>0
<1>8. Silent(iRichText')  BY <1>0, <1>2, <1>4, <1>5, <1>6, <1>7
<1>9. QED  BY <1>1, <1>8 DEF Quiet

\* A text node goes where the document wants it, unless a hidden text overlaps
\* a note or a change (CharacterData, XML.cpp:1114).
LEMMA RoutedAsWanted ==
  ASSUME IInv, CharacterData, ~mixed'
  PROVE  Routed = Wanted
<1>0. iTags \in Seq(Tags) /\ Good(iTags) /\ Open = OpenIn(iTags) /\ Top = TopOf(iTags)
  <2>1. iTags \in Seq(Tags)  BY DEF IInv, TypeOK, Tags
  <2>2. QED  BY <2>1, OpenIsOpenIn, TopIsTopOf DEF IInv
<1>1. Top \in {"p", "h", "span", "note_citation"} /\ Top \in Open
  <2>1. Top \in {"p", "h", "span", "note_citation"}
    BY DEF CharacterData, Paragraphs
  <2>2. iTags # <<>>  BY <2>1 DEF Top
  <2>3. QED  BY <1>0, <2>1, <2>2, StackFacts
<1>2. Hidden => Open \cap {"note_citation", "note_body"} = {} /\ ~iChange
  BY DEF CharacterData
<1>3. Hidden <=> IsAnnotation \/ IsTrackedChanges \/ IsFooter
  BY DEF Hidden, IsAnnotation, IsTrackedChanges, IsFooter
<1>4. CASE Hidden
  <2>1. ~IsNote /\ ~IsNoteCitation  BY <1>1, <1>2, <1>4 DEF IsNote, IsNoteCitation
  <2>2. Routed = "nowhere"  BY <1>2, <1>3, <1>4, <2>1 DEF Routed
  <2>3. QED  BY <1>4, <2>2 DEF Wanted
<1>5. CASE ~Hidden /\ Top = "note_citation"
  <2>1. IsNoteCitation  BY <1>5 DEF IsNoteCitation
  <2>2. Routed = "link"  BY <2>1 DEF Routed
  <2>3. Wanted = "link"  BY <1>5 DEF Wanted
  <2>4. QED  BY <2>2, <2>3
<1>6. CASE ~Hidden /\ Top # "note_citation" /\ IsNote
  <2>1. ~IsNoteCitation  BY <1>6 DEF IsNoteCitation
  <2>2. Routed = "note"  BY <1>6, <2>1 DEF Routed
  <2>3. Wanted = "note"  BY <1>6 DEF Wanted, IsNote
  <2>4. QED  BY <2>2, <2>3
<1>7. CASE ~Hidden /\ Top # "note_citation" /\ ~IsNote
  <2>1. IsText  BY <1>1, <1>7 DEF IsText
  <2>2. Wanted = IF iChange THEN "inserted" ELSE "text"
    BY <1>7 DEF Wanted, IsNote
  <2>3. QED  BY <1>3, <1>7, <2>1, <2>2 DEF Routed, IsNoteCitation
<1>8. QED  BY <1>4, <1>5, <1>6, <1>7

\* Every step shows what is wanted, and links the notes.
LEMMA ShownStep == ASSUME IInv, ShownInv, Next PROVE ShownInv'
<1>0. /\ iRichText \in Seq(Chars) /\ due \in Seq(Places)
      /\ temp \in Seq({"citation", "addition", "words"}) /\ Len(iNotes) \in Nat
  BY DEF IInv, TypeOK
<1>1. ASSUME Quiet PROVE TextWhereWanted'
  <2> SUFFICES ASSUME ~mixed, EatenText' = {} PROVE Shown' = Only(Text, due')
    BY <1>1 DEF Quiet, TextWhereWanted
  <2>1. EatenText = {}  BY <1>1 DEF Quiet, EatenText
  <2>2. Only(Text, iRichText') = Only(Text, iRichText)  BY <1>1 DEF Quiet, Silent
  <2>3. Only(Text, iRichText) = Only(Text, due)
    BY <2>1 DEF ShownInv, TextWhereWanted, Shown
  <2>4. QED  BY <1>1, <2>2, <2>3 DEF Quiet, Shown
<1>2. ASSUME Quiet, ~cut', EatenText' = {}
      PROVE  ~cut /\ EatenText = {} /\ Only({"link"}, iRichText') = Only({"link"}, iRichText)
  BY <1>2 DEF Quiet, EatenText, Silent
<1>3. CASE StartElement
  <2>1. Quiet  BY <1>3, QuietStart DEF IInv
  <2>2. temp' = temp /\ iNotes' = iNotes /\ crashed' = crashed
    BY <1>3 DEF StartElement, StartParagraph, StartCharacter, PageBreak, StartChange, StartOther,
                Push
  <2>3. LinkInv'  BY <1>2, <2>1, <2>2 DEF ShownInv, LinkInv
  <2>4. QED  BY <1>1, <2>1, <2>3 DEF ShownInv
<1>4. CASE EndElement
  <2>1. Quiet  BY <1>4, QuietEnd DEF IInv
  <2>2. ~crashed' =>
          /\ ~crashed
          /\ Len(iNotes') + (IF temp' = <<>> THEN 0 ELSE 1) =
               Len(iNotes) + (IF temp = <<>> THEN 0 ELSE 1)
    <3>1. CASE EndCitation
      <4>1. temp # <<>> => Append(temp, "addition") # <<>>  BY <1>0, AppendProperties
      <4>2. QED  BY <3>1, <4>1 DEF EndCitation, Pop
    <3>2. CASE EndNoteBody
      <4>1. Len(Append(iNotes, temp)) = Len(iNotes) + 1
        BY DEF IInv, TypeOK
      <4>2. QED  BY <1>0, <3>2, <4>1 DEF EndNoteBody, Pop
    <3>3. CASE ~EndCitation /\ ~EndNoteBody
      <4>1. temp' = temp /\ iNotes' = iNotes /\ crashed' = crashed
          BY <1>4, <3>3 DEF EndElement, EndParagraph, EndCharacter, TableSeparator, EndOther,
                          EndChange
      <4>2. QED  BY <4>1
    <3>4. QED  BY <3>1, <3>2, <3>3
  <2>3. LinkInv'  BY <1>2, <2>1, <2>2 DEF ShownInv, LinkInv
  <2>4. QED  BY <1>1, <2>1, <2>3 DEF ShownInv
<1>5. CASE CharacterData
  <2>1. /\ due' = Append(due, Wanted) /\ (mixed => mixed')
        /\ cut' = (cut \/ (Top = "note_citation" /\ temp # <<>>))
        /\ iRichText' = IF Routed \in Text THEN Append(iRichText, Routed) ELSE iRichText
        /\ temp' = CASE Routed = "link" -> <<"citation">>
                     [] Routed = "note" -> Append(temp, "words")
                     [] OTHER -> temp
        /\ iNotes' = iNotes /\ crashed' = crashed /\ eaten' = eaten /\ ~crashed
    BY <1>5 DEF CharacterData
  <2>2. Wanted \in Places /\ (Routed \in Text => Routed \in Chars)
    BY DEF Wanted, Places, Chars
  <2>3. EatenText' = EatenText  BY <2>1 DEF EatenText
  <2>4. TextWhereWanted'
    <3> SUFFICES ASSUME ~mixed', EatenText = {} PROVE Shown' = Only(Text, due')
      BY <2>3 DEF TextWhereWanted
    <3>1. Routed = Wanted  BY <1>5, RoutedAsWanted
    <3>2. Only(Text, iRichText) = Only(Text, due)
      BY <2>1 DEF ShownInv, TextWhereWanted, Shown
    <3>3. CASE Wanted \in Text
      <4>1. Only(Text, Append(iRichText, Wanted)) = Append(Only(Text, iRichText), Wanted)
        BY <1>0, <2>2, <3>1, <3>3, OnlyAppend
      <4>2. Only(Text, Append(due, Wanted)) = Append(Only(Text, due), Wanted)
        BY <1>0, <2>2, <3>3, OnlyAppend
      <4>3. QED  BY <2>1, <3>1, <3>2, <3>3, <4>1, <4>2 DEF Shown
    <3>4. CASE Wanted \notin Text
      <4>1. Only(Text, Append(due, Wanted)) = Only(Text, due)
        BY <1>0, <2>2, <3>4, OnlyAppend
      <4>2. QED  BY <2>1, <3>1, <3>2, <3>4, <4>1 DEF Shown
    <3>5. QED  BY <3>3, <3>4
  <2>5. LinkInv'
    <3> SUFFICES ASSUME ~cut', EatenText = {}
                 PROVE  Len(Only({"link"}, iRichText')) =
                          Len(iNotes) + (IF temp' = <<>> THEN 0 ELSE 1)
      BY <2>1, <2>3 DEF LinkInv
    <3>1. Len(Only({"link"}, iRichText)) = Len(iNotes) + (IF temp = <<>> THEN 0 ELSE 1)
      BY <2>1 DEF ShownInv, LinkInv
    <3>2. CASE Routed = "link"
      <4>1. temp = <<>> /\ temp' = <<"citation">> /\ temp' # <<>>
        BY <2>1, <3>2 DEF Routed, IsNoteCitation
      <4>2. /\ iRichText' = Append(iRichText, "link") /\ "link" \in Chars
            /\ Only({"link"}, iRichText) \in Seq(Chars)
            /\ Only({"link"}, iRichText') = Append(Only({"link"}, iRichText), "link")
        <5>1. iRichText' = Append(iRichText, "link")  BY <2>1, <3>2 DEF Text
        <5>2. "link" \in Chars /\ "link" \in {"link"}  BY DEF Chars, Text
        <5>3. /\ Only({"link"}, iRichText) \in Seq(Chars)
              /\ Only({"link"}, Append(iRichText, "link")) =
                   Append(Only({"link"}, iRichText), "link")
          BY <1>0, <5>2, OnlyAppend
        <5>4. QED  BY <5>1, <5>2, <5>3
      <4>3. Len(Only({"link"}, iRichText')) = Len(Only({"link"}, iRichText)) + 1
        BY <4>2, AppendProperties
      <4>4. QED  BY <1>0, <3>1, <4>1, <4>3
    <3>3. CASE Routed # "link"
      <4>1. Only({"link"}, iRichText') = Only({"link"}, iRichText)
        <5>1. CASE Routed \in Text
          <6>1. Routed \notin {"link"}  BY <3>3
          <6>2. QED  BY <1>0, <2>1, <2>2, <5>1, <6>1, OnlyAppend
        <5>2. CASE Routed \notin Text  BY <2>1, <5>2
        <5>3. QED  BY <5>1, <5>2
      <4>2. temp' = <<>> <=> temp = <<>>
        <5>1. CASE Routed = "note"
          <6>1. "note_body" \in OpenIn(iTags)
            <7>1. iTags \in Seq(Tags)  BY DEF IInv, TypeOK, Tags
            <7>2. QED  BY <5>1, <7>1, OpenIsOpenIn DEF Routed, IsNote
          <6>2. Len(temp) >= 2 /\ <<>> \in Seq({}) /\ Len(<<>>) = 0
            BY <2>1, <6>1 DEF IInv, NoteInv, Shape
          <6>3. temp # <<>> /\ Append(temp, "words") # <<>>
            BY <1>0, <6>2, AppendProperties
          <6>4. QED  BY <2>1, <5>1, <6>3
        <5>2. CASE Routed # "note"  BY <2>1, <3>3, <5>2
        <5>3. QED  BY <5>1, <5>2
      <4>3. QED  BY <3>1, <4>1, <4>2
    <3>4. QED  BY <3>2, <3>3
  <2>6. QED  BY <2>4, <2>5 DEF ShownInv
<1>6. QED  BY <1>3, <1>4, <1>5 DEF Next

\* It is so at first.
LEMMA ShownInit == Init => ShownInv
<1> SUFFICES ASSUME Init PROVE ShownInv
  OBVIOUS
<1>1. iRichText = <<>> /\ due = <<>> /\ iNotes = <<>> /\ temp = <<>>  BY DEF Init
<1>2. Only(Text, <<>>) = <<>> /\ Only({"link"}, <<>>) = <<>>  BY OnlyEmpty
<1>3. QED  BY <1>1, <1>2 DEF ShownInv, TextWhereWanted, Shown, LinkInv

------------------------------------------------------------------------------
(* The theorems.                                                              *)

\* The invariant is kept by every step of the reader.
LEMMA Inductive == ASSUME IInv, [Next]_vars PROVE IInv'
<1>1. CASE Next  BY <1>1, TypeStep, GoodStep, TextStep, NoteStep DEF IInv
<1>2. CASE UNCHANGED vars
  <2>1. Open' = Open /\ LastChar' = LastChar
    BY <1>2 DEF vars, Open, LastChar
  <2>2. TypeOK'  BY <1>2 DEF vars, IInv, TypeOK
  <2>3. Good(iTags')  BY <1>2 DEF vars, IInv
  <2>4. TextInv'
    BY <1>2, <2>1 DEF vars, IInv, TextInv, ParagraphsStaySeparate,
                      DeletionsSilent, TextEatenOnlyInCellsAndBoxes
  <2>5. NoteInv'
    BY <1>2, <2>1 DEF vars, IInv, NoteInv, NoStaleNote, Shape
  <2>6. QED  BY <2>2, <2>3, <2>4, <2>5 DEF IInv
<1>3. QED  BY <1>1, <1>2

\* The inductive invariant holds of every document.
THEOREM InvCorrect == Spec => []IInv
BY InitInv, Inductive, PTL DEF Spec

\* The state of the reader has its type, whatever document the parser reports
\* (CTextXML and CTags, XML.cpp:680 and 1263).
THEOREM TypeCorrect == Spec => []TypeOK
<1>1. IInv => TypeOK  BY DEF IInv
<1>2. QED  BY <1>1, InvCorrect, PTL

\* Between two paragraphs outside cells the text never ends in text, so that
\* two paragraphs never run together (the enter of XML.cpp:1171).
THEOREM SeparateCorrect == Spec => []ParagraphsStaySeparate
<1>1. IInv => ParagraphsStaySeparate  BY DEF IInv, TextInv
<1>2. QED  BY <1>1, InvCorrect, PTL

\* A new paragraph removes text only inside a table cell or a text box
\* (DeleteL of XML.cpp:907).
THEOREM EatenCorrect == Spec => []TextEatenOnlyInCellsAndBoxes
<1>1. IInv => TextEatenOnlyInCellsAndBoxes  BY DEF IInv, TextInv
<1>2. QED  BY <1>1, InvCorrect, PTL

\* A note under construction never outlives its element: no words of one note
\* get into the next (temp of XML.cpp:1215).
THEOREM NoStaleNoteCorrect == Spec => []NoStaleNote
<1>1. IInv => NoStaleNote  BY DEF IInv, NoteInv
<1>2. QED  BY <1>1, InvCorrect, PTL

\* What the editor shows is what the document wants shown, in its order, unless
\* a hidden text overlaps a note or a change, or a paragraph in a cell or a box
\* takes text away; and every note is whole and has its link.  So for documents
\* of every depth and length (XML.cpp:1114, 907 and 1215).
THEOREM PromiseCorrect == Spec => []TextWherePromised
<1>1. IInv /\ ShownInv /\ [Next]_vars => (IInv /\ ShownInv)'
  <2> SUFFICES ASSUME IInv, ShownInv, [Next]_vars PROVE IInv' /\ ShownInv'
    OBVIOUS
  <2>1. CASE Next  BY <2>1, Inductive, ShownStep
  <2>2. CASE UNCHANGED vars
    <3>1. ShownInv'
      BY <2>2 DEF vars, ShownInv, TextWhereWanted, Shown, LinkInv, EatenText
    <3>2. QED  BY <3>1, Inductive
  <2>3. QED  BY <2>1, <2>2
<1>2. IInv /\ ShownInv => TextWherePromised
  <2> SUFFICES ASSUME IInv, ShownInv PROVE TextWherePromised
    OBVIOUS
  <2>1. NotesComplete
    <3>1. DOMAIN iNotes = 1..Len(iNotes) /\ \A i \in DOMAIN iNotes : DOMAIN iNotes[i] = 1..Len(iNotes[i])
      BY DEF IInv, TypeOK
    <3>2. \A i \in DOMAIN iNotes :
            /\ Len(iNotes[i]) >= 2
            /\ \A j \in DOMAIN iNotes[i] :
                  iNotes[i][j] = IF j = 1 THEN "citation"
                                 ELSE IF j = 2 THEN "addition" ELSE "words"
      BY <3>1 DEF IInv, NoteInv, Shape
    <3>3. QED  BY <3>2 DEF NotesComplete, ShownInv, LinkInv
  <2>2. QED  BY <2>1 DEF TextWherePromised, IInv, ShownInv
<1>3. QED  BY <1>1, <1>2, InitInv, ShownInit, PTL DEF Spec
==============================================================================
