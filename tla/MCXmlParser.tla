---------------------------- MODULE MCXmlParser ----------------------------
(* Documents for XmlParser, written as trees beside what they mean.           *)
EXTENDS XmlParser

\* What is told of a piece of text: at its start, at its end, or anywhere.
At(e) == [e |-> e, where |-> "start"]
Behind1(e) == [e |-> e, where |-> "end"]
Somewhere(e) == [e |-> e, where |-> "any"]
Piece(text, events) == [text |-> text, events |-> events]
CharData(text, chars) == Piece(text, [i \in DOMAIN chars |-> Somewhere([what |-> "char", c |-> chars[i]])])

Att(name, raw, value) == [name |-> name, raw |-> raw, value |-> value]
Plain(name, value) == Att(name, value, value)
Xmlns(prefix, uri) == Plain(IF prefix = <<>> THEN <<"xmlns">> ELSE <<"xmlns", ":">> \o prefix, uri)
Element(name, atts, kids) == [name |-> name, atts |-> atts, kids |-> kids, empty |-> FALSE]
Empty(name, atts) == [name |-> name, atts |-> atts, kids |-> <<>>, empty |-> TRUE]

\* The tree as pieces; env says what prefixes mean, defaults the attributes of elements.
NameIn(env, name, isAtt) ==
    LET prefix == Prefix(name)
    IN  IF prefix = <<>> /\ (isAtt \/ env[<<>>] = <<>>) THEN [uri |-> <<>>, local |-> name, prefix |-> <<>>]
        ELSE [uri |-> env[prefix], local |-> LocalPart(name), prefix |-> prefix]
RECURSIVE Pieces(_, _, _)
Pieces(el, env, defaults) ==
    LET names == {el.atts[i].name : i \in DOMAIN el.atts}
        more == IF el.name \in DOMAIN defaults
                THEN SelectSeq(defaults[el.name], LAMBDA d : d.name \notin names) ELSE <<>>
        all == el.atts \o more
        decls == SelectSeq(all, LAMBDA a : IsXmlns(a.name))
        inner == FoldLeft(LAMBDA e, d : Declares(d.name) :> d.value @@ e, env, decls)
        name == NameIn(inner, el.name, FALSE)
        atts == SelectSeq(all, LAMBDA a : ~IsXmlns(a.name))
        starts == [i \in DOMAIN decls |->
                      At([what |-> "startNamespace", prefix |-> Declares(decls[i].name),
                          uri |-> IF decls[i].value = <<>> THEN Null ELSE decls[i].value])]
        start == At([what |-> "start", name |-> name,
                     atts |-> [i \in DOMAIN atts |-> [name |-> NameIn(inner, atts[i].name, TRUE),
                                                      value |-> atts[i].value]]])
        end == [what |-> "end", name |-> name]
        ends == [i \in DOMAIN decls |->
                    [what |-> "endNamespace", prefix |-> Declares(decls[Len(decls) + 1 - i].name)]]
        tag == <<"<">> \o el.name \o FlattenSeq([i \in DOMAIN el.atts |->
                   <<" ">> \o el.atts[i].name \o <<"=", "'">> \o el.atts[i].raw \o <<"'">>])
    IN  IF el.empty
        THEN <<Piece(tag \o <<"/", ">">>,
                     starts \o <<start>> \o [i \in 1..(1 + Len(ends)) |-> Behind1((<<end>> \o ends)[i])])>>
        ELSE <<Piece(tag \o <<">">>, Append(starts, start))>>
             \o FlattenSeq([i \in DOMAIN el.kids |->
                    IF "text" \in DOMAIN el.kids[i] THEN <<el.kids[i]>>
                    ELSE Pieces(el.kids[i], inner, defaults)])
             \o <<Piece(<<"<", "/">> \o el.name \o <<" ", ">">>,
                        [i \in 1..(1 + Len(ends)) |-> At((<<end>> \o ends)[i])])>>

LinesBefore(t, n) ==
    1 + Cardinality({i \in 1..n : t[i] = "lf" \/ (t[i] = "cr" /\ t[i + 1] # "lf")})
TextOfAll(pieces) == FlattenSeq([i \in DOMAIN pieces |-> pieces[i].text])
Document(before, body, after, err) ==
    LET all == before \o body \o after
        text == TextOfAll(all)
        start(i) == Len(TextOfAll(SubSeq(all, 1, i - 1)))
        Placed(i) == [k \in DOMAIN all[i].events |->
                         LET ev == all[i].events[k]
                             at == CASE ev.where = "start" -> start(i)
                                     [] ev.where = "end" -> start(i) + Len(all[i].text)
                                     [] OTHER -> -1
                         IN  [e |-> ev.e, at |-> at, line |-> IF at >= 0 THEN LinesBefore(text, at) ELSE 0]]
    IN  [text |-> text, told |-> FlattenSeq([i \in DOMAIN all |-> Placed(i)]), err |-> err,
         root |-> IF err \in {"NONE", "JUNK_AFTER_DOC_ELEMENT"}
                  THEN Len(TextOfAll(before \o body)) ELSE Len(text) + 1]

NoEnv == <<>> :> <<>> @@ <<"xml">> :> <<"XML">>
Good(before, root, after) == Document(before, Pieces(root, NoEnv, <<>>), after, "NONE")
Bad(pieces, err) == Document(<<>>, pieces, <<>>, err)
Tree(el) == Pieces(el, NoEnv, <<>>)

------------------------------------------------------------------------------

a == <<"a">>
b == <<"b">>
na == <<"n", ":", "a">>
nb == <<"n", ":", "b">>
n == <<"n">>
Note == Piece(<<"<", "!", "-", "-", "a", "cr", "-", "-", ">">>, <<At([what |-> "comment", data |-> <<"a", "lf">>])>>)
Target == Piece(<<"<", "?", "n", " ", "a", "?", ">">>, <<At([what |-> "pi", target |-> n, data |-> a])>>)
Lines == CharData(<<"cr", "lf", "a", "cr">>, <<"lf", "a", "lf">>)
Brackets3 == CharData(<<"]", "]", "u1", "u2">>, <<"]", "]", "u1", "u2">>)
Refs == CharData(<<"&", "lt", ";", "&", "#", "1", "0", ";">>, <<"<", "lf">>)
Section == <<Piece(<<"<", "!", "[", "CDATA", "[">>, <<At([what |-> "startCdata"])>>),
             CharData(<<"<", "]", "cr", "lf">>, <<"<", "]", "lf">>),
             Piece(<<"]", "]", ">">>, <<At([what |-> "endCdata"])>>)>>
Break == CharData(<<"cr", "lf">>, <<>>)

XmlDecl == CharData(<<"<", "?", "xml", " ", "version", "=", "'", "1", "'", "?", ">">>, <<>>)
Skipped == Piece(<<"&", "n", ";">>, <<At([what |-> "skipped", name |-> n])>>)
Doctype(sys, subset) == Somewhere([what |-> "startDoctype", name |-> a, sys |-> sys, pub |-> Null, subset |-> subset])
EndDoctype == Somewhere([what |-> "endDoctype"])
External == Piece(<<"<", "!", "DOCTYPE", " ", "a", " ", "SYSTEM", " ", "'", "x", "'", ">">>,
                  <<Doctype(<<"x">>, FALSE), EndDoctype>>)
SubsetStart == Piece(<<"<", "!", "DOCTYPE", " ", "a", "[">>, <<Doctype(Null, TRUE)>>)
SubsetEnd == Piece(<<"]", ">">>, <<EndDoctype>>)
EntityDecl == Piece(<<"<", "!", "ENTITY", " ", "n", " ", "'", "x", "'", ">">>,
                    <<Somewhere(EntityEvent(n, [NoEntity EXCEPT !.text = <<"x">>]))>>)
Attlist == CharData(<<"<", "!", "ATTLIST", " ", "a", " ", "xmlns", ":", "n", " ", "CDATA", " ", "'", "x", "'",
                  " ", "b", " ", "NMTOKENS", " ", "'", " ", "x", "'", ">">>, <<>>)
AttDefaults == a :> <<Xmlns(n, <<"x">>), Plain(b, <<"x">>)>>

NameDocuments == <<
    Element(na, <<Xmlns(n, <<"x">>)>>, <<Empty(nb, <<>>), Empty(<<"n", ":", "b", "-", "-", "-">>, <<>>)>>),
    Element(na, <<Xmlns(n, <<"x">>)>>,
            <<Element(<<"n", ":", "b", "-", "-", "-">>, <<Xmlns(a, <<"b">>)>>, <<Empty(na, <<>>)>>)>>),
    Element(na, <<Xmlns(n, <<"x">>)>>, <<Element(nb, <<Xmlns(n, b)>>, <<>>), Empty(nb, <<Plain(na, <<>>)>>)>>),
    Element(a, <<Xmlns(<<>>, <<"x">>)>>, <<Element(b, <<Xmlns(<<>>, <<>>)>>, <<Empty(a, <<>>)>>), Empty(b, <<>>)>>),
    Element(a, <<Plain(<<"xml", ":", "a">>, b), Plain(b, a), Att(<<"x">>, <<"&", "lt", ";", "tab">>, <<"<", " ">>)>>, <<>>),
    Empty(a, <<Plain(nb, a), Plain(b, a), Xmlns(n, <<"x">>), Plain(<<"a", ":", "b">>, b), Xmlns(a, b)>>)>>
Contents == <<<<Note, Target>>, <<Lines, Empty(b, <<>>), Brackets3>>, <<Refs, Target>>, Section,
             <<Element(b, <<>>, Section \o <<Element(a, <<>>, <<>>)>>)>>>>
GoodDocuments ==
    [i \in DOMAIN NameDocuments |-> Good(<<>>, NameDocuments[i], <<>>)]
    \o [i \in DOMAIN Contents |-> Good(<<>>, Element(a, <<>>, Contents[i]), <<>>)]
    \o <<Good(<<XmlDecl, Note>>, Empty(a, <<>>), <<>>),
          Good(<<>>, Empty(a, <<>>), <<Break, Note, Target>>),
          Good(<<>>, Element(a, <<>>, <<>>), <<Note>>),
          Good(<<External>>, Element(a, <<>>, <<Skipped>>), <<>>),
          Good(<<SubsetStart, EntityDecl, SubsetEnd>>, Element(a, <<>>, <<Skipped>>), <<>>),
          Document(<<SubsetStart, Attlist, SubsetEnd>>,
                   Pieces(Element(a, <<Att(b, <<" ", "1", " ", " ", "0">>, <<"1", " ", "0">>)>>,
                                  <<Empty(nb, <<>>), Empty(a, <<Xmlns(n, b)>>)>>), NoEnv, AttDefaults),
                   <<>>, "NONE")>>
BadDocuments ==
    LET Open(el) == Tree(el)[1]
        Just(text) == Piece(text, <<>>)
        Decl(p, u) == At([what |-> "startNamespace", prefix |-> p, uri |-> u])
        InA(piece, err) == Bad(<<Open(Element(a, <<>>, <<>>)), piece, Just(<<"<", "/", "a", ">">>)>>, err)
    IN  <<Bad(<<Open(Element(a, <<>>, <<>>)), Open(Element(b, <<>>, <<>>)), Just(<<"<", "/", "a", ">">>)>>, "TAG_MISMATCH"),
         Bad(<<Open(Element(a, <<Xmlns(n, <<"x">>)>>, <<>>))>> \o Pieces(Empty(nb, <<>>), n :> <<"x">> @@ NoEnv, <<>>)
             \o <<Just(<<"<", "/", "b", ">">>)>>, "TAG_MISMATCH"),
         Bad(Tree(Element(a, <<>>, <<Element(b, <<Xmlns(n, <<"x">>)>>, <<>>)>>)) , "NONE"),
         Bad(<<Open(Element(a, <<>>, <<>>))>> \o Tree(Empty(b, <<Xmlns(n, <<"x">>)>>))
             \o <<Just(<<"<", "n", ":", "b", "/", ">">>)>>, "UNBOUND_PREFIX"),
         Bad(<<Just(<<"<", "a", " ", "b", "=", "'", "'", " ", "b", "=", "'", "'", "/", ">">>)>>, "DUPLICATE_ATTRIBUTE"),
         Bad(<<Piece(<<"<", "a", " ", "xmlns", ":", "n", "=", "'", "x", "'", " ", "xmlns", ":", "x", "=", "'", "x", "'",
                       " ", "n", ":", "b", "=", "'", "'", " ", "x", ":", "b", "=", "'", "'", "/", ">">>,
                     <<Decl(n, <<"x">>), Decl(<<"x">>, <<"x">>)>>)>>, "DUPLICATE_ATTRIBUTE"),
         Bad(<<Just(<<"<", "a", " ", "xmlns", ":", "n", "=", "'", "'", "/", ">">>)>>, "UNDECLARING_PREFIX"),
         InA(Just(<<"&", "n", ";">>), "UNDEFINED_ENTITY"),
         InA(CharData(<<"]", "]", ">">>, <<"]", "]">>), "INVALID_TOKEN"),
         InA(Just(<<"&", "#", "0", ";">>), "BAD_CHAR_REF"),
         InA(XmlDecl, "MISPLACED_XML_PI"),
         Document(<<>>, Tree(Empty(a, <<>>)), <<Just(<<"x">>)>>, "JUNK_AFTER_DOC_ELEMENT"),
         Document(<<>>, Tree(Empty(a, <<>>)), <<Just(<<"<", "b", "/", ">">>)>>, "JUNK_AFTER_DOC_ELEMENT"),
         Bad(<<Note>>, "NO_ELEMENTS"),
         Bad(<<SubsetStart, Just(<<"a">>)>>, "SYNTAX")>>
SomeDocuments == Range(GoodDocuments \o BadDocuments)
=============================================================================
