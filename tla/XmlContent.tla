----------------------------- MODULE XmlContent -----------------------------
(* What the tokens of the content make of the parser (doContent, storeAtts,   *)
(* addBinding and doCdataSection in SyExpat/lib/xmlparse.c), with namespaces  *)
(* and the handlers that SyExpat sets.  Its default handler keeps entities    *)
(* from being expanded; what that handler hears itself is left out.           *)
(*                                                                            *)
(* x.p is the parser of the prolog, whose p.told is what the handlers hear of *)
(* the token at hand; x.tags are the open elements, the inner ones last;      *)
(* x.heap the bindings of prefixes, the newer ones last, and x.bound the one  *)
(* that holds for each prefix.  The buffer of a binding holds the URI and     *)
(* behind it the name of the element that was the last to need it (name); at  *)
(* counts how often the buffer was moved.                                     *)
EXTENDS XmlDtd

CONSTANT ExpandSpare    \* the spare room of a new buffer (24)
ASSUME ContentAssumption == ExpandSpare \in Nat

Prefix(name) == IF Contains(name, ":") THEN SubSeq(name, 1, Min({i \in DOMAIN name : name[i] = ":"}) - 1)
                ELSE <<>>
LocalPart(name) == IF Contains(name, ":") THEN RestOf(name, Len(Prefix(name)) + 2) ELSE name
\* The prefix that an xmlns attribute declares, <<>> for the default one.
Declares(att) == RestOf(att, 3)

Binding(uri, prefix, prev) ==
    [uri |-> uri, prefix |-> prefix, prev |-> prev, name |-> [local |-> <<>>, prefix |-> <<>>],
     at |-> 0, alloc |-> Len(uri) + 1 + ExpandSpare]
\* setContext: the prefix xml is bound from the start.
contentInit ==
    [p |-> parserInit, tags |-> <<>>, heap |-> <<Binding(<<"XML">>, <<"xml">>, 0)>>,
     bound |-> <<"xml">> :> 1]
BoundTo(x, prefix) == IF prefix \in DOMAIN x.bound THEN x.bound[prefix] ELSE 0

Err(x, err) == [x EXCEPT !.p.err = err]
Told(x, events) == [x EXCEPT !.p.told = @ \o events]
CharsTold(x, t) == Told(x, [i \in DOMAIN t |-> [what |-> "char", c |-> t[i]]])

------------------------------------------------------------------------------
(* The attributes of a tag.  a.seen are the names that were given, a.atts is  *)
(* what the handler will get, a.decls the bindings the tag makes, last first. *)

addBinding(a, prefix, uri) ==
    LET id == Len(a.x.heap) + 1
        off == uri = <<>>
        y == [a.x EXCEPT !.heap = Append(@, Binding(uri, prefix, BoundTo(a.x, prefix))),
                         !.bound = prefix :> (IF off THEN 0 ELSE id) @@ @]
    IN  IF off /\ prefix # <<>> THEN [a EXCEPT !.x = Err(@, "UNDECLARING_PREFIX")]
        ELSE [a EXCEPT !.decls = <<id>> \o @,
                       !.x = Told(y, <<[what |-> "startNamespace", prefix |-> prefix,
                                        uri |-> IF off THEN Null ELSE uri]>>)]

\* A declared type matters to values that the scan of the tag found not normalised.
ValueOf(dtd, elem, att) ==
    LET kept == SelectSeq(TypeOf(dtd, elem).atts, LAMBDA d : d.id = att.name)
        cdata == att.name \notin dtd.tokenized \/ kept = <<>> \/ kept[1].cdata
    IN  IF att.normalized THEN StoredValue(att.value)
        ELSE storeAttributeValue(att.value, cdata, Declared(dtd))

Given(a, elem, att) ==
    LET v == ValueOf(a.x.p.dtd, elem, att)
        b == [a EXCEPT !.seen = @ \cup {att.name}]
    IN  IF a.x.p.err # "NONE" THEN a
        ELSE IF att.name \in a.seen THEN [a EXCEPT !.x = Err(@, "DUPLICATE_ATTRIBUTE")]
        ELSE IF v.err # "NONE" THEN [a EXCEPT !.x = Err(@, v.err)]
        ELSE IF IsXmlns(att.name) THEN addBinding(b, Declares(att.name), v.val)
        ELSE [b EXCEPT !.atts = Append(@, [name |-> att.name, value |-> v.val])]

Default(a, d) ==
    IF a.x.p.err # "NONE" \/ d.id \in a.seen \/ d.value = Null THEN a
    ELSE IF IsXmlns(d.id) THEN addBinding(a, Declares(d.id), d.value)
    ELSE [a EXCEPT !.seen = @ \cup {d.id}, !.atts = Append(@, [name |-> d.id, value |-> d.value])]

Expanded(x, name) ==
    LET b == BoundTo(x, Prefix(name))
    IN  IF Prefix(name) = <<>> \/ b = 0 THEN [uri |-> <<>>, local |-> name, prefix |-> <<>>]
        ELSE [uri |-> x.heap[b].uri, local |-> LocalPart(name), prefix |-> Prefix(name)]
\* The names of attributes, prefixes resolved; no two may mean the same.
Expand(a, n) ==
    LET name == a.atts[n].name
        long == Expanded(a.x, name)
        same == {i \in 1..(n - 1) : /\ a.atts[i].name.prefix # <<>>
                                    /\ a.atts[i].name.uri = long.uri /\ a.atts[i].name.local = long.local}
    IN  IF a.x.p.err # "NONE" THEN a
        ELSE IF Prefix(name) # <<>> /\ BoundTo(a.x, Prefix(name)) = 0
        THEN [a EXCEPT !.x = Err(@, "UNBOUND_PREFIX")]
        ELSE IF Prefix(name) # <<>> /\ same # {} THEN [a EXCEPT !.x = Err(@, "DUPLICATE_ATTRIBUTE")]
        ELSE [a EXCEPT !.atts[n].name = long]

------------------------------------------------------------------------------
(* The name of an element: its own (bind = 0), or one in the buffer of a      *)
(* binding, to which it points until that buffer is moved.                    *)

Garbage == <<"garbage">>

\* A name is put behind the URI, in a larger buffer where it needs one, to which
\* the names of all open elements in the old one are moved.
Place(x, b, local, prefix) ==
    LET n == Len(local) + 1 + Len(x.heap[b].uri) + 1 + (IF prefix = <<>> THEN 0 ELSE Len(prefix) + 1)
        moves == n > x.heap[b].alloc
    IN  [x EXCEPT !.heap[b].name = [local |-> local, prefix |-> prefix],
                  !.heap[b].alloc = IF moves THEN n + ExpandSpare ELSE @,
                  !.heap[b].at = IF moves THEN @ + 1 ELSE @,
                  !.tags = [i \in DOMAIN @ |->
                               IF moves /\ @[i].bind = b /\ @[i].at = x.heap[b].at
                               THEN [@[i] EXCEPT !.at = @ + 1] ELSE @[i]]]
NameAt(x, bind, at, raw) ==
    IF bind = 0 THEN [uri |-> <<>>, local |-> raw, prefix |-> <<>>]
    ELSE IF at # x.heap[bind].at THEN [uri |-> Garbage, local |-> Garbage, prefix |-> Garbage]
    ELSE [uri |-> x.heap[bind].uri, local |-> x.heap[bind].name.local, prefix |-> x.heap[bind].name.prefix]

\* The element of a start tag: the parser behind its attributes, the binding its
\* name needs and its bindings.  raw is its name, text the whole tag.
ExpandAll(a) == FoldLeft(Expand, a, [i \in DOMAIN a.atts |-> i])
\* The element's own name, with the binding b.
Bound(a, raw, b) ==
    IF a.x.p.err # "NONE" THEN a
    ELSE IF b # 0 THEN [a EXCEPT !.x = Place(@, b, LocalPart(raw), Prefix(raw)), !.bind = b]
    ELSE IF Prefix(raw) # <<>> THEN [a EXCEPT !.x = Err(@, "UNBOUND_PREFIX")]
    ELSE a
BoundByPrefix(a, raw) == Bound(a, raw, BoundTo(a.x, Prefix(raw)))
storeAtts(x, raw, text) ==
    LET none == [x |-> x, seen |-> {}, atts |-> <<>>, decls |-> <<>>, bind |-> 0]
        given == FoldLeft(LAMBDA a, att : Given(a, raw, att), none, getAtts(text, Len(raw) + 2))
    IN  BoundByPrefix(ExpandAll(FoldLeft(Default, given, TypeOf(x.p.dtd, raw).atts)), raw)

\* The bindings of an element go with it.
Unbind(x, decls) ==
    [FoldLeft(LAMBDA y, b : [y EXCEPT !.bound[y.heap[b].prefix] = y.heap[b].prev,
                                      !.p.told = Append(@, [what |-> "endNamespace", prefix |-> y.heap[b].prefix])],
              x, decls)
     EXCEPT !.heap = SubSeq(@, 1, Len(@) - Len(decls))]

------------------------------------------------------------------------------
(* Tags.                                                                      *)

RawName(text, from) == SubSeq(text, from, from + nameLength(text, from) - 1)
Start(x, name, atts) == Told(x, <<[what |-> "start", name |-> name, atts |-> atts]>>)
End(x, name) == Told(x, <<[what |-> "end", name |-> name]>>)

\* The raw name of an open element points into the input until storeRawNames.
NewTag(raw) == [raw |-> raw, name |-> raw, kept |-> FALSE, bind |-> 0, at |-> 0, decls |-> <<>>]
WhereOf(a) == IF a.bind = 0 THEN 0 ELSE a.x.heap[a.bind].at
Opened(y, a, raw) == IF a.x.p.err # "NONE" THEN y ELSE Start(y, NameAt(y, a.bind, WhereOf(a), raw), a.atts)
Started(a, raw) ==
    LET tag == [NewTag(raw) EXCEPT !.bind = a.bind, !.at = WhereOf(a), !.decls = a.decls]
    IN  Opened([a.x EXCEPT !.tags[Len(a.x.tags)] = tag], a, raw)
StartTag(x, text) ==
    LET raw == RawName(text, 2)
    IN  Started(storeAtts([x EXCEPT !.tags = Append(@, NewTag(raw))], raw, text), raw)

StartedEmpty(a, name) ==
    IF a.x.p.err # "NONE" THEN a.x ELSE Unbind(End(Start(a.x, name, a.atts), name), a.decls)
Emptied(a, raw) == StartedEmpty(a, NameAt(a.x, a.bind, WhereOf(a), raw))
EmptyElement(x, text) == Emptied(storeAtts(x, RawName(text, 2), text), RawName(text, 2))

\* Mutant of EndTag: the name in the buffer is taken as it is.
EndTagStale(x, text) ==
    LET tag == Last(x.tags)
        y == [x EXCEPT !.tags = Front(@)]
    IN  IF tag.raw # RawName(text, 3) THEN Err(y, "TAG_MISMATCH")
        ELSE Unbind(End(y, NameAt(y, tag.bind, tag.at, tag.name)), tag.decls)
\* The name is put into the buffer again: inner elements may have used it.
EndTag(x, text) ==
    LET tag == Last(x.tags)
        y == [x EXCEPT !.tags = Front(@)]
        z == IF tag.bind = 0 \/ tag.at # y.heap[tag.bind].at THEN y
             ELSE [y EXCEPT !.heap[tag.bind].name =
                       [local |-> LocalPart(tag.name), prefix |-> y.heap[tag.bind].prefix]]
    IN  IF tag.raw # RawName(text, 3) THEN Err(y, "TAG_MISMATCH")
        ELSE Unbind(End(z, NameAt(z, tag.bind, tag.at, tag.name)), tag.decls)

\* Mutant of storeRawNames: only the innermost name is kept.
storeRawNamesInner(tags) ==
    [i \in DOMAIN tags |-> [tags[i] EXCEPT !.kept = @ \/ i = Len(tags)]]
\* The raw names that the input goes away with are copied; those of the elements
\* around a copied one are copied already.
storeRawNames(tags) ==
    LET last == Max({0} \cup {i \in DOMAIN tags : tags[i].kept})
    IN  [i \in DOMAIN tags |-> [tags[i] EXCEPT !.kept = @ \/ i > last]]

------------------------------------------------------------------------------
(* The other tokens.                                                          *)

Entity(x, name) ==
    LET err == EntityError(Declared(x.p.dtd), name, {})
        unknown == name \notin DOMAIN x.p.dtd.ents
    IN  IF predefinedEntityName(name) # "none" THEN CharsTold(x, <<predefinedEntityName(name)>>)
        ELSE IF err # "NONE" THEN Err(x, err)
        ELSE IF unknown \/ x.p.dtd.ents[name].known THEN Told(x, <<[what |-> "skipped", name |-> name]>>)
        ELSE x
CharRef(x, text) ==
    IF charRefNumber(text) = -1 THEN Err(x, "BAD_CHAR_REF") ELSE CharsTold(x, <<CharOf(charRefNumber(text))>>)

\* reportProcessingInstruction and reportComment.
Instruction(text) ==
    LET target == RawName(text, 3)
        rest == RestOf(text, Len(target) + 3)
    IN  [what |-> "pi", target |-> target,
         data |-> normalizeLines(SubSeq(rest, skipS(rest, 1), Len(rest) - 2))]
Comment(text) == [what |-> "comment", data |-> normalizeLines(SubSeq(text, 5, Len(text) - 3))]

\* A token of the content: the parser behind it.
doContent(x, tok, text) ==
    CASE tok \in {"START_TAG_NO_ATTS", "START_TAG_WITH_ATTS"} -> StartTag(x, text)
      [] tok \in {"EMPTY_ELEMENT_NO_ATTS", "EMPTY_ELEMENT_WITH_ATTS"} -> EmptyElement(x, text)
      [] tok = "END_TAG" -> IF x.tags = <<>> THEN Err(x, "ASYNC_ENTITY") ELSE EndTag(x, text)
      [] tok = "ENTITY_REF" -> Entity(x, NameOf(text))
      [] tok = "CHAR_REF" -> CharRef(x, text)
      [] tok = "DATA_NEWLINE" -> CharsTold(x, <<"lf">>)
      [] tok = "DATA_CHARS" -> CharsTold(x, text)
      [] tok = "CDATA_SECT_OPEN" -> Told(x, <<[what |-> "startCdata"]>>)
      [] tok = "PI" -> Told(x, <<Instruction(text)>>)
      [] tok = "COMMENT" -> Told(x, <<Comment(text)>>)
      [] tok = "XML_DECL" -> Err(x, "MISPLACED_XML_PI")
      [] tok = "INVALID" -> Err(x, "INVALID_TOKEN")
\* A token of a CDATA section.
doCdataSection(x, tok, text) ==
    CASE tok = "CDATA_SECT_CLOSE" -> Told(x, <<[what |-> "endCdata"]>>)
      [] tok = "DATA_NEWLINE" -> CharsTold(x, <<"lf">>)
      [] tok = "DATA_CHARS" -> CharsTold(x, text)
      [] tok = "INVALID" -> Err(x, "INVALID_TOKEN")
\* A token behind the root element.
doEpilog(x, tok, text) ==
    CASE tok = "PROLOG_S" -> x
      [] tok = "PI" -> Told(x, <<Instruction(text)>>)
      [] tok = "COMMENT" -> Told(x, <<Comment(text)>>)
      [] tok = "INVALID" -> Err(x, "INVALID_TOKEN")
      [] OTHER -> Err(x, "JUNK_AFTER_DOC_ELEMENT")

\* What the end of the last input makes of an open document: a line end or a
\* bracket that waited is told yet.
ContentEnds(x, tok, text) ==
    CASE tok = "PARTIAL" -> Err(x, "UNCLOSED_TOKEN")
      [] tok = "PARTIAL_CHAR" -> Err(x, "PARTIAL_CHAR")
      [] tok = "TRAILING_CR" -> Err(CharsTold(x, <<"lf">>), "NO_ELEMENTS")
      [] tok = "TRAILING_RSQB" -> Err(CharsTold(x, text), "NO_ELEMENTS")
      [] tok = "NONE" -> Err(x, "NO_ELEMENTS")
CdataEnds(x, tok) == Err(x, IF tok = "PARTIAL_CHAR" THEN tok ELSE "UNCLOSED_CDATA_SECTION")
EpilogEnds(x, tok) ==
    IF tok = "NONE" THEN x ELSE Err(x, IF tok = "PARTIAL_CHAR" THEN tok ELSE "UNCLOSED_TOKEN")
=============================================================================
