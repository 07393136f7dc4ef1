----------------------------- MODULE XmlProlog -----------------------------
(* The prolog of a document, token by token, beside the grammar of XML and    *)
(* what its declarations mean.                                                *)
EXTENDS XmlDtd

CONSTANTS
    Tokens,     \* the tokens that may come
    Names,      \* the keywords that may be names as well
    Seeds       \* where a prolog starts: its first tokens, and how many may follow (a
                \* bound; white space, comments and the like aside)

VARIABLES
    p,          \* the parser
    text,       \* the prolog as XML sees it: what the grammar may still expect, as stacks of
                \* symbols, the tokens of the declaration at hand, what those before it mean
    left        \* tokens that may still come

vars == <<p, text, left>>

------------------------------------------------------------------------------
(* The grammar of the prolog (XML 1.0 with namespaces), for a document without*)
(* an external subset.                                                        *)

Decl(what, rest) == <<"DECL_OPEN " \o what>> \o rest \o <<"DECL_CLOSE">>
Types3 == {<<"NAME " \o t>> : t \in Types}
Rules == [
    Document |-> {<<"XML_DECL", "Misc">>, <<"Misc">>},
    Misc |-> {<<"PI", "Misc">>, <<"COMMENT", "Misc">>, <<"INSTANCE_START">>,
              Decl("DOCTYPE", <<"Name", "MaybeExternal", "MaybeSubset">>) \o <<"Misc2">>},
    Misc2 |-> {<<"PI", "Misc2">>, <<"COMMENT", "Misc2">>, <<"INSTANCE_START">>},
    Name |-> {<<"NAME">>, <<"PREFIXED_NAME">>},
    External |-> {<<"NAME SYSTEM", "LITERAL">>, <<"NAME PUBLIC", "Pub", "LITERAL">>},
    MaybeExternal |-> {<<>>, <<"External">>},
    MaybeSubset |-> {<<>>, <<"OPEN_BRACKET", "Decls", "CLOSE_BRACKET">>},
    Decls |-> {<<>>, <<"Decl", "Decls">>},
    Decl |-> {<<"PI">>, <<"COMMENT">>, <<"PARAM_ENTITY_REF">>,
              Decl("ENTITY", <<"NAME", "EntityDef">>),
              Decl("ENTITY", <<"PERCENT", "NAME", "PEDef">>),
              Decl("NOTATION", <<"NAME", "NotationId">>),
              Decl("ATTLIST", <<"Name", "AttDefs">>),
              Decl("ELEMENT", <<"Name", "ContentSpec">>)},
    EntityDef |-> {<<"EntityValue">>, <<"External">>, <<"External", "NAME NDATA", "NAME">>},
    PEDef |-> {<<"EntityValue">>, <<"External">>},
    NotationId |-> {<<"External">>, <<"NAME PUBLIC", "Pub">>},
    AttDefs |-> {<<>>, <<"Name", "AttType", "Default", "AttDefs">>},
    AttType |-> Types3 \cup {<<"OPEN_PAREN", "Token", "Tokens">>,
                             <<"NAME NOTATION", "OPEN_PAREN", "NAME", "NotationNames">>},
    Token |-> {<<"Name">>, <<"NMTOKEN">>},
    Tokens |-> {<<"CLOSE_PAREN">>, <<"OR", "Token", "Tokens">>},
    NotationNames |-> {<<"CLOSE_PAREN">>, <<"OR", "NAME", "NotationNames">>},
    Default |-> {<<"POUND_NAME IMPLIED">>, <<"POUND_NAME REQUIRED">>, <<"LITERAL">>,
                 <<"POUND_NAME FIXED", "LITERAL">>},
    ContentSpec |-> {<<"NAME EMPTY">>, <<"NAME ANY">>, <<"OPEN_PAREN", "Particle", "More">>,
                     <<"OPEN_PAREN", "POUND_NAME PCDATA", "CLOSE_PAREN">>,
                     <<"OPEN_PAREN", "POUND_NAME PCDATA", "Mixed">>},
    Mixed |-> {<<"CLOSE_PAREN*">>, <<"OR", "Name", "Mixed">>},
    Particle |-> {<<"Name">>, <<"OPEN_PAREN", "Particle", "More">>}
                 \cup {<<n>> : n \in Quantified("NAME")},
    More |-> {<<"Close">>, <<"OR", "Particle", "Choice">>, <<"COMMA", "Particle", "Sequence">>},
    Choice |-> {<<"Close">>, <<"OR", "Particle", "Choice">>},
    Sequence |-> {<<"Close">>, <<"COMMA", "Particle", "Sequence">>},
    Close |-> {<<c>> : c \in {"CLOSE_PAREN"} \cup Quantified("CLOSE_PAREN")}]

\* Public identifiers and entity values are literals of certain characters.
Kinds(t) ==
    Terminals(t) \cup (IF t.tok = "LITERAL" /\ isPublicId(t.v) THEN {"Pub"} ELSE {})
                 \cup (IF t.tok = "LITERAL" /\ ~Contains(t.v, "%") THEN {"EntityValue"} ELSE {})
\* What may follow when t is next.
RECURSIVE Match(_, _)
Match(stack, t) ==
    IF stack = <<>> THEN {}
    ELSE IF stack[1] \in DOMAIN Rules
    THEN UNION {Match(rule \o Tail(stack), t) : rule \in Rules[stack[1]]}
    ELSE IF stack[1] \in Kinds(t) THEN {Tail(stack)} ELSE {}
\* White space may stand anywhere, but not before the XML declaration.
Expect(ss, t) ==
    IF t.tok = "PROLOG_S" THEN {IF s = <<"Document">> THEN <<"Misc">> ELSE s : s \in ss}
    ELSE UNION {Match(s, t) : s \in ss}

------------------------------------------------------------------------------
(* What declarations mean: the first one of a name counts.                    *)

Nothing == [ents |-> <<>>, atts |-> <<>>, told |-> <<>>]
\* The identifiers at d[i], of an entity, a notation or the document type.
Ids(d, i) ==
    IF Len(d) < i \/ d[i].tok # "NAME" THEN [sys |-> Null, pub |-> Null]
    ELSE IF d[i].v = <<"SYSTEM">> THEN [sys |-> Quoted(d[i + 1].v), pub |-> Null]
    ELSE [pub |-> normalizePublicId(Quoted(d[i + 1].v)),
          sys |-> IF Len(d) < i + 2 THEN Null ELSE Quoted(d[i + 2].v)]
EntityMeans(r, d) ==
    LET name == d[2].v
        kept == name # <<"lt">> /\ name \notin DOMAIN r.ents
        ids == Ids(d, 3)
        e == [NoEntity EXCEPT !.text = IF d[3].tok = "LITERAL" THEN Quoted(d[3].v) ELSE <<>>,
                              !.known = d[3].tok = "LITERAL",
                              !.unparsed = \E i \in 4..Len(d) : d[i].v = <<"NDATA">>,
                              !.notation = IF Last(d).tok = "NAME" THEN Last(d).v ELSE <<>>,
                              !.sys = ids.sys, !.pub = ids.pub]
    IN  IF d[2].tok = "PERCENT" \/ ~kept THEN r
        ELSE [r EXCEPT !.ents = name :> e @@ @, !.told = Append(@, EntityEvent(name, e))]
NotationMeans(r, d) ==
    [r EXCEPT !.told = Append(@, [what |-> "notation", name |-> d[2].v,
                                  sys |-> Ids(d, 3).sys, pub |-> Ids(d, 3).pub])]
\* The definitions of a list end with their defaults.
AttDefMeans(r, elem, d) ==
    LET cdata == d[2].v = <<"CDATA">>
        value == IF Last(d).tok = "LITERAL"
                 THEN storeAttributeValue(Quoted(Last(d).v), cdata, [ents |-> r.ents, check |-> TRUE]).val
                 ELSE Null
    IN  IF <<elem, d[1].v>> \in DOMAIN r.atts THEN r
        ELSE [r EXCEPT !.atts = <<elem, d[1].v>> :>
                 [value |-> value, cdata |-> cdata, id |-> d[2].v = <<"ID">>] @@ @]
RECURSIVE AttlistMeans(_, _, _)
AttlistMeans(r, elem, d) ==
    LET end == Min({i \in DOMAIN d : d[i].tok = "LITERAL" \/ d[i].v \in {<<"IMPLIED">>, <<"REQUIRED">>}})
    IN  IF d = <<>> THEN r
        ELSE AttlistMeans(AttDefMeans(r, elem, SubSeq(d, 1, end)), elem, RestOf(d, end + 1))
DoctypeMeans(r, d, subset) ==
    [r EXCEPT !.told = Append(@, [what |-> "startDoctype", name |-> d[2].v, subset |-> subset,
                                  sys |-> Ids(d, 3).sys, pub |-> Ids(d, 3).pub])]
\* The declaration d ends with t.
Means(r, d, t) ==
    LET end == [r EXCEPT !.told = Append(@, [what |-> "endDoctype"])]
    IN  IF t.tok = "OPEN_BRACKET" THEN DoctypeMeans(r, d, TRUE)
        ELSE IF d = <<>> THEN end
        ELSE
        CASE d[1].v = <<"DOCTYPE">> ->
               [DoctypeMeans(r, d, FALSE) EXCEPT !.told = Append(@, [what |-> "endDoctype"])]
          [] d[1].v = <<"ENTITY">> -> EntityMeans(r, d)
          [] d[1].v = <<"NOTATION">> -> NotationMeans(r, d)
          [] d[1].v = <<"ATTLIST">> -> AttlistMeans(r, d[2].v, RestOf(d, 3))
          [] OTHER -> r

------------------------------------------------------------------------------

Apart == {"PROLOG_S", "PI", "COMMENT", "PARAM_ENTITY_REF", "XML_DECL", "INSTANCE_START"}
\* The text behind the token t.
Reads(x, t) ==
    LET stacks == Expect(x.stacks, t)
        ends == stacks # {} /\ t.tok \in {"DECL_CLOSE", "OPEN_BRACKET"}
        inside == stacks # {} /\ ~ends /\ t.tok \notin Apart \cup {"CLOSE_BRACKET"}
    IN  [stacks |-> stacks,
         now |-> IF ends THEN <<>> ELSE IF inside THEN Append(x.now, t) ELSE x.now,
         ref |-> IF ends THEN Means(x.ref, x.now, t) ELSE x.ref]

Init ==
    \E seed \in Seeds :
        /\ p = FoldLeft(doProlog, parserInit, seed.tokens)
        /\ text = FoldLeft(Reads, [stacks |-> {<<"Document">>}, now |-> <<>>, ref |-> Nothing], seed.tokens)
        /\ left = seed.more

Done == p.err # "NONE" \/ p.m.handler = "error"
\* Bound: keywords other than those of Names come where they are looked for, or
\* where no name may stand.
Offered(t) ==
    t.tok = "NAME" /\ Len(t.v) = 1 /\ p.m.handler \in DOMAIN RowsOf
    => t.v[1] \in Names \/ \A r \in RowsOf[p.m.handler] : r[2] # "NAME"

\* The next token of the prolog.
Read(t) ==
    /\ ~Done
    /\ t.tok \notin Apart => left > 0
    /\ Offered(t)
    /\ p' = doProlog(p, t)
    /\ text' = IF p'.err = "NONE" THEN Reads(text, t) ELSE [text EXCEPT !.stacks = Expect(@, t)]
    /\ left' = IF t.tok \in Apart THEN left ELSE left - 1

\* The document ends here, or the tokenizer finds no token.
Fails(tok) ==
    /\ ~Done
    /\ p' = doProlog(p, [tok |-> tok, v |-> <<>>])
    /\ UNCHANGED <<text, left>>

Next ==
    \/ \E t \in Tokens : Read(t)
    \/ \E tok \in {"NONE", "PARTIAL", "PARTIAL_CHAR", "INVALID"} : Fails(tok)
Spec == Init /\ [][Next]_vars

------------------------------------------------------------------------------

\* The declaration at hand is about an entity, an element and an attribute that
\* are known, and the machine is at one of its handlers.
TypeOK ==
    /\ p.m.handler \in DOMAIN RowsOf \cup {"declClose", "error"}
    /\ p.m.level \in Nat
    /\ p.entity \in DOMAIN p.dtd.ents \cup {<<>>}
    /\ \A e \in DOMAIN p.dtd.types : \A i \in DOMAIN p.dtd.types[e].atts :
          p.dtd.types[e].atts[i].cdata \/ p.dtd.types[e].atts[i].id \in p.dtd.tokenized

\* The machine of xmlrole.c, with the connectors of groups that doProlog keeps,
\* accepts the prologs of the grammar and no others: what a token is refused for
\* is that no rule has it at this place.
LanguageIsXml ==
    p.err \in {"SYNTAX", "PUBLICID", "PARAM_ENTITY_REF", "MISPLACED_XML_PI"} <=> text.stacks = {}

Between == p.err = "NONE" /\ text.now = <<>>

\* Between two declarations the table of entities holds what the first
\* declaration of each name says, and none of parameter entities or of &lt;.
EntitiesAsDeclared == Between => p.dtd.ents = text.ref.ents

\* What a tag will find of an attribute: the first default that is kept of it,
\* and whether its values are stored as they stand (storeAtts, xmlparse.c).
Kept(elem, att) == SelectSeq(TypeOf(p.dtd, elem).atts, LAMBDA a : a.id = att)
DefaultOf(elem, att) ==
    LET given == SelectSeq(Kept(elem, att), LAMBDA a : a.value # Null)
    IN  IF given = <<>> THEN Null ELSE given[1].value
IsCdata(elem, att) == att \notin p.dtd.tokenized \/ Kept(elem, att) = <<>> \/ Kept(elem, att)[1].cdata

\* Of several declarations of an attribute the first one gives its default and
\* its type, in whatever order the others come; an ID is one by its first
\* declaration.
AttributesAsDeclared ==
    Between =>
      /\ UNION {{<<e, a.id>> : a \in ToSet(p.dtd.types[e].atts)} : e \in DOMAIN p.dtd.types}
           = DOMAIN text.ref.atts
      /\ \A ea \in DOMAIN text.ref.atts :
            /\ DefaultOf(ea[1], ea[2]) = text.ref.atts[ea].value
            /\ IsCdata(ea[1], ea[2]) = text.ref.atts[ea].cdata
            /\ text.ref.atts[ea].id /\ text.ref.atts[ea].value = Null /\ ~IsXmlns(ea[2])
               => p.dtd.types[ea[1]].idAtt # <<>>
      /\ \A e \in DOMAIN p.dtd.types :
            p.dtd.types[e].idAtt # <<>> => text.ref.atts[<<e, p.dtd.types[e].idAtt>>].id

\* The handlers hear of the document type, the entities and the notations once
\* each, in the order of the document, with what is declared of them.
DeclarationsTold == Between => p.told = text.ref.told

\* The connectors of the open groups fit in the buffer that was allocated.
GroupsInBuffer == \A level \in DOMAIN p.conn : level < p.room

\* What the parser keeps and tells of a document type is what it declares.
DtdAsDeclared ==
    /\ TypeOK /\ EntitiesAsDeclared /\ AttributesAsDeclared /\ DeclarationsTold
    /\ GroupsInBuffer
=============================================================================
