------------------------------- MODULE XmlDtd -------------------------------
(* What the prolog of a document makes of the parser (doProlog and its helpers*)
(* in SyExpat/lib/xmlparse.c): one operator per kind of declaration, from the *)
(* parser p and a token to the parser behind it.  SyExpat sets handlers for   *)
(* the document type, entities and notations; what they are told is p.told.   *)
(*                                                                            *)
(* p.entity, p.elem, p.att ... are about the declaration at hand; <<>> is a   *)
(* NULL name, Null a NULL value.  Memory is never short.                      *)
EXTENDS XmlRole, XmlValue

CONSTANTS
    DeclHandler,    \* "none", or what NotStandalone of the declaration handler answers
    GroupChunk      \* how many nested groups the first buffer has room for (32)
ASSUME PrologAssumption ==
    /\ DeclHandler \in {"none", "EStatusError", "EStatusOk", "EStatusSuspended"}
    /\ GroupChunk \in Nat \ {0, 1}

Null == <<"NULL">>
NoType == [atts |-> <<>>, idAtt |-> <<>>]
dtdCreate == [ents |-> <<>>, types |-> <<>>, tokenized |-> {}, paramRefs |-> FALSE, standalone |-> FALSE]
parserInit ==
    [m |-> XmlPrologStateInit, dtd |-> dtdCreate, err |-> "NONE", told |-> <<>>,
     entity |-> <<>>, elem |-> <<>>, att |-> <<>>, cdata |-> FALSE, isId |-> FALSE,
     notation |-> <<>>, notationPub |-> Null, name |-> <<>>, sysid |-> Null, pubid |-> Null,
     room |-> 0, conn |-> <<>>]

\* References in a value are checked against these (see EntityError).
Declared(dtd) == [ents |-> dtd.ents, check |-> ~dtd.paramRefs \/ dtd.standalone]
Quoted(v) == SubSeq(v, 2, Len(v) - 1)
Fail(p, err) == [p EXCEPT !.err = err]
Tell(p, event) == [p EXCEPT !.told = Append(@, event)]

PublicChar == (NameChar \ {"u1", "u2", "m1"}) \cup
              {" ", "cr", "lf", "'", "(", ")", "+", ",", "/", "=", "?", ";", "!", "*", "#", "%", ":", "$", "@"}
isPublicId(v) == \A i \in 2..(Len(v) - 1) : v[i] \in PublicChar
normalizePublicId(t) ==
    LET add(to, c) == IF c \notin {" ", "cr", "lf"} THEN Append(to, c)
                      ELSE IF to = <<>> \/ Last(to) = " " THEN to ELSE Append(to, " ")
        all == FoldLeft(add, <<>>, t)
    IN  IF all # <<>> /\ Last(all) = " " THEN Front(all) ELSE all

\* The answer 0, that of no handler too, ends the parse of a document that does
\* not stand alone.
NotStandaloneHandler == IF DeclHandler \in {"none", "EStatusError"} THEN 0 ELSE 1
NotStandaloneRefuses(p) == ~p.dtd.standalone /\ NotStandaloneHandler = 0

------------------------------------------------------------------------------
(* The document type.                                                         *)

DoctypeName(p, v) == [p EXCEPT !.name = v, !.pubid = Null, !.sysid = Null]
StartDoctype(p, subset) ==
    [Tell(p, [what |-> "startDoctype", name |-> p.name, sys |-> p.sysid, pub |-> p.pubid,
              subset |-> subset]) EXCEPT !.name = <<>>]
DoctypePublicId(p, v) ==
    IF isPublicId(v)
    THEN [p EXCEPT !.dtd.paramRefs = TRUE, !.pubid = normalizePublicId(Quoted(v))]
    ELSE Fail([p EXCEPT !.dtd.paramRefs = TRUE], "PUBLICID")
DoctypeSystemId(p, v) ==
    LET q == [p EXCEPT !.dtd.paramRefs = TRUE, !.sysid = Quoted(v)]
    IN  IF NotStandaloneRefuses(p) THEN Fail(q, "NOT_STANDALONE") ELSE q
DoctypeClose(p) ==
    Tell(IF p.name # <<>> THEN StartDoctype(p, FALSE) ELSE p, [what |-> "endDoctype"])

------------------------------------------------------------------------------
(* Entities and notations.  Without XML_DTD parameter entities are not kept.  *)

NoEntity == [text |-> <<>>, known |-> FALSE, unparsed |-> FALSE, internal |-> TRUE,
             sys |-> Null, pub |-> Null, notation |-> <<>>]
EntityEvent(name, e) ==
    [what |-> "entity", name |-> name, text |-> e.text, sys |-> e.sys, pub |-> e.pub,
     notation |-> e.notation]

\* Mutant of GeneralEntityName: the declaration of a known entity goes on.
GeneralEntityNameAgain(p, v) ==
    IF predefinedEntityName(v) # "none" THEN [p EXCEPT !.entity = <<>>]
    ELSE [p EXCEPT !.entity = v, !.dtd.ents = v :> NoEntity @@ @]
\* The first declaration counts, and none of a predefined entity.
GeneralEntityName(p, v) ==
    IF predefinedEntityName(v) # "none" \/ v \in DOMAIN p.dtd.ents THEN [p EXCEPT !.entity = <<>>]
    ELSE [p EXCEPT !.entity = v, !.dtd.ents = v :> NoEntity @@ @]
ParamEntityName(p) == [p EXCEPT !.entity = <<>>]

EntityValue(p, v) ==
    LET stored == storeEntityValue(Quoted(v), <<>>)
        q == [p EXCEPT !.dtd.ents[p.entity].text = stored.val, !.dtd.ents[p.entity].known = TRUE,
                       !.err = stored.err]
    IN  IF p.entity = <<>> THEN [p EXCEPT !.err = stored.err]
        ELSE Tell(q, EntityEvent(p.entity, q.dtd.ents[p.entity]))
EntityPublicId(p, v) ==
    IF ~isPublicId(v) THEN Fail(p, "PUBLICID")
    ELSE IF p.entity = <<>> THEN p
    ELSE [p EXCEPT !.dtd.ents[p.entity].pub = normalizePublicId(Quoted(v))]
EntitySystemId(p, v) ==
    IF p.entity = <<>> THEN p ELSE [p EXCEPT !.dtd.ents[p.entity].sys = Quoted(v)]
EntityComplete(p) ==
    IF p.entity = <<>> THEN p ELSE Tell(p, EntityEvent(p.entity, p.dtd.ents[p.entity]))
EntityNotationName(p, v) ==
    LET q == [p EXCEPT !.dtd.ents[p.entity].notation = v, !.dtd.ents[p.entity].unparsed = TRUE]
    IN  IF p.entity = <<>> THEN p ELSE EntityComplete(q)

NotationName(p, v) == [p EXCEPT !.notation = v, !.notationPub = Null]
NotationPublicId(p, v) ==
    IF isPublicId(v) THEN [p EXCEPT !.notationPub = normalizePublicId(Quoted(v))]
    ELSE Fail(p, "PUBLICID")
Notation(p, sys) ==
    Tell(p, [what |-> "notation", name |-> p.notation, sys |-> sys, pub |-> p.notationPub])

------------------------------------------------------------------------------
(* Attributes.                                                                *)

TypeOf(dtd, elem) == IF elem \in DOMAIN dtd.types THEN dtd.types[elem] ELSE NoType
IsXmlns(att) == att[1] = "xmlns" /\ (Len(att) = 1 \/ att[2] = ":")

\* A default or an ID yields to an earlier declaration of the attribute; any
\* other one is added behind it.
defineAttribute(p, isId, value) ==
    LET type == TypeOf(p.dtd, p.elem)
        firstId == isId /\ type.idAtt = <<>> /\ ~IsXmlns(p.att)
        more == [atts |-> Append(type.atts, [id |-> p.att, value |-> value, cdata |-> p.cdata]),
                 idAtt |-> IF firstId THEN p.att ELSE type.idAtt]
    IN  IF (value # Null \/ isId) /\ \E i \in DOMAIN type.atts : type.atts[i].id = p.att THEN p
        ELSE [p EXCEPT !.dtd.types = p.elem :> more @@ @,
                       !.dtd.tokenized = IF p.cdata THEN @ ELSE @ \cup {p.att}]

AttributeName(p, v) == [p EXCEPT !.att = v, !.cdata = FALSE, !.isId = FALSE]
AttributeType(p, role) ==
    [p EXCEPT !.cdata = @ \/ role = "ATTRIBUTE_TYPE_CDATA", !.isId = @ \/ role = "ATTRIBUTE_TYPE_ID"]
AttributeDefault(p, v) ==
    LET stored == storeAttributeValue(Quoted(v), p.cdata, Declared(p.dtd))
    IN  IF stored.err # "NONE" THEN Fail(p, stored.err)
        ELSE defineAttribute(p, FALSE, stored.val)

------------------------------------------------------------------------------
(* Content models: only the connectors of the open groups are kept.           *)

GroupOpen(p) ==
    LET room == IF p.m.level < p.room THEN p.room
                ELSE IF p.room = 0 THEN GroupChunk ELSE 2 * p.room
    IN  [p EXCEPT !.room = room, !.conn = p.m.level :> "none" @@ @]

\* Mutant of Connector: the group asked is the one that was just closed.
ConnectorInner(p, sign, other) ==
    LET at == IF p.m.level + 1 \in DOMAIN p.conn THEN p.m.level + 1 ELSE p.m.level
    IN  IF p.conn[at] = other THEN Fail(p, "SYNTAX") ELSE [p EXCEPT !.conn[at] = sign]
\* Sequences and choices may not be mixed in a group.
Connector(p, sign, other) ==
    IF p.conn[p.m.level] = other THEN Fail(p, "SYNTAX") ELSE [p EXCEPT !.conn[p.m.level] = sign]

------------------------------------------------------------------------------
\* An XML declaration: only what it says of standing alone lasts.
XmlDeclared(p, decl) ==
    IF ~decl.ok THEN Fail(p, "XML_DECL")
    ELSE [p EXCEPT !.dtd.standalone = decl.standalone = "yes"]
processXmlDecl(p, v) == XmlDeclared(p, doParseXmlDecl(SubSeq(v, 4, Len(v) - 2)))

ErrorOf(tok) ==
    CASE tok = "PARAM_ENTITY_REF" -> "PARAM_ENTITY_REF"
      [] tok = "XML_DECL" -> "MISPLACED_XML_PI"
      [] OTHER -> "SYNTAX"

\* What a token in this role does; comments and instructions change nothing here.
Act(p, role, token) ==
    CASE role = "XML_DECL" -> processXmlDecl(p, token.v)
      [] role = "DOCTYPE_NAME" -> DoctypeName(p, token.v)
      [] role = "DOCTYPE_INTERNAL_SUBSET" -> StartDoctype(p, TRUE)
      [] role = "DOCTYPE_PUBLIC_ID" -> DoctypePublicId(p, token.v)
      [] role = "DOCTYPE_SYSTEM_ID" -> DoctypeSystemId(p, token.v)
      [] role = "DOCTYPE_CLOSE" -> DoctypeClose(p)
      [] role = "ATTLIST_ELEMENT_NAME" -> [p EXCEPT !.elem = token.v]
      [] role = "ATTRIBUTE_NAME" -> AttributeName(p, token.v)
      [] role \in {"ATTRIBUTE_TYPE_" \o t : t \in Types} -> AttributeType(p, role)
      [] role \in {"IMPLIED_ATTRIBUTE_VALUE", "REQUIRED_ATTRIBUTE_VALUE"} ->
           defineAttribute(p, p.isId, Null)
      [] role \in {"DEFAULT_ATTRIBUTE_VALUE", "FIXED_ATTRIBUTE_VALUE"} -> AttributeDefault(p, token.v)
      [] role = "GENERAL_ENTITY_NAME" -> GeneralEntityName(p, token.v)
      [] role = "PARAM_ENTITY_NAME" -> ParamEntityName(p)
      [] role = "ENTITY_VALUE" -> EntityValue(p, token.v)
      [] role = "ENTITY_PUBLIC_ID" -> EntityPublicId(p, token.v)
      [] role = "ENTITY_SYSTEM_ID" -> EntitySystemId(p, token.v)
      [] role = "ENTITY_COMPLETE" -> EntityComplete(p)
      [] role = "ENTITY_NOTATION_NAME" -> EntityNotationName(p, token.v)
      [] role = "NOTATION_NAME" -> NotationName(p, token.v)
      [] role = "NOTATION_PUBLIC_ID" -> NotationPublicId(p, token.v)
      [] role = "NOTATION_SYSTEM_ID" -> Notation(p, Quoted(token.v))
      [] role = "NOTATION_NO_SYSTEM_ID" -> Notation(p, Null)
      [] role = "PARAM_ENTITY_REF" -> IF NotStandaloneRefuses(p) THEN Fail(p, "NOT_STANDALONE") ELSE p
      [] role = "GROUP_OPEN" -> GroupOpen(p)
      [] role = "GROUP_SEQUENCE" -> Connector(p, ",", "|")
      [] role = "GROUP_CHOICE" -> Connector(p, "|", ",")
      [] role = "ERROR" -> Fail(p, ErrorOf(token.tok))
      [] OTHER -> p

InRole(p, is, token) == Act([p EXCEPT !.m = is.m], is.role, token)
doProlog(p, token) ==
    CASE token.tok = "NONE" -> Fail(p, "NO_ELEMENTS")
      [] token.tok = "PARTIAL" -> Fail(p, "UNCLOSED_TOKEN")
      [] token.tok = "PARTIAL_CHAR" -> Fail(p, "PARTIAL_CHAR")
      [] token.tok = "INVALID" -> Fail(p, "INVALID_TOKEN")
      [] OTHER -> InRole(p, XmlTokenRole(p.m, token), token)
=============================================================================
