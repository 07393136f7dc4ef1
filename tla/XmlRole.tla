------------------------------ MODULE XmlRole ------------------------------
(* The roles of the tokens of the prolog (SyExpat/lib/xmlrole.c): a machine   *)
(* whose handlers are rows <<handler, token, next handler, role>>.  XML_DTD is*)
(* not defined in the build, so no handler is about an external subset.  The  *)
(* roles of content particles and of closed groups are one each: their        *)
(* quantifiers matter to a handler of element declarations only, and none is  *)
(* set.                                                                       *)
(*                                                                            *)
(* A token is a record: tok, its kind, and v, the symbols of its text (those  *)
(* of DECL_OPEN and POUND_NAME without the <! and the #).                     *)
EXTENDS Integers, Sequences, FiniteSetsExt

\* A handler that looks for a keyword asks for this.
Terminals(token) ==
    {token.tok} \cup (IF Len(token.v) = 1 THEN {token.tok \o " " \o token.v[1]} ELSE {})

AnyName == {"NAME", "PREFIXED_NAME"}
Spaces(hs, role) == {<<h, "PROLOG_S", h, role>> : h \in hs}
Named(h, next, role) == {<<h, name, next, role>> : name \in AnyName}
Quantified(tok) == {tok \o q : q \in {"?", "*", "+"}}

prolog ==
    {<<h, tok, "prolog1", tok>> : h \in {"prolog0", "prolog1"}, tok \in {"PI", "COMMENT"}}
    \cup {<<"prolog2", tok, "prolog2", tok>> : tok \in {"PI", "COMMENT"}}
    \cup {<<h, "PROLOG_S", "prolog1", "NONE">> : h \in {"prolog0", "prolog1"}}
    \cup {<<"prolog2", "PROLOG_S", "prolog2", "NONE">>}
    \cup {<<"prolog0", "XML_DECL", "prolog1", "XML_DECL">>}
    \cup {<<h, "BOM", h, "NONE">> : h \in {"prolog0", "prolog1"}}
    \cup {<<h, "DECL_OPEN DOCTYPE", "doctype0", "DOCTYPE_NONE">> : h \in {"prolog0", "prolog1"}}
    \cup {<<h, "INSTANCE_START", "error", "INSTANCE_START">> : h \in {"prolog0", "prolog1", "prolog2"}}

doctype ==
    Spaces({"doctype0", "doctype1", "doctype2", "doctype3", "doctype4", "doctype5"}, "DOCTYPE_NONE")
    \cup Named("doctype0", "doctype1", "DOCTYPE_NAME")
    \cup {<<"doctype1", "NAME SYSTEM", "doctype3", "DOCTYPE_NONE">>,
          <<"doctype1", "NAME PUBLIC", "doctype2", "DOCTYPE_NONE">>,
          <<"doctype2", "LITERAL", "doctype3", "DOCTYPE_PUBLIC_ID">>,
          <<"doctype3", "LITERAL", "doctype4", "DOCTYPE_SYSTEM_ID">>}
    \cup {<<h, "OPEN_BRACKET", "internalSubset", "DOCTYPE_INTERNAL_SUBSET">> :
              h \in {"doctype1", "doctype4"}}
    \cup {<<h, "DECL_CLOSE", "prolog2", "DOCTYPE_CLOSE">> : h \in {"doctype1", "doctype4", "doctype5"}}

internalSubset ==
    {<<"internalSubset", tok, "internalSubset", tok>> : tok \in {"PI", "COMMENT", "PARAM_ENTITY_REF"}}
    \cup {<<"internalSubset", tok, "internalSubset", "NONE">> : tok \in {"PROLOG_S", "NONE"}}
    \cup {<<"internalSubset", "CLOSE_BRACKET", "doctype5", "DOCTYPE_NONE">>,
          <<"internalSubset", "DECL_OPEN ENTITY", "entity0", "ENTITY_NONE">>,
          <<"internalSubset", "DECL_OPEN ATTLIST", "attlist0", "ATTLIST_NONE">>,
          <<"internalSubset", "DECL_OPEN ELEMENT", "element0", "ELEMENT_NONE">>,
          <<"internalSubset", "DECL_OPEN NOTATION", "notation0", "NOTATION_NONE">>}

entity ==
    Spaces({"entity0", "entity1", "entity2", "entity3", "entity4", "entity5"}, "ENTITY_NONE")
    \cup {<<"entity0", "PERCENT", "entity1", "ENTITY_NONE">>,
          <<"entity0", "NAME", "entity2", "GENERAL_ENTITY_NAME">>,
          <<"entity1", "NAME", "entity7", "PARAM_ENTITY_NAME">>,
          <<"entity2", "NAME SYSTEM", "entity4", "ENTITY_NONE">>,
          <<"entity2", "NAME PUBLIC", "entity3", "ENTITY_NONE">>,
          <<"entity2", "LITERAL", "declClose", "ENTITY_VALUE">>,
          <<"entity3", "LITERAL", "entity4", "ENTITY_PUBLIC_ID">>,
          <<"entity4", "LITERAL", "entity5", "ENTITY_SYSTEM_ID">>,
          <<"entity5", "NAME NDATA", "entity6", "ENTITY_NONE">>,
          <<"entity5", "DECL_CLOSE", "internalSubset", "ENTITY_COMPLETE">>}
\* The notation of an entity; parameter entities.
entityRest ==
    Spaces({"entity6", "entity7", "entity8", "entity9", "entity10"}, "ENTITY_NONE")
    \cup {<<"entity6", "NAME", "declClose", "ENTITY_NOTATION_NAME">>,
          <<"entity7", "NAME SYSTEM", "entity9", "ENTITY_NONE">>,
          <<"entity7", "NAME PUBLIC", "entity8", "ENTITY_NONE">>,
          <<"entity7", "LITERAL", "declClose", "ENTITY_VALUE">>,
          <<"entity8", "LITERAL", "entity9", "ENTITY_PUBLIC_ID">>,
          <<"entity9", "LITERAL", "entity10", "ENTITY_SYSTEM_ID">>,
          <<"entity10", "DECL_CLOSE", "internalSubset", "ENTITY_COMPLETE">>}

notation ==
    Spaces({"notation0", "notation1", "notation2", "notation3", "notation4"}, "NOTATION_NONE")
    \cup {<<"notation0", "NAME", "notation1", "NOTATION_NAME">>,
          <<"notation1", "NAME SYSTEM", "notation3", "NOTATION_NONE">>,
          <<"notation1", "NAME PUBLIC", "notation2", "NOTATION_NONE">>,
          <<"notation2", "LITERAL", "notation4", "NOTATION_PUBLIC_ID">>,
          <<"notation4", "DECL_CLOSE", "internalSubset", "NOTATION_NO_SYSTEM_ID">>}
    \cup {<<h, "LITERAL", "declClose", "NOTATION_SYSTEM_ID">> : h \in {"notation3", "notation4"}}

Types == {"CDATA", "ID", "IDREF", "IDREFS", "ENTITY", "ENTITIES", "NMTOKEN", "NMTOKENS"}
attlist ==
    Spaces({"attlist0", "attlist1", "attlist2", "attlist3", "attlist4"}, "ATTLIST_NONE")
    \cup Named("attlist0", "attlist1", "ATTLIST_ELEMENT_NAME")
    \cup Named("attlist1", "attlist2", "ATTRIBUTE_NAME")
    \cup {<<"attlist2", "NAME " \o t, "attlist8", "ATTRIBUTE_TYPE_" \o t>> : t \in Types}
    \cup {<<"attlist3", n, "attlist4", "ATTRIBUTE_ENUM_VALUE">> : n \in AnyName \cup {"NMTOKEN"}}
    \cup {<<"attlist1", "DECL_CLOSE", "internalSubset", "ATTLIST_NONE">>,
          <<"attlist2", "NAME NOTATION", "attlist5", "ATTLIST_NONE">>,
          <<"attlist2", "OPEN_PAREN", "attlist3", "ATTLIST_NONE">>,
          <<"attlist4", "CLOSE_PAREN", "attlist8", "ATTLIST_NONE">>,
          <<"attlist4", "OR", "attlist3", "ATTLIST_NONE">>}
\* The notations of an attribute; its default.
attlistRest ==
    Spaces({"attlist5", "attlist6", "attlist7", "attlist8", "attlist9"}, "ATTLIST_NONE")
    \cup {<<"attlist5", "OPEN_PAREN", "attlist6", "ATTLIST_NONE">>,
          <<"attlist6", "NAME", "attlist7", "ATTRIBUTE_NOTATION_VALUE">>,
          <<"attlist7", "CLOSE_PAREN", "attlist8", "ATTLIST_NONE">>,
          <<"attlist7", "OR", "attlist6", "ATTLIST_NONE">>,
          <<"attlist8", "POUND_NAME IMPLIED", "attlist1", "IMPLIED_ATTRIBUTE_VALUE">>,
          <<"attlist8", "POUND_NAME REQUIRED", "attlist1", "REQUIRED_ATTRIBUTE_VALUE">>,
          <<"attlist8", "POUND_NAME FIXED", "attlist9", "ATTLIST_NONE">>,
          <<"attlist8", "LITERAL", "attlist1", "DEFAULT_ATTRIBUTE_VALUE">>,
          <<"attlist9", "LITERAL", "attlist1", "FIXED_ATTRIBUTE_VALUE">>}

Particle(h) ==
    {<<h, n, "element7", "CONTENT_ELEMENT">> : n \in AnyName \cup Quantified("NAME")}
element ==
    Spaces({"element0", "element1", "element2"}, "ELEMENT_NONE")
    \cup Named("element0", "element1", "ELEMENT_NAME")
    \cup {<<"element1", "NAME EMPTY", "declClose", "CONTENT_EMPTY">>,
          <<"element1", "NAME ANY", "declClose", "CONTENT_ANY">>,
          <<"element1", "OPEN_PAREN", "element2", "GROUP_OPEN">>,
          <<"element2", "POUND_NAME PCDATA", "element3", "CONTENT_PCDATA">>,
          <<"element2", "OPEN_PAREN", "element6", "GROUP_OPEN">>}
    \cup Particle("element2")
mixedContent ==
    Spaces({"element3", "element4", "element5"}, "ELEMENT_NONE")
    \cup {<<"element3", "CLOSE_PAREN", "declClose", "GROUP_CLOSE">>}
    \cup {<<h, "CLOSE_PAREN*", "declClose", "GROUP_CLOSE">> : h \in {"element3", "element5"}}
    \cup {<<h, "OR", "element4", "ELEMENT_NONE">> : h \in {"element3", "element5"}}
    \cup Named("element4", "element5", "CONTENT_ELEMENT")
\* element7 closes a group: to element7 while the level stays above 0 (see XmlTokenRole).
children ==
    Spaces({"element6", "element7"}, "ELEMENT_NONE")
    \cup {<<"element6", "OPEN_PAREN", "element6", "GROUP_OPEN">>}
    \cup Particle("element6")
    \cup {<<"element7", tok, "element7", "GROUP_CLOSE">> :
              tok \in {"CLOSE_PAREN"} \cup Quantified("CLOSE_PAREN")}
    \cup {<<"element7", "COMMA", "element6", "GROUP_SEQUENCE">>,
          <<"element7", "OR", "element6", "GROUP_CHOICE">>}

Rows == prolog \cup doctype \cup internalSubset \cup entity \cup entityRest \cup notation
        \cup attlist \cup attlistRest \cup element \cup mixedContent \cup children
RowsOf == [h \in {r[1] : r \in Rows} |-> {r \in Rows : r[1] = h}]

XmlPrologStateInit == [handler |-> "prolog0", level |-> 0, none |-> "NONE"]
common(m) == [m |-> [m EXCEPT !.handler = "error"], role |-> "ERROR"]

\* How many groups are open behind a token of this role.
Level(m, role) ==
    CASE role = "GROUP_OPEN" ->
           IF m.handler = "element1" THEN 1 ELSE IF m.handler = "element2" THEN 2 ELSE m.level + 1
      [] role = "GROUP_CLOSE" /\ m.handler = "element7" -> m.level - 1
      [] OTHER -> m.level

declClose(m, tok) ==
    CASE tok = "PROLOG_S" -> [m |-> m, role |-> m.none]
      [] tok = "DECL_CLOSE" -> [m |-> [m EXCEPT !.handler = "internalSubset"], role |-> m.none]
      [] OTHER -> common(m)
\* What white space is before the end of a declaration, by the handler before it.
RoleNone(h) ==
    CASE h \in {"entity2", "entity6", "entity7"} -> "ENTITY_NONE"
      [] h \in {"notation3", "notation4"} -> "NOTATION_NONE"
      [] OTHER -> "ELEMENT_NONE"

\* The machine behind a token of this role, at this level; the last group that is
\* closed ends the model of the content.
Moved(m, next, role, level) ==
    [m |-> [handler |-> next, level |-> level,
            none |-> IF next = "declClose" THEN RoleNone(m.handler) ELSE m.none],
     role |-> role]
ByRow(m, row, level) ==
    Moved(m, IF row[3] = "element7" /\ row[4] = "GROUP_CLOSE" /\ level = 0 THEN "declClose" ELSE row[3],
          row[4], level)
InRow(m, rows) ==
    IF rows = {} THEN common(m)
    ELSE LET row == CHOOSE r \in rows : TRUE IN ByRow(m, row, Level(m, row[4]))

\* The machine behind this token, and the role it played.
XmlTokenRole(m, token) ==
    IF m.handler = "error" THEN [m |-> m, role |-> "NONE"]
    ELSE IF m.handler = "declClose" THEN declClose(m, token.tok)
    ELSE InRow(m, {r \in RowsOf[m.handler] : r[2] \in Terminals(token)})
=============================================================================
