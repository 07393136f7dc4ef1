---------------------------- MODULE MCXmlProlog ----------------------------
\* A few names, literals and declarations for the prolog.
EXTENDS XmlProlog

Token(tok, v) == [tok |-> tok, v |-> v]
Plain == {"PROLOG_S", "PI", "COMMENT", "INSTANCE_START", "PARAM_ENTITY_REF", "OPEN_BRACKET",
          "CLOSE_BRACKET", "DECL_CLOSE", "PERCENT", "OPEN_PAREN", "CLOSE_PAREN", "CLOSE_PAREN*",
          "OR", "COMMA", "COND_SECT_CLOSE"}
Keywords == {"SYSTEM", "PUBLIC", "NDATA", "CDATA", "ID", "NMTOKEN", "NOTATION", "EMPTY", "ANY"}
Alone(v) == <<"<", "?", "xml", " ", "version", "=", "'", "1", "'", " ", "standalone", "=", "'", v, "'",
              "?", ">">>
SomeTokens ==
    {Token(t, <<>>) : t \in Plain}
    \cup {Token("NAME", <<n>>) : n \in Keywords \cup {"a", "lt"}}
    \cup {Token("PREFIXED_NAME", <<"xmlns", ":", "a">>), Token("NAME*", <<"a", "*">>),
          Token("NMTOKEN", <<"1">>)}
    \cup {Token("DECL_OPEN", <<n>>) : n \in {"DOCTYPE", "ENTITY", "NOTATION", "ATTLIST", "ELEMENT"}}
    \cup {Token("POUND_NAME", <<n>>) : n \in {"IMPLIED", "FIXED", "PCDATA"}}
    \cup {Token("LITERAL", <<"'">> \o t \o <<"'">>) :
              t \in {<<" ", "x">>, <<"&", "a", ";">>, <<"%", "a", ";">>}}
    \cup {Token("XML_DECL", Alone(v)) : v \in {"yes", "no"}}
Name(n) == Token("NAME", <<n>>)
Open(n) == Token("DECL_OPEN", <<n>>)
Mark(tok) == Token(tok, <<>>)
Subset == <<Open("DOCTYPE"), Name("a"), Mark("OPEN_BRACKET")>>
Seed(tokens, more) == [tokens |-> tokens, more |-> more]
SomeSeeds == {
    Seed(<<>>, 7),
    Seed(Subset, 5),
    Seed(Subset \o <<Open("ENTITY"), Name("a"), Token("LITERAL", <<"'", " ", "x", "'">>), Mark("DECL_CLOSE")>>, 5),
    Seed(Subset \o <<Open("ATTLIST"), Name("a"), Name("a")>>, 6),
    Seed(Subset \o <<Open("ELEMENT"), Name("a"), Mark("OPEN_PAREN")>>, 8)}
SomeNames == {"a", "lt", "SYSTEM"}
=============================================================================
