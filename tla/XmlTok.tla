------------------------------- MODULE XmlTok -------------------------------
(* The tokenizer of the XML parser (SyExpat/lib/xmltok_impl.c, xmltok.c): one *)
(* operator per scan function, from a position of the input to the token that *)
(* starts there and the position behind it.                                   *)
(*                                                                            *)
(* The input s is a sequence of symbols.  A symbol is a byte, or a word: some *)
(* letters that are never cut.  Of the characters beyond ASCII there are three*)
(* of two bytes, a letter (u1 u2), one for names only (m1 u2) and one for     *)
(* neither (w1 u2); ctl is a control character.  The UTF-8 is well-formed.    *)
EXTENDS Integers, Sequences, FiniteSets, FiniteSetsExt

White == {" ", "tab", "cr", "lf"}
Quotes == {"'", "\""}
Digit == {"0", "1", "4", "8", "9"}
Hex == {"a", "b", "A", "D", "F"}
Words == {"xml", "XML", "Xml", "CDATA", "lt", "gt", "amp", "quot", "apos", "version",
          "encoding", "standalone", "yes", "no", "DOCTYPE", "ENTITY", "ATTLIST", "NMTOKENS",
          "SYSTEM", "xmlns"}
Lead == {"u1", "m1", "w1"}
NameStart == Hex \cup Words \cup {"x", "n", "_", "u1", "u2"}
NameChar == NameStart \cup Digit \cup {"-", ".", "m1"}

Tok(tok, next) == [tok |-> tok, next |-> next, open |-> FALSE]
Invalid(p) == Tok("INVALID", p)
Partial == Tok("PARTIAL", 0)
Past(s, p) == p > Len(s)
\* A token the end of the input may have cut (a negative value in the code).
Ended(s, tok) == [tok |-> tok, next |-> Len(s) + 1, open |-> TRUE]

\* Whether the bytes from p on are missing, and what a scan makes of that, or
\* of a character that must not stand there.
Cut(s, p) == Past(s, p) \/ (p = Len(s) /\ s[p] \in Lead)
Halt(s, p) ==
    IF Past(s, p) THEN Partial
    ELSE IF Cut(s, p) THEN Tok("PARTIAL_CHAR", 0) ELSE Invalid(p)
\* The first position from p on that is none of S, or where the input is cut;
\* the first one of S or a control character.
After(s, p, S) == Min({q \in p..(Len(s) + 1) : Cut(s, q) \/ s[q] \notin S})
Until(s, p, S) == Min({q \in p..(Len(s) + 1) : Cut(s, q) \/ s[q] \in S \cup {"ctl"}})
skipS(s, p) == Min({q \in p..(p + Len(s)) : Past(s, q) \/ s[q] \notin White})
nameLength(s, p) ==
    Min({q \in p..(Len(s) + 1) : Past(s, q) \/ s[q] \notin NameChar \cup {":"}}) - p
\* The end of a name from p on; p itself where no name starts there.
NameEnd(s, p) ==
    IF Cut(s, p) \/ s[p] \notin NameStart THEN p ELSE After(s, p, NameChar)

------------------------------------------------------------------------------
(* Comments, declarations, processing instructions, CDATA sections.           *)

\* From behind "<!-".
scanComment(s, p) ==
    IF Past(s, p) THEN Partial
    ELSE IF s[p] # "-" THEN Invalid(p)
    ELSE LET q == Min({i \in (p + 1)..(Len(s) + 1) :
                          \/ Cut(s, i) \/ s[i] = "ctl"
                          \/ s[i] = "-" /\ (i = Len(s) \/ s[i + 1] = "-")})
         IN  IF Cut(s, q) \/ s[q] = "ctl" THEN Halt(s, q)
             ELSE IF Past(s, q + 2) THEN Partial
             ELSE IF s[q + 2] = ">" THEN Tok("COMMENT", q + 3) ELSE Invalid(q + 2)

\* From behind "<!" of the prolog.
scanDecl(s, p) ==
    LET q == Min({i \in p..(Len(s) + 1) : Past(s, i) \/ s[i] \notin NameStart \ {"u1", "u2"}})
    IN  IF Past(s, p) THEN Partial
        ELSE IF s[p] = "-" THEN scanComment(s, p + 1)
        ELSE IF s[p] = "[" THEN Tok("COND_SECT_OPEN", p + 1)
        ELSE IF Past(s, q) THEN Partial
        ELSE IF q = p \/ s[q] \notin White \cup {"%"} THEN Invalid(q)
        ELSE IF s[q] \in White THEN Tok("DECL_OPEN", q)
        ELSE IF Past(s, q + 1) THEN Partial
        ELSE IF s[q + 1] \in White \cup {"%"} THEN Invalid(q)
        ELSE Tok("DECL_OPEN", q)

\* What the target from p to q makes of an instruction; xml in other letters
\* makes none.
checkPiTarget(s, p, q) ==
    CASE SubSeq(s, p, q - 1) = <<"xml">> -> "XML_DECL"
      [] SubSeq(s, p, q - 1) \in {<<"XML">>, <<"Xml">>} -> "INVALID"
      [] OTHER -> "PI"

\* From behind "<?"; its target ends at q, its data at e.
PiData(s, tok, e) ==
    IF Cut(s, e) \/ s[e] = "ctl" THEN Halt(s, e)
    ELSE IF e = Len(s) THEN Partial
    ELSE Tok(tok, e + 2)
PiTarget(s, p, q, tok) ==
    IF q = p \/ Cut(s, q) \/ s[q] \notin White \cup {"?"} THEN Halt(s, q)
    ELSE IF tok = "INVALID" THEN Invalid(q)
    ELSE IF s[q] # "?"
    THEN PiData(s, tok, Min({i \in (q + 1)..(Len(s) + 1) :
                                \/ Cut(s, i) \/ s[i] = "ctl"
                                \/ s[i] = "?" /\ (i = Len(s) \/ s[i + 1] = ">")}))
    ELSE IF Past(s, q + 1) THEN Partial
    ELSE IF s[q + 1] = ">" THEN Tok(tok, q + 2) ELSE Invalid(q + 1)
scanPi(s, p) == PiTarget(s, p, NameEnd(s, p), checkPiTarget(s, p, NameEnd(s, p)))

\* From behind "<![": six bytes, of which CDATA is one symbol here.
scanCdataSection(s, p) ==
    IF Past(s, p + 1) THEN Partial
    ELSE IF s[p] # "CDATA" THEN Invalid(p)
    ELSE IF s[p + 1] # "[" THEN Invalid(p + 1)
    ELSE Tok("CDATA_SECT_OPEN", p + 2)

\* The end of the line at p.
Newline(s, p) ==
    Tok("DATA_NEWLINE", IF s[p] = "cr" /\ ~Past(s, p + 1) /\ s[p + 1] = "lf" THEN p + 2 ELSE p + 1)

\* Character data from p on, whose first character may be one of the stops.
Data(s, p, stops) ==
    IF Cut(s, p) \/ s[p] = "ctl" THEN Halt(s, p)
    ELSE Tok("DATA_CHARS",
             Until(s, IF s[p] \in Lead THEN p + 2 ELSE p + 1, stops \cup {"cr", "lf"}))

cdataSectionTok(s, p) ==
    IF Past(s, p) THEN Tok("NONE", 0)
    ELSE IF s[p] = "]" /\ (Past(s, p + 1) \/ (s[p + 1] = "]" /\ Past(s, p + 2))) THEN Partial
    ELSE IF s[p] = "]" /\ s[p + 1] = "]" /\ s[p + 2] = ">" THEN Tok("CDATA_SECT_CLOSE", p + 3)
    ELSE IF s[p] = "cr" /\ Past(s, p + 1) THEN Partial
    ELSE IF s[p] \in {"cr", "lf"} THEN Newline(s, p)
    ELSE Data(s, p, {"]"})

------------------------------------------------------------------------------
(* References and tags.                                                       *)

\* From behind "&#x".
scanHexCharRef(s, p) ==
    LET q == Min({i \in p..(Len(s) + 1) : Past(s, i) \/ s[i] \notin Digit \cup Hex})
    IN  IF Past(s, q) THEN Partial
        ELSE IF q = p \/ s[q] # ";" THEN Invalid(q)
        ELSE Tok("CHAR_REF", q + 1)

\* From behind "&#".
scanCharRef(s, p) ==
    LET q == Min({i \in p..(Len(s) + 1) : Past(s, i) \/ s[i] \notin Digit})
    IN  IF ~Past(s, p) /\ s[p] = "x" THEN scanHexCharRef(s, p + 1)
        ELSE IF Past(s, q) THEN Partial
        ELSE IF q = p \/ s[q] # ";" THEN Invalid(q)
        ELSE Tok("CHAR_REF", q + 1)

\* A reference by a name that ends at q, if there is one and a semicolon behind it.
Reference(s, p, q, tok) ==
    IF q = p \/ Cut(s, q) \/ s[q] # ";" THEN Halt(s, q) ELSE Tok(tok, q + 1)
\* From behind "&".
scanRef(s, p) ==
    IF ~Past(s, p) /\ s[p] = "#" THEN scanCharRef(s, p + 1)
    ELSE Reference(s, p, NameEnd(s, p), "ENTITY_REF")

\* From behind "</"; the name ends at q, the white space behind it at e.
EndTagName(s, p, q, e) ==
    IF q = p \/ Cut(s, q) \/ s[q] \notin White \cup {">"} THEN Halt(s, q)
    ELSE IF Past(s, e) THEN Partial
    ELSE IF s[e] = ">" THEN Tok("END_TAG", e + 1) ELSE Invalid(e)
scanEndTag(s, p) ==
    LET q == IF NameEnd(s, p) = p THEN p ELSE After(s, p, NameChar \cup {":"})
    IN  EndTagName(s, p, q, skipS(s, q))

\* Mutant of QName: a name may have any number of colons.
QNameLoose(s, p) ==
    LET q == NameEnd(s, p)
    IN  Tok(IF q = p THEN "NONE" ELSE "NAME", IF q = p THEN p ELSE After(s, p, NameChar \cup {":"}))

\* The end of a name with at most one colon, or where there is none.
LocalName(s, p, e) == Tok(IF e = p \/ (~Cut(s, e) /\ s[e] = ":") THEN "NONE" ELSE "NAME", e)
FirstName(s, p, q) ==
    IF q = p \/ Cut(s, q) \/ s[q] # ":" THEN Tok(IF q = p THEN "NONE" ELSE "NAME", q)
    ELSE LocalName(s, q + 1, NameEnd(s, q + 1))
QName(s, p) == FirstName(s, p, NameEnd(s, p))

\* From behind the quote that opens a value to the one that closes it.
RECURSIVE InValue(_, _, _)
BehindRef(s, open, ref) ==
    IF ref.tok \in {"ENTITY_REF", "CHAR_REF"} THEN InValue(s, open, ref.next) ELSE ref
InValue(s, open, p) ==
    LET q == Until(s, p, {open, "&", "<"})
    IN  IF Cut(s, q) \/ s[q] \in {"<", "ctl"} THEN Halt(s, q)
        ELSE IF s[q] = open THEN Tok("VALUE", q)
        ELSE BehindRef(s, open, scanRef(s, q + 1))

\* From the "/" or ">" at p.
TagEnd(s, p, atts) ==
    IF s[p] = ">" THEN Tok("START_TAG" \o atts, p + 1)
    ELSE IF Past(s, p + 1) THEN Partial
    ELSE IF s[p + 1] = ">" THEN Tok("EMPTY_ELEMENT" \o atts, p + 2) ELSE Invalid(p + 1)

\* From the name of an attribute on: behind its value the next one is at next, its
\* equals sign is at eq, the quote that opens the value at open.
RECURSIVE scanAtts(_, _)
AttValue(s, value, next) ==
    IF value.tok # "VALUE" THEN value
    ELSE IF Past(s, next) THEN Partial
    ELSE IF s[next] \in {"/", ">"} THEN TagEnd(s, next, "_WITH_ATTS")
    ELSE IF next = value.next + 1 THEN Invalid(next)
    ELSE scanAtts(s, next)
AttQuote(s, open) ==
    IF Past(s, open) THEN Partial
    ELSE IF s[open] \notin Quotes THEN Invalid(open)
    ELSE LET value == InValue(s, s[open], open + 1)
         IN  AttValue(s, value, skipS(s, value.next + 1))
AttEquals(s, eq) ==
    IF Past(s, eq) THEN Partial
    ELSE IF s[eq] # "=" THEN Invalid(eq)
    ELSE AttQuote(s, skipS(s, eq + 1))
AttNamed(s, name) ==
    IF name.tok = "NONE" \/ Cut(s, name.next) \/ s[name.next] \notin White \cup {"="}
    THEN Halt(s, name.next)
    ELSE AttEquals(s, skipS(s, name.next))
scanAtts(s, p) == AttNamed(s, QName(s, p))

\* From behind the name of a start tag; white space ends at next.
BehindName(s, next) ==
    IF Past(s, next) THEN Partial
    ELSE IF s[next] \in {"/", ">"} THEN TagEnd(s, next, "_NO_ATTS")
    ELSE scanAtts(s, next)
TagName(s, name) ==
    IF name.tok = "NONE" \/ Cut(s, name.next) \/ s[name.next] \notin White \cup {"/", ">"}
    THEN Halt(s, name.next)
    ELSE BehindName(s, skipS(s, name.next))
\* From behind "<".
scanLt(s, p) ==
    IF Past(s, p) THEN Partial
    ELSE IF s[p] = "!"
    THEN IF Past(s, p + 1) THEN Partial
         ELSE IF s[p + 1] = "-" THEN scanComment(s, p + 2)
         ELSE IF s[p + 1] = "[" THEN scanCdataSection(s, p + 2)
         ELSE Invalid(p + 1)
    ELSE IF s[p] = "?" THEN scanPi(s, p + 1)
    ELSE IF s[p] = "/" THEN scanEndTag(s, p + 1)
    ELSE TagName(s, QName(s, p))

------------------------------------------------------------------------------
(* The tokenizers of the content and of values.                               *)

\* "]]>" at p, as far as the input shows it.
Brackets(s, p) ==
    /\ s[p] = "]"
    /\ Past(s, p + 1) \/ (s[p + 1] = "]" /\ (Past(s, p + 2) \/ s[p + 2] = ">"))

\* Mutant of contentTok: a carriage return is a token of its own.
contentTokAlone(s, p) ==
    IF Past(s, p) THEN Tok("NONE", 0)
    ELSE IF s[p] = "<" THEN scanLt(s, p + 1)
    ELSE IF s[p] = "&" THEN scanRef(s, p + 1)
    ELSE IF s[p] \in {"cr", "lf"} THEN Newline(s, p)
    ELSE Data(s, p, {"&", "<", "]"})

contentTok(s, p) ==
    LET q == Min({i \in (p + 1)..(Len(s) + 1) :
                     Cut(s, i) \/ s[i] \in {"&", "<", "cr", "lf", "ctl"} \/ Brackets(s, i)})
    IN  IF Past(s, p) THEN Tok("NONE", 0)
        ELSE IF s[p] = "<" THEN scanLt(s, p + 1)
        ELSE IF s[p] = "&" THEN scanRef(s, p + 1)
        ELSE IF s[p] = "cr" /\ Past(s, p + 1) THEN Tok("TRAILING_CR", 0)
        ELSE IF s[p] \in {"cr", "lf"} THEN Newline(s, p)
        ELSE IF Brackets(s, p)
        THEN IF Past(s, p + 2) THEN Tok("TRAILING_RSQB", 0) ELSE Invalid(p + 2)
        ELSE IF Cut(s, p) \/ s[p] = "ctl" THEN Halt(s, p)
        ELSE IF ~Cut(s, q) /\ s[q] = "]" /\ ~Past(s, q + 2) THEN Invalid(q + 2)
        ELSE Tok("DATA_CHARS", q)

\* The pieces of the value of an attribute or of an entity: runs of characters,
\* line ends, references, and white space (attribute) or % (entity).
ValueTok(s, p, stops) ==
    IF Past(s, p) THEN Tok("NONE", 0)
    ELSE IF s[p] = "&" THEN scanRef(s, p + 1)
    ELSE IF s[p] = "cr" /\ Past(s, p + 1) THEN Tok("TRAILING_CR", 0)
    ELSE IF s[p] \in {"cr", "lf"} THEN Newline(s, p)
    ELSE Tok("DATA_CHARS",
             Min({q \in (p + 1)..(Len(s) + 1) : Past(s, q) \/ s[q] \in stops \cup {"&", "cr", "lf"}}))

\* Characters do not end at a tag.
NoTag(s, t) ==
    IF t.tok = "DATA_CHARS" /\ ~Past(s, t.next) /\ s[t.next] = "<" THEN Invalid(t.next) ELSE t
attributeValueTok(s, p) ==
    IF ~Past(s, p) /\ s[p] \in {" ", "tab"} THEN Tok("ATTRIBUTE_VALUE_S", p + 1)
    ELSE IF ~Past(s, p) /\ s[p] = "<" THEN Invalid(p)
    ELSE NoTag(s, ValueTok(s, p, {"<", " ", "tab"}))

------------------------------------------------------------------------------
(* The tokenizer of the prolog.                                               *)

\* From behind "%".
scanPercent(s, p) ==
    IF Past(s, p) THEN Ended(s, "PERCENT")
    ELSE IF s[p] \in White \cup {"%"} THEN Tok("PERCENT", p)
    ELSE Reference(s, p, NameEnd(s, p), "PARAM_ENTITY_REF")

NoPercent(t) == IF t.tok = "PERCENT" /\ ~t.open THEN Invalid(t.next) ELSE t
entityValueTok(s, p) ==
    IF ~Past(s, p) /\ s[p] = "%" THEN NoPercent(scanPercent(s, p + 1))
    ELSE ValueTok(s, p, {"%"})

\* From behind "#".
scanPoundName(s, p) ==
    LET q == NameEnd(s, p)
    IN  IF q # p /\ Past(s, q) THEN Ended(s, "POUND_NAME")
        ELSE IF q = p \/ Cut(s, q) \/ s[q] \notin White \cup {")", ">", "%", "|"} THEN Halt(s, q)
        ELSE Tok("POUND_NAME", q)

\* From behind the quote that opens a literal.
scanLit(s, open, p) ==
    LET q == Until(s, p, {open})
    IN  IF Cut(s, q) \/ s[q] = "ctl" THEN Halt(s, q)
        ELSE IF Past(s, q + 1) THEN Ended(s, "LITERAL")
        ELSE IF s[q + 1] \in White \cup {">", "%", "["} THEN Tok("LITERAL", q + 1)
        ELSE Invalid(q + 1)

\* White space; the carriage return that the input ends with is left for the
\* line feed that may follow.
PrologS(s, p) ==
    LET q == skipS(s, p)
    IN  IF s[p] = "cr" /\ p = Len(s) THEN Ended(s, "PROLOG_S")
        ELSE Tok("PROLOG_S", IF Past(s, q) /\ s[Len(s)] = "cr" THEN Len(s) ELSE q)

\* A name or a name token from p on: what it is when it ends at a separator.
RECURSIVE PrologName(_, _, _)
PrologName(s, p, tok) ==
    LET q == After(s, p, NameChar)
    IN  IF Past(s, q) THEN Ended(s, tok)
        ELSE IF Cut(s, q) THEN Halt(s, q)
        ELSE IF s[q] \in White \cup {">", ")", ",", "|", "[", "%"} THEN Tok(tok, q)
        ELSE IF s[q] = ":"
        THEN IF tok = "NMTOKEN" THEN PrologName(s, q + 1, tok)
             ELSE IF tok = "PREFIXED_NAME" THEN PrologName(s, q + 1, "NMTOKEN")
             ELSE IF Cut(s, q + 1) THEN Halt(s, q + 1)
             ELSE PrologName(s, q + 1, IF s[q + 1] \in NameChar THEN "PREFIXED_NAME" ELSE "NMTOKEN")
        ELSE IF s[q] \in {"+", "*", "?"} /\ tok # "NMTOKEN" THEN Tok("NAME" \o s[q], q + 1)
        ELSE Invalid(q)

prologTok(s, p) ==
    IF Past(s, p) THEN Tok("NONE", 0)
    ELSE IF s[p] \in Quotes THEN scanLit(s, s[p], p + 1)
    ELSE IF s[p] = "<"
    THEN IF Past(s, p + 1) THEN Partial
         ELSE IF s[p + 1] = "!" THEN scanDecl(s, p + 2)
         ELSE IF s[p + 1] = "?" THEN scanPi(s, p + 2)
         ELSE IF s[p + 1] \in NameStart \cup Lead THEN Tok("INSTANCE_START", p)
         ELSE Invalid(p + 1)
    ELSE IF s[p] \in White THEN PrologS(s, p)
    ELSE IF s[p] = "%" THEN scanPercent(s, p + 1)
    ELSE IF s[p] = "," THEN Tok("COMMA", p + 1)
    ELSE IF s[p] = "[" THEN Tok("OPEN_BRACKET", p + 1)
    ELSE IF s[p] = "]"
    THEN IF Past(s, p + 1) THEN Ended(s, "CLOSE_BRACKET")
         ELSE IF s[p + 1] = "]" /\ Past(s, p + 2) THEN Partial
         ELSE IF s[p + 1] = "]" /\ s[p + 2] = ">" THEN Tok("COND_SECT_CLOSE", p + 3)
         ELSE Tok("CLOSE_BRACKET", p + 1)
    ELSE IF s[p] = "(" THEN Tok("OPEN_PAREN", p + 1)
    ELSE IF s[p] = ")"
    THEN IF Past(s, p + 1) THEN Ended(s, "CLOSE_PAREN")
         ELSE IF s[p + 1] \in {"*", "?", "+"} THEN Tok("CLOSE_PAREN" \o s[p + 1], p + 2)
         ELSE IF s[p + 1] \in White \cup {">", ",", "|", ")"} THEN Tok("CLOSE_PAREN", p + 1)
         ELSE Invalid(p + 1)
    ELSE IF s[p] = "|" THEN Tok("OR", p + 1)
    ELSE IF s[p] = ">" THEN Tok("DECL_CLOSE", p + 1)
    ELSE IF s[p] = "#" THEN scanPoundName(s, p + 1)
    ELSE IF Cut(s, p) THEN Halt(s, p)
    ELSE IF s[p] \in NameStart THEN PrologName(s, p, "NAME")
    ELSE IF s[p] \in NameChar \cup {":"} THEN PrologName(s, p + 1, "NMTOKEN")
    ELSE Invalid(p)
=============================================================================
