------------------------------ MODULE XmlValue ------------------------------
(* What the tokens of the XML parser stand for: the attributes of a tag, the  *)
(* number of a character reference, the normalised value of an attribute, the *)
(* text of an entity, the XML declaration (SyExpat/lib/xmltok_impl.c,         *)
(* xmltok.c, xmlparse.c).                                                     *)
(*                                                                            *)
(* dtd.ents maps names to declared entities; dtd.check says that a reference  *)
(* to any other is an error (no parameter entity was referred to, or the      *)
(* document stands alone).                                                    *)
EXTENDS XmlTok, SequencesExt, TLC

RestOf(t, p) == SubSeq(t, p, Len(t))

------------------------------------------------------------------------------
(* Attributes of a tag.                                                       *)

\* Mutant of Normalized: the space before the closing quote is overlooked.
NormalizedEarly(s, from, to) ==
    \A i \in from..to : /\ s[i] \notin {"&", "tab", "cr", "lf"}
                        /\ s[i] = " " => i # from /\ s[i + 1] # " "

\* Whether the value between these positions is stored as it stands.
Normalized(s, from, to) ==
    \A i \in from..to :
        /\ s[i] \notin {"&", "tab", "cr", "lf"}
        /\ s[i] = " " => i # from /\ s[i + 1] # " " /\ i # to

\* The attributes of a well-formed tag, from behind a name or a value on.
RECURSIVE getAtts(_, _)
getAtts(s, p) ==
    LET name == Min({i \in p..Len(s) : s[i] \in NameStart \cup {">", "/"}})
        open == Min({i \in name..Len(s) : s[i] \in Quotes})
        close == Min({i \in (open + 1)..Len(s) : s[i] = s[open]})
    IN  IF s[name] \in {">", "/"} THEN <<>>
        ELSE <<[name |-> SubSeq(s, name, name + nameLength(s, name) - 1),
                value |-> SubSeq(s, open + 1, close - 1),
                normalized |-> Normalized(s, open + 1, close - 1)]>>
             \o getAtts(s, close + 1)

------------------------------------------------------------------------------
(* References.                                                                *)

DigitValue == [d \in Digit \cup Hex |->
    CASE d = "0" -> 0 [] d = "1" -> 1 [] d = "4" -> 4 [] d = "8" -> 8 [] d = "9" -> 9
      [] d \in {"a", "A"} -> 10 [] d = "b" -> 11 [] d = "D" -> 13 [] d = "F" -> 15]

\* Characters that XML has not: surrogates, controls, FFFE and FFFF.
checkCharRefNumber(n) ==
    IF \/ n \in 55296..57343
       \/ n \in 0..31 \ {9, 10, 13}
       \/ n \in {65534, 65535}
    THEN -1 ELSE n

\* The number of the reference t; -1 for one beyond Unicode.
charRefNumber(t) ==
    LET base == IF t[3] = "x" THEN 16 ELSE 10
        add(r, d) == LET n == IF r = -1 THEN -1 ELSE r * base + DigitValue[d]
                     IN  IF n >= 1114112 THEN -1 ELSE n
    IN  checkCharRefNumber(FoldLeft(add, 0, SubSeq(t, IF base = 16 THEN 4 ELSE 3, Len(t) - 1)))

\* XmlEncode: a character of the output, by its number.
CharOf(n) ==
    CASE n = 9 -> "tab" [] n = 10 -> "lf" [] n = 13 -> "cr" [] n = 32 -> " "
      [] n = 38 -> "&" [] n = 60 -> "<" [] OTHER -> ToString(n)

Predefined == [lt |-> "<", gt |-> ">", amp |-> "&", quot |-> "\"", apos |-> "'"]
NameOf(ref) == SubSeq(ref, 2, Len(ref) - 1)
predefinedEntityName(name) ==
    IF Len(name) = 1 /\ name[1] \in DOMAIN Predefined THEN Predefined[name[1]] ELSE "none"

\* What is wrong with a reference to this entity, open being those around it.
EntityError(dtd, name, open) ==
    IF name \notin DOMAIN dtd.ents THEN IF dtd.check THEN "UNDEFINED_ENTITY" ELSE "NONE"
    ELSE IF dtd.check /\ ~dtd.ents[name].internal THEN "ENTITY_DECLARED_IN_PE"
    ELSE IF name \in open THEN "RECURSIVE_ENTITY_REF"
    ELSE IF dtd.ents[name].unparsed THEN "BINARY_ENTITY_REF"
    ELSE "NONE"

------------------------------------------------------------------------------
(* Values.  Each gives an error or the characters stored so far (pool).       *)

StoredValue(pool) == [err |-> "NONE", val |-> pool]
ValueError(err) == [err |-> err, val |-> <<>>]
Spaced(pool, cdata) ==
    IF ~cdata /\ (pool = <<>> \/ Last(pool) = " ") THEN pool ELSE Append(pool, " ")

\* The reference n, or the entity of this name in a value: what is stored behind it.
CharStored(n, cdata, pool) ==
    IF n = -1 THEN ValueError("BAD_CHAR_REF")
    ELSE StoredValue(IF n = 32 THEN Spaced(pool, cdata) ELSE Append(pool, CharOf(n)))
RECURSIVE appendAttributeValue(_, _, _, _, _)
EntityStored(name, cdata, dtd, open, pool) ==
    LET err == EntityError(dtd, name, open)
    IN  IF predefinedEntityName(name) # "none"
        THEN StoredValue(Append(pool, predefinedEntityName(name)))
        ELSE IF err # "NONE" THEN ValueError(err)
        ELSE IF name \notin DOMAIN dtd.ents THEN StoredValue(pool)
        ELSE IF ~dtd.ents[name].known THEN ValueError("ATTRIBUTE_EXTERNAL_ENTITY_REF")
        ELSE appendAttributeValue(dtd.ents[name].text, cdata, dtd, open \cup {name}, pool)
\* The token tok, whose text this is.
PieceStored(tok, piece, cdata, dtd, open, pool) ==
    CASE tok \in {"INVALID", "PARTIAL"} -> ValueError("INVALID_TOKEN")
      [] tok = "CHAR_REF" -> CharStored(charRefNumber(piece), cdata, pool)
      [] tok = "DATA_CHARS" -> StoredValue(pool \o piece)
      [] tok \in {"TRAILING_CR", "ATTRIBUTE_VALUE_S", "DATA_NEWLINE"} -> StoredValue(Spaced(pool, cdata))
      [] tok = "ENTITY_REF" -> EntityStored(NameOf(piece), cdata, dtd, open, pool)
      [] OTHER -> ValueError("UNEXPECTED_STATE")
Continued(t, v, cdata, dtd, open) ==
    IF v.err # "NONE" THEN v ELSE appendAttributeValue(t, cdata, dtd, open, v.val)
FromToken(t, tok, next, cdata, dtd, open, pool) ==
    IF tok = "NONE" THEN StoredValue(pool)
    ELSE Continued(RestOf(t, next), PieceStored(tok, SubSeq(t, 1, next - 1), cdata, dtd, open, pool),
                   cdata, dtd, open)
appendAttributeValue(t, cdata, dtd, open, pool) ==
    LET tok == attributeValueTok(t, 1)
    IN  FromToken(t, tok.tok, IF tok.tok = "TRAILING_CR" THEN 2 ELSE tok.next, cdata, dtd, open, pool)

storeAttributeValue(t, cdata, dtd) ==
    LET v == appendAttributeValue(t, cdata, dtd, {}, <<>>)
    IN  IF ~cdata /\ v.val # <<>> /\ Last(v.val) = " " THEN StoredValue(Front(v.val)) ELSE v

\* The text of an entity: general references stay, those of parameter entities
\* are errors in the document itself.
RECURSIVE storeEntityValue(_, _)
EntityPiece(tok, piece, pool) ==
    CASE tok = "PARAM_ENTITY_REF" -> ValueError("PARAM_ENTITY_REF")
      [] tok \in {"ENTITY_REF", "DATA_CHARS"} -> StoredValue(pool \o piece)
      [] tok \in {"TRAILING_CR", "DATA_NEWLINE"} -> StoredValue(Append(pool, "lf"))
      [] tok = "CHAR_REF" -> CharStored(charRefNumber(piece), TRUE, pool)
      [] tok \in {"PARTIAL", "INVALID"} -> ValueError("INVALID_TOKEN")
      [] OTHER -> ValueError("UNEXPECTED_STATE")
EntityFrom(t, tok, next, pool) ==
    LET v == EntityPiece(tok, SubSeq(t, 1, next - 1), pool)
    IN  IF tok = "NONE" THEN StoredValue(pool)
        ELSE IF v.err # "NONE" THEN v ELSE storeEntityValue(RestOf(t, next), v.val)
storeEntityValue(t, pool) ==
    LET tok == entityValueTok(t, 1)
    IN  EntityFrom(t, tok.tok, IF tok.tok = "TRAILING_CR" THEN 2 ELSE tok.next, pool)

\* Line ends of comments and instructions.
normalizeLines(t) ==
    LET kept == SelectSeq([i \in DOMAIN t |->
                              IF t[i] = "lf" /\ i > 1 /\ t[i - 1] = "cr" THEN "dropped" ELSE t[i]],
                          LAMBDA c : c # "dropped")
    IN  [i \in DOMAIN kept |-> IF kept[i] = "cr" THEN "lf" ELSE kept[i]]

\* The position behind these characters: a CR, an LF or both end a line.
updatePosition(pos, t) ==
    LET ends == {i \in DOMAIN t : t[i] = "lf" \/ (t[i] = "cr" /\ (i = Len(t) \/ t[i + 1] # "lf"))}
        from == IF ends = {} THEN 1 ELSE Max(ends) + 1
    IN  [line |-> pos.line + Cardinality(ends),
         column |-> (IF ends = {} THEN pos.column ELSE 0)
                    + Cardinality({i \in from..Len(t) : t[i] # "u2"})]

------------------------------------------------------------------------------
(* The XML declaration.                                                       *)

ValueChar == Hex \cup Words \cup Digit \cup {"x", "n", ".", "-", "_"}
NoAttribute(p) == [ok |-> TRUE, name |-> <<>>, val |-> <<>>, next |-> p]
BadAttribute == [ok |-> FALSE, name |-> <<>>, val |-> <<>>, next |-> 0]

\* One name = value behind white space, or just white space: the name from name to
\* end, the quotes at open and close.
PseudoValue(s, name, end, open, close) ==
    IF Past(s, open) \/ s[open] \notin Quotes \/ Past(s, close) \/ s[close] # s[open] THEN BadAttribute
    ELSE [ok |-> TRUE, name |-> SubSeq(s, name, end - 1),
          val |-> SubSeq(s, open + 1, close - 1), next |-> close + 1]
PseudoName(s, name, end, eq) ==
    LET open == skipS(s, eq + 1)
    IN  IF Past(s, eq) \/ s[eq] # "=" \/ eq = name THEN BadAttribute
        ELSE PseudoValue(s, name, end, open,
                         Min({i \in (open + 1)..(Len(s) + 1) : Past(s, i) \/ s[i] \notin ValueChar}))
PseudoFrom(s, p, name) ==
    LET end == Min({i \in name..(Len(s) + 1) : Past(s, i) \/ s[i] \in White \cup Lead \cup {"="}})
    IN  IF Past(s, name) THEN NoAttribute(p) ELSE PseudoName(s, name, end, skipS(s, end))
parsePseudoAttribute(s, p) ==
    IF Past(s, p) THEN NoAttribute(p)
    ELSE IF s[p] \notin White THEN BadAttribute
    ELSE PseudoFrom(s, p, skipS(s, p))

\* What stands between "<?xml" and "?>": version, encoding, standalone.
GoodDecl(alone) == [ok |-> TRUE, standalone |-> alone]
BadDecl == [ok |-> FALSE, standalone |-> "unset"]
Standalone(s, third) ==
    IF ~third.ok THEN BadDecl
    ELSE IF third.name = <<>> THEN GoodDecl("unset")
    ELSE IF third.name # <<"standalone">> \/ third.val \notin {<<"yes">>, <<"no">>} THEN BadDecl
    ELSE IF ~Past(s, skipS(s, third.next)) THEN BadDecl
    ELSE GoodDecl(third.val[1])
BehindVersion(s, second) ==
    IF ~second.ok THEN BadDecl
    ELSE IF second.name = <<>> THEN GoodDecl("unset")
    ELSE IF second.name # <<"encoding">> THEN Standalone(s, second)
    ELSE IF second.val = <<>> \/ second.val[1] \in Digit \cup {".", "-", "_"} THEN BadDecl
    ELSE Standalone(s, parsePseudoAttribute(s, second.next))
FromVersion(s, version) ==
    IF ~version.ok \/ version.name # <<"version">> THEN BadDecl
    ELSE BehindVersion(s, parsePseudoAttribute(s, version.next))
doParseXmlDecl(s) == FromVersion(s, parsePseudoAttribute(s, 1))
=============================================================================
