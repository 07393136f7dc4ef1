----------------------------- MODULE XmlTokens -----------------------------
(* The tokenizer on an input that arrives byte by byte, compared with the     *)
(* grammar of XML.                                                            *)
EXTENDS XmlValue

CONSTANTS
    Seeds,      \* where an input starts: a tokenizer and the first symbols
    Alphabet,   \* the symbols that may follow, for each tokenizer
    Growth,     \* bound: how many of them, for each tokenizer
    Entities    \* the declared entities, by name

VARIABLES
    mode,       \* the tokenizer
    seed,       \* the length of the seed
    s,          \* the input so far
    token       \* its first token

tokensVars == <<mode, seed, s, token>>

FirstToken(m, t) == CASE m = "content" -> contentTok(t, 1)
                      [] m = "prolog" -> prologTok(t, 1)
                      [] m = "cdata" -> cdataSectionTok(t, 1)
                      [] OTHER -> Tok("NONE", 0)

TokensInit ==
    \E start \in Seeds :
        /\ mode = start.mode /\ s = start.s /\ seed = Len(start.s)
        /\ token = FirstToken(start.mode, start.s)

\* One more symbol; a character of two bytes gets its second one.
Arrive ==
    /\ Len(s) < seed + Growth[mode]
    /\ \E c \in Alphabet[mode] :
          /\ c = "u2" <=> (s # <<>> /\ Last(s) \in Lead)
          /\ s' = Append(s, c) /\ token' = FirstToken(mode, Append(s, c))
    /\ UNCHANGED <<mode, seed>>

TokensNext == Arrive
TokensSpec == TokensInit /\ [][TokensNext]_tokensVars

------------------------------------------------------------------------------
(* The grammar of XML.                                                        *)

Symbols == UNION {Alphabet[m] : m \in DOMAIN Alphabet}
AllIn(t, S) == \A i \in DOMAIN t : t[i] \in S
IsNCName(t) == t # <<>> /\ t[1] \in NameStart \ {"u2"} /\ AllIn(t, NameChar \cup {"u2"})
IsQName(t) ==
    \/ IsNCName(t)
    \/ \E i \in DOMAIN t : t[i] = ":" /\ IsNCName(SubSeq(t, 1, i - 1)) /\ IsNCName(RestOf(t, i + 1))
IsRef(t) ==
    /\ Len(t) > 2 /\ t[1] = "&" /\ Last(t) = ";"
    /\ \/ IsNCName(NameOf(t))
       \/ t[2] = "#" /\ Len(t) > 3 /\ AllIn(SubSeq(t, 3, Len(t) - 1), Digit)
       \/ t[2] = "#" /\ Len(t) > 4 /\ t[3] = "x" /\ AllIn(SubSeq(t, 4, Len(t) - 1), Digit \cup Hex)
IsText(t) ==
    /\ AllIn(t, Symbols \ {"<", "ctl"})
    /\ \A i \in DOMAIN t : t[i] = "&" => \E j \in i..Len(t) : IsRef(SubSeq(t, i, j))
IsValue(t) ==
    /\ Len(t) > 1 /\ t[1] \in Quotes /\ Last(t) = t[1]
    /\ IsText(NameOf(t)) /\ ~Contains(NameOf(t), t[1])
IsAttribute(t) ==
    \E e \in DOMAIN t :
        /\ t[e] = "="
        /\ \E n \in 1..(e - 1), v \in (e + 1)..Len(t) :
              /\ IsQName(SubSeq(t, 1, n)) /\ AllIn(SubSeq(t, n + 1, e - 1), White)
              /\ AllIn(SubSeq(t, e + 1, v - 1), White) /\ IsValue(RestOf(t, v))
RECURSIVE IsAttributes(_)
IsAttributes(t) ==
    \/ AllIn(t, White)
    \/ \E a, e \in DOMAIN t :
          /\ a > 1 /\ e >= a + 3 /\ AllIn(SubSeq(t, 1, a - 1), White)
          /\ t[a] \in NameStart /\ t[e] \in Quotes
          /\ IsAttribute(SubSeq(t, a, e)) /\ IsAttributes(RestOf(t, e + 1))
IsTag(t) ==
    /\ Len(t) > 2 /\ t[1] = "<" /\ Last(t) = ">"
    /\ \E n \in 2..(Len(t) - 1), e \in {Len(t) - 1, Len(t) - 2} :
          /\ n <= e /\ SubSeq(t, e + 1, Len(t)) \in {<<">">>, <<"/", ">">>}
          /\ IsQName(SubSeq(t, 2, n)) /\ IsAttributes(SubSeq(t, n + 1, e))

------------------------------------------------------------------------------
(* Properties.                                                                *)

Dtd == [ents |-> Entities, check |-> TRUE]
Complete(t) ==
    ~t.open /\ t.tok \notin {"NONE", "PARTIAL", "PARTIAL_CHAR", "TRAILING_CR", "TRAILING_RSQB"}

TokensTypeOK ==
    /\ token.next \in 0..(Len(s) + 1)
    /\ token.tok \notin {"NONE", "PARTIAL", "PARTIAL_CHAR", "TRAILING_CR", "TRAILING_RSQB", "INVALID"}
           => token.next > (IF token.tok = "INSTANCE_START" THEN 0 ELSE 1)

\* A token that was handed out is the same however much of the input is there
\* yet: only a run of characters or of white space may go on, and characters
\* may turn out to end in "]]>" (the tests for the end in xmltok_impl.c).
TokensStand ==
    [][Complete(token) =>
          \/ token' = token
          \/ /\ token.tok \in {"DATA_CHARS", "PROLOG_S"}
             /\ token'.tok = token.tok /\ token'.next > token.next
          \/ /\ mode = "content" /\ token.tok = "DATA_CHARS"
             /\ token'.tok = "INVALID" /\ token'.next >= token.next
             /\ SubSeq(s', token'.next - 2, token'.next) = <<"]", "]", ">">>]_tokensVars

\* What is taken for a start tag is one, and every start tag is taken for one
\* (scanLt and scanAtts).
TagsAreXml ==
    mode = "content" /\ s # <<>> /\ Last(s) = ">" =>
        ((token.tok \in {"START_TAG_NO_ATTS", "START_TAG_WITH_ATTS", "EMPTY_ELEMENT_NO_ATTS",
                             "EMPTY_ELEMENT_WITH_ATTS"} /\ token.next = Len(s) + 1)
         <=> IsTag(s))

\* The spaces of a tokenized value: none outside, single ones inside.
Collapsed(t) ==
    LET kept == {i \in DOMAIN t : t[i] # " " \/ (i > 1 /\ i < Len(t) /\ t[i - 1] # " "
                                                /\ \E j \in i..Len(t) : t[j] # " ")}
    IN  [k \in 1..Cardinality(kept) |-> t[CHOOSE i \in kept : Cardinality({j \in kept : j < i}) = k - 1]]

\* An attribute's value comes out the same whether the scan of the tag found it
\* normalised (getAtts) or not, and a value that is not CDATA is the CDATA one
\* with its spaces collapsed, through entities and character references too
\* (storeAttributeValue).
ValuesNormalized ==
    mode = "value" /\ IsText(s) =>
        LET cdata == storeAttributeValue(s, TRUE, Dtd)
            tokens == storeAttributeValue(s, FALSE, Dtd)
            quoted == <<"'">> \o s \o <<"'">>
        IN  /\ cdata.err = tokens.err
            /\ tokens.err = "NONE" => tokens.val = Collapsed(cdata.val)
            /\ Normalized(quoted, 2, Len(quoted) - 1) => s = cdata.val /\ s = tokens.val

ValueOf(digits, base) ==
    FoldSet(LAMBDA i, v : v + DigitValue[digits[i]] * base ^ (Len(digits) - i), 0, DOMAIN digits)
IsChar(n) ==
    \/ n \in {9, 10, 13} \/ n \in 32..55295 \/ n \in 57344..65533 \/ n \in 65536..1114111

\* A character reference is the character of its number, and an error where XML
\* has no such character, however many digits it has (charRefNumber).
ReferencesNumbered ==
    mode = "ref" /\ IsRef(s) =>
        LET n == IF s[3] = "x" THEN ValueOf(SubSeq(s, 4, Len(s) - 1), 16)
                 ELSE ValueOf(SubSeq(s, 3, Len(s) - 1), 10)
        IN  charRefNumber(s) = IF IsChar(n) THEN n ELSE -1

\* One pseudo attribute of the declaration, with one of these values.
IsPseudo(t, name, Good(_)) ==
    LET n == skipS(t, 1)
        e == skipS(t, n + 1)
        v == skipS(t, e + 1)
    IN  /\ n > 1 /\ v < Len(t) /\ t[n] = name
        /\ t[e] = "=" /\ t[v] \in Quotes /\ Last(t) = t[v]
        /\ Good(SubSeq(t, v + 1, Len(t) - 1))
Version(v) == AllIn(v, ValueChar)
Encoding(v) == v # <<>> /\ AllIn(v, ValueChar) /\ v[1] \notin Digit \cup {".", "-", "_"}
YesNo(v) == v \in {<<"yes">>, <<"no">>}
IsXmlDecl(t) ==
    \E i, j, k \in {0} \cup {q \in DOMAIN t : t[q] \in Quotes} :
        /\ i <= j /\ j <= k
        /\ IsPseudo(SubSeq(t, 1, i), "version", Version)
        /\ i = j \/ IsPseudo(SubSeq(t, i + 1, j), "encoding", Encoding)
        /\ j = k \/ IsPseudo(SubSeq(t, j + 1, k), "standalone", YesNo)
        /\ AllIn(RestOf(t, k + 1), White)

\* What is taken for an XML declaration is one (doParseXmlDecl).
XmlDeclsAreXml == mode = "decl" => (doParseXmlDecl(s).ok <=> IsXmlDecl(s))

\* Tags and declarations are told from what only looks like them, and a token
\* never ends before it begins.
MarkupIsXml == TokensTypeOK /\ TagsAreXml /\ XmlDeclsAreXml

\* The values of attributes and of references are those that are written.
ValuesAsWritten == ValuesNormalized /\ ReferencesNumbered
=============================================================================
