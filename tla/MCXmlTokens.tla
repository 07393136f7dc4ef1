---------------------------- MODULE MCXmlTokens ----------------------------
(* Inputs for XmlTokens: what stands before the cut, and what may follow.     *)
EXTENDS XmlTokens

Content(t) == [mode |-> "content", s |-> t]
Prolog(t) == [mode |-> "prolog", s |-> t]
Tag == <<"<", "a", " ", "b", "=", "'">>
Version10 == <<" ", "version", "=", "'", "1", "'">>
Encoded == Version10 \o <<" ", "encoding", "=", "'", "xml", "'">>

SomeSeeds ==
    {Content(t) : t \in {<<>>, <<"<", "a">>, <<"<", "a", ":", "b", " ">>, <<"<", "a", " ", "b">>, Tag,
                         Tag \o <<"n">>, Tag \o <<"'">>, Tag \o <<"'", " ", "n", "=">>,
                         <<"<", "a", " ", "a", ":", "b", "=", "'", "'", " ", "n", ":", "b", "=", "\"">>,
                         <<"<", "/", "a">>, <<"<", "?", "xml">>, <<"<", "?", "XML">>, <<"<", "!">>,
                         <<"<", "!", "-", "-">>, <<"<", "!", "[">>, <<"&">>, <<"a", "]">>}}
    \cup {Prolog(t) : t \in {<<>>, <<"<", "!", "-">>, <<"<", "!", "a">>, <<"<", "?", "n">>, <<"'">>,
                             <<"a", ":">>, <<")">>, <<"]">>, <<" ">>}}
    \cup {[mode |-> "cdata", s |-> t] : t \in {<<>>, <<"a">>, <<"]">>}}
    \cup {[mode |-> "value", s |-> t] : t \in {<<>>, <<"a">>, <<" ", "a">>, <<"&", "n", ";">>}}
    \cup {[mode |-> "ref", s |-> t] :
             t \in {<<"&", "#", "x">>, <<"&", "#", "x", "1">>, <<"&", "#", "x", "1", "0", "0">>,
                    <<"&", "#">>, <<"&", "#", "1", "1", "1", "4">>}}
    \cup {[mode |-> "decl", s |-> t] :
             t \in {<<" ", "version">>, Version10, Version10 \o <<" ", "encoding">>, Encoded,
                    Version10 \o <<" ", "standalone", "=">>, Encoded \o <<" ", "standalone">>,
                    Version10 \o <<" ", "standalone", "=", "'", "yes", "'">>}}

SomeAlphabet ==
    [m \in {"content", "prolog", "cdata", "value", "ref", "decl"} |->
        CASE m = "content" -> {"a", "0", "<", ">", "/", "=", "'", " ", "cr", "lf", "&", ";", "]", "-",
                               "?", "u1", "m1", "w1", "u2", "ctl", "[", "CDATA", "#", ":"}
          [] m = "prolog" -> {"a", "0", "<", ">", "'", " ", "cr", "lf", "%", ";", "]", "[", "-", "?",
                              "u1", "w1", "u2", "(", ")", "*", "|", ",", "#", ":", "!"}
          [] m = "cdata" -> {"a", "]", ">", "cr", "lf", "u1", "u2", "ctl", "<"}
          [] m = "value" -> {"a", " ", "tab", "cr", "lf", "&", "n", ";", "#", "1", "\""}
          [] m = "ref" -> {"0", "1", "4", "D", "F", ";"}
          [] OTHER -> {" ", "=", "'", "encoding", "standalone", "yes", "1"}]

SomeGrowth == [m \in DOMAIN SomeAlphabet |->
    CASE m \in {"content", "prolog"} -> 3 [] m \in {"ref", "decl"} -> 5 [] OTHER -> 4]

\* An entity with spaces at its ends, and one that refers to itself.
Entity(t) == [text |-> t, known |-> TRUE, unparsed |-> FALSE, internal |-> TRUE]
SomeEntities == <<"n">> :> Entity(<<" ", "a", " ", " ">>) @@ <<"a">> :> Entity(<<"&", "a", ";">>)
=============================================================================
