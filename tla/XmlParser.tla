----------------------------- MODULE XmlParser -----------------------------
(* The parser on a document that arrives in pieces (XML_Parse, XML_GetBuffer, *)
(* XML_ParseBuffer, XML_StopParser, XML_ParserReset in SyExpat/lib/xmlparse.c *)
(* and CExpatParserBase of Symbian/SyExpat.cpp), one token per step.  The     *)
(* application stops it from a handler.  Resume is declared in SyExpat.h and  *)
(* defined nowhere, so a suspended parser cannot go on.                       *)
EXTENDS XmlContent

CONSTANTS
    Documents,  \* records: text, told (the events it means, with their places), err (why it is
                \* not well-formed, "NONE" if it is), root (where its root element ends)
    InitBuffer, \* the size of the first internal buffer (1024)
    MaxCalls,   \* bound: calls of Parse and ParseBuffer,
    ShortText,  \* and one more on a document of at most that length,
    MaxStops    \* bound: calls of Stop
ASSUME ParserAssumption == InitBuffer \in Nat \ {0}

VARIABLES
    doc,        \* the document
    fed,        \* how much of it the parser was given (parseEndByteIndex)
    x,          \* the parser on a token (XmlContent)
    proc,       \* the processor
    parsing,    \* the parsing status
    buf,        \* the internal buffer: its size, where the unparsed data in it starts, the data
    call,       \* the call in progress: how it came, its input, where in it the next token is,
                \* and where in the code the parser is
    pos,        \* line and column of that token
    told,       \* what the handlers heard, and where the parser said it was
    status,     \* what the last call returned
    made        \* calls and stops made so far, the call in which a handler stopped the parser
                \* (0: none), and whether a reset made it deaf

parsingVars == <<doc, fed, x, proc, parsing, buf, call, pos, told, status, made>>

Idle == [via |-> "none", s |-> <<>>, at |-> 1, final |-> FALSE, loop |-> "none", after |-> 0]
NoBuffer == [lim |-> 0, ptr |-> 0, data |-> <<>>]
Origin == [line |-> 1, column |-> 0]

ParsingInit ==
    /\ doc \in Documents
    /\ fed = 0 /\ x = contentInit /\ proc = "prolog" /\ parsing = "INITIALIZED"
    /\ buf = NoBuffer /\ call = Idle /\ pos = Origin /\ told = <<>> /\ status = "none"
    /\ made = [calls |-> 0, stops |-> 0, stopped |-> 0, deaf |-> FALSE]

------------------------------------------------------------------------------
(* The calls.                                                                 *)

Refused == parsing \in {"SUSPENDED", "FINISHED"}
Refuse ==
    /\ status' = "ERROR" /\ x' = Err(x, parsing)
    /\ UNCHANGED <<fed, proc, parsing, buf, call, pos>>

\* The processor starts on s.
Enter(via, s, final) ==
    /\ parsing' = "PARSING"
    /\ call' = [via |-> via, s |-> s, at |-> 1, final |-> final, loop |-> proc, after |-> 0]
    /\ UNCHANGED <<x, proc, pos, status>>

\* Mutant of Room: what is left over is not counted.
RoomForNew(n) ==
    LET old == IF buf.lim = buf.ptr THEN InitBuffer ELSE buf.lim - buf.ptr
        size == Min({old * 2 ^ k : k \in {i \in 1..8 : old * 2 ^ i >= n}})
    IN  IF n <= buf.lim - buf.ptr - Len(buf.data) THEN buf
        ELSE IF n <= buf.lim THEN [buf EXCEPT !.ptr = 0]
        ELSE [buf EXCEPT !.ptr = 0, !.lim = size]
\* XML_GetBuffer: the buffer with room for n more symbols: as it is, moved to its
\* start, or a larger one.
Room(n) ==
    LET needed == n + Len(buf.data)
        old == IF buf.lim = buf.ptr THEN InitBuffer ELSE buf.lim - buf.ptr
        size == Min({old * 2 ^ k : k \in {i \in 1..8 : old * 2 ^ i >= needed}})
    IN  IF n <= buf.lim - buf.ptr - Len(buf.data) THEN buf
        ELSE IF needed <= buf.lim THEN [buf EXCEPT !.ptr = 0]
        ELSE [buf EXCEPT !.ptr = 0, !.lim = size]
Filled(t) == [Room(Len(t)) EXCEPT !.data = @ \o t]

\* XML_Parse: t is parsed where it is, unless something is left over.
Parse(t, final) ==
    IF Refused THEN Refuse
    ELSE IF t = <<>> /\ ~final
    THEN status' = "OK" /\ parsing' = "PARSING" /\ UNCHANGED <<fed, x, proc, buf, call, pos>>
    ELSE /\ fed' = fed + Len(t)
         /\ IF t = <<>> THEN buf' = buf /\ Enter("end", buf.data, final)
            ELSE IF buf.data = <<>> THEN buf' = buf /\ Enter("input", t, final)
            ELSE buf' = Filled(t) /\ Enter("buffer", buf.data \o t, final)
\* XML_GetBuffer and XML_ParseBuffer.
ParseBuffer(t, final) ==
    IF Refused THEN Refuse
    ELSE /\ fed' = fed + Len(t) /\ buf' = Filled(t) /\ Enter("buffer", buf.data \o t, final)

IsShort == Len(doc.text) <= ShortText
Calls == MaxCalls + (IF IsShort THEN 1 ELSE 0)
\* Bound: behind the first call of a longer one come all that is left, one symbol or none.
Amounts ==
    LET left == Len(doc.text) - fed
    IN  IF IsShort \/ made.calls = 0 THEN 0..left ELSE {n \in {0, 1, left} : n <= left}
\* The application hands over n more symbols of the document.
Feed ==
    /\ call = Idle /\ made.calls < Calls /\ made' = [made EXCEPT !.calls = @ + 1]
    /\ \E n \in Amounts, final \in BOOLEAN :
          LET t == SubSeq(doc.text, fed + 1, fed + n)
          IN  Parse(t, final) \/ ParseBuffer(t, final)
    /\ UNCHANGED <<doc, told>>

\* Stop(EFalse) between calls; it aborts a suspended parser.
StopSuspended ==
    /\ call = Idle /\ parsing = "SUSPENDED" /\ parsing' = "FINISHED" /\ status' = "OK"
    /\ UNCHANGED <<doc, fed, x, proc, buf, call, pos, told, made>>

\* XML_ParserReset.  All handlers are gone, and with the user data the way to
\* set those of SyExpat again.  Bound: once, with one call behind it.
Reset ==
    /\ call = Idle /\ parsing # "INITIALIZED" /\ ~made.deaf
    /\ x' = contentInit
    /\ fed' = 0 /\ proc' = "prolog" /\ parsing' = "INITIALIZED" /\ pos' = Origin
    /\ buf' = [buf EXCEPT !.ptr = 0, !.data = <<>>] /\ told' = <<>> /\ status' = "none"
    /\ made' = [made EXCEPT !.calls = Calls - 1, !.stopped = 0, !.deaf = TRUE]
    /\ UNCHANGED <<doc, call>>

------------------------------------------------------------------------------
(* One token.  r is what comes of it: the parser, the position behind it, the *)
(* place in the code, whether the processor returns (ends), and which parsing *)
(* status it looks for before the next token (looks).                         *)

Ended2 == {"SUSPENDED", "FINISHED"}
Result(y, next, loop) == [x |-> y, next |-> next, loop |-> loop, ends |-> FALSE, looks |-> Ended2]
Waits == [Result(x, call.at, call.loop) EXCEPT !.ends = TRUE]
\* The input is used up.
Over(y) == [Result(y, Len(call.s) + 1, call.loop) EXCEPT !.ends = TRUE]
Short == {"NONE", "PARTIAL", "PARTIAL_CHAR", "TRAILING_CR", "TRAILING_RSQB"}

\* The text of a token of the prolog, as its role needs it.
TextOf(tok, text) ==
    CASE tok = "DECL_OPEN" -> RestOf(text, 3) [] tok = "POUND_NAME" -> RestOf(text, 2) [] OTHER -> text
\* The start of the root element is left to the content.
PrologToken(t, text, y) ==
    IF t.tok = "INSTANCE_START" /\ y.p.err = "NONE"
    THEN [Result(y, call.at, "content") EXCEPT !.looks = {}]
    ELSE Result(CASE t.tok = "PI" -> Told(y, <<Instruction(text)>>)
                  [] t.tok = "COMMENT" -> Told(y, <<Comment(text)>>)
                  [] OTHER -> y, t.next, "prolog")
TokenText(t) == SubSeq(call.s, call.at, t.next - 1)
PrologStep(t) ==
    IF (t.open \/ t.tok \in Short) /\ ~call.final THEN Waits
    ELSE PrologToken(t, TokenText(t), [x EXCEPT !.p = doProlog(@, [tok |-> t.tok, v |-> TextOf(t.tok, TokenText(t))])])
InProlog == PrologStep(prologTok(call.s, call.at))

\* Behind the root element the epilog follows at once.
ContentToken(t, y) ==
    LET root == y.tags = <<>> /\ t.tok \in {"END_TAG", "EMPTY_ELEMENT_NO_ATTS", "EMPTY_ELEMENT_WITH_ATTS"}
    IN  IF t.tok = "CDATA_SECT_OPEN" THEN [Result(y, t.next, "section") EXCEPT !.looks = {}]
        ELSE IF root THEN [Result(y, t.next, "epilog") EXCEPT !.looks = {}]
        ELSE Result(y, t.next, "content")
ContentStep(t) ==
    IF t.tok \notin Short THEN ContentToken(t, doContent(x, t.tok, TokenText(t)))
    ELSE IF ~call.final THEN Waits
    ELSE Over(ContentEnds(x, t.tok, RestOf(call.s, call.at)))
InContent == ContentStep(contentTok(call.s, call.at))

\* A CDATA section within the content (section), or one that an earlier call began
\* (cdata), behind which the content follows at once unless the parse was aborted.
CdataToken(t, y) ==
    IF t.tok # "CDATA_SECT_CLOSE" THEN Result(y, t.next, call.loop)
    ELSE [Result(y, t.next, "content") EXCEPT
             !.looks = IF call.loop = "section" THEN Ended2 ELSE {"FINISHED"}]
CdataStep(t) ==
    IF t.tok \notin Short THEN CdataToken(t, doCdataSection(x, t.tok, TokenText(t)))
    ELSE IF ~call.final THEN Waits
    ELSE Over(CdataEnds(x, t.tok))
InCdata == CdataStep(cdataSectionTok(call.s, call.at))

\* White space that ends in a carriage return is taken though a line feed may come.
EpilogStep(t) ==
    IF t.tok = "NONE" \/ (t.tok = "PROLOG_S" /\ t.open) THEN Over(x)
    ELSE IF t.tok \notin Short THEN Result(doEpilog(x, t.tok, TokenText(t)), t.next, "epilog")
    ELSE IF ~call.final THEN Waits
    ELSE Over(EpilogEnds(x, t.tok))
InEpilog == EpilogStep(prologTok(call.s, call.at))

Token == CASE call.loop = "prolog" -> InProlog
           [] call.loop = "content" -> InContent
           [] call.loop \in {"section", "cdata"} -> InCdata
           [] call.loop = "epilog" -> InEpilog
           [] call.loop = "error" -> Over(x)

------------------------------------------------------------------------------
(* The handlers hear of the token r, and one of them may stop the parser; now *)
(* is the parsing status behind them.                                         *)

\* Where the parser says the event is: the end of an empty element behind it.
Behind(r) == updatePosition(pos, SubSeq(call.s, call.at, r.next - 1))
Event(e, r) ==
    LET late == e.what \in {"end", "endNamespace"} /\ call.s[call.at + 1] # "/"
    IN  [e |-> e, at |-> fed - Len(call.s) + (IF late THEN r.next ELSE call.at) - 1,
         line |-> IF late THEN Behind(r).line ELSE pos.line]
Hear(r) ==
    told' = IF made.deaf THEN told
            ELSE told \o [i \in DOMAIN r.x.p.told |-> Event(r.x.p.told[i], r)]
Quiet(y) == [y EXCEPT !.p.told = <<>>]

\* XML_StopParser in a handler.
CanStop(r, now) ==
    /\ ~made.deaf /\ made.stops < MaxStops
    /\ r.next > call.at /\ call.loop # "error"
    /\ \/ parsing = "PARSING" /\ now \in Ended2
       \/ parsing = "SUSPENDED" /\ now = "FINISHED"

FailWith(y, now) ==
    /\ status' = "ERROR" /\ proc' = "error" /\ call' = Idle /\ x' = Quiet(y) /\ parsing' = now
    /\ UNCHANGED <<buf, pos>>

\* What stays in the buffer; of the caller's input the rest is copied there.
Left(r, now) ==
    LET rest == RestOf(call.s, r.next)
        size == IF Len(rest) > buf.lim THEN 2 * Len(call.s) ELSE buf.lim
    IN  IF call.via # "input" THEN [buf EXCEPT !.ptr = @ + r.next - 1, !.data = RestOf(@, r.next)]
        ELSE IF rest = <<>> \/ (now = "PARSING" /\ call.final) THEN buf
        ELSE [lim |-> size, ptr |-> 0, data |-> rest]

\* The processor is done without an error.  When a handler aborted the parse, the
\* status of XML_Parse is a local variable that was never set.
Return(r, now) ==
    LET tags == storeRawNames(r.x.tags)
    IN  /\ IF now = "SUSPENDED" THEN status' = "SUSPENDED"
           ELSE IF now = "FINISHED" /\ call.via = "input" THEN status' \in {"OK", "ERROR", "SUSPENDED"}
           ELSE status' = "OK"
        /\ parsing' = IF now = "PARSING" /\ call.final THEN "FINISHED" ELSE now
        /\ proc' = IF r.loop = "section" THEN "cdata" ELSE r.loop
        /\ x' = Quiet([r.x EXCEPT !.tags =
                [i \in DOMAIN tags |-> IF tags[i].kept THEN tags[i] ELSE [tags[i] EXCEPT !.raw = Garbage]]])
        /\ buf' = Left(r, now) /\ pos' = Behind(r) /\ call' = Idle

Continue(r, now) ==
    /\ x' = Quiet(r.x) /\ pos' = Behind(r) /\ parsing' = now
    /\ call' = [call EXCEPT !.at = r.next, !.loop = r.loop, !.after = IF now = "PARSING" THEN 0 ELSE @ + 1]
    /\ UNCHANGED <<proc, buf, status>>
GoOn(r, now) ==
    IF r.ends \/ (now = "SUSPENDED" /\ now \in r.looks) THEN Return(r, now)
    ELSE IF now = "FINISHED" /\ now \in r.looks THEN FailWith(Err(r.x, "ABORTED"), now)
    ELSE Continue(r, now)

Step ==
    /\ call # Idle
    /\ \E r \in {Token}, now \in {parsing} \cup Ended2 :
          /\ now # parsing => CanStop(r, now)
          /\ Hear(r)
          /\ made' = IF now = parsing THEN made
                     ELSE [made EXCEPT !.stops = @ + 1, !.stopped = made.calls]
          /\ IF call.loop = "error" \/ r.x.p.err # "NONE" THEN FailWith(r.x, now) ELSE GoOn(r, now)
    /\ UNCHANGED <<doc, fed>>

ParsingNext == Feed \/ StopSuspended \/ Reset \/ Step
ParsingSpec == ParsingInit /\ [][ParsingNext]_parsingVars

------------------------------------------------------------------------------
(* Properties.                                                                *)

ParsingTypeOK ==
    /\ fed \in 0..Len(doc.text) /\ parsing \in {"INITIALIZED", "PARSING"} \cup Ended2
    /\ proc \in {"prolog", "content", "cdata", "epilog", "error"}
    /\ call.at \in 1..(Len(call.s) + 1)
    /\ proc # "error" => Len(x.heap) = 1 + Len(FlattenSeq([i \in DOMAIN x.tags |-> x.tags[i].decls]))
    /\ \A b \in Range(x.bound) : b \in 0..Len(x.heap)

\* However the document is cut, the handlers hear what it means, each event once
\* and in its place: elements with the names their declarations give them, at
\* the start and at the end, declarations of namespaces around them, attributes
\* with those that are declared for them, text and the rest.  Up to the epilog
\* the lines are those of the document too.
ToldAsWritten ==
    /\ Len(told) <= Len(doc.told)
    /\ \A i \in DOMAIN told :
          /\ told[i].e = doc.told[i].e
          /\ doc.told[i].at >= 0 =>
                /\ told[i].at = doc.told[i].at
                /\ told[i].at < doc.root => told[i].line = doc.told[i].line

\* A document is accepted when it is well-formed and its root element was closed
\* before the end of the input, and everything was told then; it is refused for
\* what is wrong with it, or for its early end.
Verdict ==
    [][call # Idle /\ call' = Idle /\ proc # "error" /\ made'.stopped = 0 =>
        /\ status' = "OK" /\ call.final => fed >= doc.root
        /\ status' = "OK" /\ call.final /\ fed = Len(doc.text)
               => doc.err = "NONE" /\ (made.deaf \/ Len(told') = Len(doc.told))
        /\ status' = "ERROR" =>
               \/ x'.p.err = doc.err
               \/ /\ call.final /\ fed < Len(doc.text)
                  /\ x'.p.err \in {"NO_ELEMENTS", "UNCLOSED_TOKEN", "PARTIAL_CHAR", "UNCLOSED_CDATA_SECTION"}]_parsingVars

\* The internal buffer has room for what was put into it.
BufferFits == buf.ptr + Len(buf.data) <= buf.lim

\* Behind the call in which it was stopped or has failed the parser tells nothing
\* any more.
QuietBehindTheEnd ==
    [][told' # told /\ told' # <<>> => proc # "error" /\ made'.stopped \in {0, made.calls}]_told

\* Stop takes effect after two more tokens at most: the rest of the section and
\* of the root element do not look.
StopsSoon == call.after <= 2

\* Whatever the order of the calls, the buffer is large enough, and the parser
\* stops in time.
ParserBounded == ParsingTypeOK /\ BufferFits /\ StopsSoon

\* Every call is answered by what the document is, and none behind the end is
\* told anything.
ParserAnswers == Verdict /\ QuietBehindTheEnd
=============================================================================
