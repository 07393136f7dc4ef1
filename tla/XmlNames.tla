------------------------------ MODULE XmlNames ------------------------------
(***************************************************************************)
(* The names a document type keeps (SyExpat/lib/xmlparse.c): the string    *)
(* pool dtd->pool and the hash tables of element types, attributes and     *)
(* prefixes, whose entries point to names in the pool.  A name looked up   *)
(* is built in the pool first and kept only when it is a new one.          *)
(***************************************************************************)
EXTENDS StringPool, FiniteSets, TLC

CONSTANTS
  TypeName, AttName,   \* names of elements and attributes: sequences of characters
  Zero, Colon, Xmlns,  \* the closing 0, the colon, the five characters "xmlns"
  Mark,                \* the character 1, written before a name of an attribute
  Hash(_),             \* the hash of a text
  InitSize,            \* the places a table begins with (1 << INIT_POWER)
  MaxCalls             \* bound: the calls, resets left aside

ASSUME NamesAssumption ==
  /\ {Zero, Colon, Xmlns, Mark} \subseteq Char
  /\ \A n \in TypeName \union AttName : n \in Seq(Char \ {Zero})
  /\ Mark # Zero
\* The tokenizers let no second colon through (xmltok_impl.c:534, 721, 1164).
ASSUME ColonAssumption ==
  \A n \in TypeName \union AttName : \A i, j \in 1 .. Len(n) : n[i] = Colon /\ n[j] = Colon => i = j
ASSUME InitSizeAssumption == InitSize \in {4, 8, 16, 32, 64}

VARIABLES
  tables,    \* types, attributes, prefixes: see NoTable
  prefixOf,  \* the prefix of an entry, by the addresses of the two names
  asked,     \* history: the names of the last call
  answer,    \* of the last call: ok, duplicate, nomemory, dies
  calls

tableVars == <<tables, prefixOf, asked, answer, calls>>

NoTable == [size |-> 0, used |-> 0, v |-> <<>>]
Empty   == [block |-> None, at |-> 0]
Blanks(size) == [i \in 0 .. size - 1 |-> Empty]

\* The string at an address, as far as its closing 0.
Read(p, a) ==
  LET s == p.heap[a.block]
      zeros == {i \in a.at + 1 .. Len(s) : s[i] = Zero}
  IN  IF zeros = {} THEN <<Junk>>
      ELSE SubSeq(s, a.at + 1, (CHOOSE i \in zeros : \A j \in zeros : i <= j) - 1)

\* PROBE_STEP: the bits of the hash the index leaves out, made odd, in a byte.
ProbeStep(h, size) ==
  LET second == (((h - (h % size)) \div (size \div 2)) % (size \div 4)) % 256
  IN  IF second % 2 = 0 THEN second + 1 ELSE second

\* The k-th place looked at, downwards and around.
Probe(h, size, k) == ((h % size) + k * (size - ProbeStep(h, size))) % size

\* The first place of those; -1 would look for ever.
FirstOf(ends, h, size) ==
  IF ends = {} THEN 0 - 1 ELSE Probe(h, size, CHOOSE k \in ends : \A l \in ends : k <= l)

\* The place that ends the search for s: it is empty or holds the name.
Place(p, t, s) ==
  LET stops(e) == e = Empty \/ Read(p, e) = s
  IN  FirstOf({k \in 0 .. t.size - 1 : stops(t.v[Probe(Hash(s), t.size, k)])}, Hash(s), t.size)

\* The first empty place for a hash.
Free(t, h) == FirstOf({k \in 0 .. t.size - 1 : t.v[Probe(h, t.size, k)] = Empty}, h, t.size)

\* An entry of the old table in the new one, whose names are all different.
Put(p, new, e) ==
  IF e = Empty THEN new ELSE [new EXCEPT !.v[Free(new, Hash(Read(p, e)))] = e]

\* lookup, the larger table: the entries in their order, each in its new place.
Rehashed(p, t) ==
  LET new[i \in 0 .. t.size] ==
        IF i = 0 THEN [t EXCEPT !.size = 2 * @, !.v = Blanks(2 * t.size)]
        ELSE Put(p, new[i - 1], t.v[i - 1])
  IN  new[t.size]

\* Mutant: a table is made larger when it is full, not when it is half full.
FullOf(t) == t.used \div t.size > 0

HalfFull(t) == t.used \div (t.size \div 2) > 0

EntryAt(t, i) == IF i = 0 - 1 THEN Empty ELSE t.v[i]

Found(p, t, s) == IF t.size = 0 THEN Empty ELSE EntryAt(t, Place(p, t, s))

\* A table with a place for one more entry.
Roomy(p, t) ==
  IF t.size = 0 THEN [t EXCEPT !.size = InitSize, !.v = Blanks(InitSize)]
  ELSE IF HalfFull(t) THEN Rehashed(p, t) ELSE t

\* The tables that entering the name s at a may leave, found being its entry so far.
Entered(t, room, s, a, found) ==
  IF found # Empty THEN {[t |-> t, e |-> found]}
  ELSE {[t |-> t, e |-> Empty], [t |-> room, e |-> Empty],
        [t |-> [room EXCEPT !.v[Free(room, Hash(s))] = a, !.used = @ + 1], e |-> a]}

\* lookup with a size: the tables it may leave, with the entry or Empty.
Lookup(p, t, a) == Entered(t, Roomy(p, t), Read(p, a), a, Found(p, t, Read(p, a)))
-----------------------------------------------------------------------------
(***************************************************************************)
(* The calls work on a record of the variables and give the set of what    *)
(* they may leave: memory may fail at each growth and each entry.          *)
(***************************************************************************)
Now == [pool |-> pool, kept |-> kept, tables |-> tables, prefixOf |-> prefixOf,
        answer |-> "ok", entry |-> Empty, marked |-> {}]

Ends(st, how) == [st EXCEPT !.answer = how]

\* Each outcome that is still well goes on with Then.
Next1(S, Then(_)) == UNION {IF st.answer = "ok" THEN Then(st) ELSE {st} : st \in S}

\* The characters of s, one poolAppendChar after the other.
Stored(st, s) ==
  LET after[i \in 0 .. Len(s)] ==
        IF i = 0 THEN {st.pool}
        ELSE UNION {IF p.ok THEN Appended(p, s[i]) ELSE {p} : p \in after[i - 1]}
  IN  {[st EXCEPT !.pool = p, !.answer = IF p.ok THEN "ok" ELSE "nomemory"] : p \in after[Len(s)]}

Kept(st, skip) ==
  LET p == st.pool
  IN  [st EXCEPT !.pool = Finished(p),
                 !.kept = @ \union {[block |-> p.cur, at |-> p.start + skip,
                                    text |-> SubSeq(Current(p), skip + 1, Len(Current(p)))]}]

Dropped(st) == [st EXCEPT !.pool = Discarded(st.pool)]

\* Where the string being built begins, after skip characters.
BuiltAt(st, skip) == [block |-> st.pool.cur, at |-> st.pool.start + skip]

Looked(st, table, a) ==
  {[st EXCEPT !.tables[table] = r.t, !.entry = r.e,
              !.answer = IF r.e = Empty THEN "nomemory" ELSE "ok"] :
     r \in Lookup(st.pool, st.tables[table], a)}

\* A name that was new stays in the pool, one known leaves it.
Settled(st, a, skip) == IF st.entry = a THEN Kept(st, skip) ELSE Dropped(st)

\* The prefix: built in the pool, looked up, and given to the entry e.
Prefixed(st, e, text, ifNone) ==
  LET Settle(r) == {[Settled(r, BuiltAt(r, 0), 0) EXCEPT !.prefixOf = (e :> r.entry) @@ @]}
      Look(r)   == {IF q.answer = "nomemory" THEN Ends(q, ifNone) ELSE q :
                      q \in Looked(r, "prefixes", BuiltAt(r, 0))}
  IN  Next1(Next1(Stored(st, Append(text, Zero)), Look), Settle)

Colons(s) == {i \in 1 .. Len(s) : s[i] = Colon}
Prefix(s) == SubSeq(s, 1, (CHOOSE i \in Colons(s) : \A j \in Colons(s) : i <= j) - 1)

\* setElementTypePrefix, whose names have one colon at most.
setElementTypePrefix(st, e) ==
  LET name == Read(st.pool, e)
  IN  IF Colons(name) = {} THEN {st}
      ELSE Prefixed(st, e, Prefix(name), "nomemory")

\* getElementType
getElementType(st, n) ==
  LET Look(r)   == Looked(r, "types", BuiltAt(r, 0))
      Settle(r) == LET a == BuiltAt(r, 0)
                   IN  IF r.entry = a THEN setElementTypePrefix(Settled(r, a, 0), a)
                       ELSE {Settled(r, a, 0)}
  IN  Next1(Next1(Stored(st, Append(n, Zero)), Look), Settle)

\* storeAtts: a name not in the table is kept before it is looked up again.
TypeOfTag(st, n) ==
  LET Keep(r) == {[Kept(r, 0) EXCEPT !.entry = BuiltAt(r, 0)]}
      Look(r) == Looked(r, "types", r.entry)
      Fix(r)  == setElementTypePrefix(r, r.entry)
  IN  IF Found(st.pool, st.tables.types, n) # Empty THEN {st}
      ELSE Next1(Next1(Next1(Stored(st, Append(n, Zero)), Keep), Look), Fix)

\* "xmlns" alone, or before a colon.
IsXmlns(s) == Len(s) > 0 /\ s[1] = Xmlns /\ (Len(s) > 1 => s[2] = Colon)

\* The prefix of a new attribute: the one it declares, or the one before its
\* colon, whose entry is used without a look at the failure of memory.
AttPrefix(st, id) ==
  LET name == Read(st.pool, id)
  IN  IF IsXmlns(name) /\ Len(name) > 1
      THEN {[q EXCEPT !.answer = "ok", !.prefixOf = (id :> q.entry) @@ @, !.entry = id] :
              q \in Looked(st, "prefixes", [id EXCEPT !.at = @ + 2])}
      ELSE IF IsXmlns(name) \/ Colons(name) = {} THEN {st}
      ELSE {[q EXCEPT !.entry = id] : q \in Prefixed(st, id, Prefix(name), "dies")}

\* getAttributeId: one character before the name is for the mark.
getAttributeId(st, n) ==
  LET Look(r)   == Looked(r, "attributes", BuiltAt(r, 1))
      Settle(r) == LET a == BuiltAt(r, 1)
                   IN  IF r.entry = a THEN AttPrefix(Settled(r, a, 1), a) ELSE {Settled(r, a, 1)}
  IN  Next1(Next1(Stored(st, <<Zero>> \o Append(n, Zero)), Look), Settle)

Before(st)    == st.pool.heap[st.entry.block][st.entry.at]
Marked(st)    == [st EXCEPT !.pool.heap[st.entry.block][st.entry.at] = Mark,
                            !.marked = @ \union {st.entry}]

\* storeAtts: an attribute that is marked stands twice in the tag.
Attribute(st, n) ==
  LET Check(r) == {IF Before(r) # Zero THEN Ends(r, "duplicate") ELSE Marked(r)}
  IN  Next1(getAttributeId(st, n), Check)

\* Mutant: the marks stay.
StillMarked(st) == {st}

\* storeAtts, at the end of the tag: the marks are taken off again.
Unmarked(st) ==
  {[st EXCEPT !.pool.heap = [b \in Block |-> [i \in 1 .. Len(@[b]) |->
       IF [block |-> b, at |-> i] \in st.marked THEN Zero ELSE @[b][i]]]]}

\* storeAtts: the names of a tag.
storeAtts(st, n, atts) ==
  LET S[i \in 0 .. Len(atts)] ==
        IF i = 0 THEN TypeOfTag(st, n)
        ELSE LET Take(r) == Attribute(r, atts[i]) IN Next1(S[i - 1], Take)
  IN  Next1(S[Len(atts)], Unmarked)

-----------------------------------------------------------------------------
NamesInit ==
  /\ Init
  /\ tables = [types |-> NoTable, attributes |-> NoTable, prefixes |-> NoTable]
  /\ prefixOf = <<>> /\ asked = <<>> /\ answer = "none" /\ calls = 0

Call(names, S) ==
  /\ answer \in {"none", "ok"} /\ calls < MaxCalls
  /\ calls' = calls + 1 /\ asked' = names
  /\ \E st \in S : /\ pool' = st.pool /\ kept' = st.kept /\ tables' = st.tables
                   /\ prefixOf' = st.prefixOf /\ answer' = st.answer

\* A declaration of the document type names an element.
ElementType(n) == Call(<<n>>, getElementType(Now, n))

StartTag(n, atts) == Call(<<n, atts>>, storeAtts(Now, n, atts))

\* hashTableClear: the places stay, the entries are freed.
TableCleared(t) == [t EXCEPT !.used = 0, !.v = [i \in DOMAIN t.v |-> Empty]]

\* dtdReset, by XML_ParserReset.
Reset ==
  /\ answer \notin {"none", "dies"}
  /\ Clear
  /\ tables' = [x \in DOMAIN tables |-> TableCleared(tables[x])]
  /\ prefixOf' = <<>> /\ asked' = <<>> /\ answer' = "none"
  /\ UNCHANGED calls

AttLists == {<<>>} \union {<<a>> : a \in AttName} \union (AttName \X AttName)

NamesNext ==
  \/ \E n \in TypeName : ElementType(n)
  \/ \E n \in TypeName, atts \in AttLists : StartTag(n, atts)
  \/ Reset

NamesSpec == NamesInit /\ [][NamesNext]_<<vars, tableVars>>

-----------------------------------------------------------------------------
Entries(t) == {t.v[i] : i \in DOMAIN t.v} \ {Empty}
Texts(t)   == {Read(pool, e) : e \in Entries(t)}

(***************************************************************************)
(* Every entry is found again under the name it reads as, and no name has  *)
(* two entries: the names in the pool stay as they were entered, and the   *)
(* search passes every entry put in its way (lookup, getElementType,       *)
(* getAttributeId, poolGrow).                                              *)
(***************************************************************************)
EntriesAreFound ==
  \A x \in DOMAIN tables :
    \A e \in Entries(tables[x]) : Found(pool, tables[x], Read(pool, e)) = e

(***************************************************************************)
(* A search ends: there is an empty place on the way of every hash, since  *)
(* no table is more than half full (lookup, PROBE_STEP).                   *)
(***************************************************************************)
SearchesEnd ==
  \A x \in DOMAIN tables :
    LET t == tables[x]
    IN  /\ t.used = Cardinality(Entries(t)) /\ 2 * t.used <= t.size
        /\ t.size > 0 => \A h \in {Hash(s) : s \in TypeName \union AttName} :
             \E k \in 0 .. t.size - 1 : t.v[Probe(h, t.size, k)] = Empty

(***************************************************************************)
(* Every name is found again, and the search for one that is not there     *)
(* ends.                                                                   *)
(***************************************************************************)
TableSound == EntriesAreFound /\ SearchesEnd

\* What the tables promise.
TypeBrings(s) == IF Colons(s) = {} THEN {} ELSE {Prefix(s)}
AttBrings(s)  == IF IsXmlns(s) THEN {} ELSE TypeBrings(s)
Declares(s)   == IF IsXmlns(s) /\ Len(s) > 1 THEN {SubSeq(s, 3, Len(s))} ELSE {}

Names == INSTANCE NameSet WITH
  types <- Texts(tables.types), attributes <- Texts(tables.attributes),
  prefixes <- Texts(tables.prefixes),
  TypePrefixes <- TypeBrings, AttPrefixes <- AttBrings, DeclaredBy <- Declares,
  answer <- IF answer \in {"nomemory", "dies"} THEN "fails" ELSE answer

(***************************************************************************)
(* The tables keep the names of the calls and no other, an attribute is    *)
(* told to stand twice exactly when it does, and a failing call loses no   *)
(* name known before (getElementType, storeAtts, getAttributeId).          *)
(***************************************************************************)
KeepsTheNames == Names!Spec
=============================================================================
