------------------------------ MODULE NameSet ------------------------------
(***************************************************************************)
(* What the tables of names of expat promise: three sets of names that     *)
(* grow with the declarations and the tags, and an answer for each call.   *)
(* XmlNames, with its pool, its hash tables and its memory that fails, is  *)
(* shown to implement it.                                                  *)
(***************************************************************************)
EXTENDS Naturals, Sequences

CONSTANTS
  TypeName,       \* names of elements
  AttName,        \* names of attributes
  TypePrefixes(_), AttPrefixes(_),  \* the prefixes a name brings with it
  DeclaredBy(_)   \* the prefixes it declares, as the name of an attribute

VARIABLES
  types, attributes, prefixes,   \* the names known
  asked, answer                  \* the last call and its answer

vars == <<types, attributes, prefixes, asked, answer>>

Init == types = {} /\ attributes = {} /\ prefixes = {} /\ asked = <<>> /\ answer = "none"

Prefixes(T, A) == (UNION {TypePrefixes(n) : n \in T}) \union (UNION {AttPrefixes(n) : n \in A})
Declared(S)    == UNION {DeclaredBy(n) : n \in S}

\* A call that ends well knows all its names; one that fails, some of them.
\* A prefix that is declared may be missing: memory fails there unnoticed.
Known(T, A, result) ==
  /\ answer' = result
  /\ types' = types \union T
  /\ attributes' = attributes \union A
  /\ \E S \in SUBSET Declared(A \ attributes) :
       prefixes' = prefixes \union Prefixes(T \ types, A \ attributes) \union S

Fails(T, A) ==
  /\ answer' = "fails"
  /\ types' \in {types \union S : S \in SUBSET T}
  /\ attributes' \in {attributes \union S : S \in SUBSET A}
  /\ prefixes' \in {prefixes \union S : S \in SUBSET (Prefixes(T, A) \union Declared(A))}

ElementType(n) ==
  /\ asked' = <<n>>
  /\ Known({n}, {}, "ok") \/ Fails({n}, {})

Repeats(atts) == {i \in 1 .. Len(atts) : \E j \in 1 .. i - 1 : atts[j] = atts[i]}

\* An attribute told twice is an error, and only that one is.
StartTag(n, atts) ==
  LET A == {atts[i] : i \in 1 .. Len(atts)}
  IN  /\ asked' = <<n, atts>>
      /\ \/ Repeats(atts) = {} /\ Known({n}, A, "ok")
         \/ /\ Repeats(atts) # {}
            /\ LET first == CHOOSE i \in Repeats(atts) : \A j \in Repeats(atts) : i <= j
               IN  Known({n}, {atts[i] : i \in 1 .. first}, "duplicate")
         \/ Fails({n}, A)

Reset ==
  /\ types' = {} /\ attributes' = {} /\ prefixes' = {}
  /\ asked' = <<>> /\ answer' = "none"

Attributes == {<<>>} \union {<<a>> : a \in AttName} \union (AttName \X AttName)

Next ==
  \/ \E n \in TypeName : ElementType(n)
  \/ \E n \in TypeName, atts \in Attributes : StartTag(n, atts)
  \/ Reset

Spec == Init /\ [][Next]_vars
=============================================================================
