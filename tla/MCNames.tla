------------------------------ MODULE MCNames ------------------------------
(***************************************************************************)
(* XmlNames, StringPool alone, and the tokenizer: one of them at a time.   *)
(***************************************************************************)
EXTENDS XmlNames, MCXmlTokens

CONSTANTS
  MaxKept,  \* bounds, in the pool alone: finished strings,
  MaxLength \* and the characters of a string

VARIABLE which      \* "names", "pool" or "tokens"

TypeNames == {<<"a">>, <<"p", ":", "a">>}
AttNames  == {<<"b">>, <<"p", ":", "b">>, <<"x", ":", "a">>}

\* The names of elements begin at one place of the smallest table.
Hashes(t) == IF Len(t) = 1 THEN 5 ELSE IF Len(t) = 2 THEN 9 ELSE IF t[1] = "p" THEN 1 ELSE 7

Blocks == Permutations(Block)

\* The tokenizer at rest.
NoTokens == mode = "cdata" /\ seed = 0 /\ s = <<>> /\ token = FirstToken("cdata", <<>>)

MCInit ==
  /\ NamesInit /\ which \in {"names", "pool", "tokens"}
  /\ IF which = "tokens" THEN TokensInit ELSE NoTokens

PoolNext ==
  /\ \/ pool.ptr - pool.start < MaxLength /\ \E c \in {"a", "b"} : AppendChar(c)
     \/ Cardinality(kept) < MaxKept /\ Finish
     \/ Discard \/ Chop \/ Clear
  /\ UNCHANGED tableVars

MCNext ==
  /\ UNCHANGED which
  /\ \/ which = "names" /\ NamesNext /\ UNCHANGED tokensVars
     \/ which = "pool" /\ PoolNext /\ UNCHANGED tokensVars
     \/ which = "tokens" /\ TokensNext /\ UNCHANGED <<vars, tableVars>>

MCSpec == MCInit /\ [][MCNext]_<<vars, tableVars, tokensVars, which>>
=============================================================================
