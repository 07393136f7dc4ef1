----------------------------- MODULE StringPool -----------------------------
(***************************************************************************)
(* STRING_POOL of expat (SyExpat/lib/xmlparse.c): strings that grow by one *)
(* character at a time at the end of a block of memory, and that must not  *)
(* move once they are finished, because tables keep pointers to them.      *)
(* The memory behind a pool may fail, may give back an address that was    *)
(* freed before, and may move a block that is enlarged.                    *)
(***************************************************************************)
EXTENDS Naturals, Sequences

CONSTANTS
  Block,          \* the addresses the memory may give
  None,           \* NULL
  Char,           \* the characters of strings, the closing 0 among them
  Junk,           \* what memory holds before it is written
  InitBlockSize   \* characters of the smallest block (1024)

ASSUME BlockAssumption == None \notin Block
ASSUME SizeAssumption  == InitBlockSize \in Nat \ {0}

VARIABLES
  pool,           \* the pool and its memory: see EmptyPool
  kept            \* history: the finished strings, [block, at, text]

vars == <<pool, kept>>

(***************************************************************************)
(* heap: the contents of the blocks allocated, an empty one for the others.*)
(* start and ptr are offsets in the block cur; pool->end is its end.  ok:  *)
(* no allocation has failed since the last poolClear.                      *)
(***************************************************************************)
EmptyPool ==
  [heap |-> [b \in Block |-> <<>>], blocks |-> <<>>, freeBlocks |-> <<>>,
   cur |-> None, start |-> 0, ptr |-> 0, ok |-> TRUE]

End(p) == IF p.cur = None THEN 0 ELSE Len(p.heap[p.cur])

Fresh(p)  == {b \in Block : p.heap[b] = <<>>}
Blank(n)  == [i \in 1 .. n |-> Junk]
Failed(p) == [p EXCEPT !.ok = FALSE]

\* The current string, which may have no character yet.
Current(p) == IF p.cur = None THEN <<>> ELSE SubSeq(p.heap[p.cur], p.start + 1, p.ptr)

\* from, written over the beginning of to.
Over(from, to) == from \o SubSeq(to, Len(from) + 1, Len(to))

\* The pool with the string being built at the start of block b.
Moved(p, b, contents, blocks, freeBlocks) ==
  [heap |-> contents, blocks |-> blocks, freeBlocks |-> freeBlocks,
   cur |-> b, start |-> 0, ptr |-> p.ptr - p.start, ok |-> p.ok]

\* What stands in the current block from the start of the string on.
Rest(p) == IF p.cur = None THEN <<>> ELSE SubSeq(p.heap[p.cur], p.start + 1, End(p))

\* A block that poolClear gave back serves again, the string is copied.
Reused(p) ==
  LET b == Head(p.freeBlocks)
  IN  Moved(p, b, [p.heap EXCEPT ![b] = Over(Rest(p), @)], <<b>> \o p.blocks, Tail(p.freeBlocks))

\* The string has its block to itself: the block is made twice as large,
\* in its place or in another.  When memory fails the whole list is forgotten.
Enlarged(p) ==
  LET larger == p.heap[p.cur] \o Blank(End(p))
  IN  {Moved(p, b, [p.heap EXCEPT ![p.cur] = <<>>, ![b] = larger],
             <<b>> \o Tail(p.blocks), p.freeBlocks) : b \in Fresh(p) \union {p.cur}}
        \union {[Failed(p) EXCEPT !.blocks = <<>>]}

\* Others stand before the string: a new block, and the string is copied.
Renewed(p) ==
  LET rest == End(p) - p.start
      size == IF rest < InitBlockSize THEN InitBlockSize ELSE 2 * rest
  IN  {Moved(p, b, [p.heap EXCEPT ![b] = Over(Current(p), Blank(size))],
             <<b>> \o p.blocks, p.freeBlocks) : b \in Fresh(p)}
        \union {Failed(p)}

\* A reused block must be larger than what is left of the current one.
MayReuse(p) ==
  /\ p.freeBlocks # <<>>
  /\ p.cur = None \/ End(p) - p.start < Len(p.heap[Head(p.freeBlocks)])

Alone(p) == p.blocks # <<>> /\ p.cur = Head(p.blocks) /\ p.start = 0

\* Mutant: the block is enlarged whether or not other strings stand in it.
GrownAnyway(p) ==
  IF MayReuse(p) THEN {Reused(p)}
  ELSE IF p.blocks # <<>> THEN Enlarged(p) ELSE Renewed(p)

\* poolGrow: the pools it may leave.
Grown(p) ==
  IF MayReuse(p) THEN {Reused(p)} ELSE IF Alone(p) THEN Enlarged(p) ELSE Renewed(p)

\* The current block holds text, and the string ends at n.
Rewritten(p, text, n) ==
  [heap |-> [p.heap EXCEPT ![p.cur] = text], blocks |-> p.blocks, freeBlocks |-> p.freeBlocks,
   cur |-> p.cur, start |-> p.start, ptr |-> n, ok |-> p.ok]

Written(p, c) == Rewritten(p, [p.heap[p.cur] EXCEPT ![p.ptr + 1] = c], p.ptr + 1)

\* poolAppendChar: the pools it may leave.
Appended(p, c) ==
  IF p.ptr # End(p) THEN {Written(p, c)}
  ELSE {IF q.ok THEN Written(q, c) ELSE q : q \in Grown(p)}

\* What the string gives up belongs to nobody: it is not read again.
GivenUp(p, n) ==
  LET held == p.heap[p.cur]
  IN  Rewritten(p, [i \in 1 .. Len(held) |-> IF n < i /\ i <= p.ptr THEN Junk ELSE held[i]], n)

Discarded(p) == GivenUp(p, p.start)
Chopped(p)   == GivenUp(p, p.ptr - 1)
Finished(p)  == [p EXCEPT !.start = p.ptr]

Backwards(s) == [i \in 1 .. Len(s) |-> s[Len(s) + 1 - i]]

\* poolClear: the blocks go to the free ones, the last one first if there are some.
Cleared(p) ==
  [heap |-> [b \in Block |-> Blank(Len(p.heap[b]))],
   blocks |-> <<>>,
   freeBlocks |-> IF p.freeBlocks = <<>> THEN p.blocks ELSE Backwards(p.blocks) \o p.freeBlocks,
   cur |-> None, start |-> 0, ptr |-> 0, ok |-> TRUE]

-----------------------------------------------------------------------------
Init == pool = EmptyPool /\ kept = {}

\* A parser that met a failure does nothing more until it is reset.
AppendChar(c) ==
  /\ pool.ok
  /\ pool' \in Appended(pool, c)
  /\ UNCHANGED kept

\* poolFinish, whose caller keeps the address of the string.
Finish ==
  /\ pool.ok /\ pool.start < pool.ptr
  /\ pool' = Finished(pool)
  /\ kept' = kept \union {[block |-> pool.cur, at |-> pool.start, text |-> Current(pool)]}

Discard ==
  /\ pool.ok /\ pool.start < pool.ptr
  /\ pool' = Discarded(pool)
  /\ UNCHANGED kept

Chop ==
  /\ pool.ok /\ pool.start < pool.ptr
  /\ pool' = Chopped(pool)
  /\ UNCHANGED kept

Clear ==
  /\ pool' = Cleared(pool)
  /\ kept' = {}

Next == (\E c \in Char : AppendChar(c)) \/ Finish \/ Discard \/ Chop \/ Clear

Spec == Init /\ [][Next]_vars

-----------------------------------------------------------------------------
Text == Seq(Char \union {Junk})

\* Types of the pool: the string lies within its block.
TypeOK ==
  /\ pool \in [heap : [Block -> Text], blocks : Seq(Block), freeBlocks : Seq(Block),
               cur : Block \union {None}, start : Nat, ptr : Nat, ok : BOOLEAN]
  /\ kept \in SUBSET [block : Block, at : Nat, text : Text]
  /\ pool.start <= pool.ptr /\ pool.ptr <= End(pool)

Distinct(s) == \A i, j \in 1 .. Len(s) : s[i] = s[j] => i = j

(***************************************************************************)
(* No block is in the two lists or twice in one: poolDestroy and the       *)
(* memory would free it twice (poolClear, poolGrow).                       *)
(***************************************************************************)
NoBlockTwice ==
  /\ Distinct(pool.blocks) /\ Distinct(pool.freeBlocks)
  /\ \A i \in 1 .. Len(pool.blocks), j \in 1 .. Len(pool.freeBlocks) :
        pool.blocks[i] # pool.freeBlocks[j]

(***************************************************************************)
(* A finished string stands where it was finished, character by character, *)
(* whatever grows, moves or is reused after it: the names of elements,     *)
(* entities and prefixes in the tables are such strings (poolGrow).        *)
(***************************************************************************)
KeptStay ==
  \A k \in kept : \A i \in 1 .. Len(k.text) :
    /\ k.at + i <= Len(pool.heap[k.block])
    /\ pool.heap[k.block][k.at + i] = k.text[i]

(***************************************************************************)
(* The blocks of the pool are each in one place, and the strings finished  *)
(* in them stay.                                                           *)
(***************************************************************************)
PoolSafe == TypeOK /\ NoBlockTwice /\ KeptStay
=============================================================================
