-------------------------- MODULE StringPoolProof --------------------------
(***************************************************************************)
(* StringPool for every set of addresses and characters and every size of  *)
(* the first block: the types, the two lists of blocks, and the strings    *)
(* finished, which stay where they are.  Then XmlNames, for all names,     *)
(* hashes and tags of any number of attributes: the tables whose entries   *)
(* point to those strings are sound, and what they hold are the sets of    *)
(* names that NameSet promises.                                            *)
(***************************************************************************)
EXTENDS XmlNames, SequenceTheorems, FiniteSetTheorems, WellFoundedInduction, TLAPS

Pools == [heap : [Block -> Text], blocks : Seq(Block), freeBlocks : Seq(Block),
          cur : Block \union {None}, start : Nat, ptr : Nat, ok : BOOLEAN]

Strings == [block : Block, at : Nat, text : Text]

(***************************************************************************)
(* The inductive invariant of a pool p whose finished strings are K.  A    *)
(* finished string is not empty, it does not lie in a free block, and in   *)
(* the current block it lies before the string being built: where a block  *)
(* is written, enlarged or reused, no finished string is touched.  The     *)
(* blocks of the lists and the current one are allocated, so that a fresh  *)
(* one is none of them.                                                    *)
(***************************************************************************)
Typed(p, K) ==
  /\ p \in Pools /\ K \in SUBSET Strings
  /\ p.start <= p.ptr /\ p.ptr <= End(p)

Stay(p, K) ==
  \A k \in K : \A i \in 1 .. Len(k.text) :
    /\ k.at + i <= Len(p.heap[k.block])
    /\ p.heap[k.block][k.at + i] = k.text[i]

Behind(p, K) ==
  \A k \in K : /\ k.text # <<>>
               /\ k.block = p.cur => k.at + Len(k.text) <= p.start

NotFree(p, K) ==
  \A k \in K : \A j \in 1 .. Len(p.freeBlocks) : p.freeBlocks[j] # k.block

Once(p) ==
  /\ Distinct(p.blocks) /\ Distinct(p.freeBlocks)
  /\ \A i \in 1 .. Len(p.blocks), j \in 1 .. Len(p.freeBlocks) :
        p.blocks[i] # p.freeBlocks[j]

Allocated(p) ==
  /\ \A i \in 1 .. Len(p.blocks) : p.heap[p.blocks[i]] # <<>>
  /\ \A j \in 1 .. Len(p.freeBlocks) : p.heap[p.freeBlocks[j]] # <<>>
  /\ p.cur # None => /\ p.heap[p.cur] # <<>>
                     /\ \A j \in 1 .. Len(p.freeBlocks) : p.freeBlocks[j] # p.cur

Good(p, K) ==
  /\ Typed(p, K) /\ Stay(p, K) /\ Behind(p, K) /\ NotFree(p, K) /\ Once(p) /\ Allocated(p)

(***************************************************************************)
(* The length of what is copied over the beginning of a block.             *)
(***************************************************************************)
LEMMA OverLength ==
  ASSUME NEW s \in Text, NEW t \in Text, Len(s) <= Len(t)
  PROVE  Over(s, t) \in Text /\ Len(Over(s, t)) = Len(t)
  <1>1. /\ Len(s) \in Nat /\ Len(t) \in Nat
        /\ SubSeq(t, Len(s) + 1, Len(t)) \in Text
        /\ Len(SubSeq(t, Len(s) + 1, Len(t))) = Len(t) - Len(s)
    BY SubSeqProperties DEF Text
  <1> QED  BY <1>1, ConcatProperties DEF Over, Text

(***************************************************************************)
(* New memory is a sequence of its size.                                   *)
(***************************************************************************)
LEMMA BlankLength ==
  ASSUME NEW n \in Nat
  PROVE  Blank(n) \in Text /\ Len(Blank(n)) = n
  BY DEF Blank, Text

(***************************************************************************)
(* The string moves to a block in which nothing is finished, and the       *)
(* blocks of the finished strings keep their contents.                     *)
(***************************************************************************)
LEMMA MovedGood ==
  ASSUME NEW p, NEW K, NEW q \in Pools, NEW b \in Block, Good(p, K),
         q.cur = b, q.start = 0, q.ptr = p.ptr - p.start, q.ptr < Len(q.heap[b]),
         \A k \in K : k.block # b /\ q.heap[k.block] = p.heap[k.block],
         NotFree(q, K), Once(q), Allocated(q)
  PROVE  Good(q, K) /\ q.ptr < End(q)
  <1>1. End(q) = Len(q.heap[b]) /\ End(q) \in Nat
    BY BlockAssumption DEF End, Pools, Text
  <1>2. Typed(q, K)
    BY <1>1 DEF Typed, Good, Pools
  <1>3. Stay(q, K)
    BY DEF Stay, Good
  <1>4. Behind(q, K)
    BY DEF Behind, Good
  <1> QED  BY <1>1, <1>2, <1>3, <1>4 DEF Good

(***************************************************************************)
(* A free block taken again: poolGrow's first two cases.                   *)
(***************************************************************************)
LEMMA ReusedGood ==
  ASSUME NEW p, NEW K, Good(p, K), MayReuse(p)
  PROVE  Good(Reused(p), K) /\ Reused(p).ptr < End(Reused(p))
  <1> DEFINE b == Head(p.freeBlocks)
             s == Rest(p)
             q == Reused(p)
  <1>1. /\ p \in Pools /\ K \in SUBSET Strings /\ p.freeBlocks # <<>> /\ b \in Block
        /\ p.freeBlocks \in Seq(Block) /\ b = p.freeBlocks[1] /\ Len(p.freeBlocks) \in Nat \ {0}
        /\ b # None /\ p.heap[b] \in Text /\ p.heap[b] # <<>>
    <2>1. /\ p \in Pools /\ K \in SUBSET Strings /\ p.freeBlocks # <<>>
      BY DEF Good, Typed, MayReuse
    <2>2. p.freeBlocks \in Seq(Block)
      BY <2>1 DEF Pools
    <2>3. b \in Block /\ b = p.freeBlocks[1] /\ Len(p.freeBlocks) \in Nat \ {0}
      BY <2>1, <2>2, HeadTailProperties, EmptySeq, LenProperties
    <2>4. p.heap[b] \in Text
      BY <2>1, <2>3 DEF Pools
    <2>5. p.heap[b] # <<>>
      BY <2>3 DEF Good, Allocated
    <2> QED  BY <2>1, <2>2, <2>3, <2>4, <2>5, BlockAssumption
  <1>2. /\ s \in Text /\ Len(s) <= Len(p.heap[b]) /\ p.ptr - p.start < Len(p.heap[b])
        /\ p.ptr - p.start \in Nat
    <2>1. CASE p.cur = None
      <3>1. s = <<>> /\ End(p) = 0
        BY <2>1 DEF Rest, End
      <3>2. p.ptr = 0 /\ p.start = 0
        BY <3>1 DEF Good, Typed, Pools
      <3>3. Len(p.heap[b]) \in Nat \ {0}
        BY <1>1, EmptySeq, LenProperties DEF Text
      <3> QED  BY <3>1, <3>2, <3>3 DEF Text
    <2>2. CASE p.cur # None
      <3>1. p.heap[p.cur] \in Text /\ End(p) = Len(p.heap[p.cur]) /\ End(p) \in Nat
        BY <2>2, <1>1 DEF Pools, End, Text
      <3>2. p.start \in Nat /\ p.ptr \in Nat /\ p.start <= p.ptr /\ p.ptr <= End(p)
        BY DEF Good, Typed, Pools
      <3>3. s \in Text /\ Len(s) = End(p) - p.start
        BY <2>2, <3>1, <3>2, SubSeqProperties DEF Text, Rest
      <3>4. End(p) - p.start < Len(p.heap[b]) /\ Len(p.heap[b]) \in Nat
        BY <2>2, <1>1, LenProperties DEF MayReuse, Text
      <3>5. Len(s) <= Len(p.heap[b])
        BY <3>1, <3>2, <3>3, <3>4
      <3>6. p.ptr - p.start < Len(p.heap[b]) /\ p.ptr - p.start \in Nat
        <4> DEFINE l == Len(p.heap[b])
                   e == End(p)
        <4>1. l \in Nat /\ e \in Nat /\ e - p.start < l
          BY <3>1, <3>4
        <4> HIDE DEF l, e
        <4>2. p.ptr - p.start < l /\ p.ptr - p.start \in Nat
          BY <3>2, <4>1 DEF e
        <4> QED  BY <4>2 DEF l
      <3> QED  BY <3>3, <3>5, <3>6
    <2> QED  BY <2>1, <2>2
  <1>3. Over(s, p.heap[b]) \in Text /\ Len(Over(s, p.heap[b])) = Len(p.heap[b])
    BY <1>1, <1>2, OverLength
  <1>4. q = [heap |-> [p.heap EXCEPT ![b] = Over(s, p.heap[b])], blocks |-> <<b>> \o p.blocks,
             freeBlocks |-> Tail(p.freeBlocks), cur |-> b, start |-> 0,
             ptr |-> p.ptr - p.start, ok |-> p.ok]
    BY <1>1 DEF Reused, Moved
  <1> HIDE DEF s, q, b
  <1>5. /\ Tail(p.freeBlocks) \in Seq(Block) /\ Len(Tail(p.freeBlocks)) = Len(p.freeBlocks) - 1
        /\ \A j \in 1 .. Len(Tail(p.freeBlocks)) : Tail(p.freeBlocks)[j] = p.freeBlocks[j + 1]
    BY <1>1, HeadTailProperties
  <1>6. /\ <<b>> \o p.blocks \in Seq(Block) /\ Len(<<b>> \o p.blocks) = Len(p.blocks) + 1
        /\ (<<b>> \o p.blocks)[1] = b
        /\ \A i \in 2 .. Len(p.blocks) + 1 : (<<b>> \o p.blocks)[i] = p.blocks[i - 1]
    BY <1>1, ConcatProperties DEF Pools
  <1>7. q \in Pools
    BY <1>1, <1>2, <1>3, <1>4, <1>5, <1>6 DEF Pools
  <1>8. q.heap[b] # <<>> /\ q.ptr < Len(q.heap[b])
    BY <1>1, <1>2, <1>3, <1>4, SMTT(30) DEF Pools, Text
  <1>9. \A k \in K : k.block # b /\ q.heap[k.block] = p.heap[k.block]
    <2> SUFFICES ASSUME NEW k \in K PROVE k.block # b /\ q.heap[k.block] = p.heap[k.block]
      OBVIOUS
    <2>1. k.block # b
      BY <1>1 DEF Good, NotFree
    <2>2. q.heap = [p.heap EXCEPT ![b] = Over(s, p.heap[b])] /\ DOMAIN p.heap = Block
      BY <1>1, <1>4 DEF Pools
    <2>3. k.block \in Block
      BY <1>1 DEF Strings
    <2> QED  BY <2>1, <2>2, <2>3
  <1>10. NotFree(q, K)
    BY <1>1, <1>4, <1>5 DEF Good, NotFree
  <1>11. Once(q)
    <2>1. /\ q.blocks = <<b>> \o p.blocks /\ q.freeBlocks = Tail(p.freeBlocks)
          /\ Len(p.blocks) \in Nat /\ Len(p.freeBlocks) \in Nat
      BY <1>1, <1>4, LenProperties DEF Pools
    <2>2. \A i \in 1 .. Len(p.blocks) : p.blocks[i] # b
      BY <1>1, <2>1 DEF Good, Once
    <2>3. Distinct(q.blocks)
      BY <1>6, <2>1, <2>2 DEF Good, Once, Distinct
    <2>4. Distinct(q.freeBlocks)
      <3> SUFFICES ASSUME NEW i \in 1 .. Len(q.freeBlocks), NEW j \in 1 .. Len(q.freeBlocks),
                          q.freeBlocks[i] = q.freeBlocks[j]
                   PROVE  i = j
        BY DEF Distinct
      <3>1. /\ i + 1 \in 1 .. Len(p.freeBlocks) /\ j + 1 \in 1 .. Len(p.freeBlocks)
            /\ p.freeBlocks[i + 1] = p.freeBlocks[j + 1]
        BY <1>5, <2>1
      <3>2. i + 1 = j + 1
        BY <3>1 DEF Good, Once, Distinct
      <3> QED  BY <3>2
    <2>5. \A j \in 1 .. Len(q.freeBlocks) : q.freeBlocks[j] # b
      BY <1>1, <1>5, <2>1 DEF Good, Once, Distinct
    <2>6. \A i \in 1 .. Len(q.blocks), j \in 1 .. Len(q.freeBlocks) :
            q.blocks[i] # q.freeBlocks[j]
      <3> SUFFICES ASSUME NEW i \in 1 .. Len(q.blocks), NEW j \in 1 .. Len(q.freeBlocks)
                   PROVE  q.blocks[i] # q.freeBlocks[j]
        OBVIOUS
      <3>1. CASE i = 1
        BY <3>1, <1>6, <2>1, <2>5
      <3>2. CASE i # 1
        <4>1. i - 1 \in 1 .. Len(p.blocks) /\ q.blocks[i] = p.blocks[i - 1]
          BY <3>2, <1>6, <2>1
        <4>2. j + 1 \in 1 .. Len(p.freeBlocks) /\ q.freeBlocks[j] = p.freeBlocks[j + 1]
          BY <1>5, <2>1
        <4> QED  BY <4>1, <4>2 DEF Good, Once
      <3> QED  BY <3>1, <3>2
    <2> QED  BY <2>3, <2>4, <2>6 DEF Once
  <1>12. Allocated(q)
    <2>1. /\ q.blocks = <<b>> \o p.blocks /\ q.freeBlocks = Tail(p.freeBlocks) /\ q.cur = b
          /\ Len(p.blocks) \in Nat /\ Len(p.freeBlocks) \in Nat
      BY <1>1, <1>4, LenProperties DEF Pools
    <2>2. \A c \in Block : p.heap[c] # <<>> => q.heap[c] # <<>>
      BY <1>1, <1>4, <1>8 DEF Pools
    <2>3. \A i \in 1 .. Len(q.blocks) : q.heap[q.blocks[i]] # <<>>
      <3> SUFFICES ASSUME NEW i \in 1 .. Len(q.blocks) PROVE q.heap[q.blocks[i]] # <<>>
        OBVIOUS
      <3>1. CASE i = 1
        BY <3>1, <1>6, <1>8, <2>1
      <3>2. CASE i # 1
        <4>1. i - 1 \in 1 .. Len(p.blocks) /\ q.blocks[i] = p.blocks[i - 1]
          BY <3>2, <1>6, <2>1
        <4>2. p.blocks[i - 1] \in Block
          BY <4>1, <1>1, ElementOfSeq DEF Pools
        <4> QED  BY <4>1, <4>2, <2>2 DEF Good, Allocated
      <3> QED  BY <3>1, <3>2
    <2>4. \A j \in 1 .. Len(q.freeBlocks) : q.heap[q.freeBlocks[j]] # <<>> /\ q.freeBlocks[j] # b
      <3> SUFFICES ASSUME NEW j \in 1 .. Len(q.freeBlocks)
                   PROVE q.heap[q.freeBlocks[j]] # <<>> /\ q.freeBlocks[j] # b
        OBVIOUS
      <3>1. j + 1 \in 1 .. Len(p.freeBlocks) /\ q.freeBlocks[j] = p.freeBlocks[j + 1] /\ j + 1 # 1
        BY <1>5, <2>1
      <3>2. p.freeBlocks[j + 1] \in Block
        BY <3>1, <1>1, ElementOfSeq
      <3>3. p.freeBlocks[j + 1] # b
        BY <3>1, <1>1 DEF Good, Once, Distinct
      <3> QED  BY <3>1, <3>2, <3>3, <2>2 DEF Good, Allocated
    <2> QED  BY <1>8, <2>1, <2>3, <2>4 DEF Allocated
  <1> QED
    <2>1. q.cur = b /\ q.start = 0 /\ q.ptr = p.ptr - p.start
      BY <1>4
    <2>2. Good(q, K) /\ q.ptr < End(q)
      BY <1>1, <1>7, <1>8, <1>9, <1>10, <1>11, <1>12, <2>1, MovedGood
    <2> QED  BY <2>2 DEF q

(***************************************************************************)
(* A block put before the others of a list in which it is not.             *)
(***************************************************************************)
LEMMA Pushed ==
  ASSUME NEW s \in Seq(Block), NEW b \in Block, Distinct(s),
         \A i \in 1 .. Len(s) : s[i] # b
  PROVE  /\ <<b>> \o s \in Seq(Block) /\ Distinct(<<b>> \o s)
         /\ \A i \in 1 .. Len(<<b>> \o s) :
               \/ (<<b>> \o s)[i] = b
               \/ \E j \in 1 .. Len(s) : (<<b>> \o s)[i] = s[j]
  <1> DEFINE t == <<b>> \o s
  <1>1. /\ t \in Seq(Block) /\ Len(t) = Len(s) + 1 /\ t[1] = b /\ Len(s) \in Nat
        /\ \A i \in 2 .. Len(s) + 1 : t[i] = s[i - 1]
    BY ConcatProperties, LenProperties
  <1> HIDE DEF t
  <1>2. \A i \in 2 .. Len(t) : i - 1 \in 1 .. Len(s) /\ t[i] = s[i - 1]
    BY <1>1
  <1>3. Distinct(t)
    <2> SUFFICES ASSUME NEW i \in 1 .. Len(t), NEW j \in 1 .. Len(t), t[i] = t[j]
                 PROVE  i = j
      BY DEF Distinct
    <2>1. CASE i = 1 \/ j = 1
      BY <1>1, <1>2, <2>1, SMTT(30)
    <2>2. CASE i # 1 /\ j # 1
      <3>1. i - 1 \in 1 .. Len(s) /\ j - 1 \in 1 .. Len(s) /\ s[i - 1] = s[j - 1]
        BY <1>1, <1>2, <2>2
      <3>2. i - 1 = j - 1
        BY <3>1 DEF Distinct
      <3> QED  BY <3>2, <1>1
    <2> QED  BY <2>1, <2>2
  <1>4. \A i \in 1 .. Len(t) : t[i] = b \/ \E j \in 1 .. Len(s) : t[i] = s[j]
    BY <1>1, <1>2
  <1> QED  BY <1>1, <1>3, <1>4 DEF t

(***************************************************************************)
(* What is left of a list of blocks without its first one.                 *)
(***************************************************************************)
LEMMA Popped ==
  ASSUME NEW s \in Seq(Block), s # <<>>, Distinct(s)
  PROVE  /\ Tail(s) \in Seq(Block) /\ Distinct(Tail(s))
         /\ \A i \in 1 .. Len(Tail(s)) :
               Tail(s)[i] # Head(s) /\ \E j \in 1 .. Len(s) : Tail(s)[i] = s[j]
  <1> DEFINE t == Tail(s)
  <1>1. /\ t \in Seq(Block) /\ Len(t) = Len(s) - 1 /\ Len(s) \in Nat \ {0} /\ Head(s) = s[1]
        /\ \A i \in 1 .. Len(t) : t[i] = s[i + 1]
    BY HeadTailProperties, LenProperties, EmptySeq
  <1> HIDE DEF t
  <1>2. \A i \in 1 .. Len(t) : i + 1 \in 1 .. Len(s) /\ i + 1 # 1 /\ t[i] = s[i + 1]
    BY <1>1
  <1>3. Distinct(t)
    <2> SUFFICES ASSUME NEW i \in 1 .. Len(t), NEW j \in 1 .. Len(t), t[i] = t[j]
                 PROVE  i = j
      BY DEF Distinct
    <2>1. i + 1 \in 1 .. Len(s) /\ j + 1 \in 1 .. Len(s) /\ s[i + 1] = s[j + 1]
      BY <1>2
    <2>2. i + 1 = j + 1
      BY <2>1 DEF Distinct
    <2> QED  BY <2>2
  <1>4. \A i \in 1 .. Len(t) : t[i] # s[1]
    <2> SUFFICES ASSUME NEW i \in 1 .. Len(t) PROVE t[i] # s[1]
      OBVIOUS
    <2>1. i + 1 \in 1 .. Len(s) /\ 1 \in 1 .. Len(s) /\ i + 1 # 1 /\ t[i] = s[i + 1]
      BY <1>1, <1>2
    <2> QED  BY <2>1 DEF Distinct
  <1> QED  BY <1>1, <1>2, <1>3, <1>4 DEF t

(***************************************************************************)
(* The string has the block cur to itself, and it is enlarged there or in  *)
(* a fresh one: poolGrow with realloc.                                     *)
(***************************************************************************)
LEMMA EnlargedGood ==
  ASSUME NEW p, NEW K, Good(p, K), Alone(p), NEW q \in Enlarged(p)
  PROVE  Good(q, K) /\ (q.ok => q.ptr < End(q) \/ ~p.ok)
  <1>1. /\ p \in Pools /\ K \in SUBSET Strings /\ p.blocks \in Seq(Block) /\ p.blocks # <<>>
        /\ p.cur = Head(p.blocks) /\ p.start = 0
    BY DEF Good, Typed, Alone, Pools
  <1>2. p.cur \in Block /\ p.cur = p.blocks[1] /\ Len(p.blocks) \in Nat \ {0}
    BY <1>1, HeadTailProperties, EmptySeq, LenProperties
  <1>3. /\ p.heap[p.cur] \in Text /\ p.heap[p.cur] # <<>> /\ End(p) = Len(p.heap[p.cur])
        /\ \A j \in 1 .. Len(p.freeBlocks) : p.freeBlocks[j] # p.cur
    BY <1>1, <1>2, BlockAssumption DEF Good, Allocated, End, Pools
  <1>4. End(p) \in Nat \ {0}
    BY <1>3, LenProperties, EmptySeq DEF Text
  <1> DEFINE larger == p.heap[p.cur] \o Blank(End(p))
  <1>5. larger \in Text /\ Len(larger) = End(p) + End(p) /\ larger # <<>>
    <2> DEFINE n == End(p)
    <2>1. Blank(n) \in Text /\ Len(Blank(n)) = n
      BY <1>4, BlankLength
    <2> DEFINE x == p.heap[p.cur]
               y == Blank(n)
    <2>3. x \in Text /\ y \in Text /\ Len(x) = n /\ Len(y) = n
      BY <1>3, <2>1
    <2> HIDE DEF x, y
    <2>4. x \o y \in Text /\ Len(x \o y) = n + n
      BY <2>3, ConcatProperties, SMTT(60) DEF Text
    <2>2. larger \in Text /\ Len(larger) = n + n
      BY <2>4 DEF x, y
    <2> HIDE DEF n
    <2> QED  BY <2>2, <1>4, EmptySeq DEF n
  <1> HIDE DEF larger
  <1>6. CASE q = [Failed(p) EXCEPT !.blocks = <<>>]
    <2>1. /\ q = [heap |-> p.heap, blocks |-> <<>>, freeBlocks |-> p.freeBlocks, cur |-> p.cur,
                   start |-> p.start, ptr |-> p.ptr, ok |-> FALSE]
      BY <1>1, <1>6 DEF Failed, Pools
    <2>2. q \in Pools /\ End(q) = End(p)
      BY <1>1, <2>1 DEF Pools, End
    <2>3. Typed(q, K) /\ Stay(q, K) /\ Behind(q, K) /\ NotFree(q, K)
      BY <2>1, <2>2 DEF Good, Typed, Stay, Behind, NotFree
    <2>4. Once(q) /\ Allocated(q)
      BY <2>1 DEF Good, Once, Distinct, Allocated
    <2> QED  BY <2>1, <2>3, <2>4 DEF Good
  <1>7. ASSUME NEW b \in Fresh(p) \union {p.cur},
               q = Moved(p, b, [p.heap EXCEPT ![p.cur] = <<>>, ![b] = larger],
                         <<b>> \o Tail(p.blocks), p.freeBlocks)
        PROVE  Good(q, K) /\ q.ptr < End(q)
    <2>1. q = [heap |-> [p.heap EXCEPT ![p.cur] = <<>>, ![b] = larger],
               blocks |-> <<b>> \o Tail(p.blocks), freeBlocks |-> p.freeBlocks,
               cur |-> b, start |-> 0, ptr |-> p.ptr - p.start, ok |-> p.ok]
      BY <1>7 DEF Moved
    <2>2. /\ b \in Block /\ p.heap \in [Block -> Text]
          /\ b # p.cur => p.heap[b] = <<>>
      BY <1>1, <1>2, <1>7 DEF Fresh, Pools
    <2>3. /\ q.heap[b] = larger
          /\ \A c \in Block : c # b /\ c # p.cur => q.heap[c] = p.heap[c]
      BY <2>1, <2>2
    <2>4. /\ Tail(p.blocks) \in Seq(Block) /\ Distinct(Tail(p.blocks))
          /\ \A i \in 1 .. Len(Tail(p.blocks)) :
               /\ Tail(p.blocks)[i] # p.cur
               /\ \E j \in 1 .. Len(p.blocks) : Tail(p.blocks)[i] = p.blocks[j]
      <3>1. Distinct(p.blocks)
        BY DEF Good, Once
      <3> QED  BY <1>1, <3>1, Popped
    <2>5. \A i \in 1 .. Len(Tail(p.blocks)) : Tail(p.blocks)[i] # b
      BY <2>2, <2>4 DEF Good, Allocated
    <2>6. \A j \in 1 .. Len(p.freeBlocks) : p.freeBlocks[j] # b
      BY <1>3, <2>2 DEF Good, Allocated
    <2>7. /\ q.blocks \in Seq(Block) /\ Distinct(q.blocks)
          /\ \A i \in 1 .. Len(q.blocks) :
               \/ q.blocks[i] = b
               \/ \E j \in 1 .. Len(Tail(p.blocks)) : q.blocks[i] = Tail(p.blocks)[j]
      BY <2>1, <2>2, <2>4, <2>5, Pushed
    <2>8. q \in Pools
      <3>1. q.heap \in [Block -> Text] /\ <<>> \in Text
        BY <1>1, <1>5, <2>1, <2>2, EmptySeq DEF Text
      <3>2. p.ptr - p.start \in Nat /\ p.ok \in BOOLEAN /\ p.freeBlocks \in Seq(Block)
        BY <1>1 DEF Good, Typed, Pools
      <3> QED  BY <2>1, <2>2, <2>7, <3>1, <3>2 DEF Pools
    <2>9. q.ptr < Len(q.heap[b])
      <3>1. p.ptr \in Nat /\ p.ptr <= End(p) /\ q.ptr = p.ptr - 0
        BY <1>1, <2>1 DEF Good, Typed, Pools
      <3> QED  BY <1>4, <1>5, <2>3, <3>1
    <2>10. \A k \in K : k.block # b /\ q.heap[k.block] = p.heap[k.block]
      <3> SUFFICES ASSUME NEW k \in K PROVE k.block # b /\ q.heap[k.block] = p.heap[k.block]
        OBVIOUS
      <3>1. k.block \in Block /\ k.at \in Nat /\ Len(k.text) \in Nat \ {0}
        BY <1>1, LenProperties, EmptySeq DEF Good, Behind, Strings, Text
      <3>2. k.block # p.cur
        BY <1>1, <3>1 DEF Good, Behind
      <3>3. k.at + 1 <= Len(p.heap[k.block])
        BY <3>1 DEF Good, Stay
      <3>4. p.heap[k.block] # <<>>
        BY <3>1, <3>3, EmptySeq
      <3> QED  BY <2>2, <2>3, <3>1, <3>2, <3>4
    <2>11. NotFree(q, K)
      BY <2>1 DEF Good, NotFree
    <2>12. Once(q)
      <3>1. Distinct(q.freeBlocks) /\ q.freeBlocks = p.freeBlocks
        BY <2>1 DEF Good, Once
      <3>2. \A i \in 1 .. Len(q.blocks) :
              q.blocks[i] = b \/ \E j \in 1 .. Len(p.blocks) : q.blocks[i] = p.blocks[j]
        BY <2>4, <2>7
      <3> QED  BY <2>6, <2>7, <3>1, <3>2 DEF Good, Once
    <2>13. Allocated(q)
      <3>1. \A i \in 1 .. Len(q.blocks) : q.heap[q.blocks[i]] # <<>>
        <4> SUFFICES ASSUME NEW i \in 1 .. Len(q.blocks), q.blocks[i] # b
                     PROVE  q.heap[q.blocks[i]] # <<>>
          BY <1>5, <2>3
        <4>1. PICK j \in 1 .. Len(Tail(p.blocks)) : q.blocks[i] = Tail(p.blocks)[j]
          BY <2>7
        <4>2. q.blocks[i] # p.cur /\ q.blocks[i] \in Block
          BY <2>4, <2>7, <4>1, ElementOfSeq
        <4>3. p.heap[q.blocks[i]] # <<>>
          BY <2>4, <4>1 DEF Good, Allocated
        <4> QED  BY <2>3, <4>2, <4>3
      <3>2. \A j \in 1 .. Len(q.freeBlocks) : q.heap[q.freeBlocks[j]] # <<>> /\ q.freeBlocks[j] # b
        <4> SUFFICES ASSUME NEW j \in 1 .. Len(p.freeBlocks)
                     PROVE  q.heap[p.freeBlocks[j]] # <<>> /\ p.freeBlocks[j] # b
          BY <2>1
        <4>1. p.freeBlocks[j] \in Block
          BY <1>1, ElementOfSeq DEF Pools
        <4> QED  BY <1>3, <2>3, <2>6, <4>1 DEF Good, Allocated
      <3> QED  BY <1>5, <2>1, <2>3, <3>1, <3>2 DEF Allocated
    <2> QED
      <3>1. q.cur = b /\ q.start = 0 /\ q.ptr = p.ptr - p.start
        BY <2>1
      <3> QED  BY <2>2, <2>8, <2>9, <2>10, <2>11, <2>12, <2>13, <3>1, MovedGood
  <1> QED  BY <1>6, <1>7 DEF Enlarged, larger

(***************************************************************************)
(* The string goes to a new block, those before it stay in theirs:         *)
(* poolGrow with malloc.                                                   *)
(***************************************************************************)
LEMMA RenewedGood ==
  ASSUME NEW p, NEW K, Good(p, K), p.ptr = End(p), NEW q \in Renewed(p)
  PROVE  Good(q, K) /\ (q.ok => q.ptr < End(q) \/ ~p.ok)
  <1> DEFINE e    == End(p)
             rest == e - p.start
             size == IF rest < InitBlockSize THEN InitBlockSize ELSE 2 * rest
             s    == Current(p)
             new  == Over(s, Blank(size))
  <1>1. /\ p \in Pools /\ K \in SUBSET Strings /\ p.blocks \in Seq(Block)
        /\ p.start \in Nat /\ p.ptr \in Nat /\ p.start <= p.ptr /\ p.ptr = e
        /\ p.heap \in [Block -> Text]
    BY DEF Good, Typed, Pools
  <1>2. e \in Nat /\ s \in Text /\ Len(s) = p.ptr - p.start
    <2>1. CASE p.cur = None
      <3>1. s = <<>> /\ e = 0
        BY <2>1 DEF Current, End
      <3> QED  BY <1>1, <3>1, EmptySeq DEF Text
    <2>2. CASE p.cur # None
      <3>1. p.heap[p.cur] \in Text /\ e = Len(p.heap[p.cur]) /\ e \in Nat
        BY <2>2, <1>1 DEF Pools, End, Text
      <3> QED  BY <2>2, <3>1, <1>1, SubSeqProperties DEF Text, Current
    <2> QED  BY <2>1, <2>2
  <1> HIDE DEF e, s
  <1>3. rest \in Nat /\ rest = p.ptr - p.start /\ size \in Nat /\ rest < size
    BY <1>1, <1>2, SizeAssumption
  <1> HIDE DEF size, rest
  <1>4. new \in Text /\ Len(new) = size /\ new # <<>>
    <2>1. Blank(size) \in Text /\ Len(Blank(size)) = size
      BY <1>3, BlankLength
    <2>2. Len(s) <= Len(Blank(size))
      BY <1>2, <1>3, <2>1
    <2>3. new \in Text /\ Len(new) = size
      BY <1>2, <2>1, <2>2, OverLength
    <2> QED  BY <2>3, <1>3, EmptySeq
  <1> HIDE DEF new
  <1>5. CASE q = Failed(p)
    <2>1. q = [heap |-> p.heap, blocks |-> p.blocks, freeBlocks |-> p.freeBlocks, cur |-> p.cur,
               start |-> p.start, ptr |-> p.ptr, ok |-> FALSE]
      BY <1>1, <1>5 DEF Failed, Pools
    <2>2. q \in Pools /\ End(q) = End(p)
      BY <1>1, <2>1 DEF Pools, End
    <2>3. Typed(q, K) /\ Stay(q, K) /\ Behind(q, K) /\ NotFree(q, K)
      BY <2>1, <2>2 DEF Good, Typed, Stay, Behind, NotFree
    <2>4. Once(q) /\ Allocated(q)
      BY <2>1 DEF Good, Once, Allocated
    <2> QED  BY <2>1, <2>3, <2>4 DEF Good
  <1>6. ASSUME NEW b \in Fresh(p),
               q = Moved(p, b, [p.heap EXCEPT ![b] = new], <<b>> \o p.blocks, p.freeBlocks)
        PROVE  Good(q, K) /\ q.ptr < End(q)
    <2>1. q = [heap |-> [p.heap EXCEPT ![b] = new], blocks |-> <<b>> \o p.blocks,
               freeBlocks |-> p.freeBlocks, cur |-> b, start |-> 0,
               ptr |-> p.ptr - p.start, ok |-> p.ok]
      BY <1>6 DEF Moved
    <2>2. b \in Block /\ p.heap[b] = <<>>
      BY <1>6 DEF Fresh
    <2>3. q.heap[b] = new /\ \A c \in Block : c # b => q.heap[c] = p.heap[c]
      BY <1>1, <2>1, <2>2
    <2>4. Distinct(p.blocks) /\ \A i \in 1 .. Len(p.blocks) : p.blocks[i] # b
      BY <2>2 DEF Good, Once, Allocated
    <2>5. /\ q.blocks \in Seq(Block) /\ Distinct(q.blocks)
          /\ \A i \in 1 .. Len(q.blocks) :
               q.blocks[i] = b \/ \E j \in 1 .. Len(p.blocks) : q.blocks[i] = p.blocks[j]
      BY <1>1, <2>1, <2>2, <2>4, Pushed
    <2>6. \A j \in 1 .. Len(p.freeBlocks) : p.freeBlocks[j] # b
      BY <2>2 DEF Good, Allocated
    <2>7. q \in Pools
      <3>1. q.heap \in [Block -> Text]
        BY <1>1, <1>4, <2>1, <2>2
      <3>2. p.ptr - p.start \in Nat /\ p.ok \in BOOLEAN /\ p.freeBlocks \in Seq(Block)
        BY <1>1 DEF Pools
      <3> QED  BY <2>1, <2>2, <2>5, <3>1, <3>2 DEF Pools
    <2>8. q.ptr < Len(q.heap[b])
      BY <1>3, <1>4, <2>1, <2>3
    <2>9. \A k \in K : k.block # b /\ q.heap[k.block] = p.heap[k.block]
      <3> SUFFICES ASSUME NEW k \in K PROVE k.block # b /\ q.heap[k.block] = p.heap[k.block]
        OBVIOUS
      <3>1. k.block \in Block /\ k.at \in Nat /\ Len(k.text) \in Nat \ {0}
        BY <1>1, LenProperties, EmptySeq DEF Good, Behind, Strings, Text
      <3>2. k.at + 1 <= Len(p.heap[k.block])
        BY <3>1 DEF Good, Stay
      <3>3. p.heap[k.block] # <<>>
        BY <3>1, <3>2, EmptySeq
      <3> QED  BY <2>2, <2>3, <3>1, <3>3
    <2>10. NotFree(q, K)
      BY <2>1 DEF Good, NotFree
    <2>11. Once(q)
      <3>1. Distinct(q.freeBlocks) /\ q.freeBlocks = p.freeBlocks
        BY <2>1 DEF Good, Once
      <3> QED  BY <2>5, <2>6, <3>1 DEF Good, Once
    <2>12. Allocated(q)
      <3>1. \A i \in 1 .. Len(q.blocks) : q.heap[q.blocks[i]] # <<>>
        <4> SUFFICES ASSUME NEW i \in 1 .. Len(q.blocks), q.blocks[i] # b
                     PROVE  q.heap[q.blocks[i]] # <<>>
          BY <1>4, <2>3
        <4>1. q.blocks[i] \in Block /\ p.heap[q.blocks[i]] # <<>>
          BY <2>5, ElementOfSeq DEF Good, Allocated
        <4> QED  BY <2>3, <4>1
      <3>2. \A j \in 1 .. Len(q.freeBlocks) : q.heap[q.freeBlocks[j]] # <<>> /\ q.freeBlocks[j] # b
        <4> SUFFICES ASSUME NEW j \in 1 .. Len(p.freeBlocks)
                     PROVE  q.heap[p.freeBlocks[j]] # <<>> /\ p.freeBlocks[j] # b
          BY <2>1
        <4>1. p.freeBlocks[j] \in Block
          BY <1>1, ElementOfSeq DEF Pools
        <4> QED  BY <2>3, <2>6, <4>1 DEF Good, Allocated
      <3> QED  BY <1>4, <2>1, <2>3, <3>1, <3>2 DEF Allocated
    <2> QED
      <3>1. q.cur = b /\ q.start = 0 /\ q.ptr = p.ptr - p.start
        BY <2>1
      <3> QED  BY <2>2, <2>7, <2>8, <2>9, <2>10, <2>11, <2>12, <3>1, MovedGood
  <1> QED  BY <1>5, <1>6 DEF Renewed, new, size, rest, s, e

(***************************************************************************)
(* poolGrow leaves a good pool, with room for a character if it succeeds.  *)
(***************************************************************************)
LEMMA GrownGood ==
  ASSUME NEW p, NEW K, Good(p, K), p.ok, p.ptr = End(p), NEW q \in Grown(p)
  PROVE  Good(q, K) /\ (q.ok => q.ptr < End(q))
  BY ReusedGood, EnlargedGood, RenewedGood DEF Grown

(***************************************************************************)
(* Characters written or given up behind what is finished: the block keeps *)
(* its length and what stands before the string.                           *)
(***************************************************************************)
LEMMA RewrittenGood ==
  ASSUME NEW p, NEW K, Good(p, K), p.cur \in Block, NEW t \in Text, NEW n \in Nat,
         Len(t) = Len(p.heap[p.cur]), \A i \in 1 .. p.start : t[i] = p.heap[p.cur][i],
         p.start <= n, n <= Len(t)
  PROVE  Good(Rewritten(p, t, n), K)
  <1> DEFINE q == Rewritten(p, t, n)
  <1>1. /\ p \in Pools /\ K \in SUBSET Strings /\ p.heap \in [Block -> Text] /\ p.start \in Nat
    BY DEF Good, Typed, Pools
  <1>2. q = [heap |-> [p.heap EXCEPT ![p.cur] = t], blocks |-> p.blocks,
             freeBlocks |-> p.freeBlocks, cur |-> p.cur, start |-> p.start, ptr |-> n,
             ok |-> p.ok]
    BY DEF Rewritten
  <1> HIDE DEF q
  <1>3. /\ q.heap[p.cur] = t /\ \A c \in Block : c # p.cur => q.heap[c] = p.heap[c]
    BY <1>1, <1>2
  <1>4. \A c \in Block : Len(q.heap[c]) = Len(p.heap[c]) /\ (p.heap[c] # <<>> => q.heap[c] # <<>>)
    BY <1>1, <1>3, EmptySeq DEF Text
  <1>5. q \in Pools
    BY <1>1, <1>2 DEF Pools
  <1>6. Typed(q, K)
    BY <1>1, <1>2, <1>3, <1>5, BlockAssumption DEF Typed, End
  <1>7. Stay(q, K)
    <2> SUFFICES ASSUME NEW k \in K, NEW i \in 1 .. Len(k.text)
                 PROVE  /\ k.at + i <= Len(q.heap[k.block])
                        /\ q.heap[k.block][k.at + i] = k.text[i]
      BY DEF Stay
    <2>1. /\ k.block \in Block /\ k.at \in Nat /\ Len(k.text) \in Nat
          /\ k.at + i <= Len(p.heap[k.block]) /\ p.heap[k.block][k.at + i] = k.text[i]
      BY <1>1, LenProperties DEF Good, Stay, Strings, Text
    <2>2. CASE k.block = p.cur
      <3>1. k.at + i \in 1 .. p.start
        BY <2>1, <2>2, <1>1 DEF Good, Behind
      <3> QED  BY <2>1, <2>2, <3>1, <1>3
    <2>3. CASE k.block # p.cur
      BY <2>1, <2>3, <1>3
    <2> QED  BY <2>2, <2>3
  <1>8. Behind(q, K) /\ NotFree(q, K) /\ Once(q)
    BY <1>2 DEF Good, Behind, NotFree, Once
  <1>9. Allocated(q)
    <2>1. p.blocks \in Seq(Block) /\ p.freeBlocks \in Seq(Block)
      BY <1>1 DEF Pools
    <2>2. \A i \in 1 .. Len(p.blocks) : p.blocks[i] \in Block /\ p.heap[p.blocks[i]] # <<>>
      BY <2>1, ElementOfSeq DEF Good, Allocated
    <2>3. \A i \in 1 .. Len(p.freeBlocks) :
            p.freeBlocks[i] \in Block /\ p.heap[p.freeBlocks[i]] # <<>> /\ p.freeBlocks[i] # p.cur
      BY <2>1, ElementOfSeq, BlockAssumption DEF Good, Allocated
    <2>4. p.heap[p.cur] # <<>>
      BY BlockAssumption DEF Good, Allocated
    <2> QED  BY <1>2, <1>4, <2>2, <2>3, <2>4 DEF Allocated
  <1> QED  BY <1>6, <1>7, <1>8, <1>9 DEF Good, q

(***************************************************************************)
(* A good pool with room for a character takes it.                         *)
(***************************************************************************)
LEMMA WrittenGood ==
  ASSUME NEW p, NEW K, Good(p, K), p.ptr < End(p), NEW c \in Char \union {Junk}
  PROVE  Good(Written(p, c), K)
  <1> DEFINE held == p.heap[p.cur]
             t    == [held EXCEPT ![p.ptr + 1] = c]
  <1>1. /\ p \in Pools /\ p.start \in Nat /\ p.ptr \in Nat /\ p.start <= p.ptr
        /\ p.cur \in Block \union {None}
    BY DEF Good, Typed, Pools
  <1>2. p.cur \in Block /\ held \in Text /\ End(p) = Len(held) /\ Len(held) \in Nat
    BY <1>1 DEF End, Pools, Text
  <1>3. /\ t \in Text /\ Len(t) = Len(held)
        /\ \A i \in 1 .. p.start : t[i] = held[i]
    <2>1. p.ptr + 1 \in 1 .. Len(held)
      BY <1>1, <1>2
    <2>2. t \in Text /\ Len(t) = Len(held) /\ \A i \in 1 .. Len(held) : i # p.ptr + 1 => t[i] = held[i]
      BY <1>2, <2>1, ExceptSeq DEF Text
    <2>3. \A i \in 1 .. p.start : i \in 1 .. Len(held) /\ i # p.ptr + 1
      BY <1>1, <2>1, <1>2
    <2> QED  BY <2>2, <2>3
  <1>4. p.ptr + 1 \in Nat /\ p.start <= p.ptr + 1 /\ p.ptr + 1 <= Len(t)
    BY <1>1, <1>2, <1>3
  <1> QED  BY <1>2, <1>3, <1>4, RewrittenGood DEF Written

(***************************************************************************)
(* A good pool whose string gives up its end.                              *)
(***************************************************************************)
LEMMA GivenUpGood ==
  ASSUME NEW p, NEW K, Good(p, K), p.start < p.ptr, NEW n \in Nat, p.start <= n, n <= p.ptr
  PROVE  Good(GivenUp(p, n), K)
  <1> DEFINE held == p.heap[p.cur]
             t    == [i \in 1 .. Len(held) |-> IF n < i /\ i <= p.ptr THEN Junk ELSE held[i]]
  <1>1. /\ p \in Pools /\ p.start \in Nat /\ p.ptr \in Nat /\ p.ptr <= End(p)
        /\ p.cur \in Block \union {None}
    BY DEF Good, Typed, Pools
  <1>2. p.cur \in Block /\ held \in Text /\ End(p) = Len(held) /\ Len(held) \in Nat
    BY <1>1 DEF End, Pools, Text
  <1>3. t \in Text /\ Len(t) = Len(held) /\ \A i \in 1 .. p.start : t[i] = held[i]
    <2>1. \A i \in 1 .. Len(held) : held[i] \in Char \union {Junk}
      BY <1>2, ElementOfSeq DEF Text
    <2>2. t \in Text /\ Len(t) = Len(held)
      BY <1>2, <2>1 DEF Text
    <2>3. \A i \in 1 .. p.start : i \in 1 .. Len(held) /\ ~(n < i)
      BY <1>1, <1>2
    <2> QED  BY <2>2, <2>3
  <1>4. n <= Len(t)
    BY <1>1, <1>2, <1>3
  <1> QED  BY <1>2, <1>3, <1>4, RewrittenGood DEF GivenUp

(***************************************************************************)
(* The blocks of a list in the other order.                                *)
(***************************************************************************)
LEMMA BackwardsList ==
  ASSUME NEW s \in Seq(Block)
  PROVE  /\ Backwards(s) \in Seq(Block) /\ Len(Backwards(s)) = Len(s)
         /\ \A i \in 1 .. Len(s) : /\ Len(s) + 1 - i \in 1 .. Len(s)
                                   /\ Backwards(s)[i] = s[Len(s) + 1 - i]
         /\ Distinct(s) => Distinct(Backwards(s))
  <1> DEFINE l == Len(s)
             t == Backwards(s)
  <1>1. l \in Nat /\ \A i \in 1 .. l : l + 1 - i \in 1 .. l /\ s[l + 1 - i] \in Block
    BY ElementOfSeq, LenProperties
  <1>2. t \in Seq(Block) /\ Len(t) = l /\ \A i \in 1 .. l : t[i] = s[l + 1 - i]
    BY <1>1 DEF Backwards
  <1> HIDE DEF l, t
  <1>3. ASSUME Distinct(s) PROVE Distinct(t)
    <2> SUFFICES ASSUME NEW i \in 1 .. l, NEW j \in 1 .. l, t[i] = t[j] PROVE i = j
      BY <1>2 DEF Distinct
    <2>1. l + 1 - i = l + 1 - j
      BY <1>1, <1>2, <1>3 DEF Distinct, l
    <2> QED  BY <2>1, <1>1
  <1> QED  BY <1>1, <1>2, <1>3 DEF l, t

(***************************************************************************)
(* Two lists of blocks that share none, one behind the other.              *)
(***************************************************************************)
LEMMA Joined ==
  ASSUME NEW s \in Seq(Block), NEW t \in Seq(Block), Distinct(s), Distinct(t),
         \A i \in 1 .. Len(s), j \in 1 .. Len(t) : s[i] # t[j]
  PROVE  /\ s \o t \in Seq(Block) /\ Distinct(s \o t)
         /\ \A k \in 1 .. Len(s \o t) :
               \/ \E i \in 1 .. Len(s) : (s \o t)[k] = s[i]
               \/ \E j \in 1 .. Len(t) : (s \o t)[k] = t[j]
  <1> DEFINE u == s \o t
             l == Len(s)
             n == Len(t)
  <1>1. /\ u \in Seq(Block) /\ Len(u) = l + n /\ l \in Nat /\ n \in Nat
        /\ \A i \in 1 .. l : u[i] = s[i]
        /\ \A i \in l + 1 .. l + n : u[i] = t[i - l]
    BY ConcatProperties, LenProperties
  <1> HIDE DEF u, l, n
  <1>2. \A k \in 1 .. l + n : \/ k \in 1 .. l /\ u[k] = s[k]
                              \/ ~(k <= l) /\ k - l \in 1 .. n /\ u[k] = t[k - l]
    BY <1>1
  <1>3. ASSUME NEW i \in 1 .. l + n, NEW j \in 1 .. l + n, u[i] = u[j] PROVE i = j
    <2>1. CASE i <= l /\ j <= l
      BY <1>1, <1>2, <1>3, <2>1 DEF Distinct, l
    <2>2. CASE ~(i <= l) /\ ~(j <= l)
      <3>1. i - l \in 1 .. n /\ j - l \in 1 .. n /\ t[i - l] = t[j - l]
        BY <1>2, <1>3, <2>2
      <3>2. i - l = j - l
        BY <3>1 DEF Distinct, n
      <3> QED  BY <3>2, <1>1
    <2>3. CASE i <= l /\ ~(j <= l)
      <3>1. i \in 1 .. l /\ j - l \in 1 .. n /\ s[i] = t[j - l]
        BY <1>2, <1>3, <2>3
      <3> QED  BY <3>1 DEF l, n
    <2>4. CASE ~(i <= l) /\ j <= l
      <3>1. j \in 1 .. l /\ i - l \in 1 .. n /\ s[j] = t[i - l]
        BY <1>2, <1>3, <2>4
      <3> QED  BY <3>1 DEF l, n
    <2> QED  BY <2>1, <2>2, <2>3, <2>4
  <1>4. Distinct(u)
    BY <1>1, <1>3 DEF Distinct
  <1> QED  BY <1>1, <1>2, <1>4 DEF u, l, n

(***************************************************************************)
(* poolClear: every block is free, and nothing finished is left.           *)
(***************************************************************************)
LEMMA ClearedGood ==
  ASSUME NEW p, NEW K, Good(p, K)
  PROVE  Good(Cleared(p), {})
  <1> DEFINE q == Cleared(p)
             f == IF p.freeBlocks = <<>> THEN p.blocks ELSE Backwards(p.blocks) \o p.freeBlocks
  <1>1. /\ p \in Pools /\ p.blocks \in Seq(Block) /\ p.freeBlocks \in Seq(Block)
        /\ p.heap \in [Block -> Text]
    BY DEF Good, Typed, Pools
  <1>2. \A c \in Block : /\ Blank(Len(p.heap[c])) \in Text
                         /\ p.heap[c] # <<>> => Blank(Len(p.heap[c])) # <<>>
    <2> SUFFICES ASSUME NEW c \in Block
                 PROVE  /\ Blank(Len(p.heap[c])) \in Text
                        /\ p.heap[c] # <<>> => Blank(Len(p.heap[c])) # <<>>
      OBVIOUS
    <2>1. p.heap[c] \in Text /\ Len(p.heap[c]) \in Nat
      BY <1>1 DEF Text
    <2>2. Blank(Len(p.heap[c])) \in Text /\ Len(Blank(Len(p.heap[c]))) = Len(p.heap[c])
      BY <2>1, BlankLength
    <2>3. p.heap[c] # <<>> => Len(p.heap[c]) # 0
      BY <2>1, EmptySeq DEF Text
    <2> QED  BY <2>2, <2>3, EmptySeq
  <1>3. q = [heap |-> [b \in Block |-> Blank(Len(p.heap[b]))], blocks |-> <<>>, freeBlocks |-> f,
             cur |-> None, start |-> 0, ptr |-> 0, ok |-> TRUE]
    BY DEF Cleared
  <1>4. /\ f \in Seq(Block) /\ Distinct(f)
        /\ \A j \in 1 .. Len(f) : \/ \E i \in 1 .. Len(p.blocks) : f[j] = p.blocks[i]
                                  \/ \E i \in 1 .. Len(p.freeBlocks) : f[j] = p.freeBlocks[i]
    <2>1. CASE p.freeBlocks = <<>>
      BY <1>1, <2>1 DEF Good, Once
    <2>2. CASE p.freeBlocks # <<>>
      <3> DEFINE back == Backwards(p.blocks)
      <3>1. /\ back \in Seq(Block) /\ Distinct(back) /\ Len(back) = Len(p.blocks)
            /\ \A i \in 1 .. Len(p.blocks) : /\ Len(p.blocks) + 1 - i \in 1 .. Len(p.blocks)
                                             /\ back[i] = p.blocks[Len(p.blocks) + 1 - i]
        <4>1. Distinct(p.blocks)
          BY DEF Good, Once
        <4> QED  BY <1>1, <4>1, BackwardsList
      <3> HIDE DEF back
      <3>2. \A i \in 1 .. Len(back) : \E j \in 1 .. Len(p.blocks) : back[i] = p.blocks[j]
        BY <3>1
      <3>3. Distinct(p.freeBlocks)
        BY DEF Good, Once
      <3>4. \A i \in 1 .. Len(back), j \in 1 .. Len(p.freeBlocks) : back[i] # p.freeBlocks[j]
        BY <3>2 DEF Good, Once
      <3>5. /\ back \o p.freeBlocks \in Seq(Block) /\ Distinct(back \o p.freeBlocks)
            /\ \A k \in 1 .. Len(back \o p.freeBlocks) :
                 \/ \E i \in 1 .. Len(back) : (back \o p.freeBlocks)[k] = back[i]
                 \/ \E j \in 1 .. Len(p.freeBlocks) : (back \o p.freeBlocks)[k] = p.freeBlocks[j]
        BY <1>1, <3>1, <3>3, <3>4, Joined
      <3>6. f = back \o p.freeBlocks
        BY <2>2 DEF back
      <3> HIDE DEF f
      <3>7. \A j \in 1 .. Len(f) : \/ \E i \in 1 .. Len(p.blocks) : f[j] = p.blocks[i]
                                   \/ \E i \in 1 .. Len(p.freeBlocks) : f[j] = p.freeBlocks[i]
        BY <3>2, <3>5, <3>6
      <3> QED  BY <3>5, <3>6, <3>7
    <2> QED  BY <2>1, <2>2
  <1> HIDE DEF q, f
  <1>5. q \in Pools
    <2>1. q.heap \in [Block -> Text]
      BY <1>2, <1>3
    <2> QED  BY <1>3, <1>4, <2>1, EmptySeq DEF Pools
  <1>6. Typed(q, {})
    BY <1>3, <1>5 DEF Typed, End
  <1>7. Stay(q, {}) /\ Behind(q, {}) /\ NotFree(q, {})
    BY DEF Stay, Behind, NotFree
  <1>8. Once(q)
    <2>1. Len(q.blocks) = 0 /\ q.freeBlocks = f
      BY <1>3, EmptySeq
    <2>2. Distinct(q.blocks)
      BY <2>1 DEF Distinct
    <2> QED  BY <1>4, <2>1, <2>2 DEF Once
  <1>9. Allocated(q)
    <2>1. \A j \in 1 .. Len(f) : f[j] \in Block /\ p.heap[f[j]] # <<>>
      BY <1>1, <1>4, ElementOfSeq DEF Good, Allocated
    <2>2. \A j \in 1 .. Len(f) : q.heap[f[j]] # <<>>
      BY <1>2, <1>3, <2>1
    <2>3. Len(q.blocks) = 0 /\ q.freeBlocks = f /\ q.cur = None
      BY <1>3, EmptySeq
    <2> QED  BY <2>2, <2>3 DEF Allocated
  <1> QED  BY <1>6, <1>7, <1>8, <1>9 DEF Good, q

(***************************************************************************)
(* poolFinish: the string joins those that are finished.                   *)
(***************************************************************************)
LEMMA FinishedGood ==
  ASSUME NEW p, NEW K, Good(p, K), p.start < p.ptr
  PROVE  Good(Finished(p), K \union {[block |-> p.cur, at |-> p.start, text |-> Current(p)]})
  <1> DEFINE q    == Finished(p)
             s    == Current(p)
             new  == [block |-> p.cur, at |-> p.start, text |-> s]
             held == p.heap[p.cur]
             L    == K \union {new}
  <1>1. /\ p \in Pools /\ K \in SUBSET Strings /\ p.start \in Nat /\ p.ptr \in Nat
        /\ p.start < p.ptr /\ p.ptr <= End(p) /\ p.cur \in Block \union {None}
    BY DEF Good, Typed, Pools
  <1>2. p.cur \in Block /\ held \in Text /\ End(p) = Len(held) /\ Len(held) \in Nat /\ p.cur # None
    BY <1>1, BlockAssumption DEF End, Pools, Text
  <1>3. /\ s \in Text /\ Len(s) = p.ptr - p.start /\ s # <<>>
        /\ \A i \in 1 .. Len(s) : s[i] = held[p.start + i] /\ p.start + i <= Len(held)
    <2> DEFINE u == SubSeq(held, p.start + 1, p.ptr)
    <2>1. s = u
      BY <1>2 DEF Current
    <2>2. u \in Text /\ Len(u) = p.ptr - p.start
      BY <1>1, <1>2, SubSeqProperties DEF Text
    <2>3. ASSUME NEW i \in 1 .. p.ptr - p.start
          PROVE  u[i] = held[p.start + i] /\ p.start + i <= Len(held)
      <3> DEFINE m == p.start + 1
                 l == Len(held)
      <3>1. /\ m \in Nat /\ p.ptr <= l /\ l \in Nat /\ m + i - 1 = p.start + i
            /\ i \in 1 .. p.ptr - m + 1
        BY <1>1, <1>2
      <3>2. u[i] = held[m + i - 1]
        BY <1>1, <1>2, <3>1, SubSeqProperties, SMTT(30) DEF Text
      <3> HIDE DEF l
      <3>3. p.start + i <= l
        BY <1>1, <3>1
      <3> QED  BY <3>1, <3>2, <3>3 DEF l
    <2> HIDE DEF u
    <2> QED  BY <1>1, <2>1, <2>2, <2>3, EmptySeq
  <1>4. q = [heap |-> p.heap, blocks |-> p.blocks, freeBlocks |-> p.freeBlocks, cur |-> p.cur,
             start |-> p.ptr, ptr |-> p.ptr, ok |-> p.ok]
    BY <1>1 DEF Finished, Pools
  <1> HIDE DEF q, s
  <1>5. q \in Pools /\ End(q) = End(p) /\ new \in Strings
    BY <1>1, <1>2, <1>3, <1>4 DEF Pools, End, Strings
  <1>6. Typed(q, L)
    BY <1>1, <1>2, <1>4, <1>5 DEF Typed
  <1>7. Stay(q, L)
    BY <1>3, <1>4 DEF Good, Stay
  <1>8. Behind(q, L)
    <2> SUFFICES ASSUME NEW k \in L
                 PROVE  k.text # <<>> /\ (k.block = q.cur => k.at + Len(k.text) <= q.start)
      BY DEF Behind
    <2>1. CASE k \in K
      <3>1. /\ k.text # <<>> /\ k.at \in Nat /\ Len(k.text) \in Nat
            /\ k.block = p.cur => k.at + Len(k.text) <= p.start
        BY <1>1, <2>1, LenProperties DEF Good, Behind, Strings, Text
      <3> QED  BY <1>1, <1>4, <3>1
    <2>2. CASE k = new
      BY <1>1, <1>3, <1>4, <2>2
    <2> QED  BY <2>1, <2>2
  <1>9. NotFree(q, L)
    <2>1. \A j \in 1 .. Len(p.freeBlocks) : p.freeBlocks[j] # p.cur
      BY <1>2 DEF Good, Allocated
    <2> QED  BY <1>4, <2>1 DEF Good, NotFree
  <1>10. Once(q) /\ Allocated(q)
    BY <1>4 DEF Good, Once, Allocated
  <1> QED  BY <1>6, <1>7, <1>8, <1>9, <1>10 DEF Good, q, s
-----------------------------------------------------------------------------
(***************************************************************************)
(* Every step leaves a good pool: poolAppendChar, poolFinish, poolDiscard, *)
(* poolChop and poolClear.                                                 *)
(***************************************************************************)
LEMMA NextGood ==
  ASSUME Good(pool, kept), [Next]_vars
  PROVE  Good(pool', kept')
  <1>1. ASSUME NEW c \in Char, AppendChar(c) PROVE Good(pool', kept')
    <2>1. pool.ok /\ pool' \in Appended(pool, c) /\ kept' = kept
      BY <1>1 DEF AppendChar
    <2>2. CASE pool.ptr # End(pool)
      <3>1. pool.ptr < End(pool)
        <4>1. pool.ptr \in Nat /\ pool.ptr <= End(pool) /\ End(pool) \in Nat
          BY DEF Good, Typed, Pools, End, Text
        <4> QED  BY <2>2, <4>1
      <3>2. Good(Written(pool, c), kept)
        BY <3>1, WrittenGood
      <3> QED  BY <2>1, <2>2, <3>2 DEF Appended
    <2>3. CASE pool.ptr = End(pool)
      <3>1. PICK q \in Grown(pool) : pool' = IF q.ok THEN Written(q, c) ELSE q
        BY <2>1, <2>3 DEF Appended
      <3>2. Good(q, kept) /\ (q.ok => q.ptr < End(q))
        BY <2>1, <2>3, GrownGood
      <3>3. CASE q.ok
        <4>1. Good(Written(q, c), kept)
          BY <3>2, <3>3, WrittenGood
        <4> QED  BY <2>1, <3>1, <3>3, <4>1
      <3>4. CASE ~q.ok
        BY <2>1, <3>1, <3>2, <3>4
      <3> QED  BY <3>3, <3>4
    <2> QED  BY <2>2, <2>3
  <1>2. CASE Finish
    BY <1>2, FinishedGood DEF Finish
  <1>3. CASE Discard
    <2>1. pool.start \in Nat /\ pool.start <= pool.start /\ pool.start <= pool.ptr
      BY DEF Good, Typed, Pools
    <2> QED  BY <1>3, <2>1, GivenUpGood DEF Discard, Discarded
  <1>4. CASE Chop
    <2>1. pool.start \in Nat /\ pool.ptr \in Nat /\ pool.start < pool.ptr
      BY <1>4 DEF Good, Typed, Pools, Chop
    <2>2. pool.ptr - 1 \in Nat /\ pool.start <= pool.ptr - 1 /\ pool.ptr - 1 <= pool.ptr
      BY <2>1
    <2> QED  BY <1>4, <2>2, GivenUpGood DEF Chop, Chopped
  <1>5. CASE Clear
    BY <1>5, ClearedGood DEF Clear
  <1>6. CASE UNCHANGED vars
    BY <1>6 DEF vars
  <1> QED  BY <1>1, <1>2, <1>3, <1>4, <1>5, <1>6 DEF Next

(***************************************************************************)
(* poolInit leaves a good pool in which nothing is finished.               *)
(***************************************************************************)
LEMMA InitGood ==
  ASSUME Init
  PROVE  Good(pool, kept)
  <1>1. /\ pool.heap = [b \in Block |-> <<>>] /\ pool.blocks = <<>> /\ pool.freeBlocks = <<>>
        /\ pool.cur = None /\ pool.start = 0 /\ pool.ptr = 0 /\ pool.ok = TRUE /\ kept = {}
    BY DEF Init, EmptyPool
  <1>2. pool \in Pools
    <2>1. <<>> \in Text /\ <<>> \in Seq(Block)
      BY EmptySeq DEF Text
    <2>2. [b \in Block |-> <<>>] \in [Block -> Text]
      BY <2>1
    <2> QED  BY <2>1, <2>2 DEF Init, EmptyPool, Pools
  <1>3. Typed(pool, kept)
    BY <1>1, <1>2 DEF Typed, End
  <1>4. Once(pool) /\ Allocated(pool)
    BY <1>1, EmptySeq DEF Once, Distinct, Allocated
  <1> QED  BY <1>1, <1>3, <1>4 DEF Good, Stay, Behind, NotFree

(***************************************************************************)
(* The pool is good in every state.                                        *)
(***************************************************************************)
THEOREM InvCorrect == Spec => []Good(pool, kept)
  <1>1. Init => Good(pool, kept)
    BY InitGood
  <1>2. Good(pool, kept) /\ [Next]_vars => Good(pool, kept)'
    BY NextGood DEF Good, Typed, Stay, Behind, NotFree, Once, Allocated, Pools, Strings, End,
                    Distinct
  <1> QED  BY <1>1, <1>2, PTL DEF Spec

(***************************************************************************)
(* The types of the pool and of the finished strings; the string being     *)
(* built lies within its block (poolGrow).                                 *)
(***************************************************************************)
THEOREM TypeCorrect == Spec => []TypeOK
  <1>1. Good(pool, kept) => TypeOK
    BY DEF Good, Typed, Pools, Strings, TypeOK
  <1> QED  BY <1>1, InvCorrect, PTL

(***************************************************************************)
(* No block is twice in the lists of blocks, whatever the memory gives and *)
(* refuses: poolDestroy frees none a second time.                          *)
(***************************************************************************)
THEOREM TwiceCorrect == Spec => []NoBlockTwice
  <1>1. Good(pool, kept) => NoBlockTwice
    BY DEF Good, Once, NoBlockTwice
  <1> QED  BY <1>1, InvCorrect, PTL

(***************************************************************************)
(* A finished string stands where it was finished, whatever grows, moves   *)
(* or is taken again after it: the pointers in the tables of names stay    *)
(* good (poolGrow, poolClear).                                             *)
(***************************************************************************)
THEOREM StayCorrect == Spec => []KeptStay
  <1>1. Good(pool, kept) => KeptStay
    BY DEF Good, Stay, KeptStay
  <1> QED  BY <1>1, InvCorrect, PTL

(***************************************************************************)
(* The pool is safe for every memory, alphabet and size of the first block.*)
(***************************************************************************)
THEOREM PoolCorrect == Spec => []PoolSafe
  <1>1. TypeOK /\ NoBlockTwice /\ KeptStay => PoolSafe
    BY DEF PoolSafe
  <1> QED  BY <1>1, TypeCorrect, TwiceCorrect, StayCorrect, PTL

-----------------------------------------------------------------------------
(***************************************************************************)
(* The walk through a table (lookup, PROBE_STEP).  The sizes are powers of *)
(* two, told without powers: whatever odd number multiplies k, when the    *)
(* product is a multiple of the size then k is.                            *)
(***************************************************************************)
Coprime(size) ==
  \A k, s, q \in Nat : s % 2 = 1 /\ k * s = q * size => \E m \in Nat : k = m * size

TableSize(size) == Coprime(size) /\ \E c \in Nat \ {0} : size = 4 * c

\* Twice a size that is a power of two is one.
LEMMA CoprimeTwice ==
  ASSUME NEW n \in Nat \ {0}, Coprime(n)
  PROVE  Coprime(2 * n)
  <1> SUFFICES ASSUME NEW k \in Nat, NEW s \in Nat, NEW q \in Nat, s % 2 = 1, k * s = q * (2 * n)
               PROVE  \E m \in Nat : k = m * (2 * n)
    BY DEF Coprime
  <1>1. k * s = (2 * q) * n /\ 2 * q \in Nat
    OBVIOUS
  <1>2. PICK m \in Nat : k = m * n
    BY <1>1 DEF Coprime
  <1>3. m * s = 2 * q
    <2>1. (m * s) * n = (2 * q) * n
      BY <1>1, <1>2
    <2>2. \A a, b \in Nat : a * n = b * n => a = b
      <3> SUFFICES ASSUME NEW a \in Nat, NEW b \in Nat, a * n = b * n, a < b PROVE FALSE
        <4>1. \A a, b \in Nat : a < b => a * n # b * n
          OBVIOUS
        <4> QED  BY <4>1
      <3>1. PICK d \in Nat : b = a + d /\ d > 0
        BY b = a + (b - a)
      <3>2. b * n = a * n + d * n /\ d * n > 0 /\ a * n \in Nat
        BY <3>1
      <3> QED  BY <3>2
    <2>3. m * s \in Nat
      OBVIOUS
    <2> QED  BY <1>1, <2>1, <2>2, <2>3
  <1>4. PICK t \in Nat : s = 2 * t + 1
    <2>1. s = 2 * (s \div 2) + (s % 2) /\ s \div 2 \in Nat
      OBVIOUS
    <2> QED  BY <2>1
  <1>5. m = 2 * (q - m * t)
    <2>1. m * s = 2 * (m * t) + m
      BY <1>4
    <2>2. m * t \in Nat /\ m * s \in Nat
      BY <1>4
    <2> QED  BY <1>3, <2>1, <2>2
  <1>6. PICK r \in Int : m = 2 * r
    <2>1. m * t \in Nat
      BY <1>4
    <2>2. q - m * t \in Int
      BY <2>1
    <2> QED  BY <1>5, <2>2
  <1>7. r \in Nat /\ k = r * (2 * n)
    BY <1>2, <1>6
  <1> QED  BY <1>7

\* The sizes of tables: the first one, and twice every one.
LEMMA SizeTwice ==
  ASSUME NEW n \in Nat, TableSize(n)
  PROVE  TableSize(2 * n)
  <1>1. PICK c \in Nat \ {0} : n = 4 * c
    BY DEF TableSize
  <1>2. n \in Nat \ {0} /\ 2 * n = 4 * (2 * c) /\ 2 * c \in Nat \ {0}
    BY <1>1
  <1> QED  BY <1>2, CoprimeTwice DEF TableSize

\* So is the size a table begins with.
LEMMA SizeFirst == InitSize \in Nat /\ TableSize(InitSize)
  <1>1. Coprime(1)
    <2> SUFFICES ASSUME NEW k \in Nat PROVE \E m \in Nat : k = m * 1
      BY DEF Coprime
    <2> QED  BY k = k * 1
  <1>2. Coprime(2) /\ 2 \in Nat \ {0}
    <2>1. 2 * 1 = 2 /\ 1 \in Nat \ {0}  OBVIOUS
    <2> QED  BY <1>1, <2>1, CoprimeTwice
  <1>3. TableSize(4)
    <2>1. 2 * 2 = 4 /\ 4 = 4 * 1 /\ 1 \in Nat \ {0}  OBVIOUS
    <2>2. Coprime(4)
      BY <1>2, <2>1, CoprimeTwice
    <2> QED  BY <2>1, <2>2 DEF TableSize
  <1>4. TableSize(8)
    <2>1. 2 * 4 = 8 /\ 4 \in Nat  OBVIOUS
    <2> QED  BY <1>3, <2>1, SizeTwice
  <1>5. TableSize(16)
    <2>1. 2 * 8 = 16 /\ 8 \in Nat  OBVIOUS
    <2> QED  BY <1>4, <2>1, SizeTwice
  <1>6. TableSize(32)
    <2>1. 2 * 16 = 32 /\ 16 \in Nat  OBVIOUS
    <2> QED  BY <1>5, <2>1, SizeTwice
  <1>7. TableSize(64)
    <2>1. 2 * 32 = 64 /\ 32 \in Nat  OBVIOUS
    <2> QED  BY <1>6, <2>1, SizeTwice
  <1> QED  BY <1>3, <1>4, <1>5, <1>6, <1>7, InitSizeAssumption

\* The step is odd and smaller than the table.
LEMMA StepOdd ==
  ASSUME NEW n \in Nat, TableSize(n), NEW h \in Nat
  PROVE  /\ ProbeStep(h, n) \in 1 .. n - 1 /\ ProbeStep(h, n) % 2 = 1
         /\ (n - ProbeStep(h, n)) % 2 = 1
  <1>1. PICK c \in Nat \ {0} : n = 4 * c
    BY DEF TableSize
  <1> DEFINE a == (h - (h % n)) \div (n \div 2)
             b == a % (n \div 4)
             second == b % 256
  <1>2. n \div 2 = 2 * c /\ n \div 4 = c
    BY <1>1
  <1>3. h % n \in Nat /\ h % n <= h
    BY <1>1
  <1>4. a \in Nat
    BY <1>1, <1>2, <1>3
  <1>5. b \in 0 .. c - 1
    BY <1>1, <1>2, <1>4
  <1> HIDE DEF b
  <1>6. second \in Nat /\ second <= b
    BY <1>1, <1>5
  <1>7. ProbeStep(h, n) = IF second % 2 = 0 THEN second + 1 ELSE second
    BY DEF ProbeStep, b
  <1> HIDE DEF second
  <1>8. ProbeStep(h, n) \in 1 .. n - 1 /\ ProbeStep(h, n) % 2 = 1
    BY <1>1, <1>5, <1>6, <1>7
  <1> QED  BY <1>1, <1>8

\* Every place of the table is looked at once.
LEMMA WalkOnce ==
  ASSUME NEW n \in Nat, TableSize(n), NEW h \in Nat, NEW k \in 0 .. n - 1, NEW l \in 0 .. n - 1,
         l < k
  PROVE  Probe(h, n, k) # Probe(h, n, l)
  <1> DEFINE d == n - ProbeStep(h, n)
             b == h % n
             x == b + k * d
             y == b + l * d
  <1>1. n > 0
    BY DEF TableSize
  <1>2. d \in Nat /\ d > 0 /\ d % 2 = 1
    BY StepOdd
  <1>3. b \in Nat
    BY <1>1
  <1> HIDE DEF d, b
  <1>4. x \in Nat /\ y \in Nat /\ x - y = (k - l) * d
    BY <1>2, <1>3
  <1> HIDE DEF x, y
  <1> SUFFICES ASSUME x % n = y % n PROVE FALSE
    BY DEF Probe, d, b, x, y
  <1>5. x = n * (x \div n) + (x % n) /\ y = n * (y \div n) + (y % n) /\ x \div n \in Nat /\ y \div n \in Nat
    <2>1. \A z \in Nat : z = n * (z \div n) + (z % n) /\ z \div n \in Nat
      BY <1>1
    <2> QED  BY <1>4, <2>1
  <1> DEFINE q == (x \div n) - (y \div n)
  <1>6. q \in Int /\ x - y = n * q
    BY <1>1, <1>4, <1>5
  <1> HIDE DEF q
  <1>7. (k - l) \in Nat /\ (k - l) * d \in Nat
    BY <1>2
  <1>8. q \in Nat /\ (k - l) * d = q * n
    BY <1>1, <1>4, <1>6, <1>7
  <1>9. PICK m \in Nat : k - l = m * n
    BY <1>2, <1>7, <1>8 DEF TableSize, Coprime
  <1>10. m * n = 0 \/ m * n >= n
    BY <1>1
  <1> QED  BY <1>9, <1>10
\* A place looked at is one of the table.
LEMMA ProbeInside ==
  ASSUME NEW n \in Nat, TableSize(n), NEW h \in Nat, NEW k \in Nat
  PROVE  Probe(h, n, k) \in 0 .. n - 1
  <1> DEFINE d == n - ProbeStep(h, n)
             x == (h % n) + k * d
  <1>1. d \in Nat /\ n > 0
    BY StepOdd DEF TableSize
  <1> HIDE DEF d
  <1>2. x \in Nat
    BY <1>1
  <1> HIDE DEF x
  <1>3. x % n \in 0 .. n - 1
    BY <1>1, <1>2
  <1> QED  BY <1>3 DEF Probe, x, d

\* Every place is reached from every hash.
LEMMA WalkThrough ==
  ASSUME NEW n \in Nat, TableSize(n), NEW h \in Nat, NEW i \in 0 .. n - 1
  PROVE  \E k \in 0 .. n - 1 : Probe(h, n, k) = i
  <1> DEFINE S == 0 .. n - 1
             f == [k \in S |-> Probe(h, n, k)]
  <1>1. n > 0
    BY DEF TableSize
  <1>2. \A k \in S : Probe(h, n, k) \in S
    BY ProbeInside
  <1>3. \A k, l \in S : f[k] = f[l] => k = l
    <2>1. \A k, l \in S : k < l \/ l < k \/ k = l
      OBVIOUS
    <2> QED  BY <2>1, WalkOnce
  <1>4. f \in Injection(S, S)
    BY <1>2, <1>3 DEF Injection, IsInjective
  <1>5. IsFiniteSet(S)
    BY FS_Interval
  <1>6. f \in Surjection(S, S)
    BY <1>4, <1>5, FS_Injection
  <1> QED  BY <1>6 DEF Surjection

-----------------------------------------------------------------------------
\* The smallest of some numbers.
LEMMA LeastNat ==
  ASSUME NEW T, T \subseteq Nat, T # {}
  PROVE  \E m \in T : \A k \in T : m <= k
  <1>1. PICK m \in T : \A k \in T : ~(<<k, m>> \in OpToRel(<, Nat))
    BY NatLessThanWellFounded, WFMin, Zenon
  <1>2. \A k \in T : ~(k < m)  BY <1>1 DEF OpToRel
  <1> QED  BY <1>2

\* A set that is entered at 0 and left nowhere holds all numbers up to n.
LEMMA Climb ==
  ASSUME NEW n \in Nat, NEW T, 0 \in T, \A i \in 1 .. n : i - 1 \in T => i \in T
  PROVE  \A i \in 0 .. n : i \in T
  <1> DEFINE U == {i \in 0 .. n : i \notin T}
  <1> SUFFICES ASSUME U # {} PROVE FALSE
    OBVIOUS
  <1>1. PICK m \in U : \A k \in U : m <= k
    <2>1. U \subseteq Nat
      OBVIOUS
    <2> HIDE DEF U
    <2> QED  BY <2>1, LeastNat
  <1>2. m \in 1 .. n /\ m - 1 \in 0 .. n /\ m - 1 < m
    BY <1>1
  <1>3. m - 1 \notin U
    BY <1>1, <1>2
  <1> QED  BY <1>2, <1>3

\* FirstOf is the first of the places that end a search.
LEMMA FirstEnd ==
  ASSUME NEW ends, ends \subseteq Nat, NEW h, NEW n, NEW k \in ends, \A l \in ends : k <= l
  PROVE  FirstOf(ends, h, n) = Probe(h, n, k)
  <1>1. \A m \in ends : (\A l \in ends : m <= l) => m = k
    OBVIOUS
  <1>2. (CHOOSE m \in ends : \A l \in ends : m <= l) = k
    BY <1>1
  <1> QED  BY <1>2, ends # {} DEF FirstOf

(***************************************************************************)
(* A table: without places, or of a size that can be walked through.       *)
(***************************************************************************)
Addr == [block : Block \union {None}, at : Nat]

Shaped(t) ==
  /\ DOMAIN t = {"size", "used", "v"}
  /\ t.size \in Nat /\ t.used \in Nat
  /\ TableSize(t.size) /\ t.v \in [0 .. t.size - 1 -> Addr]

Filled(t) == {i \in 0 .. t.size - 1 : t.v[i] # Empty}

\* The search for s comes to the place i.
OnWay(p, t, s, i) ==
  \E k \in 0 .. t.size - 1 :
    /\ Probe(Hash(s), t.size, k) = i
    /\ \A l \in 0 .. k - 1 : /\ t.v[Probe(Hash(s), t.size, l)] # Empty
                             /\ Read(p, t.v[Probe(Hash(s), t.size, l)]) # s

InPlace(p, t) ==
  \A i \in Filled(t) : Read(p, t.v[i]) \in Text /\ OnWay(p, t, Read(p, t.v[i]), i)

\* The hash is an unsigned long for every text.  A hypothesis of the theorems:
\* TLC cannot go through all the texts as it would for an ASSUME.
HashesAreNumbers == \A s \in Text : Hash(s) \in Nat

\* The search for what an entry reads as ends at the entry.
LEMMA PlaceOfEntry ==
  ASSUME NEW p, NEW t, Shaped(t), InPlace(p, t), NEW i \in Filled(t)
  PROVE  Place(p, t, Read(p, t.v[i])) = i
  <1> DEFINE s == Read(p, t.v[i])
             stops(e) == e = Empty \/ Read(p, e) = s
             ends == {k \in 0 .. t.size - 1 : stops(t.v[Probe(Hash(s), t.size, k)])}
  <1>1. PICK k \in 0 .. t.size - 1 :
          /\ Probe(Hash(s), t.size, k) = i
          /\ \A l \in 0 .. k - 1 : ~stops(t.v[Probe(Hash(s), t.size, l)])
    BY DEF InPlace, OnWay
  <1>2. k \in ends
    BY <1>1
  <1>3. \A l \in ends : k <= l
    <2>1. \A l \in 0 .. t.size - 1 : l < k => l \in 0 .. k - 1
      OBVIOUS
    <2>2. \A l \in 0 .. t.size - 1 : l < k => l \notin ends
      BY <1>1, <2>1
    <2> QED  BY <2>2
  <1>4. ends \subseteq Nat
    BY DEF Shaped
  <1>5. Place(p, t, s) = FirstOf(ends, Hash(s), t.size)
    BY DEF Place
  <1> HIDE DEF ends, s
  <1> QED  BY <1>1, <1>2, <1>3, <1>4, <1>5, FirstEnd DEF s

\* No two entries read as the same name.
LEMMA EntriesDiffer ==
  ASSUME NEW p, NEW t, Shaped(t), InPlace(p, t), NEW i \in Filled(t), NEW j \in Filled(t),
         Read(p, t.v[i]) = Read(p, t.v[j])
  PROVE  i = j
  BY PlaceOfEntry

\* In a table that is not full an empty place is found.
LEMMA FreePlace ==
  ASSUME NEW t, Shaped(t), Cardinality(Filled(t)) < t.size, NEW h \in Nat
  PROVE  \E k \in 0 .. t.size - 1 :
           /\ Free(t, h) = Probe(h, t.size, k) /\ Free(t, h) \in 0 .. t.size - 1
           /\ t.v[Free(t, h)] = Empty
           /\ \A l \in 0 .. k - 1 : t.v[Probe(h, t.size, l)] # Empty
  <1> DEFINE S == 0 .. t.size - 1
             ends == {k \in S : t.v[Probe(h, t.size, k)] = Empty}
  <1>1. t.size \in Nat /\ TableSize(t.size) /\ t.size > 0
    BY DEF Shaped, TableSize
  <1>2. Cardinality(S) = t.size
    BY <1>1, FS_Interval
  <1>3. PICK i \in S : t.v[i] = Empty
    <2>1. Filled(t) # S
      BY <1>1, <1>2
    <2> QED  BY <2>1 DEF Filled
  <1>4. \E k \in S : Probe(h, t.size, k) = i
    BY <1>1, WalkThrough
  <1>5. ends # {} /\ ends \subseteq Nat
    BY <1>1, <1>3, <1>4
  <1>6. PICK k \in ends : \A l \in ends : k <= l
    <2> HIDE DEF ends
    <2> QED  BY <1>5, LeastNat
  <1>7. Free(t, h) = Probe(h, t.size, k)
    <2>1. Free(t, h) = FirstOf(ends, h, t.size)
      BY DEF Free
    <2> HIDE DEF ends
    <2> QED  BY <1>5, <1>6, <2>1, FirstEnd
  <1>8. k \in S /\ t.v[Free(t, h)] = Empty
    BY <1>6, <1>7
  <1>9. Free(t, h) \in S
    BY <1>1, <1>7, <1>8, ProbeInside
  <1>10. \A l \in 0 .. k - 1 : t.v[Probe(h, t.size, l)] # Empty
    <2>1. \A l \in 0 .. k - 1 : l \in S /\ ~(k <= l)
      BY <1>1, <1>8
    <2> QED  BY <1>6, <2>1
  <1> QED  BY <1>7, <1>8, <1>9, <1>10
-----------------------------------------------------------------------------
\* The entries are what stands in the places filled.
LEMMA EntriesFilled ==
  ASSUME NEW t, Shaped(t)
  PROVE  /\ Entries(t) = {t.v[i] : i \in Filled(t)}
         /\ IsFiniteSet(Filled(t)) /\ Cardinality(Filled(t)) \in Nat
         /\ Cardinality(Filled(t)) <= t.size
  <1>1. t.size \in Nat /\ DOMAIN t.v = 0 .. t.size - 1
    BY DEF Shaped
  <1>2. IsFiniteSet(0 .. t.size - 1) /\ Cardinality(0 .. t.size - 1) = t.size
    BY <1>1, FS_Interval
  <1>3. IsFiniteSet(Filled(t)) /\ Cardinality(Filled(t)) <= t.size
    BY <1>2, FS_Subset DEF Filled
  <1> QED  BY <1>1, <1>3, FS_CardinalityType DEF Entries, Filled

\* The table u has a in the place i, and else what t has.
Differs(u, t, i, a) ==
  /\ DOMAIN u = {"size", "used", "v"} /\ u.size = t.size /\ u.used \in Nat
  /\ u.v = [t.v EXCEPT ![i] = a]

\* A new name enters a table that is not full: every entry is still found.
LEMMA EntryPut ==
  ASSUME HashesAreNumbers, NEW p, NEW t, Shaped(t), InPlace(p, t), Cardinality(Filled(t)) < t.size,
         NEW a \in Addr, a # Empty, Read(p, a) \in Text,
         \A i \in Filled(t) : Read(p, t.v[i]) # Read(p, a),
         NEW u, Differs(u, t, Free(t, Hash(Read(p, a))), a)
  PROVE  /\ Shaped(u) /\ InPlace(p, u)
         /\ Cardinality(Filled(u)) = Cardinality(Filled(t)) + 1
         /\ Entries(u) = Entries(t) \union {a}
  <1> DEFINE s == Read(p, a)
             n == t.size
             P == Free(t, Hash(s))
  <1>1. /\ n \in Nat /\ TableSize(n) /\ t.v \in [0 .. n - 1 -> Addr] /\ Hash(s) \in Nat
    BY DEF Shaped, HashesAreNumbers
  <1>2. PICK k \in 0 .. n - 1 :
          /\ P = Probe(Hash(s), n, k) /\ P \in 0 .. n - 1 /\ t.v[P] = Empty
          /\ \A l \in 0 .. k - 1 : t.v[Probe(Hash(s), n, l)] # Empty
    BY <1>1, FreePlace
  <1> HIDE DEF P
  <1>3. /\ DOMAIN u = {"size", "used", "v"} /\ u.size = n /\ u.used \in Nat
        /\ u.v = [t.v EXCEPT ![P] = a]
    BY DEF P, Differs
  <1>4. Shaped(u)
    <2>1. u.v \in [0 .. n - 1 -> Addr]
      BY <1>1, <1>3
    <2> QED  BY <1>1, <1>3, <2>1 DEF Shaped
  <1>5. /\ u.v[P] = a /\ \A i \in 0 .. n - 1 : i # P => u.v[i] = t.v[i]
    BY <1>1, <1>2, <1>3
  <1>6. Filled(u) = Filled(t) \union {P} /\ P \notin Filled(t)
    BY <1>2, <1>3, <1>5 DEF Filled
  <1>7. \A h \in Nat, l \in 0 .. n - 1 : Probe(h, n, l) \in 0 .. n - 1
    <2>1. \A l \in 0 .. n - 1 : l \in Nat
      OBVIOUS
    <2> QED  BY <1>1, <2>1, ProbeInside
  <1>8. InPlace(p, u)
    <2> SUFFICES ASSUME NEW i \in Filled(u)
                 PROVE  Read(p, u.v[i]) \in Text /\ OnWay(p, u, Read(p, u.v[i]), i)
      BY DEF InPlace
    <2>1. CASE i = P
      <3>1. \A l \in 0 .. k - 1 :
              LET j == Probe(Hash(s), n, l)
              IN  j \in 0 .. n - 1 /\ t.v[j] # Empty /\ j # P /\ j \in Filled(t)
        <4>1. \A l \in 0 .. k - 1 : l \in 0 .. n - 1
          BY <1>1
        <4> QED  BY <1>1, <1>2, <1>7, <4>1 DEF Filled
      <3>2. \A l \in 0 .. k - 1 : /\ u.v[Probe(Hash(s), n, l)] # Empty
                                  /\ Read(p, u.v[Probe(Hash(s), n, l)]) # s
        BY <1>5, <3>1
      <3> QED  BY <1>2, <1>3, <1>5, <2>1, <3>2 DEF OnWay
    <2>2. CASE i # P
      <3> DEFINE r == Read(p, t.v[i])
      <3>1. i \in Filled(t) /\ u.v[i] = t.v[i]
        BY <1>5, <1>6, <2>2 DEF Filled
      <3>2. r \in Text /\ Hash(r) \in Nat
        BY <3>1 DEF InPlace, HashesAreNumbers
      <3>3. PICK m \in 0 .. n - 1 :
              /\ Probe(Hash(r), n, m) = i
              /\ \A l \in 0 .. m - 1 : /\ t.v[Probe(Hash(r), n, l)] # Empty
                                       /\ Read(p, t.v[Probe(Hash(r), n, l)]) # r
        BY <3>1 DEF InPlace, OnWay
      <3>4. \A l \in 0 .. m - 1 : u.v[Probe(Hash(r), n, l)] = t.v[Probe(Hash(r), n, l)]
        <4>1. \A l \in 0 .. m - 1 : l \in 0 .. n - 1
          BY <1>1
        <4> QED  BY <1>2, <1>5, <1>7, <3>2, <3>3, <4>1
      <3> HIDE DEF r
      <3> QED  BY <1>3, <3>1, <3>2, <3>3, <3>4 DEF OnWay, r
    <2> QED  BY <2>1, <2>2
  <1>9. Cardinality(Filled(u)) = Cardinality(Filled(t)) + 1
    <2>1. IsFiniteSet(Filled(t))
      BY EntriesFilled
    <2> QED  BY <1>6, <2>1, FS_AddElement
  <1>10. Entries(u) = Entries(t) \union {a}
    <2>1. DOMAIN t.v = 0 .. n - 1 /\ DOMAIN u.v = 0 .. n - 1
      BY <1>1, <1>3
    <2>2. \A e : e \in Entries(u) => e \in Entries(t) \union {a}
      BY <1>5, <2>1 DEF Entries
    <2>3. \A e \in Entries(t) : e \in Entries(u)
      BY <1>2, <1>5, <2>1 DEF Entries
    <2>4. a \in Entries(u)
      BY <1>2, <1>5, <2>1 DEF Entries
    <2> QED  BY <2>2, <2>3, <2>4
  <1> QED  BY <1>4, <1>8, <1>9, <1>10

-----------------------------------------------------------------------------
\* f is what the recursion of Rehashed defines, up to m.
RehashTo(f, p, t, m) ==
  f = [i \in 0 .. m |-> IF i = 0 THEN [t EXCEPT !.size = 2 * @, !.v = Blanks(2 * t.size)]
                        ELSE Put(p, f[i - 1], t.v[i - 1])]

\* The entries of t in its first i places.
First(t, i) == {j \in Filled(t) : j < i}

\* The larger table with the entries of the first i places.
Half(p, t, n, i) ==
  /\ Shaped(n) /\ InPlace(p, n) /\ n.size = 2 * t.size /\ n.used = t.used
  /\ Cardinality(Filled(n)) = Cardinality(First(t, i))
  /\ Entries(n) = {t.v[j] : j \in First(t, i)}

\* One more place of the old table is copied.
LEMMA HalfOn ==
  ASSUME HashesAreNumbers, NEW p, NEW t, Shaped(t), InPlace(p, t),
         NEW i \in 1 .. t.size, NEW n, Half(p, t, n, i - 1)
  PROVE  Half(p, t, Put(p, n, t.v[i - 1]), i)
  <1> DEFINE e == t.v[i - 1]
             s == Read(p, e)
  <1>1. /\ t.size \in Nat /\ t.size > 0 /\ i - 1 \in 0 .. t.size - 1 /\ e \in Addr
    BY DEF Shaped
  <1>2. CASE e = Empty
    <2>1. i - 1 \notin Filled(t)
      BY <1>2 DEF Filled
    <2>2. First(t, i) = First(t, i - 1)
      <3>1. \A j \in Filled(t) : j \in Int /\ j # i - 1
        BY <1>1, <2>1 DEF Filled
      <3>2. \A j \in Filled(t) : j < i <=> j < i - 1
        BY <3>1
      <3> QED  BY <3>2 DEF First
    <2> QED  BY <1>2, <2>2 DEF Put, Half
  <1>3. CASE e # Empty
    <2>1. i - 1 \in Filled(t) /\ s \in Text
      BY <1>1, <1>3 DEF Filled, InPlace
    <2>2. First(t, i) = First(t, i - 1) \union {i - 1} /\ i - 1 \notin First(t, i - 1)
      <3>1. \A j \in Filled(t) : j \in Int
        BY <1>1 DEF Filled
      <3>2. \A j \in Filled(t) : j < i <=> (j < i - 1 \/ j = i - 1)
        BY <3>1
      <3> QED  BY <2>1, <3>2 DEF First
    <2>3. /\ IsFiniteSet(First(t, i - 1)) /\ IsFiniteSet(First(t, i))
          /\ Cardinality(First(t, i)) = Cardinality(First(t, i - 1)) + 1
          /\ Cardinality(First(t, i - 1)) \in Nat /\ Cardinality(First(t, i - 1)) <= t.size
      <3>1. IsFiniteSet(Filled(t)) /\ Cardinality(Filled(t)) \in Nat /\ Cardinality(Filled(t)) <= t.size
        BY EntriesFilled
      <3>2. First(t, i - 1) \in SUBSET Filled(t) /\ First(t, i) \in SUBSET Filled(t)
        BY DEF First
      <3>3. IsFiniteSet(First(t, i - 1)) /\ IsFiniteSet(First(t, i))
            /\ Cardinality(First(t, i - 1)) <= Cardinality(Filled(t))
        BY <3>1, <3>2, FS_Subset
      <3>4. Cardinality(First(t, i - 1)) \in Nat
        BY <3>3, FS_CardinalityType
      <3>5. Cardinality(First(t, i)) = Cardinality(First(t, i - 1)) + 1
        BY <2>2, <3>3, FS_AddElement
      <3> QED  BY <1>1, <3>1, <3>3, <3>4, <3>5
    <2>4. Shaped(n) /\ InPlace(p, n) /\ n.size = 2 * t.size /\ Cardinality(Filled(n)) < n.size
      BY <1>1, <2>3 DEF Half
    <2>5. \A j \in Filled(n) : Read(p, n.v[j]) # s
      <3> SUFFICES ASSUME NEW j \in Filled(n), Read(p, n.v[j]) = s PROVE FALSE
        OBVIOUS
      <3>1. n.v[j] \in Entries(n)
        BY <2>4, EntriesFilled
      <3>2. PICK l \in First(t, i - 1) : n.v[j] = t.v[l]
        BY <3>1 DEF Half
      <3>3. l \in Filled(t) /\ l # i - 1
        BY <2>2, <3>2 DEF First
      <3> QED  BY <2>1, <3>2, <3>3, EntriesDiffer
    <2> DEFINE u == Put(p, n, e)
    <2>6. /\ DOMAIN u = {"size", "used", "v"} /\ u.size = n.size /\ u.used = n.used
          /\ u.v = [n.v EXCEPT ![Free(n, Hash(s))] = e]
      BY <1>3, <2>4 DEF Put, Shaped
    <2>7. n.used \in Nat
      BY <2>4 DEF Shaped
    <2> HIDE DEF u
    <2>8. /\ Shaped(u) /\ InPlace(p, u) /\ Cardinality(Filled(u)) = Cardinality(Filled(n)) + 1
          /\ Entries(u) = Entries(n) \union {e}
      <3> HIDE DEF e
      <3>1. Differs(u, n, Free(n, Hash(s)), e)
        BY <2>6, <2>7 DEF Differs
      <3> QED  BY <1>1, <1>3, <2>1, <2>4, <2>5, <3>1, EntryPut
    <2>9. u.size = 2 * t.size /\ u.used = t.used
      BY <2>4, <2>6 DEF Half
    <2>10. Entries(u) = {t.v[j] : j \in First(t, i)}
      BY <2>2, <2>8 DEF Half
    <2>11. Cardinality(Filled(u)) = Cardinality(First(t, i))
      BY <2>3, <2>8 DEF Half
    <2> QED  BY <2>8, <2>9, <2>10, <2>11 DEF Half, u
  <1> QED  BY <1>2, <1>3

\* A table without entries.
LEMMA BlankTable ==
  ASSUME NEW p, NEW u, DOMAIN u = {"size", "used", "v"}, u.size \in Nat, TableSize(u.size),
         u.used \in Nat, u.v = Blanks(u.size)
  PROVE  Shaped(u) /\ InPlace(p, u) /\ Filled(u) = {} /\ Entries(u) = {}
  <1>1. Empty \in Addr
    BY DEF Empty, Addr
  <1>2. u.v = [i \in 0 .. u.size - 1 |-> Empty]
    BY DEF Blanks
  <1>3. Filled(u) = {} /\ Shaped(u)
    BY <1>1, <1>2 DEF Filled, Shaped
  <1> QED  BY <1>3, EntriesFilled DEF InPlace

\* The larger table has the entries of the old one, each in its place.
LEMMA RehashedWell ==
  ASSUME HashesAreNumbers, NEW p, NEW t, Shaped(t), InPlace(p, t)
  PROVE  LET u == Rehashed(p, t)
         IN  /\ Shaped(u) /\ InPlace(p, u) /\ u.size = 2 * t.size /\ u.used = t.used
             /\ Cardinality(Filled(u)) = Cardinality(Filled(t)) /\ Entries(u) = Entries(t)
  <1> DEFINE n == t.size
             larger == [t EXCEPT !.size = 2 * @, !.v = Blanks(2 * t.size)]
  <1>1. n \in Nat /\ TableSize(n)
    BY DEF Shaped
  <1>2. \E f : RehashTo(f, p, t, n)
    <2> DEFINE T == {i \in 0 .. n : \E f : RehashTo(f, p, t, i)}
    <2>1. 0 \in T
      <3> DEFINE g == [i \in 0 .. 0 |-> larger]
      <3>1. RehashTo(g, p, t, 0)
        BY DEF RehashTo
      <3> QED  BY <1>1, <3>1
    <2>2. ASSUME NEW i \in 1 .. n, i - 1 \in T PROVE i \in T
      <3>1. PICK f : RehashTo(f, p, t, i - 1)
        BY <2>2
      <3> DEFINE g == [j \in 0 .. i |-> IF j = i THEN Put(p, f[i - 1], t.v[i - 1]) ELSE f[j]]
      <3>2. \A j \in 0 .. i - 1 : f[j] = IF j = 0 THEN larger ELSE Put(p, f[j - 1], t.v[j - 1])
        BY <3>1 DEF RehashTo
      <3>3. \A j \in 0 .. i : j = i \/ (j \in 0 .. i - 1 /\ (j = 0 \/ j - 1 \in 0 .. i - 1))
        BY <1>1
      <3>4. \A j \in 0 .. i : j = 0 \/ g[j - 1] = f[j - 1]
        <4>1. \A j \in 1 .. i : j - 1 \in 0 .. i /\ j - 1 # i
          BY <1>1
        <4>2. \A j \in 0 .. i : j = 0 \/ j \in 1 .. i
          BY <1>1
        <4> QED  BY <4>1, <4>2
      <3>5. g = [j \in 0 .. i |-> IF j = 0 THEN larger ELSE Put(p, g[j - 1], t.v[j - 1])]
        <4>1. \A j \in 0 .. i : (IF j = i THEN Put(p, f[i - 1], t.v[i - 1]) ELSE f[j])
                                = IF j = 0 THEN larger ELSE Put(p, g[j - 1], t.v[j - 1])
          <5> HIDE DEF g, larger
          <5>1. i # 0
            BY <1>1
          <5> QED  BY <3>2, <3>3, <3>4, <5>1
        <4> QED  BY <4>1
      <3> HIDE DEF g
      <3>6. RehashTo(g, p, t, i)
        BY <3>5 DEF RehashTo
      <3>7. i \in 0 .. n
        BY <1>1
      <3> QED  BY <3>6, <3>7
    <2>3. \A i \in 0 .. n : i \in T
      <3> HIDE DEF T
      <3> QED  BY <1>1, <2>1, <2>2, Climb
    <2>4. n \in 0 .. n
      BY <1>1
    <2> QED  BY <2>3, <2>4
  <1> DEFINE f == CHOOSE g : RehashTo(g, p, t, n)
  <1>3. Rehashed(p, t) = f[n]
    BY Zenon DEF Rehashed, RehashTo
  <1>4. RehashTo(f, p, t, n)
    BY <1>2
  <1> HIDE DEF f
  <1>5. \A i \in 0 .. n : f[i] = IF i = 0 THEN larger ELSE Put(p, f[i - 1], t.v[i - 1])
    BY <1>4 DEF RehashTo
  <1> DEFINE U == {i \in 0 .. n : Half(p, t, f[i], i)}
  <1>6. 0 \in U
    <2>1. /\ DOMAIN larger = {"size", "used", "v"} /\ larger.size = 2 * n /\ larger.used = t.used
          /\ larger.v = Blanks(2 * n)
      BY DEF Shaped
    <2>2. 2 * n \in Nat /\ TableSize(2 * n) /\ t.used \in Nat
      BY <1>1, SizeTwice DEF Shaped
    <2>3. Shaped(larger) /\ InPlace(p, larger) /\ Filled(larger) = {} /\ Entries(larger) = {}
      <3> HIDE DEF larger, n
      <3> QED  BY <2>1, <2>2, BlankTable
    <2>4. First(t, 0) = {}
      BY <1>1 DEF First, Filled
    <2>5. Half(p, t, larger, 0)
      <3>1. larger.size = 2 * t.size /\ larger.used = t.used
        BY <2>1
      <3> HIDE DEF larger
      <3> QED  BY <2>3, <2>4, <3>1 DEF Half
    <2>6. 0 \in 0 .. n
      BY <1>1
    <2> HIDE DEF larger
    <2>7. f[0] = larger
      BY <1>5, <2>6
    <2> QED  BY <2>5, <2>6, <2>7
  <1>7. ASSUME NEW i \in 1 .. n, i - 1 \in U PROVE i \in U
    <2>1. i \in 0 .. n /\ i # 0
      BY <1>1
    <2>2. f[i] = Put(p, f[i - 1], t.v[i - 1])
      BY <1>5, <2>1
    <2>3. Half(p, t, f[i], i)
      BY <1>7, <2>2, HalfOn
    <2> QED  BY <2>1, <2>3
  <1>8. n \in U
    <2>1. \A i \in 0 .. n : i \in U
      <3> HIDE DEF U
      <3> QED  BY <1>1, <1>6, <1>7, Climb
    <2>2. n \in 0 .. n
      BY <1>1
    <2> QED  BY <2>1, <2>2
  <1>9. First(t, n) = Filled(t)
    BY <1>1 DEF First, Filled
  <1>10. Half(p, t, Rehashed(p, t), n)
    BY <1>3, <1>8
  <1> QED  BY <1>9, <1>10, EntriesFilled DEF Half
-----------------------------------------------------------------------------
(***************************************************************************)
(* A table that is sound: it has no places yet, or every entry is in its   *)
(* place and no more than half the places are filled.                      *)
(***************************************************************************)
Sound(p, t) ==
  \/ DOMAIN t = {"size", "used", "v"} /\ t.size = 0 /\ t.used = 0 /\ t.v = <<>>
  \/ /\ Shaped(t) /\ InPlace(p, t)
     /\ t.used = Cardinality(Filled(t)) /\ 2 * t.used <= t.size

\* A table without places has no entries.
LEMMA NoEntries ==
  ASSUME NEW t, t.v = <<>>
  PROVE  Entries(t) = {}
  <1>1. DOMAIN t.v = {}
    BY EmptySeq
  <1> QED  BY <1>1 DEF Entries

\* What the search in a table finds.
LEMMA FoundEntry ==
  ASSUME HashesAreNumbers, NEW p, NEW t, Shaped(t), InPlace(p, t), NEW s \in Text
  PROVE  /\ Found(p, t, s) # Empty => Found(p, t, s) \in Entries(t) /\ Read(p, Found(p, t, s)) = s
         /\ Found(p, t, s) = Empty => \A i \in Filled(t) : Read(p, t.v[i]) # s
         /\ \A i \in Filled(t) : Read(p, t.v[i]) = s => Found(p, t, s) = t.v[i]
  <1>1. t.size \in Nat /\ t.size > 0 /\ TableSize(t.size) /\ Hash(s) \in Nat /\ DOMAIN t.v = 0 .. t.size - 1
    BY DEF Shaped, TableSize, HashesAreNumbers
  <1>2. Found(p, t, s) = EntryAt(t, Place(p, t, s))
    BY <1>1 DEF Found
  <1>3. Found(p, t, s) # Empty => Found(p, t, s) \in Entries(t) /\ Read(p, Found(p, t, s)) = s
    <2> DEFINE ends == {k \in 0 .. t.size - 1 :
                          \/ t.v[Probe(Hash(s), t.size, k)] = Empty
                          \/ Read(p, t.v[Probe(Hash(s), t.size, k)]) = s}
    <2>1. Place(p, t, s) = FirstOf(ends, Hash(s), t.size)
      BY DEF Place
    <2>2. CASE ends = {}
      <3>1. Place(p, t, s) = 0 - 1
        BY <2>1, <2>2 DEF FirstOf
      <3> QED  BY <1>2, <3>1 DEF EntryAt
    <2>3. CASE ends # {}
      <3>1. ends \subseteq Nat /\ ends \subseteq 0 .. t.size - 1
        BY <1>1
      <3>2. PICK k \in ends : \A l \in ends : k <= l
        <4> HIDE DEF ends
        <4> QED  BY <2>3, <3>1, LeastNat
      <3>3. Place(p, t, s) = Probe(Hash(s), t.size, k)
        <4> HIDE DEF ends
        <4> QED  BY <2>1, <3>1, <3>2, FirstEnd
      <3>4. k \in Nat
        BY <3>1
      <3>5. Place(p, t, s) \in 0 .. t.size - 1
        BY <1>1, <3>3, <3>4, ProbeInside
      <3>6. Found(p, t, s) = t.v[Place(p, t, s)]
        BY <1>1, <1>2, <3>5 DEF EntryAt
      <3>7. Found(p, t, s) = Empty \/ Read(p, Found(p, t, s)) = s
        BY <3>2, <3>3, <3>6
      <3> QED  BY <1>1, <3>5, <3>6, <3>7 DEF Entries
    <2> QED  BY <2>2, <2>3
  <1>4. ASSUME NEW i \in Filled(t), Read(p, t.v[i]) = s
        PROVE  Found(p, t, s) = t.v[i] /\ t.v[i] # Empty
    <2>1. Place(p, t, s) = i
      BY <1>4, PlaceOfEntry
    <2>2. i # 0 - 1 /\ t.v[i] # Empty
      BY <1>1 DEF Filled
    <2> QED  BY <1>2, <2>1, <2>2 DEF EntryAt
  <1> QED  BY <1>3, <1>4

\* There is room for one more entry, and the entries stay.
LEMMA RoomyWell ==
  ASSUME HashesAreNumbers, NEW p, NEW t, Sound(p, t)
  PROVE  LET u == Roomy(p, t)
         IN  /\ Shaped(u) /\ InPlace(p, u) /\ u.used = Cardinality(Filled(u))
             /\ 2 * (u.used + 1) <= u.size /\ Entries(u) = Entries(t)
  <1> DEFINE u == Roomy(p, t)
  <1>1. CASE DOMAIN t = {"size", "used", "v"} /\ t.size = 0 /\ t.used = 0 /\ t.v = <<>>
    <2>1. /\ DOMAIN u = {"size", "used", "v"} /\ u.size = InitSize /\ u.used = 0
          /\ u.v = Blanks(InitSize)
      BY <1>1 DEF Roomy
    <2> HIDE DEF u
    <2>2. Shaped(u) /\ InPlace(p, u) /\ Filled(u) = {} /\ Entries(u) = {}
      BY <2>1, SizeFirst, BlankTable
    <2>3. Entries(t) = {}
      BY <1>1, NoEntries
    <2>4. 2 * (u.used + 1) <= u.size
      BY <2>1, InitSizeAssumption
    <2> QED  BY <2>1, <2>2, <2>3, <2>4, FS_EmptySet DEF u
  <1>2. CASE /\ Shaped(t) /\ InPlace(p, t)
             /\ t.used = Cardinality(Filled(t)) /\ 2 * t.used <= t.size
    <2>1. PICK c \in Nat \ {0} : t.size = 4 * c
      BY <1>2 DEF Shaped, TableSize
    <2>2. t.used \in Nat /\ t.size # 0 /\ t.used <= 2 * c
      BY <1>2, <2>1 DEF Shaped
    <2>3. CASE HalfFull(t)
      <3>1. u = Rehashed(p, t)
        BY <2>2, <2>3 DEF Roomy
      <3>2. /\ Shaped(u) /\ InPlace(p, u) /\ u.size = 2 * t.size /\ u.used = t.used
            /\ Cardinality(Filled(u)) = Cardinality(Filled(t)) /\ Entries(u) = Entries(t)
        BY <1>2, <3>1, RehashedWell
      <3> HIDE DEF u
      <3>3. 2 * (u.used + 1) <= u.size
        BY <2>1, <2>2, <3>2
      <3> QED  BY <1>2, <3>2, <3>3 DEF u
    <2>4. CASE ~HalfFull(t)
      <3>1. u = t
        BY <2>2, <2>4 DEF Roomy
      <3>2. t.size \div 2 = 2 * c
        BY <2>1
      <3>3. ~(t.used \div (2 * c) > 0)
        BY <2>4, <3>2 DEF HalfFull
      <3>4. t.used < 2 * c
        BY <2>2, <3>3
      <3>5. 2 * (t.used + 1) <= t.size
        BY <2>1, <2>2, <3>4
      <3> QED  BY <1>2, <3>1, <3>5
    <2> QED  BY <2>3, <2>4
  <1> QED  BY <1>1, <1>2 DEF Sound

\* lookup leaves a sound table: the entry it gives is known or the new one.
LEMMA LookupWell ==
  ASSUME HashesAreNumbers, NEW p, NEW t, Sound(p, t), NEW a \in Addr, a # Empty,
         Read(p, a) \in Text, NEW r \in Lookup(p, t, a)
  PROVE  /\ Sound(p, r.t)
         /\ \/ r.e = Empty /\ Entries(r.t) = Entries(t)
            \/ r.e # Empty /\ r.e \in Entries(t) /\ r.t = t /\ Read(p, r.e) = Read(p, a)
            \/ /\ r.e = a /\ Entries(r.t) = Entries(t) \union {a}
               /\ \A e \in Entries(t) : Read(p, e) # Read(p, a)
  <1> DEFINE s    == Read(p, a)
             room == Roomy(p, t)
             f    == Found(p, t, s)
             with == [room EXCEPT !.v[Free(room, Hash(s))] = a, !.used = @ + 1]
  <1>1. /\ Shaped(room) /\ InPlace(p, room) /\ room.used = Cardinality(Filled(room))
        /\ 2 * (room.used + 1) <= room.size /\ Entries(room) = Entries(t)
    BY RoomyWell
  <1>2. r \in Entered(t, room, s, a, f)
    BY DEF Lookup
  <1>3. room.used \in Nat /\ room.size \in Nat
    BY <1>1 DEF Shaped
  <1>4. f # Empty => f \in Entries(t) /\ Read(p, f) = s
    <2>1. CASE t.size = 0
      BY <2>1 DEF Found
    <2>2. CASE t.size # 0
      <3>1. Shaped(t) /\ InPlace(p, t)
        BY <2>2 DEF Sound
      <3> QED  BY <3>1, FoundEntry
    <2> QED  BY <2>1, <2>2
  <1>5. f = Empty => \A e \in Entries(t) : Read(p, e) # s
    <2> SUFFICES ASSUME f = Empty, NEW e \in Entries(t), Read(p, e) = s PROVE FALSE
      OBVIOUS
    <2>2. CASE DOMAIN t = {"size", "used", "v"} /\ t.size = 0 /\ t.used = 0 /\ t.v = <<>>
      BY <2>2, NoEntries
    <2>3. CASE Shaped(t) /\ InPlace(p, t)
      <3>1. PICK j \in Filled(t) : t.v[j] = e
        BY <2>3, EntriesFilled
      <3> HIDE DEF room
      <3> QED  BY <2>3, <3>1, FoundEntry
    <2> QED  BY <2>2, <2>3 DEF Sound
  <1>9. f = Empty => \A i \in Filled(room) : Read(p, room.v[i]) # s
    <2>1. \A i \in Filled(room) : room.v[i] \in Entries(t)
      BY <1>1, EntriesFilled
    <2> QED  BY <1>5, <2>1
  <1>6. CASE f # Empty
    <2>1. r = [t |-> t, e |-> f]
      BY <1>2, <1>6 DEF Entered
    <2> QED  BY <1>4, <1>6, <2>1
  <1>7. CASE f = Empty /\ r \in {[t |-> t, e |-> Empty], [t |-> room, e |-> Empty]}
    <2>1. r.e = Empty /\ (r.t = t \/ r.t = room)
      BY <1>7
    <2>2. Sound(p, room)
      <3> HIDE DEF room
      <3>1. 2 * room.used <= room.size
        BY <1>1, <1>3
      <3> QED  BY <1>1, <3>1 DEF Sound
    <2> QED  BY <1>1, <2>1, <2>2
  <1>8. CASE f = Empty /\ r = [t |-> with, e |-> a]
    <2>1. Cardinality(Filled(room)) < room.size
      BY <1>1, <1>3
    <2> HIDE DEF room
    <2>2. /\ DOMAIN with = {"size", "used", "v"} /\ with.size = room.size
          /\ with.used = room.used + 1 /\ with.v = [room.v EXCEPT ![Free(room, Hash(s))] = a]
      BY <1>1 DEF Shaped
    <2> HIDE DEF with
    <2>3. Differs(with, room, Free(room, Hash(s)), a)
      BY <1>3, <2>2 DEF Differs
    <2>4. /\ Shaped(with) /\ InPlace(p, with)
          /\ Cardinality(Filled(with)) = Cardinality(Filled(room)) + 1
          /\ Entries(with) = Entries(room) \union {a}
      BY <1>1, <1>8, <1>9, <2>1, <2>3, EntryPut
    <2>5. Sound(p, with)
      BY <1>1, <2>2, <2>4 DEF Sound
    <2> QED  BY <1>1, <1>5, <1>8, <2>4, <2>5
  <1> QED  BY <1>2, <1>6, <1>7, <1>8 DEF Entered

\* A table stays sound as long as its entries read the same.
LEMMA SoundStays ==
  ASSUME HashesAreNumbers, NEW p, NEW q, NEW t, Sound(p, t),
         \A e \in Entries(t) : Read(q, e) = Read(p, e)
  PROVE  Sound(q, t)
  <1>1. CASE DOMAIN t = {"size", "used", "v"} /\ t.size = 0 /\ t.used = 0 /\ t.v = <<>>
    BY <1>1 DEF Sound
  <1>2. CASE Shaped(t) /\ InPlace(p, t) /\ t.used = Cardinality(Filled(t)) /\ 2 * t.used <= t.size
    <2> DEFINE n == t.size
    <2>1. n \in Nat /\ TableSize(n)
      BY <1>2 DEF Shaped
    <2>2. \A i \in Filled(t) : Read(q, t.v[i]) = Read(p, t.v[i])
      BY <1>2, EntriesFilled
    <2>3. InPlace(q, t)
      <3> SUFFICES ASSUME NEW i \in Filled(t)
                   PROVE  Read(q, t.v[i]) \in Text /\ OnWay(q, t, Read(q, t.v[i]), i)
        BY DEF InPlace
      <3> DEFINE s == Read(p, t.v[i])
      <3>1. s \in Text /\ Read(q, t.v[i]) = s /\ OnWay(p, t, s, i)
        BY <1>2, <2>2 DEF InPlace
      <3> HIDE DEF s
      <3>2. PICK k \in 0 .. n - 1 :
              /\ Probe(Hash(s), n, k) = i
              /\ \A l \in 0 .. k - 1 : /\ t.v[Probe(Hash(s), n, l)] # Empty
                                       /\ Read(p, t.v[Probe(Hash(s), n, l)]) # s
        BY <3>1 DEF OnWay
      <3>3. ASSUME NEW l \in 0 .. k - 1 PROVE Read(q, t.v[Probe(Hash(s), n, l)]) # s
        <4> DEFINE j == Probe(Hash(s), n, l)
        <4>1. CASE j \in 0 .. n - 1
          <5>1. j \in Filled(t)
            BY <3>2, <4>1 DEF Filled
          <5> QED  BY <2>2, <3>2, <5>1
        <4>2. CASE j \notin 0 .. n - 1
          <5>1. l \in Nat /\ Hash(s) \in Nat
            BY <2>1, <3>1 DEF HashesAreNumbers
          <5> QED  BY <2>1, <3>1, <4>2, <5>1, ProbeInside
        <4> QED  BY <4>1, <4>2
      <3> QED  BY <3>1, <3>2, <3>3 DEF OnWay
    <2> QED  BY <1>2, <2>3 DEF Sound
  <1> QED  BY <1>1, <1>2 DEF Sound

\* hashTableClear leaves a sound table without entries.
LEMMA SoundCleared ==
  ASSUME NEW p, NEW q, NEW t, Sound(p, t)
  PROVE  Sound(q, TableCleared(t)) /\ Entries(TableCleared(t)) = {}
  <1> DEFINE u == TableCleared(t)
  <1>1. CASE DOMAIN t = {"size", "used", "v"} /\ t.size = 0 /\ t.used = 0 /\ t.v = <<>>
    <2>1. DOMAIN t.v = {}
      BY <1>1, EmptySeq
    <2>2. /\ DOMAIN u = {"size", "used", "v"} /\ u.size = 0 /\ u.used = 0
          /\ u.v = [i \in DOMAIN t.v |-> Empty]
      BY <1>1 DEF TableCleared
    <2>3. u.v = <<>>
      BY <2>1, <2>2, EmptySeq, SMT
    <2> HIDE DEF u
    <2> QED  BY <2>2, <2>3, NoEntries DEF Sound, u
  <1>2. CASE Shaped(t)
    <2>1. DOMAIN t.v = 0 .. t.size - 1
      BY <1>2 DEF Shaped
    <2>2. /\ DOMAIN u = {"size", "used", "v"} /\ u.size = t.size /\ u.used = 0
          /\ u.v = Blanks(t.size)
      BY <1>2, <2>1 DEF TableCleared, Shaped, Blanks
    <2> HIDE DEF u
    <2>3. t.size \in Nat /\ TableSize(t.size)
      BY <1>2 DEF Shaped
    <2>4. Shaped(u) /\ InPlace(q, u) /\ Filled(u) = {} /\ Entries(u) = {}
      BY <2>2, <2>3, BlankTable
    <2> QED  BY <2>2, <2>3, <2>4, FS_EmptySet DEF Sound, u
  <1> QED  BY <1>1, <1>2 DEF Sound

\* In a sound table every entry is found, and every search ends.
LEMMA SoundFinds ==
  ASSUME HashesAreNumbers, NEW p, NEW t, Sound(p, t)
  PROVE  /\ \A e \in Entries(t) : Found(p, t, Read(p, e)) = e
         /\ t.used = Cardinality(Entries(t)) /\ 2 * t.used <= t.size
         /\ t.size > 0 => \A h \in Nat :
              \E k \in 0 .. t.size - 1 : t.v[Probe(h, t.size, k)] = Empty
  <1>1. CASE DOMAIN t = {"size", "used", "v"} /\ t.size = 0 /\ t.used = 0 /\ t.v = <<>>
    <2>1. Entries(t) = {}
      BY <1>1, NoEntries
    <2> QED  BY <1>1, <2>1, FS_EmptySet
  <1>2. CASE Shaped(t) /\ InPlace(p, t) /\ t.used = Cardinality(Filled(t)) /\ 2 * t.used <= t.size
    <2>1. \A e \in Entries(t) : Found(p, t, Read(p, e)) = e
      <3> SUFFICES ASSUME NEW e \in Entries(t) PROVE Found(p, t, Read(p, e)) = e
        OBVIOUS
      <3>1. PICK i \in Filled(t) : t.v[i] = e
        BY <1>2, EntriesFilled
      <3>2. Read(p, e) \in Text
        BY <1>2, <3>1 DEF InPlace
      <3> QED  BY <1>2, <3>1, <3>2, FoundEntry
    <2>2. Cardinality(Entries(t)) = Cardinality(Filled(t))
      <3> DEFINE f == [i \in Filled(t) |-> t.v[i]]
      <3>1. \A i, j \in Filled(t) : f[i] = f[j] => i = j
        BY <1>2, EntriesDiffer
      <3>2. Entries(t) = {t.v[i] : i \in Filled(t)} /\ IsFiniteSet(Filled(t))
        BY <1>2, EntriesFilled
      <3>3. f \in Surjection(Filled(t), Entries(t)) /\ f \in Injection(Filled(t), Entries(t))
        BY <3>1, <3>2 DEF Surjection, Injection, IsInjective
      <3> QED  BY <3>2, <3>3, FS_Surjection
    <2>3. ASSUME NEW h \in Nat PROVE \E k \in 0 .. t.size - 1 : t.v[Probe(h, t.size, k)] = Empty
      <3>1. Cardinality(Filled(t)) < t.size
        BY <1>2, EntriesFilled DEF Shaped, TableSize
      <3> QED  BY <1>2, <3>1, FreePlace
    <2> QED  BY <1>2, <2>1, <2>2, <2>3
  <1> QED  BY <1>1, <1>2 DEF Sound

-----------------------------------------------------------------------------
(***************************************************************************)
(* The names in the pool.  An address is held when a finished string goes  *)
(* on from there to a closing 0: what it reads as cannot change.           *)
(***************************************************************************)
Named == [block : Block, at : Nat]

Held(K, e) ==
  /\ e \in Named
  /\ \E k \in K : /\ k.block = e.block /\ k.at <= e.at
                  /\ \E j \in 1 .. Len(k.text) : e.at < k.at + j /\ k.text[j] = Zero

Zeros(p, e) == {i \in e.at + 1 .. Len(p.heap[e.block]) : p.heap[e.block][i] = Zero}

\* A name ends before the first 0.
LEMMA ReadTo ==
  ASSUME NEW p, NEW e \in Named, NEW z \in Zeros(p, e), \A j \in Zeros(p, e) : z <= j
  PROVE  Read(p, e) = SubSeq(p.heap[e.block], e.at + 1, z - 1)
  <1> DEFINE Z == Zeros(p, e)
  <1>1. Z # {}
    OBVIOUS
  <1>2. (CHOOSE i \in Z : \A j \in Z : i <= j) = z
    <2>1. Z \subseteq Int
      BY DEF Zeros, Named
    <2>2. \A i \in Z : (\A j \in Z : i <= j) => i = z
      BY <2>1
    <2> HIDE DEF Z
    <2> QED  BY <2>2
  <1> HIDE DEF Z
  <1>3. Read(p, e) = IF Z = {} THEN <<Junk>>
                     ELSE SubSeq(p.heap[e.block], e.at + 1, (CHOOSE i \in Z : \A j \in Z : i <= j) - 1)
    BY Zenon DEF Read, Zeros, Z
  <1> QED  BY <1>1, <1>2, <1>3

\* There is a first 0, if there is one.
LEMMA FirstZero ==
  ASSUME NEW p, NEW e \in Named, Zeros(p, e) # {}
  PROVE  \E z \in Zeros(p, e) : \A j \in Zeros(p, e) : z <= j
  <1>1. Zeros(p, e) \subseteq Nat
    BY DEF Zeros, Named
  <1> QED  BY <1>1, LeastNat

\* What an address reads as is a text.
LEMMA ReadText ==
  ASSUME NEW p, p.heap \in [Block -> Text], NEW e \in Named
  PROVE  Read(p, e) \in Text
  <1> DEFINE s == p.heap[e.block]
  <1>1. s \in Seq(Char \union {Junk}) /\ Len(s) \in Nat /\ e.at \in Nat
    BY LenProperties DEF Text, Named
  <1>2. CASE Zeros(p, e) = {}
    <2>1. Read(p, e) = <<Junk>>
      BY <1>2, Zenon DEF Read, Zeros
    <2> QED  BY <2>1 DEF Text
  <1>3. CASE Zeros(p, e) # {}
    <2>1. PICK z \in Zeros(p, e) : \A j \in Zeros(p, e) : z <= j
      BY <1>3, FirstZero
    <2>2. Read(p, e) = SubSeq(s, e.at + 1, z - 1)
      BY <2>1, ReadTo
    <2>3. z \in e.at + 1 .. Len(s)
      BY DEF Zeros
    <2> HIDE DEF s
    <2>4. \A i \in e.at + 1 .. z - 1 : s[i] \in Char \union {Junk}
      BY <1>1, <2>3, ElementOfSeq
    <2>5. e.at + 1 \in Int /\ z - 1 \in Int
      BY <1>1, <2>3
    <2> QED  BY <2>2, <2>4, <2>5, SubSeqProperties DEF Text
  <1> QED  BY <1>2, <1>3

\* Where a finished string ends, in a pool in which it stands.
LEMMA HeldZero ==
  ASSUME NEW p, NEW K, Good(p, K), NEW e \in Named, NEW k \in K, k.block = e.block, k.at <= e.at,
         NEW j \in 1 .. Len(k.text), e.at < k.at + j, k.text[j] = Zero
  PROVE  \E z \in Zeros(p, e) :
           /\ \A i \in Zeros(p, e) : z <= i
           /\ z - k.at \in 1 .. j /\ k.text[z - k.at] = Zero
           /\ \A i \in e.at + 1 .. z - 1 : i - k.at \in 1 .. j /\ k.text[i - k.at] # Zero
           /\ Read(p, e) = SubSeq(p.heap[e.block], e.at + 1, z - 1)
  <1> DEFINE s == p.heap[e.block]
  <1>1. /\ k.at \in Nat /\ e.at \in Nat /\ k.text \in Seq(Char \union {Junk}) /\ Len(k.text) \in Nat
        /\ s \in Seq(Char \union {Junk}) /\ Len(s) \in Nat
    BY LenProperties DEF Good, Typed, Strings, Pools, Text, Named
  <1>2. \A i \in 1 .. Len(k.text) : k.at + i <= Len(s) /\ s[k.at + i] = k.text[i]
    BY DEF Good, Stay
  <1> HIDE DEF s
  <1>3. k.at + j \in Zeros(p, e)
    <2>1. k.at + j \in e.at + 1 .. Len(s) /\ s[k.at + j] = Zero
      BY <1>1, <1>2
    <2> QED  BY <2>1 DEF Zeros, s
  <1>4. PICK z \in Zeros(p, e) : \A i \in Zeros(p, e) : z <= i
    BY <1>3, FirstZero
  <1>5. z \in e.at + 1 .. Len(s) /\ s[z] = Zero
    BY <1>4 DEF Zeros, s
  <1>6. z <= k.at + j
    BY <1>3, <1>4
  <1>7. z - k.at \in 1 .. j
    BY <1>1, <1>5, <1>6
  <1>8. k.text[z - k.at] = Zero
    <2>1. z - k.at \in 1 .. Len(k.text) /\ k.at + (z - k.at) = z
      BY <1>1, <1>5, <1>7
    <2> QED  BY <1>2, <1>5, <2>1
  <1>9. ASSUME NEW i \in e.at + 1 .. z - 1
        PROVE  i - k.at \in 1 .. j /\ k.text[i - k.at] # Zero
    <2>1. i - k.at \in 1 .. j /\ i - k.at \in 1 .. Len(k.text) /\ k.at + (i - k.at) = i
      BY <1>1, <1>5, <1>6
    <2>2. i \in e.at + 1 .. Len(s) /\ ~(z <= i)
      BY <1>1, <1>5
    <2>3. s[i] # Zero
      BY <1>4, <2>2 DEF Zeros, s
    <2> QED  BY <1>2, <2>1, <2>3
  <1>10. Read(p, e) = SubSeq(p.heap[e.block], e.at + 1, z - 1)
    BY <1>4, ReadTo
  <1> QED  BY <1>4, <1>7, <1>8, <1>9, <1>10

\* The part of a sequence from after a to before z.
LEMMA PartOf ==
  ASSUME NEW C, NEW s, NEW a \in Nat, NEW z \in Int, a < z, \A i \in a + 1 .. z - 1 : s[i] \in C
  PROVE  /\ SubSeq(s, a + 1, z - 1) \in Seq(C)
         /\ Len(SubSeq(s, a + 1, z - 1)) = (z - 1) - (a + 1) + 1
         /\ \A i \in 1 .. (z - 1) - (a + 1) + 1 : SubSeq(s, a + 1, z - 1)[i] = s[a + 1 + i - 1]
  <1> DEFINE b == a + 1
             c == z - 1
  <1>1. b \in Int /\ c \in Int /\ (b <= c \/ b = c + 1) /\ (IF b <= c THEN c - b + 1 ELSE 0) = c - b + 1
    OBVIOUS
  <1>2. \A i \in b .. c : s[i] \in C
    OBVIOUS
  <1> HIDE DEF b, c
  <1>3. /\ SubSeq(s, b, c) \in Seq(C) /\ Len(SubSeq(s, b, c)) = IF b <= c THEN c - b + 1 ELSE 0
        /\ \A i \in 1 .. c - b + 1 : SubSeq(s, b, c)[i] = s[b + i - 1]
    BY <1>1, <1>2, SubSeqProperties
  <1>4. /\ SubSeq(s, b, c) \in Seq(C) /\ Len(SubSeq(s, b, c)) = c - b + 1
        /\ \A i \in 1 .. c - b + 1 : SubSeq(s, b, c)[i] = s[b + i - 1]
    BY <1>1, <1>3
  <1> QED  BY <1>4, Zenon DEF b, c

\* A name that is held reads the same in every pool in which it stands.
LEMMA ReadStays ==
  ASSUME NEW p, NEW K, Good(p, K), NEW q, NEW L, Good(q, L), K \subseteq L, NEW e, Held(K, e)
  PROVE  Read(q, e) = Read(p, e)
  <1>0. PICK k \in K :
          /\ k.block = e.block /\ k.at <= e.at
          /\ \E j \in 1 .. Len(k.text) : e.at < k.at + j /\ k.text[j] = Zero
    BY DEF Held
  <1>1. PICK j \in 1 .. Len(k.text) :
          k.block = e.block /\ k.at <= e.at /\ e.at < k.at + j /\ k.text[j] = Zero
    BY <1>0
  <1>2. e \in Named /\ k \in L
    BY DEF Held
  <1>3. PICK z \in Zeros(p, e) :
           /\ z - k.at \in 1 .. j /\ k.text[z - k.at] = Zero
           /\ \A i \in e.at + 1 .. z - 1 : i - k.at \in 1 .. j /\ k.text[i - k.at] # Zero
           /\ Read(p, e) = SubSeq(p.heap[e.block], e.at + 1, z - 1)
    BY <1>1, <1>2, HeldZero
  <1>4. PICK y \in Zeros(q, e) :
           /\ y - k.at \in 1 .. j /\ k.text[y - k.at] = Zero
           /\ \A i \in e.at + 1 .. y - 1 : i - k.at \in 1 .. j /\ k.text[i - k.at] # Zero
           /\ Read(q, e) = SubSeq(q.heap[e.block], e.at + 1, y - 1)
    BY <1>1, <1>2, HeldZero
  <1>5. /\ z \in Int /\ y \in Int /\ z > e.at /\ y > e.at /\ k.at \in Nat /\ e.at \in Nat
        /\ Len(k.text) \in Nat
    BY <1>2, LenProperties DEF Zeros, Named, Good, Typed, Strings, Text
  <1>6. z = y
    <2>1. ~(z < y)
      <3>1. z < y => z \in e.at + 1 .. y - 1
        BY <1>5
      <3> QED  BY <1>3, <1>4, <3>1
    <2>2. ~(y < z)
      <3>1. y < z => y \in e.at + 1 .. z - 1
        BY <1>5
      <3> QED  BY <1>3, <1>4, <3>1
    <2> QED  BY <1>5, <2>1, <2>2
  <1> DEFINE s == p.heap[e.block]
             t == q.heap[e.block]
             C == Char \union {Junk}
  <1>7. ASSUME NEW i \in e.at + 1 .. z - 1 PROVE s[i] = t[i] /\ s[i] \in C
    <2>1. i - k.at \in 1 .. Len(k.text) /\ k.at + (i - k.at) = i
      BY <1>3, <1>5
    <2>2. s[i] = k.text[i - k.at] /\ t[i] = k.text[i - k.at]
      BY <1>1, <1>2, <2>1 DEF Good, Stay
    <2>3. k.text[i - k.at] \in C
      BY <2>1, ElementOfSeq DEF Good, Typed, Strings, Text
    <2> QED  BY <2>2, <2>3
  <1> HIDE DEF s, t, C
  <1> DEFINE u == SubSeq(s, e.at + 1, z - 1)
             v == SubSeq(t, e.at + 1, z - 1)
             n == (z - 1) - (e.at + 1) + 1
  <1>8. e.at \in Nat /\ z \in Int /\ e.at < z /\ n \in Nat
    BY <1>5
  <1>9. /\ u \in Seq(C) /\ Len(u) = n /\ \A i \in 1 .. n : u[i] = s[e.at + 1 + i - 1]
    <2>1. \A i \in e.at + 1 .. z - 1 : s[i] \in C
      BY <1>7
    <2> DEFINE a == e.at
    <2>2. a \in Nat /\ a < z /\ z \in Int /\ \A i \in a + 1 .. z - 1 : s[i] \in C
      BY <1>8, <2>1
    <2> HIDE DEF a
    <2>3. /\ SubSeq(s, a + 1, z - 1) \in Seq(C)
          /\ Len(SubSeq(s, a + 1, z - 1)) = (z - 1) - (a + 1) + 1
          /\ \A i \in 1 .. (z - 1) - (a + 1) + 1 : SubSeq(s, a + 1, z - 1)[i] = s[a + 1 + i - 1]
      BY <2>2, PartOf
    <2> QED  BY <2>3, Zenon DEF a
  <1>10. /\ v \in Seq(C) /\ Len(v) = n /\ \A i \in 1 .. n : v[i] = t[e.at + 1 + i - 1]
    <2>1. \A i \in e.at + 1 .. z - 1 : t[i] \in C
      BY <1>7
    <2> DEFINE a == e.at
    <2>2. a \in Nat /\ a < z /\ z \in Int /\ \A i \in a + 1 .. z - 1 : t[i] \in C
      BY <1>8, <2>1
    <2> HIDE DEF a
    <2>3. /\ SubSeq(t, a + 1, z - 1) \in Seq(C)
          /\ Len(SubSeq(t, a + 1, z - 1)) = (z - 1) - (a + 1) + 1
          /\ \A i \in 1 .. (z - 1) - (a + 1) + 1 : SubSeq(t, a + 1, z - 1)[i] = t[a + 1 + i - 1]
      BY <2>2, PartOf
    <2> QED  BY <2>3, Zenon DEF a
  <1> HIDE DEF u, v
  <1>11. \A i \in 1 .. n : u[i] = v[i]
    <2>1. \A i \in 1 .. n : e.at + 1 + i - 1 \in e.at + 1 .. z - 1
      BY <1>5
    <2> QED  BY <1>7, <1>9, <1>10, <2>1
  <1>12. u = v
    BY <1>9, <1>10, <1>11, SeqEqual
  <1> QED  BY <1>3, <1>4, <1>6, <1>12 DEF s, t, u, v

\* The rest of a name, after some of its characters, is held with it.
LEMMA HeldInside ==
  ASSUME NEW p, NEW K, Good(p, K), NEW e, Held(K, e), NEW c \in 1 .. Len(Read(p, e))
  PROVE  Held(K, [e EXCEPT !.at = @ + c])
  <1>0. PICK k \in K :
          /\ k.block = e.block /\ k.at <= e.at
          /\ \E j \in 1 .. Len(k.text) : e.at < k.at + j /\ k.text[j] = Zero
    BY DEF Held
  <1>1. PICK j \in 1 .. Len(k.text) : e.at < k.at + j /\ k.text[j] = Zero
    BY <1>0
  <1>2. e \in Named
    BY DEF Held
  <1>3. PICK z \in Zeros(p, e) :
           /\ z - k.at \in 1 .. j /\ k.text[z - k.at] = Zero
           /\ \A i \in e.at + 1 .. z - 1 : i - k.at \in 1 .. j /\ k.text[i - k.at] # Zero
           /\ Read(p, e) = SubSeq(p.heap[e.block], e.at + 1, z - 1)
    BY <1>0, <1>1, <1>2, HeldZero
  <1>4. /\ z \in e.at + 1 .. Len(p.heap[e.block]) /\ e.at \in Nat /\ k.at \in Nat
        /\ Len(p.heap[e.block]) \in Nat /\ p.heap[e.block] \in Seq(Char \union {Junk})
        /\ Len(k.text) \in Nat
    BY <1>2, LenProperties DEF Zeros, Named, Good, Typed, Pools, Strings, Text
  <1>5. Len(Read(p, e)) = z - 1 - e.at
    <2> DEFINE s == p.heap[e.block]
    <2> HIDE DEF s
    <2>1. \A i \in e.at + 1 .. z - 1 : s[i] \in Char \union {Junk}
      BY <1>4, ElementOfSeq DEF s
    <2>2. e.at + 1 \in Int /\ z - 1 \in Int
      BY <1>4
    <2>3. Len(SubSeq(s, e.at + 1, z - 1)) = IF e.at + 1 <= z - 1 THEN (z - 1) - (e.at + 1) + 1 ELSE 0
      BY <2>1, <2>2, SubSeqProperties
    <2>4. Read(p, e) = SubSeq(s, e.at + 1, z - 1)
      BY <1>3 DEF s
    <2>5. z \in Int /\ e.at + 1 <= z /\ e.at \in Nat
      BY <1>4
    <2>6. (IF e.at + 1 <= z - 1 THEN (z - 1) - (e.at + 1) + 1 ELSE 0) = z - 1 - e.at
      BY <2>5
    <2> QED  BY <2>3, <2>4, <2>6
  <1> DEFINE f == [e EXCEPT !.at = @ + c]
  <1>6. f \in Named /\ f.block = e.block /\ f.at = e.at + c
    BY <1>2, <1>4, <1>5 DEF Named
  <1> HIDE DEF f
  <1>7. z - k.at \in 1 .. Len(k.text) /\ f.at < k.at + (z - k.at) /\ k.at <= f.at
    <2> DEFINE n == Len(Read(p, e))
    <2>1. n = z - 1 - e.at /\ c \in 1 .. n
      BY <1>5
    <2> HIDE DEF n
    <2>2. z \in Int /\ c \in Int /\ e.at + c < z
      BY <1>4, <2>1
    <2>3. z - k.at \in 1 .. Len(k.text)
      BY <1>3, <1>4
    <2>4. e.at \in Nat /\ k.at \in Nat /\ k.at <= e.at
      BY <1>0, <1>4
    <2>5. f.at < k.at + (z - k.at) /\ k.at <= f.at
      BY <1>6, <2>1, <2>2, <2>4
    <2> QED  BY <2>3, <2>5
  <1> QED  BY <1>0, <1>3, <1>6, <1>7 DEF Held, f

-----------------------------------------------------------------------------
(***************************************************************************)
(* The names and their tables as they stand between two steps of a call.   *)
(* Every entry but perhaps the new one, loose, is held.  The character     *)
(* before the name of an attribute is no part of a finished string, so     *)
(* that a mark may be put there.                                           *)
(***************************************************************************)
TableNames == {"types", "attributes", "prefixes"}

Apart(K, e) ==
  \A k \in K : k.block = e.block => e.at <= k.at \/ e.at > k.at + Len(k.text)

Well(p, K, T, M, loose) ==
  /\ Good(p, K) /\ DOMAIN T = TableNames /\ M \subseteq Named
  /\ \A x \in TableNames : /\ Sound(p, T[x])
                           /\ \A e \in Entries(T[x]) \ {loose} : Held(K, e)
  /\ \A e \in (Entries(T["attributes"]) \union M) \ {loose} : Held(K, e) /\ Apart(K, e)

Parts == {"pool", "kept", "tables", "prefixOf", "answer", "entry", "marked"}

Steady(st) ==
  DOMAIN st = Parts /\ Well(st.pool, st.kept, st.tables, st.marked, Empty)

\* The step from st to q lost no attribute and marked none.
Onwards(st, q) ==
  /\ Steady(q) /\ q.marked = st.marked
  /\ Entries(st.tables["attributes"]) \subseteq Entries(q.tables["attributes"])

\* No name that is held is empty.
LEMMA NotEmpty ==
  ASSUME NEW e \in Named
  PROVE  e # Empty /\ e \in Addr /\ e.block \in Block /\ e.at \in Nat
  BY BlockAssumption DEF Named, Empty, Addr

\* No entry is the empty one, so that a steady state has no loose entry.
LEMMA SteadyHeld ==
  ASSUME NEW st, Steady(st)
  PROVE  /\ Good(st.pool, st.kept) /\ DOMAIN st.tables = TableNames
         /\ \A x \in TableNames : /\ Sound(st.pool, st.tables[x])
                                  /\ \A e \in Entries(st.tables[x]) : Held(st.kept, e)
         /\ \A e \in Entries(st.tables["attributes"]) : Held(st.kept, e) /\ Apart(st.kept, e)
         /\ st.marked \subseteq Named
         /\ \A e \in st.marked : Held(st.kept, e) /\ Apart(st.kept, e)
  <1>1. \A t : Empty \notin Entries(t)
    BY DEF Entries
  <1>2. st.marked \subseteq Named /\ Empty \notin st.marked
    BY NotEmpty DEF Steady, Well
  <1> QED  BY <1>1, <1>2 DEF Steady, Well

\* What is changed elsewhere than in the finished strings leaves all well.
LEMMA WellElsewhere ==
  ASSUME HashesAreNumbers, NEW p, NEW K, NEW T, NEW M, NEW a, Well(p, K, T, M, a),
         NEW q, Good(q, K), \A x \in TableNames : a \notin Entries(T[x])
  PROVE  Well(q, K, T, M, a)
  <1>1. ASSUME NEW x \in TableNames PROVE Sound(q, T[x])
    <2>1. \A e \in Entries(T[x]) : Held(K, e)
      BY DEF Well
    <2>2. \A e \in Entries(T[x]) : Read(q, e) = Read(p, e)
      BY <2>1, ReadStays DEF Well
    <2> QED  BY <2>2, SoundStays DEF Well
  <1> QED  BY <1>1 DEF Well

-----------------------------------------------------------------------------
\* What is copied when a block is taken or made larger is as long as before.
LEMMA GrownLength ==
  ASSUME NEW p, NEW K, Good(p, K), p.ok, NEW q \in Grown(p), q.ok
  PROVE  q.ptr - q.start = p.ptr - p.start
  <1>1. p.start \in Nat /\ p.ptr \in Nat /\ DOMAIN p = {"heap", "blocks", "freeBlocks", "cur", "start", "ptr", "ok"}
    BY DEF Good, Typed, Pools
  <1>2. \A b, h, bs, fs : Moved(p, b, h, bs, fs).start = 0 /\ Moved(p, b, h, bs, fs).ptr = p.ptr - p.start
    BY DEF Moved
  <1>3. Failed(p).ok = FALSE /\ [Failed(p) EXCEPT !.blocks = <<>>].ok = FALSE
    BY <1>1 DEF Failed
  <1>4. \E b, h, bs, fs : q = Moved(p, b, h, bs, fs)
    <2>1. CASE q \in {Reused(p)}
      BY <2>1, Zenon DEF Reused
    <2>2. CASE q \in Enlarged(p)
      BY <1>3, <2>2 DEF Enlarged
    <2>3. CASE q \in Renewed(p)
      BY <1>3, <2>3 DEF Renewed
    <2> QED  BY <2>1, <2>2, <2>3 DEF Grown
  <1> QED  BY <1>1, <1>2, <1>4

\* poolAppendChar: the character stands at the end of the string.
LEMMA AppendedGood ==
  ASSUME NEW p, NEW K, Good(p, K), p.ok, NEW c \in Char \union {Junk}, NEW q \in Appended(p, c)
  PROVE  /\ Good(q, K)
         /\ q.ok => /\ q.cur \in Block /\ q.heap[q.cur][q.ptr] = c
                    /\ q.ptr - q.start = p.ptr - p.start + 1
  <1>1. ASSUME NEW r, Good(r, K), r.ptr < End(r)
        PROVE  LET w == Written(r, c)
               IN  /\ Good(w, K) /\ w.ok = r.ok /\ w.cur \in Block /\ w.heap[w.cur][w.ptr] = c
                   /\ w.ptr - w.start = r.ptr - r.start + 1
    <2> DEFINE w == Written(r, c)
    <2>1. /\ r.cur \in Block \union {None} /\ r.start \in Nat /\ r.ptr \in Nat
          /\ r.heap \in [Block -> Text]
      BY <1>1 DEF Good, Typed, Pools
    <2>2. r.cur \in Block /\ r.ptr + 1 \in 1 .. Len(r.heap[r.cur])
      BY <1>1, <2>1, LenProperties DEF End, Text
    <2>3. DOMAIN r.heap[r.cur] = 1 .. Len(r.heap[r.cur])
      BY <2>1, <2>2, LenProperties DEF Text
    <2>4. /\ w.heap = [r.heap EXCEPT ![r.cur] = [r.heap[r.cur] EXCEPT ![r.ptr + 1] = c]]
          /\ w.cur = r.cur /\ w.start = r.start /\ w.ptr = r.ptr + 1 /\ w.ok = r.ok
      BY DEF Written, Rewritten
    <2>5. Good(w, K)
      BY <1>1, WrittenGood
    <2> HIDE DEF w
    <2>6. w.heap[w.cur][w.ptr] = c
      BY <2>1, <2>2, <2>3, <2>4
    <2>7. w.ptr - w.start = r.ptr - r.start + 1
      BY <2>1, <2>4
    <2> QED  BY <2>2, <2>4, <2>5, <2>6, <2>7 DEF w
  <1>2. CASE p.ptr # End(p)
    <2>1. p.ptr < End(p)
      BY <1>2 DEF Good, Typed, Pools, End, Text
    <2>2. q = Written(p, c)
      BY <1>2 DEF Appended
    <2> QED  BY <1>1, <2>1, <2>2
  <1>3. CASE p.ptr = End(p)
    <2>1. PICK r \in Grown(p) : q = IF r.ok THEN Written(r, c) ELSE r
      BY <1>3 DEF Appended
    <2>2. Good(r, K) /\ (r.ok => r.ptr < End(r))
      BY <1>3, <2>1, GrownGood
    <2>3. CASE r.ok
      <3>1. r.ptr - r.start = p.ptr - p.start
        BY <2>1, <2>3, GrownLength
      <3> QED  BY <1>1, <2>1, <2>2, <2>3, <3>1
    <2>4. CASE ~r.ok
      BY <2>1, <2>2, <2>4
    <2> QED  BY <2>3, <2>4
  <1> QED  BY <1>2, <1>3

\* f is what the recursion of Stored defines, up to m.
StoreTo(f, st, s, m) ==
  f = [i \in 0 .. m |-> IF i = 0 THEN {st.pool}
                        ELSE UNION {IF p.ok THEN Appended(p, s[i]) ELSE {p} : p \in f[i - 1]}]

\* A character more, and the state with the pool p.
OneChar(p, c)  == IF p.ok THEN Appended(p, c) ELSE {p}
StoredIn(st, p) == [st EXCEPT !.pool = p, !.answer = IF p.ok THEN "ok" ELSE "nomemory"]

\* What every character preserves holds of all the pools Stored may leave.
LEMMA StoredReach ==
  ASSUME NEW st, NEW s, Len(s) \in Nat, NEW W, st.pool \in W[0],
         \A i \in 1 .. Len(s) : \A p \in W[i - 1] : OneChar(p, s[i]) \subseteq W[i],
         NEW q \in Stored(st, s)
  PROVE  \E p \in W[Len(s)] : q = StoredIn(st, p)
  <1> DEFINE n == Len(s)
             step(S, i) == UNION {IF p.ok THEN Appended(p, s[i]) ELSE {p} : p \in S}
  <1>1. n \in Nat
    OBVIOUS
  <1>2. \E f : StoreTo(f, st, s, n)
    <2> DEFINE T == {i \in 0 .. n : \E f : StoreTo(f, st, s, i)}
    <2>1. 0 \in T
      <3> DEFINE g == [i \in 0 .. 0 |-> {st.pool}]
      <3>1. StoreTo(g, st, s, 0)
        BY DEF StoreTo
      <3> QED  BY <1>1, <3>1
    <2>2. ASSUME NEW i \in 1 .. n, i - 1 \in T PROVE i \in T
      <3>1. PICK f : StoreTo(f, st, s, i - 1)
        BY <2>2
      <3> DEFINE g == [j \in 0 .. i |-> IF j = i THEN step(f[i - 1], i) ELSE f[j]]
      <3>2. \A j \in 0 .. i - 1 : f[j] = IF j = 0 THEN {st.pool} ELSE step(f[j - 1], j)
        BY <3>1 DEF StoreTo
      <3> HIDE DEF step
      <3>3. \A j \in 0 .. i : j = i \/ (j \in 0 .. i - 1 /\ (j = 0 \/ j - 1 \in 0 .. i - 1))
        BY <1>1
      <3>4. \A j \in 0 .. i : j = 0 \/ g[j - 1] = f[j - 1]
        <4>1. \A j \in 1 .. i : j - 1 \in 0 .. i /\ j - 1 # i
          BY <1>1
        <4>2. \A j \in 0 .. i : j = 0 \/ j \in 1 .. i
          BY <1>1
        <4> QED  BY <4>1, <4>2
      <3>5. g = [j \in 0 .. i |-> IF j = 0 THEN {st.pool} ELSE step(g[j - 1], j)]
        <4>1. \A j \in 0 .. i : (IF j = i THEN step(f[i - 1], i) ELSE f[j])
                                = IF j = 0 THEN {st.pool} ELSE step(g[j - 1], j)
          <5> HIDE DEF g
          <5>1. i # 0
            BY <1>1
          <5> QED  BY <3>2, <3>3, <3>4, <5>1
        <4> QED  BY <4>1
      <3> HIDE DEF g
      <3>6. StoreTo(g, st, s, i)
        BY <3>5 DEF StoreTo, step
      <3>7. i \in 0 .. n
        BY <1>1
      <3> QED  BY <3>6, <3>7
    <2>3. \A i \in 0 .. n : i \in T
      <3> HIDE DEF T
      <3> QED  BY <1>1, <2>1, <2>2, Climb
    <2>4. n \in 0 .. n
      BY <1>1
    <2> QED  BY <2>3, <2>4
  <1> DEFINE f == CHOOSE g : StoreTo(g, st, s, n)
  <1>3. Stored(st, s) = {[st EXCEPT !.pool = p, !.answer = IF p.ok THEN "ok" ELSE "nomemory"] : p \in f[n]}
    BY Zenon DEF Stored, StoreTo
  <1>4. StoreTo(f, st, s, n)
    BY <1>2
  <1> HIDE DEF f
  <1>5. \A i \in 0 .. n : f[i] = IF i = 0 THEN {st.pool} ELSE step(f[i - 1], i)
    BY <1>4 DEF StoreTo
  <1> DEFINE U == {i \in 0 .. n : f[i] \subseteq W[i]}
  <1>6. 0 \in U
    <2>1. 0 \in 0 .. n
      BY <1>1
    <2>2. f[0] = {st.pool}
      BY <1>5, <2>1
    <2> QED  BY <2>1, <2>2
  <1>7. ASSUME NEW i \in 1 .. n, i - 1 \in U PROVE i \in U
    <2>1. i \in 0 .. n /\ i # 0
      BY <1>1
    <2>2. f[i] = step(f[i - 1], i)
      BY <1>5, <2>1
    <2>3. \A p \in f[i - 1] : (IF p.ok THEN Appended(p, s[i]) ELSE {p}) \subseteq W[i]
      BY <1>7 DEF OneChar
    <2> QED  BY <2>1, <2>2, <2>3
  <1>8. \A i \in 0 .. n : i \in U
    <2> HIDE DEF U
    <2> QED  BY <1>1, <1>6, <1>7, Climb
  <1>9. n \in 0 .. n
    BY <1>1
  <1>10. f[n] \subseteq W[n]
    BY <1>8, <1>9
  <1> QED  BY <1>3, <1>10 DEF StoredIn

\* The pool p holds what is built, n characters at least, of which c is the last.
Builds(p, n, c) ==
  p.cur \in Block /\ p.ptr >= p.start + n /\ p.heap[p.cur][p.ptr] = c

\* The characters are in the pool, or memory has failed.
LEMMA StoredWell ==
  ASSUME HashesAreNumbers, NEW st, Steady(st), NEW s \in Text, s # <<>>, NEW q \in Stored(st, s)
  PROVE  /\ Steady(q) /\ q.kept = st.kept /\ q.tables = st.tables /\ q.marked = st.marked
         /\ q.answer = "ok" => Builds(q.pool, Len(s), s[Len(s)])
  <1> DEFINE n == Len(s)
             Holds(p, i) == Good(p, st.kept) /\ (p.ok /\ i > 0 => Builds(p, i, s[i]))
             W == [i \in 0 .. n |-> {p \in Pools : Holds(p, i)}]
  <1>1. n \in Nat /\ n > 0 /\ \A i \in 1 .. n : s[i] \in Char \union {Junk}
    BY EmptySeq, ElementOfSeq DEF Text
  <1>2. \A i \in 0 .. n : \A p : Holds(p, i) <=> p \in W[i]
    BY DEF Good, Typed
  <1>3. st.pool \in W[0]
    <2>1. 0 \in 0 .. n /\ ~(0 > 0)
      BY <1>1
    <2>2. Good(st.pool, st.kept)
      BY DEF Steady, Well
    <2>3. Holds(st.pool, 0)
      BY <2>1, <2>2
    <2> HIDE DEF W, Holds
    <2> QED  BY <1>2, <2>1, <2>3
  <1> HIDE DEF W
  <1>4. ASSUME NEW i \in 1 .. n, NEW p \in W[i - 1],
               NEW w \in IF p.ok THEN Appended(p, s[i]) ELSE {p}
        PROVE  w \in W[i]
    <2>1. i \in 0 .. n /\ i # 0 /\ i > 0 /\ i - 1 \in 0 .. n
      BY <1>1
    <2> SUFFICES Holds(w, i)
      BY <1>2, <2>1
    <2>4. Holds(p, i - 1)
      BY <1>2, <2>1
    <2>5. CASE ~p.ok
      BY <2>4, <2>5
    <2>6. CASE p.ok
      <3>1. /\ Good(w, st.kept)
            /\ w.ok => /\ w.cur \in Block /\ w.heap[w.cur][w.ptr] = s[i]
                       /\ w.ptr - w.start = p.ptr - p.start + 1
        BY <1>1, <2>4, <2>6, AppendedGood
      <3>2. /\ w.ptr \in Nat /\ w.start \in Nat /\ p.ptr \in Nat /\ p.start \in Nat
            /\ p.start <= p.ptr
        BY <2>4, <3>1 DEF Good, Typed, Pools
      <3>3. p.ptr - p.start >= i - 1
        <4>1. CASE i - 1 = 0
          BY <3>2, <4>1
        <4>2. CASE i - 1 > 0
          BY <2>1, <2>4, <2>6, <3>2, <4>2 DEF Builds
        <4> QED  BY <1>1, <4>1, <4>2
      <3>4. w.ok => w.ptr >= w.start + i
        BY <2>1, <3>1, <3>2, <3>3
      <3> QED  BY <3>1, <3>4 DEF Builds
    <2> QED  BY <2>5, <2>6
  <1>9. PICK p \in W[n] : q = [st EXCEPT !.pool = p, !.answer = IF p.ok THEN "ok" ELSE "nomemory"]
    <2>1. \A i \in 1 .. n : \A p \in W[i - 1] : OneChar(p, s[i]) \subseteq W[i]
      BY <1>4 DEF OneChar
    <2>2. \E p \in W[n] : q = StoredIn(st, p)
      BY <1>1, <1>3, <2>1, StoredReach
    <2> QED  BY <2>2 DEF StoredIn
  <1>10. /\ DOMAIN q = Parts /\ q.pool = p /\ q.kept = st.kept /\ q.tables = st.tables
         /\ q.marked = st.marked /\ q.answer = IF p.ok THEN "ok" ELSE "nomemory"
    BY <1>9 DEF Steady, Parts
  <1>11. Good(p, st.kept) /\ (p.ok => Builds(p, n, s[n]))
    <2>1. n \in 0 .. n
      BY <1>1
    <2>2. Holds(p, n)
      BY <1>2, <2>1
    <2> QED  BY <1>1, <2>2
  <1>12. Well(p, st.kept, st.tables, st.marked, Empty)
    <2>1. \A x \in TableNames : Empty \notin Entries(st.tables[x])
      BY DEF Entries
    <2> QED  BY <1>11, <2>1, WellElsewhere DEF Steady
  <1> QED  BY <1>10, <1>11, <1>12 DEF Steady

-----------------------------------------------------------------------------
\* One more finished string that stands behind the one being built.
LEMMA GoodWith ==
  ASSUME NEW q, NEW K, Good(q, K), NEW k \in Strings, k.text # <<>>,
         k.block = q.cur, k.at + Len(k.text) <= q.start,
         \A i \in 1 .. Len(k.text) : /\ k.at + i <= Len(q.heap[k.block])
                                     /\ q.heap[k.block][k.at + i] = k.text[i]
  PROVE  Good(q, K \union {k})
  <1>1. q.cur # None
    BY BlockAssumption DEF Strings
  <1>2. Typed(q, K \union {k})
    BY DEF Good, Typed
  <1>3. Stay(q, K \union {k}) /\ Behind(q, K \union {k})
    BY DEF Good, Stay, Behind
  <1>4. NotFree(q, K \union {k})
    BY <1>1 DEF Good, NotFree, Allocated
  <1> QED  BY <1>2, <1>3, <1>4 DEF Good

\* The string that is kept after the first of its characters.
KeptFrom(p, skip) ==
  [block |-> p.cur, at |-> p.start + skip, text |-> SubSeq(Current(p), skip + 1, Len(Current(p)))]

\* poolFinish, by a caller who keeps the address after the first characters.
LEMMA KeptGood ==
  ASSUME NEW p, NEW K, Good(p, K), NEW skip \in Nat, p.start + skip < p.ptr
  PROVE  LET k == KeptFrom(p, skip)
         IN  /\ Good(Finished(p), K \union {k}) /\ Len(k.text) = p.ptr - (p.start + skip)
             /\ k.text[Len(k.text)] = p.heap[p.cur][p.ptr] /\ k.text # <<>>
  <1> DEFINE s    == Current(p)
             full == [block |-> p.cur, at |-> p.start, text |-> s]
             t    == SubSeq(s, skip + 1, Len(s))
             k    == [block |-> p.cur, at |-> p.start + skip, text |-> t]
             q    == Finished(p)
             L    == K \union {full}
  <1>1. p.start \in Nat /\ p.ptr \in Nat /\ p.start < p.ptr /\ p.cur \in Block \union {None}
    BY DEF Good, Typed, Pools
  <1>2. Good(q, L)
    BY <1>1, FinishedGood
  <1>3. /\ q.heap = p.heap /\ q.cur = p.cur /\ q.start = p.ptr
    BY DEF Finished, Good, Typed, Pools
  <1> HIDE DEF q
  <1>4. full \in Strings
    BY <1>2 DEF Good, Typed
  <1>5. p.cur \in Block /\ s \in Seq(Char \union {Junk})
    BY <1>4 DEF Strings, Text
  <1>6. Len(s) = p.ptr - p.start
    <2>1. /\ p.ptr <= Len(p.heap[p.cur]) /\ p.heap[p.cur] \in Seq(Char \union {Junk})
          /\ s = SubSeq(p.heap[p.cur], p.start + 1, p.ptr) /\ Len(p.heap[p.cur]) \in Nat
      BY <1>1, <1>5, BlockAssumption, LenProperties DEF Good, Typed, Pools, End, Current, Text
    <2> DEFINE h == p.heap[p.cur]
    <2> HIDE DEF h, s
    <2>2. \A i \in p.start + 1 .. p.ptr : h[i] \in Char \union {Junk}
      <3>1. \A i \in p.start + 1 .. p.ptr : i \in 1 .. Len(h)
        BY <1>1, <2>1 DEF h
      <3> QED  BY <2>1, <3>1, ElementOfSeq DEF h
    <2>3. p.start + 1 \in Int /\ p.ptr \in Int /\ p.start + 1 <= p.ptr
      BY <1>1
    <2>4. Len(SubSeq(h, p.start + 1, p.ptr)) = p.ptr - (p.start + 1) + 1
      BY <2>2, <2>3, SubSeqProperties
    <2> QED  BY <1>1, <2>1, <2>4 DEF h
  <1>7. \A i \in 1 .. Len(s) : p.start + i <= Len(p.heap[p.cur]) /\ p.heap[p.cur][p.start + i] = s[i]
    <2>1. full \in L
      OBVIOUS
    <2> HIDE DEF s, L
    <2> QED  BY <1>2, <1>3, <2>1 DEF Good, Stay
  <1> HIDE DEF s
  <1> DEFINE n == p.ptr - (p.start + skip)
  <1>8. /\ t \in Seq(Char \union {Junk}) /\ Len(t) = n /\ n \in Nat /\ n > 0
        /\ \A i \in 1 .. n : t[i] = s[skip + i] /\ skip + i \in 1 .. Len(s)
    <2>1. \A i \in skip + 1 .. Len(s) : s[i] \in Char \union {Junk}
      <3>1. \A i \in skip + 1 .. Len(s) : i \in 1 .. Len(s)
        BY <1>1, <1>6
      <3> QED  BY <1>5, <3>1, ElementOfSeq
    <2>2. skip + 1 \in Int /\ Len(s) \in Int /\ skip + 1 <= Len(s) /\ Len(s) - (skip + 1) + 1 = n
      BY <1>1, <1>6
    <2>3. t \in Seq(Char \union {Junk}) /\ Len(t) = n
      BY <2>1, <2>2, SubSeqProperties
    <2>4. \A i \in 1 .. Len(s) - (skip + 1) + 1 : t[i] = s[skip + 1 + i - 1]
      BY <2>1, <2>2, SubSeqProperties
    <2>5. ASSUME NEW i \in 1 .. n PROVE t[i] = s[skip + i] /\ skip + i \in 1 .. Len(s)
      <3>1. i \in 1 .. Len(s) - (skip + 1) + 1 /\ skip + 1 + i - 1 = skip + i
        BY <2>2
      <3>2. skip + i \in 1 .. Len(s)
        BY <1>1, <1>6
      <3> QED  BY <2>4, <3>1, <3>2
    <2> HIDE DEF t
    <2>6. n \in Nat /\ n > 0
      BY <1>1
    <2> QED  BY <2>3, <2>5, <2>6
  <1> HIDE DEF t
  <1>9. k \in Strings /\ k.text # <<>>
    <2>1. t # <<>>
      BY <1>8, EmptySeq
    <2> QED  BY <1>1, <1>5, <1>8, <2>1 DEF Strings, Text
  <1>10. \A i \in 1 .. Len(t) : /\ p.start + skip + i <= Len(p.heap[p.cur])
                                /\ p.heap[p.cur][p.start + skip + i] = t[i]
    <2> SUFFICES ASSUME NEW i \in 1 .. Len(t)
                 PROVE  /\ p.start + skip + i <= Len(p.heap[p.cur])
                        /\ p.heap[p.cur][p.start + skip + i] = t[i]
      OBVIOUS
    <2>1. p.start + skip + i = p.start + (skip + i)
      BY <1>1, <1>8
    <2> QED  BY <1>7, <1>8, <2>1
  <1>11. Good(q, K)
    BY <1>2 DEF Good, Typed, Stay, Behind, NotFree
  <1>12. Good(q, K \union {k})
    <2>1. k.at + Len(k.text) <= q.start
      BY <1>1, <1>3, <1>8
    <2>2. k.block = q.cur /\ k.at = p.start + skip /\ k.text = t
      BY <1>3
    <2> HIDE DEF k
    <2>3. \A i \in 1 .. Len(k.text) : /\ k.at + i <= Len(q.heap[k.block])
                                      /\ q.heap[k.block][k.at + i] = k.text[i]
      BY <1>3, <1>10, <2>2
    <2> QED  BY <1>9, <1>11, <2>1, <2>2, <2>3, GoodWith
  <1>13. t[Len(t)] = p.heap[p.cur][p.ptr]
    <2>1. n \in 1 .. n /\ p.start + skip + n = p.ptr
      BY <1>1, <1>8
    <2> QED  BY <1>8, <1>10, <2>1
  <1>14. k = KeptFrom(p, skip)
    BY DEF KeptFrom, t, s
  <1>15. k.text = t
    OBVIOUS
  <1> HIDE DEF k
  <1> QED  BY <1>8, <1>9, <1>12, <1>13, <1>14, <1>15 DEF q

-----------------------------------------------------------------------------
\* The address of what is being built is that of no name in use.
LEMMA BuiltNew ==
  ASSUME NEW st, Steady(st), NEW skip \in Nat, st.pool.cur \in Block
  PROVE  LET a == BuiltAt(st, skip)
         IN  /\ a \in Named /\ a.block = st.pool.cur /\ a.at = st.pool.start + skip
             /\ a \notin st.marked /\ \A x \in TableNames : a \notin Entries(st.tables[x])
  <1> DEFINE a == BuiltAt(st, skip)
  <1>1. st.pool.start \in Nat /\ Good(st.pool, st.kept)
    BY DEF Steady, Well, Good, Typed, Pools
  <1>2. a \in Named /\ a.block = st.pool.cur /\ a.at = st.pool.start + skip
    BY <1>1 DEF BuiltAt, Named
  <1> HIDE DEF a
  <1>3. ~Held(st.kept, a)
    <2> SUFFICES ASSUME Held(st.kept, a) PROVE FALSE
      OBVIOUS
    <2>1. PICK k \in st.kept :
            /\ k.block = a.block /\ k.at <= a.at
            /\ \E j \in 1 .. Len(k.text) : a.at < k.at + j /\ k.text[j] = Zero
      BY DEF Held
    <2>2. k.at + Len(k.text) <= st.pool.start /\ k.at \in Nat /\ Len(k.text) \in Nat
      BY <1>1, <1>2, <2>1, LenProperties DEF Good, Behind, Typed, Strings, Text
    <2> QED  BY <1>1, <1>2, <2>1, <2>2
  <1>4. a # Empty
    BY <1>2, NotEmpty
  <1> QED  BY <1>2, <1>3, <1>4, SteadyHeld DEF a

\* poolDiscard, when the name was known.
LEMMA DroppedWell ==
  ASSUME HashesAreNumbers, NEW st, Steady(st), st.pool.start < st.pool.ptr
  PROVE  LET w == Dropped(st)
         IN  /\ Steady(w) /\ w.kept = st.kept /\ w.tables = st.tables /\ w.marked = st.marked
             /\ w.answer = st.answer /\ w.entry = st.entry
  <1> DEFINE w == Dropped(st)
  <1>1. Good(st.pool, st.kept) /\ st.pool.start \in Nat /\ st.pool.start <= st.pool.ptr
    BY DEF Steady, Well, Good, Typed, Pools
  <1>2. Good(Discarded(st.pool), st.kept)
    <2>1. st.pool.start <= st.pool.start
      BY <1>1
    <2> QED  BY <1>1, <2>1, GivenUpGood DEF Discarded
  <1>3. /\ DOMAIN w = Parts /\ w.pool = Discarded(st.pool) /\ w.kept = st.kept
        /\ w.tables = st.tables /\ w.marked = st.marked /\ w.answer = st.answer /\ w.entry = st.entry
    BY DEF Dropped, Steady, Parts
  <1>4. \A x \in TableNames : Empty \notin Entries(st.tables[x])
    BY DEF Entries
  <1>5. Well(Discarded(st.pool), st.kept, st.tables, st.marked, Empty)
    BY <1>2, <1>4, WellElsewhere DEF Steady
  <1> HIDE DEF w
  <1> QED  BY <1>3, <1>5 DEF Steady, w

\* What is well without new names stays well with a finished string behind it.
LEMMA KeptWell ==
  ASSUME HashesAreNumbers, NEW p, NEW K, NEW T, NEW M, NEW skip \in Nat, NEW a,
         Well(p, K, T, M, a), a = [block |-> p.cur, at |-> p.start + skip], p.cur \in Block,
         p.start + skip < p.ptr, p.heap[p.cur][p.ptr] = Zero,
         skip > 0 \/ a \notin Entries(T["attributes"]) \union M,
         \A x \in TableNames : Empty \notin Entries(T[x])
  PROVE  /\ Well(Finished(p), K \union {KeptFrom(p, skip)}, T, M, Empty)
         /\ Held(K \union {KeptFrom(p, skip)}, a)
  <1> DEFINE k == KeptFrom(p, skip)
             q == Finished(p)
             L == K \union {k}
  <1>1. /\ Good(q, L) /\ Len(k.text) = p.ptr - (p.start + skip)
        /\ k.text[Len(k.text)] = Zero /\ k.text # <<>>
    BY KeptGood DEF Well
  <1>2. /\ Good(p, K) /\ p.start \in Nat /\ p.ptr \in Nat /\ DOMAIN T = TableNames
    BY DEF Well, Good, Typed, Pools
  <1>3. k.block = p.cur /\ k.at = p.start + skip
    BY DEF KeptFrom
  <1>4. q.heap = p.heap
    BY <1>2 DEF Finished, Good, Typed, Pools
  <1>5. a.block = p.cur /\ a.at = p.start + skip /\ a \in Named
    BY <1>2 DEF Named
  <1> HIDE DEF k, q
  <1>6. Held(L, a)
    <2>1. Len(k.text) \in 1 .. Len(k.text) /\ a.at < k.at + Len(k.text)
      BY <1>1, <1>2, <1>3, <1>5
    <2>2. \E j \in 1 .. Len(k.text) : a.at < k.at + j /\ k.text[j] = Zero
      BY <1>1, <2>1
    <2>3. k \in L /\ k.block = a.block /\ k.at <= a.at
      BY <1>2, <1>3, <1>5
    <2> HIDE DEF L
    <2> QED  BY <1>5, <2>2, <2>3 DEF Held
  <1>7. \A e : Held(K, e) => Held(L, e)
    BY DEF Held
  <1>8. ASSUME NEW x \in TableNames
        PROVE  Sound(q, T[x]) /\ \A e \in Entries(T[x]) : Held(L, e)
    <2>1. \A e : Read(q, e) = Read(p, e)
      BY <1>4 DEF Read
    <2>2. Sound(q, T[x])
      BY <2>1, SoundStays DEF Well
    <2> QED  BY <1>6, <1>7, <2>2 DEF Well
  <1>9. \A l \in K : l.at \in Nat /\ Len(l.text) \in Nat /\ (l.block = p.cur => l.at + Len(l.text) <= p.start)
    BY <1>2, LenProperties DEF Good, Typed, Behind, Strings, Text
  <1>10. ASSUME NEW e \in (Entries(T["attributes"]) \union M) \ {Empty}
         PROVE  Held(L, e) /\ Apart(L, e)
    <2>1. CASE e = a
      <3>1. skip > 0
        BY <2>1
      <3>2. ASSUME NEW l \in L, l.block = e.block
            PROVE  e.at <= l.at \/ e.at > l.at + Len(l.text)
        <4>1. CASE l = k
          BY <1>2, <1>3, <1>5, <2>1, <4>1
        <4>2. CASE l \in K
          BY <1>2, <1>5, <1>9, <2>1, <3>1, <3>2, <4>2
        <4> QED  BY <4>1, <4>2
      <3> QED  BY <1>6, <2>1, <3>2 DEF Apart
    <2>2. CASE e # a
      <3>1. Held(K, e) /\ Apart(K, e)
        BY <2>2 DEF Well
      <3>2. PICK m \in K : /\ m.block = e.block /\ m.at <= e.at
                           /\ \E j \in 1 .. Len(m.text) : e.at < m.at + j /\ m.text[j] = Zero
        BY <3>1 DEF Held
      <3>3. e.at \in Nat
        BY <3>1 DEF Held, Named
      <3>4. e.block = p.cur => e.at < p.start
        BY <1>2, <1>9, <3>2, <3>3
      <3>5. ASSUME NEW l \in L, l.block = e.block
            PROVE  e.at <= l.at \/ e.at > l.at + Len(l.text)
        <4>1. CASE l = k
          BY <1>2, <1>3, <3>3, <3>4, <3>5, <4>1
        <4>2. CASE l \in K
          BY <3>1, <3>5, <4>2 DEF Apart
        <4> QED  BY <4>1, <4>2
      <3> QED  BY <1>7, <3>1, <3>5 DEF Apart
    <2> QED  BY <2>1, <2>2
  <1>11. M \subseteq Named
    BY DEF Well
  <1> QED  BY <1>1, <1>2, <1>6, <1>8, <1>10, <1>11 DEF Well, k, q

\* A finished string behind the others, in the tables of a state.
LEMMA KeptSteady ==
  ASSUME HashesAreNumbers, NEW st, DOMAIN st = Parts, NEW skip \in Nat, NEW n \in Nat, skip < n,
         Builds(st.pool, n, Zero),
         Well(st.pool, st.kept, st.tables, st.marked, BuiltAt(st, skip)),
         skip > 0 \/ BuiltAt(st, skip) \notin Entries(st.tables["attributes"]) \union st.marked
  PROVE  LET w == Kept(st, skip)
         IN  /\ Steady(w) /\ w.tables = st.tables /\ w.marked = st.marked
             /\ w.answer = st.answer /\ w.entry = st.entry
             /\ Held(w.kept, BuiltAt(st, skip))
  <1> DEFINE w == Kept(st, skip)
  <1>1. /\ DOMAIN w = Parts /\ w.pool = Finished(st.pool)
        /\ w.kept = st.kept \union {KeptFrom(st.pool, skip)}
        /\ w.tables = st.tables /\ w.marked = st.marked /\ w.answer = st.answer /\ w.entry = st.entry
    BY DEF Kept, KeptFrom, Parts
  <1>2. st.pool.start \in Nat /\ st.pool.ptr \in Nat
    BY DEF Well, Good, Typed, Pools
  <1>3. /\ st.pool.cur \in Block /\ st.pool.start + skip < st.pool.ptr
        /\ st.pool.heap[st.pool.cur][st.pool.ptr] = Zero
    BY <1>2 DEF Builds
  <1>4. \A x \in TableNames : Empty \notin Entries(st.tables[x])
    BY DEF Entries
  <1>5. BuiltAt(st, skip) = [block |-> st.pool.cur, at |-> st.pool.start + skip]
    BY DEF BuiltAt
  <1>6. /\ Well(Finished(st.pool), st.kept \union {KeptFrom(st.pool, skip)}, st.tables, st.marked, Empty)
        /\ Held(st.kept \union {KeptFrom(st.pool, skip)}, BuiltAt(st, skip))
    BY <1>3, <1>4, <1>5, KeptWell
  <1> HIDE DEF w
  <1> QED  BY <1>1, <1>6 DEF Steady, w

\* What lookup of the name at a makes of the entries: the name is found, or
\* it is entered, or memory fails.
LookedUp(r, x, a, q) ==
  /\ \A y \in TableNames : y # x => q.tables[y] = r.tables[y]
  /\ \/ q.answer = "nomemory" /\ Entries(q.tables[x]) = Entries(r.tables[x])
     \/ /\ q.answer = "ok" /\ Entries(q.tables[x]) = Entries(r.tables[x])
        /\ q.entry \in Entries(r.tables[x]) /\ Read(r.pool, q.entry) = Read(r.pool, a)
     \/ /\ q.answer = "ok" /\ Entries(q.tables[x]) = Entries(r.tables[x]) \union {a} /\ q.entry = a
        /\ \A e \in Entries(r.tables[x]) : Read(r.pool, e) # Read(r.pool, a)

\* lookup, in one of the tables of a state.
LEMMA LookedWell ==
  ASSUME HashesAreNumbers, NEW r, Steady(r), NEW x \in TableNames, NEW a \in Named,
         NEW q \in Looked(r, x, a)
  PROVE  /\ DOMAIN q = Parts /\ q.pool = r.pool /\ q.kept = r.kept /\ q.marked = r.marked
         /\ Well(q.pool, q.kept, q.tables, q.marked, a)
         /\ x # "attributes" => q.tables["attributes"] = r.tables["attributes"]
         /\ Entries(r.tables["attributes"]) \subseteq Entries(q.tables["attributes"])
         /\ \/ q.answer = "nomemory" /\ Onwards(r, q)
            \/ /\ q.answer = "ok" /\ q.entry \in Entries(q.tables[x])
               /\ q.entry = a \/ Onwards(r, q)
         /\ LookedUp(r, x, a, q)
  <1> DEFINE t == r.tables[x]
  <1>1. /\ Good(r.pool, r.kept) /\ DOMAIN r.tables = TableNames
        /\ \A y \in TableNames : /\ Sound(r.pool, r.tables[y])
                                 /\ \A e \in Entries(r.tables[y]) : Held(r.kept, e)
        /\ \A e \in Entries(r.tables["attributes"]) : Held(r.kept, e) /\ Apart(r.kept, e)
        /\ r.marked \subseteq Named /\ \A e \in r.marked : Held(r.kept, e) /\ Apart(r.kept, e)
    BY SteadyHeld
  <1>2. PICK u \in Lookup(r.pool, t, a) :
          q = [r EXCEPT !.tables[x] = u.t, !.entry = u.e, !.answer = IF u.e = Empty THEN "nomemory" ELSE "ok"]
    BY DEF Looked
  <1>3. /\ DOMAIN q = Parts /\ q.pool = r.pool /\ q.kept = r.kept /\ q.marked = r.marked
        /\ q.tables = [r.tables EXCEPT ![x] = u.t] /\ q.entry = u.e
        /\ q.answer = IF u.e = Empty THEN "nomemory" ELSE "ok"
    BY <1>2 DEF Steady, Parts
  <1>4. /\ DOMAIN q.tables = TableNames /\ q.tables[x] = u.t
        /\ \A y \in TableNames : y # x => q.tables[y] = r.tables[y]
    BY <1>1, <1>3
  <1>5. a # Empty /\ a \in Addr /\ Read(r.pool, a) \in Text
    BY <1>1, NotEmpty, ReadText DEF Good, Typed, Pools
  <1>6. /\ Sound(r.pool, u.t)
        /\ \/ u.e = Empty /\ Entries(u.t) = Entries(t)
           \/ u.e # Empty /\ u.e \in Entries(t) /\ u.t = t /\ Read(r.pool, u.e) = Read(r.pool, a)
           \/ /\ u.e = a /\ Entries(u.t) = Entries(t) \union {a}
              /\ \A e \in Entries(t) : Read(r.pool, e) # Read(r.pool, a)
    BY <1>1, <1>5, LookupWell
  <1>7. \A y \in TableNames : Sound(q.pool, q.tables[y])
    BY <1>1, <1>3, <1>4, <1>6
  <1>8. "attributes" \in TableNames /\ Empty \notin Entries(t)
    BY DEF TableNames, Entries
  <1>9. /\ \A y \in TableNames : Entries(r.tables[y]) \subseteq Entries(q.tables[y])
        /\ \A y \in TableNames : Entries(q.tables[y]) \subseteq Entries(r.tables[y]) \union {a}
        /\ u.e # a => \A y \in TableNames : Entries(q.tables[y]) = Entries(r.tables[y])
    BY <1>4, <1>6
  <1>10. Well(q.pool, q.kept, q.tables, q.marked, a)
    <2>1. \A e \in (Entries(q.tables["attributes"]) \union q.marked) \ {a} : Held(q.kept, e) /\ Apart(q.kept, e)
      BY <1>1, <1>3, <1>8, <1>9
    <2>2. \A y \in TableNames : \A e \in Entries(q.tables[y]) \ {a} : Held(q.kept, e)
      BY <1>1, <1>3, <1>9
    <2> QED  BY <1>1, <1>3, <1>4, <1>7, <2>1, <2>2 DEF Well
  <1>11. u.e # a => Onwards(r, q)
    <2> SUFFICES ASSUME u.e # a PROVE Onwards(r, q)
      OBVIOUS
    <2>1. Well(q.pool, q.kept, q.tables, q.marked, Empty)
      <3>1. \A y \in TableNames : Entries(q.tables[y]) = Entries(r.tables[y])
        BY <1>9
      <3> QED  BY <1>1, <1>3, <1>4, <1>7, <1>8, <3>1 DEF Well
    <2> QED  BY <1>3, <1>8, <1>9, <2>1 DEF Onwards, Steady
  <1>12. x # "attributes" => q.tables["attributes"] = r.tables["attributes"]
    BY <1>4, <1>8
  <1>13. u.e = Empty => u.e # a
    BY <1>5
  <1>14. u.e # Empty => u.e \in Entries(u.t)
    BY <1>6
  <1>15. LookedUp(r, x, a, q)
    BY <1>3, <1>4, <1>5, <1>6 DEF LookedUp
  <1> QED  BY <1>3, <1>4, <1>6, <1>8, <1>9, <1>10, <1>11, <1>12, <1>13, <1>14, <1>15

\* lookup of a name that is kept already, in a table without marks.
LEMMA HeldLooked ==
  ASSUME HashesAreNumbers, NEW r, Steady(r), NEW x \in TableNames, x # "attributes",
         NEW a, Held(r.kept, a), NEW q \in Looked(r, x, a)
  PROVE  Onwards(r, q) /\ (q.answer = "ok" => q.entry \in Named)
  <1>1. a \in Named
    BY DEF Held
  <1>2. /\ DOMAIN q = Parts /\ q.pool = r.pool /\ q.kept = r.kept /\ q.marked = r.marked
        /\ Well(q.pool, q.kept, q.tables, q.marked, a)
        /\ q.tables["attributes"] = r.tables["attributes"]
        /\ q.answer = "ok" => q.entry \in Entries(q.tables[x])
    BY <1>1, LookedWell
  <1>3. \A e \in Entries(r.tables["attributes"]) \union r.marked : Held(r.kept, e) /\ Apart(r.kept, e)
    BY SteadyHeld
  <1>4. Well(q.pool, q.kept, q.tables, q.marked, Empty)
    <2>1. \A y \in TableNames : \A e \in Entries(q.tables[y]) : Held(q.kept, e)
      BY <1>2 DEF Well
    <2> QED  BY <1>2, <1>3, <2>1 DEF Well
  <1>5. Steady(q)
    BY <1>2, <1>4 DEF Steady
  <1>6. q.answer = "ok" => q.entry \in Named
    BY <1>2, <1>5, SteadyHeld DEF Held
  <1> QED  BY <1>2, <1>5, <1>6 DEF Onwards

-----------------------------------------------------------------------------
\* One step onwards after the other.
LEMMA OnwardsOn ==
  ASSUME NEW st, NEW r, NEW q, Onwards(st, r), Onwards(r, q)
  PROVE  Onwards(st, q)
  BY DEF Onwards

\* What is none of the pool and the tables does not matter.
LEMMA OnwardsSame ==
  ASSUME NEW st, NEW r, Onwards(st, r), NEW q, DOMAIN q = Parts, q.pool = r.pool, q.kept = r.kept,
         q.tables = r.tables, q.marked = r.marked
  PROVE  Onwards(st, q)
  BY DEF Onwards, Steady

\* A name built, looked up, and kept when it is new.
LEMMA SettledWell ==
  ASSUME HashesAreNumbers, NEW r, Steady(r), NEW skip \in {0, 1}, NEW n \in Nat, skip < n,
         Builds(r.pool, n, Zero), NEW x \in TableNames, x = "attributes" => skip = 1,
         NEW q \in Looked(r, x, BuiltAt(r, skip))
  PROVE  /\ BuiltAt(q, skip) = BuiltAt(r, skip) /\ BuiltAt(r, skip) \in Named
         /\ q.answer # "ok" => q.answer = "nomemory" /\ Onwards(r, q)
         /\ q.answer = "ok" =>
              LET w == Settled(q, BuiltAt(r, skip), skip)
              IN  /\ Onwards(r, w) /\ w.answer = "ok" /\ w.entry = q.entry
                  /\ w.entry \in Named /\ w.entry \in Entries(w.tables[x])
  <1> DEFINE a == BuiltAt(r, skip)
  <1>1. skip \in Nat /\ r.pool.cur \in Block
    BY DEF Builds
  <1>2. a \in Named /\ a \notin r.marked /\ \A y \in TableNames : a \notin Entries(r.tables[y])
    BY <1>1, BuiltNew
  <1>3. /\ DOMAIN q = Parts /\ q.pool = r.pool /\ q.kept = r.kept /\ q.marked = r.marked
        /\ Well(q.pool, q.kept, q.tables, q.marked, a)
        /\ x # "attributes" => q.tables["attributes"] = r.tables["attributes"]
        /\ Entries(r.tables["attributes"]) \subseteq Entries(q.tables["attributes"])
        /\ \/ q.answer = "nomemory" /\ Onwards(r, q)
           \/ /\ q.answer = "ok" /\ q.entry \in Entries(q.tables[x])
              /\ q.entry = a \/ Onwards(r, q)
    BY <1>2, LookedWell
  <1>4. BuiltAt(q, skip) = a
    BY <1>3 DEF BuiltAt
  <1>5. "attributes" \in TableNames
    BY DEF TableNames
  <1>6. ASSUME q.answer = "ok"
        PROVE  LET w == Settled(q, a, skip)
               IN  /\ Onwards(r, w) /\ w.answer = "ok" /\ w.entry = q.entry
                   /\ w.entry \in Named /\ w.entry \in Entries(w.tables[x])
    <2> DEFINE w == Settled(q, a, skip)
    <2>1. CASE q.entry = a
      <3>1. w = Kept(q, skip)
        BY <2>1 DEF Settled
      <3>2. skip > 0 \/ a \notin Entries(q.tables["attributes"]) \union q.marked
        BY <1>2, <1>3, <1>5
      <3>3. Steady(w) /\ w.tables = q.tables /\ w.marked = q.marked /\ w.answer = q.answer /\ w.entry = q.entry
        <4> HIDE DEF a, w
        <4> QED  BY <1>1, <1>3, <1>4, <3>1, <3>2, KeptSteady
      <3> HIDE DEF w
      <3>4. Onwards(r, w)
        BY <1>3, <3>3 DEF Onwards
      <3> QED  BY <1>2, <1>3, <1>5, <1>6, <2>1, <3>3, <3>4 DEF w
    <2>2. CASE q.entry # a
      <3>1. w = Dropped(q) /\ Onwards(r, q) /\ Steady(q)
        BY <1>3, <1>6, <2>2 DEF Settled, Onwards
      <3>2. q.pool.start < q.pool.ptr
        BY <1>3 DEF Builds, Well, Good, Typed, Pools
      <3>3. Steady(w) /\ w.tables = q.tables /\ w.marked = q.marked /\ w.answer = q.answer /\ w.entry = q.entry
        <4> HIDE DEF w
        <4> QED  BY <3>1, <3>2, DroppedWell
      <3> HIDE DEF w
      <3>4. Onwards(r, w)
        BY <3>1, <3>3 DEF Onwards
      <3>5. w.entry \in Named
        BY <1>3, <1>6, <3>1, <3>3, SteadyHeld DEF Held
      <3> QED  BY <1>3, <1>6, <3>3, <3>4, <3>5 DEF w
    <2> QED  BY <2>1, <2>2
  <1> QED  BY <1>2, <1>3, <1>4, <1>6

\* A text and its closing 0.
LEMMA Closed ==
  ASSUME NEW s \in Text
  PROVE  LET t == Append(s, Zero)
         IN  t \in Text /\ t # <<>> /\ Len(t) = Len(s) + 1 /\ Len(t) \in Nat /\ t[Len(t)] = Zero
  <1>1. Zero \in Char \union {Junk}
    BY NamesAssumption
  <1> QED  BY <1>1, AppendProperties, LenProperties DEF Text

\* What is stored is a step onwards.
LEMMA StoredOnwards ==
  ASSUME HashesAreNumbers, NEW st, Steady(st), NEW s \in Text, s # <<>>, NEW q \in Stored(st, s)
  PROVE  Onwards(st, q) /\ (q.answer = "ok" => Builds(q.pool, Len(s), s[Len(s)]))
  BY StoredWell DEF Onwards

\* The prefix of a name is entered (setElementTypePrefix, getAttributeId).
LEMMA PrefixedWell ==
  ASSUME HashesAreNumbers, NEW st, Steady(st), NEW e, NEW s \in Text,
         NEW ifNone \in {"nomemory", "dies"}, NEW z \in Prefixed(st, e, s, ifNone)
  PROVE  Onwards(st, z)
  <1> DEFINE Settle(r) == {[Settled(r, BuiltAt(r, 0), 0) EXCEPT !.prefixOf = (e :> r.entry) @@ @]}
             Look(r)   == {IF q.answer = "nomemory" THEN Ends(q, ifNone) ELSE q :
                             q \in Looked(r, "prefixes", BuiltAt(r, 0))}
             t == Append(s, Zero)
  <1>1. t \in Text /\ t # <<>> /\ Len(t) \in Nat /\ Len(t) > 0 /\ t[Len(t)] = Zero
    BY Closed, LenProperties DEF Text
  <1>2. PICK y \in Next1(Stored(st, t), Look) : z \in IF y.answer = "ok" THEN Settle(y) ELSE {y}
    BY DEF Prefixed, Next1
  <1>3. PICK r \in Stored(st, t) : y \in IF r.answer = "ok" THEN Look(r) ELSE {r}
    BY <1>2 DEF Next1
  <1>4. Onwards(st, r) /\ (r.answer = "ok" => Builds(r.pool, Len(t), Zero))
    BY <1>1, <1>3, StoredOnwards
  <1>5. CASE r.answer # "ok"
    BY <1>2, <1>3, <1>4, <1>5
  <1>6. CASE r.answer = "ok"
    <2>1. PICK q \in Looked(r, "prefixes", BuiltAt(r, 0)) :
            y = IF q.answer = "nomemory" THEN Ends(q, ifNone) ELSE q
      BY <1>3, <1>6
    <2>2. "prefixes" \in TableNames /\ "prefixes" # "attributes" /\ Steady(r)
      BY <1>4 DEF TableNames, Onwards
    <2>3. /\ BuiltAt(q, 0) = BuiltAt(r, 0)
          /\ q.answer # "ok" => q.answer = "nomemory" /\ Onwards(r, q)
          /\ q.answer = "ok" => Onwards(r, Settled(q, BuiltAt(r, 0), 0))
      BY <1>1, <1>4, <1>6, <2>1, <2>2, SettledWell
    <2>4. CASE q.answer # "ok"
      <3>1. y = Ends(q, ifNone) /\ DOMAIN q = Parts
        BY <2>1, <2>3, <2>4 DEF Onwards, Steady
      <3>2. /\ DOMAIN y = Parts /\ y.pool = q.pool /\ y.kept = q.kept /\ y.tables = q.tables
            /\ y.marked = q.marked /\ y.answer = ifNone
        BY <3>1 DEF Ends, Parts
      <3>3. Onwards(r, y) /\ z = y
        BY <1>2, <2>3, <2>4, <3>2, OnwardsSame
      <3> QED  BY <1>4, <3>3, OnwardsOn
    <2>5. CASE q.answer = "ok"
      <3> DEFINE w == Settled(q, BuiltAt(r, 0), 0)
      <3>1. y = q /\ z = [w EXCEPT !.prefixOf = (e :> q.entry) @@ @]
        BY <1>2, <2>1, <2>3, <2>5
      <3>2. Onwards(r, w) /\ DOMAIN w = Parts
        BY <2>3, <2>5 DEF Onwards, Steady
      <3> HIDE DEF w
      <3>3. /\ DOMAIN z = Parts /\ z.pool = w.pool /\ z.kept = w.kept /\ z.tables = w.tables
            /\ z.marked = w.marked
        BY <3>1, <3>2 DEF Parts
      <3>4. Onwards(r, z)
        BY <3>2, <3>3, OnwardsSame
      <3> QED  BY <1>4, <3>4, OnwardsOn
    <2> QED  BY <2>4, <2>5
  <1> QED  BY <1>5, <1>6

\* The prefix of a text is a text.
LEMMA TextBefore ==
  ASSUME NEW s \in Text, Colons(s) # {}
  PROVE  \E c \in 1 .. Len(s) : Prefix(s) = SubSeq(s, 1, c - 1) /\ Prefix(s) \in Text
  <1>0. Len(s) \in Nat /\ Colons(s) \subseteq 1 .. Len(s)
    BY LenProperties DEF Colons, Text
  <1>1. PICK c \in Colons(s) : \A j \in Colons(s) : c <= j
    <2>1. Colons(s) \subseteq Nat
      BY <1>0
    <2> QED  BY <2>1, LeastNat
  <1>2. (CHOOSE i \in Colons(s) : \A j \in Colons(s) : i <= j) = c
    <2>1. Colons(s) \subseteq Int
      BY <1>0
    <2>2. \A i \in Colons(s) : (\A j \in Colons(s) : i <= j) => i = c
      BY <1>1, <2>1
    <2> QED  BY <1>1, <2>2
  <1>3. c \in 1 .. Len(s)
    BY <1>0
  <1>4. \A i \in 1 .. c - 1 : s[i] \in Char \union {Junk}
    <2>1. \A i \in 1 .. c - 1 : i \in 1 .. Len(s)
      BY <1>0, <1>3
    <2> QED  BY <2>1, ElementOfSeq DEF Text
  <1>5. 1 \in Int /\ c - 1 \in Int
    BY <1>3
  <1>6. SubSeq(s, 1, c - 1) \in Text
    BY <1>4, <1>5, SubSeqProperties DEF Text
  <1> QED  BY <1>2, <1>3, <1>6 DEF Prefix

\* setElementTypePrefix
LEMMA PrefixWell ==
  ASSUME HashesAreNumbers, NEW st, Steady(st), NEW e \in Named, NEW z \in setElementTypePrefix(st, e)
  PROVE  Onwards(st, z)
  <1> DEFINE name == Read(st.pool, e)
  <1>1. name \in Text
    BY ReadText DEF Steady, Well, Good, Typed, Pools
  <1>2. CASE Colons(name) = {}
    BY <1>2 DEF setElementTypePrefix, Onwards
  <1>3. CASE Colons(name) # {}
    <2>1. z \in Prefixed(st, e, Prefix(name), "nomemory")
      BY <1>3 DEF setElementTypePrefix
    <2> HIDE DEF name
    <2>2. Prefix(name) \in Text
      BY <1>1, <1>3, TextBefore
    <2> QED  BY <2>1, <2>2, PrefixedWell
  <1> QED  BY <1>2, <1>3

-----------------------------------------------------------------------------
\* getElementType
LEMMA TypeWell ==
  ASSUME HashesAreNumbers, NEW st, Steady(st), NEW n \in Text, NEW z \in getElementType(st, n)
  PROVE  Onwards(st, z)
  <1> DEFINE Look(r)   == Looked(r, "types", BuiltAt(r, 0))
             Settle(r) == LET a == BuiltAt(r, 0)
                          IN  IF r.entry = a THEN setElementTypePrefix(Settled(r, a, 0), a)
                              ELSE {Settled(r, a, 0)}
             t == Append(n, Zero)
  <1>1. t \in Text /\ t # <<>> /\ Len(t) \in Nat /\ Len(t) > 0 /\ t[Len(t)] = Zero
    BY Closed, LenProperties DEF Text
  <1>2. PICK q \in Next1(Stored(st, t), Look) : z \in IF q.answer = "ok" THEN Settle(q) ELSE {q}
    BY DEF getElementType, Next1
  <1>3. PICK r \in Stored(st, t) : q \in IF r.answer = "ok" THEN Look(r) ELSE {r}
    BY <1>2 DEF Next1
  <1>4. Onwards(st, r) /\ (r.answer = "ok" => Builds(r.pool, Len(t), Zero))
    BY <1>1, <1>3, StoredOnwards
  <1>5. CASE r.answer # "ok"
    BY <1>2, <1>3, <1>4, <1>5
  <1>6. CASE r.answer = "ok"
    <2> DEFINE a == BuiltAt(r, 0)
               w == Settled(q, a, 0)
    <2>1. "types" \in TableNames /\ "types" # "attributes" /\ Steady(r)
      BY <1>4 DEF TableNames, Onwards
    <2>2. /\ BuiltAt(q, 0) = a /\ a \in Named
          /\ q.answer # "ok" => Onwards(r, q)
          /\ q.answer = "ok" => Onwards(r, w)
      BY <1>1, <1>3, <1>4, <1>6, <2>1, SettledWell
    <2>3. CASE q.answer # "ok"
      BY <1>2, <1>4, <2>2, <2>3, OnwardsOn
    <2>4. CASE q.answer = "ok"
      <3>1. z = w \/ z \in setElementTypePrefix(w, a)
        BY <1>2, <2>2, <2>4
      <3>2. Onwards(r, w) /\ Steady(w) /\ a \in Named
        BY <2>2, <2>4 DEF Onwards
      <3> HIDE DEF w, a
      <3>3. Onwards(r, z)
        <4>1. CASE z = w
          BY <3>2, <4>1
        <4>2. CASE z \in setElementTypePrefix(w, a)
          BY <3>2, <4>2, PrefixWell, OnwardsOn
        <4> QED  BY <3>1, <4>1, <4>2
      <3> QED  BY <1>4, <3>3, OnwardsOn
    <2> QED  BY <2>3, <2>4
  <1> QED  BY <1>5, <1>6

\* storeAtts, the type of the element: kept before it is looked up again.
LEMMA TagWell ==
  ASSUME HashesAreNumbers, NEW st, Steady(st), NEW n \in Text, NEW z \in TypeOfTag(st, n)
  PROVE  Onwards(st, z)
  <1> DEFINE Keep(r) == {[Kept(r, 0) EXCEPT !.entry = BuiltAt(r, 0)]}
             Look(r) == Looked(r, "types", r.entry)
             Fix(r)  == setElementTypePrefix(r, r.entry)
             t == Append(n, Zero)
  <1>1. t \in Text /\ t # <<>> /\ Len(t) \in Nat /\ 0 < Len(t) /\ t[Len(t)] = Zero
    BY Closed, LenProperties DEF Text
  <1>2. CASE z = st
    BY <1>2 DEF Onwards
  <1>3. CASE z \in Next1(Next1(Next1(Stored(st, t), Keep), Look), Fix)
    <2>1. PICK q \in Next1(Next1(Stored(st, t), Keep), Look) :
            z \in IF q.answer = "ok" THEN Fix(q) ELSE {q}
      BY <1>3 DEF Next1
    <2>2. PICK k \in Next1(Stored(st, t), Keep) : q \in IF k.answer = "ok" THEN Look(k) ELSE {k}
      BY <2>1 DEF Next1
    <2>3. PICK r \in Stored(st, t) : k \in IF r.answer = "ok" THEN Keep(r) ELSE {r}
      BY <2>2 DEF Next1
    <2>4. Onwards(st, r) /\ (r.answer = "ok" => Builds(r.pool, Len(t), Zero))
      BY <1>1, <2>3, StoredOnwards
    <2>5. CASE r.answer # "ok"
      BY <2>1, <2>2, <2>3, <2>4, <2>5
    <2>6. CASE r.answer = "ok"
      <3> DEFINE a == BuiltAt(r, 0)
                 w == Kept(r, 0)
      <3>1. Steady(r) /\ 0 \in Nat /\ r.pool.cur \in Block /\ Builds(r.pool, Len(t), Zero)
        BY <2>4, <2>6 DEF Onwards, Builds
      <3>2. a \in Named /\ a \notin r.marked /\ \A x \in TableNames : a \notin Entries(r.tables[x])
        BY <3>1, BuiltNew
      <3>3. /\ DOMAIN r = Parts /\ Well(r.pool, r.kept, r.tables, r.marked, a)
            /\ a \notin Entries(r.tables["attributes"]) \union r.marked
        <4>1. "attributes" \in TableNames
          BY DEF TableNames
        <4>2. Well(r.pool, r.kept, r.tables, r.marked, a)
          BY <3>1, SteadyHeld DEF Well
        <4> QED  BY <3>1, <3>2, <4>1, <4>2 DEF Steady
      <3>4. /\ Steady(w) /\ w.tables = r.tables /\ w.marked = r.marked /\ w.answer = r.answer
            /\ Held(w.kept, a)
        BY <1>1, <3>1, <3>3, KeptSteady
      <3>5. k = [w EXCEPT !.entry = a]
        BY <2>3, <2>6
      <3> HIDE DEF w, a
      <3>6. /\ DOMAIN k = Parts /\ k.pool = w.pool /\ k.kept = w.kept /\ k.tables = w.tables
            /\ k.marked = w.marked /\ k.answer = "ok" /\ k.entry = a
        BY <2>6, <3>4, <3>5 DEF Steady, Parts
      <3>7. Onwards(r, k) /\ Steady(k)
        BY <3>4, <3>6, OnwardsSame DEF Onwards
      <3>8. q \in Looked(k, "types", a) /\ Held(k.kept, a)
        BY <2>2, <3>4, <3>6
      <3>9. Onwards(k, q) /\ (q.answer = "ok" => q.entry \in Named)
        <4>1. "types" \in TableNames /\ "types" # "attributes"
          BY DEF TableNames
        <4> QED  BY <3>7, <3>8, <4>1, HeldLooked
      <3>10. Onwards(r, q)
        BY <3>7, <3>9, OnwardsOn
      <3>11. CASE q.answer # "ok"
        BY <2>1, <2>4, <3>10, <3>11, OnwardsOn
      <3>12. CASE q.answer = "ok"
        <4>1. z \in setElementTypePrefix(q, q.entry) /\ Steady(q)
          BY <2>1, <3>10, <3>12 DEF Onwards
        <4>2. Onwards(q, z)
          BY <3>9, <3>12, <4>1, PrefixWell
        <4> QED  BY <2>4, <3>10, <4>2, OnwardsOn
      <3> QED  BY <3>11, <3>12
    <2> QED  BY <2>5, <2>6
  <1> QED  BY <1>2, <1>3, Zenon DEF TypeOfTag

-----------------------------------------------------------------------------
\* The prefix of a new attribute (getAttributeId).
LEMMA AttPrefixWell ==
  ASSUME HashesAreNumbers, NEW st, Steady(st), NEW id \in Entries(st.tables["attributes"]),
         st.entry = id, NEW z \in AttPrefix(st, id)
  PROVE  Onwards(st, z) /\ z.entry = id
  <1> DEFINE name == Read(st.pool, id)
             f == [id EXCEPT !.at = @ + 2]
  <1>1. Held(st.kept, id) /\ id \in Named /\ Good(st.pool, st.kept)
    <2>1. Held(st.kept, id) /\ Good(st.pool, st.kept)
      BY SteadyHeld
    <2> QED  BY <2>1 DEF Held
  <1>2. name \in Text /\ Len(name) \in Nat
    BY <1>1, ReadText, LenProperties DEF Good, Typed, Pools, Text
  <1>3. CASE z = st
    BY <1>3 DEF Onwards
  <1>4. CASE IsXmlns(name) /\ Len(name) > 1
    <2>2. PICK q \in Looked(st, "prefixes", f) :
            z = [q EXCEPT !.answer = "ok", !.prefixOf = (id :> q.entry) @@ @, !.entry = id]
      BY <1>4, Zenon DEF AttPrefix
    <2>3. Held(st.kept, f)
      <3>1. 2 \in 1 .. Len(Read(st.pool, id))
        BY <1>2, <1>4
      <3> QED  BY <1>1, <3>1, HeldInside
    <2> HIDE DEF f, name
    <2>4. "prefixes" \in TableNames /\ "prefixes" # "attributes"
      BY DEF TableNames
    <2>5. Onwards(st, q)
      BY <2>2, <2>3, <2>4, HeldLooked
    <2>6. DOMAIN q = Parts
      BY <2>5 DEF Onwards, Steady
    <2>7. /\ DOMAIN z = Parts /\ z.pool = q.pool /\ z.kept = q.kept /\ z.tables = q.tables
          /\ z.marked = q.marked /\ z.entry = id
      BY <2>2, <2>6 DEF Parts
    <2> QED  BY <2>5, <2>7, OnwardsSame
  <1>5. CASE Colons(name) # {} /\ ~IsXmlns(name)
    <2>2. PICK q \in Prefixed(st, id, Prefix(name), "dies") : z = [q EXCEPT !.entry = id]
      BY <1>5, Zenon DEF AttPrefix
    <2> HIDE DEF name
    <2>3. Prefix(name) \in Text
      BY <1>2, <1>5, TextBefore
    <2>4. Onwards(st, q)
      BY <2>2, <2>3, PrefixedWell
    <2>5. DOMAIN q = Parts
      BY <2>4 DEF Onwards, Steady
    <2>6. /\ DOMAIN z = Parts /\ z.pool = q.pool /\ z.kept = q.kept /\ z.tables = q.tables
          /\ z.marked = q.marked /\ z.entry = id
      BY <2>2, <2>5 DEF Parts
    <2> QED  BY <2>4, <2>6, OnwardsSame
  <1> QED  BY <1>3, <1>4, <1>5, Zenon DEF AttPrefix

\* One character before a text and its closing 0.
LEMMA ClosedBehind ==
  ASSUME NEW s \in Text
  PROVE  LET t == <<Zero>> \o Append(s, Zero)
         IN  t \in Text /\ t # <<>> /\ Len(t) \in Nat /\ 1 < Len(t) /\ t[Len(t)] = Zero
  <1> DEFINE u == Append(s, Zero)
             v == <<Zero>>
             C == Char \union {Junk}
  <1>1. u \in Seq(C) /\ Len(u) = Len(s) + 1 /\ Len(s) \in Nat /\ u[Len(u)] = Zero
    BY Closed, LenProperties DEF Text
  <1>2. v \in Seq(C) /\ Len(v) = 1
    BY NamesAssumption
  <1> HIDE DEF u, v, C
  <1>3. /\ v \o u \in Seq(C) /\ Len(v \o u) = Len(v) + Len(u)
        /\ \A i \in 1 .. Len(v) + Len(u) : (v \o u)[i] = IF i <= Len(v) THEN v[i] ELSE u[i - Len(v)]
    BY <1>1, <1>2, ConcatProperties
  <1>4. Len(v \o u) \in 1 .. Len(v) + Len(u) /\ Len(v \o u) - Len(v) = Len(u) /\ ~(Len(v \o u) <= Len(v))
    BY <1>1, <1>2, <1>3
  <1>5. (v \o u)[Len(v \o u)] = Zero
    BY <1>1, <1>3, <1>4
  <1>6. v \o u # <<>> /\ Len(v \o u) \in Nat /\ 1 < Len(v \o u)
    BY <1>1, <1>2, <1>3, EmptySeq
  <1> QED  BY <1>3, <1>5, <1>6 DEF Text, u, v, C

\* getAttributeId
LEMMA AttWell ==
  ASSUME HashesAreNumbers, NEW st, Steady(st), NEW n \in Text, NEW z \in getAttributeId(st, n)
  PROVE  Onwards(st, z) /\ (z.answer = "ok" => z.entry \in Entries(z.tables["attributes"]))
  <1> DEFINE Look(r)   == Looked(r, "attributes", BuiltAt(r, 1))
             Settle(r) == LET a == BuiltAt(r, 1)
                          IN  IF r.entry = a THEN AttPrefix(Settled(r, a, 1), a) ELSE {Settled(r, a, 1)}
             t == <<Zero>> \o Append(n, Zero)
  <1>1. t \in Text /\ t # <<>> /\ Len(t) \in Nat /\ 1 < Len(t) /\ t[Len(t)] = Zero
    BY ClosedBehind
  <1>2. PICK q \in Next1(Stored(st, t), Look) : z \in IF q.answer = "ok" THEN Settle(q) ELSE {q}
    BY DEF getAttributeId, Next1
  <1>3. PICK r \in Stored(st, t) : q \in IF r.answer = "ok" THEN Look(r) ELSE {r}
    BY <1>2 DEF Next1
  <1> HIDE DEF t
  <1>4. Onwards(st, r) /\ (r.answer = "ok" => Builds(r.pool, Len(t), Zero))
    BY <1>1, <1>3, StoredOnwards
  <1>5. CASE r.answer # "ok"
    BY <1>2, <1>3, <1>4, <1>5
  <1>6. CASE r.answer = "ok"
    <2> DEFINE a == BuiltAt(r, 1)
               w == Settled(q, a, 1)
    <2>1. "attributes" \in TableNames /\ Steady(r) /\ 1 \in {0, 1}
      BY <1>4 DEF TableNames, Onwards
    <2>2. q \in Looked(r, "attributes", a) /\ Builds(r.pool, Len(t), Zero)
      BY <1>3, <1>4, <1>6
    <2>3. /\ BuiltAt(q, 1) = a /\ a \in Named
          /\ q.answer # "ok" => q.answer = "nomemory" /\ Onwards(r, q)
          /\ q.answer = "ok" => /\ Onwards(r, w) /\ w.answer = "ok" /\ w.entry = q.entry
                                /\ w.entry \in Named /\ w.entry \in Entries(w.tables["attributes"])
      BY <1>1, <2>1, <2>2, SettledWell
    <2>4. CASE q.answer # "ok"
      BY <1>2, <1>4, <2>3, <2>4, OnwardsOn
    <2>5. CASE q.answer = "ok"
      <3>1. z \in IF q.entry = a THEN AttPrefix(w, a) ELSE {w}
        BY <1>2, <2>3, <2>5
      <3>2. /\ Onwards(r, w) /\ Steady(w) /\ w.entry = q.entry
            /\ w.entry \in Entries(w.tables["attributes"])
        BY <2>3, <2>5 DEF Onwards
      <3> HIDE DEF w, a
      <3>3. Onwards(r, z) /\ z.entry \in Entries(z.tables["attributes"])
        <4>1. CASE z = w
          BY <3>2, <4>1
        <4>2. CASE q.entry = a /\ z \in AttPrefix(w, a)
          <5>1. Onwards(w, z) /\ z.entry = a
            BY <3>2, <4>2, AttPrefixWell
          <5> QED  BY <3>2, <4>2, <5>1, OnwardsOn DEF Onwards
        <4> QED  BY <3>1, <4>1, <4>2
      <3> QED  BY <1>4, <3>3, OnwardsOn
    <2> QED  BY <2>4, <2>5
  <1> QED  BY <1>5, <1>6

-----------------------------------------------------------------------------
\* What is written elsewhere than in finished strings touches none of them.
LEMMA HeapGood ==
  ASSUME NEW p, NEW K, Good(p, K), NEW q \in Pools,
         q.blocks = p.blocks, q.freeBlocks = p.freeBlocks, q.cur = p.cur, q.start = p.start,
         q.ptr = p.ptr, \A b \in Block : Len(q.heap[b]) = Len(p.heap[b]),
         \A k \in K : \A i \in 1 .. Len(k.text) :
           q.heap[k.block][k.at + i] = p.heap[k.block][k.at + i]
  PROVE  Good(q, K)
  <1>1. p \in Pools /\ K \in SUBSET Strings
    BY DEF Good, Typed
  <1>2. End(q) = End(p)
    BY <1>1 DEF End, Pools
  <1>3. Typed(q, K) /\ Behind(q, K) /\ NotFree(q, K) /\ Once(q)
    BY <1>2 DEF Good, Typed, Behind, NotFree, Once
  <1>4. Stay(q, K)
    BY <1>1 DEF Good, Stay, Strings
  <1>5. \A b \in Block : p.heap[b] # <<>> => q.heap[b] # <<>>
    BY <1>1, EmptySeq DEF Pools, Text
  <1>6. /\ \A i \in 1 .. Len(p.blocks) : p.blocks[i] \in Block
        /\ \A j \in 1 .. Len(p.freeBlocks) : p.freeBlocks[j] \in Block
        /\ p.cur # None => p.cur \in Block
    BY <1>1, ElementOfSeq DEF Pools
  <1>7. Allocated(q)
    BY <1>5, <1>6 DEF Good, Allocated
  <1> QED  BY <1>3, <1>4, <1>7 DEF Good

\* A heap that differs from a good one in characters apart from the finished strings.
LEMMA HeapSteady ==
  ASSUME HashesAreNumbers, NEW st, Steady(st), NEW w, DOMAIN w = Parts,
         w.kept = st.kept, w.tables = st.tables, w.marked = st.marked,
         NEW h, w.pool = [st.pool EXCEPT !.heap = h], h \in [Block -> Text],
         \A b \in Block : /\ Len(h[b]) = Len(st.pool.heap[b])
                          /\ \A i \in 1 .. Len(h[b]) :
                               \/ h[b][i] = st.pool.heap[b][i]
                               \/ Apart(st.kept, [block |-> b, at |-> i])
  PROVE  Steady(w)
  <1>1. Good(st.pool, st.kept) /\ \A x \in TableNames : Empty \notin Entries(st.tables[x])
    BY DEF Steady, Well, Entries
  <1>2. /\ w.pool \in Pools /\ w.pool.blocks = st.pool.blocks /\ w.pool.freeBlocks = st.pool.freeBlocks
        /\ w.pool.cur = st.pool.cur /\ w.pool.start = st.pool.start /\ w.pool.ptr = st.pool.ptr
        /\ w.pool.heap = h
    BY <1>1 DEF Good, Typed, Pools
  <1>3. ASSUME NEW k \in st.kept, NEW i \in 1 .. Len(k.text)
        PROVE  h[k.block][k.at + i] = st.pool.heap[k.block][k.at + i]
    <2>1. k.block \in Block /\ k.at \in Nat /\ Len(k.text) \in Nat /\ k.at + i <= Len(st.pool.heap[k.block])
      BY <1>1, LenProperties DEF Good, Typed, Stay, Strings, Text
    <2>2. k.at + i \in 1 .. Len(h[k.block])
      <3>1. Len(h[k.block]) \in Nat /\ Len(h[k.block]) = Len(st.pool.heap[k.block])
        BY <2>1, LenProperties DEF Text
      <3> QED  BY <2>1, <3>1
    <2>3. ~Apart(st.kept, [block |-> k.block, at |-> k.at + i])
      <3> DEFINE e == [block |-> k.block, at |-> k.at + i]
      <3>1. e.block = k.block /\ e.at = k.at + i
        OBVIOUS
      <3> HIDE DEF e
      <3>2. ~(e.at <= k.at) /\ ~(e.at > k.at + Len(k.text))
        BY <2>1, <3>1
      <3> QED  BY <3>1, <3>2 DEF Apart, e
    <2> QED  BY <2>1, <2>2, <2>3
  <1>4. Good(w.pool, st.kept)
    <2> DEFINE p == st.pool
               q == w.pool
    <2>1. /\ q \in Pools /\ q.blocks = p.blocks /\ q.freeBlocks = p.freeBlocks
          /\ q.cur = p.cur /\ q.start = p.start /\ q.ptr = p.ptr /\ q.heap = h
      BY <1>2
    <2>2. \A k \in st.kept : \A i \in 1 .. Len(k.text) :
            q.heap[k.block][k.at + i] = p.heap[k.block][k.at + i]
      BY <1>3, <2>1
    <2>3. \A b \in Block : Len(q.heap[b]) = Len(p.heap[b])
      BY <2>1
    <2>4. Good(p, st.kept)
      BY <1>1
    <2> HIDE DEF p, q
    <2>5. Good(q, st.kept)
      BY <2>1, <2>2, <2>3, <2>4, HeapGood
    <2> QED  BY <2>5 DEF q
  <1>5. Well(w.pool, st.kept, st.tables, st.marked, Empty)
    BY <1>1, <1>4, WellElsewhere DEF Steady
  <1> QED  BY <1>5 DEF Steady

\* The marks come off.
LEMMA UnmarkedWell ==
  ASSUME HashesAreNumbers, NEW st, Steady(st), NEW z \in Unmarked(st)
  PROVE  Steady(z)
  <1> DEFINE h == [b \in Block |-> [i \in 1 .. Len(st.pool.heap[b]) |->
                    IF [block |-> b, at |-> i] \in st.marked THEN Zero ELSE st.pool.heap[b][i]]]
  <1>1. Good(st.pool, st.kept) /\ st.pool.heap \in [Block -> Text] /\ st.pool \in Pools
    BY DEF Steady, Well, Good, Typed, Pools
  <1>2. z = [st EXCEPT !.pool.heap = h]
    BY DEF Unmarked
  <1>3. ASSUME NEW b \in Block
        PROVE  /\ h[b] \in Text /\ Len(h[b]) = Len(st.pool.heap[b])
               /\ \A i \in 1 .. Len(h[b]) : \/ h[b][i] = st.pool.heap[b][i]
                                            \/ Apart(st.kept, [block |-> b, at |-> i])
    <2> DEFINE s == st.pool.heap[b]
    <2>1. s \in Text /\ Len(s) \in Nat
      BY <1>1, LenProperties DEF Text
    <2> HIDE DEF s
    <2>2. \A i \in 1 .. Len(s) : (IF [block |-> b, at |-> i] \in st.marked THEN Zero ELSE s[i]) \in Char \union {Junk}
      BY <2>1, NamesAssumption, ElementOfSeq DEF Text
    <2>3. h[b] = [i \in 1 .. Len(s) |-> IF [block |-> b, at |-> i] \in st.marked THEN Zero ELSE s[i]]
      BY DEF s
    <2> HIDE DEF h
    <2>4. h[b] \in Text /\ Len(h[b]) = Len(s)
      BY <2>1, <2>2, <2>3 DEF Text
    <2>5. \A e \in st.marked : Apart(st.kept, e)
      BY SteadyHeld
    <2>6. \A i \in 1 .. Len(s) : h[b][i] = s[i] \/ [block |-> b, at |-> i] \in st.marked
      BY <2>3
    <2> QED  BY <2>4, <2>5, <2>6 DEF s
  <1>4. h \in [Block -> Text]
    <2>1. \A b \in Block : h[b] \in Text
      BY <1>3
    <2> QED  BY <2>1
  <1> HIDE DEF h
  <1>5. DOMAIN st = Parts
    BY DEF Steady
  <1>6. /\ DOMAIN z = Parts /\ z.kept = st.kept /\ z.tables = st.tables /\ z.marked = st.marked
        /\ z.pool = [st.pool EXCEPT !.heap = h]
    BY <1>2, <1>5 DEF Parts
  <1> QED  BY <1>3, <1>4, <1>6, HeapSteady

\* One name of an attribute is marked.
LEMMA MarkedWell ==
  ASSUME HashesAreNumbers, NEW st, Steady(st), st.entry \in Entries(st.tables["attributes"])
  PROVE  Steady(Marked(st))
  <1> DEFINE e == st.entry
             h == [st.pool.heap EXCEPT ![e.block][e.at] = Mark]
             z == Marked(st)
             w == [z EXCEPT !.marked = st.marked]
  <1>1. /\ Good(st.pool, st.kept) /\ st.pool.heap \in [Block -> Text] /\ st.pool \in Pools
        /\ DOMAIN st = Parts
    BY DEF Steady, Well, Good, Typed, Pools
  <1>2. Held(st.kept, e) /\ Apart(st.kept, e) /\ e \in Named
    <2>1. Held(st.kept, e) /\ Apart(st.kept, e)
      BY SteadyHeld
    <2> QED  BY <2>1 DEF Held
  <1>3. /\ DOMAIN z = Parts /\ z.kept = st.kept /\ z.tables = st.tables
        /\ z.marked = st.marked \union {e} /\ z.pool = [st.pool EXCEPT !.heap = h]
    BY <1>1 DEF Marked, Parts
  <1>4. /\ DOMAIN w = Parts /\ w.kept = st.kept /\ w.tables = st.tables
        /\ w.marked = st.marked /\ w.pool = z.pool
    <2> HIDE DEF z
    <2> QED  BY <1>3 DEF Parts
  <1>5. e = [block |-> e.block, at |-> e.at] /\ e.block \in Block
    BY <1>2 DEF Named
  <1>6. ASSUME NEW b \in Block
        PROVE  /\ h[b] \in Text /\ Len(h[b]) = Len(st.pool.heap[b])
               /\ \A i \in 1 .. Len(h[b]) : \/ h[b][i] = st.pool.heap[b][i]
                                            \/ Apart(st.kept, [block |-> b, at |-> i])
    <2> DEFINE s == st.pool.heap[b]
    <2>1. s \in Text /\ s \in Seq(Char \union {Junk}) /\ Mark \in Char \union {Junk}
      BY <1>1, NamesAssumption DEF Text
    <2>2. h[b] = IF b = e.block THEN [s EXCEPT ![e.at] = Mark] ELSE s
      BY <1>1
    <2> HIDE DEF s, h
    <2>3. [s EXCEPT ![e.at] = Mark] \in Text /\ Len([s EXCEPT ![e.at] = Mark]) = Len(s)
      <3>1. CASE e.at \in 1 .. Len(s)
        BY <2>1, <3>1, ExceptSeq DEF Text
      <3>2. CASE e.at \notin 1 .. Len(s)
        <4>1. DOMAIN s = 1 .. Len(s) /\ s = [i \in DOMAIN s |-> s[i]]
          BY <2>1, LenProperties
        <4>2. [s EXCEPT ![e.at] = Mark] = s
          BY <3>2, <4>1
        <4> QED  BY <2>1, <4>2
      <3> QED  BY <3>1, <3>2
    <2>4. ASSUME NEW i \in 1 .. Len(s), ~(b = e.block /\ i = e.at) PROVE h[b][i] = s[i]
      BY <2>1, <2>2, <2>4
    <2> QED  BY <1>2, <1>5, <2>1, <2>2, <2>3, <2>4 DEF s
  <1>7. h \in [Block -> Text]
    <2>1. \A b \in Block : h[b] \in Text
      BY <1>6
    <2>2. DOMAIN h = Block /\ h = [b \in Block |-> h[b]]
      BY <1>1
    <2> HIDE DEF h
    <2> QED  BY <2>1, <2>2
  <1> HIDE DEF h, w, z
  <1>8. Steady(w)
    BY <1>3, <1>4, <1>6, <1>7, HeapSteady
  <1>9. Well(z.pool, z.kept, z.tables, z.marked, Empty)
    BY <1>2, <1>3, <1>4, <1>8 DEF Steady, Well
  <1> QED  BY <1>3, <1>9 DEF Steady, z

\* storeAtts, an attribute: found or entered, and marked.
LEMMA AttributeWell ==
  ASSUME HashesAreNumbers, NEW st, Steady(st), NEW n \in Text, NEW z \in Attribute(st, n)
  PROVE  Steady(z)
  <1> DEFINE Check(r) == {IF Before(r) # Zero THEN Ends(r, "duplicate") ELSE Marked(r)}
  <1>1. PICK r \in getAttributeId(st, n) : z \in IF r.answer = "ok" THEN Check(r) ELSE {r}
    BY DEF Attribute, Next1
  <1>2. Steady(r) /\ (r.answer = "ok" => r.entry \in Entries(r.tables["attributes"]))
    BY <1>1, AttWell DEF Onwards
  <1>3. z = r \/ z = Ends(r, "duplicate") \/ (r.answer = "ok" /\ z = Marked(r))
    BY <1>1
  <1>4. CASE z = Ends(r, "duplicate")
    <2>1. /\ DOMAIN z = Parts /\ z.pool = r.pool /\ z.kept = r.kept /\ z.tables = r.tables
          /\ z.marked = r.marked
      BY <1>2, <1>4 DEF Ends, Steady, Parts
    <2> QED  BY <1>2, <2>1 DEF Steady
  <1> QED  BY <1>2, <1>3, <1>4, MarkedWell

-----------------------------------------------------------------------------
\* The states that one more attribute may leave.
OneMore(R, a) == UNION {IF r.answer = "ok" THEN Attribute(r, a) ELSE {r} : r \in R}

\* f is what the recursion of storeAtts defines, up to m.
TagTo(f, st, n, atts, m) ==
  f = [i \in 0 .. m |-> IF i = 0 THEN TypeOfTag(st, n)
                        ELSE LET Take(r) == Attribute(r, atts[i]) IN Next1(f[i - 1], Take)]

\* storeAtts: f[i] is what the attributes up to i may leave.
TagSteps(f, st, n, atts) ==
  /\ \A i \in 0 .. Len(atts) : f[i] = IF i = 0 THEN TypeOfTag(st, n) ELSE OneMore(f[i - 1], atts[i])
  /\ storeAtts(st, n, atts) = Next1(f[Len(atts)], Unmarked)

\* The recursion of storeAtts has such an f.
LEMMA StoreAttsSteps ==
  ASSUME NEW st, NEW n, NEW atts, Len(atts) \in Nat
  PROVE  \E f : TagSteps(f, st, n, atts)
  <1> DEFINE m == Len(atts)
  <1>1. m \in Nat
    OBVIOUS
  <1>2. \A f, i : (LET Take(r) == Attribute(r, atts[i]) IN Next1(f[i - 1], Take)) = OneMore(f[i - 1], atts[i])
    BY DEF Next1, OneMore
  <1>3. \A f, j : TagTo(f, st, n, atts, j) <=>
                    f = [i \in 0 .. j |-> IF i = 0 THEN TypeOfTag(st, n) ELSE OneMore(f[i - 1], atts[i])]
    BY DEF TagTo, Next1, OneMore
  <1>4. \E f : TagTo(f, st, n, atts, m)
    <2> DEFINE T == {i \in 0 .. m : \E f : TagTo(f, st, n, atts, i)}
               base == TypeOfTag(st, n)
               step(S, i) == OneMore(S, atts[i])
    <2>1. 0 \in T
      <3> DEFINE g == [i \in 0 .. 0 |-> base]
      <3> HIDE DEF base
      <3>1. g = [i \in 0 .. 0 |-> IF i = 0 THEN base ELSE OneMore(g[i - 1], atts[i])]
        OBVIOUS
      <3> HIDE DEF g
      <3>2. TagTo(g, st, n, atts, 0)
        BY <1>3, <3>1 DEF base
      <3>3. 0 \in 0 .. m
        BY <1>1
      <3> QED  BY <3>2, <3>3
    <2>2. ASSUME NEW i \in 1 .. m, i - 1 \in T PROVE i \in T
      <3>1. PICK f : TagTo(f, st, n, atts, i - 1)
        BY <2>2
      <3> DEFINE g == [j \in 0 .. i |-> IF j = i THEN step(f[i - 1], i) ELSE f[j]]
      <3>2. f = [j \in 0 .. i - 1 |-> IF j = 0 THEN base ELSE step(f[j - 1], j)]
        BY <1>3, <3>1
      <3> HIDE DEF step, base
      <3>3. \A j \in 0 .. i - 1 : f[j] = IF j = 0 THEN base ELSE step(f[j - 1], j)
        BY <3>2
      <3>4. \A j \in 0 .. i : j = i \/ (j \in 0 .. i - 1 /\ (j = 0 \/ j - 1 \in 0 .. i - 1))
        BY <1>1
      <3>5. \A j \in 0 .. i : j = 0 \/ g[j - 1] = f[j - 1]
        <4>1. \A j \in 1 .. i : j - 1 \in 0 .. i /\ j - 1 # i
          BY <1>1
        <4>2. \A j \in 0 .. i : j = 0 \/ j \in 1 .. i
          BY <1>1
        <4> QED  BY <4>1, <4>2
      <3>6. g = [j \in 0 .. i |-> IF j = 0 THEN base ELSE step(g[j - 1], j)]
        <4>1. \A j \in 0 .. i : (IF j = i THEN step(f[i - 1], i) ELSE f[j])
                                = IF j = 0 THEN base ELSE step(g[j - 1], j)
          <5> HIDE DEF g
          <5>1. i # 0
            BY <1>1
          <5> QED  BY <3>3, <3>4, <3>5, <5>1
        <4> QED  BY <4>1
      <3> HIDE DEF g
      <3>7. TagTo(g, st, n, atts, i)
        BY <1>3, <3>6 DEF step, base
      <3>8. i \in 0 .. m
        BY <1>1
      <3> QED  BY <3>7, <3>8
    <2>3. \A i \in 0 .. m : i \in T
      <3> HIDE DEF T
      <3> QED  BY <1>1, <2>1, <2>2, Climb
    <2>4. m \in 0 .. m
      BY <1>1
    <2> QED  BY <2>3, <2>4
  <1> DEFINE f == CHOOSE g : TagTo(g, st, n, atts, m)
  <1>5. storeAtts(st, n, atts) = Next1(f[m], Unmarked)
    BY Zenon DEF storeAtts, TagTo
  <1>6. TagTo(f, st, n, atts, m)
    BY <1>4
  <1> HIDE DEF f
  <1>7. \A i \in 0 .. m : f[i] = IF i = 0 THEN TypeOfTag(st, n) ELSE OneMore(f[i - 1], atts[i])
    <2>1. f = [i \in 0 .. m |-> IF i = 0 THEN TypeOfTag(st, n) ELSE OneMore(f[i - 1], atts[i])]
      BY <1>3, <1>6
    <2> QED  BY <2>1
  <1> QED  BY <1>5, <1>7 DEF TagSteps

\* storeAtts, the whole tag.
LEMMA StoreAttsWell ==
  ASSUME HashesAreNumbers, NEW st, Steady(st), NEW n \in Text, NEW atts \in Seq(Text),
         NEW z \in storeAtts(st, n, atts)
  PROVE  Steady(z)
  <1> DEFINE m == Len(atts)
  <1>1. m \in Nat /\ \A i \in 1 .. m : atts[i] \in Text
    BY LenProperties, ElementOfSeq
  <1>2. PICK f : TagSteps(f, st, n, atts)
    BY <1>1, StoreAttsSteps
  <1>3. storeAtts(st, n, atts) = Next1(f[m], Unmarked)
    BY <1>2 DEF TagSteps
  <1>4. \A i \in 0 .. m : f[i] = IF i = 0 THEN TypeOfTag(st, n) ELSE OneMore(f[i - 1], atts[i])
    BY <1>2 DEF TagSteps
  <1> DEFINE U == {i \in 0 .. m : \A r \in f[i] : Steady(r)}
  <1>5. 0 \in U
    <2>1. 0 \in 0 .. m
      BY <1>1
    <2>2. f[0] = TypeOfTag(st, n)
      BY <1>4, <2>1
    <2> QED  BY <2>1, <2>2, TagWell DEF Onwards
  <1>6. ASSUME NEW i \in 1 .. m, i - 1 \in U PROVE i \in U
    <2>1. i \in 0 .. m /\ i # 0 /\ i - 1 \in 0 .. m
      BY <1>1
    <2>2. f[i] = OneMore(f[i - 1], atts[i]) /\ atts[i] \in Text
      BY <1>1, <1>4, <2>1
    <2>3. ASSUME NEW w \in f[i] PROVE Steady(w)
      <3>1. PICK r \in f[i - 1] : w \in IF r.answer = "ok" THEN Attribute(r, atts[i]) ELSE {r}
        BY <2>2 DEF OneMore
      <3>2. Steady(r)
        BY <1>6, <3>1
      <3> QED  BY <2>2, <3>1, <3>2, AttributeWell
    <2> QED  BY <2>1, <2>3
  <1>7. \A i \in 0 .. m : i \in U
    <2> HIDE DEF U
    <2> QED  BY <1>1, <1>5, <1>6, Climb
  <1>8. m \in 0 .. m
    BY <1>1
  <1>9. PICK r \in f[m] : z \in IF r.answer = "ok" THEN Unmarked(r) ELSE {r}
    BY <1>3 DEF Next1
  <1>10. Steady(r)
    BY <1>7, <1>8, <1>9
  <1> QED  BY <1>9, <1>10, UnmarkedWell

-----------------------------------------------------------------------------
\* Between two calls no attribute is marked and every entry is held.
NamesInv == Well(pool, kept, tables, {}, Empty)

\* The parser is created.
LEMMA NamesBegin ==
  ASSUME NamesInit
  PROVE  NamesInv
  <1>1. Good(pool, kept)
    BY InitGood DEF NamesInit
  <1>2. DOMAIN tables = TableNames /\ \A x \in TableNames : tables[x] = NoTable
    BY DEF NamesInit, TableNames
  <1>3. DOMAIN NoTable = {"size", "used", "v"} /\ NoTable.size = 0 /\ NoTable.used = 0 /\ NoTable.v = <<>>
    BY DEF NoTable
  <1>4. Sound(pool, NoTable) /\ Entries(NoTable) = {}
    BY <1>3, NoEntries DEF Sound
  <1>5. "attributes" \in TableNames
    BY DEF TableNames
  <1> QED  BY <1>1, <1>2, <1>4, <1>5 DEF NamesInv, Well

\* A call takes up a steady state, and what it leaves is steady but for the marks.
LEMMA NowSteady ==
  ASSUME NamesInv
  PROVE  Steady(Now)
  <1>1. /\ DOMAIN Now = Parts /\ Now.pool = pool /\ Now.kept = kept /\ Now.tables = tables
        /\ Now.marked = {}
    BY DEF Now, Parts
  <1> QED  BY <1>1 DEF NamesInv, Steady

\* Every step of the parser.
LEMMA NamesStep ==
  ASSUME HashesAreNumbers, NamesInv, [NamesNext]_<<vars, tableVars>>
  PROVE  Well(pool', kept', tables', {}, Empty)
  <1>1. ASSUME NEW st, Steady(st), pool' = st.pool, kept' = st.kept, tables' = st.tables
        PROVE  Well(pool', kept', tables', {}, Empty)
    BY <1>1 DEF Steady, Well
  <1>2. \A n \in TypeName \union AttName : n \in Text
    <2>1. \A n \in Seq(Char \ {Zero}) : n \in Text
      BY DEF Text
    <2> QED  BY <2>1, NamesAssumption
  <1>3. ASSUME NEW n \in TypeName, ElementType(n)
        PROVE  Well(pool', kept', tables', {}, Empty)
    <2>1. PICK st \in getElementType(Now, n) : pool' = st.pool /\ kept' = st.kept /\ tables' = st.tables
      BY <1>3 DEF ElementType, Call
    <2>2. Steady(st)
      BY <1>2, <2>1, NowSteady, TypeWell DEF Onwards
    <2> QED  BY <1>1, <2>1, <2>2
  <1>4. ASSUME NEW n \in TypeName, NEW atts \in AttLists, StartTag(n, atts)
        PROVE  Well(pool', kept', tables', {}, Empty)
    <2>1. PICK st \in storeAtts(Now, n, atts) : pool' = st.pool /\ kept' = st.kept /\ tables' = st.tables
      BY <1>4 DEF StartTag, Call
    <2>2. atts \in Seq(Text)
      <3>1. \A a \in AttName : a \in Text
        BY <1>2
      <3>2. CASE atts = <<>>
        BY <3>2, EmptySeq
      <3>3. CASE \E a \in AttName : atts = <<a>>
        BY <3>1, <3>3
      <3>4. CASE atts \in AttName \X AttName
        <4>1. PICK a \in AttName, b \in AttName : atts = <<a, b>>
          BY <3>4
        <4>2. a \in Text /\ b \in Text
          BY <3>1
        <4> QED  BY <4>1, <4>2
      <3> QED  BY <3>2, <3>3, <3>4 DEF AttLists
    <2>3. Steady(st)
      BY <1>2, <2>1, <2>2, NowSteady, StoreAttsWell
    <2> QED  BY <1>1, <2>1, <2>3
  <1>5. CASE Reset
    <2>1. /\ pool' = Cleared(pool) /\ kept' = {}
          /\ tables' = [x \in DOMAIN tables |-> TableCleared(tables[x])]
      BY <1>5 DEF Reset, Clear
    <2>2. Good(pool', kept')
      BY <2>1, ClearedGood DEF NamesInv, Well
    <2>3. DOMAIN tables' = TableNames /\ \A x \in TableNames : tables'[x] = TableCleared(tables[x])
      BY <2>1 DEF NamesInv, Well
    <2>4. \A x \in TableNames : Sound(pool', tables'[x]) /\ Entries(tables'[x]) = {}
      BY <2>3, SoundCleared DEF NamesInv, Well
    <2>5. "attributes" \in TableNames
      BY DEF TableNames
    <2> QED  BY <2>2, <2>3, <2>4, <2>5 DEF Well
  <1>6. CASE UNCHANGED <<vars, tableVars>>
    <2>1. pool' = pool /\ kept' = kept /\ tables' = tables
      BY <1>6 DEF vars, tableVars
    <2> QED  BY <2>1 DEF NamesInv
  <1> QED  BY <1>3, <1>4, <1>5, <1>6 DEF NamesNext

\* In what is well, every name is found and every search ends.
LEMMA NamesFound ==
  ASSUME HashesAreNumbers, NamesInv
  PROVE  TableSound
  <1>1. DOMAIN tables = TableNames /\ \A x \in TableNames : Sound(pool, tables[x])
    BY DEF NamesInv, Well
  <1>2. EntriesAreFound
    BY <1>1, SoundFinds DEF EntriesAreFound
  <1>3. \A n \in TypeName \union AttName : Hash(n) \in Nat
    <2>1. \A n \in Seq(Char \ {Zero}) : n \in Text
      BY DEF Text
    <2> QED  BY <2>1, NamesAssumption DEF HashesAreNumbers
  <1>4. SearchesEnd
    <2> SUFFICES ASSUME NEW x \in TableNames
                 PROVE  LET t == tables[x]
                        IN  /\ t.used = Cardinality(Entries(t)) /\ 2 * t.used <= t.size
                            /\ t.size > 0 => \A h \in {Hash(s) : s \in TypeName \union AttName} :
                                 \E k \in 0 .. t.size - 1 : t.v[Probe(h, t.size, k)] = Empty
      BY <1>1 DEF SearchesEnd
    <2> DEFINE t == tables[x]
    <2>1. Sound(pool, t)
      BY <1>1
    <2> HIDE DEF t
    <2>2. /\ t.used = Cardinality(Entries(t)) /\ 2 * t.used <= t.size
          /\ t.size > 0 => \A h \in Nat : \E k \in 0 .. t.size - 1 : t.v[Probe(h, t.size, k)] = Empty
      BY <2>1, SoundFinds
    <2>3. \A h \in {Hash(s) : s \in TypeName \union AttName} : h \in Nat
      BY <1>3
    <2>4. t.size > 0 => \A h \in {Hash(s) : s \in TypeName \union AttName} :
            \E k \in 0 .. t.size - 1 : t.v[Probe(h, t.size, k)] = Empty
      BY <2>2, <2>3
    <2> QED  BY <2>2, <2>4 DEF t
  <1> QED  BY <1>2, <1>4 DEF TableSound

(***************************************************************************)
(* Between the calls every table is sound, and every entry points into a   *)
(* finished string, where no mark and no growing pool touches its name.    *)
(***************************************************************************)
THEOREM NamesInvCorrect == ASSUME HashesAreNumbers PROVE NamesSpec => []NamesInv
  <1>1. NamesInit => NamesInv
    BY NamesBegin
  <1>2. NamesInv /\ [NamesNext]_<<vars, tableVars>> => NamesInv'
    <2>1. Well(pool', kept', tables', {}, Empty) => NamesInv'
      BY DEF NamesInv
    <2> QED  BY <2>1, NamesStep
  <1> QED  BY <1>1, <1>2, PTL DEF NamesSpec

(***************************************************************************)
(* Every name in the tables is found again, no name has two entries, and   *)
(* a search that fails ends: for every hash, set of names, size of the     *)
(* first table and failure of memory (lookup, PROBE_STEP, getElementType,  *)
(* getAttributeId, storeAtts, hashTableClear).                             *)
(***************************************************************************)
THEOREM TablesCorrect == ASSUME HashesAreNumbers PROVE NamesSpec => []TableSound
  <1>1. NamesInv => TableSound
    BY NamesFound
  <1> QED  BY <1>1, NamesInvCorrect, PTL

(***************************************************************************)
(* The pool is safe under the calls of the parser, which write a mark into *)
(* it before the name of an attribute and take it off again (storeAtts).   *)
(***************************************************************************)
THEOREM NamesPoolCorrect == ASSUME HashesAreNumbers PROVE NamesSpec => []PoolSafe
  <1>1. NamesInv => PoolSafe
    BY DEF NamesInv, Well, Good, Typed, Once, Stay, Pools, Strings, PoolSafe, TypeOK, NoBlockTwice, KeptStay
  <1> QED  BY <1>1, NamesInvCorrect, PTL

-----------------------------------------------------------------------------
(***************************************************************************)
(* The names the tables hold, from here on: XmlNames implements NameSet.   *)
(* What is built in the pool is the first n of the characters s.           *)
(***************************************************************************)
Spelled(p, s, n) ==
  p.ptr = p.start + n /\ \A i \in 1 .. n : p.heap[p.cur][p.start + i] = s[i]

\* What is built is copied along when a block is taken or made larger.
LEMMA GrownSpelled ==
  ASSUME NEW p, NEW K, Good(p, K), p.ok, NEW s, NEW n \in Nat, Spelled(p, s, n),
         NEW q \in Grown(p), q.ok
  PROVE  Spelled(q, s, n)
  <1> DEFINE h == p.heap[p.cur]
  <1>1. /\ p.start \in Nat /\ p.ptr \in Nat /\ p.start <= p.ptr /\ p.ptr <= End(p)
        /\ p.cur \in Block \union {None} /\ p.heap \in [Block -> Text] /\ p.ptr = p.start + n
        /\ DOMAIN p = {"heap", "blocks", "freeBlocks", "cur", "start", "ptr", "ok"}
    BY DEF Good, Typed, Pools, Spelled
  <1>2. \A b, g, bs, fs : /\ Moved(p, b, g, bs, fs).start = 0 /\ Moved(p, b, g, bs, fs).ptr = n
                          /\ Moved(p, b, g, bs, fs).cur = b /\ Moved(p, b, g, bs, fs).heap = g
    BY <1>1 DEF Moved
  <1>3. Failed(p).ok = FALSE /\ [Failed(p) EXCEPT !.blocks = <<>>].ok = FALSE
    BY <1>1 DEF Failed
  <1>4. q = Reused(p) \/ (Alone(p) /\ q \in Enlarged(p)) \/ q \in Renewed(p)
    BY DEF Grown
  <1>5. CASE n = 0
    <2>1. \E b, g, bs, fs : q = Moved(p, b, g, bs, fs)
      <3>1. CASE q = Reused(p)
        BY <3>1, Zenon DEF Reused
      <3>2. CASE q \in Enlarged(p)
        BY <1>3, <3>2 DEF Enlarged
      <3>3. CASE q \in Renewed(p)
        BY <1>3, <3>3 DEF Renewed
      <3> QED  BY <1>4, <3>1, <3>2, <3>3
    <2>2. q.start = 0 /\ q.ptr = 0
      BY <1>2, <1>5, <2>1
    <2> QED  BY <1>5, <2>2 DEF Spelled
  <1>6. CASE n > 0
    <2>1. /\ p.cur # None /\ p.cur \in Block /\ h \in Seq(Char \union {Junk}) /\ Len(h) \in Nat
          /\ p.ptr <= Len(h) /\ End(p) = Len(h)
      BY <1>1, <1>6, LenProperties DEF End, Text
    <2>2. \A i \in 1 .. n : h[p.start + i] = s[i]
      BY DEF Spelled
    <2> HIDE DEF h
    <2>3. ASSUME NEW m \in Int, n <= m, p.start + m <= Len(h)
          PROVE  LET u == SubSeq(h, p.start + 1, p.start + m)
                 IN  /\ u \in Seq(Char \union {Junk}) /\ Len(u) = m
                     /\ \A i \in 1 .. n : u[i] = s[i]
      <3> DEFINE a == p.start
                 u == SubSeq(h, a + 1, (a + m + 1) - 1)
      <3>1. a \in Nat /\ a + m + 1 \in Int /\ a < a + m + 1
        BY <1>1, <1>6, <2>3
      <3>2. \A i \in a + 1 .. (a + m + 1) - 1 : h[i] \in Char \union {Junk}
        <4>1. \A i \in a + 1 .. (a + m + 1) - 1 : i \in 1 .. Len(h)
          BY <1>1, <2>3
        <4> QED  BY <2>1, <4>1, ElementOfSeq
      <3>3. /\ u \in Seq(Char \union {Junk}) /\ Len(u) = ((a + m + 1) - 1) - (a + 1) + 1
            /\ \A i \in 1 .. ((a + m + 1) - 1) - (a + 1) + 1 : u[i] = h[a + 1 + i - 1]
        <4> HIDE DEF a
        <4> QED  BY <3>1, <3>2, PartOf
      <3>4. ((a + m + 1) - 1) - (a + 1) + 1 = m /\ (a + m + 1) - 1 = a + m
        BY <3>1, <2>3
      <3>5. \A i \in 1 .. n : i \in 1 .. m /\ a + 1 + i - 1 = a + i
        BY <2>3, <3>1
      <3>6. u = SubSeq(h, p.start + 1, p.start + m)
        BY <3>4
      <3> HIDE DEF u
      <3>7. \A i \in 1 .. n : u[i] = s[i]
        <4> SUFFICES ASSUME NEW i \in 1 .. n PROVE u[i] = s[i]
          OBVIOUS
        <4>1. u[i] = h[a + 1 + i - 1]
          BY <3>3, <3>4, <3>5
        <4> QED  BY <2>2, <3>5, <4>1
      <3> QED  BY <3>3, <3>4, <3>6, <3>7
    <2>4. ASSUME NEW b \in Block, NEW u \in Seq(Char \union {Junk}), NEW v \in Seq(Char \union {Junk}),
                 NEW g, g[b] = u \o v, NEW bs, NEW fs, q = Moved(p, b, g, bs, fs), n <= Len(u),
                 \A i \in 1 .. n : u[i] = s[i]
          PROVE  Spelled(q, s, n)
      <3>1. q.start = 0 /\ q.ptr = n /\ q.cur = b /\ q.heap = g
        BY <1>2, <2>4
      <3>2. Len(u) \in Nat /\ Len(v) \in Nat
        BY LenProperties
      <3>3. \A i \in 1 .. Len(u) + Len(v) : (u \o v)[i] = IF i <= Len(u) THEN u[i] ELSE v[i - Len(u)]
        BY ConcatProperties
      <3>4. \A i \in 1 .. n : i \in 1 .. Len(u) + Len(v) /\ i <= Len(u) /\ 0 + i = i
        BY <2>4, <3>2
      <3>5. \A i \in 1 .. n : g[b][0 + i] = s[i]
        BY <2>4, <3>3, <3>4
      <3>6. n = 0 + n
        OBVIOUS
      <3> QED  BY <3>1, <3>5, <3>6 DEF Spelled
    <2>5. CASE q = Reused(p) /\ MayReuse(p)
      <3> DEFINE b == Head(p.freeBlocks)
                 u == Rest(p)
                 t == p.heap[b]
                 v == SubSeq(t, Len(u) + 1, Len(t))
                 g == [p.heap EXCEPT ![b] = Over(u, @)]
      <3>1. b \in Block /\ t \in Seq(Char \union {Junk}) /\ Len(t) \in Nat
        <4>1. p.freeBlocks \in Seq(Block) /\ p.freeBlocks # <<>>
          BY <2>5 DEF Good, Typed, Pools, MayReuse
        <4>2. b \in Block
          BY <4>1, HeadTailProperties
        <4> QED  BY <1>1, <4>2, LenProperties DEF Text
      <3>2. u \in Seq(Char \union {Junk}) /\ n <= Len(u) /\ Len(u) \in Nat /\ \A i \in 1 .. n : u[i] = s[i]
        <4>1. u = SubSeq(h, p.start + 1, p.start + (Len(h) - p.start))
          <5>1. p.start + (Len(h) - p.start) = Len(h)
            BY <1>1, <2>1
          <5> QED  BY <2>1, <5>1 DEF Rest, h
        <4>2. n <= Len(h) - p.start /\ p.start + (Len(h) - p.start) <= Len(h) /\ Len(h) - p.start \in Int
          BY <1>1, <2>1
        <4>3. u \in Seq(Char \union {Junk}) /\ Len(u) = Len(h) - p.start /\ \A i \in 1 .. n : u[i] = s[i]
          BY <2>3, <4>1, <4>2
        <4> QED  BY <4>2, <4>3, LenProperties
      <3>3. g[b] = u \o v
        BY <1>1, <3>1 DEF Over
      <3>4. v \in Seq(Char \union {Junk})
        <4>1. \A i \in Len(u) + 1 .. Len(t) : t[i] \in Char \union {Junk}
          <5>1. \A i \in Len(u) + 1 .. Len(t) : i \in 1 .. Len(t)
            BY <3>1, <3>2
          <5> QED  BY <3>1, <5>1, ElementOfSeq
        <4>2. Len(u) + 1 \in Int /\ Len(t) \in Int
          BY <3>1, <3>2
        <4> HIDE DEF u, t
        <4> QED  BY <4>1, <4>2, SubSeqProperties
      <3>5. q = Moved(p, b, g, <<b>> \o p.blocks, Tail(p.freeBlocks))
        BY <2>5, Zenon DEF Reused
      <3> HIDE DEF b, u, v, g
      <3> QED  BY <2>4, <3>1, <3>2, <3>3, <3>4, <3>5
    <2>6. CASE Alone(p) /\ q \in Enlarged(p)
      <3> DEFINE u == h
                 v == Blank(End(p))
      <3>1. PICK b \in Fresh(p) \union {p.cur} :
              q = Moved(p, b, [p.heap EXCEPT ![p.cur] = <<>>, ![b] = u \o v],
                        <<b>> \o Tail(p.blocks), p.freeBlocks)
        BY <1>3, <2>6 DEF Enlarged, h
      <3> DEFINE g == [p.heap EXCEPT ![p.cur] = <<>>, ![b] = u \o v]
      <3>2. b \in Block /\ p.start = 0
        BY <2>1, <2>6 DEF Fresh, Alone
      <3>3. g[b] = u \o v
        BY <1>1, <2>1, <3>2
      <3>4. v \in Seq(Char \union {Junk})
        BY <2>1 DEF Blank
      <3>5. n <= Len(u) /\ \A i \in 1 .. n : u[i] = s[i]
        BY <1>1, <2>1, <2>2, <3>2
      <3> HIDE DEF g, v
      <3>6. q = Moved(p, b, g, <<b>> \o Tail(p.blocks), p.freeBlocks)
        BY <3>1 DEF g
      <3> QED  BY <2>1, <2>4, <3>2, <3>3, <3>4, <3>5, <3>6
    <2>7. CASE q \in Renewed(p)
      <3> DEFINE rest == End(p) - p.start
                 size == IF rest < InitBlockSize THEN InitBlockSize ELSE 2 * rest
                 u == Current(p)
                 v == SubSeq(Blank(size), Len(u) + 1, Len(Blank(size)))
      <3>1. PICK b \in Fresh(p) :
              q = Moved(p, b, [p.heap EXCEPT ![b] = Over(u, Blank(size))], <<b>> \o p.blocks, p.freeBlocks)
        BY <1>3, <2>7 DEF Renewed
      <3> DEFINE g == [p.heap EXCEPT ![b] = Over(u, Blank(size))]
      <3>2. b \in Block
        BY DEF Fresh
      <3>3. size \in Nat
        BY <1>1, <2>1, SizeAssumption
      <3>4. u \in Seq(Char \union {Junk}) /\ n <= Len(u) /\ Len(u) \in Nat /\ \A i \in 1 .. n : u[i] = s[i]
        <4>1. u = SubSeq(h, p.start + 1, p.start + n)
          BY <1>1, <2>1 DEF Current, h
        <4>2. n \in Int /\ n <= n /\ p.start + n <= Len(h)
          BY <1>1, <2>1
        <4>3. u \in Seq(Char \union {Junk}) /\ Len(u) = n /\ \A i \in 1 .. n : u[i] = s[i]
          BY <2>3, <4>1, <4>2
        <4> QED  BY <4>3
      <3> HIDE DEF size, rest
      <3>5. g[b] = u \o v
        BY <1>1, <3>2 DEF Over
      <3>6. v \in Seq(Char \union {Junk})
        <4> DEFINE t == Blank(size)
        <4>1. t \in Seq(Char \union {Junk}) /\ Len(t) = size
          BY <3>3, BlankLength DEF Text
        <4> HIDE DEF t, u
        <4>2. \A i \in Len(u) + 1 .. Len(t) : t[i] \in Char \union {Junk}
          <5>1. \A i \in Len(u) + 1 .. Len(t) : i \in 1 .. Len(t)
            BY <3>3, <3>4, <4>1
          <5> QED  BY <4>1, <5>1, ElementOfSeq
        <4>3. Len(u) + 1 \in Int /\ Len(t) \in Int
          BY <3>3, <3>4, <4>1
        <4>4. SubSeq(t, Len(u) + 1, Len(t)) \in Seq(Char \union {Junk})
          BY <4>2, <4>3, SubSeqProperties
        <4> QED  BY <4>4 DEF t
      <3> HIDE DEF u, v, g
      <3>7. q = Moved(p, b, g, <<b>> \o p.blocks, p.freeBlocks)
        BY <3>1 DEF g, size, rest
      <3> QED  BY <2>4, <3>2, <3>4, <3>5, <3>6, <3>7
    <2>8. q = Reused(p) => MayReuse(p) \/ (Alone(p) /\ q \in Enlarged(p)) \/ q \in Renewed(p)
      BY DEF Grown
    <2> QED  BY <1>4, <2>5, <2>6, <2>7, <2>8
  <1> QED  BY <1>5, <1>6

\* poolAppendChar adds a character to what is built.
LEMMA AppendedSpelled ==
  ASSUME NEW p, NEW K, Good(p, K), p.ok, NEW s, NEW n \in Nat, Spelled(p, s, n),
         s[n + 1] \in Char \union {Junk}, NEW q \in Appended(p, s[n + 1]), q.ok
  PROVE  Spelled(q, s, n + 1)
  <1>1. ASSUME NEW r, Good(r, K), r.ptr < End(r), Spelled(r, s, n)
        PROVE  Spelled(Written(r, s[n + 1]), s, n + 1)
    <2> DEFINE w == Written(r, s[n + 1])
    <2>1. /\ r.cur \in Block \union {None} /\ r.start \in Nat /\ r.ptr \in Nat
          /\ r.heap \in [Block -> Text] /\ r.ptr = r.start + n
      BY <1>1 DEF Good, Typed, Pools, Spelled
    <2>2. r.cur \in Block /\ r.ptr + 1 \in 1 .. Len(r.heap[r.cur])
      BY <1>1, <2>1, LenProperties DEF End, Text
    <2>3. DOMAIN r.heap[r.cur] = 1 .. Len(r.heap[r.cur])
      BY <2>1, <2>2, LenProperties DEF Text
    <2>4. /\ w.heap = [r.heap EXCEPT ![r.cur] = [r.heap[r.cur] EXCEPT ![r.ptr + 1] = s[n + 1]]]
          /\ w.cur = r.cur /\ w.start = r.start /\ w.ptr = r.ptr + 1
      BY DEF Written, Rewritten
    <2> HIDE DEF w
    <2>5. w.heap[w.cur] = [r.heap[r.cur] EXCEPT ![r.ptr + 1] = s[n + 1]]
      BY <2>1, <2>2, <2>4
    <2>6. ASSUME NEW i \in 1 .. n + 1 PROVE w.heap[w.cur][w.start + i] = s[i]
      <3>1. CASE i = n + 1
        <4>1. w.start + i = r.ptr + 1
          BY <2>1, <2>4, <3>1
        <4> QED  BY <2>2, <2>3, <2>5, <3>1, <4>1
      <3>2. CASE i \in 1 .. n
        <4>1. w.start + i = r.start + i /\ w.start + i # r.ptr + 1
          BY <2>1, <2>4, <3>2
        <4>2. r.heap[r.cur][r.start + i] = s[i]
          BY <1>1, <3>2 DEF Spelled
        <4> QED  BY <2>5, <4>1, <4>2
      <3> QED  BY <3>1, <3>2
    <2>7. w.ptr = w.start + (n + 1)
      BY <2>1, <2>4
    <2> QED  BY <2>6, <2>7 DEF Spelled, w
  <1>2. CASE p.ptr # End(p)
    <2>1. p.ptr < End(p)
      BY <1>2 DEF Good, Typed, Pools, End, Text
    <2>2. q = Written(p, s[n + 1])
      BY <1>2 DEF Appended
    <2> QED  BY <1>1, <2>1, <2>2
  <1>3. CASE p.ptr = End(p)
    <2>1. PICK r \in Grown(p) : q = IF r.ok THEN Written(r, s[n + 1]) ELSE r
      BY <1>3 DEF Appended
    <2>2. Good(r, K) /\ (r.ok => r.ptr < End(r))
      BY <1>3, <2>1, GrownGood
    <2>3. r.ok
      BY <2>1
    <2>4. Spelled(r, s, n)
      BY <2>1, <2>3, GrownSpelled
    <2> QED  BY <1>1, <2>1, <2>2, <2>3, <2>4
  <1> QED  BY <1>2, <1>3

-----------------------------------------------------------------------------
\* The names in a table.
In(st, x) == {Read(st.pool, e) : e \in Entries(st.tables[x])}

\* The character before the name of each attribute, taken for a string of one
\* character: the mark, or 0.
Signs(E, M) ==
  {[block |-> e.block, at |-> e.at - 1, text |-> <<IF e \in M THEN Mark ELSE Zero>>] : e \in E}

Guarded(st) == st.kept \union Signs(Entries(st.tables["attributes"]), st.marked)

\* The characters before the names of attributes tell which are marked.
Signed(st) ==
  /\ Steady(st) /\ st.marked \subseteq Entries(st.tables["attributes"])
  /\ \A e \in Entries(st.tables["attributes"]) : e.at > 0
  /\ Good(st.pool, Guarded(st))

\* Nothing is being built.
Ready(st) == Signed(st) /\ st.pool.ptr = st.pool.start

\* Texts without the closing 0.
Names0 == {s \in Text : \A i \in 1 .. Len(s) : s[i] # Zero}

\* What is kept reads the same.
LEMMA InStays ==
  ASSUME NEW st, Steady(st), NEW q, Steady(q), st.kept \subseteq q.kept, NEW x \in TableNames
  PROVE  /\ \A e \in Entries(st.tables[x]) : Read(q.pool, e) = Read(st.pool, e)
         /\ Entries(q.tables[x]) = Entries(st.tables[x]) => In(q, x) = In(st, x)
  <1>1. Good(st.pool, st.kept) /\ Good(q.pool, q.kept) /\ \A e \in Entries(st.tables[x]) : Held(st.kept, e)
    BY SteadyHeld
  <1>2. \A e \in Entries(st.tables[x]) : Read(q.pool, e) = Read(st.pool, e)
    BY <1>1, ReadStays
  <1> QED  BY <1>2 DEF In

\* Storing changes no name and no mark, and what is stored is spelled out.
LEMMA StoredSpelled ==
  ASSUME HashesAreNumbers, NEW st, Ready(st), NEW s \in Text, s # <<>>, NEW q \in Stored(st, s)
  PROVE  /\ Steady(q) /\ q.kept = st.kept /\ q.tables = st.tables /\ q.marked = st.marked
         /\ q.answer \in {"ok", "nomemory"} /\ \A x \in TableNames : In(q, x) = In(st, x)
         /\ q.answer = "ok" => Signed(q) /\ Spelled(q.pool, s, Len(s))
  <1> DEFINE n == Len(s)
             L == Guarded(st)
             Holds(p, i) == Good(p, L) /\ (p.ok => Spelled(p, s, i))
             W == [i \in 0 .. n |-> {p \in Pools : Holds(p, i)}]
  <1>1. n \in Nat /\ \A i \in 1 .. n : s[i] \in Char \union {Junk}
    BY LenProperties, ElementOfSeq DEF Text
  <1>2. \A i \in 0 .. n : \A p : Holds(p, i) <=> p \in W[i]
    BY DEF Good, Typed
  <1>3. st.pool \in W[0]
    <2>1. 0 \in 0 .. n
      BY <1>1
    <2>2. Good(st.pool, L) /\ Spelled(st.pool, s, 0)
      BY DEF Ready, Signed, Spelled, Good, Typed, Pools
    <2>3. Holds(st.pool, 0)
      BY <2>2
    <2> HIDE DEF W, Holds
    <2> QED  BY <1>2, <2>1, <2>3
  <1> HIDE DEF W
  <1>4. ASSUME NEW i \in 1 .. n, NEW p \in W[i - 1],
               NEW w \in IF p.ok THEN Appended(p, s[i]) ELSE {p}
        PROVE  w \in W[i]
    <2>1. i \in 0 .. n /\ i - 1 \in Nat /\ i - 1 \in 0 .. n /\ (i - 1) + 1 = i
      BY <1>1
    <2> SUFFICES Holds(w, i)
      BY <1>2, <2>1
    <2>2. Holds(p, i - 1)
      BY <1>2, <2>1
    <2> HIDE DEF L
    <2>3. CASE ~p.ok
      BY <2>2, <2>3
    <2>4. CASE p.ok
      <3>1. w \in Appended(p, s[i]) /\ s[i] \in Char \union {Junk} /\ Good(p, L) /\ Spelled(p, s, i - 1)
        BY <1>1, <2>2, <2>4
      <3>2. Good(w, L)
        BY <2>4, <3>1, AppendedGood
      <3> DEFINE m == i - 1
      <3>3. m \in Nat /\ m + 1 = i /\ Spelled(p, s, m)
        BY <2>1, <3>1
      <3> HIDE DEF m
      <3>4. s[m + 1] \in Char \union {Junk} /\ w \in Appended(p, s[m + 1])
        BY <3>1, <3>3
      <3>5. w.ok => Spelled(w, s, m + 1)
        BY <2>4, <3>1, <3>3, <3>4, AppendedSpelled
      <3> QED  BY <3>2, <3>3, <3>5
    <2> QED  BY <2>3, <2>4
  <1>5. PICK p \in W[n] : q = StoredIn(st, p)
    <2>1. \A i \in 1 .. n : \A p \in W[i - 1] : OneChar(p, s[i]) \subseteq W[i]
      BY <1>4 DEF OneChar
    <2> QED  BY <1>1, <1>3, <2>1, StoredReach
  <1>6. Steady(q) /\ q.kept = st.kept /\ q.tables = st.tables /\ q.marked = st.marked
    BY StoredWell DEF Ready, Signed
  <1>7. q.pool = p /\ q.answer = IF p.ok THEN "ok" ELSE "nomemory"
    BY <1>5 DEF StoredIn, Ready, Signed, Steady, Parts
  <1>8. Holds(p, n)
    <2>1. n \in 0 .. n
      BY <1>1
    <2> QED  BY <1>2, <2>1
  <1>9. \A x \in TableNames : In(q, x) = In(st, x)
    BY <1>6, InStays DEF Ready, Signed
  <1>10. q.answer = "ok" => Signed(q) /\ Spelled(q.pool, s, Len(s))
    <2>1. Guarded(q) = L
      BY <1>6 DEF Guarded
    <2> QED  BY <1>6, <1>7, <1>8, <2>1 DEF Ready, Signed
  <1> QED  BY <1>6, <1>7, <1>9, <1>10

\* What a name that is spelled out, after skip characters and before its 0, reads as.
LEMMA SpelledReads ==
  ASSUME NEW p, NEW K, Good(p, K), NEW n \in Names0, NEW skip \in Nat, NEW s,
         Spelled(p, s, skip + Len(n) + 1), s[skip + Len(n) + 1] = Zero,
         \A i \in 1 .. Len(n) : s[skip + i] = n[i]
  PROVE  /\ p.cur \in Block /\ p.ptr = p.start + skip + Len(n) + 1 /\ p.heap[p.cur][p.ptr] = Zero
         /\ Read(p, [block |-> p.cur, at |-> p.start + skip]) = n
  <1> DEFINE h == p.heap[p.cur]
             m == Len(n)
             b == p.start + skip
             z == b + m + 1
             a == [block |-> p.cur, at |-> b]
  <1>1. /\ p.start \in Nat /\ p.ptr \in Nat /\ p.ptr = p.start + (skip + m + 1) /\ m \in Nat
        /\ p.cur \in Block \union {None} /\ p.heap \in [Block -> Text] /\ p.ptr <= End(p)
        /\ n \in Seq(Char \union {Junk}) /\ \A i \in 1 .. m : n[i] # Zero
    BY LenProperties DEF Good, Typed, Pools, Spelled, Names0, Text
  <1>2. p.cur \in Block /\ p.ptr <= Len(h) /\ Len(h) \in Nat /\ h \in Seq(Char \union {Junk})
    BY <1>1, LenProperties DEF End, Text
  <1>3. z = p.ptr /\ b \in Nat /\ z \in Int /\ b < z /\ a \in Named /\ a.block = p.cur /\ a.at = b
    BY <1>1, <1>2 DEF Named
  <1>4. \A i \in 1 .. skip + m + 1 : h[p.start + i] = s[i]
    BY DEF Spelled
  <1> HIDE DEF h, m, a
  <1>14. b = p.start + skip /\ z = b + m + 1 /\ z - 1 = b + m
    BY <1>1, <1>3
  <1>15. b \in Nat /\ z \in Int /\ b < z /\ m \in Nat
    BY <1>1, <1>3
  <1> HIDE DEF b, z
  <1>5. h[z] = Zero
    <2>1. skip + m + 1 \in 1 .. skip + m + 1 /\ p.start + (skip + m + 1) = z
      BY <1>1, <1>14
    <2>2. h[p.start + (skip + m + 1)] = s[skip + m + 1]
      BY <1>4, <2>1
    <2> QED  BY <2>1, <2>2 DEF m
  <1>6. ASSUME NEW i \in 1 .. m PROVE h[b + i] = n[i]
    <2>1. skip + i \in 1 .. skip + m + 1 /\ p.start + (skip + i) = b + i
      BY <1>1, <1>14
    <2>2. s[skip + i] = n[i]
      BY DEF m
    <2> QED  BY <1>4, <2>1, <2>2
  <1>7. Zeros(p, a) = {i \in b + 1 .. Len(h) : h[i] = Zero}
    BY <1>3 DEF Zeros, h
  <1>8. z \in Zeros(p, a)
    <2>1. z \in b + 1 .. Len(h)
      BY <1>1, <1>2, <1>3
    <2> QED  BY <1>5, <1>7, <2>1
  <1>9. ASSUME NEW j \in Zeros(p, a), j < z PROVE FALSE
    <2>1. j \in b + 1 .. Len(h) /\ h[j] = Zero
      BY <1>7
    <2>2. j - b \in 1 .. m /\ b + (j - b) = j
      <3>1. j \in Int /\ j >= b + 1 /\ j < z
        BY <1>1, <1>3, <1>9, <2>1
      <3>2. z = b + m + 1
        BY <1>14
      <3> QED  BY <1>15, <3>1, <3>2
    <2> QED  BY <1>1, <1>6, <2>1, <2>2
  <1>10. Read(p, a) = SubSeq(h, b + 1, z - 1)
    <2>1. \A j \in Zeros(p, a) : z <= j
      <3>1. \A j \in Zeros(p, a) : j \in Int
        BY <1>7
      <3> QED  BY <1>3, <1>9, <3>1
    <2>2. Read(p, a) = SubSeq(p.heap[a.block], a.at + 1, z - 1)
      BY <1>3, <1>8, <2>1, ReadTo
    <2> QED  BY <1>3, <2>2 DEF h
  <1>11. SubSeq(h, b + 1, z - 1) = n
    <2> DEFINE u == SubSeq(h, b + 1, z - 1)
    <2>1. \A i \in b + 1 .. z - 1 : h[i] \in Char \union {Junk}
      <3>1. \A i \in b + 1 .. z - 1 : i \in 1 .. Len(h)
        BY <1>1, <1>2, <1>3
      <3> QED  BY <1>2, <3>1, ElementOfSeq
    <2>2. (z - 1) - (b + 1) + 1 = m
      BY <1>1, <1>3, <1>14
    <2>3. /\ u \in Seq(Char \union {Junk}) /\ Len(u) = (z - 1) - (b + 1) + 1
          /\ \A i \in 1 .. (z - 1) - (b + 1) + 1 : u[i] = h[b + 1 + i - 1]
      BY <1>15, <2>1, PartOf
    <2> HIDE DEF u
    <2>4. \A i \in 1 .. m : u[i] = n[i]
      <3>1. \A i \in 1 .. m : b + 1 + i - 1 = b + i
        BY <1>3
      <3> QED  BY <1>6, <2>2, <2>3, <3>1
    <2>5. Len(u) = Len(n)
      BY <2>2, <2>3 DEF m
    <2>6. u = n
      BY <1>1, <2>3, <2>4, <2>5, SeqEqual DEF m
    <2> QED  BY <2>6 DEF u
  <1>12. p.ptr = p.start + skip + m + 1
    BY <1>1
  <1>13. p.heap[p.cur][p.ptr] = Zero
    BY <1>3, <1>5 DEF h
  <1> QED  BY <1>2, <1>10, <1>11, <1>12, <1>13 DEF m, a, b

-----------------------------------------------------------------------------
\* The name n stands in t after skip characters and before the closing 0.
Closes(t, skip, n) ==
  /\ t \in Text /\ t # <<>> /\ Len(t) = skip + Len(n) + 1 /\ t[skip + Len(n) + 1] = Zero
  /\ \A i \in 1 .. Len(n) : t[skip + i] = n[i]
  /\ skip = 1 => t[1] = Zero

\* The two forms in which names are stored.
LEMMA ClosesName ==
  ASSUME NEW n \in Text
  PROVE  Closes(Append(n, Zero), 0, n) /\ Closes(<<Zero>> \o Append(n, Zero), 1, n)
  <1> DEFINE C == Char \union {Junk}
             u == Append(n, Zero)
             v == <<Zero>>
             m == Len(n)
  <1>1. u \in Seq(C) /\ Len(u) = m + 1 /\ m \in Nat /\ u # <<>> /\ \A i \in 1 .. m : u[i] = n[i]
    BY NamesAssumption, AppendProperties, EmptySeq, LenProperties DEF Text
  <1>2. u[m + 1] = Zero
    BY NamesAssumption, AppendProperties, LenProperties DEF Text
  <1>3. v \in Seq(C) /\ Len(v) = 1 /\ v[1] = Zero
    BY NamesAssumption
  <1>4. <<Zero>> \o Append(n, Zero) \in Text /\ <<Zero>> \o Append(n, Zero) # <<>>
    BY ClosedBehind
  <1>5. v \o u \in Text /\ v \o u # <<>>
    BY <1>4
  <1> HIDE DEF u, v, C, m
  <1>6. /\ Len(v \o u) = Len(v) + Len(u)
        /\ \A i \in 1 .. Len(v) + Len(u) : (v \o u)[i] = IF i <= Len(v) THEN v[i] ELSE u[i - Len(v)]
    BY <1>1, <1>3, ConcatProperties
  <1>7. Len(v \o u) = 1 + m + 1 /\ (v \o u)[1] = Zero
    BY <1>1, <1>3, <1>6
  <1>8. (v \o u)[1 + m + 1] = Zero
    <2> DEFINE k == 1 + m + 1
    <2>1. k \in 1 .. Len(v) + Len(u) /\ ~(k <= Len(v)) /\ k - Len(v) = m + 1
      BY <1>1, <1>3
    <2> HIDE DEF k
    <2>2. (v \o u)[k] = Zero
      BY <1>2, <1>6, <2>1
    <2> QED  BY <2>2 DEF k
  <1>9. ASSUME NEW i \in 1 .. m PROVE (v \o u)[1 + i] = n[i]
    <2>1. 1 + i \in 1 .. Len(v) + Len(u) /\ ~(1 + i <= Len(v)) /\ 1 + i - Len(v) = i
      BY <1>1, <1>3
    <2> QED  BY <1>1, <1>6, <2>1
  <1>10. Closes(u, 0, n)
    <2>1. 0 + m + 1 = m + 1 /\ \A i \in 1 .. m : 0 + i = i
      BY <1>1
    <2> QED  BY <1>1, <1>2, <2>1 DEF Closes, m, C, Text
  <1>11. Closes(v \o u, 1, n)
    BY <1>5, <1>7, <1>8, <1>9 DEF Closes, m
  <1> QED  BY <1>10, <1>11 DEF u, v

\* A part of a name that begins after c characters and is followed by others.
LEMMA PartPlain ==
  ASSUME NEW n \in Names0, NEW c \in Int, c <= Len(n)
  PROVE  SubSeq(n, 1, c) \in Names0
  <1>1. n \in Seq(Char \union {Junk}) /\ Len(n) \in Nat /\ \A i \in 1 .. Len(n) : n[i] # Zero
    BY LenProperties DEF Names0, Text
  <1> DEFINE D == (Char \union {Junk}) \ {Zero}
             u == SubSeq(n, 1, c)
  <1>2. \A i \in 1 .. c : n[i] \in D
    <2>1. \A i \in 1 .. c : i \in 1 .. Len(n)
      BY <1>1
    <2> QED  BY <1>1, <2>1, ElementOfSeq
  <1>3. u \in Seq(D)
    BY <1>2, SubSeqProperties
  <1> HIDE DEF u
  <1>4. u \in Text /\ \A i \in 1 .. Len(u) : u[i] # Zero
    <2>1. \A i \in 1 .. Len(u) : u[i] \in D
      BY <1>3, ElementOfSeq
    <2>2. u \in Seq(Char \union {Junk})
      BY <1>3
    <2> QED  BY <2>1, <2>2 DEF Text
  <1> QED  BY <1>4 DEF Names0, u

\* The prefix of a name is a name.
LEMMA PrefixPlain ==
  ASSUME NEW n \in Names0, Colons(n) # {}
  PROVE  Prefix(n) \in Names0
  <1>1. n \in Text /\ Len(n) \in Nat
    BY LenProperties DEF Names0, Text
  <1>2. PICK c \in 1 .. Len(n) : Prefix(n) = SubSeq(n, 1, c - 1)
    BY <1>1, TextBefore
  <1>3. c - 1 \in Int /\ c - 1 <= Len(n)
    BY <1>1
  <1> QED  BY <1>2, <1>3, PartPlain

\* The names of the calls are such.
LEMMA NamesPlain == \A n \in TypeName \union AttName : n \in Names0
  <1> SUFFICES ASSUME NEW n \in TypeName \union AttName PROVE n \in Names0
    OBVIOUS
  <1>1. n \in Seq(Char \ {Zero})
    BY NamesAssumption
  <1>2. \A i \in 1 .. Len(n) : n[i] \in Char \ {Zero}
    BY <1>1, ElementOfSeq
  <1>3. n \in Seq(Char \union {Junk})
    BY <1>1
  <1> QED  BY <1>2, <1>3 DEF Names0, Text

\* What reads after c characters of a name is the rest of the name.
LEMMA ReadInside ==
  ASSUME NEW p, NEW K, Good(p, K), NEW e, Held(K, e), NEW c \in 1 .. Len(Read(p, e))
  PROVE  Read(p, [e EXCEPT !.at = @ + c]) = SubSeq(Read(p, e), c + 1, Len(Read(p, e)))
  <1>1. e \in Named /\ e.block \in Block /\ e.at \in Nat /\ p.heap \in [Block -> Text]
    BY DEF Held, Named, Good, Typed, Pools
  <1>2. PICK k \in K : /\ k.block = e.block /\ k.at <= e.at
                       /\ \E j \in 1 .. Len(k.text) : e.at < k.at + j /\ k.text[j] = Zero
    BY DEF Held
  <1>16. PICK j \in 1 .. Len(k.text) : e.at < k.at + j /\ k.text[j] = Zero
    BY <1>2
  <1>3. PICK z \in Zeros(p, e) : \A i \in Zeros(p, e) : z <= i
    BY <1>1, <1>2, <1>16, HeldZero
  <1> DEFINE h == p.heap[e.block]
             a == e.at
             f == [e EXCEPT !.at = @ + c]
             s == Read(p, e)
  <1>4. h \in Seq(Char \union {Junk}) /\ Len(h) \in Nat /\ z \in a + 1 .. Len(h) /\ h[z] = Zero
    BY <1>1, <1>3, LenProperties DEF Zeros, Text
  <1>5. f \in Named /\ f.block = e.block /\ f.at = a + c /\ c \in Nat /\ a \in Nat
    BY <1>1 DEF Named
  <1>6. s = SubSeq(h, a + 1, z - 1)
    BY <1>1, <1>3, ReadTo
  <1>7. Zeros(p, f) = {i \in a + c + 1 .. Len(h) : h[i] = Zero}
    BY <1>5 DEF Zeros
  <1>8. Zeros(p, e) = {i \in a + 1 .. Len(h) : h[i] = Zero}
    BY DEF Zeros
  <1> HIDE DEF h, a, f, s
  <1>9. z \in Int /\ a < z
    BY <1>4, <1>5
  <1>10. /\ s \in Seq(Char \union {Junk}) /\ Len(s) = (z - 1) - (a + 1) + 1
         /\ \A i \in 1 .. (z - 1) - (a + 1) + 1 : s[i] = h[a + 1 + i - 1]
    <2>1. \A i \in a + 1 .. z - 1 : h[i] \in Char \union {Junk}
      <3>1. \A i \in a + 1 .. z - 1 : i \in 1 .. Len(h)
        BY <1>4, <1>5
      <3> QED  BY <1>4, <3>1, ElementOfSeq
    <2> QED  BY <1>5, <1>6, <1>9, <2>1, PartOf
  <1>11. c \in 1 .. (z - 1) - a /\ Len(s) = (z - 1) - a
    <2>1. Len(s) = (z - 1) - a
      BY <1>5, <1>9, <1>10
    <2> QED  BY <2>1 DEF s
  <1>12. z \in Zeros(p, f) /\ \A i \in Zeros(p, f) : z <= i
    <2>1. z \in a + c + 1 .. Len(h)
      BY <1>4, <1>5, <1>9, <1>11
    <2>2. Zeros(p, f) \subseteq Zeros(p, e)
      <3>1. a + c + 1 .. Len(h) \subseteq a + 1 .. Len(h)
        BY <1>4, <1>5
      <3> QED  BY <1>7, <1>8, <3>1
    <2> QED  BY <1>3, <1>4, <1>7, <2>1, <2>2
  <1>13. Read(p, f) = SubSeq(h, (a + c) + 1, z - 1)
    <2>1. Read(p, f) = SubSeq(p.heap[f.block], f.at + 1, z - 1)
      BY <1>5, <1>12, ReadTo
    <2> QED  BY <1>5, <2>1 DEF h
  <1>14. SubSeq(h, (a + c) + 1, z - 1) = SubSeq(s, c + 1, Len(s))
    <2> DEFINE u == SubSeq(h, (a + c) + 1, z - 1)
               v == SubSeq(s, c + 1, (Len(s) + 1) - 1)
               d == a + c
               l == Len(s) + 1
    <2>1. /\ d \in Nat /\ d < z /\ d = a + c /\ l \in Int /\ c < l /\ l = Len(s) + 1 /\ (Len(s) + 1) - 1 = Len(s)
      BY <1>5, <1>9, <1>11
    <2> HIDE DEF d, l
    <2>2. \A i \in d + 1 .. z - 1 : h[i] \in Char \union {Junk}
      <3>1. \A i \in d + 1 .. z - 1 : i \in 1 .. Len(h)
        BY <1>4, <2>1
      <3> QED  BY <1>4, <3>1, ElementOfSeq
    <2>3. /\ SubSeq(h, d + 1, z - 1) \in Seq(Char \union {Junk})
          /\ Len(SubSeq(h, d + 1, z - 1)) = (z - 1) - (d + 1) + 1
          /\ \A i \in 1 .. (z - 1) - (d + 1) + 1 : SubSeq(h, d + 1, z - 1)[i] = h[d + 1 + i - 1]
      BY <1>9, <2>1, <2>2, PartOf
    <2>4. \A i \in c + 1 .. l - 1 : s[i] \in Char \union {Junk}
      <3>1. \A i \in c + 1 .. l - 1 : i \in 1 .. Len(s)
        BY <1>5, <1>11, <2>1
      <3> QED  BY <1>10, <3>1, ElementOfSeq
    <2>5. /\ SubSeq(s, c + 1, l - 1) \in Seq(Char \union {Junk})
          /\ Len(SubSeq(s, c + 1, l - 1)) = (l - 1) - (c + 1) + 1
          /\ \A i \in 1 .. (l - 1) - (c + 1) + 1 : SubSeq(s, c + 1, l - 1)[i] = s[c + 1 + i - 1]
      <3>1. c \in Nat /\ l \in Int /\ c < l
        BY <1>5, <2>1
      <3> QED  BY <2>4, <3>1, PartOf
    <2>6. u = SubSeq(h, d + 1, z - 1) /\ v = SubSeq(s, c + 1, l - 1) /\ v = SubSeq(s, c + 1, Len(s))
      BY <2>1
    <2> HIDE DEF u, v
    <2>7. (z - 1) - (d + 1) + 1 = (z - 1) - a - c /\ (l - 1) - (c + 1) + 1 = (z - 1) - a - c
      BY <1>5, <1>9, <1>11, <2>1
    <2>8. /\ u \in Seq(Char \union {Junk}) /\ v \in Seq(Char \union {Junk}) /\ Len(u) = Len(v)
          /\ Len(u) = (z - 1) - a - c
      BY <2>3, <2>5, <2>6, <2>7
    <2>9. ASSUME NEW i \in 1 .. Len(u) PROVE u[i] = v[i]
      <3>1. u[i] = h[d + 1 + i - 1] /\ v[i] = s[c + 1 + i - 1]
        BY <2>3, <2>5, <2>6, <2>7, <2>8
      <3>2. c + 1 + i - 1 \in 1 .. (z - 1) - (a + 1) + 1 /\ a + 1 + (c + 1 + i - 1) - 1 = d + 1 + i - 1
        BY <1>5, <1>9, <1>11, <2>1, <2>8
      <3> QED  BY <1>10, <3>1, <3>2
    <2>10. u = v
      BY <2>8, <2>9, SeqEqual
    <2> QED  BY <2>6, <2>10 DEF u
  <1> QED  BY <1>13, <1>14 DEF f, s

-----------------------------------------------------------------------------
\* The tables hold the same names.
Same(st, q) == \A x \in TableNames : In(q, x) = In(st, x)

\* w is st with the name n in the table x, and its entry at hand.
Gives(st, w, x, n) ==
  /\ Ready(w) /\ w.answer = "ok" /\ w.marked = st.marked /\ st.kept \subseteq w.kept
  /\ \A y \in TableNames : y # x => In(w, y) = In(st, y)
  /\ In(w, x) = In(st, x) \union {n}
  /\ w.entry \in Entries(w.tables[x]) /\ Read(w.pool, w.entry) = n

\* One more entry has one more sign.
LEMMA SignsWith ==
  ASSUME NEW E, NEW M, NEW a, a \notin M
  PROVE  Signs(E \union {a}, M) = Signs(E, M) \union {[block |-> a.block, at |-> a.at - 1, text |-> <<Zero>>]}
  BY DEF Signs

\* A string is spelled out, the name in it was known, and it is dropped.
LEMMA DroppedGives ==
  ASSUME HashesAreNumbers, NEW r, Signed(r), r.pool.start < r.pool.ptr, NEW x \in TableNames, NEW n,
         NEW q, DOMAIN q = Parts, q.pool = r.pool, q.kept = r.kept, q.marked = r.marked,
         q.answer = "ok", \A y \in TableNames : Entries(q.tables[y]) = Entries(r.tables[y]),
         q.entry \in Entries(r.tables[x]), Read(r.pool, q.entry) = n, Onwards(r, Dropped(q))
  PROVE  Gives(r, Dropped(q), x, n)
  <1> DEFINE w == Dropped(q)
             p == r.pool
  <1>1. /\ Steady(w) /\ w.kept = r.kept /\ w.marked = r.marked /\ w.tables = q.tables
        /\ w.answer = "ok" /\ w.entry = q.entry /\ w.pool = Discarded(p)
    BY DEF Onwards, Dropped, Parts
  <1> HIDE DEF w
  <1>2. Steady(r) /\ Good(p, Guarded(r)) /\ "attributes" \in TableNames
    BY DEF Signed, TableNames
  <1>3. Guarded(w) = Guarded(r)
    BY <1>1, <1>2 DEF Guarded
  <1>4. Good(w.pool, Guarded(w)) /\ w.pool.ptr = w.pool.start
    <2>1. p.start \in Nat /\ p.ptr \in Nat /\ p.start <= p.start /\ p.start <= p.ptr
      BY <1>2 DEF Good, Typed, Pools
    <2> DEFINE K == Guarded(r)
    <2> HIDE DEF K
    <2>2. Good(GivenUp(p, p.start), K)
      <3>1. Good(p, K)
        BY <1>2 DEF K
      <3> HIDE DEF p
      <3>2. p.start < p.ptr
        BY DEF p
      <3> QED  BY <2>1, <3>1, <3>2, GivenUpGood
    <2>3. GivenUp(p, p.start).ptr = p.start /\ GivenUp(p, p.start).start = p.start
      BY DEF GivenUp, Rewritten
    <2> QED  BY <1>1, <1>3, <2>2, <2>3 DEF Discarded, K
  <1>5. Ready(w)
    BY <1>1, <1>2, <1>4 DEF Ready, Signed
  <1>6. /\ \A y \in TableNames : In(w, y) = In(r, y)
        /\ \A e \in Entries(r.tables[x]) : Read(w.pool, e) = Read(r.pool, e)
    BY <1>1, <1>2, InStays
  <1>7. n \in In(r, x)
    BY DEF In
  <1>8. Read(w.pool, w.entry) = n /\ w.entry \in Entries(w.tables[x])
    BY <1>1, <1>6
  <1>9. In(w, x) = In(r, x) \union {n}
    BY <1>6, <1>7
  <1> QED  BY <1>1, <1>5, <1>6, <1>8, <1>9 DEF Gives, w

\* A string is spelled out, the name in it is new, and it is kept.
LEMMA KeptGives ==
  ASSUME HashesAreNumbers, NEW r, Signed(r), NEW skip \in {0, 1}, r.pool.start + skip < r.pool.ptr,
         r.pool.cur \in Block, skip = 1 => r.pool.heap[r.pool.cur][r.pool.start + 1] = Zero,
         NEW x \in TableNames, x = "attributes" <=> skip = 1, NEW n,
         NEW a, a = BuiltAt(r, skip), Read(r.pool, a) = n,
         NEW q, DOMAIN q = Parts, q.pool = r.pool, q.kept = r.kept, q.marked = r.marked,
         q.answer = "ok", \A y \in TableNames : y # x => q.tables[y] = r.tables[y],
         Entries(q.tables[x]) = Entries(r.tables[x]) \union {a}, q.entry = a, Onwards(r, Kept(q, skip))
  PROVE  Gives(r, Kept(q, skip), x, n)
  <1> DEFINE w == Kept(q, skip)
             p == r.pool
             k == KeptFrom(p, skip)
             E == Entries(r.tables["attributes"])
  <1>1. /\ Steady(w) /\ w.kept = r.kept \union {k} /\ w.marked = r.marked /\ w.tables = q.tables
        /\ w.answer = "ok" /\ w.entry = a /\ w.pool = Finished(p)
    BY DEF Onwards, Kept, KeptFrom, Parts
  <1>2. /\ Steady(r) /\ Good(p, Guarded(r)) /\ "attributes" \in TableNames /\ skip \in Nat
        /\ r.marked \subseteq E /\ \A e \in E : e.at > 0
    BY DEF Signed, TableNames
  <1>3. /\ a \in Named /\ a.block = p.cur /\ a.at = p.start + skip /\ a \notin r.marked
    BY <1>2, BuiltNew
  <1>4. p \in Pools /\ p.start \in Nat /\ p.ptr \in Nat /\ p.ptr <= End(p)
    BY <1>2 DEF Good, Typed, Pools
  <1>5. w.pool.heap = p.heap /\ w.pool.start = p.ptr /\ w.pool.ptr = p.ptr /\ w.pool.cur = p.cur
    <2> HIDE DEF w
    <2> QED  BY <1>1, <1>4 DEF Finished, Pools
  <1>6. Good(w.pool, Guarded(r) \union {k})
    <2> DEFINE K == Guarded(r)
    <2>1. Good(p, K)
      BY <1>2
    <2> HIDE DEF K, p, w
    <2>2. p.start + skip < p.ptr
      BY DEF p
    <2>3. Good(Finished(p), K \union {KeptFrom(p, skip)})
      BY <1>2, <2>1, <2>2, KeptGood
    <2> QED  BY <1>1, <2>3 DEF K
  <1> HIDE DEF w
  <1>7. /\ Good(w.pool, Guarded(w)) /\ w.marked \subseteq Entries(w.tables["attributes"])
        /\ \A e \in Entries(w.tables["attributes"]) : e.at > 0
    <2>1. CASE skip = 0
      <3>1. Entries(w.tables["attributes"]) = E
        BY <1>1, <1>2, <2>1
      <3>2. Guarded(w) = Guarded(r) \union {k}
        BY <1>1, <3>1 DEF Guarded
      <3> QED  BY <1>1, <1>2, <1>6, <3>1, <3>2
    <2>2. CASE skip = 1
      <3> DEFINE m == [block |-> a.block, at |-> a.at - 1, text |-> <<Zero>>]
                 g == w.pool
                 K == Guarded(r) \union {k}
      <3>1. Entries(w.tables["attributes"]) = E \union {a}
        BY <1>1, <2>2
      <3>2. Guarded(w) = K \union {m}
        <4>1. Signs(E \union {a}, r.marked) = Signs(E, r.marked) \union {m}
          BY <1>3, SignsWith
        <4> QED  BY <1>1, <3>1, <4>1 DEF Guarded
      <3>3. /\ m \in Strings /\ m.text # <<>> /\ m.block = p.cur /\ m.at = p.start
            /\ Len(m.text) = 1 /\ m.text[1] = Zero
        <4>1. <<Zero>> \in Text /\ <<Zero>> # <<>> /\ Len(<<Zero>>) = 1 /\ <<Zero>>[1] = Zero
          BY NamesAssumption DEF Text
        <4>2. a.block \in Block /\ a.at - 1 \in Nat /\ a.at - 1 = p.start
          BY <1>3, <1>4, <2>2
        <4> QED  BY <1>3, <4>1, <4>2 DEF Strings
      <3>4. p.start + 1 <= p.ptr /\ p.start + 1 <= Len(g.heap[m.block])
        <4>1. End(p) = Len(p.heap[p.cur]) /\ Len(p.heap[p.cur]) \in Nat
          BY <1>4, BlockAssumption, LenProperties DEF End, Pools, Text
        <4>2. p.start + 1 < p.ptr
          BY <2>2
        <4> QED  BY <1>4, <1>5, <3>3, <4>1, <4>2
      <3>5. g.heap[m.block][m.at + 1] = Zero
        BY <1>5, <2>2, <3>3
      <3> HIDE DEF m, g, K, p
      <3>6. Good(g, K)
        BY <1>6 DEF g, K
      <3>7. \A i \in 1 .. Len(m.text) : /\ m.at + i <= Len(g.heap[m.block])
                                        /\ g.heap[m.block][m.at + i] = m.text[i]
        <4> SUFFICES ASSUME NEW i \in 1 .. 1
                     PROVE  m.at + i <= Len(g.heap[m.block]) /\ g.heap[m.block][m.at + i] = m.text[i]
          BY <3>3
        <4>1. i = 1
          OBVIOUS
        <4> QED  BY <3>3, <3>4, <3>5, <4>1
      <3>8. m.block = g.cur /\ m.at + Len(m.text) <= g.start
        BY <1>4, <1>5, <3>3, <3>4 DEF g
      <3>9. Good(g, K \union {m})
        BY <3>3, <3>6, <3>7, <3>8, GoodWith
      <3>10. a.at > 0
        BY <1>3, <1>4, <2>2
      <3> QED  BY <1>1, <1>2, <3>1, <3>2, <3>9, <3>10 DEF g
    <2> QED  BY <2>1, <2>2
  <1>8. Ready(w)
    BY <1>1, <1>5, <1>7 DEF Ready, Signed
  <1>9. \A e : Read(w.pool, e) = Read(r.pool, e)
    BY <1>5 DEF Read
  <1>10. \A y \in TableNames : y # x => In(w, y) = In(r, y)
    BY <1>1, <1>9 DEF In
  <1>11. In(w, x) = In(r, x) \union {n}
    BY <1>1, <1>9 DEF In
  <1>12. w.entry \in Entries(w.tables[x]) /\ Read(w.pool, w.entry) = n
    BY <1>1, <1>9
  <1> QED  BY <1>1, <1>8, <1>10, <1>11, <1>12 DEF Gives, w

-----------------------------------------------------------------------------
\* lookup of a name that is spelled out in the pool, and what becomes of it.
LEMMA SettledGives ==
  ASSUME HashesAreNumbers, NEW r, Signed(r), NEW n \in Names0, NEW skip \in {0, 1}, NEW t,
         Closes(t, skip, n), Spelled(r.pool, t, Len(t)), NEW x \in TableNames,
         x = "attributes" <=> skip = 1, NEW a, a = BuiltAt(r, skip), NEW q \in Looked(r, x, a)
  PROVE  /\ BuiltAt(q, skip) = a
         /\ \/ q.answer = "nomemory" /\ Same(r, q)
            \/ /\ q.answer = "ok" /\ Gives(r, Settled(q, a, skip), x, n)
               /\ Settled(q, a, skip).entry = q.entry /\ (q.entry = a <=> n \notin In(r, x))
  <1> DEFINE p == r.pool
             b == p.start
             w == Settled(q, a, skip)
  <1>1. Steady(r) /\ Good(p, Guarded(r)) /\ Good(p, r.kept) /\ skip \in Nat
    BY SteadyHeld DEF Signed
  <1>2. n \in Text /\ Len(n) \in Nat /\ Len(t) = skip + Len(n) + 1 /\ t[skip + Len(n) + 1] = Zero
    BY LenProperties DEF Closes, Names0, Text
  <1>3. /\ p.cur \in Block /\ p.ptr = b + skip + Len(n) + 1 /\ p.heap[p.cur][p.ptr] = Zero
        /\ Read(p, [block |-> p.cur, at |-> b + skip]) = n
    <2>1. Spelled(p, t, skip + Len(n) + 1) /\ \A i \in 1 .. Len(n) : t[skip + i] = n[i]
      BY <1>2 DEF Closes
    <2> HIDE DEF p
    <2> QED  BY <1>1, <1>2, <2>1, SpelledReads DEF b
  <1>4. b \in Nat /\ b + skip < p.ptr /\ b < p.ptr
    <2>1. b \in Nat
      BY <1>1 DEF Good, Typed, Pools
    <2> HIDE DEF b
    <2> QED  BY <1>1, <1>2, <1>3, <2>1
  <1>5. a = [block |-> p.cur, at |-> b + skip] /\ Read(p, a) = n
    BY <1>3 DEF BuiltAt
  <1>6. a \in Named /\ a \notin r.marked /\ \A y \in TableNames : a \notin Entries(r.tables[y])
    BY <1>1, <1>3, BuiltNew
  <1>7. skip = 1 => p.heap[p.cur][b + 1] = Zero
    <2>1. 1 \in 1 .. Len(t) /\ (skip = 1 => t[1] = Zero)
      BY <1>2 DEF Closes
    <2> QED  BY <2>1 DEF Spelled
  <1>8. Builds(p, Len(t), Zero) /\ skip < Len(t) /\ Len(t) \in Nat
    <2>1. p.ptr >= b + Len(t) /\ skip < Len(t) /\ Len(t) \in Nat
      <3> HIDE DEF b
      <3> QED  BY <1>1, <1>2, <1>3, <1>4
    <2> QED  BY <1>3, <2>1 DEF Builds
  <1>9. /\ DOMAIN q = Parts /\ q.pool = p /\ q.kept = r.kept /\ q.marked = r.marked
        /\ LookedUp(r, x, a, q)
    BY <1>1, <1>6, LookedWell
  <1>10. /\ BuiltAt(q, skip) = a
         /\ q.answer # "ok" => q.answer = "nomemory" /\ Onwards(r, q)
         /\ q.answer = "ok" => Onwards(r, w) /\ w.entry = q.entry
    BY <1>1, <1>8, SettledWell
  <1>11. CASE q.answer # "ok"
    <2>1. q.answer = "nomemory" /\ Steady(q)
      BY <1>10, <1>11 DEF Onwards
    <2>2. \A y \in TableNames : Entries(q.tables[y]) = Entries(r.tables[y])
      BY <1>9, <1>11 DEF LookedUp
    <2>3. Same(r, q)
      BY <1>1, <1>9, <2>1, <2>2, InStays DEF Same
    <2> QED  BY <1>10, <2>1, <2>3
  <1>12. CASE q.answer = "ok" /\ q.entry # a
    <2>1. /\ \A y \in TableNames : Entries(q.tables[y]) = Entries(r.tables[y])
          /\ q.entry \in Entries(r.tables[x]) /\ Read(p, q.entry) = n
      BY <1>5, <1>9, <1>12 DEF LookedUp
    <2>2. w = Dropped(q)
      BY <1>12 DEF Settled
    <2>3. Onwards(r, Dropped(q)) /\ r.pool.start < r.pool.ptr
      BY <1>4, <1>10, <1>12, <2>2
    <2>4. Gives(r, Dropped(q), x, n)
      BY <1>9, <1>12, <2>1, <2>3, DroppedGives
    <2>5. n \in In(r, x)
      BY <2>1 DEF In
    <2> QED  BY <1>10, <1>12, <2>2, <2>4, <2>5
  <1>13. CASE q.answer = "ok" /\ q.entry = a
    <2>1. /\ \A y \in TableNames : y # x => q.tables[y] = r.tables[y]
          /\ Entries(q.tables[x]) = Entries(r.tables[x]) \union {a}
          /\ \A e \in Entries(r.tables[x]) : Read(p, e) # n
      BY <1>5, <1>6, <1>9, <1>13 DEF LookedUp
    <2>2. w = Kept(q, skip)
      BY <1>13 DEF Settled
    <2>3. Onwards(r, Kept(q, skip))
      BY <1>10, <1>13, <2>2
    <2>4. Gives(r, Kept(q, skip), x, n)
      <3>1. r.pool.start + skip < r.pool.ptr /\ r.pool.cur \in Block /\ Read(r.pool, a) = n
            /\ (skip = 1 => r.pool.heap[r.pool.cur][r.pool.start + 1] = Zero)
        BY <1>3, <1>4, <1>5, <1>7
      <3> QED  BY <1>9, <1>13, <2>1, <2>3, <3>1, KeptGives
    <2>5. n \notin In(r, x)
      BY <2>1 DEF In
    <2> QED  BY <1>10, <1>13, <2>2, <2>4, <2>5
  <1> QED  BY <1>11, <1>12, <1>13

\* What is given is given over what is the same.
LEMMA GivesOver ==
  ASSUME NEW st, NEW r, Same(st, r), r.kept = st.kept, r.marked = st.marked,
         NEW w, NEW x \in TableNames, NEW n, Gives(r, w, x, n)
  PROVE  Gives(st, w, x, n)
  BY DEF Gives, Same

\* What looking up the name n, which r has spelled out, comes to.
Enters(st, r, q, x, n, skip) ==
  LET a == BuiltAt(r, skip)
  IN  /\ BuiltAt(q, skip) = a
      /\ \/ q.answer = "nomemory" /\ Same(st, q)
         \/ /\ q.answer = "ok" /\ Gives(st, Settled(q, a, skip), x, n)
            /\ Settled(q, a, skip).entry = q.entry /\ (q.entry = a <=> n \notin In(st, x))

\* A name that is stored and looked up: memory fails, or the table has it.
LEMMA EnterGives ==
  ASSUME HashesAreNumbers, NEW st, Ready(st), NEW n \in Names0, NEW skip \in {0, 1}, NEW t,
         Closes(t, skip, n), NEW x \in TableNames, x = "attributes" <=> skip = 1,
         NEW r \in Stored(st, t)
  PROVE  \/ r.answer = "nomemory" /\ Same(st, r)
         \/ r.answer = "ok" /\ \A q \in Looked(r, x, BuiltAt(r, skip)) : Enters(st, r, q, x, n, skip)
  <1>1. t \in Text /\ t # <<>>
    BY DEF Closes
  <1>2. /\ r.kept = st.kept /\ r.marked = st.marked /\ r.answer \in {"ok", "nomemory"} /\ Same(st, r)
        /\ r.answer = "ok" => Signed(r) /\ Spelled(r.pool, t, Len(t))
    BY <1>1, StoredSpelled DEF Same
  <1>3. ASSUME r.answer = "ok", NEW q \in Looked(r, x, BuiltAt(r, skip))
        PROVE  Enters(st, r, q, x, n, skip)
    <2> DEFINE a == BuiltAt(r, skip)
               w == Settled(q, a, skip)
    <2>1. Signed(r) /\ Spelled(r.pool, t, Len(t)) /\ q \in Looked(r, x, a) /\ a = BuiltAt(r, skip)
      BY <1>2, <1>3
    <2> HIDE DEF a
    <2>2. /\ BuiltAt(q, skip) = a
          /\ \/ q.answer = "nomemory" /\ Same(r, q)
             \/ /\ q.answer = "ok" /\ Gives(r, w, x, n)
                /\ w.entry = q.entry /\ (q.entry = a <=> n \notin In(r, x))
      BY <2>1, SettledGives
    <2> HIDE DEF w
    <2>3. q.answer = "ok" /\ Gives(r, w, x, n) => Gives(st, w, x, n)
      BY <1>2, GivesOver
    <2>4. Same(r, q) => Same(st, q)
      BY <1>2 DEF Same
    <2>5. In(r, x) = In(st, x)
      BY <1>2 DEF Same
    <2> QED  BY <2>2, <2>3, <2>4, <2>5 DEF a, w, Enters
  <1> QED  BY <1>2, <1>3

-----------------------------------------------------------------------------
\* The tables of z hold the names of st, with the types T, the attributes A,
\* the prefixes P and some of O.
Exact(st, z, T, A, P, O) ==
  /\ In(z, "types") = In(st, "types") \union T
  /\ In(z, "attributes") = In(st, "attributes") \union A
  /\ In(st, "prefixes") \union P \subseteq In(z, "prefixes")
  /\ In(z, "prefixes") \subseteq In(st, "prefixes") \union P \union O

\* The names of st and some of T, A and P.
Within(st, z, T, A, P) ==
  /\ In(st, "types") \subseteq In(z, "types") /\ In(z, "types") \subseteq In(st, "types") \union T
  /\ In(st, "attributes") \subseteq In(z, "attributes")
  /\ In(z, "attributes") \subseteq In(st, "attributes") \union A
  /\ In(st, "prefixes") \subseteq In(z, "prefixes")
  /\ In(z, "prefixes") \subseteq In(st, "prefixes") \union P

Failing == {"nomemory", "dies"}

\* What a part of a call makes of the tables.
Told(st, z, T, A, P, O) ==
  \/ /\ z.answer = "ok" /\ Ready(z) /\ z.marked = st.marked /\ st.kept \subseteq z.kept
     /\ Exact(st, z, T, A, P, O)
  \/ z.answer \in Failing /\ Within(st, z, T, A, P \union O)

\* One part after the other.
LEMMA ToldOn ==
  ASSUME NEW st, NEW r, NEW z, NEW T, NEW A, NEW P, NEW O, NEW U, NEW B, NEW Q, NEW R,
         Told(st, r, T, A, P, O), r.answer = "ok", Told(r, z, U, B, Q, R)
  PROVE  Told(st, z, T \union U, A \union B, P \union Q, O \union R)
  <1>1. Exact(st, r, T, A, P, O) /\ r.marked = st.marked /\ st.kept \subseteq r.kept
    BY DEF Told, Failing
  <1>2. CASE z.answer = "ok" /\ Exact(r, z, U, B, Q, R)
    <2>1. Exact(st, z, T \union U, A \union B, P \union Q, O \union R)
      BY <1>1, <1>2 DEF Exact
    <2> QED  BY <1>1, <1>2, <2>1 DEF Told, Failing
  <1>3. CASE z.answer \in Failing /\ Within(r, z, U, B, Q \union R)
    <2>1. Within(st, z, T \union U, A \union B, (P \union Q) \union (O \union R))
      BY <1>1, <1>3 DEF Exact, Within
    <2> QED  BY <1>3, <2>1 DEF Told
  <1> QED  BY <1>2, <1>3 DEF Told

\* Nothing is told when the same is left.
LEMMA ToldNothing ==
  ASSUME NEW st, NEW z, NEW O
  PROVE  /\ Ready(st) /\ st.answer = "ok" /\ z = st => Told(st, z, {}, {}, {}, O)
         /\ \A T, A, P : z.answer \in Failing /\ Same(st, z) => Told(st, z, T, A, P, O)
  <1>1. "types" \in TableNames /\ "attributes" \in TableNames /\ "prefixes" \in TableNames
    BY DEF TableNames
  <1> QED  BY <1>1 DEF Told, Exact, Within, Same

\* Only the pool, the finished strings, the tables and the marks matter.
LEMMA ReadySame ==
  ASSUME NEW w, NEW z, DOMAIN z = Parts, z.pool = w.pool, z.kept = w.kept, z.tables = w.tables,
         z.marked = w.marked
  PROVE  (Ready(w) => Ready(z)) /\ \A x : In(z, x) = In(w, x)
  <1>1. Guarded(z) = Guarded(w)
    BY DEF Guarded
  <1> QED  BY <1>1 DEF Ready, Signed, Steady, In

\* Looking up changes no more than fields.
LEMMA LookedParts ==
  ASSUME HashesAreNumbers, NEW st, Ready(st), NEW t, t \in Text, t # <<>>, NEW r \in Stored(st, t),
         NEW x, NEW a, NEW q \in Looked(r, x, a)
  PROVE  DOMAIN q = Parts
  <1>1. DOMAIN r = Parts
    BY StoredSpelled DEF Steady
  <1> QED  BY <1>1 DEF Looked, Parts

\* The two lengths of what stands before a name: nothing, or the place of the mark.
LEMMA ZeroOne == 0 \in {0, 1} /\ 1 \in {0, 1} /\ 0 # 1
  OBVIOUS

\* A prefix that is told.
LEMMA PrefixedTold ==
  ASSUME HashesAreNumbers, NEW st, Ready(st), NEW e, NEW s \in Names0,
         NEW ifNone \in Failing, NEW z \in Prefixed(st, e, s, ifNone)
  PROVE  Told(st, z, {}, {}, {s}, {})
  <1> DEFINE Settle(r) == {[Settled(r, BuiltAt(r, 0), 0) EXCEPT !.prefixOf = (e :> r.entry) @@ @]}
             Look(r)   == {IF q.answer = "nomemory" THEN Ends(q, ifNone) ELSE q :
                             q \in Looked(r, "prefixes", BuiltAt(r, 0))}
             t == Append(s, Zero)
  <1>1. Closes(t, 0, s) /\ s \in Text
    BY ClosesName DEF Names0
  <1>2. PICK y \in Next1(Stored(st, t), Look) : z \in IF y.answer = "ok" THEN Settle(y) ELSE {y}
    BY DEF Prefixed, Next1
  <1>3. PICK r \in Stored(st, t) : y \in IF r.answer = "ok" THEN Look(r) ELSE {r}
    BY <1>2 DEF Next1
  <1>4. /\ "prefixes" \in TableNames /\ "types" \in TableNames /\ "attributes" \in TableNames
        /\ "prefixes" # "attributes"
    BY DEF TableNames
  <1>10. 0 \in {0, 1} /\ 0 # 1
    BY ZeroOne
  <1>8. "prefixes" = "attributes" <=> 0 = 1
    BY <1>4, <1>10
  <1> HIDE DEF t
  <1>9. t \in Text /\ t # <<>>
    BY <1>1 DEF Closes
  <1>5. \/ r.answer = "nomemory" /\ Same(st, r)
        \/ /\ r.answer = "ok"
           /\ \A q \in Looked(r, "prefixes", BuiltAt(r, 0)) : Enters(st, r, q, "prefixes", s, 0)
    BY <1>1, <1>3, <1>4, <1>8, <1>10, EnterGives
  <1>6. CASE r.answer = "nomemory" /\ Same(st, r)
    <2>1. z = r
      BY <1>2, <1>3, <1>6
    <2> QED  BY <1>6, <2>1, ToldNothing DEF Failing
  <1>7. CASE r.answer = "ok"
    <2>1. PICK q \in Looked(r, "prefixes", BuiltAt(r, 0)) :
            y = IF q.answer = "nomemory" THEN Ends(q, ifNone) ELSE q
      BY <1>3, <1>7
    <2> DEFINE w == Settled(q, BuiltAt(r, 0), 0)
    <2>2. /\ BuiltAt(q, 0) = BuiltAt(r, 0)
          /\ \/ q.answer = "nomemory" /\ Same(st, q)
             \/ q.answer = "ok" /\ Gives(st, w, "prefixes", s)
      BY <1>5, <1>7 DEF Enters
    <2>3. CASE q.answer = "nomemory" /\ Same(st, q)
      <3>1. y = Ends(q, ifNone)
        BY <2>1, <2>3
      <3>2. DOMAIN q = Parts
        BY <1>3, <1>9, <2>1, LookedParts
      <3>3. y.answer = ifNone /\ y.pool = q.pool /\ y.tables = q.tables
        BY <3>1, <3>2 DEF Ends, Parts
      <3>4. z = y /\ Same(st, z)
        <4>1. y.answer # "ok"
          BY <3>3 DEF Failing
        <4>2. z = y
          BY <1>2, <4>1
        <4> QED  BY <2>3, <3>3, <4>2 DEF Same, In
      <3> QED  BY <3>3, <3>4, ToldNothing
    <2>4. CASE q.answer = "ok" /\ Gives(st, w, "prefixes", s)
      <3>1. y = q /\ z = [w EXCEPT !.prefixOf = (e :> q.entry) @@ @]
        BY <1>2, <2>1, <2>2, <2>4
      <3> HIDE DEF w
      <3>2. DOMAIN w = Parts
        BY <2>4 DEF Gives, Ready, Signed, Steady
      <3>3. /\ DOMAIN z = Parts /\ z.pool = w.pool /\ z.kept = w.kept /\ z.tables = w.tables
            /\ z.marked = w.marked /\ z.answer = w.answer
        BY <3>1, <3>2 DEF Parts
      <3>4. Ready(z) /\ \A x : In(z, x) = In(w, x)
        BY <2>4, <3>3, ReadySame DEF Gives
      <3>5. Exact(st, z, {}, {}, {s}, {})
        BY <1>4, <2>4, <3>4 DEF Gives, Exact
      <3> QED  BY <2>4, <3>3, <3>4, <3>5 DEF Told, Gives
    <2> QED  BY <2>2, <2>3, <2>4
  <1> QED  BY <1>5, <1>6, <1>7

-----------------------------------------------------------------------------
\* setElementTypePrefix: the prefix that the name brings.
LEMMA TypePrefixTold ==
  ASSUME HashesAreNumbers, NEW st, Ready(st), st.answer = "ok", NEW e,
         NEW n \in Names0, Read(st.pool, e) = n, NEW z \in setElementTypePrefix(st, e)
  PROVE  Told(st, z, {}, {}, TypeBrings(n), {})
  <1>1. CASE Colons(n) = {}
    <2>1. z = st /\ TypeBrings(n) = {}
      BY <1>1 DEF setElementTypePrefix, TypeBrings
    <2> QED  BY <2>1, ToldNothing
  <1>2. CASE Colons(n) # {}
    <2>1. z \in Prefixed(st, e, Prefix(n), "nomemory") /\ TypeBrings(n) = {Prefix(n)}
      BY <1>2 DEF setElementTypePrefix, TypeBrings
    <2>2. Prefix(n) \in Names0 /\ "nomemory" \in Failing
      BY <1>2, PrefixPlain DEF Failing
    <2> QED  BY <2>1, <2>2, PrefixedTold
  <1> QED  BY <1>1, <1>2

\* The prefixes of a type that is not known yet.
TypeNews(st, n) == IF n \in In(st, "types") THEN {} ELSE TypeBrings(n)

\* A type that is given and the prefix it brings.
LEMMA TypeGiven ==
  ASSUME HashesAreNumbers, NEW st, NEW w, NEW n \in Names0, Gives(st, w, "types", n), NEW e,
         e = w.entry, NEW z \in setElementTypePrefix(w, e)
  PROVE  Told(st, z, {n}, {}, TypeBrings(n), {})
  <1>1. "types" \in TableNames /\ "attributes" \in TableNames /\ "prefixes" \in TableNames
        /\ "types" # "attributes" /\ "types" # "prefixes"
    BY DEF TableNames
  <1>2. Told(st, w, {n}, {}, {}, {}) /\ w.answer = "ok"
    BY <1>1 DEF Gives, Told, Exact
  <1>3. Told(w, z, {}, {}, TypeBrings(n), {})
    BY TypePrefixTold DEF Gives
  <1>4. Told(st, z, {n} \union {}, {} \union {}, {} \union TypeBrings(n), {} \union {})
    BY <1>2, <1>3, ToldOn
  <1>5. {n} \union {} = {n} /\ {} \union TypeBrings(n) = TypeBrings(n) /\ {} \union {} = {}
    OBVIOUS
  <1> QED  BY <1>4, <1>5

\* getElementType
LEMMA TypeTold ==
  ASSUME HashesAreNumbers, NEW st, Ready(st), NEW n \in Names0, NEW z \in getElementType(st, n)
  PROVE  Told(st, z, {n}, {}, TypeNews(st, n), {})
  <1> DEFINE Look(r)   == Looked(r, "types", BuiltAt(r, 0))
             Settle(r) == LET a == BuiltAt(r, 0)
                          IN  IF r.entry = a THEN setElementTypePrefix(Settled(r, a, 0), a)
                              ELSE {Settled(r, a, 0)}
             t == Append(n, Zero)
  <1>1. Closes(t, 0, n)
    BY ClosesName DEF Names0
  <1>2. PICK q \in Next1(Stored(st, t), Look) : z \in IF q.answer = "ok" THEN Settle(q) ELSE {q}
    BY DEF getElementType, Next1
  <1>3. PICK r \in Stored(st, t) : q \in IF r.answer = "ok" THEN Look(r) ELSE {r}
    BY <1>2 DEF Next1
  <1> HIDE DEF t
  <1>4. "types" \in TableNames /\ "types" # "attributes" /\ 0 \in {0, 1} /\ 0 # 1
    BY ZeroOne DEF TableNames
  <1>5. "types" = "attributes" <=> 0 = 1
    BY <1>4
  <1>6. \/ r.answer = "nomemory" /\ Same(st, r)
        \/ /\ r.answer = "ok"
           /\ \A u \in Looked(r, "types", BuiltAt(r, 0)) : Enters(st, r, u, "types", n, 0)
    BY <1>1, <1>3, <1>4, <1>5, EnterGives
  <1>7. CASE r.answer = "nomemory" /\ Same(st, r)
    <2>1. z = r
      BY <1>2, <1>3, <1>7
    <2> QED  BY <1>7, <2>1, ToldNothing DEF Failing
  <1>8. CASE r.answer = "ok"
    <2> DEFINE a == BuiltAt(r, 0)
               w == Settled(q, a, 0)
    <2>1. /\ BuiltAt(q, 0) = a
          /\ \/ q.answer = "nomemory" /\ Same(st, q)
             \/ /\ q.answer = "ok" /\ Gives(st, w, "types", n)
                /\ w.entry = q.entry /\ (q.entry = a <=> n \notin In(st, "types"))
      BY <1>3, <1>6, <1>8 DEF Enters
    <2>2. CASE q.answer = "nomemory" /\ Same(st, q)
      <3>1. z = q
        BY <1>2, <2>2
      <3> QED  BY <2>2, <3>1, ToldNothing DEF Failing
    <2>3. CASE q.answer = "ok"
      <3>1. z \in IF q.entry = a THEN setElementTypePrefix(w, a) ELSE {w}
        BY <1>2, <2>1, <2>3
      <3>2. /\ Gives(st, w, "types", n) /\ w.entry = q.entry
            /\ (q.entry = a <=> n \notin In(st, "types"))
        BY <2>1, <2>3
      <3> HIDE DEF w, a
      <3>3. CASE q.entry = a
        <4>1. Told(st, z, {n}, {}, TypeBrings(n), {})
          BY <3>1, <3>2, <3>3, TypeGiven
        <4> QED  BY <3>2, <3>3, <4>1 DEF TypeNews
      <3>4. CASE q.entry # a
        <4>1. z = w /\ TypeNews(st, n) = {}
          BY <3>1, <3>2, <3>4 DEF TypeNews
        <4>2. "prefixes" \in TableNames /\ "attributes" \in TableNames /\ "types" # "prefixes"
          BY DEF TableNames
        <4> QED  BY <1>4, <3>2, <4>1, <4>2 DEF Gives, Told, Exact
      <3> QED  BY <3>3, <3>4
    <2> QED  BY <2>1, <2>2, <2>3
  <1> QED  BY <1>6, <1>7, <1>8

\* What a sound table finds.
LEMMA SoundFound ==
  ASSUME HashesAreNumbers, NEW p, NEW t, Sound(p, t), NEW s \in Text
  PROVE  Found(p, t, s) # Empty <=> \E e \in Entries(t) : Read(p, e) = s
  <1>1. CASE t.size = 0 /\ t.v = <<>>
    BY <1>1, NoEntries DEF Found
  <1>2. CASE Shaped(t) /\ InPlace(p, t)
    <2>1. /\ Found(p, t, s) # Empty => Found(p, t, s) \in Entries(t) /\ Read(p, Found(p, t, s)) = s
          /\ Found(p, t, s) = Empty => \A i \in Filled(t) : Read(p, t.v[i]) # s
      BY <1>2, FoundEntry
    <2>2. Entries(t) = {t.v[i] : i \in Filled(t)}
      BY <1>2, EntriesFilled
    <2> QED  BY <2>1, <2>2
  <1> QED  BY <1>1, <1>2 DEF Sound

\* A string is read from the heap.
LEMMA ReadHeap ==
  ASSUME NEW p, NEW q, p.heap = q.heap
  PROVE  \A e : Read(p, e) = Read(q, e)
  BY DEF Read

\* The pool, the finished strings and the marks are as they were.
Leaves(r, q) == q.pool = r.pool /\ q.kept = r.kept /\ q.marked = r.marked

\* The parts of a state that looking up leaves, and the table.
LEMMA LookedShort ==
  ASSUME HashesAreNumbers, NEW r, Steady(r), NEW x \in TableNames, NEW a, a \in Named,
         NEW q, q \in Looked(r, x, a)
  PROVE  DOMAIN q = Parts /\ Leaves(r, q) /\ LookedUp(r, x, a, q)
  BY LookedWell DEF Leaves

\* storeAtts: a type that is kept before it is entered.
LEMMA TypeKept ==
  ASSUME HashesAreNumbers, NEW r, Signed(r), r.answer = "ok", NEW n \in Names0, NEW t,
         Closes(t, 0, n), Spelled(r.pool, t, Len(t)), n \notin In(r, "types"),
         NEW k, k = [Kept(r, 0) EXCEPT !.entry = BuiltAt(r, 0)],
         NEW q \in Looked(k, "types", BuiltAt(r, 0))
  PROVE  \/ q.answer = "nomemory" /\ Same(r, q)
         \/ q.answer = "ok" /\ Gives(r, q, "types", n)
  <1>18. "types" \in TableNames /\ "attributes" \in TableNames /\ "types" # "attributes"
    BY DEF TableNames
  <1>19. /\ Len(n) \in Nat /\ Len(t) = 0 + Len(n) + 1 /\ t[0 + Len(n) + 1] = Zero
         /\ \A i \in 1 .. Len(n) : t[0 + i] = n[i]
    BY LenProperties DEF Closes, Names0, Text
  <1>20. Steady(r)
    BY DEF Signed
  <1>1. Signed(r) /\ Good(r.pool, Guarded(r)) /\ Spelled(r.pool, t, 0 + Len(n) + 1)
    BY <1>19 DEF Signed
  <1> DEFINE a == BuiltAt(r, 0)
             w == Kept(r, 0)
             p == r.pool
  <1>2. /\ p.cur \in Block /\ p.ptr = p.start + 0 + Len(n) + 1 /\ p.heap[p.cur][p.ptr] = Zero
        /\ Read(p, [block |-> p.cur, at |-> p.start + 0]) = n
    <2> DEFINE K == Guarded(r)
               c == 0
    <2>1. Good(p, K) /\ Spelled(p, t, c + Len(n) + 1) /\ t[c + Len(n) + 1] = Zero
      BY <1>19, <1>1
    <2>2. c \in Nat /\ \A i \in 1 .. Len(n) : t[c + i] = n[i]
      BY <1>19
    <2> HIDE DEF K, p, c
    <2>3. /\ p.cur \in Block /\ p.ptr = p.start + c + Len(n) + 1 /\ p.heap[p.cur][p.ptr] = Zero
          /\ Read(p, [block |-> p.cur, at |-> p.start + c]) = n
      BY <2>1, <2>2, SpelledReads
    <2> QED  BY <2>3 DEF c
  <1>3. p.start \in Nat /\ p.start + 0 < p.ptr /\ Builds(p, 1, Zero)
    <2>1. p.start \in Nat /\ p.ptr = p.start + 0 + Len(n) + 1
      BY <1>1, <1>2 DEF Good, Typed, Pools
    <2> HIDE DEF p
    <2>2. p.start + 0 < p.ptr /\ p.ptr >= p.start + 1
      <3>1. Len(n) \in Nat
        BY <1>19
      <3> QED  BY <2>1, <3>1
    <2> QED  BY <1>2, <2>1, <2>2 DEF Builds
  <1>4. Read(p, a) = n /\ 0 \in Nat /\ 1 \in Nat /\ 0 < 1
    <2>1. a = [block |-> p.cur, at |-> p.start + 0]
      BY DEF BuiltAt
    <2>2. Read(p, a) = n
      BY <1>2, <2>1
    <2> QED  BY <2>2
  <1>5. a \in Named /\ a \notin r.marked /\ \A x \in TableNames : a \notin Entries(r.tables[x])
    BY <1>20, <1>2, BuiltNew
  <1>6. /\ DOMAIN r = Parts /\ Well(r.pool, r.kept, r.tables, r.marked, a)
        /\ a \notin Entries(r.tables["attributes"]) \union r.marked
    <2>1. Well(r.pool, r.kept, r.tables, r.marked, a)
      BY <1>20, SteadyHeld DEF Well
    <2> QED  BY <1>18, <1>20, <1>5, <2>1 DEF Steady
  <1>7. /\ Steady(w) /\ w.tables = r.tables /\ w.marked = r.marked /\ w.answer = r.answer
        /\ Held(w.kept, a)
    BY <1>3, <1>4, <1>6, KeptSteady
  <1>8. w.pool = Finished(p) /\ w.kept = r.kept \union {KeptFrom(p, 0)} /\ DOMAIN w = Parts
    BY <1>6 DEF Kept, KeptFrom, Parts
  <1>9. k = [w EXCEPT !.entry = a]
    BY DEF a, w
  <1> HIDE DEF w, a
  <1>10. /\ DOMAIN k = Parts /\ k.pool = w.pool /\ k.kept = w.kept /\ k.tables = w.tables
         /\ k.marked = w.marked /\ k.answer = "ok" /\ k.entry = a
    BY <1>7, <1>8, <1>9 DEF Parts
  <1>11. Onwards(r, k) /\ Steady(k) /\ q \in Looked(k, "types", a) /\ Held(k.kept, a)
    BY <1>7, <1>10, OnwardsSame DEF Onwards, a
  <1>12. Onwards(r, q)
    BY <1>18, <1>11, HeldLooked, OnwardsOn
  <1>13. /\ DOMAIN q = Parts /\ q.pool = k.pool /\ q.kept = k.kept /\ q.marked = k.marked
         /\ LookedUp(k, "types", a, q)
    <2>1. Steady(k) /\ "types" \in TableNames /\ a \in Named /\ q \in Looked(k, "types", a)
      BY <1>18, <1>5, <1>11
    <2>2. LookedUp(k, "types", a, q)
      BY <2>1, LookedShort
    <2>3. DOMAIN q = Parts
      BY <2>1, LookedShort
    <2>4. q.pool = k.pool /\ q.kept = k.kept /\ q.marked = k.marked
      <3>1. Leaves(k, q)
        BY <2>1, LookedShort
      <3> QED  BY <3>1 DEF Leaves
    <2> QED  BY <2>2, <2>3, <2>4
  <1>14. \A e : Read(k.pool, e) = Read(p, e)
    <2>1. k.pool.heap = p.heap
      <3>1. p \in Pools
        BY <1>1 DEF Good, Typed
      <3> QED  BY <1>8, <1>10, <3>1 DEF Finished, Pools
    <2> QED  BY <2>1, ReadHeap
  <1>15. \A e \in Entries(r.tables["types"]) : Read(p, e) # n
    BY DEF In
  <1>16. CASE q.answer = "ok"
    <2>1. /\ \A y \in TableNames : y # "types" => q.tables[y] = r.tables[y]
          /\ Entries(q.tables["types"]) = Entries(r.tables["types"]) \union {a} /\ q.entry = a
      BY <1>4, <1>7, <1>10, <1>13, <1>14, <1>15, <1>16 DEF LookedUp
    <2> DEFINE u == [q EXCEPT !.pool = r.pool, !.kept = r.kept]
               v == Kept(u, 0)
    <2>2. /\ DOMAIN u = Parts /\ u.pool = r.pool /\ u.kept = r.kept /\ u.tables = q.tables
          /\ u.marked = r.marked /\ u.answer = "ok" /\ u.entry = a
      BY <1>7, <1>10, <1>13, <1>16, <2>1 DEF Parts
    <2> HIDE DEF u
    <2>3. /\ DOMAIN v = Parts /\ v.pool = q.pool /\ v.kept = q.kept /\ v.tables = q.tables
          /\ v.marked = q.marked /\ v.answer = "ok" /\ v.entry = a
      BY <1>7, <1>8, <1>10, <1>13, <2>2 DEF Kept, KeptFrom, Parts
    <2>4. Onwards(r, v)
      BY <1>12, <2>3, OnwardsSame
    <2>5. Gives(r, v, "types", n)
      <3>1. /\ 0 \in {0, 1} /\ ("types" = "attributes" <=> 0 = 1)
            /\ (0 = 1 => r.pool.heap[r.pool.cur][r.pool.start + 1] = Zero)
        BY <1>18, ZeroOne
      <3>2. /\ r.pool.start + 0 < r.pool.ptr /\ r.pool.cur \in Block
            /\ a = BuiltAt(r, 0) /\ Read(r.pool, a) = n
        BY <1>2, <1>3, <1>4 DEF a
      <3>3. \A y \in TableNames : y # "types" => u.tables[y] = r.tables[y]
        BY <2>1, <2>2
      <3>4. Entries(u.tables["types"]) = Entries(r.tables["types"]) \union {a}
        BY <2>1, <2>2
      <3> QED  BY <1>18, <1>1, <2>2, <2>4, <3>1, <3>2, <3>3, <3>4, KeptGives
    <2> HIDE DEF v
    <2>7. Gives(r, q, "types", n)
      <3>1. Ready(q) /\ \A x : In(q, x) = In(v, x)
        BY <1>13, <2>3, <2>5, ReadySame DEF Gives
      <3> QED  BY <1>16, <2>1, <2>3, <2>5, <3>1 DEF Gives
    <2> QED  BY <1>16, <2>7
  <1>17. CASE q.answer = "nomemory"
    <2>1. \A y \in TableNames : Entries(q.tables[y]) = Entries(r.tables[y])
      BY <1>7, <1>10, <1>13, <1>17 DEF LookedUp
    <2>2. Steady(q) /\ r.kept \subseteq q.kept
      BY <1>8, <1>10, <1>12, <1>13 DEF Onwards
    <2>3. Same(r, q)
      BY <1>20, <2>1, <2>2, InStays DEF Same
    <2> QED  BY <1>17, <2>3
  <1> QED  BY <1>13, <1>16, <1>17 DEF LookedUp

\* storeAtts: the type is found, or it is kept, entered and given its prefix.
LEMMA TagTold ==
  ASSUME HashesAreNumbers, NEW st, Ready(st), st.answer = "ok", NEW n \in Names0,
         NEW z \in TypeOfTag(st, n)
  PROVE  Told(st, z, {n}, {}, TypeNews(st, n), {})
  <1> DEFINE Keep(r) == {[Kept(r, 0) EXCEPT !.entry = BuiltAt(r, 0)]}
             Look(r) == Looked(r, "types", r.entry)
             Fix(r)  == setElementTypePrefix(r, r.entry)
             t == Append(n, Zero)
  <1>1. /\ "types" \in TableNames /\ "prefixes" \in TableNames /\ "attributes" \in TableNames
        /\ "types" # "attributes" /\ "types" # "prefixes"
    BY DEF TableNames
  <1>2. Closes(t, 0, n) /\ n \in Text /\ Len(n) \in Nat
    BY ClosesName, LenProperties DEF Names0, Text
  <1>3. t \in Text /\ t # <<>> /\ Len(t) = 0 + Len(n) + 1 /\ t[0 + Len(n) + 1] = Zero
        /\ \A i \in 1 .. Len(n) : t[0 + i] = n[i]
    BY <1>2 DEF Closes
  <1>4. Steady(st) /\ Sound(st.pool, st.tables["types"])
    BY <1>1, SteadyHeld DEF Ready, Signed
  <1>5. Found(st.pool, st.tables.types, n) # Empty <=> n \in In(st, "types")
    BY <1>2, <1>4, SoundFound DEF In
  <1>6. CASE n \in In(st, "types")
    <2>1. z = st /\ TypeNews(st, n) = {}
      BY <1>5, <1>6 DEF TypeOfTag, TypeNews
    <2>2. In(st, "types") \union {n} = In(st, "types")
      BY <1>6
    <2> QED  BY <2>1, <2>2 DEF Told, Exact
  <1>7. CASE n \notin In(st, "types")
    <2>0. z \in Next1(Next1(Next1(Stored(st, t), Keep), Look), Fix)
      BY <1>5, <1>7, Zenon DEF TypeOfTag
    <2>1. PICK q \in Next1(Next1(Stored(st, t), Keep), Look) :
            z \in IF q.answer = "ok" THEN Fix(q) ELSE {q}
      BY <2>0 DEF Next1
    <2>2. PICK k \in Next1(Stored(st, t), Keep) : q \in IF k.answer = "ok" THEN Look(k) ELSE {k}
      BY <2>1 DEF Next1
    <2>3. PICK r \in Stored(st, t) : k \in IF r.answer = "ok" THEN Keep(r) ELSE {r}
      BY <2>2 DEF Next1
    <2> HIDE DEF t
    <2>4. /\ Steady(r) /\ r.kept = st.kept /\ r.marked = st.marked
          /\ r.answer \in {"ok", "nomemory"} /\ Same(st, r)
          /\ r.answer = "ok" => Signed(r) /\ Spelled(r.pool, t, Len(t))
      BY <1>3, <2>3, StoredSpelled DEF Same
    <2>5. CASE r.answer = "nomemory"
      <3>1. z = r
        BY <2>1, <2>2, <2>3, <2>5
      <3> QED  BY <2>4, <2>5, <3>1, ToldNothing DEF Failing
    <2>6. CASE r.answer = "ok"
      <3>1. k = [Kept(r, 0) EXCEPT !.entry = BuiltAt(r, 0)]
        BY <2>3, <2>6
      <3>2. DOMAIN r = Parts
        BY <2>4 DEF Steady
      <3>3. k.answer = "ok" /\ k.entry = BuiltAt(r, 0)
        BY <2>6, <3>1, <3>2 DEF Kept, Parts
      <3>4. q \in Looked(k, "types", BuiltAt(r, 0))
        BY <2>2, <3>3
      <3>5. Signed(r) /\ Spelled(r.pool, t, Len(t)) /\ n \notin In(r, "types")
        BY <1>1, <1>7, <2>4, <2>6 DEF Same
      <3>6. \/ q.answer = "nomemory" /\ Same(r, q)
            \/ q.answer = "ok" /\ Gives(r, q, "types", n)
        BY <1>2, <2>6, <3>1, <3>4, <3>5, TypeKept
      <3>7. CASE q.answer = "ok" /\ Gives(r, q, "types", n)
        <4>1. Gives(st, q, "types", n)
          BY <1>1, <2>4, <3>7, GivesOver
        <4>2. z \in setElementTypePrefix(q, q.entry)
          BY <2>1, <3>7
        <4>3. Told(st, z, {n}, {}, TypeBrings(n), {})
          BY <4>1, <4>2, TypeGiven
        <4> QED  BY <1>7, <4>3 DEF TypeNews
      <3>8. CASE q.answer = "nomemory" /\ Same(r, q)
        <4>1. z = q
          BY <2>1, <3>8
        <4>2. Same(st, q)
          BY <2>4, <3>8 DEF Same
        <4> QED  BY <3>8, <4>1, <4>2, ToldNothing DEF Failing
      <3> QED  BY <3>6, <3>7, <3>8
    <2> QED  BY <2>4, <2>5, <2>6
  <1> QED  BY <1>6, <1>7

-----------------------------------------------------------------------------
\* A prefix that a new attribute declares, looked up where it stands.
LEMMA DeclaredTold ==
  ASSUME HashesAreNumbers, NEW st, Ready(st), NEW id, id \in Entries(st.tables["attributes"]),
         NEW n, Read(st.pool, id) = n, 2 \in 1 .. Len(n), NEW f, f = [id EXCEPT !.at = @ + 2],
         NEW q, q \in Looked(st, "prefixes", f), NEW z, DOMAIN z = Parts, Leaves(q, z),
         z.tables = q.tables, z.answer = "ok"
  PROVE  Told(st, z, {}, {}, {}, {SubSeq(n, 3, Len(n))})
  <1>1. /\ "types" \in TableNames /\ "prefixes" \in TableNames /\ "attributes" \in TableNames
        /\ "prefixes" # "attributes" /\ "prefixes" # "types"
    BY DEF TableNames
  <1>2. Steady(st) /\ Held(st.kept, id) /\ Good(st.pool, st.kept)
    BY SteadyHeld DEF Ready, Signed
  <1>3. Held(st.kept, f)
    <2>1. 2 \in 1 .. Len(Read(st.pool, id))
      OBVIOUS
    <2> QED  BY <1>2, <2>1, HeldInside
  <1>4. f \in Named
    BY <1>3 DEF Held
  <1>5. DOMAIN q = Parts /\ Leaves(st, q) /\ LookedUp(st, "prefixes", f, q)
    BY <1>1, <1>2, <1>4, LookedShort
  <1>6. Steady(q)
    BY <1>1, <1>2, <1>3, HeldLooked DEF Onwards
  <1>7. /\ q.tables["attributes"] = st.tables["attributes"] /\ q.tables["types"] = st.tables["types"]
        /\ \/ Entries(q.tables["prefixes"]) = Entries(st.tables["prefixes"])
           \/ Entries(q.tables["prefixes"]) = Entries(st.tables["prefixes"]) \union {f}
    BY <1>1, <1>5 DEF LookedUp
  <1>8. Read(st.pool, f) = SubSeq(n, 3, Len(n))
    <2>1. 2 \in 1 .. Len(Read(st.pool, id)) /\ 2 + 1 = 3
      OBVIOUS
    <2>2. Read(st.pool, f) = SubSeq(Read(st.pool, id), 2 + 1, Len(Read(st.pool, id)))
      BY <1>2, <2>1, ReadInside
    <2> QED  BY <2>1, <2>2
  <1>9. Ready(z) /\ \A x : In(z, x) = In(q, x)
    <2>1. Ready(q)
      <3>1. Guarded(q) = Guarded(st)
        BY <1>5, <1>7 DEF Guarded, Leaves
      <3> QED  BY <1>5, <1>6, <1>7, <3>1 DEF Ready, Signed, Leaves
    <2> QED  BY <2>1, ReadySame DEF Leaves
  <1>10. /\ In(q, "types") = In(st, "types") /\ In(q, "attributes") = In(st, "attributes")
         /\ In(st, "prefixes") \subseteq In(q, "prefixes")
         /\ In(q, "prefixes") \subseteq In(st, "prefixes") \union {SubSeq(n, 3, Len(n))}
    BY <1>5, <1>7, <1>8 DEF In, Leaves
  <1> QED  BY <1>5, <1>9, <1>10 DEF Told, Exact, Leaves

\* The prefix of a new attribute.
LEMMA AttPrefixTold ==
  ASSUME HashesAreNumbers, NEW st, Ready(st), st.answer = "ok",
         NEW id \in Entries(st.tables["attributes"]), st.entry = id,
         NEW n \in Names0, Read(st.pool, id) = n, NEW z \in AttPrefix(st, id)
  PROVE  Told(st, z, {}, {}, AttBrings(n), Declares(n))
  <1>1. n \in Text /\ Len(n) \in Nat
    BY LenProperties DEF Names0, Text
  <1>2. CASE IsXmlns(n) /\ Len(n) > 1
    <2> DEFINE f == [id EXCEPT !.at = @ + 2]
    <2>1. PICK q \in Looked(st, "prefixes", f) :
            z = [q EXCEPT !.answer = "ok", !.prefixOf = (id :> q.entry) @@ @, !.entry = id]
      BY <1>2, Zenon DEF AttPrefix
    <2>2. 2 \in 1 .. Len(n)
      BY <1>1, <1>2
    <2>3. Steady(st) /\ "prefixes" \in TableNames /\ "prefixes" # "attributes"
      BY DEF Ready, Signed, TableNames
    <2>4. Held(st.kept, f)
      <3>1. Held(st.kept, id) /\ Good(st.pool, st.kept) /\ 2 \in 1 .. Len(Read(st.pool, id))
        BY <2>2, <2>3, SteadyHeld
      <3> QED  BY <3>1, HeldInside
    <2>5. DOMAIN q = Parts
      <3> HIDE DEF f
      <3>1. Steady(q)
        BY <2>1, <2>3, <2>4, HeldLooked DEF Onwards
      <3> QED  BY <3>1 DEF Steady
    <2>6. /\ DOMAIN z = Parts /\ z.pool = q.pool /\ z.kept = q.kept /\ z.tables = q.tables
          /\ z.marked = q.marked /\ z.answer = "ok"
      BY <2>1, <2>5 DEF Parts
    <2>7. Told(st, z, {}, {}, {}, {SubSeq(n, 3, Len(n))})
      BY <2>1, <2>2, <2>6, DeclaredTold DEF Leaves
    <2>8. AttBrings(n) = {} /\ Declares(n) = {SubSeq(n, 3, Len(n))}
      BY <1>2 DEF AttBrings, Declares
    <2> QED  BY <2>7, <2>8
  <1>3. CASE ~(IsXmlns(n) /\ Len(n) > 1) /\ (IsXmlns(n) \/ Colons(n) = {})
    <2>1. z = st
      BY <1>3, Zenon DEF AttPrefix
    <2>2. AttBrings(n) = {}
      BY <1>3 DEF AttBrings, TypeBrings
    <2> QED  BY <2>1, <2>2, ToldNothing
  <1>4. CASE ~IsXmlns(n) /\ Colons(n) # {}
    <2>1. PICK q \in Prefixed(st, id, Prefix(n), "dies") : z = [q EXCEPT !.entry = id]
      BY <1>4, Zenon DEF AttPrefix
    <2>2. Prefix(n) \in Names0 /\ "dies" \in Failing
      BY <1>4, PrefixPlain DEF Failing
    <2>3. Told(st, q, {}, {}, {Prefix(n)}, {})
      BY <2>1, <2>2, PrefixedTold
    <2>4. AttBrings(n) = {Prefix(n)} /\ Declares(n) = {}
      BY <1>4 DEF AttBrings, TypeBrings, Declares
    <2>5. Steady(q)
      BY <1>1, <1>4, <2>1, TextBefore, PrefixedWell DEF Onwards, Ready, Signed
    <2>6. /\ DOMAIN z = Parts /\ z.pool = q.pool /\ z.kept = q.kept /\ z.tables = q.tables
          /\ z.marked = q.marked /\ z.answer = q.answer
      BY <2>1, <2>5 DEF Steady, Parts
    <2>7. (Ready(q) => Ready(z)) /\ \A x : In(z, x) = In(q, x)
      BY <2>6, ReadySame
    <2>8. Told(st, z, {}, {}, {Prefix(n)}, {})
      BY <2>3, <2>6, <2>7 DEF Told, Exact, Within
    <2> QED  BY <2>4, <2>8
  <1> QED  BY <1>2, <1>3, <1>4

\* The prefixes of an attribute that is not known yet.
AttNews(st, n)  == IF n \in In(st, "attributes") THEN {} ELSE AttBrings(n)
AttOpens(st, n) == IF n \in In(st, "attributes") THEN {} ELSE Declares(n)

\* getAttributeId
LEMMA AttTold ==
  ASSUME HashesAreNumbers, NEW st, Ready(st), NEW n \in Names0, NEW z \in getAttributeId(st, n)
  PROVE  /\ Told(st, z, {}, {n}, AttNews(st, n), AttOpens(st, n))
         /\ z.answer = "ok" => z.entry \in Entries(z.tables["attributes"]) /\ Read(z.pool, z.entry) = n
  <1> DEFINE Look(r)   == Looked(r, "attributes", BuiltAt(r, 1))
             Settle(r) == LET a == BuiltAt(r, 1)
                          IN  IF r.entry = a THEN AttPrefix(Settled(r, a, 1), a) ELSE {Settled(r, a, 1)}
             t == <<Zero>> \o Append(n, Zero)
  <1>1. Closes(t, 1, n)
    BY ClosesName DEF Names0
  <1>2. PICK q \in Next1(Stored(st, t), Look) : z \in IF q.answer = "ok" THEN Settle(q) ELSE {q}
    BY DEF getAttributeId, Next1
  <1>3. PICK r \in Stored(st, t) : q \in IF r.answer = "ok" THEN Look(r) ELSE {r}
    BY <1>2 DEF Next1
  <1> HIDE DEF t
  <1>4. /\ "types" \in TableNames /\ "attributes" \in TableNames /\ "prefixes" \in TableNames
        /\ "prefixes" # "attributes" /\ "types" # "attributes" /\ 1 \in {0, 1}
    BY ZeroOne DEF TableNames
  <1>5. "attributes" = "attributes" <=> 1 = 1
    OBVIOUS
  <1>6. \/ r.answer = "nomemory" /\ Same(st, r)
        \/ /\ r.answer = "ok"
           /\ \A u \in Looked(r, "attributes", BuiltAt(r, 1)) : Enters(st, r, u, "attributes", n, 1)
    BY <1>1, <1>3, <1>4, <1>5, EnterGives
  <1>7. CASE r.answer = "nomemory" /\ Same(st, r)
    <2>1. z = r
      BY <1>2, <1>3, <1>7
    <2> QED  BY <1>7, <2>1, ToldNothing DEF Failing
  <1>8. CASE r.answer = "ok"
    <2> DEFINE a == BuiltAt(r, 1)
               w == Settled(q, a, 1)
    <2>1. /\ BuiltAt(q, 1) = a
          /\ \/ q.answer = "nomemory" /\ Same(st, q)
             \/ /\ q.answer = "ok" /\ Gives(st, w, "attributes", n)
                /\ w.entry = q.entry /\ (q.entry = a <=> n \notin In(st, "attributes"))
      BY <1>3, <1>6, <1>8 DEF Enters
    <2>2. CASE q.answer = "nomemory" /\ Same(st, q)
      <3>1. z = q
        BY <1>2, <2>2
      <3> QED  BY <2>2, <3>1, ToldNothing DEF Failing
    <2>3. CASE q.answer = "ok"
      <3>1. z \in IF q.entry = a THEN AttPrefix(w, a) ELSE {w}
        BY <1>2, <2>1, <2>3
      <3>2. /\ Gives(st, w, "attributes", n) /\ w.entry = q.entry
            /\ (q.entry = a <=> n \notin In(st, "attributes"))
        BY <2>1, <2>3
      <3> HIDE DEF w, a
      <3>3. /\ Told(st, w, {}, {n}, {}, {}) /\ w.answer = "ok" /\ Ready(w)
            /\ w.entry \in Entries(w.tables["attributes"]) /\ Read(w.pool, w.entry) = n
        BY <1>4, <3>2 DEF Gives, Told, Exact
      <3>4. CASE q.entry = a
        <4>1. z \in AttPrefix(w, w.entry) /\ n \notin In(st, "attributes")
          BY <3>1, <3>2, <3>4
        <4>2. Told(w, z, {}, {}, AttBrings(n), Declares(n))
          BY <3>3, <4>1, AttPrefixTold
        <4>3. Told(st, z, {} \union {}, {n} \union {}, {} \union AttBrings(n), {} \union Declares(n))
          BY <3>3, <4>2, ToldOn
        <4>4. /\ {} \union {} = {} /\ {n} \union {} = {n} /\ {} \union AttBrings(n) = AttNews(st, n)
              /\ {} \union Declares(n) = AttOpens(st, n)
          BY <4>1 DEF AttNews, AttOpens
        <4>5. Onwards(w, z) /\ z.entry = w.entry /\ Steady(w)
          BY <3>3, <4>1, AttPrefixWell DEF Ready, Signed
        <4>6. ASSUME z.answer = "ok"
              PROVE  z.entry \in Entries(z.tables["attributes"]) /\ Read(z.pool, z.entry) = n
          <5>1. Steady(z) /\ w.kept \subseteq z.kept
            BY <4>2, <4>5, <4>6 DEF Told, Onwards, Failing
          <5>2. Read(z.pool, w.entry) = Read(w.pool, w.entry)
            BY <1>4, <3>3, <4>5, <5>1, InStays
          <5> QED  BY <3>3, <4>5, <5>2 DEF Onwards
        <4> QED  BY <4>3, <4>4, <4>6
      <3>5. CASE q.entry # a
        <4>1. z = w /\ AttNews(st, n) = {} /\ AttOpens(st, n) = {}
          BY <3>1, <3>2, <3>5 DEF AttNews, AttOpens
        <4> QED  BY <3>3, <4>1
      <3> QED  BY <3>4, <3>5
    <2> QED  BY <2>1, <2>2, <2>3
  <1> QED  BY <1>6, <1>7, <1>8

-----------------------------------------------------------------------------
\* q is p but for the characters in the heap.
Respelled(p, q) ==
  /\ q \in Pools /\ q.blocks = p.blocks /\ q.freeBlocks = p.freeBlocks /\ q.cur = p.cur
  /\ q.start = p.start /\ q.ptr = p.ptr /\ \A b \in Block : Len(q.heap[b]) = Len(p.heap[b])

\* Other signs at the same places.
LEMMA SignsGood ==
  ASSUME NEW p, NEW K, NEW E, NEW M, Good(p, K \union Signs(E, M)), NEW q, Respelled(p, q), Good(q, K),
         \A e \in E : e.at > 0, E \subseteq Named,
         NEW N, \A e \in E : q.heap[e.block][e.at] = IF e \in N THEN Mark ELSE Zero
  PROVE  Good(q, K \union Signs(E, N))
  <1> DEFINE L == Signs(E, M)
             O == Signs(E, N)
             s(e, X) == [block |-> e.block, at |-> e.at - 1, text |-> <<IF e \in X THEN Mark ELSE Zero>>]
  <1>1. ASSUME NEW c \in {Mark, Zero} PROVE <<c>> \in Text /\ Len(<<c>>) = 1 /\ <<c>> # <<>> /\ <<c>>[1] = c
    BY NamesAssumption DEF Text
  <1>2. \A e \in E : \A X : (IF e \in X THEN Mark ELSE Zero) \in {Mark, Zero}
    OBVIOUS
  <1>3. ASSUME NEW e \in E, NEW X
        PROVE  /\ s(e, X) \in Strings /\ Len(s(e, X).text) = 1 /\ s(e, X).text # <<>>
               /\ s(e, X).text[1] = IF e \in X THEN Mark ELSE Zero
               /\ s(e, X).block = e.block /\ s(e, X).at = e.at - 1
    <2>1. e.block \in Block /\ e.at - 1 \in Nat
      BY DEF Named
    <2>2. (IF e \in X THEN Mark ELSE Zero) \in {Mark, Zero}
      BY <1>2
    <2> DEFINE c == IF e \in X THEN Mark ELSE Zero
    <2>3. <<c>> \in Text /\ Len(<<c>>) = 1 /\ <<c>> # <<>> /\ <<c>>[1] = c
      BY <1>1, <2>2
    <2> HIDE DEF c
    <2>4. s(e, X) = [block |-> e.block, at |-> e.at - 1, text |-> <<c>>]
      BY DEF c
    <2> HIDE DEF s
    <2>5. s(e, X) \in Strings
      BY <2>1, <2>3, <2>4 DEF Strings
    <2> QED  BY <2>3, <2>4, <2>5 DEF c
  <1>4. L = {s(e, M) : e \in E} /\ O = {s(e, N) : e \in E}
    BY DEF Signs
  <1> HIDE DEF s, L, O
  <1>5. Good(p, K \union L) /\ K \subseteq Strings
    BY DEF Good, Typed, L
  <1>6. ASSUME NEW e \in E
        PROVE  /\ s(e, N).at + 1 <= Len(q.heap[s(e, N).block])
               /\ s(e, N).block = p.cur => s(e, N).at + 1 <= p.start
               /\ \A j \in 1 .. Len(p.freeBlocks) : p.freeBlocks[j] # s(e, N).block
    <2>1. s(e, M) \in K \union L /\ Len(s(e, M).text) = 1 /\ 1 \in 1 .. 1
      BY <1>3, <1>4
    <2>2. s(e, M).at + 1 <= Len(p.heap[s(e, M).block])
      BY <1>5, <2>1 DEF Good, Stay
    <2>3. s(e, M).block = p.cur => s(e, M).at + 1 <= p.start
      BY <1>5, <2>1 DEF Good, Behind
    <2>4. \A j \in 1 .. Len(p.freeBlocks) : p.freeBlocks[j] # s(e, M).block
      BY <1>5, <2>1 DEF Good, NotFree
    <2>5. s(e, M).block = s(e, N).block /\ s(e, M).at = s(e, N).at /\ s(e, N).block \in Block
      BY <1>3 DEF Strings
    <2> QED  BY <2>2, <2>3, <2>4, <2>5 DEF Respelled
  <1>7. Typed(q, K \union O)
    <2>1. O \subseteq Strings
      BY <1>3, <1>4
    <2> QED  BY <1>5, <2>1 DEF Good, Typed
  <1>8. Stay(q, K \union O)
    <2>1. ASSUME NEW e \in E, NEW i \in 1 .. Len(s(e, N).text)
          PROVE  /\ s(e, N).at + i <= Len(q.heap[s(e, N).block])
                 /\ q.heap[s(e, N).block][s(e, N).at + i] = s(e, N).text[i]
      <3>0. Len(s(e, N).text) = 1
        BY <1>3
      <3>1. i = 1
        BY <3>0
      <3>2. s(e, N).at + 1 = e.at
        BY <1>3 DEF Named
      <3> QED  BY <1>3, <1>6, <3>1, <3>2
    <2> QED  BY <1>4, <2>1 DEF Good, Stay
  <1>9. Behind(q, K \union O)
    <2>1. q.cur = p.cur /\ q.start = p.start
      BY DEF Respelled
    <2>2. ASSUME NEW k \in O
          PROVE  k.text # <<>> /\ (k.block = q.cur => k.at + Len(k.text) <= q.start)
      <3>1. PICK e \in E : k = s(e, N)
        BY <1>4
      <3>2. k.text # <<>> /\ Len(k.text) = 1
        BY <1>3, <3>1
      <3> QED  BY <1>6, <2>1, <3>1, <3>2
    <2>3. Behind(q, K)
      BY DEF Good
    <2> QED  BY <2>2, <2>3 DEF Behind
  <1>10. NotFree(q, K \union O)
    <2>1. q.freeBlocks = p.freeBlocks
      BY DEF Respelled
    <2> QED  BY <1>4, <1>6, <2>1 DEF Good, NotFree
  <1> QED  BY <1>7, <1>8, <1>9, <1>10 DEF Good, O

\* Before a name stands 1 when it is marked and 0 when it is not.
LEMMA SignRead ==
  ASSUME NEW st, Signed(st), NEW e \in Entries(st.tables["attributes"])
  PROVE  st.pool.heap[e.block][e.at] = IF e \in st.marked THEN Mark ELSE Zero
  <1> DEFINE k == [block |-> e.block, at |-> e.at - 1, text |-> <<IF e \in st.marked THEN Mark ELSE Zero>>]
  <1>1. k \in Guarded(st)
    BY DEF Guarded, Signs
  <1>2. k.block = e.block /\ k.at = e.at - 1 /\ Len(k.text) = 1
        /\ k.text[1] = IF e \in st.marked THEN Mark ELSE Zero
    OBVIOUS
  <1> HIDE DEF k
  <1>3. st.pool.heap[k.block][k.at + 1] = k.text[1]
    <2>1. 1 \in 1 .. Len(k.text)
      BY <1>2
    <2> QED  BY <1>1, <2>1 DEF Signed, Good, Stay
  <1>4. k.at + 1 = e.at
    <2>1. e.at \in Nat
      BY SteadyHeld DEF Signed, Held, Named
    <2> QED  BY <1>2, <2>1
  <1> QED  BY <1>2, <1>3, <1>4

\* The names that are marked.
MarkedNames(st) == {Read(st.pool, e) : e \in st.marked}

\* A name is marked when its entry is.
LEMMA EntryMarked ==
  ASSUME HashesAreNumbers, NEW st, Signed(st), NEW e \in Entries(st.tables["attributes"])
  PROVE  e \in st.marked <=> Read(st.pool, e) \in MarkedNames(st)
  <1>1. "attributes" \in TableNames
    BY DEF TableNames
  <1>2. Sound(st.pool, st.tables["attributes"]) /\ st.marked \subseteq Entries(st.tables["attributes"])
    BY <1>1, SteadyHeld DEF Signed
  <1>3. \A d \in Entries(st.tables["attributes"]) :
          Found(st.pool, st.tables["attributes"], Read(st.pool, d)) = d
    BY <1>2, SoundFinds
  <1> QED  BY <1>2, <1>3 DEF MarkedNames

-----------------------------------------------------------------------------
\* Between two calls: nothing is being built and no name is marked.
Rested(p, K, T) ==
  /\ Well(p, K, T, {}, Empty) /\ p.ptr = p.start
  /\ \A e \in Entries(T["attributes"]) : e.at > 0
  /\ Good(p, K \union Signs(Entries(T["attributes"]), {}))

\* What holds of the entries of attributes.
LEMMA SignedEntries ==
  ASSUME NEW st, Signed(st)
  PROVE  /\ Entries(st.tables["attributes"]) \subseteq Named
         /\ \A e \in Entries(st.tables["attributes"]) :
              /\ e.at > 0 /\ e.at \in 1 .. Len(st.pool.heap[e.block]) /\ st.pool.heap[e.block] \in Text
  <1> SUFFICES ASSUME NEW e \in Entries(st.tables["attributes"])
               PROVE  /\ e \in Named /\ e.at > 0 /\ e.at \in 1 .. Len(st.pool.heap[e.block])
                      /\ st.pool.heap[e.block] \in Text
    OBVIOUS
  <1>1. e \in Named /\ e.at > 0
    BY SteadyHeld DEF Signed, Held
  <1> DEFINE k == [block |-> e.block, at |-> e.at - 1, text |-> <<IF e \in st.marked THEN Mark ELSE Zero>>]
  <1>2. k \in Guarded(st)
    BY DEF Guarded, Signs
  <1>3. k.block = e.block /\ k.at = e.at - 1 /\ Len(k.text) = 1
    OBVIOUS
  <1> HIDE DEF k
  <1>4. k.at + 1 <= Len(st.pool.heap[k.block])
    <2>1. 1 \in 1 .. Len(k.text)
      BY <1>3
    <2> QED  BY <1>2, <2>1 DEF Signed, Good, Stay
  <1>5. e.at \in Nat /\ e.block \in Block
    BY <1>1 DEF Named
  <1>6. st.pool.heap[e.block] \in Text /\ Len(st.pool.heap[e.block]) \in Nat
    BY <1>5, LenProperties DEF Signed, Good, Typed, Pools, Text
  <1>7. k.at + 1 = e.at
    BY <1>3, <1>5
  <1>8. e.at \in 1 .. Len(st.pool.heap[e.block])
    BY <1>1, <1>3, <1>4, <1>5, <1>6, <1>7
  <1> QED  BY <1>1, <1>6, <1>8

\* storeAtts: the mark is written before the name.
LEMMA MarkedReady ==
  ASSUME HashesAreNumbers, NEW st, Ready(st), st.entry \in Entries(st.tables["attributes"])
  PROVE  LET z == Marked(st)
         IN  /\ Ready(z) /\ z.answer = st.answer /\ Same(st, z)
             /\ MarkedNames(z) = MarkedNames(st) \union {Read(st.pool, st.entry)}
  <1> DEFINE z == Marked(st)
             e == st.entry
             p == st.pool
             E == Entries(st.tables["attributes"])
  <1>1. Signed(st) /\ Steady(st) /\ DOMAIN st = Parts /\ p \in Pools
    BY SteadyHeld DEF Ready, Signed, Steady, Good, Typed
  <1>2. Steady(z)
    BY <1>1, MarkedWell
  <1>3. /\ DOMAIN z = Parts /\ z.kept = st.kept /\ z.tables = st.tables /\ z.answer = st.answer
        /\ z.marked = st.marked \union {e}
        /\ z.pool = [p EXCEPT !.heap = [p.heap EXCEPT ![e.block][e.at] = Mark]]
    BY <1>1 DEF Marked, Parts
  <1> HIDE DEF z
  <1>4. /\ z.pool.heap = [p.heap EXCEPT ![e.block][e.at] = Mark] /\ z.pool.blocks = p.blocks
        /\ z.pool.freeBlocks = p.freeBlocks /\ z.pool.cur = p.cur /\ z.pool.start = p.start
        /\ z.pool.ptr = p.ptr /\ p.heap \in [Block -> Text]
    BY <1>1, <1>3 DEF Pools
  <1>5. E \subseteq Named /\ \A d \in E : d.at \in 1 .. Len(p.heap[d.block]) /\ p.heap[d.block] \in Text
    BY <1>1, SignedEntries
  <1>6. e \in E /\ e.block \in Block /\ p.heap[e.block] \in Text /\ e.at \in 1 .. Len(p.heap[e.block])
    BY <1>5 DEF Named
  <1>7. \A b \in Block : z.pool.heap[b] = IF b = e.block THEN [p.heap[b] EXCEPT ![e.at] = Mark] ELSE p.heap[b]
    BY <1>4
  <1>8. Respelled(p, z.pool)
    <2>1. z.pool \in Pools
      BY <1>2, SteadyHeld DEF Good, Typed
    <2>2. Len([p.heap[e.block] EXCEPT ![e.at] = Mark]) = Len(p.heap[e.block])
      BY <1>6, NamesAssumption, ExceptSeq DEF Text
    <2>3. \A b \in Block : Len(z.pool.heap[b]) = Len(p.heap[b])
      BY <1>7, <2>2
    <2> QED  BY <1>4, <2>1, <2>3 DEF Respelled
  <1>9. \A d \in E : z.pool.heap[d.block][d.at] = IF d \in st.marked \union {e} THEN Mark ELSE Zero
    <2> SUFFICES ASSUME NEW d \in E
                 PROVE  z.pool.heap[d.block][d.at] = IF d \in st.marked \union {e} THEN Mark ELSE Zero
      OBVIOUS
    <2>1. CASE d = e
      <3>1. z.pool.heap[e.block] = [p.heap[e.block] EXCEPT ![e.at] = Mark]
        BY <1>6, <1>7
      <3>2. e.at \in DOMAIN p.heap[e.block]
        BY <1>6, LenProperties DEF Text
      <3> QED  BY <2>1, <3>1, <3>2
    <2>2. CASE d # e
      <3>1. d.block \in Block /\ (d.block # e.block \/ d.at # e.at)
        BY <1>5, <1>6, <2>2 DEF Named
      <3>2. z.pool.heap[d.block][d.at] = p.heap[d.block][d.at]
        <4>1. CASE d.block # e.block
          BY <1>7, <3>1, <4>1
        <4>2. CASE d.block = e.block /\ d.at # e.at
          <5>1. z.pool.heap[d.block] = [p.heap[e.block] EXCEPT ![e.at] = Mark]
            BY <1>6, <1>7, <4>2
          <5>2. d.at \in DOMAIN p.heap[e.block]
            BY <1>5, <4>2, LenProperties DEF Text
          <5> QED  BY <4>2, <5>1, <5>2
        <4> QED  BY <3>1, <4>1, <4>2
      <3>3. p.heap[d.block][d.at] = IF d \in st.marked THEN Mark ELSE Zero
        BY <1>1, SignRead
      <3> QED  BY <2>2, <3>2, <3>3
    <2> QED  BY <2>1, <2>2
  <1>10. Good(z.pool, z.kept \union Signs(E, st.marked \union {e}))
    <2> DEFINE K == st.kept
               q == z.pool
               N == st.marked \union {e}
    <2>1. Good(p, K \union Signs(E, st.marked))
      BY <1>1 DEF Signed, Guarded
    <2>2. Good(q, K)
      BY <1>2, <1>3, SteadyHeld
    <2>3. \A d \in E : d.at > 0
      BY <1>1 DEF Signed
    <2>4. Respelled(p, q) /\ \A d \in E : q.heap[d.block][d.at] = IF d \in N THEN Mark ELSE Zero
      BY <1>8, <1>9
    <2> HIDE DEF K, q, N, p, E
    <2>5. Good(q, K \union Signs(E, N))
      BY <1>5, <2>1, <2>2, <2>3, <2>4, SignsGood
    <2> QED  BY <1>3, <2>5 DEF K, q, N
  <1>11. Ready(z)
    <2>1. z.marked \subseteq Entries(z.tables["attributes"])
      BY <1>1, <1>3, <1>6 DEF Signed
    <2>2. z.pool.ptr = z.pool.start
      BY <1>4 DEF Ready
    <2>3. \A d \in Entries(z.tables["attributes"]) : d.at > 0
      BY <1>1, <1>3 DEF Signed
    <2>4. Guarded(z) = z.kept \union Signs(E, st.marked \union {e})
      BY <1>3 DEF Guarded
    <2> QED  BY <1>2, <1>10, <2>1, <2>2, <2>3, <2>4 DEF Ready, Signed
  <1>12. /\ \A x \in TableNames : In(z, x) = In(st, x)
         /\ \A d \in E : Read(z.pool, d) = Read(p, d)
    <2>1. "attributes" \in TableNames
      BY DEF TableNames
    <2> QED  BY <1>1, <1>2, <1>3, <2>1, InStays
  <1>13. MarkedNames(z) = MarkedNames(st) \union {Read(p, e)}
    <2>1. \A d \in st.marked \union {e} : Read(z.pool, d) = Read(p, d)
      BY <1>1, <1>6, <1>12 DEF Signed
    <2> QED  BY <1>3, <2>1 DEF MarkedNames
  <1> QED  BY <1>3, <1>11, <1>12, <1>13 DEF Same, z

\* storeAtts, at the end: the marks are taken off.
LEMMA UnmarkedRested ==
  ASSUME HashesAreNumbers, NEW st, Ready(st), NEW z \in Unmarked(st)
  PROVE  Rested(z.pool, z.kept, z.tables) /\ z.answer = st.answer /\ Same(st, z)
  <1> DEFINE h == [b \in Block |-> [i \in 1 .. Len(st.pool.heap[b]) |->
                    IF [block |-> b, at |-> i] \in st.marked THEN Zero ELSE st.pool.heap[b][i]]]
             p == st.pool
             E == Entries(st.tables["attributes"])
  <1>1. Signed(st) /\ Steady(st) /\ DOMAIN st = Parts /\ p \in Pools
    BY SteadyHeld DEF Ready, Signed, Steady, Good, Typed
  <1>2. Steady(z)
    BY <1>1, UnmarkedWell
  <1>3. z = [st EXCEPT !.pool.heap = h]
    BY DEF Unmarked
  <1> HIDE DEF h
  <1>4. /\ DOMAIN z = Parts /\ z.kept = st.kept /\ z.tables = st.tables /\ z.answer = st.answer
        /\ z.marked = st.marked /\ z.pool = [p EXCEPT !.heap = h]
    BY <1>1, <1>3 DEF Parts
  <1>5. /\ z.pool.heap = h /\ z.pool.blocks = p.blocks
        /\ z.pool.freeBlocks = p.freeBlocks /\ z.pool.cur = p.cur /\ z.pool.start = p.start
        /\ z.pool.ptr = p.ptr /\ p.heap \in [Block -> Text]
    BY <1>1, <1>4 DEF Pools
  <1>6. E \subseteq Named /\ \A d \in E : d.at \in 1 .. Len(p.heap[d.block]) /\ p.heap[d.block] \in Text
    BY <1>1, SignedEntries
  <1>7. ASSUME NEW b \in Block
        PROVE  /\ Len(h[b]) = Len(p.heap[b])
               /\ \A i \in 1 .. Len(p.heap[b]) :
                    h[b][i] = IF [block |-> b, at |-> i] \in st.marked THEN Zero ELSE p.heap[b][i]
    <2>1. Len(p.heap[b]) \in Nat
      BY <1>5, LenProperties DEF Text
    <2>2. h[b] = [i \in 1 .. Len(p.heap[b]) |->
                    IF [block |-> b, at |-> i] \in st.marked THEN Zero ELSE p.heap[b][i]]
      BY DEF h
    <2> QED  BY <2>1, <2>2
  <1>8. Respelled(p, z.pool)
    <2>1. z.pool \in Pools
      BY <1>2, SteadyHeld DEF Good, Typed
    <2> QED  BY <1>5, <1>7, <2>1 DEF Respelled
  <1>9. \A d \in E : z.pool.heap[d.block][d.at] = IF d \in {} THEN Mark ELSE Zero
    <2> SUFFICES ASSUME NEW d \in E PROVE z.pool.heap[d.block][d.at] = Zero
      OBVIOUS
    <2>1. d.block \in Block /\ d.at \in 1 .. Len(p.heap[d.block]) /\ d = [block |-> d.block, at |-> d.at]
      BY <1>6 DEF Named
    <2>2. h[d.block][d.at] = IF [block |-> d.block, at |-> d.at] \in st.marked THEN Zero ELSE p.heap[d.block][d.at]
      BY <1>7, <2>1
    <2>3. p.heap[d.block][d.at] = IF d \in st.marked THEN Mark ELSE Zero
      BY <1>1, SignRead
    <2> QED  BY <1>5, <2>1, <2>2, <2>3
  <1>10. Good(z.pool, z.kept \union Signs(E, {}))
    <2> DEFINE K == st.kept
               q == z.pool
               N == {}
    <2>1. Good(p, K \union Signs(E, st.marked))
      BY <1>1 DEF Signed, Guarded
    <2>2. Good(q, K)
      BY <1>2, <1>4, SteadyHeld
    <2>3. \A d \in E : d.at > 0
      BY <1>1 DEF Signed
    <2>4. Respelled(p, q) /\ \A d \in E : q.heap[d.block][d.at] = IF d \in N THEN Mark ELSE Zero
      BY <1>8, <1>9
    <2> HIDE DEF K, q, N, p, E
    <2>5. Good(q, K \union Signs(E, N))
      BY <1>6, <2>1, <2>2, <2>3, <2>4, SignsGood
    <2> QED  BY <1>4, <2>5 DEF K, q, N
  <1>11. Well(z.pool, z.kept, z.tables, {}, Empty)
    BY <1>2 DEF Steady, Well
  <1>12. z.pool.ptr = z.pool.start /\ \A d \in Entries(z.tables["attributes"]) : d.at > 0
    BY <1>1, <1>4, <1>5 DEF Ready, Signed
  <1>13. Rested(z.pool, z.kept, z.tables)
    BY <1>4, <1>10, <1>11, <1>12 DEF Rested
  <1>14. Same(st, z)
    BY <1>1, <1>2, <1>4, InStays DEF Same
  <1> QED  BY <1>4, <1>13, <1>14

-----------------------------------------------------------------------------
\* A twice-told attribute is named, and one that is new is marked.
AttributeEnds(st, z, n) ==
  \/ z.answer \in Failing /\ Within(st, z, {}, {n}, AttNews(st, n) \union AttOpens(st, n))
  \/ /\ z.answer = "duplicate" /\ n \in MarkedNames(st)
     /\ Exact(st, z, {}, {n}, AttNews(st, n), AttOpens(st, n))
  \/ /\ z.answer = "ok" /\ n \notin MarkedNames(st) /\ Ready(z)
     /\ MarkedNames(z) = MarkedNames(st) \union {n}
     /\ Exact(st, z, {}, {n}, AttNews(st, n), AttOpens(st, n))

\* What is exact stays so in a state whose tables keep the same names.
LEMMA ExactSame ==
  ASSUME NEW st, NEW r, NEW z, NEW T, NEW A, NEW P, NEW O, Exact(st, r, T, A, P, O), Same(r, z)
  PROVE  Exact(st, z, T, A, P, O)
  <1>1. "types" \in TableNames /\ "attributes" \in TableNames /\ "prefixes" \in TableNames
    BY DEF TableNames
  <1> QED  BY <1>1 DEF Exact, Same

\* storeAtts, one attribute.
LEMMA AttributeTold ==
  ASSUME HashesAreNumbers, NEW st, Ready(st), NEW n \in Names0, NEW z \in Attribute(st, n)
  PROVE  AttributeEnds(st, z, n)
  <1> DEFINE Check(r) == {IF Before(r) # Zero THEN Ends(r, "duplicate") ELSE Marked(r)}
             P == AttNews(st, n)
             O == AttOpens(st, n)
  <1>1. PICK r \in getAttributeId(st, n) : z \in IF r.answer = "ok" THEN Check(r) ELSE {r}
    BY DEF Attribute, Next1
  <1>2. /\ Told(st, r, {}, {n}, P, O)
        /\ r.answer = "ok" => r.entry \in Entries(r.tables["attributes"]) /\ Read(r.pool, r.entry) = n
    BY <1>1, AttTold
  <1> HIDE DEF P, O
  <1>3. CASE r.answer # "ok"
    <2>1. z = r /\ r.answer \in Failing /\ Within(st, r, {}, {n}, P \union O)
      BY <1>1, <1>2, <1>3 DEF Told
    <2> QED  BY <2>1 DEF AttributeEnds, P, O
  <1>4. CASE r.answer = "ok"
    <2>1. /\ Ready(r) /\ r.marked = st.marked /\ st.kept \subseteq r.kept /\ Exact(st, r, {}, {n}, P, O)
          /\ r.entry \in Entries(r.tables["attributes"]) /\ Read(r.pool, r.entry) = n
      BY <1>2, <1>4 DEF Told, Failing
    <2>2. Steady(st) /\ Steady(r) /\ Signed(r) /\ Signed(st)
      BY <2>1 DEF Ready, Signed
    <2>3. MarkedNames(r) = MarkedNames(st)
      <3>1. "attributes" \in TableNames
        BY DEF TableNames
      <3>2. \A e \in Entries(st.tables["attributes"]) : Read(r.pool, e) = Read(st.pool, e)
        BY <2>1, <2>2, <3>1, InStays
      <3>3. \A e \in st.marked : Read(r.pool, e) = Read(st.pool, e)
        BY <2>2, <3>2 DEF Signed
      <3> QED  BY <2>1, <3>3 DEF MarkedNames
    <2>4. Before(r) = IF n \in MarkedNames(st) THEN Mark ELSE Zero
      <3>1. r.entry \in r.marked <=> n \in MarkedNames(st)
        BY <2>1, <2>2, <2>3, EntryMarked
      <3> QED  BY <2>1, <2>2, <3>1, SignRead DEF Before
    <2>5. z = IF Before(r) # Zero THEN Ends(r, "duplicate") ELSE Marked(r)
      BY <1>1, <1>4
    <2>6. CASE n \in MarkedNames(st)
      <3>1. z = Ends(r, "duplicate")
        BY <2>4, <2>5, <2>6, NamesAssumption
      <3>2. DOMAIN r = Parts
        BY <2>2 DEF Steady
      <3>3. z.answer = "duplicate" /\ z.pool = r.pool /\ z.tables = r.tables
        BY <3>1, <3>2 DEF Ends, Parts
      <3>4. Same(r, z)
        BY <3>3 DEF Same, In
      <3> QED  BY <2>1, <2>6, <3>3, <3>4, ExactSame DEF AttributeEnds, P, O
    <2>7. CASE n \notin MarkedNames(st)
      <3>1. z = Marked(r)
        BY <2>4, <2>5, <2>7
      <3>2. /\ Ready(z) /\ z.answer = "ok" /\ Same(r, z)
            /\ MarkedNames(z) = MarkedNames(st) \union {n}
        BY <1>4, <2>1, <2>3, <3>1, MarkedReady
      <3> QED  BY <2>1, <2>7, <3>2, ExactSame DEF AttributeEnds, P, O
    <2> QED  BY <2>6, <2>7
  <1> QED  BY <1>3, <1>4

-----------------------------------------------------------------------------
\* The prefixes that a tag of the type n with the attributes A brings, and may bring.
News(st, n, A) == TypeNews(st, n) \union (UNION {AttNews(st, a) : a \in A})
Opens(st, A)   == UNION {AttOpens(st, a) : a \in A}

\* One attribute more brings what it brings to the state before it.
NewsOn(st, r, n, A, a) ==
  /\ News(st, n, A \union {a}) = News(st, n, A) \union AttNews(r, a)
  /\ Opens(st, A \union {a}) = Opens(st, A) \union AttOpens(r, a)

\* The names of A bring what they bring, and then a.
LEMMA NewsGrow ==
  ASSUME NEW st, NEW r, NEW A, In(r, "attributes") = In(st, "attributes") \union A, NEW n, NEW a
  PROVE  NewsOn(st, r, n, A, a)
  <1> USE DEF NewsOn
  <1>1. /\ (UNION {AttNews(st, b) : b \in A \union {a}}) = (UNION {AttNews(st, b) : b \in A}) \union AttNews(st, a)
        /\ (UNION {AttOpens(st, b) : b \in A \union {a}}) = (UNION {AttOpens(st, b) : b \in A}) \union AttOpens(st, a)
    <2> DEFINE F(b) == AttNews(st, b)
               G(b) == AttOpens(st, b)
    <2> HIDE DEF F, G
    <2>1. /\ (UNION {F(b) : b \in A \union {a}}) = (UNION {F(b) : b \in A}) \union F(a)
          /\ (UNION {G(b) : b \in A \union {a}}) = (UNION {G(b) : b \in A}) \union G(a)
      OBVIOUS
    <2> QED  BY <2>1 DEF F, G
  <1>2. CASE a \in A
    <2>1. AttNews(r, a) = {} /\ AttOpens(r, a) = {} /\ A \union {a} = A
      BY <1>2 DEF AttNews, AttOpens
    <2> QED  BY <2>1
  <1>3. CASE a \notin A
    <2>1. AttNews(r, a) = AttNews(st, a) /\ AttOpens(r, a) = AttOpens(st, a)
      BY <1>3 DEF AttNews, AttOpens
    <2> QED  BY <1>1, <2>1 DEF News, Opens
  <1> QED  BY <1>2, <1>3

\* Steps that are exact, one after the other; the second may fail.
LEMMA ExactOn ==
  ASSUME NEW st, NEW r, NEW z, NEW T, NEW A, NEW P, NEW O, Exact(st, r, T, A, P, O),
         NEW B, NEW Q, NEW R
  PROVE  /\ Exact(r, z, {}, B, Q, R) => Exact(st, z, T, A \union B, P \union Q, O \union R)
         /\ Within(r, z, {}, B, Q \union R) =>
              Within(st, z, T, A \union B, (P \union Q) \union (O \union R))
  BY DEF Exact, Within

\* What an attribute a after the attributes A leaves, B being all of them.
TagEnds(st, z, n, A, B, a) ==
  \/ z.answer \in Failing /\ Within(st, z, {n}, B, News(st, n, B) \union Opens(st, B))
  \/ /\ z.answer = "duplicate" /\ a \in A
     /\ Exact(st, z, {n}, B, News(st, n, B), Opens(st, B))
  \/ /\ z.answer = "ok" /\ a \notin A /\ Ready(z) /\ MarkedNames(z) = B
     /\ Exact(st, z, {n}, B, News(st, n, B), Opens(st, B))

\* An attribute after the attributes A.
LEMMA TagOn ==
  ASSUME HashesAreNumbers, NEW st, NEW n, NEW A, NEW r, Ready(r), r.answer = "ok",
         MarkedNames(r) = A, Exact(st, r, {n}, A, News(st, n, A), Opens(st, A)),
         NEW a \in Names0, NEW B, B = A \union {a}, NEW z \in Attribute(r, a)
  PROVE  TagEnds(st, z, n, A, B, a)
  <1> DEFINE P == News(st, n, A)
             O == Opens(st, A)
             Q == AttNews(r, a)
             R == AttOpens(r, a)
  <1>1. AttributeEnds(r, z, a)
    BY AttributeTold
  <1>2. In(r, "attributes") = In(st, "attributes") \union A
    BY DEF Exact
  <1>3. News(st, n, B) = P \union Q /\ Opens(st, B) = O \union R
    <2>1. /\ News(st, n, A \union {a}) = P \union Q
          /\ Opens(st, A \union {a}) = O \union R
      <3> HIDE DEF P, O, Q, R
      <3>1. /\ News(st, n, A \union {a}) = News(st, n, A) \union AttNews(r, a)
            /\ Opens(st, A \union {a}) = Opens(st, A) \union AttOpens(r, a)
        <4>1. NewsOn(st, r, n, A, a)
          BY <1>2, NewsGrow
        <4> QED  BY <4>1 DEF NewsOn
      <3> QED  BY <3>1 DEF P, O, Q, R
    <2> QED  BY <2>1
  <1>4. Exact(st, r, {n}, A, P, O)
    OBVIOUS
  <1>5. \/ z.answer \in Failing /\ Within(r, z, {}, {a}, Q \union R)
        \/ z.answer = "duplicate" /\ a \in A /\ Exact(r, z, {}, {a}, Q, R)
        \/ /\ z.answer = "ok" /\ a \notin A /\ Ready(z) /\ MarkedNames(z) = B
           /\ Exact(r, z, {}, {a}, Q, R)
    BY <1>1 DEF AttributeEnds
  <1> HIDE DEF P, O, Q, R
  <1>6. /\ Exact(r, z, {}, {a}, Q, R) => Exact(st, z, {n}, B, P \union Q, O \union R)
        /\ Within(r, z, {}, {a}, Q \union R) =>
             Within(st, z, {n}, B, (P \union Q) \union (O \union R))
    BY <1>4, ExactOn
  <1> QED  BY <1>3, <1>5, <1>6 DEF TagEnds

\* What failed within some names, failed within more of them.
LEMMA WithinMore ==
  ASSUME NEW st, NEW z, NEW n, NEW A, NEW B, A \subseteq B,
         Within(st, z, {n}, A, News(st, n, A) \union Opens(st, A))
  PROVE  Within(st, z, {n}, B, News(st, n, B) \union Opens(st, B))
  <1>1. (UNION {AttNews(st, a) : a \in A}) \subseteq (UNION {AttNews(st, a) : a \in B})
    OBVIOUS
  <1>2. Opens(st, A) \subseteq Opens(st, B)
    BY DEF Opens
  <1> QED  BY <1>1, <1>2 DEF Within, News

-----------------------------------------------------------------------------
UpTo(atts, i)      == {atts[j] : j \in 1 .. i}
FirstTime(atts, i) == atts[i] \notin UpTo(atts, i - 1)
Single(atts, i)    == \A j \in 1 .. i : FirstTime(atts, j)

\* The names known from a tag of the type n with the attributes A.
Tagged(st, r, n, A) == Exact(st, r, {n}, A, News(st, n, A), Opens(st, A))

\* What a tag has come to, after its attributes up to i.
TagSo(st, r, n, atts, i) ==
  \/ /\ r.answer \in Failing
     /\ Within(st, r, {n}, UpTo(atts, i), News(st, n, UpTo(atts, i)) \union Opens(st, UpTo(atts, i)))
  \/ /\ r.answer = "duplicate"
     /\ \E k \in 1 .. i : Single(atts, k - 1) /\ ~FirstTime(atts, k) /\ Tagged(st, r, n, UpTo(atts, k))
  \/ /\ r.answer = "ok" /\ Ready(r) /\ MarkedNames(r) = UpTo(atts, i) /\ Single(atts, i)
     /\ Tagged(st, r, n, UpTo(atts, i))

\* One attribute more.
LEMMA UpToNext ==
  ASSUME NEW atts, NEW i \in Nat, i > 0
  PROVE  /\ UpTo(atts, i) = UpTo(atts, i - 1) \union {atts[i]}
         /\ UpTo(atts, i - 1) \subseteq UpTo(atts, i)
         /\ Single(atts, i) <=> Single(atts, i - 1) /\ FirstTime(atts, i)
  <1>1. \A j : j \in 1 .. i <=> j \in 1 .. i - 1 \/ j = i
    OBVIOUS
  <1>2. UpTo(atts, i) = UpTo(atts, i - 1) \union {atts[i]}
    BY <1>1 DEF UpTo
  <1> QED  BY <1>1, <1>2 DEF Single

\* storeAtts goes from one attribute to the next.
LEMMA TagNext ==
  ASSUME HashesAreNumbers, NEW st, NEW n, NEW atts, NEW i \in Nat, i > 0, atts[i] \in Names0,
         NEW r, TagSo(st, r, n, atts, i - 1),
         NEW z, z \in IF r.answer = "ok" THEN Attribute(r, atts[i]) ELSE {r}
  PROVE  TagSo(st, z, n, atts, i)
  <1> DEFINE A == UpTo(atts, i - 1)
             B == UpTo(atts, i)
             a == atts[i]
  <1>1. /\ B = A \union {a} /\ A \subseteq B /\ (Single(atts, i) <=> Single(atts, i - 1) /\ a \notin A)
        /\ (FirstTime(atts, i) <=> a \notin A)
    BY UpToNext DEF FirstTime
  <1>2. i \in 1 .. i /\ \A k \in 1 .. i - 1 : k \in 1 .. i
    OBVIOUS
  <1>3. CASE r.answer \in Failing
    <2>1. z = r
      BY <1>3 DEF Failing
    <2>2. Within(st, r, {n}, A, News(st, n, A) \union Opens(st, A))
      BY <1>3 DEF TagSo, Failing
    <2> HIDE DEF A, B
    <2>3. Within(st, z, {n}, B, News(st, n, B) \union Opens(st, B))
      BY <1>1, <2>1, <2>2, WithinMore
    <2> QED  BY <1>3, <2>1, <2>3 DEF TagSo, B
  <1>4. CASE r.answer = "duplicate"
    <2>1. z = r
      BY <1>4
    <2>2. PICK k \in 1 .. i - 1 : Single(atts, k - 1) /\ ~FirstTime(atts, k) /\ Tagged(st, r, n, UpTo(atts, k))
      BY <1>4 DEF TagSo, Failing
    <2> QED  BY <1>2, <1>4, <2>1, <2>2 DEF TagSo
  <1>5. CASE r.answer = "ok"
    <2>1. /\ Ready(r) /\ MarkedNames(r) = A /\ Single(atts, i - 1)
          /\ Exact(st, r, {n}, A, News(st, n, A), Opens(st, A))
      BY <1>5 DEF TagSo, Tagged, Failing
    <2>2. z \in Attribute(r, a) /\ a \in Names0
      BY <1>5
    <2> HIDE DEF A, B, a
    <2>3. \/ z.answer \in Failing /\ Within(st, z, {n}, B, News(st, n, B) \union Opens(st, B))
          \/ /\ z.answer = "duplicate" /\ a \in A
             /\ Exact(st, z, {n}, B, News(st, n, B), Opens(st, B))
          \/ /\ z.answer = "ok" /\ a \notin A /\ Ready(z) /\ MarkedNames(z) = B
             /\ Exact(st, z, {n}, B, News(st, n, B), Opens(st, B))
      <3>1. TagEnds(st, z, n, A, B, a)
        BY <1>1, <1>5, <2>1, <2>2, TagOn
      <3> QED  BY <3>1 DEF TagEnds
    <2>4. CASE z.answer \in Failing /\ Within(st, z, {n}, B, News(st, n, B) \union Opens(st, B))
      BY <2>4 DEF TagSo, B
    <2>5. CASE z.answer = "duplicate" /\ a \in A /\ Exact(st, z, {n}, B, News(st, n, B), Opens(st, B))
      <3>1. Single(atts, i - 1) /\ ~FirstTime(atts, i) /\ Tagged(st, z, n, UpTo(atts, i))
        BY <1>1, <2>1, <2>5 DEF Tagged, B
      <3> QED  BY <1>2, <2>5, <3>1 DEF TagSo
    <2>6. CASE /\ z.answer = "ok" /\ a \notin A /\ Ready(z) /\ MarkedNames(z) = B
               /\ Exact(st, z, {n}, B, News(st, n, B), Opens(st, B))
      BY <1>1, <2>1, <2>6 DEF TagSo, Tagged, B
    <2> QED  BY <2>3, <2>4, <2>5, <2>6
  <1> QED  BY <1>3, <1>4, <1>5 DEF TagSo

-----------------------------------------------------------------------------
\* What the tag as a whole leaves.
StoreEnds(st, z, n, atts) ==
  LET m == Len(atts)
  IN  \/ /\ z.answer \in Failing
         /\ Within(st, z, {n}, UpTo(atts, m), News(st, n, UpTo(atts, m)) \union Opens(st, UpTo(atts, m)))
      \/ /\ z.answer = "duplicate"
         /\ \E k \in 1 .. m : Single(atts, k - 1) /\ ~FirstTime(atts, k) /\ Tagged(st, z, n, UpTo(atts, k))
      \/ /\ z.answer = "ok" /\ Rested(z.pool, z.kept, z.tables) /\ Single(atts, m)
         /\ Tagged(st, z, n, UpTo(atts, m))

\* storeAtts, before the attributes.
LEMMA TagFirst ==
  ASSUME HashesAreNumbers, NEW st, Ready(st), st.answer = "ok", st.marked = {}, NEW n \in Names0,
         NEW atts, NEW z \in TypeOfTag(st, n)
  PROVE  TagSo(st, z, n, atts, 0)
  <1>1. Told(st, z, {n}, {}, TypeNews(st, n), {})
    BY TagTold
  <1>2. \A j \in 1 .. 0 : FALSE
    OBVIOUS
  <1>3. UpTo(atts, 0) = {} /\ Single(atts, 0)
    BY <1>2 DEF UpTo, Single
  <1>4. News(st, n, {}) = TypeNews(st, n) /\ Opens(st, {}) = {}
    BY DEF News, Opens
  <1>5. CASE z.answer \in Failing /\ Within(st, z, {n}, {}, TypeNews(st, n) \union {})
    BY <1>3, <1>4, <1>5 DEF TagSo
  <1>6. CASE z.answer = "ok" /\ Ready(z) /\ z.marked = st.marked /\ Exact(st, z, {n}, {}, TypeNews(st, n), {})
    <2>1. MarkedNames(z) = {}
      BY <1>6 DEF MarkedNames
    <2> QED  BY <1>3, <1>4, <1>6, <2>1 DEF TagSo, Tagged
  <1> QED  BY <1>1, <1>5, <1>6 DEF Told

\* storeAtts, the whole tag.
LEMMA StoreAttsTold ==
  ASSUME HashesAreNumbers, NEW st, Ready(st), st.answer = "ok", st.marked = {}, NEW n \in Names0,
         NEW atts, Len(atts) \in Nat, \A i \in 1 .. Len(atts) : atts[i] \in Names0,
         NEW z \in storeAtts(st, n, atts)
  PROVE  StoreEnds(st, z, n, atts)
  <1> DEFINE m == Len(atts)
  <1>1. m \in Nat /\ \A i \in 1 .. m : atts[i] \in Names0
    OBVIOUS
  <1>2. PICK f : TagSteps(f, st, n, atts)
    BY StoreAttsSteps
  <1>3. storeAtts(st, n, atts) = Next1(f[m], Unmarked)
    BY <1>2 DEF TagSteps
  <1>4. \A i \in 0 .. m : f[i] = IF i = 0 THEN TypeOfTag(st, n) ELSE OneMore(f[i - 1], atts[i])
    BY <1>2 DEF TagSteps
  <1> HIDE DEF m
  <1> DEFINE U == {i \in 0 .. m : \A r \in f[i] : TagSo(st, r, n, atts, i)}
  <1>5. 0 \in U
    <2>1. 0 \in 0 .. m
      BY <1>1
    <2>2. f[0] = TypeOfTag(st, n)
      BY <1>4, <2>1
    <2> QED  BY <2>1, <2>2, TagFirst
  <1>6. ASSUME NEW i \in 1 .. m, i - 1 \in U PROVE i \in U
    <2>1. i \in 0 .. m /\ i # 0 /\ i - 1 \in 0 .. m /\ i \in Nat /\ i > 0
      BY <1>1
    <2>2. f[i] = OneMore(f[i - 1], atts[i]) /\ atts[i] \in Names0
      BY <1>1, <1>4, <2>1
    <2>3. ASSUME NEW w \in f[i] PROVE TagSo(st, w, n, atts, i)
      <3>1. PICK r \in f[i - 1] : w \in IF r.answer = "ok" THEN Attribute(r, atts[i]) ELSE {r}
        BY <2>2 DEF OneMore
      <3>2. TagSo(st, r, n, atts, i - 1)
        BY <1>6, <3>1
      <3> QED  BY <2>1, <2>2, <3>1, <3>2, TagNext
    <2> QED  BY <2>1, <2>3
  <1>7. \A i \in 0 .. m : i \in U
    <2> HIDE DEF U
    <2> QED  BY <1>1, <1>5, <1>6, Climb
  <1>8. PICK r \in f[m] : z \in IF r.answer = "ok" THEN Unmarked(r) ELSE {r}
    BY <1>3 DEF Next1
  <1>9. TagSo(st, r, n, atts, m)
    <2>1. m \in 0 .. m
      BY <1>1
    <2> QED  BY <1>7, <1>8, <2>1
  <1>10. CASE r.answer = "ok"
    <2>1. Ready(r) /\ Single(atts, m) /\ Tagged(st, r, n, UpTo(atts, m))
      BY <1>9, <1>10 DEF TagSo, Failing
    <2>2. Rested(z.pool, z.kept, z.tables) /\ z.answer = "ok" /\ Same(r, z)
      BY <1>8, <1>10, <2>1, UnmarkedRested
    <2>3. Tagged(st, z, n, UpTo(atts, m))
      BY <2>1, <2>2, ExactSame DEF Tagged
    <2> QED  BY <2>1, <2>2, <2>3 DEF StoreEnds, m
  <1>11. CASE r.answer # "ok"
    <2>1. z = r
      BY <1>8, <1>11
    <2> QED  BY <1>9, <1>11, <2>1 DEF TagSo, StoreEnds, m
  <1> QED  BY <1>10, <1>11

-----------------------------------------------------------------------------
\* A call takes up what the last one left.
LEMMA NowReady ==
  ASSUME Rested(pool, kept, tables)
  PROVE  /\ Ready(Now) /\ Now.answer = "ok" /\ Now.marked = {}
         /\ \A x \in TableNames : In(Now, x) = Texts(tables[x])
  <1>1. /\ DOMAIN Now = Parts /\ Now.pool = pool /\ Now.kept = kept /\ Now.tables = tables
        /\ Now.marked = {} /\ Now.answer = "ok"
    BY DEF Now, Parts
  <1>2. Steady(Now)
    BY <1>1 DEF Rested, Steady
  <1>3. Guarded(Now) = kept \union Signs(Entries(tables["attributes"]), {})
    BY <1>1 DEF Guarded
  <1>4. Ready(Now)
    BY <1>1, <1>2, <1>3 DEF Ready, Signed, Rested
  <1>5. \A x \in TableNames : In(Now, x) = Texts(tables[x])
    BY <1>1 DEF In, Texts
  <1> QED  BY <1>1, <1>4, <1>5

\* Nothing is marked, so the parser rests.
LEMMA ReadyRests ==
  ASSUME NEW z, Ready(z), z.marked = {}
  PROVE  Rested(z.pool, z.kept, z.tables)
  BY DEF Ready, Signed, Steady, Guarded, Rested

\* What is new in a tag is what the names that were not known bring.
LEMMA NewsNamed ==
  ASSUME NEW st, NEW n, NEW A
  PROVE  /\ News(st, n, A) = Names!Prefixes({n} \ In(st, "types"), A \ In(st, "attributes"))
         /\ Opens(st, A) = Names!Declared(A \ In(st, "attributes"))
  <1> DEFINE I == In(st, "attributes")
             F(a) == AttBrings(a)
             G(a) == Declares(a)
             H(a) == TypeBrings(a)
  <1>1. TypeNews(st, n) = UNION {H(b) : b \in {n} \ In(st, "types")}
    <2> HIDE DEF H
    <2>1. CASE n \in In(st, "types")
      BY <2>1 DEF TypeNews
    <2>2. CASE n \notin In(st, "types")
      <3>1. {n} \ In(st, "types") = {n}
        BY <2>2
      <3>2. UNION {H(b) : b \in {n}} = H(n)
        OBVIOUS
      <3> QED  BY <2>2, <3>1, <3>2 DEF TypeNews, H
    <2> QED  BY <2>1, <2>2
  <1>2. \A a : AttNews(st, a) = (IF a \in I THEN {} ELSE F(a)) /\ AttOpens(st, a) = IF a \in I THEN {} ELSE G(a)
    BY DEF AttNews, AttOpens
  <1>3. /\ (UNION {IF a \in I THEN {} ELSE F(a) : a \in A}) = (UNION {F(a) : a \in A \ I})
        /\ (UNION {IF a \in I THEN {} ELSE G(a) : a \in A}) = (UNION {G(a) : a \in A \ I})
    <2> HIDE DEF I, F, G
    <2> QED  OBVIOUS
  <1>4. Opens(st, A) = UNION {G(a) : a \in A \ I}
    BY <1>2, <1>3 DEF Opens
  <1>5. News(st, n, A) = (UNION {H(b) : b \in {n} \ In(st, "types")}) \union (UNION {F(a) : a \in A \ I})
    BY <1>1, <1>2, <1>3 DEF News
  <1> QED  BY <1>4, <1>5 DEF Names!Prefixes, Names!Declared

-----------------------------------------------------------------------------
\* The next state is z.
Becomes(z) == pool' = z.pool /\ tables' = z.tables /\ answer' = z.answer

\* The names known in it.
LEMMA BecomesTexts ==
  ASSUME NEW z, Becomes(z), NEW x \in TableNames
  PROVE  Texts(tables[x])' = In(z, x)
  BY DEF Becomes, Texts, In

\* A call that knows its names is one of NameSet.
LEMMA KnownStep ==
  ASSUME Rested(pool, kept, tables), NEW z, Becomes(z), z.answer \notin Failing,
         NEW n, NEW A, Tagged(Now, z, n, A)
  PROVE  Names!Known({n}, A, z.answer)
  <1> DEFINE T0 == Texts(tables["types"])
             A0 == Texts(tables["attributes"])
             P0 == Texts(tables["prefixes"])
             P  == Names!Prefixes({n} \ T0, A \ A0)
             D  == Names!Declared(A \ A0)
             P1 == In(z, "prefixes")
  <1>1. "types" \in TableNames /\ "attributes" \in TableNames /\ "prefixes" \in TableNames
    BY DEF TableNames
  <1>2. In(Now, "types") = T0 /\ In(Now, "attributes") = A0 /\ In(Now, "prefixes") = P0
    BY <1>1, NowReady
  <1>3. News(Now, n, A) = P /\ Opens(Now, A) = D
    BY <1>2, NewsNamed
  <1>4. /\ In(z, "types") = T0 \union {n} /\ In(z, "attributes") = A0 \union A
        /\ P0 \union P \subseteq P1 /\ P1 \subseteq P0 \union P \union D
    <2> HIDE DEF P, D, T0, A0, P0, P1
    <2> QED  BY <1>2, <1>3 DEF Tagged, Exact, P1
  <1>5. P1 = P0 \union P \union (P1 \intersect D) /\ P1 \intersect D \in SUBSET D
    <2> HIDE DEF P, D, T0, A0, P0, P1
    <2> QED  BY <1>4
  <1>6. /\ Texts(tables["types"])' = In(z, "types") /\ Texts(tables["attributes"])' = In(z, "attributes")
        /\ Texts(tables["prefixes"])' = P1
    BY <1>1, BecomesTexts
  <1>7. (IF answer \in {"nomemory", "dies"} THEN "fails" ELSE answer)' = z.answer
    BY DEF Becomes, Failing
  <1>8. \E S \in SUBSET D : P1 = P0 \union P \union S
    BY <1>5
  <1> HIDE DEF P1
  <1>9. /\ Texts(tables["types"])' = T0 \union {n} /\ Texts(tables["attributes"])' = A0 \union A
        /\ \E S \in SUBSET D : Texts(tables["prefixes"])' = P0 \union P \union S
    BY <1>4, <1>6, <1>8
  <1> QED  BY <1>7, <1>9 DEF Names!Known

\* A call that fails loses no name and makes none up.
LEMMA FailsStep ==
  ASSUME Rested(pool, kept, tables), NEW z, Becomes(z), z.answer \in Failing,
         NEW n, NEW A, Within(Now, z, {n}, A, News(Now, n, A) \union Opens(Now, A))
  PROVE  Names!Fails({n}, A)
  <1> DEFINE T0 == Texts(tables["types"])
             A0 == Texts(tables["attributes"])
             P0 == Texts(tables["prefixes"])
             Q  == Names!Prefixes({n}, A) \union Names!Declared(A)
             T1 == In(z, "types")
             A1 == In(z, "attributes")
             P1 == In(z, "prefixes")
  <1>1. "types" \in TableNames /\ "attributes" \in TableNames /\ "prefixes" \in TableNames
    BY DEF TableNames
  <1>2. In(Now, "types") = T0 /\ In(Now, "attributes") = A0 /\ In(Now, "prefixes") = P0
    BY <1>1, NowReady
  <1>3. News(Now, n, A) \union Opens(Now, A) \subseteq Q
    <2>1. /\ News(Now, n, A) = Names!Prefixes({n} \ T0, A \ A0)
          /\ Opens(Now, A) = Names!Declared(A \ A0)
      BY <1>2, NewsNamed
    <2>2. /\ Names!Prefixes({n} \ T0, A \ A0) \subseteq Names!Prefixes({n}, A)
          /\ Names!Declared(A \ A0) \subseteq Names!Declared(A)
      <3> DEFINE F(a) == AttBrings(a)
                 G(a) == Declares(a)
                 H(a) == TypeBrings(a)
      <3>1. /\ (UNION {H(b) : b \in {n} \ T0}) \subseteq (UNION {H(b) : b \in {n}})
            /\ (UNION {F(b) : b \in A \ A0}) \subseteq (UNION {F(b) : b \in A})
            /\ (UNION {G(b) : b \in A \ A0}) \subseteq (UNION {G(b) : b \in A})
        <4> HIDE DEF F, G, H, T0, A0
        <4> QED  OBVIOUS
      <3> HIDE DEF T0, A0
      <3> QED  BY <3>1 DEF Names!Prefixes, Names!Declared
    <2> QED  BY <2>1, <2>2
  <1>4. /\ T0 \subseteq T1 /\ T1 \subseteq T0 \union {n} /\ A0 \subseteq A1 /\ A1 \subseteq A0 \union A
        /\ P0 \subseteq P1 /\ P1 \subseteq P0 \union Q
    <2> HIDE DEF Q, T0, A0, P0
    <2> QED  BY <1>2, <1>3 DEF Within
  <1>5. /\ T1 \in {T0 \union S : S \in SUBSET {n}} /\ A1 \in {A0 \union S : S \in SUBSET A}
        /\ P1 \in {P0 \union S : S \in SUBSET Q}
    <2> HIDE DEF Q, T0, A0, P0, T1, A1, P1
    <2>1. /\ T1 \ T0 \in SUBSET {n} /\ T1 = T0 \union (T1 \ T0)
          /\ A1 \ A0 \in SUBSET A /\ A1 = A0 \union (A1 \ A0)
          /\ P1 \ P0 \in SUBSET Q /\ P1 = P0 \union (P1 \ P0)
      BY <1>4
    <2> QED  BY <2>1
  <1>6. /\ Texts(tables["types"])' = T1 /\ Texts(tables["attributes"])' = A1
        /\ Texts(tables["prefixes"])' = P1
    BY <1>1, BecomesTexts
  <1>7. (IF answer \in {"nomemory", "dies"} THEN "fails" ELSE answer)' = "fails"
    BY DEF Becomes, Failing
  <1> HIDE DEF T1, A1, P1
  <1> QED  BY <1>5, <1>6, <1>7 DEF Names!Fails

-----------------------------------------------------------------------------
\* The strengthening of NamesInv: after a call that ended well, nothing is
\* being built, no name is marked, and every attribute has its unmarked sign.
NamesKept == NamesInv /\ (answer \in {"none", "ok"} => Rested(pool, kept, tables))

\* Without entries nothing has to be signed.
LEMMA NoEntriesRest ==
  ASSUME NEW p, NEW K, NEW T, Well(p, K, T, {}, Empty), p.ptr = p.start,
         \A x \in TableNames : Entries(T[x]) = {}
  PROVE  Rested(p, K, T)
  <1>1. Entries(T["attributes"]) = {} /\ Good(p, K)
    BY DEF TableNames, Well
  <1>2. K \union Signs({}, {}) = K
    BY DEF Signs
  <1> QED  BY <1>1, <1>2 DEF Rested

\* The parser is created.
LEMMA KeptBegin ==
  ASSUME NamesInit
  PROVE  NamesKept /\ Names!Init
  <1>1. DOMAIN tables = TableNames /\ \A x \in TableNames : tables[x] = NoTable
    BY DEF NamesInit, TableNames
  <1>2. Entries(NoTable) = {}
    BY NoEntries DEF NoTable
  <1>3. \A x \in TableNames : Entries(tables[x]) = {} /\ Texts(tables[x]) = {}
    BY <1>1, <1>2 DEF Texts
  <1>4. pool.ptr = pool.start
    BY DEF NamesInit, Init, EmptyPool
  <1>5. NamesInv
    BY NamesBegin
  <1>6. Rested(pool, kept, tables)
    BY <1>3, <1>4, <1>5, NoEntriesRest DEF NamesInv
  <1>7. "types" \in TableNames /\ "attributes" \in TableNames /\ "prefixes" \in TableNames
    BY DEF TableNames
  <1> QED  BY <1>3, <1>5, <1>6, <1>7 DEF NamesKept, Names!Init, NamesInit

\* dtdReset
LEMMA KeptReset ==
  ASSUME HashesAreNumbers, NamesKept, Reset
  PROVE  NamesKept' /\ Names!Reset
  <1>1. /\ pool' = Cleared(pool) /\ kept' = {} /\ answer' = "none" /\ asked' = <<>>
        /\ tables' = [x \in DOMAIN tables |-> TableCleared(tables[x])]
    BY DEF Reset, Clear
  <1>2. Well(pool', kept', tables', {}, Empty)
    BY NamesStep DEF NamesKept, NamesNext
  <1>3. DOMAIN tables' = TableNames /\ \A x \in TableNames : tables'[x] = TableCleared(tables[x])
    BY <1>1 DEF NamesKept, NamesInv, Well
  <1>4. \A x \in TableNames : Entries(tables'[x]) = {}
    BY <1>1, <1>3, SoundCleared DEF NamesKept, NamesInv, Well
  <1>5. pool'.ptr = pool'.start
    BY <1>1 DEF Cleared, NamesKept, NamesInv, Well, Good, Typed, Pools
  <1>6. Rested(pool', kept', tables')
    BY <1>2, <1>4, <1>5, NoEntriesRest
  <1>7. \A x \in TableNames : Texts(tables[x])' = {}
    BY <1>4 DEF Texts
  <1>8. "types" \in TableNames /\ "attributes" \in TableNames /\ "prefixes" \in TableNames
    BY DEF TableNames
  <1>9. NamesKept'
    BY <1>2, <1>6 DEF NamesKept, NamesInv
  <1> QED  BY <1>1, <1>7, <1>8, <1>9 DEF Names!Reset

\* A call takes up a parser at rest.
LEMMA CallBecomes ==
  ASSUME NamesKept, NEW names, NEW S, Call(names, S)
  PROVE  /\ Rested(pool, kept, tables) /\ asked' = names
         /\ \E z \in S : Becomes(z) /\ kept' = z.kept
  BY DEF Call, NamesKept, Becomes

\* getElementType
LEMMA KeptType ==
  ASSUME HashesAreNumbers, NamesKept, NEW n \in TypeName, ElementType(n)
  PROVE  NamesKept' /\ Names!ElementType(n)
  <1>1. Call(<<n>>, getElementType(Now, n))
    BY DEF ElementType
  <1>2. /\ Rested(pool, kept, tables) /\ asked' = <<n>>
        /\ \E z \in getElementType(Now, n) : Becomes(z) /\ kept' = z.kept
    BY <1>1, CallBecomes
  <1>3. PICK z \in getElementType(Now, n) : Becomes(z) /\ kept' = z.kept
    BY <1>2
  <1>4. Told(Now, z, {n}, {}, TypeNews(Now, n), {})
    BY <1>2, <1>3, NowReady, NamesPlain, TypeTold
  <1>5. NamesInv'
    BY NamesStep DEF NamesKept, NamesNext, NamesInv
  <1>6. News(Now, n, {}) = TypeNews(Now, n) /\ Opens(Now, {}) = {}
    BY DEF News, Opens
  <1>7. CASE z.answer = "ok"
    <2>1. Tagged(Now, z, n, {}) /\ Ready(z) /\ z.marked = {}
      BY <1>2, <1>4, <1>6, <1>7, NowReady DEF Told, Failing, Tagged
    <2>2. Rested(pool', kept', tables')
      BY <1>3, <2>1, ReadyRests DEF Becomes
    <2>3. Names!Known({n}, {}, "ok")
      BY <1>2, <1>3, <1>7, <2>1, KnownStep DEF Failing
    <2> QED  BY <1>2, <1>5, <2>2, <2>3 DEF NamesKept, Names!ElementType
  <1>8. CASE z.answer \in Failing
    <2>1. Within(Now, z, {n}, {}, News(Now, n, {}) \union Opens(Now, {}))
      BY <1>4, <1>6, <1>8 DEF Told, Failing
    <2>2. Names!Fails({n}, {})
      BY <1>2, <1>3, <1>8, <2>1, FailsStep
    <2>3. answer' \notin {"none", "ok"}
      BY <1>3, <1>8 DEF Becomes, Failing
    <2> QED  BY <1>2, <1>5, <2>2, <2>3 DEF NamesKept, Names!ElementType
  <1> QED  BY <1>4, <1>7, <1>8 DEF Told

-----------------------------------------------------------------------------
\* The lists of attributes of the model.
LEMMA ListedNames ==
  ASSUME NEW atts \in AttLists
  PROVE  Len(atts) \in Nat /\ \A i \in 1 .. Len(atts) : atts[i] \in Names0
  <1>1. CASE atts = <<>>
    <2>1. Len(atts) = 0 /\ \A i \in 1 .. 0 : FALSE
      BY <1>1
    <2> QED  BY <2>1
  <1>2. CASE atts \in {<<a>> : a \in AttName}
    <2>1. PICK a \in AttName : atts = <<a>>
      BY <1>2
    <2>2. Len(atts) = 1 /\ atts[1] = a /\ a \in Names0 /\ \A i \in 1 .. 1 : i = 1
      BY <2>1, NamesPlain
    <2> QED  BY <2>2
  <1>3. CASE atts \in AttName \X AttName
    <2>1. PICK a \in AttName, b \in AttName : atts = <<a, b>>
      BY <1>3
    <2>2. /\ Len(atts) = 2 /\ atts[1] = a /\ atts[2] = b /\ a \in Names0 /\ b \in Names0
          /\ \A i \in 1 .. 2 : i = 1 \/ i = 2
      BY <2>1, NamesPlain
    <2> QED  BY <2>2
  <1> QED  BY <1>1, <1>2, <1>3 DEF AttLists

\* The attribute at k, the first that is not fresh, is the first repeat.
LEMMA FirstRepeat ==
  ASSUME NEW atts, Len(atts) \in Nat
  PROVE  /\ Single(atts, Len(atts)) => Names!Repeats(atts) = {}
         /\ \A k \in 1 .. Len(atts) : Single(atts, k - 1) /\ ~FirstTime(atts, k) =>
              /\ Names!Repeats(atts) # {}
              /\ k = CHOOSE i \in Names!Repeats(atts) : \A j \in Names!Repeats(atts) : i <= j
  <1> DEFINE m == Len(atts)
             R == Names!Repeats(atts)
  <1>1. R = {i \in 1 .. m : ~FirstTime(atts, i)}
    BY DEF Names!Repeats, FirstTime, UpTo
  <1> HIDE DEF R
  <1>2. ASSUME Single(atts, m) PROVE R = {}
    BY <1>1, <1>2 DEF Single
  <1>3. ASSUME NEW k \in 1 .. m, Single(atts, k - 1), ~FirstTime(atts, k)
        PROVE  R # {} /\ k = CHOOSE i \in R : \A j \in R : i <= j
    <2>1. k \in R /\ R \subseteq 1 .. m
      BY <1>1, <1>3
    <2>2. ASSUME NEW j \in R PROVE k <= j
      <3>1. j \in 1 .. m /\ ~FirstTime(atts, j)
        BY <1>1
      <3>2. j \notin 1 .. k - 1
        BY <1>3, <3>1 DEF Single
      <3> QED  BY <3>1, <3>2
    <2>3. \A i \in R : (\A j \in R : i <= j) => i = k
      BY <2>1, <2>2
    <2> QED  BY <2>1, <2>2, <2>3
  <1> QED  BY <1>2, <1>3 DEF R

\* storeAtts
LEMMA KeptTag ==
  ASSUME HashesAreNumbers, NamesKept, NEW n \in TypeName, NEW atts \in AttLists, StartTag(n, atts)
  PROVE  NamesKept' /\ Names!StartTag(n, atts)
  <1> DEFINE m == Len(atts)
             A == UpTo(atts, m)
             R == Names!Repeats(atts)
  <1>1. Call(<<n, atts>>, storeAtts(Now, n, atts))
    BY DEF StartTag
  <1>2. /\ Rested(pool, kept, tables) /\ asked' = <<n, atts>>
        /\ \E z \in storeAtts(Now, n, atts) : Becomes(z) /\ kept' = z.kept
    BY <1>1, CallBecomes
  <1>3. PICK z \in storeAtts(Now, n, atts) : Becomes(z) /\ kept' = z.kept
    BY <1>2
  <1>4. m \in Nat /\ \A i \in 1 .. m : atts[i] \in Names0
    BY ListedNames
  <1>5. StoreEnds(Now, z, n, atts)
    <2>1. n \in Names0
      BY NamesPlain
    <2> QED  BY <1>2, <1>3, <1>4, <2>1, NowReady, StoreAttsTold
  <1>6. NamesInv'
    BY NamesStep DEF NamesKept, NamesNext, NamesInv
  <1>7. {atts[i] : i \in 1 .. m} = A
    BY DEF UpTo
  <1>8. CASE z.answer \in Failing /\ Within(Now, z, {n}, A, News(Now, n, A) \union Opens(Now, A))
    <2>1. Names!Fails({n}, A)
      BY <1>2, <1>3, <1>8, FailsStep
    <2>2. answer' \notin {"none", "ok"}
      BY <1>3, <1>8 DEF Becomes, Failing
    <2>3. Names!StartTag(n, atts)
      BY <1>2, <1>7, <2>1 DEF Names!StartTag
    <2> QED  BY <1>6, <2>2, <2>3 DEF NamesKept
  <1>9. CASE z.answer = "duplicate" /\ \E k \in 1 .. m : /\ Single(atts, k - 1) /\ ~FirstTime(atts, k)
                                                         /\ Tagged(Now, z, n, UpTo(atts, k))
    <2>1. PICK k \in 1 .. m : Single(atts, k - 1) /\ ~FirstTime(atts, k) /\ Tagged(Now, z, n, UpTo(atts, k))
      BY <1>9
    <2>2. R # {} /\ k = CHOOSE i \in R : \A j \in R : i <= j
      BY <1>4, <2>1, FirstRepeat
    <2>3. Names!Known({n}, UpTo(atts, k), z.answer) /\ z.answer = "duplicate"
      BY <1>2, <1>3, <1>9, <2>1, KnownStep DEF Failing
    <2>4. answer' \notin {"none", "ok"}
      BY <1>3, <1>9 DEF Becomes
    <2>5. Names!Known({n}, {atts[i] : i \in 1 .. k}, "duplicate")
      BY <2>3 DEF UpTo
    <2>6. Names!StartTag(n, atts)
      <3> HIDE DEF R
      <3>1. Names!Known({n}, {atts[i] : i \in 1 .. CHOOSE i \in R : \A j \in R : i <= j}, "duplicate")
        BY <2>2, <2>5
      <3> QED  BY <1>2, <2>2, <3>1 DEF Names!StartTag, R
    <2> QED  BY <1>6, <2>4, <2>6 DEF NamesKept
  <1>10. CASE /\ z.answer = "ok" /\ Rested(z.pool, z.kept, z.tables) /\ Single(atts, m)
              /\ Tagged(Now, z, n, A)
    <2>1. R = {}
      BY <1>4, <1>10, FirstRepeat
    <2>2. Rested(pool', kept', tables')
      BY <1>3, <1>10 DEF Becomes
    <2>3. Names!Known({n}, A, "ok")
      BY <1>2, <1>3, <1>10, KnownStep DEF Failing
    <2>4. Names!StartTag(n, atts)
      BY <1>2, <1>7, <2>1, <2>3 DEF Names!StartTag
    <2> QED  BY <1>6, <2>2, <2>4 DEF NamesKept
  <1> QED  BY <1>5, <1>8, <1>9, <1>10 DEF StoreEnds

(***************************************************************************)
(* The three tables keep exactly the names of the calls: every step of the *)
(* parser on its pool and its tables is a step of NameSet.                 *)
(***************************************************************************)
THEOREM NamesRefine == ASSUME HashesAreNumbers PROVE NamesSpec => KeepsTheNames
  <1>1. NamesInit => NamesKept /\ Names!Init
    BY KeptBegin
  <1>2. NamesKept /\ [NamesNext]_<<vars, tableVars>> => NamesKept' /\ [Names!Next]_Names!vars
    <2> SUFFICES ASSUME NamesKept, [NamesNext]_<<vars, tableVars>>
                 PROVE  NamesKept' /\ [Names!Next]_Names!vars
      OBVIOUS
    <2>1. ASSUME NEW n \in TypeName, ElementType(n) PROVE NamesKept' /\ Names!Next
      BY <2>1, KeptType DEF Names!Next
    <2>2. ASSUME NEW n \in TypeName, NEW atts \in AttLists, StartTag(n, atts)
          PROVE  NamesKept' /\ Names!Next
      <3>1. atts \in Names!Attributes
        BY DEF AttLists, Names!Attributes
      <3> QED  BY <2>2, <3>1, KeptTag DEF Names!Next
    <2>3. ASSUME Reset PROVE NamesKept' /\ Names!Next
      BY <2>3, KeptReset DEF Names!Next
    <2>4. ASSUME UNCHANGED <<vars, tableVars>> PROVE NamesKept' /\ UNCHANGED Names!vars
      <3>1. /\ pool' = pool /\ kept' = kept /\ tables' = tables /\ answer' = answer /\ asked' = asked
        BY <2>4 DEF vars, tableVars
      <3>2. \A x : Texts(tables[x])' = Texts(tables[x])
        BY <3>1 DEF Texts
      <3> QED  BY <3>1, <3>2 DEF NamesKept, NamesInv, Names!vars
    <2> QED  BY <2>1, <2>2, <2>3, <2>4 DEF NamesNext
  <1> QED  BY <1>1, <1>2, PTL DEF NamesSpec, KeepsTheNames, Names!Spec
=============================================================================
