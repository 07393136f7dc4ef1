--------------------------- MODULE SheetModelProof ---------------------------
(***************************************************************************)
(* The cells and their searches, for every set of positions, every sheet,  *)
(* every comparison of texts and every width of the keys.  CellMap: the    *)
(* types, the exactness of the counter, the coverage of the bounding       *)
(* rectangle, and that what was put in the sheet is found where it was put *)
(* even when rows and columns outgrow the key and wrap around in it.       *)
(* SheetModel: a fast search implements SearchSpec, step by step, and a    *)
(* search by rows or by columns goes its way to the end.                   *)
(***************************************************************************)
EXTENDS SheetModel, FiniteSetTheorems, SequenceTheorems, TLAPS

(***************************************************************************)
(* Packing a position gives a key.                                         *)
(***************************************************************************)
LEMMA KeyType ==
  ASSUME NEW p \in Position
  PROVE  PositionToKey(p) \in Keys
  BY PositionAssumption, KeyModAssumption DEF PositionToKey, Keys

(***************************************************************************)
(* Growing a rectangle by a position keeps its type, contains the position *)
(* and every position it contained before.                                 *)
(***************************************************************************)
LEMMA GrownCovers ==
  ASSUME NEW r \in [tl : Point, br : Point], NEW p \in Position
  PROVE  /\ Grown(r, p) \in [tl : Point, br : Point]
         /\ Inside(Grown(r, p), p)
         /\ \A q \in Position : Inside(r, q) => Inside(Grown(r, p), q)
  BY PositionAssumption DEF Grown, Point, Inside, Lower, Higher

(***************************************************************************)
(* The inductive invariant: the types together with the finiteness of the  *)
(* tree, without which the counter could not be compared with a            *)
(* cardinality.                                                            *)
(***************************************************************************)
IInv == TypeOK /\ IsFiniteSet(DOMAIN m_pTree) /\ CountExact /\ RangeCovers

(***************************************************************************)
(* The empty container satisfies the invariant (ConstructL).               *)
(***************************************************************************)
LEMMA InitIInv == Init => IInv
  BY FS_EmptySet, FarAssumption
  DEF Init, IInv, TypeOK, CountExact, RangeCovers, NoRange, Point

(***************************************************************************)
(* InsertL keeps it: a key taken is left alone, a fresh one counts.        *)
(***************************************************************************)
LEMMA InsertLIInv ==
  ASSUME NEW p \in Position, NEW c \in Cell, IInv, InsertL(p, c)
  PROVE  IInv'
  <1> DEFINE k == PositionToKey(p)
  <1>1. CASE IsExistL(p)
    BY <1>1 DEF InsertL, vars, IInv, TypeOK, CountExact, RangeCovers
  <1>2. CASE ~IsExistL(p)
    <2>1. k \in Keys /\ k \notin DOMAIN m_pTree
      BY <1>2, KeyType DEF IsExistL
    <2>2. /\ m_pTree' = Put(m_pTree, k, c)
          /\ owner' = Put(owner, k, p)
          /\ m_Range' = Grown(m_Range, p)
          /\ m_nCount' = m_nCount + 1
          /\ m_Pos' = Stale
      BY <1>2 DEF InsertL
    <2>3. DOMAIN m_pTree' = DOMAIN m_pTree \union {k}
      BY <2>2 DEF Put
    <2>4. TypeOK'
      <3>1. DOMAIN m_pTree' \subseteq Keys
        BY <2>1, <2>3 DEF IInv, TypeOK
      <3>2. \A l \in DOMAIN m_pTree' : m_pTree'[l] \in Cell
        BY <2>2 DEF Put, IInv, TypeOK
      <3>3. DOMAIN owner' = DOMAIN m_pTree'
        BY <2>2 DEF Put, IInv, TypeOK
      <3>4. \A l \in DOMAIN owner' : owner'[l] \in Position /\ PositionToKey(owner'[l]) = l
        BY <2>2 DEF Put, IInv, TypeOK
      <3>5. m_Range' \in [tl : Point, br : Point]
        BY <2>2, GrownCovers DEF IInv, TypeOK
      <3> QED BY <2>2, <3>1, <3>2, <3>3, <3>4, <3>5 DEF IInv, TypeOK
    <2>5. IsFiniteSet(DOMAIN m_pTree') /\ CountExact'
      BY <2>1, <2>2, <2>3, FS_AddElement DEF IInv, TypeOK, CountExact
    <2>6. RangeCovers'
      BY <2>2, GrownCovers DEF Put, IInv, TypeOK, RangeCovers
    <2> QED BY <2>4, <2>5, <2>6 DEF IInv
  <1> QED BY <1>1, <1>2

(***************************************************************************)
(* DeleteL keeps it: only a key present is taken out and counted.          *)
(***************************************************************************)
LEMMA DeleteLIInv ==
  ASSUME NEW p \in Position, IInv, DeleteL(p)
  PROVE  IInv'
  <1> DEFINE k == PositionToKey(p)
  <1>1. CASE ~IsExistL(p)
    BY <1>1 DEF DeleteL, vars, IInv, TypeOK, CountExact, RangeCovers
  <1>2. CASE IsExistL(p)
    <2>1. k \in DOMAIN m_pTree
      BY <1>2 DEF IsExistL
    <2>2. /\ m_pTree' = Drop(m_pTree, k)
          /\ owner' = Drop(owner, k)
          /\ m_nCount' = m_nCount - 1
          /\ m_Pos' = Stale
          /\ m_Range' = m_Range
      BY <1>2 DEF DeleteL
    <2>3. DOMAIN m_pTree' = DOMAIN m_pTree \ {k}
      BY <2>2 DEF Drop
    <2>4. Cardinality(DOMAIN m_pTree) \in Nat \ {0}
      BY <2>1, FS_CardinalityType, FS_EmptySet DEF IInv
    <2>5. IsFiniteSet(DOMAIN m_pTree') /\ CountExact' /\ m_nCount' \in Nat
      <3>1. IsFiniteSet(DOMAIN m_pTree)
        BY DEF IInv
      <3>2. /\ IsFiniteSet(DOMAIN m_pTree \ {k})
            /\ Cardinality(DOMAIN m_pTree \ {k}) = Cardinality(DOMAIN m_pTree) - 1
        BY <2>1, <3>1, FS_RemoveElement
      <3>3. m_nCount = Cardinality(DOMAIN m_pTree)
        BY DEF IInv, CountExact
      <3> HIDE DEF k
      <3> QED BY <2>2, <2>3, <2>4, <3>2, <3>3 DEF CountExact
    <2>6. TypeOK'
      BY <2>2, <2>3, <2>5 DEF Drop, IInv, TypeOK
    <2>7. RangeCovers'
      BY <2>2 DEF Drop, IInv, RangeCovers, Inside
    <2> QED BY <2>5, <2>6, <2>7 DEF IInv
  <1> QED BY <1>1, <1>2

(***************************************************************************)
(* No step of the container disturbs the invariant.                        *)
(***************************************************************************)
LEMMA NextIInv == IInv /\ [Next]_vars => IInv'
  <1> SUFFICES ASSUME IInv, [Next]_vars PROVE IInv'
    OBVIOUS
  <1>1. ASSUME NEW p \in Position, NEW c \in Cell, InsertL(p, c) PROVE IInv'
    BY <1>1, InsertLIInv
  <1>2. ASSUME NEW p \in Position, NEW c \in Cell, Modify(p, c) PROVE IInv'
    BY <1>2 DEF Modify, IsExistL, IInv, TypeOK, CountExact, RangeCovers, Inside
  <1>3. ASSUME NEW p \in Position, DeleteL(p) PROVE IInv'
    BY <1>3, DeleteLIInv
  <1>4. CASE RemoveAllL
    BY <1>4, FS_EmptySet, FarAssumption
    DEF RemoveAllL, NoRange, Point, IInv, TypeOK, CountExact, RangeCovers
  <1>5. CASE GetFirstL
    BY <1>5 DEF GetFirstL, FirstOf, IInv, TypeOK, CountExact, RangeCovers, Inside
  <1>6. CASE GetNextL
    BY <1>6 DEF GetNextL, NextKeys, After, FirstOf, IInv, TypeOK, CountExact, RangeCovers, Inside
  <1>7. CASE UNCHANGED vars
    BY <1>7 DEF vars, IInv, TypeOK, CountExact, RangeCovers, Inside
  <1> QED BY <1>1, <1>2, <1>3, <1>4, <1>5, <1>6, <1>7 DEF Next

(***************************************************************************)
(* The invariant holds in every reachable state of the container.          *)
(***************************************************************************)
THEOREM Inductive == Spec => []IInv
  BY InitIInv, NextIInv, PTL DEF Spec

(***************************************************************************)
(* The state has its types: in particular m_nCount never goes below zero,  *)
(* which is what the ASSERT in DeleteL demands.                            *)
(***************************************************************************)
THEOREM TypeCorrect == Spec => []TypeOK
  <1>1. IInv => TypeOK
    BY DEF IInv
  <1> QED BY <1>1, Inductive, PTL

(***************************************************************************)
(* Count() is the number of cells the tree holds.                          *)
(***************************************************************************)
THEOREM CounterCorrect == Spec => []CountExact
  <1>1. IInv => CountExact
    BY DEF IInv
  <1> QED BY <1>1, Inductive, PTL

(***************************************************************************)
(* Range() contains every cell: a search confined to it skips none.        *)
(***************************************************************************)
THEOREM RangeCorrect == Spec => []RangeCovers
  <1>1. IInv => RangeCovers
    BY DEF IInv
  <1> QED BY <1>1, Inductive, PTL

(***************************************************************************)
(* The tree, its counter and its rectangle agree through every sequence of *)
(* insertions, deletions, clears and reads.                                *)
(***************************************************************************)
THEOREM ContainerCorrect == Spec => []Consistent
  <1>1. IInv => Consistent
    BY DEF IInv, Consistent
  <1> QED BY <1>1, Inductive, PTL

(***************************************************************************)
(* What division by m leaves.                                              *)
(***************************************************************************)
LEMMA Division ==
  ASSUME NEW a \in Int, NEW m \in Nat \ {0}
  PROVE  /\ a % m \in 0 .. m - 1 /\ a \div m \in Int
         /\ a = m * (a \div m) + (a % m)
  OBVIOUS

(***************************************************************************)
(* A number has one remainder.                                             *)
(***************************************************************************)
LEMMA OneQuotient ==
  ASSUME NEW m \in Nat \ {0}, NEW x \in Int, NEW y \in Int,
         NEW r \in 0 .. m - 1, NEW s \in 0 .. m - 1, m * x + r = m * y + s
  PROVE  r = s
  <1>1. CASE x = y
    BY <1>1
  <1>2. CASE x > y
    <2>1. m * (x - y) >= m * 1
      BY <1>2
    <2>2. m * (x - y) = s - r
      OBVIOUS
    <2> QED BY <2>1, <2>2
  <1>3. CASE x < y
    <2>1. m * (y - x) >= m * 1
      BY <1>3
    <2>2. m * (y - x) = r - s
      OBVIOUS
    <2> QED BY <2>1, <2>2
  <1> QED BY <1>1, <1>2, <1>3

(***************************************************************************)
(* Equal remainders and a difference without one, in numbers that stand    *)
(* for the quotients and remainders.                                       *)
(***************************************************************************)
LEMMA SameRest ==
  ASSUME NEW a \in Int, NEW b \in Int, NEW m \in Nat \ {0},
         NEW qa \in Int, NEW qb \in Int, NEW qd \in Int,
         NEW ra \in 0 .. m - 1, NEW rb \in 0 .. m - 1, NEW rd \in 0 .. m - 1,
         a = m * qa + ra, b = m * qb + rb, a - b = m * qd + rd
  PROVE  ra = rb <=> rd = 0
  <1>2. ASSUME ra = rb PROVE rd = 0
    <2>1. m * (qa - qb) + 0 = m * qd + rd /\ qa - qb \in Int /\ 0 \in 0 .. m - 1
      BY <1>2
    <2> QED BY <2>1, OneQuotient
  <1>3. ASSUME rd = 0 PROVE ra = rb
    <2>1. m * qa + ra = m * (qd + qb) + rb /\ qd + qb \in Int
      BY <1>3
    <2> QED BY <2>1, OneQuotient
  <1> QED BY <1>2, <1>3

(***************************************************************************)
(* Two numbers leave the same remainder when and only when their           *)
(* difference is a multiple of the divisor.                                *)
(***************************************************************************)
LEMMA SameRemainder ==
  ASSUME NEW a \in Nat, NEW b \in Nat, NEW m \in Nat \ {0}
  PROVE  a % m = b % m <=> (a - b) % m = 0
  <1>1. a % m \in 0 .. m - 1 /\ a \div m \in Int /\ a = m * (a \div m) + (a % m)
    BY Division
  <1>2. b % m \in 0 .. m - 1 /\ b \div m \in Int /\ b = m * (b \div m) + (b % m)
    BY Division
  <1>3. /\ (a - b) % m \in 0 .. m - 1 /\ (a - b) \div m \in Int
        /\ a - b = m * ((a - b) \div m) + ((a - b) % m)
    BY Division, a - b \in Int
  <1>4. a \in Int /\ b \in Int
    OBVIOUS
  <1> DEFINE qa == a \div m
             qb == b \div m
             qd == (a - b) \div m
             ra == a % m
             rb == b % m
             rd == (a - b) % m
  <1> HIDE DEF qa, qb, qd, ra, rb, rd
  <1>5. /\ qa \in Int /\ qb \in Int /\ qd \in Int
        /\ ra \in 0 .. m - 1 /\ rb \in 0 .. m - 1 /\ rd \in 0 .. m - 1
        /\ a = m * qa + ra /\ b = m * qb + rb /\ a - b = m * qd + rd
    BY <1>1, <1>2, <1>3, Zenon DEF qa, qb, qd, ra, rb, rd
  <1>6. ra = rb <=> rd = 0
    BY <1>4, <1>5, SameRest
  <1> QED BY <1>6, Zenon DEF ra, rb, rd

(***************************************************************************)
(* The positions that share a key are those whose row and column are       *)
(* multiples of KeyMod apart, and no others.                               *)
(***************************************************************************)
LEMMA KeysShared ==
  ASSUME NEW p \in Position, NEW q \in Position
  PROVE  PositionToKey(p) = PositionToKey(q) <=> Congruent(p, q)
  <1>1. p.x \in Nat /\ p.y \in Nat /\ q.x \in Nat /\ q.y \in Nat
    BY PositionAssumption
  <1>2. p.x % KeyMod = q.x % KeyMod <=> (p.x - q.x) % KeyMod = 0
    BY <1>1, KeyModAssumption, SameRemainder
  <1>3. p.y % KeyMod = q.y % KeyMod <=> (p.y - q.y) % KeyMod = 0
    BY <1>1, KeyModAssumption, SameRemainder
  <1>4. PositionToKey(p) = PositionToKey(q)
          <=> p.x % KeyMod = q.x % KeyMod /\ p.y % KeyMod = q.y % KeyMod
    BY DEF PositionToKey
  <1> QED BY <1>2, <1>3, <1>4 DEF Congruent, Apart

(***************************************************************************)
(* What ties the tree to the sheet the callers see: every entry belongs to *)
(* a position of that sheet, and a position nobody disturbed has its own.  *)
(***************************************************************************)
InPlace(p) ==
  /\ PositionToKey(p) \in DOMAIN m_pTree
  /\ owner[PositionToKey(p)] = p
  /\ m_pTree[PositionToKey(p)] = stored[p]

Kept ==
  /\ DOMAIN stored \subseteq Position
  /\ \A k \in DOMAIN owner : owner[k] \in DOMAIN stored
  /\ \A p \in DOMAIN stored \ disturbed : InPlace(p)

(***************************************************************************)
(* InsertL: the first to come has the key, those that come later do not    *)
(* disturb it.                                                             *)
(***************************************************************************)
LEMMA InsertLKept ==
  ASSUME NEW p \in Position, NEW c \in Cell, IInv, Kept, InsertL(p, c)
  PROVE  Kept'
  <1> DEFINE k == PositionToKey(p)
  <1>0. /\ \A l \in DOMAIN owner : owner[l] \in Position /\ PositionToKey(owner[l]) = l
        /\ DOMAIN owner = DOMAIN m_pTree
    BY DEF IInv, TypeOK
  <1>1. /\ DOMAIN stored' = DOMAIN stored \union {p}
        /\ \A q \in DOMAIN stored : stored'[q] = stored[q]
        /\ p \notin DOMAIN stored => stored'[p] = c
        /\ disturbed \subseteq disturbed'
        /\ p \notin DOMAIN stored /\ p \notin disturbed' => Rivals(p) = {}
    BY DEF InsertL, PutThere, asPut, Put
  <1>2. CASE k \in DOMAIN m_pTree
    <2>1. m_pTree' = m_pTree /\ owner' = owner
      BY <1>2 DEF InsertL, IsExistL
    <2>2. ASSUME NEW q \in DOMAIN stored' \ disturbed' PROVE InPlace(q)'
      <3>1. CASE q \in DOMAIN stored
        BY <1>1, <2>1, <2>2, <3>1 DEF Kept, InPlace
      <3>2. CASE q \notin DOMAIN stored
        <4>1. q = p /\ Rivals(p) = {} /\ p \notin DOMAIN stored
          BY <1>1, <2>2, <3>2
        <4>2. owner[k] \in DOMAIN stored /\ owner[k] \in Position /\ PositionToKey(owner[k]) = k
          BY <1>0, <1>2 DEF Kept
        <4>3. Congruent(p, owner[k]) /\ owner[k] # p
          BY <4>1, <4>2, KeysShared
        <4> QED BY <4>1, <4>2, <4>3 DEF Rivals
      <3> QED BY <3>1, <3>2
    <2> QED BY <1>1, <2>1, <2>2 DEF Kept
  <1>3. CASE k \notin DOMAIN m_pTree
    <2>1. m_pTree' = Put(m_pTree, k, c) /\ owner' = Put(owner, k, p)
      BY <1>3 DEF InsertL, IsExistL
    <2>2. \A l \in DOMAIN owner' : owner'[l] \in DOMAIN stored'
      BY <1>0, <1>1, <2>1 DEF Kept, Put
    <2>3. ASSUME NEW q \in DOMAIN stored' \ disturbed' PROVE InPlace(q)'
      <3>1. CASE q \in DOMAIN stored
        <4>1. InPlace(q) /\ stored'[q] = stored[q]
          BY <1>1, <2>3, <3>1 DEF Kept
        <4>2. PositionToKey(q) # k
          BY <1>3, <4>1 DEF InPlace
        <4> HIDE DEF k
        <4> QED BY <1>0, <2>1, <4>1, <4>2 DEF InPlace, Put
      <3>2. CASE q \notin DOMAIN stored
        <4>1. q = p /\ stored'[q] = c
          BY <1>1, <2>3, <3>2
        <4> QED BY <2>1, <4>1 DEF InPlace, Put
      <3> QED BY <3>1, <3>2
    <2> QED BY <1>1, <2>2, <2>3 DEF Kept
  <1> QED BY <1>2, <1>3

(***************************************************************************)
(* A caller who writes through the pointer of AtL disturbs the cell of     *)
(* another position, or writes his own.                                    *)
(***************************************************************************)
LEMMA ModifyKept ==
  ASSUME NEW p \in Position, NEW c \in Cell, IInv, Kept, Modify(p, c)
  PROVE  Kept'
  <1> DEFINE k == PositionToKey(p)
  <1>1. /\ k \in DOMAIN m_pTree /\ owner' = owner
        /\ m_pTree' = [m_pTree EXCEPT ![k] = c]
    BY DEF Modify, IsExistL
  <1>2. /\ DOMAIN stored' = DOMAIN stored
        /\ p \in DOMAIN stored => stored'[p] = c
        /\ \A q \in DOMAIN stored : q # p => stored'[q] = stored[q]
        /\ disturbed' = disturbed \union Rivals(p)
    <2>1. CASE p \in DOMAIN stored
      <3>1. stored' = Put(stored, p, c) /\ DOMAIN stored \union {p} = DOMAIN stored
        BY <2>1 DEF Modify, WrittenThere
      <3> QED BY <2>1, <3>1 DEF Modify, WrittenThere, Put
    <2>2. CASE p \notin DOMAIN stored
      BY <2>2 DEF Modify, WrittenThere
    <2> QED BY <2>1, <2>2
  <1>3. ASSUME NEW q \in DOMAIN stored' \ disturbed' PROVE InPlace(q)'
    <2>1. q \in DOMAIN stored \ disturbed /\ q \notin Rivals(p) /\ q \in Position /\ InPlace(q)
      BY <1>2, <1>3 DEF Kept
    <2>2. CASE q = p
      BY <1>1, <1>2, <2>1, <2>2 DEF InPlace
    <2>3. CASE q # p
      <3>1. PositionToKey(q) # k
        BY <2>1, <2>3, KeysShared DEF Rivals
      <3> HIDE DEF k
      <3> QED BY <1>1, <1>2, <2>1, <2>3, <3>1 DEF InPlace
    <2> QED BY <2>2, <2>3
  <1> QED BY <1>1, <1>2, <1>3 DEF Kept

(***************************************************************************)
(* DeleteL takes out the cell of its key, whoever put it there.            *)
(***************************************************************************)
LEMMA DeleteLKept ==
  ASSUME NEW p \in Position, IInv, Kept, DeleteL(p)
  PROVE  Kept'
  <1> DEFINE k == PositionToKey(p)
  <1>0. /\ \A l \in DOMAIN owner : owner[l] \in Position /\ PositionToKey(owner[l]) = l
        /\ DOMAIN owner = DOMAIN m_pTree
    BY DEF IInv, TypeOK
  <1>1. /\ DOMAIN stored' = DOMAIN stored \ {p}
        /\ \A q \in DOMAIN stored : q # p => stored'[q] = stored[q]
        /\ disturbed' = (disturbed \union Rivals(p)) \ {p}
    BY DEF DeleteL, TakenOutThere, Drop
  <1>2. /\ DOMAIN owner' = DOMAIN owner \ {k} /\ DOMAIN m_pTree' = DOMAIN m_pTree \ {k}
        /\ \A l \in DOMAIN owner : l # k => owner'[l] = owner[l] /\ m_pTree'[l] = m_pTree[l]
    <2>1. CASE k \in DOMAIN m_pTree
      <3>1. m_pTree' = Drop(m_pTree, k) /\ owner' = Drop(owner, k)
        BY <2>1 DEF DeleteL, IsExistL
      <3> QED BY <1>0, <3>1 DEF Drop
    <2>2. CASE k \notin DOMAIN m_pTree
      BY <1>0, <2>2 DEF DeleteL, IsExistL
    <2> QED BY <2>1, <2>2
  <1>3. \A l \in DOMAIN owner' : owner'[l] \in DOMAIN stored'
    <2> SUFFICES ASSUME NEW l \in DOMAIN owner' PROVE owner'[l] \in DOMAIN stored'
      OBVIOUS
    <2>1. l \in DOMAIN owner /\ l # k /\ owner'[l] = owner[l] /\ owner[l] \in DOMAIN stored
      BY <1>2 DEF Kept
    <2>2. owner[l] # p
      BY <1>0, <2>1
    <2> QED BY <1>1, <2>1, <2>2
  <1>4. ASSUME NEW q \in DOMAIN stored' \ disturbed' PROVE InPlace(q)'
    <2>1. /\ q \in DOMAIN stored \ disturbed /\ q # p /\ q \notin Rivals(p)
          /\ q \in Position /\ InPlace(q)
      BY <1>1, <1>4 DEF Kept
    <2>2. PositionToKey(q) # k
      BY <2>1, KeysShared DEF Rivals
    <2> HIDE DEF k
    <2> QED BY <1>0, <1>1, <1>2, <2>1, <2>2 DEF InPlace
  <1> QED BY <1>1, <1>3, <1>4 DEF Kept

(***************************************************************************)
(* Every step keeps tree and sheet together.                               *)
(***************************************************************************)
LEMMA NextKept == IInv /\ Kept /\ [Next]_vars => Kept'
  <1> SUFFICES ASSUME IInv, Kept, [Next]_vars PROVE Kept'
    OBVIOUS
  <1>1. ASSUME NEW p \in Position, NEW c \in Cell, InsertL(p, c) PROVE Kept'
    BY <1>1, InsertLKept
  <1>2. ASSUME NEW p \in Position, NEW c \in Cell, Modify(p, c) PROVE Kept'
    BY <1>2, ModifyKept
  <1>3. ASSUME NEW p \in Position, DeleteL(p) PROVE Kept'
    BY <1>3, DeleteLKept
  <1>4. CASE RemoveAllL
    BY <1>4 DEF RemoveAllL, Kept
  <1>5. CASE GetFirstL
    BY <1>5 DEF GetFirstL, Kept, InPlace, asPut
  <1>6. CASE GetNextL
    BY <1>6 DEF GetNextL, Kept, InPlace, asPut
  <1>7. CASE UNCHANGED vars
    BY <1>7 DEF vars, Kept, InPlace, asPut
  <1> QED BY <1>1, <1>2, <1>3, <1>4, <1>5, <1>6, <1>7 DEF Next

(***************************************************************************)
(* For sheets of every size, coordinates beyond the key included: what was *)
(* put at a position is found there until a position a multiple of KeyMod  *)
(* away is used, and nothing is found but what was put there or that far   *)
(* away.                                                                   *)
(***************************************************************************)
THEOREM CellsCorrect == Spec => []CellsAsPut
  <1>1. Init => Kept
    BY DEF Init, Kept
  <1>2. Spec => []Kept
    BY <1>1, NextKept, Inductive, PTL DEF Spec
  <1>3. IInv /\ Kept => CellsAsPut
    <2> SUFFICES ASSUME IInv, Kept PROVE CellsAsPut
      OBVIOUS
    <2>1. ASSUME NEW p \in DOMAIN stored \ disturbed
          PROVE  IsExistL(p) /\ AtL(p) = stored[p]
      BY <2>1 DEF Kept, InPlace, IsExistL, AtL
    <2>2. ASSUME NEW p \in Position, IsExistL(p), p \notin DOMAIN stored
          PROVE  Rivals(p) # {}
      <3> DEFINE q == owner[PositionToKey(p)]
      <3>1. q \in DOMAIN stored /\ q \in Position /\ PositionToKey(q) = PositionToKey(p)
        BY <2>2 DEF IInv, TypeOK, Kept, IsExistL
      <3>2. Congruent(p, q)
        BY <3>1, KeysShared
      <3> QED BY <2>2, <3>1, <3>2 DEF Rivals
    <2> QED BY <2>1, <2>2 DEF CellsAsPut
  <1> QED BY <1>2, <1>3, Inductive, PTL

-----------------------------------------------------------------------------
(***************************************************************************)
(* What the search relies on of the cells is the invariant of CellMap; to  *)
(* it comes the type of the search's own state.                            *)
(***************************************************************************)
State == IInv /\ SheetTypeOK

\* What the request asks for, of the sheet as it is.
Asked == Wanted(m_pTree, m_sTextToFind, m_nFindFlags)

-----------------------------------------------------------------------------
(***************************************************************************)
(* Keys are points, and their coordinates are numbers.                     *)
(***************************************************************************)
LEMMA KeysArePoints ==
  ASSUME NEW k \in Keys
  PROVE  k \in Point /\ k.x \in Nat /\ k.y \in Nat /\ k # Stale
  BY KeyModAssumption, StaleAssumption DEF Keys, Point

(***************************************************************************)
(* A remainder is not greater than what was divided.                       *)
(***************************************************************************)
LEMMA RemainderNotGreater ==
  ASSUME NEW n \in Nat, NEW m \in Nat \ {0}
  PROVE  n % m \in Nat /\ n % m <= n
  <1>1. CASE n < m
    BY <1>1
  <1>2. CASE n >= m
    BY <1>2
  <1> QED BY <1>1, <1>2

(***************************************************************************)
(* The order of the keys is an order: a sweep along it meets nothing twice.*)
(***************************************************************************)
LEMMA KeyOrder ==
  ASSUME NEW p \in Keys, NEW q \in Keys
  PROVE  /\ ~ KeyLess(p, p)
         /\ \A r \in Keys : KeyLess(p, q) /\ KeyLess(q, r) => KeyLess(p, r)
  <1>1. \A r \in Keys : r.x \in Nat /\ r.y \in Nat
    BY KeysArePoints
  <1> QED BY <1>1 DEF KeyLess

(***************************************************************************)
(* Nothing comes behind the corner: a key is not greater than the position *)
(* it was made of, and that lies in m_Range.                               *)
(***************************************************************************)
LEMMA NothingBehindTheCorner ==
  ASSUME IInv, NEW k \in DOMAIN m_pTree
  PROVE  ~ KeyLess(m_Range.br, k)
  <1> DEFINE o == owner[k]
  <1>1. /\ o \in Position /\ PositionToKey(o) = k /\ Inside(m_Range, o)
        /\ m_Range \in [tl : Point, br : Point]
    BY DEF IInv, TypeOK, RangeCovers
  <1>2. o.x \in Nat /\ o.y \in Nat /\ m_Range.br.x \in Nat /\ m_Range.br.y \in Nat
    BY <1>1, PositionAssumption DEF Point
  <1>3. /\ k.x = o.x % KeyMod /\ k.y = o.y % KeyMod
        /\ o.x <= m_Range.br.x /\ o.y <= m_Range.br.y
    <2>1. o.x \in m_Range.tl.x .. m_Range.br.x /\ o.y \in m_Range.tl.y .. m_Range.br.y
      BY <1>1 DEF Inside
    <2>2. m_Range.tl.x \in Nat /\ m_Range.tl.y \in Nat
      BY <1>1 DEF Point
    <2> QED BY <1>1, <1>2, <2>1, <2>2 DEF PositionToKey
  <1>4. k.x \in Nat /\ k.y \in Nat /\ k.x <= o.x /\ k.y <= o.y
    BY <1>2, <1>3, RemainderNotGreater, KeyModAssumption
  <1> HIDE DEF o
  <1>5. k.x <= m_Range.br.x /\ k.y <= m_Range.br.y
    BY <1>2, <1>3, <1>4
  <1> QED BY <1>2, <1>4, <1>5 DEF KeyLess

(***************************************************************************)
(* One more answer is named.                                               *)
(***************************************************************************)
LEMMA NamedAppend ==
  ASSUME NEW S, NEW s \in Seq(S), NEW p \in S
  PROVE  Append(s, p) \in Seq(S) /\ Named(Append(s, p)) = Named(s) \union {p}
  <1> DEFINE t == Append(s, p)
  <1>1. /\ t \in Seq(S) /\ Len(t) = Len(s) + 1 /\ t[Len(s) + 1] = p /\ Len(s) \in Nat
        /\ \A i \in 1 .. Len(s) : t[i] = s[i]
        /\ DOMAIN s = 1 .. Len(s) /\ DOMAIN t = 1 .. Len(t)
    BY AppendProperties, LenProperties
  <1> HIDE DEF t
  <1>2. \A i \in DOMAIN t : t[i] \in Named(s) \union {p}
    BY <1>1 DEF Named
  <1>3. \A i \in DOMAIN s : s[i] \in Named(t)
    BY <1>1 DEF Named
  <1>4. p \in Named(t)
    BY <1>1 DEF Named
  <1> QED BY <1>1, <1>2, <1>3, <1>4 DEF Named, t

(***************************************************************************)
(* A sweep that has not begun has named nothing.                           *)
(***************************************************************************)
LEMMA NamedNothing == Named(<<>>) = {} /\ <<>> \in Seq(Point)
  <1>1. <<>> \in Seq(Point)
    BY EmptySeq
  <1> QED BY <1>1 DEF Named

-----------------------------------------------------------------------------
(***************************************************************************)
(* An edit of the sheet is a step of CellMap.                              *)
(***************************************************************************)
LEMMA EditCells ==
  ASSUME IInv, Editing
  PROVE  IInv' /\ Edited
  <1>1. Next /\ Edited
    BY DEF Editing, SheetInsertL, SheetModifyL, SheetRemoveL, SheetRemoveAllL, Next
  <1> QED BY <1>1, NextIInv

(***************************************************************************)
(* A search changes nothing of the cells but the iterator.                 *)
(***************************************************************************)
LEMMA SearchCells ==
  ASSUME Searching
  PROVE  UNCHANGED cellVars
  BY DEF Searching, FindFirstL, FindFirstAgainL, FindNextL, Begin

(***************************************************************************)
(* How a call may end, whatever was asked.                                 *)
(***************************************************************************)
Ends ==
  /\ m_Pos' \in Keys \union {Stale}
  /\ m_lSearchFromBegin' \in {"begin", "resume", "end"}
  /\ m_OrderSearchPosition' \in Point
  /\ answer' \in Point \union {None, Failed, Unreached}
  /\ reported' \in Seq(Point)
  /\ fresh' \in BOOLEAN

(***************************************************************************)
(* The three ways to answer give the history its types.                    *)
(***************************************************************************)
LEMMA AnswerTypes ==
  ASSUME SheetTypeOK, NEW from
  PROVE  /\ \A p \in Point : Found(from, p) =>
              answer' \in Point /\ reported' \in Seq(Point) /\ fresh' \in BOOLEAN
         /\ \A next : NotFound(from, next) =>
              /\ answer' = None /\ reported' \in Seq(Point) /\ fresh' \in BOOLEAN
              /\ m_lSearchFromBegin' = next
         /\ \A why : Leaves(why) => answer' = why /\ reported' \in Seq(Point) /\ fresh' \in BOOLEAN
  <1>1. Before(from) \in Seq(Point) /\ Clean(from) \in BOOLEAN
    BY NamedNothing DEF Before, Clean, SheetTypeOK
  <1>2. \A p \in Point : Append(Before(from), p) \in Seq(Point)
    BY <1>1, AppendProperties
  <1>3. ASSUME NEW p \in Point, Found(from, p)
        PROVE  answer' \in Point /\ reported' \in Seq(Point) /\ fresh' \in BOOLEAN
    BY <1>1, <1>2, <1>3, NamedNothing DEF Found
  <1>4. ASSUME NEW next, NotFound(from, next)
        PROVE  /\ answer' = None /\ reported' \in Seq(Point) /\ fresh' \in BOOLEAN
               /\ m_lSearchFromBegin' = next
    BY <1>1, <1>4, NamedNothing DEF NotFound
  <1>5. ASSUME NEW why, Leaves(why)
        PROVE  answer' = why /\ reported' \in Seq(Point) /\ fresh' \in BOOLEAN
    BY <1>5, NamedNothing DEF Leaves
  <1> QED BY <1>3, <1>4, <1>5

(***************************************************************************)
(* What lies ahead of a fast search is in the sheet.                       *)
(***************************************************************************)
LEMMA AheadInSheet ==
  ASSUME NEW from, NEW ahead \in Ahead(from)
  PROVE  ahead \subseteq DOMAIN m_pTree
  <1>1. CASE from = "begin"
    BY <1>1 DEF Ahead
  <1>2. CASE from # "begin" /\ m_Pos = Stale
    <2> DEFINE upTo(k) == {l \in DOMAIN m_pTree : ~ KeyLess(l, k)}
    <2>1. Ahead(from) = {upTo(k) : k \in DOMAIN m_pTree} \union {{}}
      BY <1>2, ZenonT(30) DEF Ahead
    <2>2. \A k \in DOMAIN m_pTree : upTo(k) \subseteq DOMAIN m_pTree
      OBVIOUS
    <2> HIDE DEF upTo
    <2> QED BY <2>1, <2>2
  <1>3. CASE from # "begin" /\ m_Pos # Stale
    BY <1>3 DEF Ahead, After
  <1> QED BY <1>1, <1>2, <1>3

(***************************************************************************)
(* A fast search ends with its types.                                      *)
(***************************************************************************)
LEMMA FastEnds ==
  ASSUME State, NEW text, NEW flags, NEW from \in {"begin", "resume"}, FindFast(text, flags, from)
  PROVE  Ends
  <1>1. /\ DOMAIN m_pTree \subseteq Keys /\ Keys \subseteq Point
        /\ m_OrderSearchPosition' \in Point /\ SheetTypeOK
    BY KeysArePoints DEF State, IInv, TypeOK, FindFast, SheetTypeOK
  <1>2. PICK ahead \in Ahead(from) :
          \/ /\ m_Pos' \in FirstOf(ahead)
             /\ m_lSearchFromBegin' = "resume"
             /\ Leaves(Failed)
          \/ /\ m_Pos' \in FirstOf({k \in ahead : Matches(m_pTree[k], text, flags)})
             /\ m_lSearchFromBegin' = IF m_Pos' = m_Range.br THEN "end" ELSE "resume"
             /\ Found(from, m_Pos')
          \/ /\ m_Pos' = Stale
             /\ NotFound(from, "begin")
    BY DEF FindFast
  <1>3. ahead \subseteq Keys
    BY <1>1, AheadInSheet
  <1>4. \A S : FirstOf(S) \subseteq S
    BY DEF FirstOf
  <1>5. CASE /\ m_Pos' \in FirstOf(ahead)
             /\ m_lSearchFromBegin' = "resume"
             /\ Leaves(Failed)
    BY <1>1, <1>3, <1>4, <1>5, AnswerTypes DEF Ends
  <1>6. CASE /\ m_Pos' \in FirstOf({k \in ahead : Matches(m_pTree[k], text, flags)})
             /\ m_lSearchFromBegin' = IF m_Pos' = m_Range.br THEN "end" ELSE "resume"
             /\ Found(from, m_Pos')
    <2>1. m_Pos' \in Keys /\ m_Pos' \in Point
      BY <1>1, <1>3, <1>4, <1>6
    <2> QED BY <1>1, <1>6, <2>1, AnswerTypes DEF Ends
  <1>7. CASE m_Pos' = Stale /\ NotFound(from, "begin")
    BY <1>1, <1>7, AnswerTypes DEF Ends
  <1> QED BY <1>2, <1>5, <1>6, <1>7

-----------------------------------------------------------------------------
(***************************************************************************)
(* The walk of a search by rows or by columns, along the x axis.           *)
(***************************************************************************)
Corner(flags)      == Turned(m_Range.br, flags)
Start(flags, from) == IF from = "begin" THEN Turned(m_Range.tl, flags)
                      ELSE Turned(m_OrderSearchPosition, flags)
Walk(flags, from)  == {p \in [x : 0 .. Corner(flags).x, y : Start(flags, from).y .. Corner(flags).y] :
                         p.x >= xBegin(Start(flags, from), Corner(flags), p.y, flags)}
Met(flags, from)   == {p \in Walk(flags, from) : IsExistL(Turned(p, flags))}
Hits(text, flags, from) == {p \in Met(flags, from) : Matches(AtL(Turned(p, flags)), text, flags)}
Least(S)  == {p \in S : \A q \in S : q = p \/ Earlier(p, q)}
Last(flags, from) == IF Walk(flags, from) = {}
                     THEN IF from = "begin" THEN Origin ELSE Turned(m_OrderSearchPosition, flags)
                     ELSE Corner(flags)

OrderedLeaves(flags, from) ==
  /\ \E p \in Met(flags, from) : m_OrderSearchPosition' = Turned(p, flags)
  /\ m_lSearchFromBegin' = "resume" /\ Leaves(Failed)

OrderedFinds(p, text, flags, from) ==
  /\ p \in Least(Hits(text, flags, from))
  /\ m_OrderSearchPosition' = Turned(Advanced(p, Corner(flags)), flags)
  /\ m_lSearchFromBegin' = IF Advanced(p, Corner(flags)) = Corner(flags) THEN "end" ELSE "resume"
  /\ Found(from, Turned(p, flags))

OrderedEnds(text, flags, from) ==
  /\ Hits(text, flags, from) = {}
  /\ m_OrderSearchPosition' = Turned(Last(flags, from), flags)
  /\ NotFound(from, IF Last(flags, from) = Corner(flags) THEN "begin" ELSE "resume")

(***************************************************************************)
(* A search by rows or by columns leaves, finds or ends.                   *)
(***************************************************************************)
LEMMA OrderedCases ==
  ASSUME NEW text, NEW flags, NEW from, FindOrdered(text, flags, from)
  PROVE  /\ m_Pos' = m_Pos
         /\ \/ OrderedLeaves(flags, from)
            \/ \E p : OrderedFinds(p, text, flags, from)
            \/ OrderedEnds(text, flags, from)
  <1> USE DEF Corner, Start, Walk, Met, Hits, Least, Last
  <1>1. m_Pos' = m_Pos
    BY DEF FindOrdered
  <1>2. \/ /\ \E p \in Least(Met(flags, from)) : m_OrderSearchPosition' = Turned(p, flags)
           /\ m_lSearchFromBegin' = "resume" /\ Leaves(Failed)
        \/ \E p \in Least(Hits(text, flags, from)) :
             /\ m_OrderSearchPosition' = Turned(Advanced(p, Corner(flags)), flags)
             /\ m_lSearchFromBegin' = IF Advanced(p, Corner(flags)) = Corner(flags) THEN "end" ELSE "resume"
             /\ Found(from, Turned(p, flags))
        \/ /\ Hits(text, flags, from) = {}
           /\ m_OrderSearchPosition' = Turned(Last(flags, from), flags)
           /\ NotFound(from, IF Last(flags, from) = Corner(flags) THEN "begin" ELSE "resume")
    BY DEF FindOrdered
  <1> HIDE DEF Corner, Start, Walk, Met, Hits, Last
  <1> QED BY <1>1, <1>2 DEF OrderedLeaves, OrderedFinds, OrderedEnds

(***************************************************************************)
(* Turning a point gives a point, and turning it twice the point itself.   *)
(***************************************************************************)
LEMMA TurnedPoint ==
  ASSUME NEW p \in Point, NEW flags
  PROVE  Turned(p, flags) \in Point /\ Turned(Turned(p, flags), flags) = p
  BY DEF Turned, Point

(***************************************************************************)
(* The walk stays on points.                                               *)
(***************************************************************************)
LEMMA WalkPoints ==
  ASSUME State, NEW flags, NEW from
  PROVE  /\ Corner(flags) \in Point /\ Start(flags, from) \in Point
         /\ Walk(flags, from) \subseteq Point /\ Last(flags, from) \in Point
         /\ \A p \in Walk(flags, from) :
              /\ p.x <= Corner(flags).x /\ p.y <= Corner(flags).y
              /\ p.y >= Start(flags, from).y
  <1>1. m_Range.tl \in Point /\ m_Range.br \in Point /\ m_OrderSearchPosition \in Point
    BY DEF State, SheetTypeOK, TypeOK
  <1>2. Corner(flags) \in Point /\ Start(flags, from) \in Point
    BY <1>1, TurnedPoint DEF Corner, Start
  <1>3. Corner(flags).x \in Nat /\ Corner(flags).y \in Nat /\ Start(flags, from).y \in Nat
    BY <1>2 DEF Point
  <1>4. ASSUME NEW p \in Walk(flags, from)
        PROVE  /\ p \in Point /\ p.x <= Corner(flags).x /\ p.y <= Corner(flags).y
               /\ p.y >= Start(flags, from).y
    BY <1>3, <1>4 DEF Walk, Point
  <1>5. Last(flags, from) \in Point
    BY <1>1, <1>2, TurnedPoint DEF Last, Origin, Point
  <1> QED BY <1>2, <1>4, <1>5

(***************************************************************************)
(* Where the next call begins is a point inside the corner, behind the     *)
(* match; unless the match was the corner.                                 *)
(***************************************************************************)
LEMMA AdvancedPoint ==
  ASSUME NEW p \in Point, NEW end \in Point, p.x <= end.x, p.y <= end.y
  PROVE  /\ Advanced(p, end) \in Point
         /\ Advanced(p, end).x <= end.x /\ Advanced(p, end).y <= end.y
         /\ Advanced(p, end).y >= p.y
         /\ Advanced(p, end) # end => Earlier(p, Advanced(p, end))
         /\ \A q \in Point : q.x <= end.x /\ Earlier(q, Advanced(p, end)) => q = p \/ Earlier(q, p)
  <1>1. p.x \in Nat /\ p.y \in Nat /\ end.x \in Nat /\ end.y \in Nat
        /\ p = [x |-> p.x, y |-> p.y] /\ end = [x |-> end.x, y |-> end.y]
        /\ \A q \in Point : q.x \in Nat /\ q.y \in Nat /\ q = [x |-> q.x, y |-> q.y]
    BY DEF Point
  <1>2. CASE p.x < end.x
    BY <1>1, <1>2 DEF Advanced, Earlier, Point
  <1>3. CASE p = end
    BY <1>1, <1>3 DEF Advanced, Earlier, Point
  <1>4. CASE p.x = end.x /\ p.y < end.y
    <2>1. Advanced(p, end) = [x |-> 0, y |-> p.y + 1]
      BY <1>1, <1>4 DEF Advanced
    <2> QED BY <1>1, <1>4, <2>1 DEF Earlier, Point
  <1> QED BY <1>1, <1>2, <1>3, <1>4

(***************************************************************************)
(* A search by rows or by columns ends with its types.                     *)
(***************************************************************************)
LEMMA OrderedTypes ==
  ASSUME State, NEW text, NEW flags, NEW from \in {"begin", "resume"}, FindOrdered(text, flags, from)
  PROVE  Ends
  <1>1. SheetTypeOK /\ m_Pos \in Keys \union {Stale}
    BY DEF State, SheetTypeOK, TypeOK
  <1>2. m_Pos' \in Keys \union {Stale}
    BY <1>1, OrderedCases
  <1>3. CASE OrderedLeaves(flags, from)
    <2>1. m_OrderSearchPosition' \in Point
      BY <1>3, WalkPoints, TurnedPoint DEF OrderedLeaves, Met
    <2> QED BY <1>1, <1>2, <1>3, <2>1, AnswerTypes DEF Ends, OrderedLeaves
  <1>4. ASSUME NEW p, OrderedFinds(p, text, flags, from) PROVE Ends
    <2>1. p \in Walk(flags, from)
      BY <1>4 DEF OrderedFinds, Least, Hits, Met
    <2>2. /\ p \in Point /\ Corner(flags) \in Point
          /\ p.x <= Corner(flags).x /\ p.y <= Corner(flags).y
      BY <2>1, WalkPoints
    <2>3. Turned(p, flags) \in Point /\ Turned(Advanced(p, Corner(flags)), flags) \in Point
      BY <2>2, AdvancedPoint, TurnedPoint
    <2>4. answer' \in Point /\ reported' \in Seq(Point) /\ fresh' \in BOOLEAN
      BY <1>1, <1>4, <2>3, AnswerTypes DEF OrderedFinds
    <2> QED BY <1>2, <1>4, <2>3, <2>4 DEF Ends, OrderedFinds
  <1>5. CASE OrderedEnds(text, flags, from)
    <2>1. m_OrderSearchPosition' \in Point
      BY <1>5, WalkPoints, TurnedPoint DEF OrderedEnds
    <2> QED BY <1>1, <1>2, <1>5, <2>1, AnswerTypes DEF Ends, OrderedEnds
  <1> QED BY <1>3, <1>4, <1>5, OrderedCases

(***************************************************************************)
(* Every call ends with its types.                                         *)
(***************************************************************************)
LEMMA FindTypes ==
  ASSUME State, NEW text, NEW flags, NEW from,
         from = "begin" \/ from = m_lSearchFromBegin, Find(text, flags, from)
  PROVE  Ends
  <1>1. /\ SheetTypeOK /\ m_Pos \in Keys \union {Stale} /\ m_OrderSearchPosition \in Point
        /\ m_lSearchFromBegin \in {"begin", "resume", "end"} /\ from \in {"begin", "resume", "end"}
    BY DEF State, SheetTypeOK, TypeOK
  <1>2. CASE Leaves(Failed) /\ UNCHANGED place
    BY <1>1, <1>2, AnswerTypes DEF Ends, place
  <1>3. CASE from # "end" /\ FindFast(text, flags, from)
    BY <1>1, <1>3, FastEnds
  <1>4. CASE from # "end" /\ FindOrdered(text, flags, from)
    BY <1>1, <1>4, OrderedTypes
  <1>5. CASE AtEnd
    BY <1>1, <1>5, AnswerTypes DEF Ends, AtEnd
  <1>6. CASE /\ Leaves(Unreached) /\ m_lSearchFromBegin' = from
             /\ UNCHANGED <<m_Pos, m_OrderSearchPosition>>
    BY <1>1, <1>6, AnswerTypes DEF Ends
  <1> QED BY <1>2, <1>3, <1>4, <1>5, <1>6 DEF Find

(***************************************************************************)
(* FindFirstL ends with its types, on an empty sheet too.                  *)
(***************************************************************************)
LEMMA BeginTypes ==
  ASSUME State, NEW text, NEW flags, Begin(text, flags)
  PROVE  Ends
  <1>1. CASE m_nCount = 0
    <2>1. /\ m_Pos \in Keys \union {Stale} /\ m_OrderSearchPosition \in Point
          /\ m_lSearchFromBegin \in {"begin", "resume", "end"}
      BY DEF State, SheetTypeOK, TypeOK
    <2>2. /\ answer' = None /\ reported' = <<>> /\ fresh' \in BOOLEAN /\ UNCHANGED place
      BY <1>1 DEF Begin
    <2> QED BY <2>1, <2>2, NamedNothing DEF Ends, place
  <1>2. CASE m_nCount # 0
    BY <1>2, FindTypes DEF Begin
  <1> QED BY <1>1, <1>2

(***************************************************************************)
(* So does every call of the interface, and the flags it stores are flags. *)
(***************************************************************************)
LEMMA SearchTypes ==
  ASSUME State, Searching
  PROVE  Ends /\ m_nFindFlags' \subseteq Flags
  <1>1. m_nFindFlags \subseteq Flags
    BY DEF State, SheetTypeOK
  <1>2. ASSUME NEW t \in Text, NEW flags \in FlagSets, FindFirstL(t, flags)
        PROVE  Ends /\ m_nFindFlags' \subseteq Flags
    <2>1. CASE Contradictory(flags)
      <3>1. /\ SheetTypeOK /\ m_Pos \in Keys \union {Stale} /\ m_OrderSearchPosition \in Point
            /\ m_lSearchFromBegin \in {"begin", "resume", "end"}
        BY DEF State, SheetTypeOK, TypeOK
      <3>2. Leaves(Failed) /\ UNCHANGED request /\ UNCHANGED place
        BY <1>2, <2>1 DEF FindFirstL
      <3> QED BY <1>1, <3>1, <3>2, AnswerTypes DEF Ends, place, request
    <2>2. CASE ~ Contradictory(flags)
      <3>1. m_nFindFlags' = flags /\ Begin(Folded(t, flags), flags)
        BY <1>2, <2>2 DEF FindFirstL
      <3> QED BY <3>1, BeginTypes, FlagAssumption
    <2> QED BY <2>1, <2>2
  <1>3. CASE FindFirstAgainL
    BY <1>1, <1>3, BeginTypes DEF FindFirstAgainL, request
  <1>4. CASE FindNextL
    BY <1>1, <1>4, FindTypes DEF FindNextL, request
  <1> QED BY <1>2, <1>3, <1>4 DEF Searching

(***************************************************************************)
(* A sheet begins with consistent cells and with a search that has its     *)
(* types.                                                                  *)
(***************************************************************************)
LEMMA StateInit == SheetInit => State
  <1> SUFFICES ASSUME SheetInit PROVE State
    OBVIOUS
  <1>1. IInv
    BY InitIInv DEF SheetInit
  <1>2. m_nFindFlags \subseteq Flags /\ Origin \in Point
    BY DEF SheetInit, Origin, Point
  <1> QED BY <1>1, <1>2, NamedNothing DEF State, SheetTypeOK, SheetInit, IInv

(***************************************************************************)
(* Every edit and every search keeps them.                                 *)
(***************************************************************************)
LEMMA StateStep ==
  ASSUME State, [SheetNext]_sheetVars
  PROVE  State'
  <1>1. CASE Editing
    <2>1. IInv' /\ Edited
      BY <1>1, EditCells DEF State
    <2>2. /\ reported' = <<>> /\ fresh' \in BOOLEAN
          /\ m_nFindFlags' = m_nFindFlags /\ m_lSearchFromBegin' = m_lSearchFromBegin
          /\ m_OrderSearchPosition' = m_OrderSearchPosition /\ answer' = answer
      BY <2>1 DEF Edited, request
    <2>3. SheetTypeOK'
      BY <2>1, <2>2, NamedNothing DEF State, SheetTypeOK, IInv
    <2> QED BY <2>1, <2>3 DEF State
  <1>2. CASE Searching
    <2>1. UNCHANGED cellVars /\ Ends /\ m_nFindFlags' \subseteq Flags
      BY <1>2, SearchCells, SearchTypes
    <2>2. IInv'
      BY <2>1 DEF State, IInv, TypeOK, CountExact, RangeCovers, cellVars, Ends
    <2>3. SheetTypeOK'
      BY <2>1, <2>2 DEF IInv, SheetTypeOK, Ends
    <2> QED BY <2>2, <2>3 DEF State
  <1>3. CASE UNCHANGED sheetVars
    BY <1>3 DEF State, IInv, TypeOK, CountExact, RangeCovers, SheetTypeOK,
                sheetVars, cellVars, request, place, history
  <1> QED BY <1>1, <1>2, <1>3 DEF SheetNext

-----------------------------------------------------------------------------
(***************************************************************************)
(* The invariant of a fast search.  In a sweep without edits what was      *)
(* reported is what matches up to the iterator; a sweep taken for ended    *)
(* stands at the corner.                                                   *)
(***************************************************************************)
SweepInv ==
  Fast =>
    /\ m_lSearchFromBegin = "begin" => reported = <<>> /\ (fresh \/ answer = Failed)
    /\ (m_lSearchFromBegin # "begin" /\ fresh) =>
         /\ m_Pos \in DOMAIN m_pTree
         /\ Named(reported) = {k \in Asked : ~ KeyLess(m_Pos, k)}
         /\ m_lSearchFromBegin = "end" => m_Pos = m_Range.br

(***************************************************************************)
(* What is asked for are keys of the sheet.                                *)
(***************************************************************************)
LEMMA AskedKeys ==
  ASSUME State
  PROVE  Asked \subseteq DOMAIN m_pTree /\ DOMAIN m_pTree \subseteq Keys /\ Keys \subseteq Point
  BY KeysArePoints DEF Asked, Wanted, State, IInv, TypeOK

(***************************************************************************)
(* An edit voids the sweep, whatever it does to the cells, and leaves a    *)
(* search that has not begun as it was.                                    *)
(***************************************************************************)
LEMMA EditStep ==
  ASSUME State, State', SweepInv, Editing, Fast'
  PROVE  SweepInv' /\ Sweep!Next
  <1>1. Edited
    BY EditCells DEF State
  <1>2. /\ fresh' = (m_lSearchFromBegin = "begin") /\ reported' = <<>> /\ answer' = answer
        /\ m_lSearchFromBegin' = m_lSearchFromBegin /\ m_nFindFlags' = m_nFindFlags
    BY <1>1 DEF Edited, request
  <1>3. Fast /\ fresh \in BOOLEAN
    BY <1>2 DEF Fast, State, SheetTypeOK
  <1>4. Wanted(m_pTree, m_sTextToFind, m_nFindFlags)' \subseteq Keys
    BY DEF Wanted, State, IInv, TypeOK
  <1>5. SweepInv'
    BY <1>2 DEF SweepInv
  <1>6. CASE m_lSearchFromBegin = "begin" /\ ~ fresh
    <2>1. answer' = Failed
      BY <1>2, <1>3, <1>6 DEF SweepInv
    <2>2. Sweep!Start
      BY <1>2, <1>4, <2>1 DEF Sweep!Start, Sweep!Refused
    <2> QED BY <1>5, <2>2 DEF Sweep!Next
  <1>7. CASE m_lSearchFromBegin # "begin" \/ fresh
    <2>1. fresh' \in {FALSE, fresh /\ reported = <<>>}
      BY <1>2, <1>3, <1>7 DEF SweepInv
    <2>2. Sweep!Edit
      BY <1>2, <1>4, <2>1 DEF Sweep!Edit
    <2> QED BY <1>5, <2>2 DEF Sweep!Next
  <1> QED BY <1>6, <1>7

(***************************************************************************)
(* A call that leaves is a refusal, whatever it does to the place.         *)
(***************************************************************************)
LEMMA LeavingStep ==
  ASSUME State', Leaves(Failed)
  PROVE  SweepInv' /\ Sweep!Next
  <1>1. answer' = Failed /\ reported' = <<>> /\ fresh' = FALSE
    BY DEF Leaves
  <1>2. Wanted(m_pTree, m_sTextToFind, m_nFindFlags)' \subseteq Keys
    BY DEF Wanted, State, IInv, TypeOK
  <1>3. Sweep!Start
    BY <1>1, <1>2 DEF Sweep!Start, Sweep!Refused
  <1> QED BY <1>1, <1>3 DEF SweepInv, Sweep!Next

(***************************************************************************)
(* The least key ahead is the one key between what was named before and    *)
(* what is named with it.                                                  *)
(***************************************************************************)
RestFollows(want, done) == \A k \in done, q \in want \ done : ~ KeyLess(q, k)

\* What FirstOf names next is new, and what is named then is all up to it
\* (the fast search, sheet_model.cpp:371).
LEMMA NextHit ==
  ASSUME NEW want \in SUBSET Keys, NEW done \in SUBSET want, RestFollows(want, done),
         NEW p \in FirstOf(want \ done)
  PROVE  /\ p \in want /\ p \notin done
         /\ done \union {p} = {k \in want : ~ KeyLess(p, k)}
  <1>1. p \in want \ done /\ \A l \in want \ done : l = p \/ KeyLess(p, l)
    BY DEF FirstOf
  <1>2. ~ KeyLess(p, p)
    BY <1>1, KeyOrder
  <1> QED BY <1>1, <1>2 DEF RestFollows

(***************************************************************************)
(* What lies ahead of the search is in the sheet, and while the sheet is   *)
(* as it was, it is what has not been named.                               *)
(***************************************************************************)
LEMMA AheadIsTheRest ==
  ASSUME State, SweepInv, Fast, NEW from \in {"begin", "resume"},
         from = "resume" => m_lSearchFromBegin = "resume",
         NEW ahead \in Ahead(from)
  PROVE  /\ ahead \subseteq DOMAIN m_pTree
         /\ from = "begin" => ahead = DOMAIN m_pTree
         /\ (from = "resume" /\ fresh) =>
              /\ m_Pos \in DOMAIN m_pTree
              /\ ahead = {k \in DOMAIN m_pTree : KeyLess(m_Pos, k)}
  <1>1. ahead \subseteq DOMAIN m_pTree
    BY AheadInSheet
  <1>2. CASE from = "begin"
    BY <1>2 DEF Ahead
  <1>3. CASE from = "resume" /\ fresh
    <2>1. m_Pos \in DOMAIN m_pTree
      BY <1>3 DEF SweepInv
    <2>2. m_Pos # Stale
      BY <2>1, AskedKeys, KeysArePoints
    <2>3. ahead = {k \in DOMAIN m_pTree : KeyLess(m_Pos, k)}
      BY <1>3, <2>2 DEF Ahead, After
    <2> QED BY <1>1, <1>3, <2>1, <2>3
  <1> QED BY <1>1, <1>2, <1>3

-----------------------------------------------------------------------------
(***************************************************************************)
(* A call of FindNextL in the middle of a sweep: one more match, or the    *)
(* end when everything was named.                                          *)
(***************************************************************************)
LEMMA ResumedStep ==
  ASSUME State, SweepInv, m_lSearchFromBegin = "resume",
         UNCHANGED cellVars, UNCHANGED request,
         m_sTextToFind # NoText, "Fast" \in m_nFindFlags, State',
         FindFast(m_sTextToFind, m_nFindFlags, "resume")
  PROVE  SweepInv' /\ Sweep!Next
  <1> DEFINE hits(ahead) == {k \in ahead : Matches(m_pTree[k], m_sTextToFind, m_nFindFlags)}
  <1>1. /\ UNCHANGED m_pTree /\ UNCHANGED m_Range /\ m_nFindFlags' = m_nFindFlags
        /\ Asked' = Asked /\ Fast
        /\ \A ahead \in SUBSET DOMAIN m_pTree : hits(ahead) = ahead \intersect Asked
    BY DEF cellVars, request, Asked, Wanted, Fast
  <1>2. PICK ahead \in Ahead("resume") :
          \/ /\ ~ Comparable(m_nFindFlags)
             /\ m_lSearchFromBegin' = "resume" /\ Leaves(Failed)
          \/ /\ m_Pos' \in FirstOf(hits(ahead))
             /\ m_lSearchFromBegin' = IF m_Pos' = m_Range.br THEN "end" ELSE "resume"
             /\ Found("resume", m_Pos')
          \/ /\ hits(ahead) = {} /\ NotFound("resume", "begin")
    BY DEF FindFast
  <1>3. ahead \subseteq DOMAIN m_pTree
    BY AheadInSheet
  <1>4. hits(ahead) = ahead \intersect Asked
    BY <1>1, <1>3
  <1> HIDE DEF hits
  <1>5. reported \in Seq(Point) /\ fresh \in BOOLEAN
    BY DEF State, SheetTypeOK
  <1>6. fresh => /\ Named(reported) = {k \in Asked : ~ KeyLess(m_Pos, k)}
                 /\ m_Pos \in DOMAIN m_pTree
                 /\ ahead = {k \in DOMAIN m_pTree : KeyLess(m_Pos, k)}
    BY <1>1, AheadIsTheRest DEF SweepInv
  <1>7. Asked \subseteq DOMAIN m_pTree /\ DOMAIN m_pTree \subseteq Keys /\ Keys \subseteq Point
    BY AskedKeys
  <1>8. fresh => hits(ahead) = Asked \ Named(reported)
    BY <1>4, <1>6, <1>7
  <1>9. Sweep!Named = Named(reported)
    BY DEF Sweep!Named, Named
  <1>10. Asked' = Wanted(m_pTree, m_sTextToFind, m_nFindFlags)'
    BY DEF Asked
  <1>11. CASE m_lSearchFromBegin' = "resume" /\ Leaves(Failed)
    BY <1>11, LeavingStep
  <1>12. CASE /\ m_Pos' \in FirstOf(hits(ahead))
              /\ m_lSearchFromBegin' = IF m_Pos' = m_Range.br THEN "end" ELSE "resume"
              /\ Found("resume", m_Pos')
    <2>1. m_Pos' \in hits(ahead) /\ m_Pos' \in Asked /\ m_Pos' \in Keys /\ m_Pos' \in Point
      BY <1>4, <1>7, <1>12 DEF FirstOf
    <2>2. CASE fresh
      <3>1. answer' = m_Pos' /\ reported' = Append(reported, m_Pos') /\ fresh' = TRUE
        BY <1>12, <2>2 DEF Found, Clean, Before
      <3>2. RestFollows(Asked, Named(reported))
        <4>1. ASSUME NEW k \in Named(reported), NEW q \in Asked \ Named(reported), KeyLess(q, k)
              PROVE  FALSE
          <5>1. KeyLess(m_Pos, q) /\ ~ KeyLess(m_Pos, k)
                /\ m_Pos \in Keys /\ q \in Keys /\ k \in Keys
            BY <1>6, <1>7, <2>2, <4>1
          <5> QED BY <4>1, <5>1, KeyOrder
        <4> QED BY <4>1 DEF RestFollows
      <3>3. m_Pos' \in FirstOf(Asked \ Named(reported))
        BY <1>8, <1>12, <2>2
      <3>4. Named(reported) \in SUBSET Asked /\ Asked \in SUBSET Keys
        BY <1>6, <1>7, <2>2
      <3>5. /\ m_Pos' \notin Named(reported)
            /\ Named(reported) \union {m_Pos'} = {k \in Asked : ~ KeyLess(m_Pos', k)}
        BY <3>2, <3>3, <3>4, NextHit
      <3>6. Named(reported') = Named(reported) \union {m_Pos'}
        BY <1>5, <2>1, <3>1, NamedAppend
      <3>7. Sweep!Continue
        BY <1>1, <1>9, <1>10, <2>1, <2>2, <3>1, <3>5
           DEF Sweep!Continue, Sweep!Hit, Asked
      <3>8. m_Pos' \in DOMAIN m_pTree' /\ Named(reported)' = Named(reported')
        BY <1>1, <1>7, <2>1 DEF Named
      <3>9. SweepInv'
        BY <1>1, <1>12, <3>1, <3>5, <3>6, <3>8 DEF SweepInv
      <3> QED BY <3>7, <3>9 DEF Sweep!Next
    <2>3. CASE ~ fresh
      <3>1. answer' = m_Pos' /\ reported' = <<>> /\ fresh' = FALSE
        BY <1>12, <2>3 DEF Found, Clean, Before
      <3>2. Sweep!Continue
        BY <1>1, <1>10, <2>1, <2>3, <3>1 DEF Sweep!Continue, Sweep!Hit, Asked
      <3>3. SweepInv'
        BY <1>12, <3>1 DEF SweepInv
      <3> QED BY <3>2, <3>3 DEF Sweep!Next
    <2> QED BY <1>5, <2>2, <2>3
  <1>13. CASE hits(ahead) = {} /\ NotFound("resume", "begin")
    <2>1. answer' = None /\ reported' = <<>> /\ fresh' = TRUE /\ m_lSearchFromBegin' = "begin"
      BY <1>13 DEF NotFound
    <2>2. fresh => Sweep!Named = Asked
      BY <1>6, <1>8, <1>9, <1>13
    <2>3. Sweep!Continue
      BY <1>1, <1>5, <2>1, <2>2 DEF Sweep!Continue, Sweep!Exhausted, Asked
    <2>4. SweepInv'
      BY <2>1 DEF SweepInv
    <2> QED BY <2>3, <2>4 DEF Sweep!Next
  <1> QED BY <1>2, <1>11, <1>12, <1>13

(***************************************************************************)
(* A call that starts from the first cell: its first match, or nothing     *)
(* when nothing matches.                                                   *)
(***************************************************************************)
LEMMA FirstStep ==
  ASSUME State, State', UNCHANGED cellVars,
         m_sTextToFind' # NoText, "Fast" \in m_nFindFlags',
         FindFast(m_sTextToFind', m_nFindFlags', "begin")
  PROVE  SweepInv' /\ Sweep!Next
  <1> DEFINE hits == {k \in DOMAIN m_pTree : Matches(m_pTree[k], m_sTextToFind', m_nFindFlags')}
  <1>1. /\ UNCHANGED m_pTree /\ UNCHANGED m_Range /\ Asked' = hits
        /\ hits \subseteq DOMAIN m_pTree /\ DOMAIN m_pTree \subseteq Keys /\ Keys \subseteq Point
    BY AskedKeys DEF cellVars, Asked, Wanted
  <1>2. \A ahead \in Ahead("begin") : ahead = DOMAIN m_pTree
    BY DEF Ahead
  <1>3. \/ /\ m_lSearchFromBegin' = "resume" /\ Leaves(Failed)
        \/ /\ m_Pos' \in FirstOf(hits)
           /\ m_lSearchFromBegin' = IF m_Pos' = m_Range.br THEN "end" ELSE "resume"
           /\ Found("begin", m_Pos')
        \/ /\ hits = {} /\ NotFound("begin", "begin")
    BY <1>2 DEF FindFast
  <1> HIDE DEF hits
  <1>4. Asked' = Wanted(m_pTree, m_sTextToFind, m_nFindFlags)'
    BY DEF Asked
  <1>5. CASE m_lSearchFromBegin' = "resume" /\ Leaves(Failed)
    BY <1>5, LeavingStep
  <1>6. CASE /\ m_Pos' \in FirstOf(hits)
             /\ m_lSearchFromBegin' = IF m_Pos' = m_Range.br THEN "end" ELSE "resume"
             /\ Found("begin", m_Pos')
    <2>1. m_Pos' \in hits /\ m_Pos' \in Keys /\ m_Pos' \in Point /\ m_Pos' \in DOMAIN m_pTree'
      BY <1>1, <1>6 DEF FirstOf
    <2>2. answer' = m_Pos' /\ reported' = Append(<<>>, m_Pos') /\ fresh' = TRUE
      BY <1>6 DEF Found, Clean, Before
    <2>3. m_Pos' \in FirstOf(hits \ {}) /\ {} \in SUBSET hits /\ hits \in SUBSET Keys
      BY <1>1, <1>6
    <2>4. {m_Pos'} = {k \in hits : ~ KeyLess(m_Pos', k)}
      <3> DEFINE done == {}
      <3>1. /\ m_Pos' \in FirstOf(hits \ done) /\ done \in SUBSET hits /\ hits \in SUBSET Keys
            /\ RestFollows(hits, done)
        BY <2>3 DEF RestFollows
      <3> HIDE DEF done
      <3>2. done \union {m_Pos'} = {k \in hits : ~ KeyLess(m_Pos', k)}
        BY <3>1, NextHit
      <3> QED BY <3>2 DEF done
    <2>5. <<>> \in Seq(Point)
      BY NamedNothing
    <2>6. Named(reported') = Named(<<>>) \union {m_Pos'}
      <3> DEFINE none == <<>>
      <3>1. none \in Seq(Point) /\ m_Pos' \in Point
        BY <2>1, <2>5
      <3> HIDE DEF none
      <3>2. Named(Append(none, m_Pos')) = Named(none) \union {m_Pos'}
        BY <3>1, NamedAppend
      <3> QED BY <2>2, <3>2 DEF none
    <2>7. Named(reported') = {k \in Asked' : ~ KeyLess(m_Pos', k)}
      BY <1>1, <2>4, <2>6, NamedNothing
    <2>8. Sweep!Start
      <3>1. Append(<<>>, m_Pos') = <<m_Pos'>>
        OBVIOUS
      <3> QED BY <1>1, <1>4, <2>1, <2>2, <3>1 DEF Sweep!Start, Sweep!Hit
    <2>9. Named(reported)' = Named(reported')
      BY DEF Named
    <2>10. SweepInv'
      BY <1>1, <1>6, <2>1, <2>2, <2>6, <2>7, <2>9 DEF SweepInv
    <2> QED BY <2>8, <2>10 DEF Sweep!Next
  <1>7. CASE hits = {} /\ NotFound("begin", "begin")
    <2>1. answer' = None /\ reported' = <<>> /\ fresh' = TRUE /\ m_lSearchFromBegin' = "begin"
      BY <1>7 DEF NotFound
    <2>2. Sweep!Start
      BY <1>1, <1>4, <1>7, <2>1 DEF Sweep!Start
    <2>3. SweepInv'
      BY <2>1 DEF SweepInv
    <2> QED BY <2>2, <2>3 DEF Sweep!Next
  <1> QED BY <1>3, <1>5, <1>6, <1>7

(***************************************************************************)
(* The call behind the last match: the iterator stands at the corner of    *)
(* m_Range, nothing comes behind it, so everything was named.              *)
(***************************************************************************)
LEMMA LastStep ==
  ASSUME State, SweepInv, m_lSearchFromBegin = "end", Fast,
         UNCHANGED cellVars, UNCHANGED request, AtEnd
  PROVE  SweepInv' /\ Sweep!Next
  <1>1. /\ UNCHANGED m_pTree /\ m_nFindFlags' = m_nFindFlags
        /\ Asked \subseteq DOMAIN m_pTree
        /\ Wanted(m_pTree, m_sTextToFind, m_nFindFlags)' = Wanted(m_pTree, m_sTextToFind, m_nFindFlags)
    BY DEF cellVars, request, Asked, Wanted
  <1>2. answer' = None /\ reported' = <<>> /\ fresh' = TRUE /\ m_lSearchFromBegin' = "begin"
    BY DEF AtEnd, NotFound
  <1>3. fresh => Named(reported) = Asked
    <2>1. fresh => Named(reported) = {k \in Asked : ~ KeyLess(m_Range.br, k)}
      BY DEF SweepInv
    <2>2. \A k \in Asked : ~ KeyLess(m_Range.br, k)
      BY <1>1, NothingBehindTheCorner DEF State
    <2> QED BY <2>1, <2>2
  <1>4. fresh \in BOOLEAN
    BY DEF State, SheetTypeOK
  <1>5. Sweep!Named = Named(reported)
    BY DEF Sweep!Named, Named
  <1>6. Sweep!Continue
    BY <1>1, <1>2, <1>3, <1>4, <1>5 DEF Sweep!Continue, Sweep!Exhausted, Asked
  <1>7. SweepInv'
    BY <1>2 DEF SweepInv
  <1> QED BY <1>6, <1>7 DEF Sweep!Next

-----------------------------------------------------------------------------
(***************************************************************************)
(* FindNextL, and FindFirstL on a sheet with cells, for the stored request.*)
(***************************************************************************)
LEMMA FindStep ==
  ASSUME State, State', SweepInv, UNCHANGED cellVars, Fast',
         NEW from, from = "begin" \/ (from = m_lSearchFromBegin /\ UNCHANGED request),
         Find(m_sTextToFind', m_nFindFlags', from)
  PROVE  SweepInv' /\ Sweep!Next
  <1>1. from \in {"begin", "resume", "end"}
    BY DEF State, SheetTypeOK
  <1>2. CASE m_sTextToFind' = NoText \/ m_nFindFlags' = {}
    <2>1. Leaves(Failed)
      BY <1>2 DEF Find
    <2> QED BY <2>1, LeavingStep
  <1>3. CASE m_sTextToFind' # NoText /\ m_nFindFlags' # {}
    <2>1. "Fast" \in m_nFindFlags'
      BY <1>3 DEF Fast
    <2>2. \/ from # "end" /\ FindFast(m_sTextToFind', m_nFindFlags', from)
          \/ from = "end" /\ AtEnd
      BY <1>3, <2>1 DEF Find
    <2>3. CASE from = "begin"
      BY <1>3, <2>1, <2>2, <2>3, FirstStep
    <2>4. CASE from = "resume"
      <3>1. /\ m_lSearchFromBegin = "resume" /\ UNCHANGED request
            /\ m_sTextToFind' = m_sTextToFind /\ m_nFindFlags' = m_nFindFlags
        BY <2>4 DEF request
      <3>2. FindFast(m_sTextToFind, m_nFindFlags, "resume")
        BY <2>2, <2>4, <3>1 DEF FindFast
      <3> QED BY <1>3, <2>1, <3>1, <3>2, ResumedStep
    <2>5. CASE from = "end"
      <3>1. m_lSearchFromBegin = "end" /\ UNCHANGED request /\ Fast /\ AtEnd
        BY <2>2, <2>5 DEF request, Fast
      <3> QED BY <3>1, LastStep
    <2> QED BY <1>1, <2>3, <2>4, <2>5
  <1> QED BY <1>2, <1>3

(***************************************************************************)
(* FindFirstL: an empty sheet is answered without a search.                *)
(***************************************************************************)
LEMMA BeginStep ==
  ASSUME State, State', SweepInv, Fast', Begin(m_sTextToFind', m_nFindFlags')
  PROVE  SweepInv' /\ Sweep!Next
  <1>1. UNCHANGED cellVars
    BY DEF Begin
  <1>2. CASE m_nCount = 0
    <2>1. /\ answer' = None /\ reported' = <<>> /\ fresh' = (m_lSearchFromBegin = "begin")
          /\ m_lSearchFromBegin' = m_lSearchFromBegin
      BY <1>2 DEF Begin, place
    <2>2. DOMAIN m_pTree = {}
      BY <1>2, FS_EmptySet DEF State, IInv, CountExact
    <2>3. Wanted(m_pTree, m_sTextToFind, m_nFindFlags)' = {}
      BY <1>1, <2>2 DEF Wanted, cellVars
    <2>4. Sweep!Start
      BY <2>1, <2>3 DEF Sweep!Start
    <2>5. SweepInv'
      BY <2>1 DEF SweepInv
    <2> QED BY <2>4, <2>5 DEF Sweep!Next
  <1>3. CASE m_nCount # 0
    <2>1. Find(m_sTextToFind', m_nFindFlags', "begin")
      BY <1>3 DEF Begin
    <2> QED BY <1>1, <2>1, FindStep
  <1> QED BY <1>2, <1>3

(***************************************************************************)
(* Every call of a search is a step of the sweep.                          *)
(***************************************************************************)
LEMMA SearchStep ==
  ASSUME State, State', SweepInv, Searching, Fast'
  PROVE  SweepInv' /\ Sweep!Next
  <1>1. UNCHANGED cellVars
    BY SearchCells
  <1>2. ASSUME NEW t \in Text, NEW flags \in FlagSets, FindFirstL(t, flags)
        PROVE  SweepInv' /\ Sweep!Next
    <2>1. CASE Contradictory(flags)
      BY <1>2, <2>1, LeavingStep DEF FindFirstL
    <2>2. CASE ~ Contradictory(flags)
      <3>1. m_nFindFlags' = flags /\ m_sTextToFind' = Folded(t, flags) /\ Begin(Folded(t, flags), flags)
        BY <1>2, <2>2 DEF FindFirstL
      <3>2. Begin(m_sTextToFind', m_nFindFlags')
        BY <3>1
      <3> QED BY <3>2, BeginStep
    <2> QED BY <2>1, <2>2
  <1>3. ASSUME FindFirstAgainL PROVE SweepInv' /\ Sweep!Next
    <2>1. /\ m_sTextToFind' = m_sTextToFind /\ m_nFindFlags' = m_nFindFlags
          /\ Begin(m_sTextToFind, m_nFindFlags)
      BY <1>3 DEF FindFirstAgainL, request
    <2>2. Begin(m_sTextToFind', m_nFindFlags')
      BY <2>1
    <2> QED BY <2>2, BeginStep
  <1>4. ASSUME FindNextL PROVE SweepInv' /\ Sweep!Next
    <2>1. /\ UNCHANGED request /\ m_sTextToFind' = m_sTextToFind /\ m_nFindFlags' = m_nFindFlags
          /\ Find(m_sTextToFind, m_nFindFlags, m_lSearchFromBegin)
      BY <1>4 DEF FindNextL, request
    <2>2. Find(m_sTextToFind', m_nFindFlags', m_lSearchFromBegin)
      BY <2>1
    <2> QED BY <1>1, <2>1, <2>2, FindStep
  <1> QED BY <1>2, <1>3, <1>4 DEF Searching

(***************************************************************************)
(* A fast search is the abstract sweep of SearchSpec: FindFirstL and       *)
(* repeated FindNextL name every matching cell, each once, and say only    *)
(* then that there is no other; an edit between the calls, wherever it     *)
(* leaves the shared iterator, voids that promise and nothing else; nor    *)
(* does a search in another order that went before.                        *)
(***************************************************************************)
THEOREM FastRefines == SheetSpec => SweepSpec
  <1>1. SheetInit => State /\ SweepInv /\ Sweep!Init
    <2> SUFFICES ASSUME SheetInit PROVE State /\ SweepInv /\ Sweep!Init
      OBVIOUS
    <2>1. /\ DOMAIN m_pTree = {} /\ m_lSearchFromBegin = "begin" /\ answer = None
          /\ reported = <<>> /\ fresh = TRUE
      BY DEF SheetInit, Init
    <2>2. SweepInv
      BY <2>1 DEF SweepInv
    <2>3. Sweep!Init
      BY <2>1 DEF Sweep!Init, Wanted
    <2> QED BY <2>2, <2>3, StateInit
  <1>2. State /\ SweepInv /\ [SheetNext]_sheetVars =>
          State' /\ SweepInv' /\ (Fast' => [Sweep!Next]_(Sweep!vars))
    <2> SUFFICES ASSUME State, SweepInv, [SheetNext]_sheetVars
                 PROVE  State' /\ SweepInv' /\ (Fast' => [Sweep!Next]_(Sweep!vars))
      OBVIOUS
    <2>1. State'
      BY StateStep
    <2>2. CASE ~ Fast'
      BY <2>1, <2>2 DEF SweepInv
    <2>3. CASE Editing /\ Fast'
      BY <2>1, <2>3, EditStep
    <2>4. CASE Searching /\ Fast'
      BY <2>1, <2>4, SearchStep
    <2>5. CASE UNCHANGED sheetVars
      <3>1. /\ UNCHANGED <<m_pTree, m_Range, m_Pos, m_sTextToFind, m_nFindFlags>>
            /\ UNCHANGED <<m_lSearchFromBegin, answer, reported, fresh>>
        BY <2>5 DEF sheetVars, cellVars, request, place, history
      <3>2. SweepInv'
        BY <3>1 DEF SweepInv, Fast, Asked, Wanted, Named
      <3>3. UNCHANGED Sweep!vars
        BY <3>1 DEF Sweep!vars, Wanted
      <3> QED BY <2>1, <3>2, <3>3
    <2> QED BY <2>2, <2>3, <2>4, <2>5 DEF SheetNext
  <1> QED BY <1>1, <1>2, PTL DEF SheetSpec, SweepSpec

-----------------------------------------------------------------------------
(***************************************************************************)
(* The order of a walk.                                                    *)
(***************************************************************************)
LEMMA EarlierOrder ==
  ASSUME NEW p \in Point, NEW q \in Point
  PROVE  /\ ~ Earlier(p, p)
         /\ p = q \/ Earlier(p, q) \/ Earlier(q, p)
         /\ \A r \in Point : Earlier(p, q) /\ Earlier(q, r) => Earlier(p, r)
  <1>1. \A r \in Point : r.x \in Nat /\ r.y \in Nat /\ r = [x |-> r.x, y |-> r.y]
    BY DEF Point
  <1> QED BY <1>1 DEF Earlier

(***************************************************************************)
(* Answers that follow each other in the order asked for.                  *)
(***************************************************************************)
Rising(s, flags) ==
  \A i, j \in DOMAIN s : i < j => Earlier(Turned(s[i], flags), Turned(s[j], flags))

(***************************************************************************)
(* They still do when a later one follows.                                 *)
(***************************************************************************)
LEMMA RisingAppend ==
  ASSUME NEW s \in Seq(Point), NEW p \in Point, NEW flags, Rising(s, flags),
         \A r \in Named(s) : Earlier(Turned(r, flags), Turned(p, flags))
  PROVE  Rising(Append(s, p), flags)
  <1> DEFINE t == Append(s, p)
  <1>1. /\ Len(t) = Len(s) + 1 /\ t[Len(s) + 1] = p /\ Len(s) \in Nat
        /\ \A i \in 1 .. Len(s) : t[i] = s[i]
        /\ DOMAIN s = 1 .. Len(s) /\ DOMAIN t = 1 .. Len(t)
    BY AppendProperties, LenProperties
  <1> HIDE DEF t
  <1>2. ASSUME NEW i \in DOMAIN t, NEW j \in DOMAIN t, i < j
        PROVE  Earlier(Turned(t[i], flags), Turned(t[j], flags))
    <2>1. i \in DOMAIN s /\ t[i] = s[i] /\ s[i] \in Named(s)
      BY <1>1, <1>2 DEF Named
    <2>2. CASE j = Len(s) + 1
      BY <1>1, <2>1, <2>2
    <2>3. CASE j # Len(s) + 1
      <3>1. j \in DOMAIN s /\ t[j] = s[j]
        BY <1>1, <2>3
      <3> QED BY <1>2, <2>1, <3>1 DEF Rising
    <2> QED BY <2>2, <2>3
  <1> QED BY <1>2 DEF Rising, t

(***************************************************************************)
(* A sheet with cells has a range: its corners lie in order.               *)
(***************************************************************************)
LEMMA RangeOfCells ==
  ASSUME State, DOMAIN m_pTree # {}, NEW flags
  PROVE  /\ Turned(m_Range.tl, flags) \in Point
         /\ Turned(m_Range.tl, flags).x <= Corner(flags).x
         /\ Turned(m_Range.tl, flags).y <= Corner(flags).y
  <1>1. PICK k \in DOMAIN m_pTree : TRUE
    OBVIOUS
  <1>2. /\ m_Range.tl \in Point /\ m_Range.br \in Point
        /\ owner[k] \in Position /\ Inside(m_Range, owner[k])
    BY <1>1 DEF State, IInv, TypeOK, RangeCovers
  <1>3. /\ m_Range.tl.x \in Nat /\ m_Range.tl.y \in Nat /\ m_Range.br.x \in Nat /\ m_Range.br.y \in Nat
        /\ owner[k].x \in Nat /\ owner[k].y \in Nat
    BY <1>2, PositionAssumption DEF Point
  <1>4. m_Range.tl.x <= m_Range.br.x /\ m_Range.tl.y <= m_Range.br.y
    BY <1>2, <1>3 DEF Inside
  <1> QED BY <1>2, <1>4, TurnedPoint DEF Corner, Turned

(***************************************************************************)
(* On a sheet that fits the key every cell has its own position for a key, *)
(* so the walk finds it where it stands, and it stands in the range.       *)
(***************************************************************************)
LEMMA CellsInRange ==
  ASSUME State, NEW flags, Closed(flags), NEW k \in DOMAIN m_pTree
  PROVE  /\ k \in Point /\ Inside(m_Range, k) /\ PositionToKey(k) = k
         /\ Turned(k, flags).x >= Turned(m_Range.tl, flags).x
         /\ Turned(k, flags).y >= Turned(m_Range.tl, flags).y
         /\ Turned(k, flags).x <= Corner(flags).x
         /\ Turned(k, flags).y <= Corner(flags).y
  <1> DEFINE o == owner[k]
  <1>1. /\ o \in Position /\ Inside(m_Range, o) /\ PositionToKey(o) = k
        /\ m_Range.tl \in Point /\ m_Range.br \in Point /\ m_Range.br \in Keys
    BY DEF State, IInv, TypeOK, RangeCovers, Closed
  <1>2. /\ o \in Point /\ o = [x |-> o.x, y |-> o.y] /\ o.x \in Nat /\ o.y \in Nat
        /\ m_Range.tl.x \in Nat /\ m_Range.tl.y \in Nat
        /\ m_Range.br.x \in 0 .. KeyMod - 1 /\ m_Range.br.y \in 0 .. KeyMod - 1
    BY <1>1, PositionAssumption DEF Point, Keys
  <1>3. /\ o.x >= m_Range.tl.x /\ o.y >= m_Range.tl.y
        /\ o.x <= m_Range.br.x /\ o.y <= m_Range.br.y
    BY <1>1, <1>2 DEF Inside
  <1> HIDE DEF o
  <1>4. o.x % KeyMod = o.x /\ o.y % KeyMod = o.y
    BY <1>2, <1>3, KeyModAssumption
  <1>5. k = o
    BY <1>1, <1>2, <1>4 DEF PositionToKey
  <1> QED BY <1>1, <1>2, <1>3, <1>5 DEF Turned, Corner

-----------------------------------------------------------------------------
(***************************************************************************)
(* The walk begins where it is told to, or behind.                         *)
(***************************************************************************)
LEMMA WalkIsAhead ==
  ASSUME State, NEW flags, NEW from, NEW p \in Walk(flags, from)
  PROVE  p = Start(flags, from) \/ Earlier(Start(flags, from), p)
  <1> DEFINE s == Start(flags, from)
  <1>1. p \in Point /\ s \in Point /\ p.y >= s.y
    BY WalkPoints
  <1>2. p.x >= xBegin(s, Corner(flags), p.y, flags)
    BY DEF Walk
  <1>3. /\ p.x \in Nat /\ p.y \in Nat /\ s.x \in Nat /\ s.y \in Nat
        /\ p = [x |-> p.x, y |-> p.y] /\ s = [x |-> s.x, y |-> s.y]
    BY <1>1 DEF Point
  <1> HIDE DEF s
  <1>4. CASE p.y = s.y
    <2>1. \A l \in s.y .. p.y - 1 : FALSE
      BY <1>3, <1>4
    <2>2. xBegin(s, Corner(flags), p.y, flags) = s.x
      BY <2>1, Zenon DEF xBegin
    <2> QED BY <1>2, <1>3, <1>4, <2>2 DEF Earlier, s
  <1>5. CASE p.y > s.y
    BY <1>3, <1>5 DEF Earlier, s
  <1> QED BY <1>1, <1>3, <1>4, <1>5

(***************************************************************************)
(* A walk that does not begin behind the last line reaches the corner.     *)
(***************************************************************************)
LEMMA WalkReachesTheCorner ==
  ASSUME State, NEW flags, NEW from,
         Start(flags, from).x <= Corner(flags).x, Start(flags, from).y <= Corner(flags).y
  PROVE  Corner(flags) \in Walk(flags, from)
  <1> DEFINE s == Start(flags, from)
             c == Corner(flags)
  <1>1. c \in Point /\ s \in Point
    BY WalkPoints
  <1>2. /\ c.x \in Nat /\ c.y \in Nat /\ s.x \in Nat /\ s.y \in Nat /\ s.x <= c.x /\ s.y <= c.y
        /\ c = [x |-> c.x, y |-> c.y]
    BY <1>1 DEF Point
  <1> HIDE DEF s, c
  <1>3. xBegin(s, c, c.y, flags) \in {0, s.x}
    BY DEF xBegin
  <1>4. c.x >= xBegin(s, c, c.y, flags)
    BY <1>2, <1>3
  <1>5. c \in [x : 0 .. c.x, y : s.y .. c.y]
    BY <1>2
  <1> QED BY <1>4, <1>5 DEF Walk, s, c

(***************************************************************************)
(* On a sheet whose lines end in cells the walk meets every cell that does *)
(* not lie before its start: the reset of xBegin needs a cell at the end   *)
(* of each line, and there is one.                                         *)
(***************************************************************************)
LEMMA WalkMeetsAll ==
  ASSUME State, NEW flags, Closed(flags), NEW from, NEW k \in DOMAIN m_pTree,
         Start(flags, from).x <= Corner(flags).x,
         Start(flags, from).y >= Turned(m_Range.tl, flags).y,
         ~ Earlier(Turned(k, flags), Start(flags, from))
  PROVE  Turned(k, flags) \in Met(flags, from)
  <1> DEFINE s == Start(flags, from)
             c == Corner(flags)
             p == Turned(k, flags)
             b == Turned(m_Range.tl, flags)
  <1>1. /\ k \in Point /\ PositionToKey(k) = k
        /\ p.x >= b.x /\ p.y >= b.y /\ p.x <= c.x /\ p.y <= c.y
    BY CellsInRange
  <1>2. s \in Point /\ c \in Point /\ p \in Point /\ b \in Point /\ Turned(p, flags) = k
    BY <1>1, WalkPoints, TurnedPoint DEF State, IInv, TypeOK
  <1>3. /\ s.x \in Nat /\ s.y \in Nat /\ c.x \in Nat /\ c.y \in Nat /\ b.x \in Nat /\ b.y \in Nat
        /\ p.x \in Nat /\ p.y \in Nat /\ p = [x |-> p.x, y |-> p.y]
    BY <1>2 DEF Point
  <1>4. s.x <= c.x /\ s.y >= b.y /\ ~ Earlier(p, s)
    OBVIOUS
  <1>5. p.y >= s.y /\ (p.y = s.y => p.x >= s.x)
    BY <1>3, <1>4 DEF Earlier
  <1>6. p.x >= xBegin(s, c, p.y, flags)
    <2>1. CASE p.y = s.y
      <3>1. xBegin(s, c, p.y, flags) \in {0, s.x}
        BY DEF xBegin
      <3> HIDE DEF s, c, p, b
      <3> QED BY <1>3, <1>5, <2>1, <3>1
    <2>2. CASE p.y # s.y
      <3>1. p.y - 1 \in s.y .. p.y - 1 /\ p.y - 1 \in b.y .. c.y
        BY <1>1, <1>3, <1>4, <1>5, <2>2
      <3>4. IsExistL(Turned([x |-> c.x, y |-> p.y - 1], flags))
        BY <3>1 DEF Closed, LinesEndInCells, Corner
      <3> HIDE DEF s, c, p, b
      <3>5. xBegin(s, c, p.y, flags) = 0
        BY <1>4, <3>1, <3>4 DEF xBegin
      <3> QED BY <1>3, <3>5
    <2> QED BY <2>1, <2>2
  <1>7. p \in [x : 0 .. c.x, y : s.y .. c.y]
    <2> HIDE DEF s, c, p, b
    <2> QED BY <1>1, <1>3, <1>5
  <1>8. IsExistL(Turned(p, flags))
    BY <1>1, <1>2 DEF IsExistL
  <1> QED BY <1>6, <1>7, <1>8 DEF Walk, Met

-----------------------------------------------------------------------------
(***************************************************************************)
(* How far a sweep without edits has come when the next call starts at     *)
(* "start": the answers s lie before it, in order; it lies in the range,   *)
(* and when the lines end in cells all that was asked for before it is in  *)
(* s.                                                                      *)
(***************************************************************************)
Reached(s, start, text, flags) ==
  /\ Rising(s, flags)
  /\ \A r \in Named(s) : Earlier(Turned(r, flags), start)
  /\ DOMAIN m_pTree # {} => start.x <= Corner(flags).x /\ start.y <= Corner(flags).y
  /\ (Closed(flags) /\ DOMAIN m_pTree # {}) => start.y >= Turned(m_Range.tl, flags).y
  /\ Closed(flags) => \A k \in Wanted(m_pTree, text, flags) : Earlier(Turned(k, flags), start) => k \in Named(s)

AllButTheCorner(s, text, flags) ==
  Closed(flags) => Wanted(m_pTree, text, flags) \ Named(s) \subseteq {m_Range.br}

(***************************************************************************)
(* The invariant of a search by rows or by columns.                        *)
(***************************************************************************)
WayInv ==
  /\ (~ fresh \/ m_lSearchFromBegin = "begin") => reported = <<>>
  /\ (Ordered /\ fresh /\ m_lSearchFromBegin = "resume") =>
       Reached(reported, Turned(m_OrderSearchPosition, m_nFindFlags), m_sTextToFind, m_nFindFlags)
  /\ (Ordered /\ fresh /\ m_lSearchFromBegin = "end") =>
       /\ Rising(reported, m_nFindFlags)
       /\ AllButTheCorner(reported, m_sTextToFind, m_nFindFlags)

(***************************************************************************)
(* A call that voids the sweep, or ends it, promises nothing.              *)
(***************************************************************************)
LEMMA VoidWay ==
  ASSUME reported' = <<>>, ~ fresh' \/ m_lSearchFromBegin' = "begin"
  PROVE  WayInv'
  BY DEF WayInv

(***************************************************************************)
(* A sweep that begins has come to the first corner of the range.          *)
(***************************************************************************)
LEMMA ReachedBegin ==
  ASSUME State, NEW text, NEW flags
  PROVE  Reached(<<>>, Start(flags, "begin"), text, flags)
  <1> DEFINE b == Start(flags, "begin")
  <1>1. b = Turned(m_Range.tl, flags) /\ b \in Point
    BY WalkPoints DEF Start
  <1>2. DOMAIN m_pTree # {} => b.x <= Corner(flags).x /\ b.y <= Corner(flags).y
    BY <1>1, RangeOfCells
  <1>3. b.y >= b.y
    BY <1>1 DEF Point
  <1>4. ASSUME Closed(flags), NEW k \in Wanted(m_pTree, text, flags) PROVE ~ Earlier(Turned(k, flags), b)
    <2>1. k \in DOMAIN m_pTree
      BY <1>4 DEF Wanted
    <2>2. k \in Point /\ Turned(k, flags).x >= b.x /\ Turned(k, flags).y >= b.y
      BY <1>1, <1>4, <2>1, CellsInRange
    <2>3. /\ Turned(k, flags).x \in Nat /\ Turned(k, flags).y \in Nat
          /\ b.x \in Nat /\ b.y \in Nat
      BY <1>1, <2>2, TurnedPoint DEF Point
    <2> HIDE DEF b
    <2> QED BY <2>2, <2>3 DEF Earlier
  <1>5. Rising(<<>>, flags) /\ Named(<<>>) = {}
    BY NamedNothing DEF Rising
  <1> QED BY <1>1, <1>2, <1>3, <1>4, <1>5 DEF Reached

(***************************************************************************)
(* The next match p completes what was asked for up to where the call      *)
(* after it begins.                                                        *)
(***************************************************************************)
LEMMA NothingSkipped ==
  ASSUME State, NEW text, text # NoText, NEW flags, Closed(flags), NEW from, NEW s \in Seq(Point),
         Reached(s, Start(flags, from), text, flags),
         NEW p \in Least(Hits(text, flags, from)),
         NEW k \in Wanted(m_pTree, text, flags),
         Earlier(Turned(k, flags), Advanced(p, Corner(flags)))
  PROVE  k \in Named(Append(s, Turned(p, flags)))
  <1> DEFINE q == Turned(k, flags)
  <1>1. /\ p \in Hits(text, flags, from) /\ p \in Walk(flags, from)
        /\ \A r \in Hits(text, flags, from) : r = p \/ Earlier(p, r)
    BY DEF Least, Hits, Met
  <1>2. /\ p \in Point /\ Corner(flags) \in Point /\ Start(flags, from) \in Point
        /\ p.x <= Corner(flags).x /\ p.y <= Corner(flags).y
    BY <1>1, WalkPoints
  <1>3. k \in DOMAIN m_pTree /\ Matches(m_pTree[k], text, flags)
    BY DEF Wanted
  <1>4. k \in Point /\ PositionToKey(k) = k /\ q.x <= Corner(flags).x
    BY <1>3, CellsInRange
  <1>5. q \in Point /\ Turned(q, flags) = k /\ Turned(p, flags) \in Point
    BY <1>2, <1>4, TurnedPoint
  <1>6. q = p \/ Earlier(q, p)
    BY <1>2, <1>4, <1>5, AdvancedPoint
  <1>7. Named(Append(s, Turned(p, flags))) = Named(s) \union {Turned(p, flags)}
    BY <1>5, NamedAppend
  <1>8. CASE q = p
    BY <1>5, <1>7, <1>8
  <1>9. CASE Earlier(q, p)
    <2>1. CASE Earlier(q, Start(flags, from))
      BY <1>7, <2>1 DEF Reached
    <2>2. CASE ~ Earlier(q, Start(flags, from))
      <3>1. /\ Start(flags, from).x <= Corner(flags).x
            /\ Start(flags, from).y >= Turned(m_Range.tl, flags).y
        BY <1>3 DEF Reached
      <3>2. q \in Met(flags, from)
        BY <1>3, <2>2, <3>1, WalkMeetsAll
      <3>3. q \in Hits(text, flags, from)
        BY <1>3, <1>4, <1>5, <3>2 DEF Hits, AtL
      <3>4. q = p \/ Earlier(p, q)
        BY <1>1, <3>3
      <3> QED BY <1>2, <1>5, <1>9, <3>4, EarlierOrder
    <2> QED BY <2>1, <2>2
  <1> QED BY <1>6, <1>8, <1>9

(***************************************************************************)
(* After a match the sweep has come to where the next call begins; if that *)
(* is the corner, the call after it ends the sweep.                        *)
(***************************************************************************)
LEMMA ReachedNext ==
  ASSUME State, NEW text, text # NoText, NEW flags, NEW from, NEW s \in Seq(Point),
         Reached(s, Start(flags, from), text, flags),
         NEW p \in Least(Hits(text, flags, from))
  PROVE  LET t    == Append(s, Turned(p, flags))
             next == Advanced(p, Corner(flags))
         IN  /\ Rising(t, flags)
             /\ next # Corner(flags) => Reached(t, next, text, flags)
             /\ next = Corner(flags) => AllButTheCorner(t, text, flags)
  <1> DEFINE t == Append(s, Turned(p, flags))
             next == Advanced(p, Corner(flags))
             start == Start(flags, from)
  <1>1. p \in Walk(flags, from) /\ IsExistL(Turned(p, flags))
    BY DEF Least, Hits, Met
  <1>2. /\ p \in Point /\ Corner(flags) \in Point /\ start \in Point
        /\ p.x <= Corner(flags).x /\ p.y <= Corner(flags).y /\ p.y >= start.y
        /\ p = start \/ Earlier(start, p)
    BY <1>1, WalkPoints, WalkIsAhead
  <1>3. Turned(p, flags) \in Point /\ Turned(Turned(p, flags), flags) = p
    BY <1>2, TurnedPoint
  <1>4. /\ next \in Point /\ next.x <= Corner(flags).x /\ next.y <= Corner(flags).y
        /\ next.y >= p.y /\ (next # Corner(flags) => Earlier(p, next))
    BY <1>2, AdvancedPoint
  <1>5. Named(t) = Named(s) \union {Turned(p, flags)}
    BY <1>3, NamedAppend
  <1>6. DOMAIN m_pTree # {}
    BY <1>1 DEF IsExistL
  <1>7. \A r \in Named(s) : r \in Point /\ Turned(r, flags) \in Point /\ Earlier(Turned(r, flags), start)
    <2>1. \A r \in Named(s) : r \in Point
      BY ElementOfSeq DEF Named
    <2> QED BY <2>1, TurnedPoint DEF Reached
  <1>8. \A r \in Named(s) : Earlier(Turned(r, flags), p)
    BY <1>2, <1>7, EarlierOrder
  <1>9. Rising(t, flags)
    BY <1>3, <1>8, RisingAppend DEF Reached
  <1>10. Closed(flags) => \A k \in Wanted(m_pTree, text, flags) : Earlier(Turned(k, flags), next) => k \in Named(t)
    BY NothingSkipped
  <1>11. CASE next # Corner(flags)
    <2>1. \A r \in Named(t) : Earlier(Turned(r, flags), next)
      BY <1>2, <1>3, <1>4, <1>5, <1>7, <1>8, <1>11, EarlierOrder
    <2>2. Closed(flags) => next.y >= Turned(m_Range.tl, flags).y
      <3> SUFFICES ASSUME Closed(flags) PROVE next.y >= Turned(m_Range.tl, flags).y
        OBVIOUS
      <3>1. start.y >= Turned(m_Range.tl, flags).y /\ Turned(m_Range.tl, flags) \in Point
        BY <1>6, RangeOfCells DEF Reached
      <3>2. /\ start.y \in Nat /\ p.y \in Nat /\ next.y \in Nat /\ Turned(m_Range.tl, flags).y \in Nat
        BY <1>2, <1>4, <3>1 DEF Point
      <3> HIDE DEF start, next
      <3> QED BY <1>2, <1>4, <3>1, <3>2
    <2>3. Reached(t, next, text, flags)
      <3> HIDE DEF t, next
      <3> QED BY <1>4, <1>9, <1>10, <2>1, <2>2 DEF Reached
    <2> QED BY <1>9, <1>11, <2>3
  <1>12. CASE next = Corner(flags)
    <2>1. ASSUME Closed(flags), NEW k \in Wanted(m_pTree, text, flags), k # m_Range.br PROVE k \in Named(t)
      <3>1. k \in DOMAIN m_pTree
        BY <2>1 DEF Wanted
      <3>2. /\ k \in Point /\ Turned(k, flags).x <= Corner(flags).x
            /\ Turned(k, flags).y <= Corner(flags).y
        BY <2>1, <3>1, CellsInRange
      <3>3. m_Range.br \in Point
        BY DEF State, IInv, TypeOK
      <3>4. Turned(k, flags) # Corner(flags) /\ Turned(k, flags) \in Point
        BY <2>1, <3>2, <3>3, TurnedPoint DEF Corner
      <3>5. /\ Turned(k, flags).x \in Nat /\ Turned(k, flags).y \in Nat
            /\ Corner(flags).x \in Nat /\ Corner(flags).y \in Nat
            /\ Turned(k, flags) = [x |-> Turned(k, flags).x, y |-> Turned(k, flags).y]
            /\ Corner(flags) = [x |-> Corner(flags).x, y |-> Corner(flags).y]
        BY <1>2, <3>4 DEF Point
      <3>6. Earlier(Turned(k, flags), Corner(flags))
        BY <3>2, <3>4, <3>5 DEF Earlier
      <3> QED BY <1>10, <1>12, <2>1, <3>6
    <2>2. AllButTheCorner(t, text, flags)
      <3> HIDE DEF t
      <3> QED BY <2>1 DEF AllButTheCorner
    <2> QED BY <1>9, <1>12, <2>2
  <1> QED BY <1>11, <1>12

-----------------------------------------------------------------------------
(***************************************************************************)
(* What a sweep that goes on, or begins, has come to.                      *)
(***************************************************************************)
LEMMA SoFar ==
  ASSUME State, WayInv, NEW from \in {"begin", "resume"}, NEW text, NEW flags, Clean(from),
         from = "resume" => /\ m_lSearchFromBegin = "resume" /\ Ordered
                            /\ text = m_sTextToFind /\ flags = m_nFindFlags
  PROVE  Before(from) \in Seq(Point) /\ Reached(Before(from), Start(flags, from), text, flags)
  <1>1. CASE from = "begin"
    BY <1>1, ReachedBegin, NamedNothing DEF Before
  <1>2. CASE from = "resume"
    BY <1>2 DEF Before, Clean, WayInv, Start, State, SheetTypeOK
  <1> QED BY <1>1, <1>2

(***************************************************************************)
(* A search leaves the cells alone, and with them what it has reached.     *)
(***************************************************************************)
LEMMA SameCells ==
  ASSUME UNCHANGED cellVars
  PROVE  /\ Reached(reported, Turned(m_OrderSearchPosition, m_nFindFlags), m_sTextToFind, m_nFindFlags)'
              = Reached(reported', Turned(m_OrderSearchPosition', m_nFindFlags'), m_sTextToFind', m_nFindFlags')
         /\ AllButTheCorner(reported, m_sTextToFind, m_nFindFlags)'
              = AllButTheCorner(reported', m_sTextToFind', m_nFindFlags')
         /\ Rising(reported, m_nFindFlags)' = Rising(reported', m_nFindFlags')
  <1>1. m_pTree' = m_pTree /\ m_Range' = m_Range
    BY DEF cellVars
  <1>2. /\ Closed(m_nFindFlags)' = Closed(m_nFindFlags')
        /\ Wanted(m_pTree, m_sTextToFind, m_nFindFlags)' = Wanted(m_pTree, m_sTextToFind', m_nFindFlags')
        /\ Named(reported)' = Named(reported')
        /\ Rising(reported, m_nFindFlags)' = Rising(reported', m_nFindFlags')
        /\ Corner(m_nFindFlags)' = Corner(m_nFindFlags')
        /\ Turned(m_Range.tl, m_nFindFlags)' = Turned(m_Range.tl, m_nFindFlags')
    BY <1>1 DEF Closed, LinesEndInCells, IsExistL, Wanted, Named, Rising, Corner
  <1> QED BY <1>1, <1>2 DEF Reached, AllButTheCorner

(***************************************************************************)
(* A match takes the sweep on.                                             *)
(***************************************************************************)
LEMMA FoundWay ==
  ASSUME State, WayInv, UNCHANGED cellVars, m_sTextToFind' # NoText,
         NEW from \in {"begin", "resume"},
         from = "resume" => m_lSearchFromBegin = "resume" /\ UNCHANGED request,
         "Fast" \notin m_nFindFlags',
         NEW p, OrderedFinds(p, m_sTextToFind', m_nFindFlags', from)
  PROVE  WayInv'
  <1> DEFINE t == Append(Before(from), Turned(p, m_nFindFlags'))
             next == Advanced(p, Corner(m_nFindFlags'))
  <1>1. CASE ~ Clean(from)
    <2>1. reported' = <<>> /\ ~ fresh'
      BY <1>1 DEF OrderedFinds, Found
    <2> QED BY <2>1, VoidWay
  <1>2. CASE Clean(from)
    <2>1. /\ from = "resume" => /\ m_lSearchFromBegin = "resume" /\ Ordered
                                /\ m_sTextToFind' = m_sTextToFind /\ m_nFindFlags' = m_nFindFlags
      BY DEF request, Ordered
    <2>2. /\ Before(from) \in Seq(Point)
          /\ Reached(Before(from), Start(m_nFindFlags', from), m_sTextToFind', m_nFindFlags')
      BY <1>2, <2>1, SoFar
    <2>3. p \in Least(Hits(m_sTextToFind', m_nFindFlags', from)) /\ p \in Walk(m_nFindFlags', from)
      BY DEF OrderedFinds, Least, Hits, Met
    <2>4. /\ next # Corner(m_nFindFlags') => Reached(t, next, m_sTextToFind', m_nFindFlags')
          /\ next = Corner(m_nFindFlags') => AllButTheCorner(t, m_sTextToFind', m_nFindFlags')
          /\ Rising(t, m_nFindFlags')
      BY <2>2, <2>3, ReachedNext
    <2>5. /\ reported' = t /\ fresh' = TRUE
          /\ m_OrderSearchPosition' = Turned(next, m_nFindFlags')
          /\ m_lSearchFromBegin' = IF next = Corner(m_nFindFlags') THEN "end" ELSE "resume"
      BY <1>2 DEF OrderedFinds, Found
    <2>6. next \in Point
      BY <2>3, WalkPoints, AdvancedPoint
    <2> HIDE DEF next, t
    <2>7. Turned(m_OrderSearchPosition', m_nFindFlags') = next
      BY <2>5, <2>6, TurnedPoint
    <2> QED BY <2>4, <2>5, <2>7, SameCells DEF WayInv
  <1> QED BY <1>1, <1>2

(***************************************************************************)
(* No match: the walk has come to the corner and the sweep ends, unless    *)
(* there are no cells.                                                     *)
(***************************************************************************)
LEMMA EndsWay ==
  ASSUME State, WayInv, UNCHANGED cellVars,
         NEW from \in {"begin", "resume"},
         from = "resume" => m_lSearchFromBegin = "resume" /\ UNCHANGED request,
         "Fast" \notin m_nFindFlags', m_sTextToFind' # NoText,
         OrderedEnds(m_sTextToFind', m_nFindFlags', from)
  PROVE  WayInv'
  <1> DEFINE f == m_nFindFlags'
             last == Last(f, from)
  <1>1. NotFound(from, IF last = Corner(f) THEN "begin" ELSE "resume")
    BY DEF OrderedEnds
  <1>2. CASE last = Corner(f)
    <2>1. reported' = <<>> /\ m_lSearchFromBegin' = "begin"
      BY <1>1, <1>2 DEF NotFound
    <2> QED BY <2>1, VoidWay
  <1>3. CASE last # Corner(f)
    <2>0. NotFound(from, "resume")
      BY <1>1, <1>3
    <2>1. /\ m_lSearchFromBegin' = "resume" /\ reported' = Before(from)
          /\ fresh' = ("resume" = "begin" \/ Clean(from))
      BY <2>0 DEF NotFound
    <2>2. CASE ~ Clean(from)
      <3>1. reported' = <<>> /\ ~ fresh'
        BY <2>1, <2>2 DEF Clean, Before, WayInv
      <3> QED BY <3>1, VoidWay
    <2>3. CASE Clean(from)
      <3>1. from = "resume" => /\ m_lSearchFromBegin = "resume" /\ Ordered
                               /\ m_sTextToFind' = m_sTextToFind /\ m_nFindFlags' = m_nFindFlags
        BY DEF request, Ordered
      <3>2. /\ Before(from) \in Seq(Point)
            /\ Reached(Before(from), Start(f, from), m_sTextToFind', f)
        BY <2>3, <3>1, SoFar
      <3>3. Walk(f, from) = {}
        BY <1>3 DEF Last
      <3>4. DOMAIN m_pTree = {}
        <4> SUFFICES ASSUME DOMAIN m_pTree # {} PROVE FALSE
          OBVIOUS
        <4>1. Start(f, from).x <= Corner(f).x /\ Start(f, from).y <= Corner(f).y
          BY <3>2 DEF Reached
        <4> HIDE DEF f
        <4> QED BY <3>3, <4>1, WalkReachesTheCorner
      <3>5. Wanted(m_pTree, m_sTextToFind', f) = {}
        BY <3>4 DEF Wanted
      <3>6. Turned(m_OrderSearchPosition', f) = last
        BY WalkPoints, TurnedPoint DEF OrderedEnds
      <3>7. \A r \in Named(Before(from)) : Earlier(Turned(r, f), last)
        <4>1. CASE from = "begin"
          BY <4>1, NamedNothing DEF Before
        <4>2. CASE from = "resume"
          <5>1. last = Start(f, from)
            BY <3>3, <4>2 DEF Last, Start
          <5> QED BY <3>2, <5>1 DEF Reached
        <4> QED BY <4>1, <4>2
      <3>8. Reached(reported', last, m_sTextToFind', f)
        <4> HIDE DEF f, last
        <4> QED BY <2>1, <3>2, <3>4, <3>5, <3>7 DEF Reached
      <3>9. fresh' = TRUE
        BY <2>1, <2>3
      <3> HIDE DEF f, last
      <3>10. Reached(reported', Turned(m_OrderSearchPosition', m_nFindFlags'), m_sTextToFind', m_nFindFlags')
        BY <3>6, <3>8 DEF f
      <3> QED BY <2>1, <3>9, <3>10, SameCells DEF WayInv
    <2> QED BY <2>2, <2>3
  <1> QED BY <1>2, <1>3

(***************************************************************************)
(* FindNextL, and FindFirstL on a sheet with cells, for the stored request.*)
(***************************************************************************)
LEMMA FindWay ==
  ASSUME State, WayInv, UNCHANGED cellVars,
         NEW from, from = "begin" \/ (from = m_lSearchFromBegin /\ UNCHANGED request),
         Find(m_sTextToFind', m_nFindFlags', from)
  PROVE  WayInv'
  <1>1. from \in {"begin", "resume", "end"}
    BY DEF State, SheetTypeOK
  <1>2. CASE Leaves(Failed) \/ Leaves(Unreached)
    BY <1>2, VoidWay DEF Leaves
  <1>3. CASE AtEnd
    BY <1>3, VoidWay DEF AtEnd, NotFound
  <1>4. CASE /\ "Fast" \in m_nFindFlags' /\ from # "end"
             /\ FindFast(m_sTextToFind', m_nFindFlags', from)
    <2>1. \/ Leaves(Failed)
          \/ Found(from, m_Pos') /\ m_lSearchFromBegin' # "begin"
          \/ NotFound(from, "begin")
      BY <1>4 DEF FindFast
    <2>2. (~ fresh' \/ m_lSearchFromBegin' = "begin") => reported' = <<>>
      BY <2>1 DEF Leaves, Found, NotFound
    <2> QED BY <1>4, <2>2 DEF WayInv, Ordered
  <1>5. CASE /\ m_sTextToFind' # NoText /\ "Fast" \notin m_nFindFlags' /\ from # "end"
             /\ FindOrdered(m_sTextToFind', m_nFindFlags', from)
    <2>1. from \in {"begin", "resume"} /\ (from = "resume" => m_lSearchFromBegin = "resume" /\ UNCHANGED request)
      BY <1>1, <1>5
    <2>2. CASE OrderedLeaves(m_nFindFlags', from)
      BY <2>2, VoidWay DEF OrderedLeaves, Leaves
    <2>3. ASSUME NEW p, OrderedFinds(p, m_sTextToFind', m_nFindFlags', from) PROVE WayInv'
      BY <1>5, <2>1, <2>3, FoundWay
    <2>4. CASE OrderedEnds(m_sTextToFind', m_nFindFlags', from)
      BY <1>5, <2>1, <2>4, EndsWay
    <2> QED BY <1>5, <2>2, <2>3, <2>4, OrderedCases
  <1> QED BY <1>1, <1>2, <1>3, <1>4, <1>5 DEF Find

(***************************************************************************)
(* FindFirstL: an empty sheet is answered without a search.                *)
(***************************************************************************)
LEMMA BeginWay ==
  ASSUME State, WayInv, Begin(m_sTextToFind', m_nFindFlags')
  PROVE  WayInv'
  <1>1. CASE m_nCount = 0
    <2>1. /\ reported' = <<>> /\ fresh' = (m_lSearchFromBegin = "begin")
          /\ m_lSearchFromBegin' = m_lSearchFromBegin
      BY <1>1 DEF Begin, place
    <2> QED BY <2>1, VoidWay
  <1>2. CASE m_nCount # 0
    BY <1>2, FindWay DEF Begin
  <1> QED BY <1>1, <1>2

(***************************************************************************)
(* A sheet begins without a sweep.                                         *)
(***************************************************************************)
LEMMA WayInit == SheetInit => WayInv
  BY DEF SheetInit, WayInv

(***************************************************************************)
(* Whatever is called keeps the invariant of the search by rows or by      *)
(* columns: an edit voids the sweep, and so does a call that leaves.       *)
(***************************************************************************)
LEMMA WayStep ==
  ASSUME State, WayInv, [SheetNext]_sheetVars
  PROVE  WayInv'
  <1>1. CASE Editing
    <2>1. Edited
      BY <1>1, EditCells DEF State
    <2>2. /\ reported' = <<>> /\ fresh' = (m_lSearchFromBegin = "begin")
          /\ m_lSearchFromBegin' = m_lSearchFromBegin
      BY <2>1 DEF Edited
    <2> QED BY <2>2, VoidWay
  <1>2. ASSUME NEW t \in Text, NEW flags \in FlagSets, FindFirstL(t, flags) PROVE WayInv'
    <2>1. CASE Contradictory(flags)
      BY <1>2, <2>1, VoidWay DEF FindFirstL, Leaves
    <2>2. CASE ~ Contradictory(flags)
      <3>1. m_nFindFlags' = flags /\ m_sTextToFind' = Folded(t, flags) /\ Begin(Folded(t, flags), flags)
        BY <1>2, <2>2 DEF FindFirstL
      <3>2. Begin(m_sTextToFind', m_nFindFlags')
        BY <3>1
      <3> QED BY <3>2, BeginWay
    <2> QED BY <2>1, <2>2
  <1>3. CASE FindFirstAgainL
    <2>1. /\ m_sTextToFind' = m_sTextToFind /\ m_nFindFlags' = m_nFindFlags
          /\ Begin(m_sTextToFind, m_nFindFlags)
      BY <1>3 DEF FindFirstAgainL, request
    <2>2. Begin(m_sTextToFind', m_nFindFlags')
      BY <2>1
    <2> QED BY <2>2, BeginWay
  <1>4. CASE FindNextL
    <2>1. /\ UNCHANGED request /\ m_sTextToFind' = m_sTextToFind /\ m_nFindFlags' = m_nFindFlags
          /\ Find(m_sTextToFind, m_nFindFlags, m_lSearchFromBegin) /\ UNCHANGED cellVars
      BY <1>4 DEF FindNextL, request
    <2>2. Find(m_sTextToFind', m_nFindFlags', m_lSearchFromBegin)
      BY <2>1
    <2> QED BY <2>1, <2>2, FindWay
  <1>5. CASE UNCHANGED sheetVars
    <2>1. /\ UNCHANGED cellVars /\ UNCHANGED <<m_sTextToFind, m_nFindFlags>>
          /\ UNCHANGED <<m_lSearchFromBegin, m_OrderSearchPosition, reported, fresh>>
      BY <1>5 DEF sheetVars, request, place, history
    <2> QED BY <2>1, SameCells DEF WayInv, Ordered
  <1> QED BY <1>1, <1>2, <1>3, <1>4, <1>5 DEF SheetNext, Searching

(***************************************************************************)
(* Within a sweep by rows or by columns each answer of FindNextL lies      *)
(* behind the previous one in the order asked for, and the place where the *)
(* next call begins stays in m_Range: no cell is named twice and the sweep *)
(* is never stranded behind the last line, whatever edits and searches     *)
(* went before.                                                            *)
(***************************************************************************)
THEOREM WayCorrect == SheetSpec => []SearchMovesOn
  <1>1. State /\ WayInv => SearchMovesOn
    <2> SUFFICES ASSUME State, WayInv PROVE SearchMovesOn
      OBVIOUS
    <2>1. /\ SheetTypeOK /\ m_lSearchFromBegin \in {"begin", "resume", "end"}
          /\ m_Range.br \in Point /\ m_OrderSearchPosition \in Point
      BY DEF State, SheetTypeOK, TypeOK
    <2>2. Rising(<<>>, m_nFindFlags)
      BY DEF Rising
    <2>3. Ordered => Rising(reported, m_nFindFlags)
      BY <2>1, <2>2 DEF WayInv, Reached
    <2>4. NeverStranded
      <3> SUFFICES ASSUME fresh, Ordered, m_nCount > 0, m_lSearchFromBegin = "resume"
                   PROVE  /\ m_OrderSearchPosition.x <= m_Range.br.x
                          /\ m_OrderSearchPosition.y <= m_Range.br.y
        BY DEF NeverStranded
      <3>1. DOMAIN m_pTree # {}
        BY FS_EmptySet DEF State, IInv, CountExact
      <3>2. Reached(reported, Turned(m_OrderSearchPosition, m_nFindFlags), m_sTextToFind, m_nFindFlags)
        BY DEF WayInv
      <3>3. /\ Turned(m_OrderSearchPosition, m_nFindFlags).x <= Corner(m_nFindFlags).x
            /\ Turned(m_OrderSearchPosition, m_nFindFlags).y <= Corner(m_nFindFlags).y
        BY <3>1, <3>2 DEF Reached
      <3> QED BY <3>3 DEF Turned, Corner
    <2> QED BY <2>1, <2>3, <2>4 DEF SearchMovesOn, MovesOn, Rising
  <1> QED BY <1>1, StateInit, StateStep, WayInit, WayStep, PTL DEF SheetSpec

(***************************************************************************)
(* The end of a sweep over a sheet whose lines end in cells:               *)
(* when FindNextL says that there is no other match, every cell that       *)
(* matches was named, but for the last one.                                *)
(***************************************************************************)
LEMMA CornerStep ==
  ASSUME State, WayInv, Ordered, fresh, answer' = None, Closed(m_nFindFlags), FindNextL
  PROVE  Asked \ Named(Before(m_lSearchFromBegin)) \subseteq {m_Range.br}
  <1> DEFINE from == m_lSearchFromBegin
             f == m_nFindFlags
  <1>1. /\ from \in {"begin", "resume", "end"} /\ m_sTextToFind # NoText /\ "Fast" \notin f
        /\ Find(m_sTextToFind, f, from)
    BY DEF State, SheetTypeOK, Ordered, FindNextL
  <1>2. ~ Leaves(Failed) /\ ~ Leaves(Unreached)
    BY AnswerAssumption DEF Leaves
  <1>3. \/ from = "end"
        \/ from # "end" /\ FindOrdered(m_sTextToFind, f, from)
    BY <1>1, <1>2 DEF Find
  <1>4. CASE from = "end"
    BY <1>4 DEF WayInv, AllButTheCorner, Before, Asked
  <1>5. CASE from # "end" /\ FindOrdered(m_sTextToFind, f, from)
    <2>1. from \in {"begin", "resume"} /\ Clean(from)
      BY <1>1, <1>5 DEF Clean
    <2>2. Reached(Before(from), Start(f, from), m_sTextToFind, f)
      BY <2>1, SoFar
    <2>3. ASSUME NEW p, OrderedFinds(p, m_sTextToFind, f, from) PROVE FALSE
      <3>1. p \in Walk(f, from) /\ answer' = Turned(p, f)
        BY <2>3 DEF OrderedFinds, Found, Least, Hits, Met
      <3>2. Turned(p, f) \in Point
        BY <3>1, WalkPoints, TurnedPoint
      <3> QED BY <3>1, <3>2, AnswerAssumption DEF Point
    <2>4. Hits(m_sTextToFind, f, from) = {}
      BY <1>2, <1>5, <2>3, OrderedCases DEF OrderedLeaves, OrderedEnds
    <2>5. ASSUME NEW k \in Asked, k \notin Named(Before(from)) PROVE FALSE
      <3>1. k \in DOMAIN m_pTree /\ Matches(m_pTree[k], m_sTextToFind, f)
        BY DEF Asked, Wanted
      <3>2. k \in Point /\ PositionToKey(k) = k /\ Turned(Turned(k, f), f) = k
        BY <3>1, CellsInRange, TurnedPoint
      <3>3. /\ Start(f, from).x <= Corner(f).x
            /\ Start(f, from).y >= Turned(m_Range.tl, f).y
            /\ ~ Earlier(Turned(k, f), Start(f, from))
        BY <2>2, <2>5, <3>1 DEF Reached, Asked
      <3>4. Turned(k, f) \in Met(f, from)
        BY <3>1, <3>3, WalkMeetsAll
      <3>5. Turned(k, f) \in Hits(m_sTextToFind, f, from)
        BY <3>1, <3>2, <3>4 DEF Hits, AtL
      <3> QED BY <2>4, <3>5
    <2> QED BY <2>5
  <1> QED BY <1>3, <1>4, <1>5

(***************************************************************************)
(* On a sheet whose lines end in cells, whatever holes it has besides, a   *)
(* search by rows or by columns, in whatever number of calls, misses       *)
(* nothing but at most the corner of m_Range.                              *)
(***************************************************************************)
THEOREM CornerCorrect == SheetSpec => OnlyTheCornerIsMissed
  <1>1. State /\ WayInv /\ [SheetNext]_sheetVars =>
          [(Ordered /\ fresh /\ answer' = None /\ Closed(m_nFindFlags) /\ FindNextL)
             => Wanted(m_pTree, m_sTextToFind, m_nFindFlags) \ Named(Before(m_lSearchFromBegin))
                  \subseteq {m_Range.br}]_sheetVars
    BY CornerStep DEF Asked
  <1> QED BY <1>1, StateInit, StateStep, WayInit, WayStep, PTL DEF SheetSpec, OnlyTheCornerIsMissed
=============================================================================
