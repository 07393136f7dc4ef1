------------------------------ MODULE CellMap ------------------------------
(***************************************************************************)
(* CCellMapArray (sheetcontrol/src/cell_array.cpp): the container that     *)
(* owns the cells of a sheet.  A B-tree maps a 32-bit key, packed from the *)
(* low 16 bits of the two coordinates, to a cell; beside the tree the      *)
(* object keeps the bounding rectangle of what was inserted, the number of *)
(* cells and one iterator shared by all readers.                           *)
(***************************************************************************)
EXTENDS Integers, FiniteSets

CONSTANTS
  Position,   \* the positions a caller may use: records [x, y] of naturals
  Cell,       \* the contents of a cell
  KeyMod,     \* a coordinate is kept modulo KeyMod in the key (2^16)
  Far,        \* the "no cell yet" coordinate of m_Range.iTl (1000000)
  Stale       \* an m_Pos no entry of the present tree stands behind

ASSUME PositionAssumption == Position \subseteq [x : Nat, y : Nat]
ASSUME KeyModAssumption   == KeyMod \in Nat \ {0}
ASSUME FarAssumption      == Far \in Nat /\ \A p \in Position : p.x < Far /\ p.y < Far

Keys == [x : 0 .. KeyMod - 1, y : 0 .. KeyMod - 1]

ASSUME StaleAssumption    == Stale \notin Keys

VARIABLES
  m_pTree,    \* the B-tree: a function from the keys present to cells
  m_Range,    \* [tl, br]: least and greatest coordinates inserted
  m_nCount,   \* the number of cells
  m_Pos,      \* the shared iterator: a key, or Stale
  owner,      \* history: the position each entry was inserted at
  stored,     \* history: what callers put in the sheet, by position
  disturbed   \* history: those positions another one with their key touched

asPut == <<stored, disturbed>>
vars == <<m_pTree, m_Range, m_nCount, m_Pos, owner, asPut>>

\* Mutant: the row is masked with one bit too few.
NarrowKey(p) == [x |-> p.x % KeyMod, y |-> p.y % (KeyMod \div 2)]

PositionToKey(p) == [x |-> p.x % KeyMod, y |-> p.y % KeyMod]

\* CPointKey::Compare on the packed key: by column, then by row.
KeyLess(a, b) == a.x < b.x \/ (a.x = b.x /\ a.y < b.y)

\* The least key of S: a singleton, or nothing when S is empty.
FirstOf(S) == {k \in S : \A l \in S : l = k \/ KeyLess(k, l)}

Lower(a, b)  == IF b < a THEN b ELSE a
Higher(a, b) == IF b > a THEN b ELSE a

NoRange == [tl |-> [x |-> Far, y |-> Far], br |-> [x |-> 0, y |-> 0]]

\* Mutant: the top-left corner does not follow an insertion.
GrownToBottomRight(r, p) ==
  [tl |-> IF r = NoRange THEN p ELSE r.tl,
   br |-> [x |-> Higher(r.br.x, p.x), y |-> Higher(r.br.y, p.y)]]

Grown(r, p) ==
  [tl |-> [x |-> Lower(r.tl.x, p.x),  y |-> Lower(r.tl.y, p.y)],
   br |-> [x |-> Higher(r.br.x, p.x), y |-> Higher(r.br.y, p.y)]]

IsExistL(p) == PositionToKey(p) \in DOMAIN m_pTree
AtL(p)      == m_pTree[PositionToKey(p)]

Init ==
  /\ m_pTree  = [k \in {} |-> k]
  /\ m_Range  = NoRange
  /\ m_nCount = 0
  /\ m_Pos    = Stale
  /\ owner    = [k \in {} |-> k]
  /\ stored   = [p \in {} |-> p]
  /\ disturbed = {}

Put(f, k, v) == [l \in DOMAIN f \union {k} |-> IF l = k THEN v ELSE f[l]]
Drop(f, k)   == [l \in DOMAIN f \ {k} |-> f[l]]

(***************************************************************************)
(* The sheet as its callers see it, one cell for each position: kept       *)
(* beside the code and without a key.  The cells whose rows and columns    *)
(* are a multiple of KeyMod apart stand in each other's way; which of them *)
(* have met is noted.                                                      *)
(***************************************************************************)
Apart(a, b)     == (a - b) % KeyMod = 0
Congruent(p, q) == Apart(p.x, q.x) /\ Apart(p.y, q.y)

Rivals(p) == {q \in DOMAIN stored \ {p} : Congruent(p, q)}

PutThere(p, c) ==
  IF p \in DOMAIN stored THEN UNCHANGED asPut
  ELSE /\ stored' = Put(stored, p, c)
       /\ disturbed' = IF Rivals(p) = {} THEN disturbed ELSE disturbed \union {p}

WrittenThere(p, c) ==
  /\ stored' = IF p \in DOMAIN stored THEN Put(stored, p, c) ELSE stored
  /\ disturbed' = disturbed \union Rivals(p)

TakenOutThere(p) ==
  /\ stored' = Drop(stored, p)
  /\ disturbed' = (disturbed \union Rivals(p)) \ {p}

(***************************************************************************)
(* InsertL copies the cell; when the key is taken the copy is discarded    *)
(* and nothing changes.  The B-tree moves entries between its pages, so an *)
(* insertion or a deletion leaves m_Pos without meaning.                   *)
(***************************************************************************)
InsertL(p, c) ==
  /\ PutThere(p, c)
  /\ \/ IsExistL(p) /\ UNCHANGED <<m_pTree, m_Range, m_nCount, m_Pos, owner>>
     \/ /\ ~ IsExistL(p)
        /\ m_pTree'  = Put(m_pTree, PositionToKey(p), c)
        /\ owner'    = Put(owner, PositionToKey(p), p)
        /\ m_Range'  = Grown(m_Range, p)
        /\ m_nCount' = m_nCount + 1
        /\ m_Pos'    = Stale

\* A caller writes through the pointer that AtL returns.
Modify(p, c) ==
  /\ IsExistL(p)
  /\ m_pTree' = [m_pTree EXCEPT ![PositionToKey(p)] = c]
  /\ WrittenThere(p, c)
  /\ UNCHANGED <<m_Range, m_nCount, m_Pos, owner>>

\* DeleteL frees one cell.  m_Range keeps the extent it had.
DeleteL(p) ==
  /\ TakenOutThere(p)
  /\ \/ ~ IsExistL(p) /\ UNCHANGED <<m_pTree, m_Range, m_nCount, m_Pos, owner>>
     \/ /\ IsExistL(p)
        /\ m_pTree'  = Drop(m_pTree, PositionToKey(p))
        /\ owner'    = Drop(owner, PositionToKey(p))
        /\ m_nCount' = m_nCount - 1
        /\ m_Pos'    = Stale
        /\ UNCHANGED m_Range

RemoveAllL ==
  /\ m_pTree'  = [k \in {} |-> k]
  /\ m_Range'  = NoRange
  /\ m_nCount' = 0
  /\ m_Pos'    = Stale
  /\ owner'    = [k \in {} |-> k]
  /\ stored'   = [p \in {} |-> p]
  /\ disturbed' = {}

(***************************************************************************)
(* The entries TBtree::NextL may move to: the next key in order, or, from  *)
(* an iterator that the tree has outlived, any entry at all.               *)
(***************************************************************************)
After(k) == {l \in DOMAIN m_pTree : KeyLess(k, l)}

NextKeys == IF m_Pos = Stale THEN DOMAIN m_pTree ELSE FirstOf(After(m_Pos))

GetFirstL ==
  /\ IF DOMAIN m_pTree = {} THEN UNCHANGED m_Pos ELSE m_Pos' \in FirstOf(DOMAIN m_pTree)
  /\ UNCHANGED <<m_pTree, m_Range, m_nCount, owner, asPut>>

GetNextL ==
  /\ \/ m_Pos' \in NextKeys
     \/ (m_Pos = Stale \/ NextKeys = {}) /\ UNCHANGED m_Pos
  /\ UNCHANGED <<m_pTree, m_Range, m_nCount, owner, asPut>>

Next ==
  \/ \E p \in Position, c \in Cell : InsertL(p, c)
  \/ \E p \in Position, c \in Cell : Modify(p, c)
  \/ \E p \in Position : DeleteL(p)
  \/ RemoveAllL
  \/ GetFirstL
  \/ GetNextL

Spec == Init /\ [][Next]_vars

-----------------------------------------------------------------------------
Point == [x : Nat, y : Nat]

(***************************************************************************)
(* Types of the state.                                                     *)
(***************************************************************************)
TypeOK ==
  /\ DOMAIN m_pTree \subseteq Keys
  /\ \A k \in DOMAIN m_pTree : m_pTree[k] \in Cell
  /\ DOMAIN owner = DOMAIN m_pTree
  /\ \A k \in DOMAIN owner : owner[k] \in Position /\ PositionToKey(owner[k]) = k
  /\ m_Range \in [tl : Point, br : Point]
  /\ m_nCount \in Nat
  /\ m_Pos \in Keys \union {Stale}

(***************************************************************************)
(* m_nCount is the number of entries of the tree, whatever sequence of     *)
(* insertions (of fresh and of taken keys), deletions and clears led here: *)
(* FindFirstL decides from Count() alone that there is nothing to search,  *)
(* and DeleteL asserts m_nCount >= 0.                                      *)
(***************************************************************************)
CountExact == m_nCount = Cardinality(DOMAIN m_pTree)

(***************************************************************************)
(* Every cell present was inserted inside m_Range.  The ordered searches   *)
(* walk m_Range and nothing else: a cell outside it is never found.        *)
(***************************************************************************)
Inside(r, p) == p.x \in r.tl.x .. r.br.x /\ p.y \in r.tl.y .. r.br.y

RangeCovers == \A k \in DOMAIN owner : Inside(m_Range, owner[k])

(***************************************************************************)
(* The tree, its counter and its rectangle agree.                          *)
(***************************************************************************)
Consistent == TypeOK /\ CountExact /\ RangeCovers

(***************************************************************************)
(* What was put at a position is found there as it was last written, until *)
(* it is taken out, and however often other rows and columns wrap around   *)
(* in the key (a row beyond 16 bits, cell_array.h:97); only a position     *)
(* whose row and column are both a multiple of KeyMod away can disturb it. *)
(* What is found at a position was put there, or that far away.            *)
(***************************************************************************)
CellsAsPut ==
  /\ \A p \in DOMAIN stored \ disturbed : IsExistL(p) /\ AtL(p) = stored[p]
  /\ \A p \in Position : IsExistL(p) => p \in DOMAIN stored \/ Rivals(p) # {}
============================================================================
