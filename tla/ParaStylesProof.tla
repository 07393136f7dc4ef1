--------------------------- MODULE ParaStylesProof ---------------------------
(***************************************************************************)
(* Proofs about ParaStyles and, in the last part, about Lists.             *)
(* The arrays of CPara stay parallel whatever is                           *)
(* declared.  While no name is used again for another style, more holds:   *)
(* the names are told apart, those of paragraph styles come first, and the *)
(* style in use is the paragraph's or lies behind all paragraph styles.    *)
(* This is what keeps every index in range and every format at its style.  *)
(***************************************************************************)
EXTENDS Lists, TLAPS, SequenceTheorems, WellFoundedInduction

\* CPara as a record, as the handlers pass it on.
CPara == [name : Seq(StyleNames), char : Seq(Formats), par : Seq(ParaFormats),
          pos : Nat, global : Nat, last : Nat, panic : BOOLEAN]

\* The arrays are parallel and the positions inside them.
Aligned(c) ==
  /\ Len(c.name) = c.last /\ Len(c.char) = c.last /\ Len(c.par) <= c.last
  /\ c.pos <= c.last /\ c.global <= c.last
  /\ c.global = 0 <=> Len(c.par) = 0

\* The style in use is the paragraph style or a text style.
InUse(c) == ~ c.panic /\ c.global <= Len(c.par) /\ (c.pos = c.global \/ c.pos > Len(c.par))

-----------------------------------------------------------------------------
(***************************************************************************)
(* Inserting into an array.                                                *)
(***************************************************************************)
LEMMA Joined ==
  ASSUME NEW S, NEW a \in Seq(S), NEW b \in Seq(S)
  PROVE  /\ a \o b \in Seq(S)
         /\ Len(a \o b) = Len(a) + Len(b)
         /\ \A k \in 1 .. Len(a) + Len(b) :
              (a \o b)[k] = IF k <= Len(a) THEN a[k] ELSE b[k - Len(a)]
BY ConcatProperties, Zenon

\* t is s with e inserted at n.
IsInserted(t, s, n, e) ==
  /\ Len(t) = Len(s) + 1 /\ DOMAIN t = 1 .. Len(s) + 1
  /\ t[n] = e
  /\ \A k \in 1 .. n - 1 : t[k] = s[k]
  /\ \A k \in n + 1 .. Len(s) + 1 : t[k] = s[k - 1]

(***************************************************************************)
(* InsertAt leaves what is before the place and moves what is behind it.   *)
(***************************************************************************)
LEMMA Inserted ==
  ASSUME NEW S, NEW s \in Seq(S), NEW n \in 1 .. Len(s) + 1, NEW e \in S
  PROVE  InsertAt(s, n, e) \in Seq(S) /\ IsInserted(InsertAt(s, n, e), s, n, e)
<1> DEFINE a == SubSeq(s, 1, n - 1)  b == SubSeq(s, n, Len(s))
<1>1. a \in Seq(S) /\ Len(a) = n - 1 /\ \A k \in 1 .. n - 1 : a[k] = s[k]
  OBVIOUS
<1>2. /\ b \in Seq(S) /\ Len(b) = Len(s) - n + 1
      /\ \A k \in 1 .. Len(s) - n + 1 : b[k] = s[n + k - 1]
  OBVIOUS
<1>3. InsertAt(s, n, e) = (a \o <<e>>) \o b
  BY DEF InsertAt
<1> HIDE DEF a, b
<1> DEFINE u == <<e>>  c == a \o u  d == c \o b
<1>4. u \in Seq(S) /\ Len(u) = 1 /\ u[1] = e
  OBVIOUS
<1> HIDE DEF u
<1>5. /\ c \in Seq(S) /\ Len(c) = n
      /\ \A k \in 1 .. n : c[k] = IF k <= n - 1 THEN a[k] ELSE u[k - (n - 1)]
  <2>1. /\ c \in Seq(S) /\ Len(c) = Len(a) + Len(u)
        /\ \A k \in 1 .. Len(a) + Len(u) : c[k] = IF k <= Len(a) THEN a[k] ELSE u[k - Len(a)]
    BY <1>1, <1>4, Joined, Zenon
  <2> HIDE DEF c
  <2> QED
    BY <2>1, <1>1, <1>4
<1> HIDE DEF c
<1>6. /\ d \in Seq(S) /\ Len(d) = Len(s) + 1
      /\ \A k \in 1 .. Len(s) + 1 : d[k] = IF k <= n THEN c[k] ELSE b[k - n]
  <2>1. /\ d \in Seq(S) /\ Len(d) = Len(c) + Len(b)
        /\ \A k \in 1 .. Len(c) + Len(b) : d[k] = IF k <= Len(c) THEN c[k] ELSE b[k - Len(c)]
    BY <1>2, <1>5, Joined, Zenon
  <2> HIDE DEF d
  <2> QED
    BY <2>1, <1>2, <1>5
<1> HIDE DEF d
<1>7. d[n] = e
  <2>1. n <= n /\ n \in 1 .. n /\ n \in 1 .. Len(s) + 1 /\ ~ (n <= n - 1) /\ n - (n - 1) = 1
    OBVIOUS
  <2> QED
    BY <2>1, <1>4, <1>5, <1>6
<1>8. ASSUME NEW k \in 1 .. n - 1
      PROVE  d[k] = s[k]
  <2>1. k <= n - 1 /\ k <= n /\ k \in 1 .. n /\ k \in 1 .. Len(s) + 1
    OBVIOUS
  <2> QED
    BY <2>1, <1>1, <1>5, <1>6
<1>9. ASSUME NEW k \in n + 1 .. Len(s) + 1
      PROVE  d[k] = s[k - 1]
  <2>1. k - n \in 1 .. Len(s) - n + 1 /\ n + (k - n) - 1 = k - 1 /\ ~ (k <= n) /\ k \in 1 .. Len(s) + 1
    OBVIOUS
  <2> QED
    BY <2>1, <1>2, <1>6
<1>10. d = InsertAt(s, n, e)
  BY <1>3 DEF c, d, u
<1>11. DOMAIN d = 1 .. Len(s) + 1
  BY <1>6
<1> QED
  BY <1>6, <1>7, <1>8, <1>9, <1>10, <1>11 DEF IsInserted

(***************************************************************************)
(* Appending is inserting at the end.                                      *)
(***************************************************************************)
LEMMA Appended ==
  ASSUME NEW S, NEW s \in Seq(S), NEW e \in S
  PROVE  Append(s, e) \in Seq(S) /\ IsInserted(Append(s, e), s, Len(s) + 1, e)
BY DEF IsInserted

-----------------------------------------------------------------------------
(***************************************************************************)
(* What panics keeps its fields.                                           *)
(***************************************************************************)
LEMMA Panicked ==
  ASSUME NEW c \in CPara
  PROVE  Panic(c) \in CPara /\ Panic(c).panic
BY DEF CPara, Panic

(***************************************************************************)
(* Setting one format leaves arrays of formats.                            *)
(***************************************************************************)
LEMMA FormatSet ==
  ASSUME NEW s \in Seq(Formats), NEW f \in Formats, NEW n \in Nat
  PROVE  /\ [s EXCEPT ![n] = f] \in Seq(Formats)
         /\ Len([s EXCEPT ![n] = f]) = Len(s)
         /\ DOMAIN [s EXCEPT ![n] = f] = DOMAIN s
         /\ \A k \in DOMAIN s : [s EXCEPT ![n] = f][k] = IF k = n THEN f ELSE s[k]
<1> DEFINE t == [s EXCEPT ![n] = f]
<1>1. Len(s) \in Nat /\ DOMAIN s = 1 .. Len(s) /\ s \in [1 .. Len(s) -> Formats]
  OBVIOUS
<1>2. t \in [1 .. Len(s) -> Formats] /\ \A k \in DOMAIN s : t[k] = IF k = n THEN f ELSE s[k]
  BY <1>1
<1> HIDE DEF t
<1>3. t \in Seq(Formats) /\ Len(t) = Len(s) /\ DOMAIN t = DOMAIN s
  BY <1>1, <1>2
<1> QED
  BY <1>2, <1>3 DEF t

(***************************************************************************)
(* The same for the formats of paragraphs.                                 *)
(***************************************************************************)
LEMMA ParaSet ==
  ASSUME NEW s \in Seq(ParaFormats), NEW p \in ParaFormats, NEW n \in Nat
  PROVE  /\ [s EXCEPT ![n] = p] \in Seq(ParaFormats)
         /\ Len([s EXCEPT ![n] = p]) = Len(s)
         /\ DOMAIN [s EXCEPT ![n] = p] = DOMAIN s
         /\ \A k \in DOMAIN s : [s EXCEPT ![n] = p][k] = IF k = n THEN p ELSE s[k]
<1> DEFINE t == [s EXCEPT ![n] = p]
<1>1. Len(s) \in Nat /\ DOMAIN s = 1 .. Len(s) /\ s \in [1 .. Len(s) -> ParaFormats]
  OBVIOUS
<1>2. t \in [1 .. Len(s) -> ParaFormats] /\ \A k \in DOMAIN s : t[k] = IF k = n THEN p ELSE s[k]
  BY <1>1
<1> HIDE DEF t
<1>3. t \in Seq(ParaFormats) /\ Len(t) = Len(s) /\ DOMAIN t = DOMAIN s
  BY <1>1, <1>2
<1> QED
  BY <1>2, <1>3 DEF t

(***************************************************************************)
(* A paragraph's format with one of its parts set.                         *)
(***************************************************************************)
LEMMA ParaFormatSet ==
  ASSUME NEW p \in ParaFormats, NEW f \in Formats
  PROVE  /\ p = [from |-> p.from, bullet |-> p.bullet]
         /\ [p EXCEPT !.from = f] = [from |-> f, bullet |-> p.bullet]
         /\ [p EXCEPT !.from = f] \in ParaFormats
         /\ [p EXCEPT !.bullet = TRUE] \in ParaFormats
<1>1. p = [from |-> p.from, bullet |-> p.bullet]
  BY Zenon DEF ParaFormats
<1>2. p.from \in Formats /\ p.bullet \in BOOLEAN
  BY DEF ParaFormats
<1>3. \A b \in BOOLEAN, g \in Formats : [from |-> g, bullet |-> b] \in ParaFormats
  BY DEF ParaFormats
<1>4. [p EXCEPT !.from = f] = [from |-> f, bullet |-> p.bullet]
  BY DEF ParaFormats
<1>5. \A b \in BOOLEAN : [p EXCEPT !.bullet = b] \in ParaFormats
  BY DEF ParaFormats
<1>6. [from |-> f, bullet |-> p.bullet] \in ParaFormats
  BY <1>2, <1>3
<1>7. TRUE \in BOOLEAN
  OBVIOUS
<1> QED
  BY <1>1, <1>4, <1>5, <1>6, <1>7, Zenon

(***************************************************************************)
(* Initialise panics, or resets the style in use and nothing else.         *)
(***************************************************************************)
LEMMA Reset ==
  ASSUME NEW c \in CPara
  PROVE  LET d == Initialise(c)
         IN  /\ d \in CPara
             /\ c.pos \in DOMAIN c.char /\ c.global \in DOMAIN c.par =>
                  /\ d.char = [c.char EXCEPT ![c.pos] = "reset"]
                  /\ d.par = [c.par EXCEPT ![c.global] = [from |-> "reset", bullet |-> c.par[c.global].bullet]]
                  /\ d.name = c.name /\ d.pos = c.pos /\ d.global = c.global
                  /\ d.last = c.last /\ d.panic = c.panic
             /\ ~ (c.pos \in DOMAIN c.char /\ c.global \in DOMAIN c.par) => d.panic
<1>1. CASE c.pos \in DOMAIN c.char /\ c.global \in DOMAIN c.par
  <2> DEFINE char == [c.char EXCEPT ![c.pos] = "reset"]
             par == [c.par EXCEPT ![c.global] = [c.par[c.global] EXCEPT !.from = "reset"]]
  <2>1. c.char \in Seq(Formats) /\ c.par \in Seq(ParaFormats) /\ c.pos \in Nat /\ c.global \in Nat
        /\ "reset" \in Formats
    BY DEF CPara, Formats
  <2>2. c.par[c.global] \in ParaFormats
    BY <1>1, <2>1
  <2>3. [c.par[c.global] EXCEPT !.from = "reset"] = [from |-> "reset", bullet |-> c.par[c.global].bullet]
        /\ [c.par[c.global] EXCEPT !.from = "reset"] \in ParaFormats
    BY <2>1, <2>2, ParaFormatSet
  <2>4. char \in Seq(Formats) /\ par \in Seq(ParaFormats)
    BY <2>1, <2>3, FormatSet, ParaSet
  <2> DEFINE d == Initialise(c)
  <2>5. d = [c EXCEPT !.char = char, !.par = par]
    BY <1>1 DEF Initialise, CPara
  <2> HIDE DEF char, par, d
  <2>6. /\ d \in CPara /\ d.char = char /\ d.par = par /\ d.name = c.name /\ d.pos = c.pos
        /\ d.global = c.global /\ d.last = c.last /\ d.panic = c.panic
    BY <2>4, <2>5 DEF CPara
  <2> QED
    BY <1>1, <2>3, <2>6 DEF char, par, d
<1>2. CASE ~ (c.pos \in DOMAIN c.char /\ c.global \in DOMAIN c.par)
  BY <1>2, Panicked DEF Initialise
<1> QED
  BY <1>1, <1>2

-----------------------------------------------------------------------------
(***************************************************************************)
(* Exists finds a style of the name if there is one.                       *)
(***************************************************************************)
LEMMA Found ==
  ASSUME NEW c \in CPara, NEW name
  PROVE  /\ (\A i \in DOMAIN c.name : c.name[i] # name) => Exists(c, name) = 0
         /\ (\E i \in DOMAIN c.name : c.name[i] = name) =>
              Exists(c, name) \in DOMAIN c.name /\ c.name[Exists(c, name)] = name
         /\ Exists(c, name) \in 0 .. Len(c.name)
<1> DEFINE T == {i \in DOMAIN c.name : c.name[i] = name}
<1>1. c.name \in Seq(StyleNames) /\ DOMAIN c.name = 1 .. Len(c.name) /\ Len(c.name) \in Nat
  BY DEF CPara
<1>2. CASE \A i \in DOMAIN c.name : c.name[i] # name
  BY <1>1, <1>2 DEF Exists
<1>3. CASE \E i \in DOMAIN c.name : c.name[i] = name
  <2>1. T # {} /\ T \subseteq Nat
    BY <1>1, <1>3
  <2>2. PICK i \in T : \A j \in T : ~ (<<j, i>> \in OpToRel(<, Nat))
    BY <2>1, NatLessThanWellFounded, WFMin
  <2>3. \A j \in T : ~ (j < i)
    BY <2>1, <2>2 DEF OpToRel
  <2>4. c.name[i] = name /\ \A j \in 1 .. (i - 1) : c.name[j] # name
    BY <1>1, <2>1, <2>3
  <2>5. Exists(c, name) \in DOMAIN c.name /\ c.name[Exists(c, name)] = name
    BY <1>3, <2>4 DEF Exists
  <2> QED
    BY <1>1, <1>3, <2>5
<1> QED
  BY <1>2, <1>3

(***************************************************************************)
(* A style that exists is reset; of its paragraph format only what makes   *)
(* no bullet.                                                              *)
(***************************************************************************)
LEMMA AddKnown ==
  ASSUME NEW c \in CPara, Aligned(c), NEW name \in StyleNames, NEW init \in BOOLEAN,
         Exists(c, name) # 0
  PROVE  LET d == AddTextItem(c, init, name)
             e == Exists(c, name)
         IN  /\ d \in CPara
             /\ c.global \notin DOMAIN c.par => d.panic
             /\ c.global \in DOMAIN c.par =>
                  /\ d.char = [c.char EXCEPT ![e] = "reset"]
                  /\ d.par = [c.par EXCEPT ![c.global] = [from |-> "reset", bullet |-> c.par[c.global].bullet]]
                  /\ d.name = c.name /\ d.pos = e /\ d.global = c.global
                  /\ d.last = c.last /\ d.panic = c.panic
<1> DEFINE e == Exists(c, name)
           x == [c EXCEPT !.pos = e]
<1>1. e \in 1 .. Len(c.name) /\ Len(c.name) = c.last /\ Len(c.char) = c.last /\ c.last \in Nat
  BY Found DEF Aligned, CPara
<1>2. AddTextItem(c, init, name) = Initialise(x)
  BY DEF AddTextItem
<1> HIDE DEF e
<1>3. /\ x \in CPara /\ x.name = c.name /\ x.char = c.char /\ x.par = c.par /\ x.pos = e
      /\ x.global = c.global /\ x.last = c.last /\ x.panic = c.panic
  <2>1. e \in Nat
    BY <1>1
  <2> QED
    BY <2>1 DEF CPara
<1> HIDE DEF x
<1>4. DOMAIN c.char = 1 .. c.last
  BY <1>1 DEF CPara
<1>5. x.pos \in DOMAIN x.char
  BY <1>1, <1>3, <1>4
<1> DEFINE d == Initialise(x)
<1>6. /\ d \in CPara
      /\ x.global \in DOMAIN x.par =>
           /\ d.char = [x.char EXCEPT ![x.pos] = "reset"]
           /\ d.par = [x.par EXCEPT ![x.global] = [from |-> "reset", bullet |-> x.par[x.global].bullet]]
           /\ d.name = x.name /\ d.pos = x.pos /\ d.global = x.global
           /\ d.last = x.last /\ d.panic = x.panic
      /\ ~ (x.global \in DOMAIN x.par) => d.panic
  BY <1>3, <1>5, Reset
<1> HIDE DEF d
<1>7. d = AddTextItem(c, init, name)
  BY <1>2 DEF d
<1> QED
  BY <1>3, <1>6, <1>7 DEF e

(***************************************************************************)
(* A new text style goes to the end.                                       *)
(***************************************************************************)
LEMMA AddText ==
  ASSUME NEW c \in CPara, Aligned(c), NEW name \in StyleNames, Exists(c, name) = 0
  PROVE  LET d == AddTextItem(c, FALSE, name)
         IN  /\ d \in CPara
             /\ IsInserted(d.name, c.name, c.last + 1, name)
             /\ IsInserted(d.char, c.char, c.last + 1, "fresh")
             /\ d.par = c.par /\ d.pos = c.last + 1 /\ d.global = c.global
             /\ d.last = c.last + 1 /\ d.panic = c.panic
<1> DEFINE n == Append(c.name, name)  ch == Append(c.char, "fresh")  l == c.last + 1
           d == [c EXCEPT !.name = n, !.char = ch, !.pos = l, !.last = l]
<1>1. c.name \in Seq(StyleNames) /\ c.char \in Seq(Formats) /\ c.last \in Nat /\ "fresh" \in Formats
  BY DEF CPara, Formats
<1>2. n \in Seq(StyleNames) /\ ch \in Seq(Formats)
  BY <1>1
<1>3. IsInserted(n, c.name, c.last + 1, name) /\ IsInserted(ch, c.char, c.last + 1, "fresh")
  BY <1>1, Appended DEF Aligned
<1>4. d = AddTextItem(c, FALSE, name)
  BY DEF AddTextItem
<1>5. l \in Nat
  BY <1>1
<1> HIDE DEF n, ch, l
<1>6. /\ d \in CPara /\ d.name = n /\ d.char = ch /\ d.par = c.par /\ d.pos = l
      /\ d.global = c.global /\ d.last = l /\ d.panic = c.panic
  BY <1>2, <1>5 DEF CPara
<1> HIDE DEF d
<1> QED
  BY <1>3, <1>4, <1>6 DEF l

(***************************************************************************)
(* What was inserted may be set again.                                     *)
(***************************************************************************)
LEMMA SetInserted ==
  ASSUME NEW S, NEW s \in Seq(S), NEW n \in 1 .. Len(s) + 1, NEW e, NEW f,
         NEW t, IsInserted(t, s, n, e), t \in Seq(S)
  PROVE  IsInserted([t EXCEPT ![n] = f], s, n, f)
<1>1. n \in DOMAIN t /\ DOMAIN t = 1 .. Len(s) + 1 /\ Len(t) = Len(s) + 1 /\ Len(s) \in Nat
  BY DEF IsInserted
<1> DEFINE u == [t EXCEPT ![n] = f]
<1>2. DOMAIN u = DOMAIN t /\ u[n] = f /\ \A k \in DOMAIN t : k # n => u[k] = t[k]
  BY <1>1
<1>3. Len(u) = Len(t)
  BY <1>1
<1> HIDE DEF u
<1>4. \A k \in 1 .. n - 1 : k \in DOMAIN t /\ k # n
  BY <1>1
<1>5. \A k \in n + 1 .. Len(s) + 1 : k \in DOMAIN t /\ k # n
  BY <1>1
<1>6. IsInserted(u, s, n, f)
  BY <1>1, <1>2, <1>3, <1>4, <1>5 DEF IsInserted
<1> QED
  BY <1>6 DEF u

\* CPara with its arrays grown by a paragraph style, and the style reset.
Growing(c, n, ch, pr, pos) ==
  LET y == Initialise([c EXCEPT !.name = n, !.char = ch, !.par = pr,
                                !.pos = pos, !.global = c.global + 1])
  IN  [y EXCEPT !.last = y.last + 1]

\* d is c with a paragraph style more, behind the one in use.
Grown(c, d, name, pos) ==
  /\ IsInserted(d.name, c.name, c.global + 1, name)
  /\ Len(d.char) = c.last + 1
  /\ pos = c.global + 1 => IsInserted(d.char, c.char, c.global + 1, "reset")
  /\ IsInserted(d.par, c.par, c.global + 1, [from |-> "reset", bullet |-> FALSE])
  /\ d.pos = pos /\ d.global = c.global + 1 /\ d.last = c.last + 1 /\ d.panic = c.panic

(***************************************************************************)
(* A new paragraph style goes behind the one in use, and is reset: in the  *)
(* arrays of all styles and in that of paragraph formats.                  *)
(***************************************************************************)
LEMMA AddParaAt ==
  ASSUME NEW c \in CPara, Aligned(c), c.global <= Len(c.par),
         NEW n \in Seq(StyleNames), NEW ch \in Seq(Formats), NEW pr \in Seq(ParaFormats),
         NEW pos \in Nat, NEW name \in StyleNames,
         IsInserted(n, c.name, c.global + 1, name),
         IsInserted(ch, c.char, c.global + 1, "fresh"),
         IsInserted(pr, c.par, c.global + 1, NewPara),
         pos \in 1 .. c.last + 1
  PROVE  LET d == Growing(c, n, ch, pr, pos) IN d \in CPara /\ Grown(c, d, name, pos)
<1> DEFINE g == c.global + 1
           x == [c EXCEPT !.name = n, !.char = ch, !.par = pr, !.pos = pos, !.global = g]
           y == Initialise(x)
           d == Growing(c, n, ch, pr, pos)
<1>1. /\ c.name \in Seq(StyleNames) /\ c.char \in Seq(Formats) /\ c.par \in Seq(ParaFormats)
      /\ c.last \in Nat /\ c.global \in Nat /\ Len(c.par) \in Nat
  BY DEF CPara
<1>2. g \in Nat /\ g \in 1 .. c.last + 1 /\ g \in 1 .. Len(c.par) + 1
  BY <1>1, SMTT(30) DEF Aligned
<1>3. d = [y EXCEPT !.last = y.last + 1]
  BY DEF Growing
<1>4. g = c.global + 1
  OBVIOUS
<1> HIDE DEF g, d
<1>5. /\ x \in CPara /\ x.name = n /\ x.char = ch /\ x.par = pr /\ x.pos = pos
      /\ x.global = g /\ x.last = c.last /\ x.panic = c.panic
  BY <1>2 DEF CPara
<1> HIDE DEF x
<1>6. DOMAIN ch = 1 .. c.last + 1 /\ DOMAIN pr = 1 .. Len(c.par) + 1 /\ Len(ch) = c.last + 1
      /\ pr[g] = NewPara
  BY <1>4 DEF IsInserted, Aligned
<1>7. x.pos \in DOMAIN x.char /\ x.global \in DOMAIN x.par
  BY <1>2, <1>5, <1>6
<1>8. /\ y \in CPara /\ y.char = [x.char EXCEPT ![x.pos] = "reset"]
      /\ y.par = [x.par EXCEPT ![x.global] = [from |-> "reset", bullet |-> x.par[x.global].bullet]]
      /\ y.name = x.name /\ y.pos = x.pos /\ y.global = x.global
      /\ y.last = x.last /\ y.panic = x.panic
  BY <1>5, <1>7, Reset
<1> HIDE DEF y
<1>9. y.par = [pr EXCEPT ![g] = [from |-> "reset", bullet |-> FALSE]]
  <2>1. NewPara.bullet = FALSE
    BY Zenon DEF NewPara
  <2>2. x.par[x.global].bullet = FALSE /\ x.par = pr /\ x.global = g
    BY <1>5, <1>6, <2>1, Zenon
  <2> QED
    BY <1>8, <2>2, Zenon
<1>10. y.char = [ch EXCEPT ![pos] = "reset"]
  BY <1>5, <1>8
<1>11. IsInserted(y.par, c.par, g, [from |-> "reset", bullet |-> FALSE])
  <2>1. IsInserted([pr EXCEPT ![g] = [from |-> "reset", bullet |-> FALSE]], c.par, g,
                   [from |-> "reset", bullet |-> FALSE])
    <3>1. IsInserted(pr, c.par, g, NewPara)
      BY <1>4
    <3> QED
      BY <1>1, <1>2, <3>1, SetInserted
  <2> QED
    BY <1>9, <2>1, Zenon
<1>12. pos = g => IsInserted(y.char, c.char, g, "reset")
  <2>1. g \in 1 .. Len(c.char) + 1
    BY <1>2 DEF Aligned
  <2> QED
    <3>1. ASSUME pos = g
          PROVE  IsInserted(y.char, c.char, g, "reset")
      <4>1. y.char = [ch EXCEPT ![g] = "reset"]
        BY <3>1, <1>10
      <4>2. IsInserted(ch, c.char, g, "fresh")
        BY <1>4
      <4> QED
        <5>1. IsInserted([ch EXCEPT ![g] = "reset"], c.char, g, "reset")
          BY <1>1, <2>1, <4>2, SetInserted
        <5> QED
          BY <4>1, <5>1, Zenon
    <3> QED
      BY <3>1
<1>13. Len(y.char) = c.last + 1
  BY <1>1, <1>6, <1>10
<1> DEFINE l == y.last + 1
<1>14. l \in Nat /\ l = c.last + 1
  BY <1>1, <1>5, <1>8
<1> HIDE DEF l
<1>15. d = [y EXCEPT !.last = l]
  BY <1>3 DEF l
<1>16. /\ d \in CPara /\ d.name = y.name /\ d.char = y.char /\ d.par = y.par /\ d.pos = y.pos
       /\ d.global = y.global /\ d.last = l /\ d.panic = y.panic
  BY <1>8, <1>14, <1>15 DEF CPara
<1>17. Grown(c, d, name, pos)
  BY <1>4, <1>5, <1>8, <1>11, <1>12, <1>13, <1>14, <1>16 DEF Grown
<1> QED
  BY <1>16, <1>17 DEF d

\* What AddTextItem makes of a paragraph style that is new.
ParaAdded(c, d, name) ==
  /\ c.global > Len(c.par) => d.panic
  /\ c.global <= Len(c.par) =>
       \E pos \in 1 .. c.last + 1 :
         /\ Grown(c, d, name, pos)
         /\ c.pos = c.global \/ c.last # c.global => pos = c.global + 1

(***************************************************************************)
(* AddTextItem of a paragraph style that is new.  Only where all styles    *)
(* are paragraph styles does iPos go on by one instead of being set.       *)
(***************************************************************************)
LEMMA AddPara ==
  ASSUME NEW c \in CPara, Aligned(c), NEW name \in StyleNames, Exists(c, name) = 0
  PROVE  AddTextItem(c, TRUE, name) \in CPara /\ ParaAdded(c, AddTextItem(c, TRUE, name), name)
<1> DEFINE d == AddTextItem(c, TRUE, name)  g == c.global + 1
<1> SUFFICES d \in CPara /\ ParaAdded(c, d, name)
  BY DEF d
<1> HIDE DEF d
<1>1. /\ c.name \in Seq(StyleNames) /\ c.char \in Seq(Formats) /\ c.par \in Seq(ParaFormats)
      /\ c.last \in Nat /\ c.global \in Nat /\ Len(c.par) \in Nat /\ c.pos \in Nat
      /\ "fresh" \in Formats
  BY DEF CPara, Formats
<1>2. NewPara \in ParaFormats
  BY <1>1 DEF NewPara, ParaFormats
<1>3. CASE c.last = c.global
  <2> DEFINE n == Append(c.name, name)  ch == Append(c.char, "fresh")  pr == Append(c.par, NewPara)
             pos == c.pos + 1
  <2>1. d = Growing(c, n, ch, pr, pos)
    BY <1>3 DEF AddTextItem, Growing, d
  <2>2. n \in Seq(StyleNames) /\ ch \in Seq(Formats) /\ pr \in Seq(ParaFormats) /\ pos \in Nat
    BY <1>1, <1>2
  <2>3. CASE c.global <= Len(c.par)
    <3>1. Len(c.par) = c.last /\ g = Len(c.name) + 1 /\ g = Len(c.char) + 1 /\ g = Len(c.par) + 1
      BY <1>1, <1>3, <2>3 DEF Aligned
    <3>2. IsInserted(n, c.name, g, name) /\ IsInserted(ch, c.char, g, "fresh") /\ IsInserted(pr, c.par, g, NewPara)
      BY <1>1, <1>2, <3>1, Appended
    <3>3. pos \in 1 .. c.last + 1
      BY <1>1 DEF Aligned
    <3>4. c.pos = c.global => pos = g
      OBVIOUS
    <3> HIDE DEF n, ch, pr, pos
    <3>5. d \in CPara /\ Grown(c, d, name, pos)
      BY <2>1, <2>2, <2>3, <3>2, <3>3, AddParaAt
    <3>6. ParaAdded(c, d, name)
      BY <1>1, <1>3, <2>3, <3>3, <3>4, <3>5 DEF ParaAdded
    <3> QED
      BY <3>5, <3>6
  <2>4. CASE c.global > Len(c.par)
    <3> DEFINE x == [c EXCEPT !.name = n, !.char = ch, !.par = pr, !.pos = pos, !.global = g]
    <3>1. Len(pr) = Len(c.par) + 1 /\ g \in Nat
      BY <1>1, <1>2
    <3>2. g \notin DOMAIN pr
      BY <1>1, <2>2, <2>4, <3>1
    <3> DEFINE y == Initialise(x)
    <3>3. d = [y EXCEPT !.last = y.last + 1]
      BY <2>1 DEF Growing
    <3> HIDE DEF n, ch, pr, pos, g
    <3>4. x \in CPara /\ x.par = pr /\ x.global = g
      BY <2>2, <3>1 DEF CPara
    <3> HIDE DEF x
    <3>5. y \in CPara /\ y.panic
      BY <3>2, <3>4, Reset
    <3> HIDE DEF y
    <3> DEFINE l == y.last + 1
    <3>6. l \in Nat
      BY <3>5 DEF CPara
    <3>7. d = [y EXCEPT !.last = l]
      BY <3>3
    <3> HIDE DEF l
    <3>8. d \in CPara /\ d.panic
      BY <3>5, <3>6, <3>7 DEF CPara
    <3>9. ParaAdded(c, d, name)
      BY <1>1, <2>4, <3>8 DEF ParaAdded
    <3> QED
      BY <3>8, <3>9
  <2> QED
    BY <1>1, <2>3, <2>4
<1>4. CASE c.last # c.global /\ c.global > Len(c.par)
  <2>1. d = Panic(c)
    BY <1>4 DEF AddTextItem, d
  <2>2. d \in CPara /\ d.panic
    BY <2>1, Panicked
  <2>3. ParaAdded(c, d, name)
    BY <1>1, <1>4, <2>2 DEF ParaAdded
  <2> QED
    BY <2>2, <2>3
<1>5. CASE c.last # c.global /\ c.global <= Len(c.par)
  <2> DEFINE n == InsertAt(c.name, g, name)  ch == InsertAt(c.char, g, "fresh")
             pr == InsertAt(c.par, g, NewPara)
  <2>1. ~ (c.global > Len(c.par))
    BY <1>1, <1>5
  <2>2. d = Growing(c, n, ch, pr, g)
    BY <1>5, <2>1 DEF AddTextItem, Growing, d
  <2>3. g \in 1 .. Len(c.name) + 1 /\ g \in 1 .. Len(c.char) + 1 /\ g \in 1 .. Len(c.par) + 1
        /\ g \in 1 .. c.last + 1 /\ g \in Nat
    BY <1>1, <1>5 DEF Aligned
  <2>4. /\ n \in Seq(StyleNames) /\ IsInserted(n, c.name, g, name)
        /\ ch \in Seq(Formats) /\ IsInserted(ch, c.char, g, "fresh")
        /\ pr \in Seq(ParaFormats) /\ IsInserted(pr, c.par, g, NewPara)
    <3> HIDE DEF g
    <3> QED
      BY <1>1, <1>2, <2>3, Inserted
  <2> HIDE DEF n, ch, pr
  <2>5. d \in CPara /\ Grown(c, d, name, g)
    BY <2>2, <2>3, <2>4, <1>5, AddParaAt
  <2>6. ParaAdded(c, d, name)
    BY <1>1, <1>5, <2>3, <2>5 DEF ParaAdded
  <2> QED
    BY <2>5, <2>6
<1> QED
  BY <1>1, <1>3, <1>4, <1>5

\* What SetParent makes of c.
ParentSet(c, d, i) ==
  /\ i = 0 => d = c
  /\ i # 0 /\ c.pos <= Len(c.par) /\ i > Len(c.par) => d.panic
  /\ i # 0 /\ c.pos <= Len(c.par) /\ i <= Len(c.par) =>
       /\ d.par = [c.par EXCEPT ![c.pos] = c.par[i]]
       /\ d.char = [c.char EXCEPT ![c.pos] = c.char[i]]
  /\ i # 0 /\ c.pos > Len(c.par) => d.par = c.par /\ Len(d.char) = Len(c.char)
  /\ i # 0 /\ (c.pos > Len(c.par) \/ i <= Len(c.par)) =>
       /\ d.name = c.name /\ d.pos = c.pos /\ d.global = c.global
       /\ d.last = c.last /\ d.panic = c.panic

(***************************************************************************)
(* SetParent copies formats, of a paragraph style to a paragraph style; of *)
(* text styles it may copy to the wrong one, but to one there is.          *)
(***************************************************************************)
LEMMA ParentCopied ==
  ASSUME NEW c \in CPara, Aligned(c), NEW parent
  PROVE  SetParent(c, parent) \in CPara /\ ParentSet(c, SetParent(c, parent), Exists(c, parent))
<1> DEFINE d == SetParent(c, parent)  i == Exists(c, parent)  paras == Len(c.par)
<1> SUFFICES d \in CPara /\ ParentSet(c, d, i)
  BY DEF d, i
<1>1. /\ c.char \in Seq(Formats) /\ c.par \in Seq(ParaFormats) /\ c.pos \in Nat /\ paras \in Nat
      /\ Len(c.char) = c.last /\ c.last \in Nat /\ paras <= c.last
      /\ i \in Nat /\ i <= c.last
  BY Found DEF CPara, Aligned
<1> HIDE DEF d, i
<1>2. CASE i = 0
  <2>1. d = c
    BY <1>2 DEF d, i, SetParent
  <2> QED
    BY <1>2, <2>1 DEF ParentSet
<1>3. CASE i # 0 /\ c.pos <= paras /\ i > paras
  <2>1. d = Panic(c)
    BY <1>3 DEF d, i, SetParent
  <2>2. d \in CPara /\ d.panic
    BY <2>1, Panicked
  <2>3. ~ (c.pos > Len(c.par)) /\ ~ (i <= Len(c.par))
    BY <1>1, <1>3
  <2> QED
    BY <1>3, <2>2, <2>3, Zenon DEF ParentSet
<1>4. CASE i # 0 /\ c.pos <= paras /\ i <= paras
  <2> DEFINE pr == [c.par EXCEPT ![c.pos] = c.par[i]]  ch == [c.char EXCEPT ![c.pos] = c.char[i]]
  <2>1. ~ (i > paras)
    BY <1>1, <1>4
  <2>2. d = [c EXCEPT !.par = pr, !.char = ch]
    <3>1. d = [c EXCEPT !.par[c.pos] = c.par[i], !.char[c.pos] = c.char[i]]
      BY <1>4, <2>1 DEF d, i, SetParent
    <3> QED
      BY <3>1 DEF CPara
  <2>3. c.par[i] \in ParaFormats /\ c.char[i] \in Formats
    BY <1>1, <1>4
  <2>4. pr \in Seq(ParaFormats) /\ ch \in Seq(Formats)
    BY <1>1, <2>3, FormatSet, ParaSet
  <2> HIDE DEF pr, ch
  <2>5. /\ d \in CPara /\ d.name = c.name /\ d.par = pr /\ d.char = ch /\ d.pos = c.pos
        /\ d.global = c.global /\ d.last = c.last /\ d.panic = c.panic
    BY <2>2, <2>4 DEF CPara
  <2> QED
    BY <1>1, <1>4, <2>5 DEF ParentSet, pr, ch
<1>5. CASE i # 0 /\ c.pos > paras
  <2>1. PICK k \in Nat, j \in DOMAIN c.char : d = [c EXCEPT !.char[k] = c.char[j]]
    <3>1. ~ (c.pos <= paras)
      BY <1>1, <1>5
    <3>2. CASE i > paras + 1
      <4>1. d = [c EXCEPT !.char[c.pos - paras] = c.char[i - paras]]
        BY <1>5, <3>1, <3>2 DEF d, i, SetParent
      <4>2. c.pos - paras \in Nat /\ i - paras \in DOMAIN c.char
        BY <1>1, <1>5, <3>2
      <4> QED
        BY <4>1, <4>2
    <3>3. CASE ~ (i > paras + 1)
      <4>1. d = [c EXCEPT !.char[c.pos] = c.char[i]]
        BY <1>5, <3>1, <3>3 DEF d, i, SetParent
      <4>2. i \in DOMAIN c.char
        BY <1>1, <1>5
      <4> QED
        BY <1>1, <4>1, <4>2
    <3> QED
      BY <3>2, <3>3
  <2> DEFINE ch == [c.char EXCEPT ![k] = c.char[j]]
  <2>2. d = [c EXCEPT !.char = ch]
    BY <2>1 DEF CPara
  <2>3. c.char[j] \in Formats
    BY <1>1
  <2>4. ch \in Seq(Formats) /\ Len(ch) = Len(c.char)
    BY <1>1, <2>3, FormatSet
  <2> HIDE DEF ch
  <2>5. /\ d \in CPara /\ d.name = c.name /\ d.par = c.par /\ d.char = ch /\ d.pos = c.pos
        /\ d.global = c.global /\ d.last = c.last /\ d.panic = c.panic
    BY <2>2, <2>4 DEF CPara
  <2> QED
    BY <1>1, <1>5, <2>4, <2>5 DEF ParentSet
<1> QED
  BY <1>1, <1>2, <1>3, <1>4, <1>5

-----------------------------------------------------------------------------
(***************************************************************************)
(* Declarations keep the arrays parallel, whatever is declared.            *)
(***************************************************************************)
LEMMA AddAligned ==
  ASSUME NEW c \in CPara, Aligned(c), NEW name \in StyleNames, NEW init \in BOOLEAN
  PROVE  /\ AddTextItem(c, init, name) \in CPara
         /\ ~ AddTextItem(c, init, name).panic => Aligned(AddTextItem(c, init, name))
<1> DEFINE d == AddTextItem(c, init, name)
<1> SUFFICES d \in CPara /\ (~ d.panic => Aligned(d))
  BY DEF d
<1>1. /\ c.name \in Seq(StyleNames) /\ c.char \in Seq(Formats) /\ c.par \in Seq(ParaFormats)
      /\ c.last \in Nat /\ c.global \in Nat /\ c.pos \in Nat /\ Len(c.par) \in Nat
  BY DEF CPara
<1> HIDE DEF d
<1>2. CASE Exists(c, name) # 0
  <2> DEFINE e == Exists(c, name)
             p == [from |-> "reset", bullet |-> c.par[c.global].bullet]
  <2>1. /\ d \in CPara
        /\ c.global \notin DOMAIN c.par => d.panic
        /\ c.global \in DOMAIN c.par =>
             /\ d.char = [c.char EXCEPT ![e] = "reset"] /\ d.par = [c.par EXCEPT ![c.global] = p]
             /\ d.name = c.name /\ d.pos = e /\ d.global = c.global
             /\ d.last = c.last /\ d.panic = c.panic
    BY <1>2, AddKnown DEF d
  <2>2. e \in Nat /\ e <= c.last
    BY <1>1, Found DEF Aligned
  <2> HIDE DEF e, p
  <2>3. c.global \in DOMAIN c.par => Len(d.char) = Len(c.char) /\ Len(d.par) = Len(c.par)
    BY <1>1, <2>1
  <2> QED
    BY <1>1, <2>1, <2>2, <2>3 DEF Aligned
<1>3. CASE Exists(c, name) = 0 /\ ~ init
  <2>1. init = FALSE
    BY <1>3
  <2>2. /\ d \in CPara /\ IsInserted(d.name, c.name, c.last + 1, name)
        /\ IsInserted(d.char, c.char, c.last + 1, "fresh")
        /\ d.par = c.par /\ d.pos = c.last + 1 /\ d.global = c.global /\ d.last = c.last + 1
    BY <1>3, <2>1, AddText DEF d
  <2> QED
    BY <1>1, <2>2 DEF Aligned, IsInserted
<1>4. CASE Exists(c, name) = 0 /\ init
  <2>1. init = TRUE
    BY <1>4
  <2>2. d \in CPara /\ ParaAdded(c, d, name)
    BY <1>4, <2>1, AddPara DEF d
  <2>3. ASSUME c.global <= Len(c.par)
        PROVE  Aligned(d)
    <3>1. PICK pos \in 1 .. c.last + 1 : Grown(c, d, name, pos)
      BY <2>2, <2>3 DEF ParaAdded
    <3>2. /\ Len(d.name) = Len(c.name) + 1 /\ Len(d.char) = c.last + 1 /\ Len(d.par) = Len(c.par) + 1
          /\ d.pos = pos /\ d.global = c.global + 1 /\ d.last = c.last + 1
      BY <3>1 DEF Grown, IsInserted
    <3> QED
      BY <1>1, <3>2, <2>3, SMTT(30) DEF Aligned
  <2> QED
    BY <1>1, <2>2, <2>3 DEF ParaAdded
<1> QED
  BY <1>2, <1>3, <1>4

(***************************************************************************)
(* So does the parent.                                                     *)
(***************************************************************************)
LEMMA ParentAligned ==
  ASSUME NEW c \in CPara, Aligned(c), NEW parent
  PROVE  /\ SetParent(c, parent) \in CPara
         /\ ~ SetParent(c, parent).panic => Aligned(SetParent(c, parent))
<1> DEFINE d == SetParent(c, parent)  i == Exists(c, parent)
<1>1. d \in CPara /\ ParentSet(c, d, i)
  BY ParentCopied
<1>2. /\ c.char \in Seq(Formats) /\ c.par \in Seq(ParaFormats) /\ c.pos \in Nat /\ Len(c.par) \in Nat
      /\ i \in Nat
  BY Found DEF CPara
<1> HIDE DEF d, i
<1>3. ASSUME ~ d.panic
      PROVE  Aligned(d)
  <2>1. CASE i = 0
    BY <1>1, <2>1 DEF ParentSet
  <2>2. CASE i # 0 /\ c.pos <= Len(c.par)
    <3>1. i <= Len(c.par)
      BY <1>1, <1>2, <1>3, <2>2 DEF ParentSet
    <3>2. /\ d.par = [c.par EXCEPT ![c.pos] = c.par[i]] /\ d.char = [c.char EXCEPT ![c.pos] = c.char[i]]
          /\ d.name = c.name /\ d.pos = c.pos /\ d.global = c.global /\ d.last = c.last
      BY <1>1, <2>2, <3>1 DEF ParentSet
    <3>3. Len(d.par) = Len(c.par) /\ Len(d.char) = Len(c.char)
      BY <1>2, <3>2
    <3> QED
      BY <3>2, <3>3 DEF Aligned
  <2>3. CASE i # 0 /\ c.pos > Len(c.par)
    BY <1>1, <2>3 DEF ParentSet, Aligned
  <2> QED
    BY <1>2, <2>1, <2>2, <2>3
<1> QED
  BY <1>1, <1>3 DEF d

-----------------------------------------------------------------------------
\* While no name is used again: w tells what the document wants of each style.
Sorted(c, w) ==
  /\ InUse(c)
  /\ \A i \in 1 .. c.last : c.name[i] \in DOMAIN w
  /\ \A n \in DOMAIN w : \E i \in 1 .. c.last : c.name[i] = n
  /\ \A i, j \in 1 .. c.last : c.name[i] = c.name[j] => i = j
  /\ \A i \in 1 .. c.last : i <= Len(c.par) <=> w[c.name[i]].par.from # "none"

\* While no parent is missing: each style has the formats wanted of it.
Kept(c, w) ==
  \A i \in 1 .. c.last :
    /\ c.char[i] = w[c.name[i]].char
    /\ i <= Len(c.par) => c.par[i] = w[c.name[i]].par

\* w with a style more, or another wish for a style.
With(w, name, s) == [n \in DOMAIN w \cup {name} |-> IF n # name THEN w[n] ELSE s]

(***************************************************************************)
(* The wishes for the others stay.                                         *)
(***************************************************************************)
LEMMA Wishes ==
  ASSUME NEW w, NEW name, NEW s
  PROVE  /\ DOMAIN With(w, name, s) = DOMAIN w \cup {name}
         /\ With(w, name, s)[name] = s
         /\ \A n \in DOMAIN w : n # name => With(w, name, s)[n] = w[n]
BY DEF With

(***************************************************************************)
(* Names found in CPara are those the document has declared.               *)
(***************************************************************************)
LEMMA NamesFound ==
  ASSUME NEW c \in CPara, Aligned(c), NEW w, Sorted(c, w), NEW name
  PROVE  /\ Exists(c, name) # 0 <=> name \in DOMAIN w
         /\ name \in DOMAIN w => /\ Exists(c, name) \in 1 .. c.last
                                 /\ c.name[Exists(c, name)] = name
                                 /\ Exists(c, name) <= Len(c.par) <=> w[name].par.from # "none"
         /\ \A i \in 1 .. c.last : c.name[i] = name => i = Exists(c, name)
<1>1. DOMAIN c.name = 1 .. c.last /\ Len(c.name) = c.last /\ c.last \in Nat
  BY DEF CPara, Aligned
<1>2. CASE name \in DOMAIN w
  <2>1. \E i \in DOMAIN c.name : c.name[i] = name
    BY <1>1, <1>2 DEF Sorted
  <2>2. Exists(c, name) \in 1 .. c.last /\ c.name[Exists(c, name)] = name
    BY <1>1, <2>1, Found
  <2>3. Exists(c, name) <= Len(c.par) <=> w[name].par.from # "none"
    BY <2>2 DEF Sorted
  <2>4. \A i \in 1 .. c.last : c.name[i] = name => i = Exists(c, name)
    BY <2>2 DEF Sorted
  <2>5. Exists(c, name) # 0
    BY <2>2
  <2> QED
    BY <1>2, <2>2, <2>3, <2>4, <2>5, Zenon
<1>3. CASE name \notin DOMAIN w
  <2>1. \A i \in DOMAIN c.name : c.name[i] # name
    BY <1>1, <1>3 DEF Sorted
  <2>2. Exists(c, name) = 0
    BY <2>1, Found
  <2> QED
    BY <1>1, <1>3, <2>1, <2>2
<1> QED
  BY <1>2, <1>3

\* Where a style was before another came to stand at the place at.
Old(i, at) == IF i < at THEN i ELSE i - 1

\* d is c with a style more at the place at; nothing else has changed.
OneMore(c, d, at) ==
  /\ at \in 1 .. d.last /\ d.last = c.last + 1
  /\ \A i \in 1 .. d.last : i # at =>
       /\ Old(i, at) \in 1 .. c.last
       /\ d.name[i] = c.name[Old(i, at)]
       /\ i <= Len(d.par) <=> Old(i, at) <= Len(c.par)
       /\ d.char[i] = c.char[Old(i, at)]
       /\ i <= Len(d.par) => d.par[i] = c.par[Old(i, at)]

(***************************************************************************)
(* One style more, among those of its family, keeps the order.             *)
(***************************************************************************)
LEMMA OneMoreSorted ==
  ASSUME NEW c \in CPara, NEW d \in CPara, NEW at, OneMore(c, d, at),
         NEW w, Sorted(c, w), NEW name, NEW s, name \notin DOMAIN w,
         d.name[at] = name, InUse(d), at <= Len(d.par) <=> s.par.from # "none"
  PROVE  Sorted(d, With(w, name, s))
<1> DEFINE v == With(w, name, s)
<1>1. c.last \in Nat /\ d.last = c.last + 1 /\ at \in 1 .. d.last
  BY DEF CPara, OneMore
<1>2. DOMAIN v = DOMAIN w \cup {name} /\ v[name] = s /\ \A n \in DOMAIN w : v[n] = w[n]
  BY DEF With
<1> HIDE DEF v
<1>3. \A i \in 1 .. d.last : i # at => /\ Old(i, at) \in 1 .. c.last
                                       /\ d.name[i] = c.name[Old(i, at)]
                                       /\ d.name[i] \in DOMAIN w
  BY DEF OneMore, Sorted
<1>4. \A i \in 1 .. d.last : d.name[i] \in DOMAIN v
  BY <1>2, <1>3
<1>5. \A n \in DOMAIN v : \E i \in 1 .. d.last : d.name[i] = n
  <2> TAKE n \in DOMAIN v
  <2>1. CASE n = name
    BY <1>1, <2>1
  <2>2. CASE n # name
    <3>1. PICK k \in 1 .. c.last : c.name[k] = n
      BY <1>2, <2>2 DEF Sorted
    <3> DEFINE i == IF k < at THEN k ELSE k + 1
    <3>2. i \in 1 .. d.last /\ i # at /\ Old(i, at) = k
      BY <1>1 DEF Old
    <3> QED
      BY <1>3, <3>1, <3>2
  <2> QED
    BY <2>1, <2>2
<1>6. ASSUME NEW i \in 1 .. d.last, NEW j \in 1 .. d.last, d.name[i] = d.name[j]
      PROVE  i = j
  <2>1. CASE i = at \/ j = at
    BY <1>3, <1>6, <2>1
  <2>2. CASE i # at /\ j # at
    <3>1. Old(i, at) = Old(j, at)
      <4>1. /\ Old(i, at) \in 1 .. c.last /\ Old(j, at) \in 1 .. c.last
            /\ c.name[Old(i, at)] = c.name[Old(j, at)]
        BY <1>3, <1>6, <2>2, Zenon
      <4> QED
        BY <4>1, Zenon DEF Sorted
    <3> QED
      BY <1>1, <2>2, <3>1 DEF Old
  <2> QED
    BY <2>1, <2>2
<1>7. ASSUME NEW i \in 1 .. d.last
      PROVE  i <= Len(d.par) <=> v[d.name[i]].par.from # "none"
  <2>1. CASE i = at
    BY <1>2, <2>1
  <2>2. CASE i # at
    <3>1. v[d.name[i]] = w[c.name[Old(i, at)]] /\ Old(i, at) \in 1 .. c.last
      BY <1>2, <1>3, <2>2
    <3>2. i <= Len(d.par) <=> Old(i, at) <= Len(c.par)
      BY <2>2 DEF OneMore
    <3> QED
      BY <3>1, <3>2 DEF Sorted
  <2> QED
    BY <2>1, <2>2
<1> QED
  BY <1>4, <1>5, <1>6, <1>7 DEF Sorted, v

(***************************************************************************)
(* And with the formats wanted of it all formats are as wanted.            *)
(***************************************************************************)
LEMMA OneMoreKept ==
  ASSUME NEW c \in CPara, NEW d \in CPara, NEW at, OneMore(c, d, at),
         NEW w, Sorted(c, w), Kept(c, w), NEW name, NEW s, name \notin DOMAIN w,
         d.name[at] = name, d.char[at] = s.char, at <= Len(d.par) => d.par[at] = s.par
  PROVE  Kept(d, With(w, name, s))
<1> DEFINE v == With(w, name, s)
<1>1. v[name] = s /\ \A n \in DOMAIN w : v[n] = w[n]
  BY DEF With
<1> HIDE DEF v
<1> SUFFICES ASSUME NEW i \in 1 .. d.last
             PROVE  /\ d.char[i] = v[d.name[i]].char
                    /\ i <= Len(d.par) => d.par[i] = v[d.name[i]].par
  BY DEF Kept, v
<1>2. CASE i = at
  BY <1>1, <1>2
<1>3. CASE i # at
  <2>1. /\ Old(i, at) \in 1 .. c.last /\ d.name[i] = c.name[Old(i, at)]
        /\ d.char[i] = c.char[Old(i, at)] /\ (i <= Len(d.par) <=> Old(i, at) <= Len(c.par))
        /\ i <= Len(d.par) => d.par[i] = c.par[Old(i, at)]
    BY <1>3 DEF OneMore
  <2>2. c.name[Old(i, at)] \in DOMAIN w
    BY <2>1 DEF Sorted
  <2>3. v[d.name[i]] = w[c.name[Old(i, at)]]
    BY <1>1, <2>1, <2>2
  <2>4. /\ c.char[Old(i, at)] = w[c.name[Old(i, at)]].char
        /\ Old(i, at) <= Len(c.par) => c.par[Old(i, at)] = w[c.name[Old(i, at)]].par
    BY <2>1 DEF Kept
  <2> QED
    BY <2>1, <2>3, <2>4
<1> QED
  BY <1>2, <1>3

\* What a declaration alone wants of a style; a bullet it has stays.
Declared(w, name, init) ==
  [char |-> IF init THEN "reset" ELSE "fresh",
   par |-> [from |-> IF init THEN "reset" ELSE "none",
            bullet |-> name \in DOMAIN w /\ w[name].par.bullet]]

\* The style just added is in use.
AddedInUse(d, name, init) ==
  /\ d.pos \in 1 .. d.last /\ d.name[d.pos] = name
  /\ init => d.pos = d.global /\ d.pos <= Len(d.par)
  /\ ~ init => d.pos > Len(d.par)

(***************************************************************************)
(* The parts of what a declaration wants.                                  *)
(***************************************************************************)
LEMMA DeclaredParts ==
  ASSUME NEW w, NEW name, NEW init \in BOOLEAN
  PROVE  LET s == Declared(w, name, init)
         IN  /\ s.char = IF init THEN "reset" ELSE "fresh"
             /\ init <=> s.par.from # "none"
             /\ name \notin DOMAIN w /\ init => s.par = [from |-> "reset", bullet |-> FALSE]
             /\ name \in DOMAIN w /\ w[name].par.bullet \in BOOLEAN /\ init =>
                  s.par = [from |-> "reset", bullet |-> w[name].par.bullet]
<1> DEFINE s == Declared(w, name, init)  b == name \in DOMAIN w /\ w[name].par.bullet
<1>1. s.char = IF init THEN "reset" ELSE "fresh"
  BY DEF Declared
<1>2. s.par = [from |-> IF init THEN "reset" ELSE "none", bullet |-> b]
  BY Zenon DEF Declared
<1>3. s.par.from = IF init THEN "reset" ELSE "none"
  <2> HIDE DEF b, s
  <2> QED
    BY <1>2
<1>4. name \notin DOMAIN w => b = FALSE
  OBVIOUS
<1>5. name \in DOMAIN w /\ w[name].par.bullet \in BOOLEAN => b = w[name].par.bullet
  OBVIOUS
<1>6. init => (IF init THEN "reset" ELSE "none") = "reset"
  OBVIOUS
<1> HIDE DEF s, b
<1>7. init <=> s.par.from # "none"
  BY <1>3
<1>8. name \notin DOMAIN w /\ init => s.par = [from |-> "reset", bullet |-> FALSE]
  BY <1>2, <1>4, <1>6, Zenon
<1>9. name \in DOMAIN w /\ w[name].par.bullet \in BOOLEAN /\ init =>
        s.par = [from |-> "reset", bullet |-> w[name].par.bullet]
  BY <1>2, <1>5, <1>6, Zenon
<1> QED
  BY <1>1, <1>7, <1>8, <1>9 DEF s

(***************************************************************************)
(* AddTextItem of the paragraph style in use, once more.                   *)
(***************************************************************************)
LEMMA AgainSorted ==
  ASSUME NEW c \in CPara, Aligned(c), NEW w, Sorted(c, w), NEW name \in StyleNames,
         name \in DOMAIN w, Exists(c, name) = c.global, c.pos = c.global
  PROVE  LET d == AddTextItem(c, TRUE, name)
             v == With(w, name, Declared(w, name, TRUE))
         IN  /\ d \in CPara /\ Aligned(d) /\ Sorted(d, v) /\ AddedInUse(d, name, TRUE)
             /\ Kept(c, w) => Kept(d, v)
<1> DEFINE d == AddTextItem(c, TRUE, name)  e == Exists(c, name)
           s == Declared(w, name, TRUE)
           v == With(w, name, s)
           p == [from |-> "reset", bullet |-> c.par[e].bullet]
<1>1. /\ c.char \in Seq(Formats) /\ c.par \in Seq(ParaFormats) /\ c.last \in Nat /\ Len(c.par) \in Nat
      /\ c.name \in Seq(StyleNames) /\ Len(c.char) = c.last /\ Len(c.par) <= c.last
  BY DEF CPara, Aligned
<1>2. /\ e \in 1 .. c.last /\ c.name[e] = name /\ e = c.global /\ e = c.pos /\ e <= Len(c.par)
      /\ e # 0 /\ ~ c.panic
  <2>1. e \in 1 .. c.last /\ c.name[e] = name
    BY NamesFound
  <2>2. ~ c.panic /\ c.global <= Len(c.par)
    BY DEF Sorted, InUse
  <2> HIDE DEF e
  <2>3. e = c.global /\ e = c.pos
    BY DEF e
  <2> QED
    BY <1>1, <2>1, <2>2, <2>3
<1>3. c.global \in DOMAIN c.par
  BY <1>1, <1>2
<1>4. /\ d \in CPara /\ d.char = [c.char EXCEPT ![e] = "reset"] /\ d.par = [c.par EXCEPT ![e] = p]
      /\ d.name = c.name /\ d.pos = e /\ d.global = e /\ d.last = c.last /\ d.panic = c.panic
  <2>1. /\ d \in CPara
        /\ c.global \in DOMAIN c.par =>
             /\ d.char = [c.char EXCEPT ![e] = "reset"]
             /\ d.par = [c.par EXCEPT ![c.global] = [from |-> "reset", bullet |-> c.par[c.global].bullet]]
             /\ d.name = c.name /\ d.pos = e /\ d.global = c.global
             /\ d.last = c.last /\ d.panic = c.panic
    <3>1. Exists(c, name) # 0
      BY <1>2
    <3> QED
      BY <3>1, AddKnown
  <2> HIDE DEF d, e
  <2> QED
    BY <1>2, <1>3, <2>1
<1>5. s.char = "reset" /\ s.par.from # "none"
      /\ (w[name].par.bullet \in BOOLEAN => s.par = [from |-> "reset", bullet |-> w[name].par.bullet])
  BY DeclaredParts
<1>6. DOMAIN v = DOMAIN w /\ v[name] = s /\ \A n \in DOMAIN w : n # name => v[n] = w[n]
  BY DEF With
<1>7. c.par[e] \in ParaFormats /\ c.par[e].bullet \in BOOLEAN
  <2>1. c.par[e] \in ParaFormats
    BY <1>1, <1>2
  <2> QED
    BY <2>1 DEF ParaFormats
<1> HIDE DEF d, e, s, v, p
<1>8. /\ Len(d.char) = Len(c.char) /\ Len(d.par) = Len(c.par)
      /\ \A i \in 1 .. c.last : d.char[i] = IF i = e THEN "reset" ELSE c.char[i]
      /\ \A i \in 1 .. c.last : i <= Len(c.par) => d.par[i] = IF i = e THEN p ELSE c.par[i]
  BY <1>1, <1>2, <1>4
<1>9. Aligned(d)
  BY <1>1, <1>2, <1>4, <1>8 DEF Aligned
<1>10. AddedInUse(d, name, TRUE)
  BY <1>1, <1>2, <1>4, <1>8 DEF AddedInUse
<1>11. \A i \in 1 .. c.last : i # e => c.name[i] # name /\ c.name[i] \in DOMAIN w /\ v[c.name[i]] = w[c.name[i]]
  BY <1>2, <1>6 DEF Sorted
<1>12. Sorted(d, v)
  <2>1. InUse(d)
    BY <1>2, <1>4, <1>8 DEF InUse
  <2>2. \A i \in 1 .. d.last : d.name[i] \in DOMAIN v
    BY <1>4, <1>6 DEF Sorted
  <2>3. \A n \in DOMAIN v : \E i \in 1 .. d.last : d.name[i] = n
    BY <1>4, <1>6 DEF Sorted
  <2>4. \A i, j \in 1 .. d.last : d.name[i] = d.name[j] => i = j
    BY <1>4 DEF Sorted
  <2>5. ASSUME NEW i \in 1 .. d.last
        PROVE  i <= Len(d.par) <=> v[d.name[i]].par.from # "none"
    <3>1. CASE i = e
      BY <1>2, <1>4, <1>5, <1>6, <1>8, <3>1
    <3>2. CASE i # e
      <4>1. i <= Len(c.par) <=> w[c.name[i]].par.from # "none"
        BY <1>4 DEF Sorted
      <4> QED
        BY <1>4, <1>8, <1>11, <3>2, <4>1
    <3> QED
      BY <3>1, <3>2
  <2> QED
    BY <2>1, <2>2, <2>3, <2>4, <2>5 DEF Sorted
<1>13. ASSUME Kept(c, w)
       PROVE  Kept(d, v)
  <2>1. c.par[e] = w[name].par
    BY <1>2, <1>13 DEF Kept
  <2>2. s.par = p
    BY <1>5, <1>7, <2>1 DEF p
  <2> SUFFICES ASSUME NEW i \in 1 .. c.last
               PROVE  /\ d.char[i] = v[c.name[i]].char
                      /\ i <= Len(c.par) => d.par[i] = v[c.name[i]].par
    BY <1>4, <1>8 DEF Kept
  <2>3. CASE i = e
    BY <1>2, <1>5, <1>6, <1>8, <2>2, <2>3
  <2>4. CASE i # e
    <3>1. c.char[i] = w[c.name[i]].char /\ (i <= Len(c.par) => c.par[i] = w[c.name[i]].par)
      BY <1>13 DEF Kept
    <3> QED
      BY <1>8, <1>11, <2>4, <3>1
  <2> QED
    BY <2>3, <2>4
<1> QED
  BY <1>4, <1>9, <1>10, <1>12, <1>13 DEF d, v, s

(***************************************************************************)
(* AddTextItem of a new text style.                                        *)
(***************************************************************************)
LEMMA TextSorted ==
  ASSUME NEW c \in CPara, Aligned(c), NEW w, Sorted(c, w), NEW name \in StyleNames,
         name \notin DOMAIN w
  PROVE  LET d == AddTextItem(c, FALSE, name)
             v == With(w, name, Declared(w, name, FALSE))
         IN  /\ d \in CPara /\ Aligned(d) /\ Sorted(d, v) /\ AddedInUse(d, name, FALSE)
             /\ Kept(c, w) => Kept(d, v)
<1> DEFINE d == AddTextItem(c, FALSE, name)  s == Declared(w, name, FALSE)  at == c.last + 1
<1>1. c.last \in Nat /\ Len(c.par) \in Nat /\ Len(c.par) <= c.last
      /\ Len(c.name) = c.last /\ Len(c.char) = c.last /\ ~ c.panic /\ c.global <= Len(c.par)
  BY DEF CPara, Aligned, Sorted, InUse
<1>2. /\ d \in CPara
      /\ IsInserted(d.name, c.name, at, name) /\ IsInserted(d.char, c.char, at, "fresh")
      /\ d.par = c.par /\ d.pos = at /\ d.global = c.global /\ d.last = at /\ d.panic = c.panic
  <2>1. Exists(c, name) = 0
    BY NamesFound
  <2> QED
    BY <2>1, AddText
<1>3. ~ d.panic => Aligned(d)
  BY AddAligned
<1>4. s.char = "fresh" /\ ~ (s.par.from # "none")
  BY DeclaredParts
<1> HIDE DEF d, s
<1>5. OneMore(c, d, at)
  BY <1>1, <1>2, SMTT(30) DEF OneMore, Old, IsInserted
<1>6. InUse(d) /\ AddedInUse(d, name, FALSE)
  BY <1>1, <1>2 DEF InUse, AddedInUse, IsInserted
<1>7. d.name[at] = name /\ d.char[at] = s.char /\ ~ (at <= Len(d.par))
  BY <1>1, <1>2, <1>4 DEF IsInserted
<1> HIDE DEF at
<1>8. Sorted(d, With(w, name, s))
  BY <1>2, <1>4, <1>5, <1>6, <1>7, OneMoreSorted
<1>9. Kept(c, w) => Kept(d, With(w, name, s))
  BY <1>2, <1>5, <1>7, OneMoreKept
<1> QED
  BY <1>1, <1>2, <1>3, <1>6, <1>8, <1>9 DEF d, s

(***************************************************************************)
(* AddTextItem of a new paragraph style.                                   *)
(***************************************************************************)
LEMMA ParaSorted ==
  ASSUME NEW c \in CPara, Aligned(c), NEW w, Sorted(c, w), NEW name \in StyleNames,
         name \notin DOMAIN w
  PROVE  LET d == AddTextItem(c, TRUE, name)
             v == With(w, name, Declared(w, name, TRUE))
         IN  /\ d \in CPara /\ Aligned(d) /\ Sorted(d, v) /\ AddedInUse(d, name, TRUE)
             /\ Kept(c, w) => Kept(d, v)
<1> DEFINE d == AddTextItem(c, TRUE, name)  s == Declared(w, name, TRUE)  at == c.global + 1
           p == [from |-> "reset", bullet |-> FALSE]
<1>1. c.last \in Nat /\ Len(c.par) \in Nat /\ Len(c.par) <= c.last /\ c.global \in Nat
      /\ Len(c.name) = c.last /\ Len(c.char) = c.last /\ ~ c.panic /\ c.global <= Len(c.par)
      /\ c.global <= c.last /\ c.pos \in Nat /\ c.pos <= c.last
  BY DEF CPara, Aligned, Sorted, InUse
<1>2. d \in CPara /\ ParaAdded(c, d, name)
  <2>1. Exists(c, name) = 0
    BY NamesFound
  <2> QED
    BY <2>1, AddPara
<1>3. ~ d.panic => Aligned(d)
  BY AddAligned
<1>4. s.char = "reset" /\ s.par.from # "none" /\ s.par = p
  BY DeclaredParts
<1> HIDE DEF d, s, p
<1>5. c.pos = c.global \/ c.last # c.global
  BY <1>1 DEF Sorted, InUse
<1>6. Grown(c, d, name, at)
  <2>1. PICK pos \in 1 .. c.last + 1 :
          Grown(c, d, name, pos) /\ (c.pos = c.global \/ c.last # c.global => pos = at)
    BY <1>1, <1>2 DEF ParaAdded
  <2> QED
    BY <1>5, <2>1
<1>7. /\ IsInserted(d.name, c.name, at, name) /\ IsInserted(d.char, c.char, at, "reset")
      /\ IsInserted(d.par, c.par, at, p)
      /\ d.pos = at /\ d.global = at /\ d.last = c.last + 1 /\ d.panic = c.panic
  BY <1>6 DEF Grown, p
<1>8. OneMore(c, d, at)
  <2>1. Len(d.par) = Len(c.par) + 1 /\ at \in 1 .. d.last /\ at <= Len(c.par) + 1
    BY <1>1, <1>7, SMTT(30) DEF IsInserted
  <2>2. ASSUME NEW i \in 1 .. at - 1
        PROVE  /\ i \in 1 .. c.last /\ Old(i, at) = i /\ i <= Len(c.par)
               /\ d.name[i] = c.name[i] /\ d.char[i] = c.char[i] /\ d.par[i] = c.par[i]
    <3>1. i \in 1 .. c.last /\ Old(i, at) = i /\ i <= Len(c.par)
      BY <1>1 DEF Old
    <3> HIDE DEF at
    <3> QED
      BY <1>7, <3>1 DEF IsInserted
  <2>3. ASSUME NEW i \in at + 1 .. d.last
        PROVE  /\ i - 1 \in 1 .. c.last /\ Old(i, at) = i - 1
               /\ d.name[i] = c.name[i - 1] /\ d.char[i] = c.char[i - 1]
               /\ i <= Len(d.par) <=> i - 1 <= Len(c.par)
               /\ i <= Len(d.par) => d.par[i] = c.par[i - 1]
    <3>1. i \in at + 1 .. Len(c.name) + 1 /\ i \in at + 1 .. Len(c.char) + 1 /\ at \in Nat
      BY <1>1, <1>7
    <3>2. i <= Len(d.par) => i \in at + 1 .. Len(c.par) + 1
      BY <1>1, <2>1, <3>1
    <3>3. i - 1 \in 1 .. c.last /\ Old(i, at) = i - 1 /\ (i <= Len(d.par) <=> i - 1 <= Len(c.par))
      BY <1>1, <1>7, <2>1, <3>1 DEF Old
    <3> QED
      BY <1>7, <3>1, <3>2, <3>3 DEF IsInserted
  <2>4. \A i \in 1 .. d.last : i # at => i \in 1 .. at - 1 \/ i \in at + 1 .. d.last
    BY <1>1
  <2>5. \A i \in 1 .. at - 1 : i <= Len(d.par) /\ i <= Len(c.par)
    BY <1>1, <2>1, <2>2
  <2> HIDE DEF at
  <2> QED
    BY <1>7, <2>1, <2>2, <2>3, <2>4, <2>5 DEF OneMore
<1>9. InUse(d) /\ AddedInUse(d, name, TRUE)
  <2>1. Len(d.par) = Len(c.par) + 1 /\ d.name[at] = name
    BY <1>7 DEF IsInserted
  <2>2. d.pos \in 1 .. d.last /\ d.pos <= Len(d.par) /\ d.pos = d.global /\ d.name[d.pos] = name
    BY <1>1, <1>7, <2>1
  <2>3. ~ d.panic
    BY <1>1, <1>7
  <2> QED
    BY <2>2, <2>3 DEF InUse, AddedInUse
<1>10. d.name[at] = name /\ d.char[at] = s.char /\ at <= Len(d.par) /\ d.par[at] = s.par
  BY <1>1, <1>4, <1>7 DEF IsInserted
<1> HIDE DEF at
<1>11. Sorted(d, With(w, name, s))
  BY <1>2, <1>4, <1>8, <1>9, <1>10, OneMoreSorted
<1>12. Kept(c, w) => Kept(d, With(w, name, s))
  BY <1>2, <1>8, <1>10, OneMoreKept
<1> QED
  BY <1>1, <1>2, <1>3, <1>7, <1>9, <1>11, <1>12 DEF d, s

(***************************************************************************)
(* SetParent, with the wish for the parent's formats.                      *)
(***************************************************************************)
LEMMA ParentSorted ==
  ASSUME NEW c \in CPara, Aligned(c), NEW w, Sorted(c, w), NEW name, NEW init \in BOOLEAN,
         AddedInUse(c, name, init), NEW parent, parent # name,
         parent \in DOMAIN w => (init <=> w[parent].par.from # "none")
  PROVE  LET d == SetParent(c, parent)
             v == IF parent \in DOMAIN w THEN With(w, name, w[parent]) ELSE w
         IN  /\ d \in CPara /\ Aligned(d) /\ Sorted(d, v) /\ AddedInUse(d, name, init)
             /\ Kept(c, w) /\ (parent \in DOMAIN w /\ init) => Kept(d, v)
<1> DEFINE d == SetParent(c, parent)  i == Exists(c, parent)
           v == IF parent \in DOMAIN w THEN With(w, name, w[parent]) ELSE w
<1>1. /\ c.char \in Seq(Formats) /\ c.par \in Seq(ParaFormats) /\ c.last \in Nat /\ Len(c.par) \in Nat
      /\ Len(c.char) = c.last /\ Len(c.par) <= c.last /\ c.pos \in Nat /\ ~ c.panic
  BY DEF CPara, Aligned, Sorted, InUse
<1>2. d \in CPara /\ ParentSet(c, d, i) /\ (~ d.panic => Aligned(d))
  BY ParentCopied, ParentAligned
<1>3. /\ i # 0 <=> parent \in DOMAIN w
      /\ parent \in DOMAIN w => /\ i \in 1 .. c.last /\ c.name[i] = parent
                                /\ i <= Len(c.par) <=> w[parent].par.from # "none"
  BY NamesFound
<1> HIDE DEF d, i
<1>4. CASE parent \notin DOMAIN w
  <2>1. d = c /\ v = w
    BY <1>2, <1>3, <1>4 DEF ParentSet
  <2> HIDE DEF v
  <2> QED
    BY <1>4, <2>1 DEF d, v
<1>5. CASE parent \in DOMAIN w
  <2>1. v = With(w, name, w[parent])
    BY <1>5
  <2>2. name \in DOMAIN w /\ c.pos \in 1 .. c.last /\ c.name[c.pos] = name
        /\ (init <=> c.pos <= Len(c.par))
    BY <1>1 DEF AddedInUse, Sorted
  <2>3. DOMAIN v = DOMAIN w /\ v[name] = w[parent] /\ \A n \in DOMAIN w : n # name => v[n] = w[n]
    <3>1. DOMAIN w \cup {name} = DOMAIN w
      BY <2>2
    <3> QED
      BY <2>1, <3>1 DEF With
  <2> HIDE DEF v
  <2>4. init <=> i <= Len(c.par)
    BY <1>3, <1>5
  <2>5. /\ d.name = c.name /\ d.pos = c.pos /\ d.global = c.global /\ d.last = c.last /\ ~ d.panic
        /\ init => /\ d.par = [c.par EXCEPT ![c.pos] = c.par[i]]
                   /\ d.char = [c.char EXCEPT ![c.pos] = c.char[i]]
        /\ ~ init => d.par = c.par
    <3>1. CASE init
      <4>1. i # 0 /\ c.pos <= Len(c.par) /\ i <= Len(c.par)
        BY <1>3, <1>5, <2>2, <2>4, <3>1
      <4> QED
        BY <1>1, <1>2, <3>1, <4>1, Zenon DEF ParentSet
    <3>2. CASE ~ init
      <4>1. i # 0 /\ c.pos > Len(c.par)
        BY <1>1, <1>3, <1>5, <2>2, <3>2
      <4> QED
        BY <1>1, <1>2, <3>2, <4>1, Zenon DEF ParentSet
    <3> QED
      BY <3>1, <3>2
  <2>6. Len(d.par) = Len(c.par)
    BY <1>1, <2>5
  <2>7. \A k \in 1 .. c.last : k # c.pos =>
          c.name[k] # name /\ c.name[k] \in DOMAIN w /\ v[c.name[k]] = w[c.name[k]]
    BY <2>2, <2>3 DEF Sorted
  <2>8. Sorted(d, v)
    <3>1. InUse(d)
      BY <2>5, <2>6 DEF InUse, Sorted
    <3>2. \A k \in 1 .. d.last : d.name[k] \in DOMAIN v
      BY <2>3, <2>5 DEF Sorted
    <3>3. \A n \in DOMAIN v : \E k \in 1 .. d.last : d.name[k] = n
      BY <2>3, <2>5 DEF Sorted
    <3>4. \A k, j \in 1 .. d.last : d.name[k] = d.name[j] => k = j
      BY <2>5 DEF Sorted
    <3>5. ASSUME NEW k \in 1 .. d.last
          PROVE  k <= Len(d.par) <=> v[d.name[k]].par.from # "none"
      <4>1. CASE k = c.pos
        BY <1>5, <2>2, <2>3, <2>5, <2>6, <4>1
      <4>2. CASE k # c.pos
        <5>1. k <= Len(c.par) <=> w[c.name[k]].par.from # "none"
          BY <2>5 DEF Sorted
        <5> QED
          BY <2>5, <2>6, <2>7, <4>2, <5>1
      <4> QED
        BY <4>1, <4>2
    <3> QED
      BY <3>1, <3>2, <3>3, <3>4, <3>5 DEF Sorted
  <2>9. AddedInUse(d, name, init)
    BY <2>5, <2>6 DEF AddedInUse
  <2>10. ASSUME Kept(c, w), init
         PROVE  Kept(d, v)
    <3>1. i \in 1 .. c.last /\ i <= Len(c.par) /\ c.name[i] = parent
      BY <1>3, <1>5, <2>4, <2>10
    <3>2. c.char[i] = w[parent].char /\ c.par[i] = w[parent].par
      BY <2>10, <3>1 DEF Kept
    <3>3. /\ \A k \in 1 .. c.last : d.char[k] = IF k = c.pos THEN c.char[i] ELSE c.char[k]
          /\ \A k \in 1 .. c.last : k <= Len(c.par) => d.par[k] = IF k = c.pos THEN c.par[i] ELSE c.par[k]
      BY <1>1, <2>5, <2>10
    <3> SUFFICES ASSUME NEW k \in 1 .. c.last
                 PROVE  /\ d.char[k] = v[c.name[k]].char
                        /\ k <= Len(c.par) => d.par[k] = v[c.name[k]].par
      BY <2>5, <2>6 DEF Kept
    <3>4. CASE k = c.pos
      BY <2>2, <2>3, <3>2, <3>3, <3>4
    <3>5. CASE k # c.pos
      <4>1. c.char[k] = w[c.name[k]].char /\ (k <= Len(c.par) => c.par[k] = w[c.name[k]].par)
        BY <2>10 DEF Kept
      <4> QED
        BY <2>7, <3>3, <3>5, <4>1
    <3> QED
      BY <3>4, <3>5
  <2> QED
    BY <1>2, <2>5, <2>8, <2>9, <2>10 DEF d, v
<1> QED
  BY <1>4, <1>5

-----------------------------------------------------------------------------
\* What a document wants of a style.
Wish == [char : Formats, par : ParaFormats]

WantTyped == DOMAIN want \subseteq StyleNames /\ want \in [DOMAIN want -> Wish]

\* A document declares styles and has text by turns.
Turns ==
  /\ part \in {1, 3} => paragraph = NoParent
  /\ part \in {2, 4} => declaring = NoParent
  /\ paragraph = NoParent => spans = <<>>
  /\ declaring # NoParent => declaring \in DOMAIN want

\* A style belongs to a family it may belong to.
Families == \A n \in DOMAIN want : n \in IF IsText(n) THEN TextNames ELSE Globals

\* The positions of CPara are those of the styles at hand.
AtHand ==
  /\ declaring # NoParent => /\ iPos \in 1 .. iLast /\ iName[iPos] = declaring
                             /\ ~ IsText(declaring) => iPos = iPosGlobal
  /\ paragraph # NoParent => iPosGlobal \in 1 .. iLast /\ iName[iPosGlobal] = paragraph
  /\ spans # <<>> /\ ~ lost => iPos \in 1 .. iLast /\ iName[iPos] = Head(spans)
  /\ moved /\ spans = <<>> => iPos = iPosGlobal

Inv ==
  /\ StylesTypeOK /\ WantTyped /\ Turns
  /\ ~ panicked => Aligned(Now)
  /\ ~ again => Sorted(Now, want) /\ Families /\ AtHand
  /\ ~ again /\ ~ orphan => Kept(Now, want)

(***************************************************************************)
(* CPara as a record has the types of its variables.                       *)
(***************************************************************************)
LEMMA NowTyped ==
  ASSUME StylesTypeOK
  PROVE  /\ Now \in CPara
         /\ Now.name = iName /\ Now.char = iArrayFormat /\ Now.par = iParaFormat
         /\ Now.pos = iPos /\ Now.global = iPosGlobal /\ Now.last = iLast /\ Now.panic = panicked
BY DEF StylesTypeOK, Now, CPara

(***************************************************************************)
(* The next state of CPara is what a handler returned.                     *)
(***************************************************************************)
LEMMA NowBecomes ==
  ASSUME NEW d \in CPara, Becomes(d)
  PROVE  /\ Now' = d
         /\ iName' \in Seq(StyleNames) /\ iArrayFormat' \in Seq(Formats)
         /\ iParaFormat' \in Seq(ParaFormats) /\ iPos' \in Nat /\ iPosGlobal' \in Nat
         /\ iLast' \in Nat /\ panicked' \in BOOLEAN
<1>1. d = [name |-> d.name, char |-> d.char, par |-> d.par, pos |-> d.pos,
           global |-> d.global, last |-> d.last, panic |-> d.panic]
  BY Zenon DEF CPara
<1>2. Now' = d
  BY <1>1, Zenon DEF Becomes, Now
<1>3. /\ d.name \in Seq(StyleNames) /\ d.char \in Seq(Formats) /\ d.par \in Seq(ParaFormats)
      /\ d.pos \in Nat /\ d.global \in Nat /\ d.last \in Nat /\ d.panic \in BOOLEAN
  BY DEF CPara
<1> QED
  BY <1>2, <1>3, Zenon DEF Becomes

(***************************************************************************)
(* A declaration, as long as no name is used again for another style.      *)
(***************************************************************************)
LEMMA DeclareSorted ==
  ASSUME NEW c \in CPara, Aligned(c), NEW w, Sorted(c, w), NEW name \in StyleNames,
         NEW init \in BOOLEAN, NEW parent, parent # name,
         Exists(c, name) # 0 => Exists(c, name) = c.global /\ c.pos = c.global /\ init,
         parent \in DOMAIN w => (init <=> w[parent].par.from # "none"),
         NEW none, none \notin DOMAIN w, none # name
  PROVE  LET e == AddTextItem(c, init, name)
             d == IF parent = none \/ e.panic THEN e ELSE SetParent(e, parent)
             v == With(w, name, IF parent # none /\ parent \in DOMAIN w THEN w[parent]
                                ELSE Declared(w, name, init))
         IN  /\ d \in CPara /\ Aligned(d) /\ Sorted(d, v) /\ AddedInUse(d, name, init)
             /\ Kept(c, w) /\ (parent # none => parent \in DOMAIN w /\ init) => Kept(d, v)
<1> DEFINE e == AddTextItem(c, init, name)
           d == IF parent = none \/ e.panic THEN e ELSE SetParent(e, parent)
           v == With(w, name, IF parent # none /\ parent \in DOMAIN w THEN w[parent]
                              ELSE Declared(w, name, init))
           u == With(w, name, Declared(w, name, init))
<1>1. /\ e \in CPara /\ Aligned(e) /\ Sorted(e, u) /\ AddedInUse(e, name, init)
      /\ Kept(c, w) => Kept(e, u)
  <2>1. CASE name \in DOMAIN w
    <3>1. Exists(c, name) # 0
      BY <2>1, NamesFound
    <3>2. Exists(c, name) = c.global /\ c.pos = c.global /\ init = TRUE
      BY <3>1
    <3> QED
      BY <2>1, <3>2, AgainSorted
  <2>2. CASE name \notin DOMAIN w /\ init
    <3>1. init = TRUE
      BY <2>2
    <3> QED
      BY <2>2, <3>1, ParaSorted
  <2>3. CASE name \notin DOMAIN w /\ ~ init
    <3>1. init = FALSE
      BY <2>3
    <3> QED
      BY <2>3, <3>1, TextSorted
  <2> QED
    BY <2>1, <2>2, <2>3
<1>2. ~ e.panic
  BY <1>1 DEF Sorted, InUse
<1>3. DOMAIN u = DOMAIN w \cup {name} /\ \A n \in DOMAIN w : n # name => u[n] = w[n]
  BY DEF With
<1>4. CASE parent = none
  <2>1. d = e /\ v = u
    BY <1>4
  <2> HIDE DEF d, e, v, u
  <2> QED
    BY <1>1, <1>4, <2>1 DEF d, e, v, u
<1>5. CASE parent # none
  <2> DEFINE f == SetParent(e, parent)
             x == IF parent \in DOMAIN u THEN With(u, name, u[parent]) ELSE u
  <2>1. d = f
    BY <1>2, <1>5
  <2>2. v = x
    <3>1. CASE parent \in DOMAIN w
      <4>1. parent \in DOMAIN u /\ u[parent] = w[parent]
        BY <1>3, <3>1
      <4>2. v = With(w, name, w[parent])
        BY <1>5, <3>1
      <4>3. With(u, name, w[parent]) = With(w, name, w[parent])
        <5>1. DOMAIN u \cup {name} = DOMAIN w \cup {name}
          BY <1>3
        <5>2. \A n \in DOMAIN w \cup {name} : (IF n # name THEN u[n] ELSE w[parent]) = (IF n # name THEN w[n] ELSE w[parent])
          BY <1>3
        <5> HIDE DEF u
        <5> QED
          BY <5>1, <5>2 DEF With
      <4> QED
        BY <4>1, <4>2, <4>3
    <3>2. CASE parent \notin DOMAIN w
      <4>1. parent \notin DOMAIN u
        BY <1>3, <3>2
      <4> QED
        BY <3>2, <4>1
    <3> QED
      BY <3>1, <3>2
  <2>3. parent \in DOMAIN u <=> parent \in DOMAIN w
    BY <1>3
  <2>4. parent \in DOMAIN u => (init <=> u[parent].par.from # "none")
    BY <1>3, <2>3
  <2> HIDE DEF e, u
  <2>5. /\ f \in CPara /\ Aligned(f) /\ Sorted(f, x) /\ AddedInUse(f, name, init)
        /\ Kept(e, u) /\ (parent \in DOMAIN u /\ init) => Kept(f, x)
    BY <1>1, <2>4, ParentSorted
  <2> HIDE DEF d, f, v, x
  <2>6. d \in CPara /\ Aligned(d) /\ Sorted(d, v) /\ AddedInUse(d, name, init)
    BY <2>1, <2>2, <2>5
  <2>7. Kept(c, w) /\ (parent # none => parent \in DOMAIN w /\ init) => Kept(d, v)
    BY <1>1, <1>5, <2>1, <2>2, <2>3, <2>5
  <2> QED
    BY <2>6, <2>7 DEF d, e, v
<1> QED
  BY <1>4, <1>5

\* What the document wants after a declaration.
WantAfter(name, init, parent) ==
  With(want, name, IF parent # NoParent /\ parent \in DOMAIN want THEN want[parent]
                   ELSE Declared(want, name, init))

(***************************************************************************)
(* Wishes stay wishes.                                                     *)
(***************************************************************************)
LEMMA WantAfterTyped ==
  ASSUME WantTyped, NEW name \in StyleNames, NEW init \in BOOLEAN, NEW parent,
         want' = WantAfter(name, init, parent)
  PROVE  WantTyped' /\ DOMAIN want' = DOMAIN want \cup {name}
<1> DEFINE s == IF parent # NoParent /\ parent \in DOMAIN want THEN want[parent]
                ELSE Declared(want, name, init)
<1>1. Declared(want, name, init) \in Wish
  <2> DEFINE f == IF init THEN "reset" ELSE "none"  b == name \in DOMAIN want /\ want[name].par.bullet
             ch == IF init THEN "reset" ELSE "fresh"  p == [from |-> f, bullet |-> b]
  <2>1. f \in Formats /\ b \in BOOLEAN /\ ch \in Formats
    BY DEF Formats
  <2>2. Declared(want, name, init) = [char |-> ch, par |-> p]
    BY Zenon DEF Declared
  <2> HIDE DEF f, b, ch
  <2>3. p \in ParaFormats
    BY <2>1 DEF ParaFormats
  <2> HIDE DEF p
  <2> QED
    BY <2>1, <2>2, <2>3 DEF Wish
<1>2. s \in Wish
  BY <1>1 DEF WantTyped
<1>3. want' = [n \in DOMAIN want \cup {name} |-> IF n # name THEN want[n] ELSE s]
  BY DEF WantAfter, With
<1> HIDE DEF s
<1> QED
  BY <1>2, <1>3 DEF WantTyped

(***************************************************************************)
(* style:style and style:default-style keep the invariant.                 *)
(***************************************************************************)
LEMMA DeclareStep ==
  ASSUME Inv, NEW name \in StyleNames, NEW init \in BOOLEAN,
         NEW parent \in StyleNames \cup {NoParent}, Declare(name, init, parent)
  PROVE  Inv'
<1> DEFINE c == Now
           e == AddTextItem(c, init, name)
           d == IF parent = NoParent \/ e.panic THEN e ELSE SetParent(e, parent)
           v == WantAfter(name, init, parent)
<1>1. /\ c \in CPara /\ c.pos = iPos /\ c.global = iPosGlobal /\ c.last = iLast /\ Aligned(c)
      /\ WantTyped /\ NoParent \notin DOMAIN want /\ NoParent # name
  BY NowTyped, StyleConstants DEF Inv, Declare, WantTyped
<1>2. e \in CPara /\ (~ e.panic => Aligned(e))
  <2> HIDE DEF c
  <2> QED
    BY <1>1, AddAligned
<1>3. Becomes(d)
  BY DEF Declare
<1>4. want' = v
  BY DEF Declare, WantAfter, With, Declared, IsDeclared
<1>5. /\ part' = part /\ paragraph' = paragraph /\ spans' = spans /\ paragraphs' = paragraphs
      /\ lost' = lost /\ moved' = FALSE /\ declaring' = name /\ declared' = declared + 1
      /\ part \in {1, 3} /\ declared < MaxDeclared /\ parent # name
      /\ again' = (again \/ (Exists(c, name) \notin {0, iPosGlobal})
                         \/ (Exists(c, name) # 0 /\ (iPos # iPosGlobal \/ ~ init))
                         \/ (IsDeclared(parent) /\ IsText(parent) = init))
      /\ orphan' = (orphan \/ (parent # NoParent /\ ~ (IsDeclared(parent) /\ init)))
      /\ name \in IF init THEN Globals ELSE TextNames
  BY DEF Declare
<1> HIDE DEF c, e
<1>6. d \in CPara /\ (~ d.panic => Aligned(d))
  <2>1. CASE parent = NoParent \/ e.panic
    BY <1>2, <2>1
  <2>2. CASE ~ (parent = NoParent \/ e.panic)
    <3>1. d = SetParent(e, parent) /\ Aligned(e)
      BY <1>2, <2>2
    <3> QED
      BY <1>2, <3>1, ParentAligned
  <2> QED
    BY <2>1, <2>2
<1> HIDE DEF d
<1>7. /\ Now' = d /\ iName' \in Seq(StyleNames) /\ iArrayFormat' \in Seq(Formats)
      /\ iParaFormat' \in Seq(ParaFormats) /\ iPos' \in Nat /\ iPosGlobal' \in Nat
      /\ iLast' \in Nat /\ panicked' \in BOOLEAN
  BY <1>3, <1>6, NowBecomes
<1>8. StylesTypeOK'
  <2>1. declared' \in 0 .. MaxDeclared
    BY <1>5, StyleConstants DEF Inv, StylesTypeOK
  <2>2. {again, orphan, moved, lost}' \subseteq BOOLEAN
    BY <1>5 DEF Inv, StylesTypeOK
  <2> QED
    BY <1>5, <1>7, <2>1, <2>2 DEF Inv, StylesTypeOK
<1>9. /\ iName' = d.name /\ iPos' = d.pos /\ iPosGlobal' = d.global /\ iLast' = d.last
      /\ panicked' = d.panic /\ iParaFormat' = d.par
  BY <1>3 DEF Becomes
<1>10. WantTyped' /\ DOMAIN want' = DOMAIN want \cup {name}
  BY <1>1, <1>4, WantAfterTyped
<1>11. Turns'
  BY <1>1, <1>5, <1>10, StyleConstants DEF Inv, Turns
<1>12. ~ panicked' => Aligned(Now')
  BY <1>6, <1>7, <1>9
<1>13. ASSUME ~ again'
       PROVE  /\ Sorted(Now', want') /\ Families' /\ AtHand'
              /\ ~ orphan' => Kept(Now', want')
  <2>1. /\ ~ again /\ (Exists(c, name) # 0 => Exists(c, name) = c.global /\ c.pos = c.global /\ init)
        /\ parent \in DOMAIN want => (init <=> want[parent].par.from # "none")
    BY <1>1, <1>5, <1>13 DEF IsDeclared, IsText, Inv, StylesTypeOK
  <2>2. Sorted(c, want)
    BY <2>1 DEF Inv, c
  <2>3. /\ Sorted(d, v) /\ AddedInUse(d, name, init)
        /\ Kept(c, want) /\ (parent # NoParent => parent \in DOMAIN want /\ init) => Kept(d, v)
    BY <1>1, <1>5, <2>1, <2>2, DeclareSorted DEF d, e, v, WantAfter
  <2>4. ~ orphan' => Kept(d, v)
    BY <1>5, <2>1, <2>3 DEF Inv, IsDeclared, c
  <2>5. ~ IsText(name)' <=> init
    BY <1>4, <2>1, <2>3 DEF IsText, Sorted, AddedInUse
  <2>6. \A n \in DOMAIN want : n # name => want'[n] = want[n]
    BY <1>4 DEF v, WantAfter, With
  <2>7. Families'
    BY <1>5, <1>10, <2>1, <2>5, <2>6 DEF Inv, Families, IsText
  <2>8. AtHand'
    <3>1. paragraph' = NoParent /\ spans' = <<>>
      BY <1>5 DEF Inv, Turns
    <3> QED
      BY <1>5, <1>9, <2>3, <2>5, <3>1 DEF AtHand, AddedInUse
  <2> QED
    BY <1>4, <1>7, <2>3, <2>4, <2>7, <2>8
<1> QED
  BY <1>8, <1>10, <1>11, <1>12, <1>13 DEF Inv

-----------------------------------------------------------------------------
(***************************************************************************)
(* Another format for a style, or another style in use, keeps the order.   *)
(***************************************************************************)
LEMMA OrderKept ==
  ASSUME NEW c \in CPara, NEW d \in CPara, NEW w, NEW v, Sorted(c, w), InUse(d),
         d.name = c.name, d.last = c.last, Len(d.par) = Len(c.par), DOMAIN v = DOMAIN w,
         \A n \in DOMAIN w : v[n].par.from # "none" <=> w[n].par.from # "none"
  PROVE  Sorted(d, v)
BY DEF Sorted

\* From c to d only the style at k changes its formats, to those now wanted.
Formatted(c, d, w, v, k) ==
  /\ k \in 1 .. c.last
  /\ d.name = c.name /\ d.last = c.last /\ Len(d.par) = Len(c.par)
  /\ \A n \in DOMAIN w : n # c.name[k] => v[n] = w[n]
  /\ \A i \in 1 .. c.last : i # k => d.char[i] = c.char[i]
  /\ \A i \in 1 .. c.last : i # k /\ i <= Len(c.par) => d.par[i] = c.par[i]
  /\ d.char[k] = v[c.name[k]].char
  /\ k <= Len(c.par) => d.par[k] = v[c.name[k]].par

(***************************************************************************)
(* Then all formats stay as wanted.                                        *)
(***************************************************************************)
LEMMA FormatKept ==
  ASSUME NEW c \in CPara, NEW d \in CPara, NEW w, NEW v, Sorted(c, w), Kept(c, w),
         NEW k, Formatted(c, d, w, v, k)
  PROVE  Kept(d, v)
<1> USE DEF Formatted
<1> SUFFICES ASSUME NEW i \in 1 .. c.last
             PROVE  /\ d.char[i] = v[c.name[i]].char
                    /\ i <= Len(c.par) => d.par[i] = v[c.name[i]].par
  BY DEF Kept
<1>1. CASE i = k
  BY <1>1
<1>2. CASE i # k
  <2>1. c.name[i] # c.name[k] /\ c.name[i] \in DOMAIN w
    BY <1>2 DEF Sorted
  <2>2. c.char[i] = w[c.name[i]].char /\ (i <= Len(c.par) => c.par[i] = w[c.name[i]].par)
    BY DEF Kept
  <2> QED
    BY <1>2, <2>1, <2>2
<1> QED
  BY <1>1, <1>2

\* One part of one wish changed.
WishChar(w, name, f) == [w EXCEPT ![name].char = f]
WishFrom(w, name, f) == [w EXCEPT ![name].par.from = f]
WishBullet(w, name) == [w EXCEPT ![name].par.bullet = TRUE]

\* All of one wish changed.
Wished(w, name, ch, p) == [w EXCEPT ![name] = [char |-> ch, par |-> p]]

\* v is w but for a wish, which is for ch and p.
Changed(v, w, name, ch, p) ==
  /\ DOMAIN v = DOMAIN w /\ v \in [DOMAIN w -> Wish]
  /\ v[name].char = ch /\ v[name].par = p
  /\ \A n \in DOMAIN w : n # name => v[n] = w[n]

(***************************************************************************)
(* The formats a document sets in a declaration or a list, one by one.     *)
(***************************************************************************)
LEMMA WishChanged ==
  ASSUME NEW w, w \in [DOMAIN w -> Wish], NEW name \in DOMAIN w, NEW f \in Formats
  PROVE  /\ Changed(WishChar(w, name, f), w, name, f, w[name].par)
         /\ Changed(WishFrom(w, name, f), w, name, w[name].char, [w[name].par EXCEPT !.from = f])
         /\ Changed(WishBullet(w, name), w, name, w[name].char, [w[name].par EXCEPT !.bullet = TRUE])
<1>1. w[name] \in Wish
  OBVIOUS
<1>2. w[name].char \in Formats /\ w[name].par \in ParaFormats
  BY <1>1 DEF Wish
<1>3. \A g \in Formats, p \in ParaFormats : [char |-> g, par |-> p] \in Wish
  BY DEF Wish
<1>4. [w[name].par EXCEPT !.from = f] \in ParaFormats /\ [w[name].par EXCEPT !.bullet = TRUE] \in ParaFormats
  BY <1>2, ParaFormatSet
<1>5. [w[name] EXCEPT !.char = f] = [char |-> f, par |-> w[name].par]
  BY <1>1 DEF Wish
<1>6. \A p : [w[name] EXCEPT !.par = p] = [char |-> w[name].char, par |-> p]
  BY <1>1 DEF Wish
<1>7. WishChar(w, name, f) = Wished(w, name, f, w[name].par)
  BY <1>5 DEF WishChar, Wished
<1>8. WishFrom(w, name, f) = Wished(w, name, w[name].char, [w[name].par EXCEPT !.from = f])
  BY <1>6 DEF WishFrom, Wished
<1>9. WishBullet(w, name) = Wished(w, name, w[name].char, [w[name].par EXCEPT !.bullet = TRUE])
  BY <1>6 DEF WishBullet, Wished
<1>10. ASSUME NEW g \in Formats, NEW p \in ParaFormats
       PROVE  Changed(Wished(w, name, g, p), w, name, g, p)
  <2> DEFINE s == [char |-> g, par |-> p]
  <2>1. s \in Wish /\ s.char = g /\ s.par = p
    BY <1>3
  <2> HIDE DEF s
  <2>2. Changed([w EXCEPT ![name] = s], w, name, g, p)
    BY <2>1 DEF Changed
  <2> QED
    BY <2>2 DEF s, Wished
<1> QED
  BY <1>2, <1>4, <1>7, <1>8, <1>9, <1>10

(***************************************************************************)
(* The setter of characters.                                               *)
(***************************************************************************)
LEMMA CharFormatted ==
  ASSUME NEW c \in CPara, NEW name \in Formats
  PROVE  LET d == FormatChar(c, name)
         IN  /\ d \in CPara /\ d.name = c.name /\ d.par = c.par /\ d.pos = c.pos
             /\ d.global = c.global /\ d.last = c.last /\ d.panic = c.panic
             /\ d.char = [c.char EXCEPT ![c.pos] = name]
<1> DEFINE ch == [c.char EXCEPT ![c.pos] = name]  d == FormatChar(c, name)
<1>1. ch \in Seq(Formats)
  BY FormatSet DEF CPara
<1>2. d = [c EXCEPT !.char = ch]
  BY DEF FormatChar, CPara
<1> HIDE DEF ch, d
<1>3. /\ d \in CPara /\ d.name = c.name /\ d.par = c.par /\ d.pos = c.pos
      /\ d.global = c.global /\ d.last = c.last /\ d.panic = c.panic /\ d.char = ch
  BY <1>1, <1>2 DEF CPara
<1> QED
  BY <1>3 DEF ch, d

(***************************************************************************)
(* The setters of paragraphs; outside the array they set nothing.          *)
(***************************************************************************)
LEMMA ParaReplaced ==
  ASSUME NEW c \in CPara, NEW pr \in Seq(ParaFormats)
  PROVE  LET d == [c EXCEPT !.par = pr]
         IN  /\ d \in CPara /\ d.name = c.name /\ d.par = pr /\ d.pos = c.pos
             /\ d.global = c.global /\ d.last = c.last /\ d.panic = c.panic /\ d.char = c.char
BY DEF CPara

\* One part of one format of a paragraph set.
WithFrom(s, n, f) == [s EXCEPT ![n].from = f]
WithBullet(s, n) == [s EXCEPT ![n].bullet = TRUE]

\* t is s with p at n, if there is an n.
Replaced(t, s, n, p) ==
  /\ t \in Seq(ParaFormats) /\ Len(t) = Len(s)
  /\ \A k \in 1 .. Len(s) : t[k] = IF k = n THEN p ELSE s[k]

(***************************************************************************)
(* Where there is no such format, nothing is set.                          *)
(***************************************************************************)
LEMMA ParaPartSet ==
  ASSUME NEW s \in Seq(ParaFormats), NEW n \in Nat, NEW f \in Formats
  PROVE  /\ Replaced(WithFrom(s, n, f), s, n, [s[n] EXCEPT !.from = f])
         /\ Replaced(WithBullet(s, n), s, n, [s[n] EXCEPT !.bullet = TRUE])
<1>1. Len(s) \in Nat /\ DOMAIN s = 1 .. Len(s)
  OBVIOUS
<1>2. CASE n \in DOMAIN s
  <2>1. s[n] \in ParaFormats
    BY <1>2
  <2>2. [s[n] EXCEPT !.from = f] \in ParaFormats /\ [s[n] EXCEPT !.bullet = TRUE] \in ParaFormats
    BY <2>1, ParaFormatSet
  <2>3. WithFrom(s, n, f) = [s EXCEPT ![n] = [s[n] EXCEPT !.from = f]]
        /\ WithBullet(s, n) = [s EXCEPT ![n] = [s[n] EXCEPT !.bullet = TRUE]]
    BY DEF WithFrom, WithBullet
  <2> QED
    BY <1>1, <2>2, <2>3, ParaSet DEF Replaced
<1>3. CASE n \notin DOMAIN s
  <2>1. WithFrom(s, n, f) = s /\ WithBullet(s, n) = s
    BY <1>1, <1>3 DEF WithFrom, WithBullet
  <2>2. \A k \in 1 .. Len(s) : k # n
    BY <1>1, <1>3
  <2> QED
    BY <2>1, <2>2 DEF Replaced
<1> QED
  BY <1>2, <1>3

(***************************************************************************)
(* The setter of paragraph formats.                                        *)
(***************************************************************************)
LEMMA ParaFormatted ==
  ASSUME NEW c \in CPara, NEW name \in Formats
  PROVE  LET d == FormatPara(c, name)
         IN  /\ d \in CPara /\ d.name = c.name /\ d.char = c.char /\ d.pos = c.pos
             /\ d.global = c.global /\ d.last = c.last /\ d.panic = c.panic
             /\ Replaced(d.par, c.par, c.global, [c.par[c.global] EXCEPT !.from = name])
<1> DEFINE pr == WithFrom(c.par, c.global, name)  d == FormatPara(c, name)
<1>1. c.par \in Seq(ParaFormats) /\ c.global \in Nat
  BY DEF CPara
<1>2. Replaced(pr, c.par, c.global, [c.par[c.global] EXCEPT !.from = name])
  BY <1>1, ParaPartSet
<1>3. pr \in Seq(ParaFormats)
  BY <1>2 DEF Replaced
<1>4. d = [c EXCEPT !.par = pr]
  BY DEF FormatPara, CPara, WithFrom
<1> HIDE DEF pr, d
<1>5. /\ d \in CPara /\ d.name = c.name /\ d.par = pr /\ d.pos = c.pos
      /\ d.global = c.global /\ d.last = c.last /\ d.panic = c.panic /\ d.char = c.char
  BY <1>3, <1>4 DEF CPara
<1> QED
  BY <1>2, <1>5 DEF d

(***************************************************************************)
(* The setter of bullets.                                                  *)
(***************************************************************************)
LEMMA BulletSet ==
  ASSUME NEW c \in CPara
  PROVE  LET d == SetBulletChar(c)
         IN  /\ d \in CPara
             /\ c.panic \/ c.global \notin DOMAIN c.par => d.panic
             /\ ~ c.panic /\ c.global \in DOMAIN c.par =>
                  /\ d.name = c.name /\ d.char = c.char /\ d.pos = c.pos
                  /\ d.global = c.global /\ d.last = c.last /\ d.panic = c.panic
                  /\ Replaced(d.par, c.par, c.global, [c.par[c.global] EXCEPT !.bullet = TRUE])
<1> DEFINE pr == WithBullet(c.par, c.global)  d == SetBulletChar(c)
<1>1. CASE c.panic
  BY <1>1 DEF SetBulletChar
<1>2. CASE ~ c.panic /\ c.global \notin DOMAIN c.par
  BY <1>2, Panicked DEF SetBulletChar
<1>3. CASE ~ c.panic /\ c.global \in DOMAIN c.par
  <2>1. "none" \in Formats /\ c.par \in Seq(ParaFormats) /\ c.global \in Nat
    BY DEF Formats, CPara
  <2>2. Replaced(pr, c.par, c.global, [c.par[c.global] EXCEPT !.bullet = TRUE])
    BY <2>1, ParaPartSet
  <2>3. pr \in Seq(ParaFormats)
    BY <2>2 DEF Replaced
  <2>4. d = [c EXCEPT !.par = pr]
    BY <1>3 DEF SetBulletChar, CPara, WithBullet
  <2> HIDE DEF pr, d
  <2>5. /\ d \in CPara /\ d.name = c.name /\ d.par = pr /\ d.pos = c.pos
        /\ d.global = c.global /\ d.last = c.last /\ d.panic = c.panic /\ d.char = c.char
    BY <2>3, <2>4 DEF CPara
  <2> QED
    BY <1>3, <2>2, <2>5 DEF d
<1> QED
  BY <1>1, <1>2, <1>3

(***************************************************************************)
(* Formatting what is in use keeps the arrays parallel.                    *)
(***************************************************************************)
LEMMA StillAligned ==
  ASSUME NEW c \in CPara, NEW d \in CPara, Aligned(c), d.name = c.name,
         Len(d.char) = Len(c.char), Len(d.par) = Len(c.par),
         d.last = c.last, d.pos = c.pos, d.global = c.global
  PROVE  Aligned(d)
BY DEF Aligned

(***************************************************************************)
(* style:text-properties keep the invariant.                               *)
(***************************************************************************)
LEMMA TextPropertiesStep ==
  ASSUME Inv, TextProperties
  PROVE  Inv'
<1> DEFINE c == Now  d == FormatChar(c, declaring)
<1>1. /\ c \in CPara /\ c.name = iName /\ c.pos = iPos /\ c.global = iPosGlobal /\ c.last = iLast
      /\ c.panic = panicked
  BY NowTyped DEF Inv
<1>2. declaring \in DOMAIN want /\ declaring \in StyleNames /\ declaring \in Formats
  BY DEF TextProperties, Inv, Turns, StylesTypeOK, Formats
<1>3. /\ Becomes(d) /\ want' = [want EXCEPT ![declaring].char = declaring]
      /\ UNCHANGED <<document, again, orphan, moved, lost>> /\ ~ panicked
  BY DEF TextProperties
<1>4. Changed(want', want, declaring, declaring, want[declaring].par)
  BY <1>2, <1>3, WishChanged DEF Inv, WantTyped, WishChar
<1>5. /\ DOMAIN want' = DOMAIN want /\ want' \in [DOMAIN want -> Wish]
      /\ \A n \in DOMAIN want : n # declaring => want'[n] = want[n]
  BY <1>4 DEF Changed
<1>6. want'[declaring].char = declaring /\ want'[declaring].par = want[declaring].par
  BY <1>4 DEF Changed
<1> HIDE DEF c
<1>7. /\ d \in CPara /\ d.name = c.name /\ d.par = c.par /\ d.pos = c.pos
      /\ d.global = c.global /\ d.last = c.last /\ d.panic = c.panic
      /\ d.char = [c.char EXCEPT ![c.pos] = declaring]
  BY <1>1, <1>2, CharFormatted
<1> HIDE DEF d
<1>8. /\ Len(d.char) = Len(c.char) /\ DOMAIN c.char = 1 .. Len(c.char)
      /\ \A k \in DOMAIN c.char : d.char[k] = IF k = c.pos THEN declaring ELSE c.char[k]
  <2>1. c.char \in Seq(Formats) /\ c.pos \in Nat
    BY <1>1 DEF CPara
  <2> QED
    BY <1>2, <1>7, <2>1, FormatSet
<1>9. /\ Now' = d /\ iName' \in Seq(StyleNames) /\ iArrayFormat' \in Seq(Formats)
      /\ iParaFormat' \in Seq(ParaFormats) /\ iPos' \in Nat /\ iPosGlobal' \in Nat
      /\ iLast' \in Nat /\ panicked' \in BOOLEAN
  BY <1>3, <1>7, NowBecomes
<1>10. /\ iName' = iName /\ iPos' = iPos /\ iPosGlobal' = iPosGlobal /\ iLast' = iLast
       /\ panicked' = panicked
  BY <1>1, <1>3, <1>7 DEF Becomes
<1>11. StylesTypeOK'
  BY <1>3, <1>9 DEF Inv, StylesTypeOK, document
<1>12. WantTyped' /\ Turns'
  BY <1>3, <1>5 DEF Inv, WantTyped, Turns, document
<1>13. Aligned(c)
  BY <1>3 DEF Inv, c
<1>14. Aligned(Now')
  BY <1>1, <1>7, <1>8, <1>9, <1>13, StillAligned
<1>15. \A n \in DOMAIN want : want'[n].par = want[n].par
  BY <1>5, <1>6
<1>16. ASSUME ~ again
       PROVE  /\ Sorted(Now', want') /\ Families' /\ AtHand'
              /\ ~ orphan => Kept(Now', want')
  <2>1. Sorted(c, want) /\ Families /\ AtHand
    BY <1>16 DEF Inv, c
  <2>2. InUse(d)
    BY <1>1, <1>7, <2>1 DEF Sorted, InUse
  <2>3. Sorted(d, want')
    BY <1>1, <1>5, <1>7, <1>15, <2>1, <2>2, OrderKept
  <2>4. Families'
    BY <1>5, <1>15, <2>1 DEF Families, IsText
  <2>5. AtHand'
    BY <1>2, <1>3, <1>10, <1>15, <2>1 DEF AtHand, IsText, document
  <2>6. ASSUME ~ orphan
        PROVE  Kept(d, want')
    <3>1. Kept(c, want)
      BY <1>16, <2>6 DEF Inv, c
    <3>2. c.pos \in 1 .. c.last /\ c.name[c.pos] = declaring
      BY <1>1, <1>3, <2>1 DEF AtHand, TextProperties
    <3>3. Len(c.char) = c.last
      BY <1>13 DEF Aligned
    <3>4. d.char[c.pos] = want'[c.name[c.pos]].char
      BY <1>5, <1>6, <1>8, <3>2, <3>3
    <3>5. c.pos <= Len(c.par) => d.par[c.pos] = want'[c.name[c.pos]].par
      BY <1>2, <1>7, <1>15, <3>1, <3>2 DEF Kept
    <3>6. Formatted(c, d, want, want', c.pos)
      <4>1. \A i \in 1 .. c.last : i # c.pos => d.char[i] = c.char[i]
        BY <1>8, <3>3
      <4>2. \A n \in DOMAIN want : n # c.name[c.pos] => want'[n] = want[n]
        BY <1>5, <3>2
      <4> QED
        BY <1>7, <3>2, <3>4, <3>5, <4>1, <4>2 DEF Formatted
    <3> QED
      BY <1>1, <1>7, <2>1, <3>1, <3>6, FormatKept
  <2> QED
    BY <1>9, <2>3, <2>4, <2>5, <2>6
<1> QED
  BY <1>3, <1>11, <1>12, <1>14, <1>16 DEF Inv

(***************************************************************************)
(* style:paragraph-properties keep the invariant: a style of paragraphs    *)
(* only is in use as both styles.                                          *)
(***************************************************************************)
LEMMA ParagraphPropertiesStep ==
  ASSUME Inv, ParagraphProperties
  PROVE  Inv'
<1> DEFINE c == Now  d == FormatPara(c, declaring)
           pr == [c.par[c.global] EXCEPT !.from = declaring]
           p == [want[declaring].par EXCEPT !.from = declaring]
<1>1. /\ c \in CPara /\ c.name = iName /\ c.pos = iPos /\ c.global = iPosGlobal /\ c.last = iLast
      /\ c.panic = panicked
  BY NowTyped DEF Inv
<1>2. /\ declaring \in DOMAIN want /\ declaring \in StyleNames /\ declaring \in Formats
      /\ declaring # NoParent /\ declaring \notin TextNames /\ declaring # "none"
  BY StyleConstants DEF ParagraphProperties, Inv, Turns, StylesTypeOK, Formats, StyleNames
<1>3. /\ Becomes(d) /\ want' = [want EXCEPT ![declaring].par.from = declaring]
      /\ UNCHANGED <<document, again, orphan, moved, lost>> /\ ~ panicked
  BY DEF ParagraphProperties
<1>4. Changed(want', want, declaring, want[declaring].char, p)
  BY <1>2, <1>3, WishChanged DEF Inv, WantTyped, WishFrom
<1>5. /\ DOMAIN want' = DOMAIN want /\ want' \in [DOMAIN want -> Wish]
      /\ \A n \in DOMAIN want : n # declaring => want'[n] = want[n]
      /\ want'[declaring].char = want[declaring].char /\ want'[declaring].par = p
  BY <1>4 DEF Changed
<1>6. p.from = declaring
  <2>1. want[declaring].par \in ParaFormats
    BY <1>2 DEF Inv, WantTyped, Wish
  <2> QED
    BY <2>1 DEF ParaFormats
<1> HIDE DEF c
<1>7. /\ d \in CPara /\ d.name = c.name /\ d.char = c.char /\ d.pos = c.pos
      /\ d.global = c.global /\ d.last = c.last /\ d.panic = c.panic
      /\ Replaced(d.par, c.par, c.global, pr)
  BY <1>1, <1>2, ParaFormatted
<1> HIDE DEF d
<1>8. /\ Len(d.par) = Len(c.par)
      /\ \A k \in 1 .. Len(c.par) : d.par[k] = IF k = c.global THEN pr ELSE c.par[k]
  BY <1>7 DEF Replaced
<1>9. /\ Now' = d /\ iName' \in Seq(StyleNames) /\ iArrayFormat' \in Seq(Formats)
      /\ iParaFormat' \in Seq(ParaFormats) /\ iPos' \in Nat /\ iPosGlobal' \in Nat
      /\ iLast' \in Nat /\ panicked' \in BOOLEAN
  BY <1>3, <1>7, NowBecomes
<1>10. /\ iName' = iName /\ iPos' = iPos /\ iPosGlobal' = iPosGlobal /\ iLast' = iLast
       /\ panicked' = panicked
  BY <1>1, <1>3, <1>7 DEF Becomes
<1>11. StylesTypeOK'
  BY <1>3, <1>9 DEF Inv, StylesTypeOK, document
<1>12. WantTyped' /\ Turns'
  BY <1>3, <1>5 DEF Inv, WantTyped, Turns, document
<1>13. Aligned(c)
  BY <1>3 DEF Inv, c
<1>14. Aligned(Now')
  BY <1>1, <1>7, <1>8, <1>9, <1>13, StillAligned
<1>15. ASSUME ~ again
       PROVE  /\ Sorted(Now', want') /\ Families' /\ AtHand'
              /\ ~ orphan => Kept(Now', want')
  <2>1. Sorted(c, want) /\ Families /\ AtHand
    BY <1>15 DEF Inv, c
  <2>2. ~ IsText(declaring)
    BY <1>2, <2>1 DEF Families
  <2>3. /\ c.pos \in 1 .. c.last /\ c.name[c.pos] = declaring /\ c.pos = c.global
        /\ c.global <= Len(c.par)
    BY <1>1, <1>2, <2>1, <2>2 DEF AtHand, Sorted, InUse
  <2>4. \A n \in DOMAIN want : want'[n].par.from # "none" <=> want[n].par.from # "none"
    BY <1>2, <1>5, <1>6, <2>2 DEF IsText
  <2>5. InUse(d)
    BY <1>7, <1>8, <2>1 DEF Sorted, InUse
  <2>6. Sorted(d, want')
    BY <1>1, <1>5, <1>7, <1>8, <2>1, <2>4, <2>5, OrderKept, SMTT(30)
  <2>7. Families'
    BY <1>5, <2>1, <2>4 DEF Families, IsText
  <2>8. AtHand'
    BY <1>2, <1>3, <1>10, <2>1, <2>2, <2>3, <1>1 DEF AtHand, document
  <2>9. ASSUME ~ orphan
        PROVE  Kept(d, want')
    <3>1. Kept(c, want)
      BY <1>15, <2>9 DEF Inv, c
    <3>2. c.par[c.pos] = want[declaring].par /\ c.char[c.pos] = want[declaring].char
      BY <2>3, <3>1 DEF Kept
    <3>3. c.pos \in 1 .. Len(c.par) /\ Len(c.par) <= c.last /\ c.last \in Nat /\ Len(c.par) \in Nat
      BY <1>1, <1>13, <2>3 DEF Aligned, CPara
    <3>4. d.par[c.pos] = pr /\ pr = p
      BY <1>8, <2>3, <3>2, <3>3
    <3> HIDE DEF p, pr
    <3>5. Formatted(c, d, want, want', c.pos)
      <4>1. \A i \in 1 .. c.last : i # c.pos /\ i <= Len(c.par) => d.par[i] = c.par[i]
        BY <1>8, <2>3, <3>3
      <4>2. \A n \in DOMAIN want : n # c.name[c.pos] => want'[n] = want[n]
        BY <1>5, <2>3
      <4>3. d.char[c.pos] = want'[c.name[c.pos]].char /\ d.par[c.pos] = want'[c.name[c.pos]].par
        BY <1>5, <1>7, <2>3, <3>2, <3>4
      <4> QED
        BY <1>7, <1>8, <2>3, <4>1, <4>2, <4>3 DEF Formatted
    <3> QED
      BY <1>1, <1>7, <2>1, <3>1, <3>5, FormatKept
  <2> QED
    BY <1>9, <2>6, <2>7, <2>8, <2>9
<1> QED
  BY <1>3, <1>11, <1>12, <1>14, <1>15 DEF Inv

(***************************************************************************)
(* The parts of the document follow each other.                            *)
(***************************************************************************)
LEMMA SameStyles ==
  ASSUME Inv, UNCHANGED <<cpara, want, again, orphan>>, StylesTypeOK', Turns', ~ again => AtHand'
  PROVE  Inv'
<1>1. Now' = Now /\ want' = want /\ again' = again /\ orphan' = orphan /\ panicked' = panicked
  BY DEF Now, cpara
<1>2. WantTyped' /\ (Families <=> Families')
  BY <1>1 DEF Inv, WantTyped, Families, IsText
<1> QED
  BY <1>1, <1>2 DEF Inv

(***************************************************************************)
(* From a part to the next, and the end of a paragraph.                    *)
(***************************************************************************)
LEMMA PartStep ==
  ASSUME Inv, NextPart \/ EndParagraph
  PROVE  Inv'
<1>1. /\ UNCHANGED <<cpara, want, again, orphan>>
      /\ moved' = moved /\ lost' = lost /\ spans' = spans
      /\ declared' = declared /\ paragraphs' = paragraphs
  BY DEF NextPart, EndParagraph, history
<1>2. /\ part' \in 1 .. 4 
      /\ paragraph' = NoParent /\ spans = <<>>
      /\ declaring' = NoParent
  <2>1. part \in 1 .. 4 /\ (part \in {2, 4} => declaring = NoParent)
        /\ (part \in {1, 3} => paragraph = NoParent) /\ (paragraph = NoParent => spans = <<>>)
    BY DEF Inv, StylesTypeOK, Turns
  <2>2. CASE NextPart
    BY <2>1, <2>2 DEF NextPart
  <2>3. CASE EndParagraph
    BY <2>1, <2>3 DEF EndParagraph
  <2> QED
    BY <2>2, <2>3
<1>3. StylesTypeOK'
  <2>1. {again, orphan, moved, lost}' \subseteq BOOLEAN
    BY <1>1 DEF Inv, StylesTypeOK
  <2> QED
    BY <1>1, <1>2, <2>1 DEF Inv, StylesTypeOK, cpara
<1>4. Turns'
  BY <1>1, <1>2 DEF Turns
<1>5. AtHand => AtHand'
  BY <1>1, <1>2 DEF AtHand, cpara
<1> QED
  BY <1>1, <1>3, <1>4, <1>5, SameStyles DEF Inv

-----------------------------------------------------------------------------
\* d is c with other styles in use.
Turned(c, d, pos, global) ==
  /\ d \in CPara /\ d.name = c.name /\ d.char = c.char /\ d.par = c.par
  /\ d.last = c.last /\ d.panic = c.panic
  /\ d.pos = pos /\ d.global = global

\* What GetIndexByName makes of c when it does not panic: the style in use
\* stays, or becomes the one of the name.
Indexed(c, d, name, global) ==
  \/ Turned(c, d, c.pos, c.global)
     /\ ((global /\ c.name[c.global] = name) \/ Exists(c, name) = 0)
  \/ Turned(c, d, Exists(c, name), IF global THEN Exists(c, name) ELSE c.global)
     /\ Exists(c, name) # 0

(***************************************************************************)
(* GetIndexByName panics only before there is any paragraph style.         *)
(***************************************************************************)
LEMMA GotIndex ==
  ASSUME NEW c \in CPara, Aligned(c), NEW name, NEW global \in BOOLEAN
  PROVE  LET d == GetIndexByName(c, name, global)
         IN  /\ d \in CPara
             /\ global /\ c.global = 0 => d.panic
             /\ ~ (global /\ c.global = 0) => Indexed(c, d, name, global) /\ Aligned(d)
<1> DEFINE d == GetIndexByName(c, name, global)  e == Exists(c, name)
<1>1. e \in Nat /\ e <= c.last /\ c.last \in Nat /\ c.global \in Nat /\ c.pos \in Nat
  BY Found DEF Aligned, CPara
<1>2. CASE global /\ c.global = 0
  BY <1>2, Panicked DEF GetIndexByName
<1>3. CASE ~ (global /\ c.global = 0)
  <2>1. CASE global /\ c.name[c.global] = name
    <3>1. d = c
      BY <1>3, <2>1 DEF GetIndexByName
    <3> QED
      BY <1>3, <2>1, <3>1 DEF Indexed, Turned
  <2>2. CASE ~ (global /\ c.name[c.global] = name) /\ e = 0
    <3>1. d = c
      BY <1>3, <2>2 DEF GetIndexByName
    <3> QED
      BY <1>3, <2>2, <3>1 DEF Indexed, Turned
  <2>3. CASE ~ (global /\ c.name[c.global] = name) /\ e # 0
    <3> DEFINE g == IF global THEN e ELSE c.global
    <3>1. g \in Nat /\ g <= c.last /\ (g = 0 <=> c.global = 0)
      BY <1>1, <1>3, <2>3 DEF Aligned
    <3>2. d = [c EXCEPT !.pos = e, !.global = g]
      <4>1. d = [c EXCEPT !.pos = e, !.global = IF global THEN e ELSE @]
        BY <1>3, <2>3 DEF GetIndexByName
      <4> QED
        BY <4>1 DEF CPara
    <3> HIDE DEF d, e, g
    <3>3. Turned(c, d, e, g)
      BY <1>1, <3>1, <3>2 DEF CPara, Turned
    <3>4. Aligned(d)
      BY <1>1, <3>1, <3>3 DEF Aligned, Turned
    <3>5. Indexed(c, d, name, global)
      BY <2>3, <3>3 DEF Indexed, e, g
    <3> QED
      BY <1>3, <3>3, <3>4, <3>5 DEF Turned, d
  <2> QED
    BY <2>1, <2>2, <2>3
<1> QED
  BY <1>2, <1>3

(***************************************************************************)
(* With other styles in use, all else is as before.                        *)
(***************************************************************************)
LEMMA TurnedSorted ==
  ASSUME NEW c, NEW d, NEW pos, NEW global, Turned(c, d, pos, global), NEW w, Sorted(c, w),
         global <= Len(c.par), pos = global \/ pos > Len(c.par)
  PROVE  Sorted(d, w) /\ (Kept(c, w) => Kept(d, w))
BY DEF Turned, Sorted, InUse, Kept

(***************************************************************************)
(* text:span with a style keeps the invariant: text styles lie behind all  *)
(* paragraph styles.                                                       *)
(***************************************************************************)
LEMMA StartSpanStep ==
  ASSUME Inv, NEW name \in TextNames, StartSpan(name)
  PROVE  Inv'
<1> DEFINE c == Now  d == GetIndexByName(c, name, FALSE)
<1>1. /\ c \in CPara /\ c.name = iName /\ c.pos = iPos /\ c.global = iPosGlobal /\ c.last = iLast
      /\ c.panic = panicked /\ Aligned(c)
  BY NowTyped DEF Inv, StartSpan
<1>2. /\ Becomes(d) /\ ~ panicked /\ paragraph # NoParent /\ IsDeclared(name) /\ IsText(name)
      /\ spans' = <<name>> \o spans /\ lost' = FALSE
      /\ part' = part /\ declaring' = declaring /\ declared' = declared /\ paragraphs' = paragraphs
      /\ paragraph' = paragraph /\ want' = want /\ again' = again /\ orphan' = orphan /\ moved' = moved
  BY DEF StartSpan
<1>3. declaring = NoParent
  BY <1>2 DEF Inv, Turns, StylesTypeOK
<1> HIDE DEF c
<1>4. d \in CPara /\ Indexed(c, d, name, FALSE) /\ Aligned(d)
  BY <1>1, GotIndex
<1> HIDE DEF d
<1>5. /\ Now' = d /\ iName' \in Seq(StyleNames) /\ iArrayFormat' \in Seq(Formats)
      /\ iParaFormat' \in Seq(ParaFormats) /\ iPos' \in Nat /\ iPosGlobal' \in Nat
      /\ iLast' \in Nat /\ panicked' \in BOOLEAN
  BY <1>2, <1>4, NowBecomes
<1>6. spans' \in Seq(TextNames) /\ spans' # <<>> /\ Head(spans') = name
  <2>1. spans \in Seq(TextNames)
    BY DEF Inv, StylesTypeOK
  <2> QED
    BY <1>2, <2>1
<1>7. StylesTypeOK'
  <2>1. {again, orphan, moved, lost}' \subseteq BOOLEAN
    BY <1>2 DEF Inv, StylesTypeOK
  <2> QED
    BY <1>2, <1>5, <1>6, <2>1 DEF Inv, StylesTypeOK
<1>8. WantTyped' /\ Turns'
  BY <1>2, <1>3 DEF Inv, WantTyped, Turns
<1>9. ASSUME ~ again
      PROVE  /\ Sorted(Now', want') /\ Families' /\ AtHand'
             /\ ~ orphan => Kept(Now', want')
  <2>1. Sorted(c, want) /\ Families /\ AtHand /\ (~ orphan => Kept(c, want))
    BY <1>9 DEF Inv, c
  <2> DEFINE e == Exists(c, name)
  <2>2. e \in 1 .. c.last /\ c.name[e] = name /\ ~ (e <= Len(c.par))
    BY <1>1, <1>2, <2>1, NamesFound DEF IsDeclared, IsText
  <2>3. c.global <= Len(c.par) /\ Len(c.par) \in Nat
    BY <1>1, <2>1 DEF Sorted, InUse, CPara
  <2>4. Turned(c, d, e, c.global) /\ e > Len(c.par)
    BY <1>1, <1>4, <2>2, <2>3 DEF Indexed
  <2> HIDE DEF e
  <2>5. Sorted(d, want) /\ (Kept(c, want) => Kept(d, want))
    BY <2>1, <2>3, <2>4, TurnedSorted
  <2>6. Families'
    BY <1>2, <2>1 DEF Families, IsText
  <2>7. iPos' = e /\ iPosGlobal' = iPosGlobal /\ iName' = iName /\ iLast' = iLast
    BY <1>1, <1>2, <2>4 DEF Turned, Becomes
  <2>8. AtHand'
    BY <1>1, <1>2, <1>3, <1>6, <2>1, <2>2, <2>7 DEF AtHand
  <2> QED
    BY <1>2, <1>5, <2>1, <2>5, <2>6, <2>8
<1> QED
  BY <1>2, <1>4, <1>5, <1>7, <1>8, <1>9 DEF Inv

(***************************************************************************)
(* So does the end of a span.                                              *)
(***************************************************************************)
LEMMA EndSpanStep ==
  ASSUME Inv, EndSpan
  PROVE  Inv'
<1> DEFINE c == Now  d == [c EXCEPT !.pos = iPosGlobal]
<1>1. /\ c \in CPara /\ c.name = iName /\ c.pos = iPos /\ c.global = iPosGlobal /\ c.last = iLast
      /\ c.panic = panicked /\ Aligned(c) /\ iPosGlobal \in Nat
  BY NowTyped DEF Inv, EndSpan, StylesTypeOK
<1>2. /\ Becomes(d) /\ ~ panicked /\ spans # <<>>
      /\ spans' = Tail(spans) /\ lost' = (Len(spans) > 1)
      /\ part' = part /\ declaring' = declaring /\ declared' = declared /\ paragraphs' = paragraphs
      /\ paragraph' = paragraph /\ want' = want /\ again' = again /\ orphan' = orphan /\ moved' = moved
  BY DEF EndSpan
<1>3. declaring = NoParent /\ paragraph # NoParent
  BY <1>2 DEF Inv, Turns, StylesTypeOK
<1> HIDE DEF c
<1>4. Turned(c, d, c.global, c.global)
  BY <1>1 DEF CPara, Turned
<1>5. d \in CPara
  BY <1>4 DEF Turned
<1> HIDE DEF d
<1>6. Aligned(d)
  BY <1>1, <1>4 DEF Turned, Aligned
<1>7. /\ Now' = d /\ iName' \in Seq(StyleNames) /\ iArrayFormat' \in Seq(Formats)
      /\ iParaFormat' \in Seq(ParaFormats) /\ iPos' \in Nat /\ iPosGlobal' \in Nat
      /\ iLast' \in Nat /\ panicked' \in BOOLEAN
  BY <1>2, <1>5, NowBecomes
<1>8. /\ iPos' = iPosGlobal /\ iPosGlobal' = iPosGlobal /\ iName' = iName /\ iLast' = iLast
      /\ panicked' = panicked
  BY <1>1, <1>2, <1>4 DEF Turned, Becomes
<1>9. spans' \in Seq(TextNames) /\ (spans' # <<>> => lost') /\ lost' \in BOOLEAN
  <2>1. spans \in Seq(TextNames)
    BY DEF Inv, StylesTypeOK
  <2>2. Tail(spans) \in Seq(TextNames) /\ (Tail(spans) # <<>> => Len(spans) > 1)
    BY <1>2, <2>1
  <2>3. lost' \in BOOLEAN
    <3> DEFINE more == Len(spans) > 1
    <3>1. lost' = more
      BY <1>2
    <3>2. more \in BOOLEAN
      OBVIOUS
    <3> HIDE DEF more
    <3> QED
      BY <3>1, <3>2
  <2>4. Len(spans) > 1 => lost'
    BY <1>2, Zenon
  <2> QED
    BY <1>2, <2>2, <2>3, <2>4, Zenon
<1>10. StylesTypeOK'
  <2>1. {again, orphan, moved, lost}' \subseteq BOOLEAN
    BY <1>2, <1>9 DEF Inv, StylesTypeOK
  <2> QED
    BY <1>2, <1>7, <1>9, <2>1 DEF Inv, StylesTypeOK
<1>11. WantTyped' /\ Turns'
  BY <1>2, <1>3 DEF Inv, WantTyped, Turns
<1>12. ASSUME ~ again
       PROVE  /\ Sorted(Now', want') /\ Families' /\ AtHand'
              /\ ~ orphan => Kept(Now', want')
  <2>1. Sorted(c, want) /\ Families /\ AtHand /\ (~ orphan => Kept(c, want))
    BY <1>12 DEF Inv, c
  <2>2. c.global <= Len(c.par)
    BY <2>1 DEF Sorted, InUse
  <2>3. Sorted(d, want) /\ (Kept(c, want) => Kept(d, want))
    BY <1>4, <2>1, <2>2, TurnedSorted
  <2>4. Families'
    BY <1>2, <2>1 DEF Families, IsText
  <2>5. AtHand'
    BY <1>2, <1>3, <1>8, <1>9, <2>1 DEF AtHand
  <2> QED
    BY <1>2, <1>7, <2>1, <2>3, <2>4, <2>5
<1> QED
  BY <1>2, <1>6, <1>7, <1>10, <1>11, <1>12 DEF Inv

(***************************************************************************)
(* AddTextL finds the paragraph style among the paragraph formats, so it   *)
(* keeps the invariant.                                                    *)
(***************************************************************************)
LEMMA AddTextStep ==
  ASSUME Inv, AddTextL
  PROVE  Inv'
<1> DEFINE out == iPosGlobal # 0 /\ iPosGlobal \notin DOMAIN iParaFormat
<1>1. /\ ~ panicked /\ panicked' = out
      /\ iName' = iName /\ iArrayFormat' = iArrayFormat /\ iParaFormat' = iParaFormat
      /\ iPos' = iPos /\ iPosGlobal' = iPosGlobal /\ iLast' = iLast
      /\ document' = document /\ want' = want /\ again' = again /\ orphan' = orphan
      /\ moved' = moved /\ lost' = lost
  BY DEF AddTextL
<1>2. out \in BOOLEAN
  OBVIOUS
<1>3. /\ Now.name = iName /\ Now.char = iArrayFormat /\ Now.par = iParaFormat
      /\ Now.pos = iPos /\ Now.global = iPosGlobal /\ Now.last = iLast /\ Now.panic = panicked
  BY NowTyped DEF Inv
<1>4. ~ again => ~ out
  <2>1. iPosGlobal \in Nat /\ DOMAIN iParaFormat = 1 .. Len(iParaFormat) /\ Len(iParaFormat) \in Nat
    BY DEF Inv, StylesTypeOK
  <2> QED
    BY <1>3, <2>1 DEF Inv, Sorted, InUse
<1> HIDE DEF out
<1>5. StylesTypeOK'
  <2>1. panicked' \in BOOLEAN
    BY <1>1, <1>2
  <2>2. {again, orphan, moved, lost}' \subseteq BOOLEAN
    BY <1>1 DEF Inv, StylesTypeOK
  <2> QED
    BY <1>1, <2>1, <2>2 DEF Inv, StylesTypeOK, document
<1>6. WantTyped' /\ Turns' /\ (Families => Families')
  BY <1>1 DEF Inv, WantTyped, Turns, document, Families, IsText
<1>7. Aligned(Now')
  <2>1. /\ Now'.name = iName /\ Now'.char = iArrayFormat /\ Now'.par = iParaFormat
        /\ Now'.pos = iPos /\ Now'.global = iPosGlobal /\ Now'.last = iLast
    BY <1>1 DEF Now
  <2>2. Aligned(Now)
    BY <1>1 DEF Inv
  <2> QED
    BY <1>3, <2>1, <2>2 DEF Aligned
<1>8. ASSUME ~ again
      PROVE  /\ Sorted(Now', want') /\ Families' /\ AtHand'
             /\ ~ orphan => Kept(Now', want')
  <2>1. panicked' = panicked
    <3>1. panicked = FALSE /\ out = FALSE
      BY <1>1, <1>2, <1>4, <1>8 DEF Inv, StylesTypeOK
    <3> QED
      BY <1>1, <3>1, Zenon
  <2>2. Now' = Now
    BY <1>1, <2>1 DEF Now
  <2>3. AtHand => AtHand'
    BY <1>1 DEF AtHand, document, IsText
  <2> QED
    BY <1>1, <1>6, <1>8, <2>2, <2>3 DEF Inv
<1> QED
  BY <1>1, <1>5, <1>6, <1>7, <1>8 DEF Inv

(***************************************************************************)
(* text:p finds its style among the paragraph styles, which is in use and  *)
(* may take a bullet.                                                      *)
(***************************************************************************)
LEMMA ParagraphFound ==
  ASSUME NEW c \in CPara, Aligned(c), NEW w, Sorted(c, w), NEW name \in DOMAIN w,
         w[name].par.from # "none"
  PROVE  LET d == GetIndexByName(c, name, TRUE)
         IN  /\ \E pos \in Nat, g \in 1 .. Len(c.par) :
                  /\ Turned(c, d, pos, g) /\ c.name[g] = name /\ g <= c.last
                  /\ (pos = c.pos /\ g = c.global) \/ pos = g
             /\ Aligned(d) /\ Sorted(d, w) /\ (Kept(c, w) => Kept(d, w))
<1> DEFINE d == GetIndexByName(c, name, TRUE)  e == Exists(c, name)
<1>1. e \in 1 .. c.last /\ c.name[e] = name /\ e <= Len(c.par)
  BY NamesFound
<1>2. /\ Len(c.par) \in Nat /\ c.last \in Nat /\ c.global \in Nat /\ c.pos \in Nat
      /\ Len(c.par) <= c.last /\ c.global <= Len(c.par) /\ (c.global = 0 <=> Len(c.par) = 0)
      /\ (c.pos = c.global \/ c.pos > Len(c.par))
  BY DEF CPara, Aligned, Sorted, InUse
<1>3. c.global # 0 /\ Len(c.par) # 0 /\ e # 0
  BY <1>1, <1>2
<1>4. d \in CPara /\ Indexed(c, d, name, TRUE) /\ Aligned(d)
  BY <1>3, GotIndex
<1> HIDE DEF d, e
<1>5. \E pos \in Nat, g \in 1 .. Len(c.par) :
         /\ Turned(c, d, pos, g) /\ c.name[g] = name /\ g <= c.last
         /\ (pos = c.pos /\ g = c.global) \/ pos = g
  <2>1. CASE Turned(c, d, c.pos, c.global) /\ c.name[c.global] = name
    <3>1. c.global \in 1 .. Len(c.par) /\ c.global <= c.last
      BY <1>2, <1>3
    <3> QED
      BY <1>2, <2>1, <3>1
  <2>2. CASE Turned(c, d, e, e)
    <3>1. e \in 1 .. Len(c.par) /\ e \in Nat /\ e <= c.last
      BY <1>1, <1>2
    <3> QED
      BY <1>1, <2>2, <3>1
  <2> QED
    BY <1>3, <1>4, <2>1, <2>2 DEF Indexed, e
<1>6. Sorted(d, w) /\ (Kept(c, w) => Kept(d, w))
  <2>1. PICK pos \in Nat, g \in 1 .. Len(c.par) :
          Turned(c, d, pos, g) /\ ((pos = c.pos /\ g = c.global) \/ pos = g)
    BY <1>5
  <2>2. g <= Len(c.par) /\ (pos = g \/ pos > Len(c.par))
    BY <1>2, <2>1
  <2> QED
    BY <2>1, <2>2, TurnedSorted
<1> QED
  BY <1>4, <1>5, <1>6 DEF d

(***************************************************************************)
(* The bullet of a paragraph in a list.                                    *)
(***************************************************************************)
LEMMA BulletKept ==
  ASSUME NEW c \in CPara, Aligned(c), NEW w, w \in [DOMAIN w -> Wish], Sorted(c, w),
         NEW name \in DOMAIN w, c.global \in 1 .. Len(c.par), c.name[c.global] = name
  PROVE  LET d == SetBulletChar(c)
             v == WishBullet(w, name)
         IN  /\ d.name = c.name /\ d.pos = c.pos /\ d.global = c.global /\ d.last = c.last
             /\ Sorted(d, v) /\ (Kept(c, w) => Kept(d, v))
             /\ \A n \in DOMAIN w : v[n].par.from # "none" <=> w[n].par.from # "none"
<1> DEFINE d == SetBulletChar(c)  v == WishBullet(w, name)
           pr == [c.par[c.global] EXCEPT !.bullet = TRUE]
           p == [w[name].par EXCEPT !.bullet = TRUE]
<1>1. /\ Len(c.par) \in Nat /\ c.last \in Nat /\ Len(c.par) <= c.last /\ c.global \in DOMAIN c.par
      /\ c.global \in 1 .. c.last /\ ~ c.panic
  BY DEF CPara, Aligned, Sorted, InUse
<1>2. Changed(v, w, name, w[name].char, p)
  <2>1. "none" \in Formats
    BY DEF Formats
  <2> QED
    BY <2>1, WishChanged
<1>3. p.from = w[name].par.from
  <2>1. w[name].par \in ParaFormats
    BY DEF Wish
  <2> QED
    BY <2>1 DEF ParaFormats
<1>4. /\ d \in CPara /\ d.name = c.name /\ d.char = c.char /\ d.pos = c.pos
      /\ d.global = c.global /\ d.last = c.last /\ d.panic = c.panic
      /\ Replaced(d.par, c.par, c.global, pr)
  BY <1>1, BulletSet
<1> HIDE DEF d, v
<1>5. /\ DOMAIN v = DOMAIN w /\ v[name].char = w[name].char /\ v[name].par = p
      /\ \A n \in DOMAIN w : n # name => v[n] = w[n]
  BY <1>2 DEF Changed
<1>6. \A n \in DOMAIN w : v[n].par.from # "none" <=> w[n].par.from # "none"
  BY <1>3, <1>5
<1>7. /\ Len(d.par) = Len(c.par)
      /\ \A k \in 1 .. Len(c.par) : d.par[k] = IF k = c.global THEN pr ELSE c.par[k]
  BY <1>4 DEF Replaced
<1>8. Sorted(d, v)
  <2>1. InUse(d)
    BY <1>4, <1>7 DEF Sorted, InUse
  <2>2. d \in CPara /\ d.name = c.name /\ d.last = c.last /\ Len(d.par) = Len(c.par) /\ DOMAIN v = DOMAIN w
    BY <1>4, <1>5, <1>7
  <2> QED
    BY <1>6, <2>1, <2>2, OrderKept
<1>9. ASSUME Kept(c, w)
      PROVE  Kept(d, v)
  <2>1. c.char[c.global] = w[name].char /\ c.par[c.global] = w[name].par
    BY <1>1, <1>9 DEF Kept
  <2>2. d.par[c.global] = pr /\ pr = p
    BY <1>1, <1>7, <2>1
  <2> HIDE DEF p, pr
  <2>3. Formatted(c, d, w, v, c.global)
    <3>1. \A i \in 1 .. c.last : i # c.global /\ i <= Len(c.par) => d.par[i] = c.par[i]
      BY <1>1, <1>7
    <3>2. d.char[c.global] = v[c.name[c.global]].char /\ d.par[c.global] = v[c.name[c.global]].par
      BY <1>4, <1>5, <2>1, <2>2
    <3> QED
      BY <1>1, <1>4, <1>5, <1>7, <3>1, <3>2 DEF Formatted
  <2> QED
    BY <1>4, <1>9, <2>3, FormatKept
<1> QED
  BY <1>4, <1>6, <1>8, <1>9 DEF d, v

(***************************************************************************)
(* text:p with a style keeps the invariant.                                *)
(***************************************************************************)
LEMMA StartParagraphStep ==
  ASSUME Inv, NEW name \in ParaNames, NEW inList \in BOOLEAN,
         StartParagraph(name, inList)
  PROVE  Inv'
<1> DEFINE c == Now  d == GetIndexByName(c, name, TRUE)
           e == IF inList THEN SetBulletChar(d) ELSE d
<1>1. /\ c \in CPara /\ c.name = iName /\ c.pos = iPos /\ c.global = iPosGlobal /\ c.last = iLast
      /\ c.panic = panicked /\ Aligned(c)
  BY NowTyped DEF Inv, StartParagraph
<1>2. /\ Becomes(e) /\ moved' = (moved \/ iPosGlobal # d.global)
      /\ ~ panicked /\ paragraph = NoParent /\ part \in {2, 4} /\ paragraphs < MaxParagraphs
      /\ name \in DOMAIN want /\ ~ IsText(name)
      /\ paragraphs' = paragraphs + 1 /\ paragraph' = name
      /\ want' = IF inList THEN WishBullet(want, name) ELSE want
      /\ part' = part /\ declaring' = declaring /\ declared' = declared /\ spans' = spans
      /\ again' = again /\ orphan' = orphan /\ lost' = lost
  BY DEF StartParagraph, IsDeclared, WishBullet
<1>3. declaring = NoParent /\ spans = <<>> /\ name \in StyleNames /\ name # NoParent
  BY <1>2, StyleConstants DEF Inv, Turns, StyleNames, Globals
<1> HIDE DEF c
<1>4. d \in CPara /\ (~ d.panic => Aligned(d))
  <2>1. /\ d \in CPara /\ (c.global = 0 => d.panic) /\ (c.global # 0 => Aligned(d))
    BY <1>1, GotIndex
  <2> QED
    BY <2>1
<1> HIDE DEF d
<1>5. e \in CPara /\ (~ e.panic => Aligned(e))
  <2>1. CASE ~ inList
    BY <1>4, <2>1
  <2>2. CASE inList
    <3> DEFINE f == SetBulletChar(d)  pr == [d.par[d.global] EXCEPT !.bullet = TRUE]
    <3>1. /\ f \in CPara
          /\ d.panic \/ d.global \notin DOMAIN d.par => f.panic
          /\ ~ d.panic /\ d.global \in DOMAIN d.par =>
               /\ f.name = d.name /\ f.char = d.char /\ f.pos = d.pos
               /\ f.global = d.global /\ f.last = d.last /\ f.panic = d.panic
               /\ Replaced(f.par, d.par, d.global, pr)
      BY <1>4, BulletSet
    <3> HIDE DEF f, pr
    <3>2. ASSUME ~ f.panic
          PROVE  Aligned(f)
      <4>1. /\ ~ d.panic /\ f.name = d.name /\ f.char = d.char /\ f.pos = d.pos
            /\ f.global = d.global /\ f.last = d.last /\ Len(f.par) = Len(d.par)
        BY <3>1, <3>2 DEF Replaced
      <4> QED
        BY <1>4, <3>1, <4>1, StillAligned
    <3> QED
      BY <2>2, <3>1, <3>2 DEF f
  <2> QED
    BY <2>1, <2>2
<1> HIDE DEF e
<1>6. /\ Now' = e /\ iName' \in Seq(StyleNames) /\ iArrayFormat' \in Seq(Formats)
      /\ iParaFormat' \in Seq(ParaFormats) /\ iPos' \in Nat /\ iPosGlobal' \in Nat
      /\ iLast' \in Nat /\ panicked' \in BOOLEAN
  BY <1>2, <1>5, NowBecomes
<1>7. panicked' = e.panic /\ iName' = e.name /\ iPos' = e.pos /\ iPosGlobal' = e.global /\ iLast' = e.last
  BY <1>2 DEF Becomes
<1>8. StylesTypeOK'
  <2>1. paragraphs' \in 0 .. MaxParagraphs
    BY <1>2, StyleConstants DEF Inv, StylesTypeOK
  <2>2. moved' \in BOOLEAN
    BY <1>2 DEF Inv, StylesTypeOK
  <2>3. {again, orphan, moved, lost}' \subseteq BOOLEAN
    BY <1>2, <2>2 DEF Inv, StylesTypeOK
  <2> QED
    BY <1>2, <1>6, <2>1, <2>3 DEF Inv, StylesTypeOK
<1>9. DOMAIN want' = DOMAIN want /\ want' \in [DOMAIN want -> Wish]
  <2> DEFINE p == [want[name].par EXCEPT !.bullet = TRUE]
  <2>1. "none" \in Formats /\ want \in [DOMAIN want -> Wish]
    BY DEF Formats, Inv, WantTyped
  <2>2. Changed(WishBullet(want, name), want, name, want[name].char, p)
    BY <1>2, <2>1, WishChanged
  <2> HIDE DEF p
  <2> QED
    BY <1>2, <2>1, <2>2 DEF Changed
<1>10. WantTyped' /\ Turns'
  BY <1>2, <1>3, <1>9 DEF Inv, WantTyped, Turns
<1>11. ASSUME ~ again
       PROVE  /\ Sorted(Now', want') /\ Families' /\ AtHand'
              /\ ~ orphan => Kept(Now', want')
  <2>1. Sorted(c, want) /\ Families /\ AtHand /\ (~ orphan => Kept(c, want))
    BY <1>11 DEF Inv, c
  <2>2. /\ \E pos \in Nat, g \in 1 .. Len(c.par) :
             /\ Turned(c, d, pos, g) /\ c.name[g] = name /\ g <= c.last
             /\ (pos = c.pos /\ g = c.global) \/ pos = g
        /\ Aligned(d) /\ Sorted(d, want) /\ (Kept(c, want) => Kept(d, want))
    <3>1. want[name].par.from # "none"
      BY <1>2 DEF IsText
    <3> QED
      BY <1>1, <1>2, <2>1, <3>1, ParagraphFound DEF d
  <2>3. PICK pos \in Nat, g \in 1 .. Len(c.par) :
             /\ Turned(c, d, pos, g) /\ c.name[g] = name /\ g <= c.last
             /\ (pos = c.pos /\ g = c.global) \/ pos = g
    BY <2>2
  <2>4. /\ d.name = c.name /\ d.last = c.last /\ d.pos = pos /\ d.global = g
        /\ d.global \in 1 .. Len(d.par) /\ d.name[d.global] = name
    BY <2>3 DEF Turned
  <2>5. /\ e.name = d.name /\ e.pos = d.pos /\ e.global = d.global /\ e.last = d.last
        /\ Sorted(e, want') /\ (Kept(d, want) => Kept(e, want'))
        /\ \A n \in DOMAIN want : want'[n].par.from # "none" <=> want[n].par.from # "none"
    <3>1. CASE ~ inList
      BY <1>2, <2>2, <3>1 DEF e
    <3>2. CASE inList
      <4>1. want \in [DOMAIN want -> Wish]
        BY DEF Inv, WantTyped
      <4>2. e = SetBulletChar(d) /\ want' = WishBullet(want, name)
        BY <1>2, <3>2 DEF e
      <4> QED
        BY <1>2, <1>4, <2>2, <2>4, <4>1, <4>2, BulletKept
    <3> QED
      BY <3>1, <3>2
  <2>6. Families'
    BY <1>9, <2>1, <2>5 DEF Families, IsText
  <2>7. AtHand'
    <3>1. iPosGlobal' \in 1 .. iLast' /\ iName'[iPosGlobal'] = name
      BY <1>1, <1>7, <2>3, <2>4, <2>5
    <3>2. moved' => iPos' = iPosGlobal'
      <4>1. iPos' = pos /\ iPosGlobal' = g
        BY <1>7, <2>4, <2>5
      <4>2. CASE pos = g
        BY <4>1, <4>2
      <4>3. CASE pos = c.pos /\ g = c.global
        BY <1>1, <1>2, <1>3, <2>1, <2>4, <4>1, <4>3 DEF AtHand
      <4> QED
        BY <2>3, <4>2, <4>3
    <3> QED
      BY <1>2, <1>3, <3>1, <3>2 DEF AtHand
  <2> QED
    BY <1>6, <2>1, <2>2, <2>5, <2>6, <2>7
<1> QED
  BY <1>2, <1>5, <1>6, <1>7, <1>8, <1>10, <1>11 DEF Inv

-----------------------------------------------------------------------------
(***************************************************************************)
(* CPara is empty when a document is opened.                               *)
(***************************************************************************)
LEMMA InitInv ==
  ASSUME StylesInit
  PROVE  Inv
<1>1. StylesTypeOK
  <2>1. /\ iName \in Seq(StyleNames) /\ iArrayFormat \in Seq(Formats)
        /\ iParaFormat \in Seq(ParaFormats) /\ spans \in Seq(TextNames)
        /\ iPos \in Nat /\ iPosGlobal \in Nat /\ iLast \in Nat
    <3>1. \A S : <<>> \in Seq(S)
      OBVIOUS
    <3>2. /\ iName = <<>> /\ iArrayFormat = <<>> /\ iParaFormat = <<>> /\ spans = <<>>
          /\ iPos = 0 /\ iPosGlobal = 0 /\ iLast = 0
      BY DEF StylesInit
    <3> QED
      BY <3>1, <3>2
  <2>2. /\ panicked \in BOOLEAN
        /\ part \in 1 .. 4 /\ declaring \in StyleNames \cup {NoParent}
        /\ paragraph \in ParaNames \cup {NoParent}
    <3>1. panicked = FALSE /\ part = 1 /\ declaring = NoParent /\ paragraph = NoParent
      BY DEF StylesInit
    <3>2. panicked \in BOOLEAN
      BY <3>1
    <3> QED
      BY <3>1, <3>2
  <2>3. {again, orphan, moved, lost} \subseteq BOOLEAN
    <3>1. again \in BOOLEAN /\ orphan \in BOOLEAN /\ moved \in BOOLEAN /\ lost \in BOOLEAN
      BY DEF StylesInit
    <3> QED
      BY <3>1
  <2>4. declared \in 0 .. MaxDeclared /\ paragraphs \in 0 .. MaxParagraphs
    BY StyleConstants DEF StylesInit
  <2> QED
    BY <2>1, <2>2, <2>3, <2>4 DEF StylesTypeOK
<1>2. WantTyped /\ Turns /\ DOMAIN want = {}
  BY DEF StylesInit, WantTyped, Turns
<1>3. /\ Now.name = <<>> /\ Now.char = <<>> /\ Now.par = <<>> /\ Now.pos = 0
      /\ Now.global = 0 /\ Now.last = 0 /\ Now.panic = FALSE
  BY <1>1, NowTyped DEF StylesInit
<1>4. Aligned(Now)
  BY <1>3 DEF Aligned
<1>5. Sorted(Now, want) /\ Kept(Now, want)
  BY <1>2, <1>3 DEF Sorted, Kept, InUse
<1>6. Families /\ AtHand
  BY <1>2 DEF StylesInit, Families, AtHand
<1> QED
  BY <1>1, <1>2, <1>4, <1>5, <1>6 DEF Inv

(***************************************************************************)
(* Every declaration and every use of a style keeps the invariant.         *)
(***************************************************************************)
LEMMA NextInv ==
  ASSUME Inv, [StylesNext]_styleVars
  PROVE  Inv'
<1>1. CASE UNCHANGED styleVars
  BY <1>1 DEF Inv, StylesTypeOK, WantTyped, Turns, Now, Families, AtHand, IsText, styleVars, cpara, document, history
<1>2. ASSUME NEW name \in StyleNames, NEW init \in BOOLEAN,
             NEW parent \in StyleNames \cup {NoParent}, Declare(name, init, parent)
      PROVE  Inv'
  BY <1>2, DeclareStep
<1>3. CASE TextProperties
  BY <1>3, TextPropertiesStep
<1>4. CASE ParagraphProperties
  BY <1>4, ParagraphPropertiesStep
<1>5. CASE NextPart \/ EndParagraph
  BY <1>5, PartStep
<1>6. ASSUME NEW name \in ParaNames, NEW inList \in BOOLEAN, StartParagraph(name, inList)
      PROVE  Inv'
  BY <1>6, StartParagraphStep
<1>7. ASSUME NEW name \in TextNames, StartSpan(name)
      PROVE  Inv'
  BY <1>7, StartSpanStep
<1>8. CASE EndSpan
  BY <1>8, EndSpanStep
<1>9. CASE AddTextL
  BY <1>9, AddTextStep
<1> QED
  BY <1>1, <1>2, <1>3, <1>4, <1>5, <1>6, <1>7, <1>8, <1>9 DEF StylesNext

(***************************************************************************)
(* The invariant holds in every document.                                  *)
(***************************************************************************)
THEOREM StylesInv ==
  StylesSpec => []Inv
<1>1. StylesInit => Inv
  BY InitInv
<1>2. Inv /\ [StylesNext]_styleVars => Inv'
  BY NextInv
<1> QED
  BY <1>1, <1>2, PTL DEF StylesSpec

(***************************************************************************)
(* The arrays of CPara stay parallel with the positions inside them; and   *)
(* while no name is used again for another style, paragraph styles come    *)
(* first and no index is ever out of range.                                *)
(***************************************************************************)
THEOREM AlignedCorrect ==
  StylesSpec => []StylesAligned
<1>1. Inv => StylesAligned
  <2> SUFFICES ASSUME Inv
               PROVE  StylesAligned
    OBVIOUS
  <2>1. /\ Now.name = iName /\ Now.char = iArrayFormat /\ Now.par = iParaFormat
        /\ Now.pos = iPos /\ Now.global = iPosGlobal /\ Now.last = iLast /\ Now.panic = panicked
    BY NowTyped DEF Inv
  <2>2. /\ StylesTypeOK /\ iParaFormat \in Seq(ParaFormats) /\ iPos \in Nat /\ iPosGlobal \in Nat
        /\ iLast \in Nat /\ iName \in Seq(StyleNames)
    BY DEF Inv, StylesTypeOK
  <2>3. ArraysAligned
    <3>1. Len(iParaFormat) = 0 <=> iParaFormat = <<>>
      BY <2>2
    <3>2. ASSUME ~ panicked
          PROVE  /\ Len(iName) = iLast /\ Len(iArrayFormat) = iLast /\ Len(iParaFormat) <= iLast
                 /\ iPos <= iLast /\ iPosGlobal <= iLast
                 /\ iPosGlobal = 0 <=> Len(iParaFormat) = 0
      BY <2>1, <3>2 DEF Inv, Aligned
    <3> QED
      BY <2>2, <3>1, <3>2 DEF ArraysAligned
  <2>4. GlobalsFirst
    <3>1. ASSUME ~ panicked, ~ again, NEW i \in 1 .. Len(iName)
          PROVE  i <= Len(iParaFormat) <=> want[iName[i]].par.from # "none"
      BY <2>1, <3>1 DEF Inv, Aligned, Sorted
    <3> QED
      BY <3>1 DEF GlobalsFirst, IsText
  <2>5. NeverOutOfRange
    BY <2>1 DEF Inv, NeverOutOfRange, Sorted, InUse
  <2> QED
    BY <2>2, <2>3, <2>4, <2>5 DEF StylesAligned
<1> QED
  BY <1>1, StylesInv, PTL

(***************************************************************************)
(* Declarations that come later move a style and never its formats; and    *)
(* text is shown in those of its paragraph and of its innermost span.      *)
(***************************************************************************)
THEOREM ShownCorrect ==
  StylesSpec => []StylesShown
<1>1. Inv => StylesShown
  <2> SUFFICES ASSUME Inv
               PROVE  StylesShown
    OBVIOUS
  <2>1. /\ Now.name = iName /\ Now.char = iArrayFormat /\ Now.par = iParaFormat
        /\ Now.pos = iPos /\ Now.global = iPosGlobal /\ Now.last = iLast /\ Now.panic = panicked
    BY NowTyped DEF Inv
  <2>2. ASSUME ~ panicked, ~ again, ~ orphan, NEW i \in 1 .. iLast
        PROVE  /\ iArrayFormat[i] = want[iName[i]].char
               /\ i <= Len(iParaFormat) => iParaFormat[i] = want[iName[i]].par
    BY <2>1, <2>2 DEF Inv, Kept
  <2>3. FormatsKept
    <3>1. ~ panicked => Len(iName) = iLast
      BY <2>1 DEF Inv, Aligned
    <3> QED
      BY <2>2, <3>1 DEF FormatsKept
  <2>4. ASSUME ~ panicked, ~ again, ~ orphan, moved, ~ lost, paragraph # NoParent
        PROVE  Applied = [par |-> want[paragraph].par,
                          char |-> want[IF spans = <<>> THEN paragraph ELSE Head(spans)].char]
    <3> DEFINE s == IF spans = <<>> THEN paragraph ELSE Head(spans)
    <3>1. AtHand /\ iPosGlobal <= Len(iParaFormat)
      BY <2>1, <2>4 DEF Inv, Sorted, InUse
    <3>2. iPosGlobal \in 1 .. iLast /\ iName[iPosGlobal] = paragraph
      BY <2>4, <3>1 DEF AtHand
    <3>3. iPos \in 1 .. iLast /\ iName[iPos] = s
      BY <2>4, <3>1, <3>2 DEF AtHand
    <3>4. iParaFormat[iPosGlobal] = want[paragraph].par /\ iArrayFormat[iPos] = want[s].char
      BY <2>2, <2>4, <3>1, <3>2, <3>3
    <3> HIDE DEF s
    <3>5. Applied = [par |-> want[paragraph].par, char |-> want[s].char]
      BY <3>4, Zenon DEF Applied
    <3> QED
      BY <3>5 DEF s
  <2> QED
    BY <2>3, <2>4 DEF StylesShown, ShownAsDeclared
<1> QED
  BY <1>1, StylesInv, PTL

-----------------------------------------------------------------------------
(***************************************************************************)
(* The list styles and bullets.  In a plain document, whose lists stand in *)
(* lists of their own style, all open lists are of the style in use, that  *)
(* style is as deep as the lists are, and every other style is at depth 0. *)
(***************************************************************************)
Level == [type : LevelTypes, char : 1..Bullet]
ListStyle == [name : ListNames \cup {NoName}, levels : Seq(Level), level : Int]
OpenList == [style : ListNames \cup {NoName}, item : BOOLEAN]

\* The types; a style is declared while no list is open.
ListsTyped ==
    /\ iBullets \in Seq(ListStyle) /\ iBulletPos \in 0..Len(iBullets)
    /\ openLists \in Seq(OpenList)
    /\ listCrashed \in BOOLEAN /\ inListStyle \in BOOLEAN
    /\ foreign \in BOOLEAN /\ short \in BOOLEAN /\ unstyled \in BOOLEAN /\ late \in BOOLEAN
    /\ inListStyle => iBulletPos # 0 /\ openLists = <<>>

\* All open lists are of the style in use: the outermost names it, and the
\* others name it or none.
OfOneStyle ==
    /\ iBulletPos # 0 /\ StyleInUse.name # NoName
    /\ openLists[Len(openLists)].style = StyleInUse.name
    /\ \A i \in 1..Len(openLists) : openLists[i].style \in {StyleInUse.name, NoName}

\* The style in use is as deep as the lists are, and no other style is anywhere.
AtItsDepth ==
    \A i \in 1..Len(iBullets) :
        iBullets[i].level = IF i = iBulletPos THEN Len(openLists) ELSE 0

\* In a plain document.
PlainInv ==
    Plain /\ ~listCrashed =>
        /\ AtItsDepth
        /\ openLists # <<>> =>
              OfOneStyle /\ (~short => Len(openLists) <= Len(StyleInUse.levels))

ListsInv == ListsTyped /\ NamesKept /\ PlainInv /\ ItemsInRange

------------------------------------------------------------------------------
\* b is iBullets with r at p.
StyleSetTo(b, p, r) ==
    /\ b \in Seq(ListStyle) /\ Len(b) = Len(iBullets)
    /\ \A i \in 1..Len(b) : b[i] = IF i = p THEN r ELSE iBullets[i]

\* Changing one style leaves the others.
LEMMA StyleChanged ==
  ASSUME iBullets \in Seq(ListStyle), NEW p \in 1..Len(iBullets), NEW r \in ListStyle
  PROVE  StyleSetTo([iBullets EXCEPT ![p] = r], p, r)
BY DEF StyleSetTo

\* The style in use has the type of a style.
LEMMA InUseTyped ==
  ASSUME ListsTyped, iBulletPos # 0
  PROVE  /\ iBulletPos \in 1..Len(iBullets) /\ StyleInUse \in ListStyle
         /\ StyleInUse.levels \in Seq(Level) /\ StyleInUse.level \in Int
         /\ DOMAIN iBullets = 1..Len(iBullets)
<1>1. iBullets \in Seq(ListStyle) /\ iBulletPos \in 1..Len(iBullets)
  BY DEF ListsTyped
<1>2. StyleInUse \in ListStyle /\ DOMAIN iBullets = 1..Len(iBullets)
  BY <1>1 DEF StyleInUse
<1>3. QED  BY <1>1, <1>2 DEF ListStyle

\* Changing the levels of the style in use.
LEMMA LevelsChanged ==
  ASSUME ListsTyped, iBulletPos # 0, NEW ls \in Seq(Level)
  PROVE  LET r == [StyleInUse EXCEPT !.levels = ls]
         IN  /\ StyleSetTo([iBullets EXCEPT ![iBulletPos] = r], iBulletPos, r)
             /\ r.name = StyleInUse.name /\ r.level = StyleInUse.level /\ r.levels = ls
<1> DEFINE r == [StyleInUse EXCEPT !.levels = ls]
<1>1. r \in ListStyle /\ r.name = StyleInUse.name /\ r.level = StyleInUse.level /\ r.levels = ls
  BY InUseTyped DEF ListStyle
<1>2. iBullets \in Seq(ListStyle) /\ iBulletPos \in 1..Len(iBullets)
  BY InUseTyped DEF ListsTyped
<1> HIDE DEF r
<1>3. StyleSetTo([iBullets EXCEPT ![iBulletPos] = r], iBulletPos, r)
  BY <1>1, <1>2, StyleChanged
<1>4. QED  BY <1>1, <1>3 DEF r

\* Changing the depth of a style.
LEMMA DepthChanged ==
  ASSUME ListsTyped, NEW p \in 1..Len(iBullets), NEW d \in Int
  PROVE  LET r == [iBullets[p] EXCEPT !.level = d]
         IN  /\ StyleSetTo([iBullets EXCEPT ![p] = r], p, r)
             /\ r.name = iBullets[p].name /\ r.level = d /\ r.levels = iBullets[p].levels
<1> DEFINE r == [iBullets[p] EXCEPT !.level = d]
<1>0. iBullets[p] \in ListStyle
  BY DEF ListsTyped
<1>1. r \in ListStyle /\ r.name = iBullets[p].name /\ r.level = d /\ r.levels = iBullets[p].levels
  BY <1>0 DEF ListStyle
<1>2. iBullets \in Seq(ListStyle)
  BY DEF ListsTyped
<1> HIDE DEF r
<1>3. StyleSetTo([iBullets EXCEPT ![p] = r], p, r)
  BY <1>1, <1>2, StyleChanged
<1>4. QED  BY <1>1, <1>3 DEF r

\* What the steps inside a list style or an item do to the styles: at most the
\* levels of the style in use change.
OnlyLevels ==
    /\ iBullets' \in Seq(ListStyle) /\ Len(iBullets') = Len(iBullets)
    /\ iBulletPos' = iBulletPos
    /\ \A i \in 1..Len(iBullets) :
          iBullets'[i].name = iBullets[i].name /\ iBullets'[i].level = iBullets[i].level

\* And as many levels as there were.
SameLevels ==
    OnlyLevels /\ \A i \in 1..Len(iBullets) : Len(iBullets'[i].levels) = Len(iBullets[i].levels)

LEMMA NothingChanged ==
  ASSUME ListsTyped, UNCHANGED bullets
  PROVE  SameLevels
BY DEF ListsTyped, SameLevels, OnlyLevels, bullets

LEMMA InUseChanged ==
  ASSUME ListsTyped, iBulletPos # 0, NEW ls \in Seq(Level), iBulletPos' = iBulletPos,
         iBullets' = [iBullets EXCEPT ![iBulletPos] = [StyleInUse EXCEPT !.levels = ls]]
  PROVE  OnlyLevels /\ (Len(ls) = Len(StyleInUse.levels) => SameLevels)
<1>1. PICK r : /\ StyleSetTo(iBullets', iBulletPos, r)
               /\ r.name = StyleInUse.name /\ r.level = StyleInUse.level /\ r.levels = ls
  BY LevelsChanged
<1>2. iBulletPos \in 1..Len(iBullets)
  BY InUseTyped
<1>3. QED  BY <1>1, <1>2 DEF StyleSetTo, OnlyLevels, SameLevels, StyleInUse

\* AddBullet and VerifyBullets.
LEMMA DeclaringStep ==
  ASSUME ListsTyped,
         (\E type \in LevelTypes : AddBullet(type)) \/ VerifyBullets
  PROVE  /\ OnlyLevels /\ inListStyle /\ ~listCrashed' /\ inListStyle' \in BOOLEAN
         /\ openLists' = openLists /\ listHistory' = listHistory
<1>0. iBulletPos # 0 /\ StyleInUse.levels \in Seq(Level) /\ iBulletPos \in DOMAIN iBullets
  BY InUseTyped DEF ListsTyped, AddBullet, VerifyBullets
<1>1. ASSUME NEW type \in LevelTypes, AddBullet(type)
      PROVE  OnlyLevels
  <2> DEFINE l == [type |-> type, char |-> IF type = "numeric" THEN 1 ELSE Bullet]
             ls == Append(StyleInUse.levels, l)
  <2>1. l \in Level
    BY ListConstants DEF Level, LevelTypes, Bullet
  <2>2. ls \in Seq(Level)
    BY <1>0, <2>1, AppendProperties
  <2>3. iBullets' = [iBullets EXCEPT ![iBulletPos] = [StyleInUse EXCEPT !.levels = ls]]
    BY <1>0, <1>1 DEF AddBullet, StyleInUse
  <2>4. iBulletPos' = iBulletPos
    BY <1>1 DEF AddBullet
  <2> HIDE DEF ls
  <2>5. QED  BY <1>0, <2>2, <2>3, <2>4, InUseChanged
<1>2. ASSUME VerifyBullets PROVE OnlyLevels
  <2> DEFINE ls == IF StyleInUse.levels = <<>> THEN <<[type |-> "numeric", char |-> 1]>>
                   ELSE StyleInUse.levels
  <2>1. [type |-> "numeric", char |-> 1] \in Level
    BY ListConstants DEF Level, LevelTypes, Bullet
  <2>2. ls \in Seq(Level)
    BY <1>0, <2>1
  <2>3. iBullets' = [iBullets EXCEPT ![iBulletPos] = [StyleInUse EXCEPT !.levels = ls]]
    BY <1>0, <1>2 DEF VerifyBullets, StyleInUse
  <2>4. iBulletPos' = iBulletPos
    BY <1>2 DEF VerifyBullets
  <2> HIDE DEF ls
  <2>5. QED  BY <1>0, <2>2, <2>3, <2>4, InUseChanged
<1>3. inListStyle \in BOOLEAN
  BY DEF ListsTyped
<1>4. ASSUME NEW type \in LevelTypes, AddBullet(type)
      PROVE  /\ inListStyle /\ ~listCrashed' /\ inListStyle' \in BOOLEAN
             /\ openLists' = openLists /\ listHistory' = listHistory
  BY <1>3, <1>4 DEF AddBullet, listDocument
<1>5. ASSUME VerifyBullets
      PROVE  /\ inListStyle /\ ~listCrashed' /\ inListStyle' \in BOOLEAN
             /\ openLists' = openLists /\ listHistory' = listHistory
  BY <1>5 DEF VerifyBullets
<1>6. QED  BY <1>1, <1>2, <1>4, <1>5

\* A level of the style in use with another character.
LEMMA CharChanged ==
  ASSUME ListsTyped, InRange, NEW c \in 1..Bullet, iBulletPos' = iBulletPos,
         iBullets' = WithChar(c)
  PROVE  SameLevels
<1> DEFINE l == [CurrentLevel EXCEPT !.char = c]
           ls == [StyleInUse.levels EXCEPT ![StyleInUse.level] = l]
<1>1. /\ iBulletPos # 0 /\ iBulletPos \in DOMAIN iBullets /\ StyleInUse.levels \in Seq(Level)
      /\ StyleInUse.level \in 1..Len(StyleInUse.levels)
  BY InUseTyped DEF InRange
<1>2. CurrentLevel \in Level
  BY <1>1 DEF CurrentLevel
<1>3. l \in Level
  BY <1>2 DEF Level
<1>4. ls \in Seq(Level) /\ Len(ls) = Len(StyleInUse.levels)
  BY <1>1, <1>3
<1>5. iBullets' = [iBullets EXCEPT ![iBulletPos] = [StyleInUse EXCEPT !.levels = ls]]
  BY <1>1 DEF WithChar, StyleInUse, CurrentLevel
<1> HIDE DEF ls
<1>6. QED  BY <1>1, <1>4, <1>5, InUseChanged

\* The character of a level counted on.
LEMMA CharCounted ==
  ASSUME ListsTyped, InRange
  PROVE  \E c \in 1..Bullet :
            /\ IncreaseChar(CurrentLevel) = [CurrentLevel EXCEPT !.char = c]
            /\ [iBullets EXCEPT ![iBulletPos].levels[StyleInUse.level] = IncreaseChar(CurrentLevel)]
                 = WithChar(c)
<1>1. /\ iBulletPos # 0 /\ iBulletPos \in DOMAIN iBullets /\ StyleInUse.levels \in Seq(Level)
      /\ StyleInUse.level \in 1..Len(StyleInUse.levels)
  BY InUseTyped DEF InRange
<1>2. CurrentLevel \in Level /\ CurrentLevel.char \in 1..Bullet
  <2>1. CurrentLevel \in Level  BY <1>1 DEF CurrentLevel
  <2>2. QED  BY <2>1 DEF Level
<1> DEFINE c == IF CurrentLevel.type # "numeric" THEN CurrentLevel.char
                ELSE IF CurrentLevel.char \in {Digits, Bullet} THEN Bullet
                ELSE CurrentLevel.char + 1
<1>3. c \in 1..Bullet
  BY <1>2, ListConstants DEF Bullet
<1>4. IncreaseChar(CurrentLevel) = [CurrentLevel EXCEPT !.char = c]
  BY DEF IncreaseChar
<1> HIDE DEF c
<1>5. [iBullets EXCEPT ![iBulletPos].levels[StyleInUse.level] = [CurrentLevel EXCEPT !.char = c]]
        = WithChar(c)
  BY <1>1 DEF WithChar, CurrentLevel, StyleInUse
<1>6. QED  BY <1>3, <1>4, <1>5

\* The open lists keep their styles.
SameLists ==
    /\ openLists' \in Seq(OpenList) /\ Len(openLists') = Len(openLists)
    /\ \A i \in 1..Len(openLists) : openLists'[i].style = openLists[i].style

LEMMA ItemMarked ==
  ASSUME ListsTyped, openLists # <<>>, NEW on \in BOOLEAN,
         openLists' = [openLists EXCEPT ![1].item = on]
  PROVE  SameLists
<1> DEFINE l == [openLists[1] EXCEPT !.item = on]
<1>1. openLists \in Seq(OpenList) /\ Len(openLists) >= 1 /\ 1 \in DOMAIN openLists
  BY DEF ListsTyped
<1>2. openLists[1] \in OpenList
  BY <1>1
<1>3. l \in OpenList /\ l.style = openLists[1].style
  BY <1>2 DEF OpenList
<1>4. openLists' = [openLists EXCEPT ![1] = l]
  BY <1>1
<1> HIDE DEF l
<1>5. QED  BY <1>1, <1>3, <1>4 DEF SameLists

\* StartItem, ReadBulletChar and EndItem.
LEMMA ItemStep ==
  ASSUME ListsTyped,
         \/ \E start \in {0, Digits, Bullet} : StartItem(start)
         \/ ReadBulletChar \/ EndItem
  PROVE  /\ SameLevels /\ SameLists /\ openLists # <<>> /\ ~listCrashed
         /\ listCrashed' \in BOOLEAN /\ (listCrashed' => ~InRange)
         /\ inListStyle' = inListStyle /\ listHistory' = listHistory
<1>1. ASSUME NEW start \in {0, Digits, Bullet}, StartItem(start)
      PROVE  /\ SameLevels /\ SameLists /\ openLists # <<>> /\ ~listCrashed
             /\ listCrashed' \in BOOLEAN /\ (listCrashed' => ~InRange)
             /\ inListStyle' = inListStyle /\ listHistory' = listHistory
  <2>1. SameLists
    BY <1>1, ItemMarked DEF StartItem
  <2>2. SameLevels
    <3>1. CASE iBullets' = iBullets
      BY <1>1, <3>1, NothingChanged DEF StartItem, bullets
    <3>2. CASE start # 0 /\ InRange /\ iBullets' = WithChar(start)
      <4>1. start \in 1..Bullet
        BY <3>2, ListConstants DEF Bullet
      <4>2. QED  BY <1>1, <3>2, <4>1, CharChanged DEF StartItem
    <3>3. QED  BY <1>1, <3>1, <3>2 DEF StartItem
  <2>3. /\ openLists # <<>> /\ ~listCrashed
        /\ listCrashed' \in BOOLEAN /\ (listCrashed' => ~InRange)
    <3>1. openLists # <<>> /\ ~listCrashed  BY <1>1 DEF StartItem
    <3>2. listCrashed' = listCrashed \/ (listCrashed' = TRUE /\ ~InRange)
      BY <1>1 DEF StartItem
    <3>3. listCrashed = FALSE
      <4>1. listCrashed \in BOOLEAN  BY DEF ListsTyped
      <4>2. QED  BY <3>1, <4>1
    <3>4. listCrashed' = FALSE \/ (listCrashed' = TRUE /\ ~InRange)
      BY <3>2, <3>3
    <3>5. QED  BY <3>1, <3>4
  <2>4. inListStyle' = inListStyle /\ listHistory' = listHistory
    BY <1>1 DEF StartItem
  <2>5. QED  BY <2>1, <2>2, <2>3, <2>4
<1>2. ASSUME ReadBulletChar
      PROVE  /\ SameLevels /\ SameLists /\ openLists # <<>> /\ ~listCrashed
             /\ listCrashed' \in BOOLEAN /\ (listCrashed' => ~InRange)
             /\ inListStyle' = inListStyle /\ listHistory' = listHistory
  <2>1. SameLevels
    BY <1>2, NothingChanged DEF ReadBulletChar
  <2>2. openLists' = openLists /\ inListStyle' = inListStyle /\ listHistory' = listHistory
    BY <1>2 DEF ReadBulletChar, listDocument
  <2>3. SameLists
    BY <2>2 DEF SameLists, ListsTyped
  <2>4. /\ openLists # <<>> /\ ~listCrashed
        /\ listCrashed' \in BOOLEAN /\ (listCrashed' => ~InRange)
    BY <1>2 DEF ReadBulletChar, InRange
  <2>5. QED  BY <2>1, <2>2, <2>3, <2>4
<1>3. ASSUME EndItem
      PROVE  /\ SameLevels /\ SameLists /\ openLists # <<>> /\ ~listCrashed
             /\ listCrashed' \in BOOLEAN /\ (listCrashed' => ~InRange)
             /\ inListStyle' = inListStyle /\ listHistory' = listHistory
  <2>1. SameLists
    BY <1>3, ItemMarked DEF EndItem
  <2>2. SameLevels
    <3>1. CASE ~InRange
      BY <1>3, <3>1, NothingChanged DEF EndItem, bullets
    <3>2. CASE InRange
      <4>1. PICK c \in 1..Bullet :
              [iBullets EXCEPT ![iBulletPos].levels[StyleInUse.level] = IncreaseChar(CurrentLevel)]
                = WithChar(c)
        BY <3>2, CharCounted
      <4>2. iBullets' = WithChar(c) /\ iBulletPos' = iBulletPos
        BY <1>3, <3>2, <4>1 DEF EndItem
      <4>3. QED  BY <3>2, <4>2, CharChanged
    <3>3. QED  BY <3>1, <3>2
  <2>3. /\ openLists # <<>> /\ ~listCrashed
        /\ listCrashed' \in BOOLEAN /\ (listCrashed' => ~InRange)
    <3>1. openLists # <<>> /\ ~listCrashed  BY <1>3 DEF EndItem
    <3>2. listCrashed' = listCrashed \/ (listCrashed' = TRUE /\ ~InRange)
      BY <1>3 DEF EndItem
    <3>3. listCrashed = FALSE
      <4>1. listCrashed \in BOOLEAN  BY DEF ListsTyped
      <4>2. QED  BY <3>1, <4>1
    <3>4. listCrashed' = FALSE \/ (listCrashed' = TRUE /\ ~InRange)
      BY <3>2, <3>3
    <3>5. QED  BY <3>1, <3>4
  <2>4. inListStyle' = inListStyle /\ listHistory' = listHistory
    BY <1>3 DEF EndItem
  <2>5. QED  BY <2>1, <2>2, <2>3, <2>4
<1>4. QED  BY <1>1, <1>2, <1>3

\* The smallest of some numbers.
LEMMA LeastNat ==
  ASSUME NEW T, T \subseteq Nat, T # {}
  PROVE  \E m \in T : \A k \in T : m <= k
<1>1. PICK m \in T : \A k \in T : ~(<<k, m>> \in OpToRel(<, Nat))
  BY NatLessThanWellFounded, WFMin, Zenon
<1>2. \A k \in T : ~(k < m)  BY <1>1 DEF OpToRel
<1>3. QED  BY <1>2

\* A list put around others, or in them.
LEMMA Prepended ==
  ASSUME NEW S, NEW e \in S, NEW s \in Seq(S)
  PROVE  /\ <<e>> \o s \in Seq(S) /\ Len(<<e>> \o s) = Len(s) + 1
         /\ (<<e>> \o s)[1] = e
         /\ \A k \in 1..Len(s) : (<<e>> \o s)[k + 1] = s[k]
<1> DEFINE u == <<e>>
<1>1. u \in Seq(S) /\ Len(u) = 1 /\ u[1] = e /\ Len(s) \in Nat
  OBVIOUS
<1> HIDE DEF u
<1>2. /\ u \o s \in Seq(S) /\ Len(u \o s) = 1 + Len(s)
      /\ \A k \in 1..1 + Len(s) : (u \o s)[k] = IF k <= 1 THEN u[k] ELSE s[k - 1]
  <2>1. /\ u \o s \in Seq(S) /\ Len(u \o s) = Len(u) + Len(s)
        /\ \A k \in 1..Len(u) + Len(s) :
              (u \o s)[k] = IF k <= Len(u) THEN u[k] ELSE s[k - Len(u)]
    BY <1>1, ConcatProperties, Zenon
  <2>2. QED  BY <1>1, <2>1, Zenon
<1>3. \A k \in 1..Len(s) : k + 1 \in 1..1 + Len(s) /\ ~(k + 1 <= 1) /\ (k + 1) - 1 = k
  BY <1>1
<1>4. 1 \in 1..1 + Len(s) /\ 1 <= 1
  BY <1>1
<1>5. (u \o s)[1] = e
  BY <1>1, <1>2, <1>4
<1>6. \A k \in 1..Len(s) : (u \o s)[k + 1] = s[k]
  <2> TAKE k \in 1..Len(s)
  <2>1. (u \o s)[k + 1] = s[(k + 1) - 1]
    BY <1>2, <1>3
  <2>2. QED  BY <1>3, <2>1
<1>7. Len(u \o s) = Len(s) + 1
  BY <1>1, <1>2
<1>8. QED  BY <1>2, <1>5, <1>6, <1>7 DEF u

\* The style of nested lists is the one that is named first, from within.
LEMMA FirstNamed ==
  ASSUME NEW ls \in Seq(OpenList), NEW k \in 1..Len(ls), ls[k].style # NoName
  PROVE  \E i \in 1..Len(ls) :
            /\ i <= k /\ ls[i].style # NoName /\ StyleOf(ls) = ls[i].style
<1> DEFINE T == {i \in 1..Len(ls) : ls[i].style # NoName}
<1>1. T \subseteq Nat /\ k \in T
  OBVIOUS
<1>2. PICK m \in T : \A i \in T : m <= i
  BY <1>1, LeastNat
<1>3. m \in DOMAIN ls /\ ls[m].style # NoName /\ \A j \in 1..(m - 1) : ls[j].style = NoName
  BY <1>2
<1> DEFINE c == CHOOSE i \in DOMAIN ls :
                  ls[i].style # NoName /\ \A j \in 1..(i - 1) : ls[j].style = NoName
<1>4. c \in DOMAIN ls /\ ls[c].style # NoName /\ \A j \in 1..(c - 1) : ls[j].style = NoName
  BY <1>3
<1>5. StyleOf(ls) = ls[c].style
  BY <1>3 DEF StyleOf
<1> HIDE DEF c, T
<1>6. c \in 1..Len(ls) /\ ~(k < c)
  BY <1>4
<1>7. c <= k
  BY <1>6
<1>8. QED  BY <1>4, <1>5, <1>6, <1>7

\* In lists of one style it is that style.
LEMMA StyleOfOne ==
  ASSUME NEW ls \in Seq(OpenList), ls # <<>>, NEW n, n # NoName, ls[Len(ls)].style = n,
         \A i \in 1..Len(ls) : ls[i].style \in {n, NoName}
  PROVE  StyleOf(ls) = n
<1>1. Len(ls) \in 1..Len(ls)
  OBVIOUS
<1>2. QED  BY <1>1, FirstNamed

\* A list that names its style is of that style.
LEMMA StyleOfNamed ==
  ASSUME NEW ls \in Seq(OpenList), ls # <<>>, ls[1].style # NoName
  PROVE  StyleOf(ls) = ls[1].style
<1>1. 1 \in 1..Len(ls)
  OBVIOUS
<1>2. PICK i \in 1..Len(ls) : i <= 1 /\ StyleOf(ls) = ls[i].style
  BY <1>1, FirstNamed
<1>3. QED  BY <1>2

\* The index of a name.
LEMMA IndexTyped ==
  ASSUME ListsTyped, NEW name
  PROVE  BulletIndex(name) \in 0..Len(iBullets)
<1>1. FoundStyles(name) \subseteq 1..Len(iBullets)
  BY DEF FoundStyles, ListsTyped
<1>2. iBulletPos \in 0..Len(iBullets)
  BY DEF ListsTyped
<1>3. CASE name = NoName \/ FoundStyles(name) = {}
  BY <1>2, <1>3 DEF BulletIndex
<1>4. CASE name # NoName /\ FoundStyles(name) # {}
  <2>1. BulletIndex(name) \in FoundStyles(name)
    BY <1>4 DEF BulletIndex
  <2>2. QED  BY <1>1, <2>1 DEF ListsTyped
<1>5. QED  BY <1>3, <1>4

\* A declared name is found, at its only style.
LEMMA IndexFound ==
  ASSUME ListsTyped, NamesKept, ~late, NEW k \in 1..Len(iBullets)
  PROVE  /\ iBullets[k].name # NoName
         /\ BulletIndex(iBullets[k].name) = k
<1>1. DOMAIN iBullets = 1..Len(iBullets)
  BY DEF ListsTyped
<1>2. \A i, j \in 1..Len(iBullets) :
        iBullets[i].name # NoName /\ (iBullets[i].name = iBullets[j].name => i = j)
  BY <1>1 DEF NamesKept
<1>3. FoundStyles(iBullets[k].name) = {k}
  BY <1>1, <1>2 DEF FoundStyles, ListsTyped
<1>4. QED  BY <1>2, <1>3 DEF BulletIndex

\* The styles keep all but their depth, which grows by d at i.
Deepened(i, d) ==
    /\ iBullets' \in Seq(ListStyle) /\ Len(iBullets') = Len(iBullets)
    /\ \A j \in 1..Len(iBullets) :
          /\ iBullets'[j].name = iBullets[j].name /\ iBullets'[j].levels = iBullets[j].levels
          /\ iBullets'[j].level = iBullets[j].level + (IF j = i THEN d ELSE 0)

\* Adding to the depth of a style, and to none.
LEMMA Deepens ==
  ASSUME ListsTyped, NEW i \in 0..Len(iBullets), NEW d \in {1, 0 - 1},
         i = 0 => iBullets' = iBullets,
         i # 0 => iBullets' = [iBullets EXCEPT ![i] =
                                 [iBullets[i] EXCEPT !.level = iBullets[i].level + d]]
  PROVE  Deepened(i, d)
<1>0. \A j \in 1..Len(iBullets) : iBullets[j].level \in Int
  <2> TAKE j \in 1..Len(iBullets)
  <2>1. iBullets[j] \in ListStyle  BY DEF ListsTyped
  <2>2. QED  BY <2>1 DEF ListStyle
<1>1. CASE i = 0
  BY <1>0, <1>1 DEF ListsTyped, Deepened
<1>2. CASE i # 0
  <2>1. i \in 1..Len(iBullets) /\ iBullets[i].level + d \in Int
    BY <1>0, <1>2 DEF ListsTyped
  <2> DEFINE deep == iBullets[i].level + d
             r == [iBullets[i] EXCEPT !.level = deep]
  <2>2. iBullets' = [iBullets EXCEPT ![i] = r]
    BY <1>2
  <2>3. deep \in Int /\ deep = iBullets[i].level + d
    BY <2>1
  <2> HIDE DEF deep
  <2>4. /\ StyleSetTo([iBullets EXCEPT ![i] = r], i, r) /\ r.name = iBullets[i].name
        /\ r.level = deep /\ r.levels = iBullets[i].levels
    BY <2>1, <2>3, DepthChanged
  <2> HIDE DEF r
  <2>5. StyleSetTo(iBullets', i, r)
    BY <2>2, <2>4
  <2>6. QED  BY <1>0, <2>1, <2>3, <2>4, <2>5 DEF StyleSetTo, Deepened
<1>3. QED  BY <1>1, <1>2

\* What a list does to the styles: it finds its style and goes down in it, or
\* meets a style without a name.
LEMMA ListOpened ==
  ASSUME ListsTyped, NEW name, StartList(name)
  PROVE  \/ Deepened(BulletIndex(name), 1) /\ iBulletPos' = BulletIndex(name) /\ listCrashed' = FALSE
         \/ /\ UNCHANGED bullets /\ listCrashed' = TRUE
            /\ \E k \in 1..Len(iBullets) : iBullets[k].name = NoName
<1> DEFINE i == BulletIndex(name)
<1>0. i \in 0..Len(iBullets) /\ DOMAIN iBullets = 1..Len(iBullets)
  BY IndexTyped DEF ListsTyped
<1>a. listCrashed = FALSE
  <2>1. listCrashed \in BOOLEAN /\ ~listCrashed  BY DEF ListsTyped, StartList
  <2>2. QED  BY <2>1
<1>1. CASE name # NoName /\ i \in FoundStyles(name) /\ iBullets[i].name = NoName
  <2>1. UNCHANGED bullets /\ listCrashed' = TRUE
    BY <1>1 DEF StartList
  <2>2. i \in 1..Len(iBullets)
    BY <1>0, <1>1 DEF FoundStyles
  <2>3. QED  BY <1>1, <2>1, <2>2
<1>2. CASE ~(name # NoName /\ i \in FoundStyles(name) /\ iBullets[i].name = NoName)
  <2>1. /\ iBulletPos' = i /\ listCrashed' = listCrashed
        /\ iBullets' = IF i = 0 THEN iBullets ELSE [iBullets EXCEPT ![i].level = @ + 1]
    BY <1>2 DEF StartList
  <2>2. i # 0 => iBullets' = [iBullets EXCEPT ![i] =
                                [iBullets[i] EXCEPT !.level = iBullets[i].level + 1]]
    BY <1>0, <2>1
  <2>3. Deepened(i, 1)
    BY <1>0, <2>1, <2>2, Deepens
  <2>4. QED  BY <1>a, <2>1, <2>3
<1>3. QED  BY <1>1, <1>2

LEMMA StartListTyped ==
  ASSUME ListsTyped, NEW name \in ListNames \cup {NoName}, StartList(name)
  PROVE  ListsTyped'
<1>1. /\ iBullets' \in Seq(ListStyle) /\ iBulletPos' \in 0..Len(iBullets')
      /\ listCrashed' \in BOOLEAN
  BY ListOpened, IndexTyped DEF ListsTyped, Deepened, bullets
<1>2. openLists' \in Seq(OpenList)
  <2>1. [style |-> name, item |-> FALSE] \in OpenList /\ openLists \in Seq(OpenList)
    BY DEF OpenList, ListsTyped
  <2>2. openLists' = <<[style |-> name, item |-> FALSE]>> \o openLists
    BY DEF StartList
  <2>3. QED  BY <2>1, <2>2, Prepended
<1>3. foreign' \in BOOLEAN /\ unstyled' \in BOOLEAN /\ short' \in BOOLEAN
  BY DEF StartList, ListsTyped
<1>4. late' \in BOOLEAN /\ inListStyle' = inListStyle /\ inListStyle \in BOOLEAN /\ ~inListStyle
  BY DEF StartList, ListsTyped
<1>5. inListStyle' \in BOOLEAN /\ ~inListStyle'
  BY <1>4
<1>6. QED  BY <1>1, <1>2, <1>3, <1>4, <1>5 DEF ListsTyped

LEMMA StartListPlain ==
  ASSUME ListsInv, NEW name \in ListNames \cup {NoName}, StartList(name)
  PROVE  PlainInv' /\ ItemsInRange' /\ NamesKept'
<1> DEFINE i == BulletIndex(name)
           e == [style |-> name, item |-> FALSE]
<1>1. ListsTyped /\ openLists \in Seq(OpenList) /\ e \in OpenList
  BY DEF ListsInv, ListsTyped, OpenList
<1>2. /\ openLists' \in Seq(OpenList) /\ Len(openLists') = Len(openLists) + 1
      /\ openLists'[1] = e /\ \A k \in 1..Len(openLists) : openLists'[k + 1] = openLists[k]
  <2>1. openLists' = <<e>> \o openLists
    BY DEF StartList
  <2> HIDE DEF e
  <2>2. QED  BY <1>1, <2>1, Prepended
<1>3. late' = late
  BY DEF StartList
<1>4. DOMAIN iBullets = 1..Len(iBullets) /\ DOMAIN iBullets' = 1..Len(iBullets')
  BY <1>1, StartListTyped DEF ListsTyped
<1>5. NamesKept'
  BY <1>1, <1>3, <1>4, ListOpened DEF ListsInv, NamesKept, Deepened, bullets
<1>6. Plain' => Plain /\ StyleOf(openLists') \in DeclaredNames
                 /\ (openLists # <<>> => StyleOf(openLists') = StyleOf(openLists))
  <2> SUFFICES ASSUME Plain'
               PROVE  /\ Plain /\ StyleOf(openLists') \in DeclaredNames
                      /\ (openLists # <<>> => StyleOf(openLists') = StyleOf(openLists))
    OBVIOUS
  <2> DEFINE ls == <<e>> \o openLists
             odd == openLists # <<>> /\ StyleOf(ls) # StyleOf(openLists)
             bare == StyleOf(ls) \notin DeclaredNames
  <2>1. openLists' = ls /\ foreign' = (foreign \/ odd) /\ unstyled' = (unstyled \/ bare)
    BY DEF StartList
  <2>2. foreign' = FALSE /\ unstyled' = FALSE
    <3>1. foreign' \in BOOLEAN /\ unstyled' \in BOOLEAN  BY <1>1, StartListTyped DEF ListsTyped
    <3>2. ~foreign' /\ ~unstyled'  BY DEF Plain
    <3>3. QED  BY <3>1, <3>2
  <2> HIDE DEF odd, bare
  <2>3. ~foreign /\ ~odd /\ ~unstyled /\ ~bare
    BY <2>1, <2>2
  <2>4. ~late
    <3>1. ~late'  BY DEF Plain
    <3>2. QED  BY <1>3, <3>1
  <2>5. QED  BY <2>1, <2>3, <2>4 DEF Plain, odd, bare
<1>7. ~late => Deepened(i, 1) /\ iBulletPos' = i /\ listCrashed' = FALSE
  <2> SUFFICES ASSUME ~late PROVE Deepened(i, 1) /\ iBulletPos' = i /\ listCrashed' = FALSE
    OBVIOUS
  <2>1. \A k \in 1..Len(iBullets) : iBullets[k].name # NoName
    BY <1>4 DEF ListsInv, NamesKept
  <2>2. QED  BY <1>1, <2>1, ListOpened
<1>8. ItemsInRange'
  BY <1>6, <1>7 DEF Plain, ItemsInRange
<1>9. PlainInv'
  <2> SUFFICES ASSUME Plain', ~listCrashed'
               PROVE  AtItsDepth' /\ OfOneStyle' /\ (~short' => Len(openLists') <= Len(StyleInUse'.levels))
    BY DEF PlainInv
  <2>1. /\ Plain /\ ~late /\ Deepened(i, 1) /\ iBulletPos' = i /\ NamesKept /\ AtItsDepth
        /\ openLists # <<>> => OfOneStyle /\ (~short => Len(openLists) <= Len(StyleInUse.levels))
    BY <1>6, <1>7 DEF Plain, ListsInv, PlainInv, StartList
  <2>2. /\ i \in 1..Len(iBullets)
        /\ openLists # <<>> => i = iBulletPos
        /\ name \in {iBullets[i].name, NoName} /\ iBullets[i].name # NoName
        /\ openLists = <<>> => name = iBullets[i].name
    <3>1. CASE openLists = <<>>
      <4>1. openLists' # <<>> /\ Len(openLists') = 1
        BY <1>2, <3>1
      <4>2. name # NoName
        <5> SUFFICES ASSUME name = NoName PROVE FALSE
          OBVIOUS
        <5>1. \A k \in DOMAIN openLists' : openLists'[k].style = NoName
          <6>1. e.style = NoName  OBVIOUS
          <6>2. openLists'[1].style = NoName  BY <1>2, <6>1
          <6>3. DOMAIN openLists' = 1..1
            <7>1. DOMAIN openLists' = 1..Len(openLists')  BY <1>2
            <7>2. QED  BY <4>1, <7>1
          <6>4. QED  BY <6>2, <6>3
        <5>2. StyleOf(openLists') = NoName
          BY <5>1 DEF StyleOf
        <5>3. QED  BY <1>6, <5>2 DEF DeclaredNames
      <4>3. StyleOf(openLists') = name
        BY <1>2, <4>1, <4>2, StyleOfNamed
      <4>4. PICK k \in 1..Len(iBullets) : iBullets[k].name = name
        BY <1>4, <1>6, <4>3 DEF DeclaredNames
      <4>5. i = k
        BY <1>1, <2>1, <4>4, IndexFound
      <4>6. QED  BY <3>1, <4>2, <4>4, <4>5
    <3>2. CASE openLists # <<>>
      <4>1. OfOneStyle /\ iBulletPos \in 1..Len(iBullets)
        BY <1>1, <2>1, <3>2, InUseTyped DEF OfOneStyle
      <4>2. StyleOf(openLists') = StyleInUse.name
        BY <1>1, <1>6, <3>2, <4>1, StyleOfOne DEF OfOneStyle
      <4>3. CASE name = NoName
        BY <3>2, <4>1, <4>3 DEF BulletIndex, OfOneStyle, StyleInUse
      <4>4. CASE name # NoName
        <5>1. openLists' # <<>>
          BY <1>2
        <5>2. name = iBullets[iBulletPos].name
          BY <1>2, <4>2, <4>4, <5>1, StyleOfNamed DEF StyleInUse
        <5>3. i = iBulletPos
          BY <1>1, <2>1, <4>1, <5>2, IndexFound
        <5>4. QED  BY <3>2, <4>1, <4>4, <5>2, <5>3
      <4>5. QED  BY <4>3, <4>4
    <3>3. QED  BY <3>1, <3>2
  <2> HIDE DEF i
  <2>3. AtItsDepth'
    <3>1. \A j \in 1..Len(iBullets) : iBullets[j].level = IF j = iBulletPos THEN Len(openLists) ELSE 0
      BY <2>1 DEF AtItsDepth
    <3>2. Len(openLists) \in Nat /\ (openLists = <<>> => Len(openLists) = 0)
      BY <1>1
    <3>3. \A j \in 1..Len(iBullets) : iBullets[j].level = IF j = i THEN Len(openLists) ELSE 0
      BY <2>2, <3>1, <3>2
    <3>4. QED  BY <1>2, <2>1, <3>2, <3>3 DEF AtItsDepth, Deepened
  <2>4. OfOneStyle'
    <3>1. iBulletPos' # 0 /\ StyleInUse'.name = iBullets[i].name /\ iBullets[i].name # NoName
      BY <2>1, <2>2 DEF Deepened, StyleInUse
    <3>2. \A k \in 1..Len(openLists) : openLists[k].style \in {iBullets[i].name, NoName}
      BY <1>1, <2>1, <2>2 DEF OfOneStyle, StyleInUse
    <3>3. \A k \in 1..Len(openLists') : openLists'[k].style \in {iBullets[i].name, NoName}
      <4> TAKE k \in 1..Len(openLists')
      <4>1. k = 1 \/ (k - 1 \in 1..Len(openLists) /\ (k - 1) + 1 = k)
        BY <1>1, <1>2
      <4>2. CASE k = 1  BY <1>2, <2>2, <4>2
      <4>3. CASE k - 1 \in 1..Len(openLists) /\ (k - 1) + 1 = k
        <5>1. openLists'[k] = openLists[k - 1]  BY <1>2, <4>3
        <5>2. QED  BY <3>2, <4>3, <5>1
      <4>4. QED  BY <4>1, <4>2, <4>3
    <3>4. openLists'[Len(openLists')].style = iBullets[i].name
      <4>1. CASE openLists = <<>>
        BY <1>2, <2>2, <4>1
      <4>2. CASE openLists # <<>>
        <5>1. Len(openLists) \in 1..Len(openLists)
          BY <1>1, <4>2
        <5>2. openLists'[Len(openLists')] = openLists[Len(openLists)]
          BY <1>2, <5>1
        <5>3. QED  BY <2>1, <2>2, <4>2, <5>2 DEF OfOneStyle, StyleInUse
      <4>3. QED  BY <4>1, <4>2
    <3>5. QED  BY <3>1, <3>3, <3>4 DEF OfOneStyle
  <2>5. ~short' => Len(openLists') <= Len(StyleInUse'.levels)
    <3> SUFFICES ASSUME ~short' PROVE Len(openLists') <= Len(StyleInUse'.levels)
      OBVIOUS
    <3>1. ~(iBullets[i].level >= Len(iBullets[i].levels))
      <4> DEFINE deep == iBullets[i].level >= Len(iBullets[i].levels)
      <4>1. short' = (short \/ (i # 0 /\ deep))
        BY DEF StartList, i
      <4>2. short' = FALSE
        <5>1. short' \in BOOLEAN  BY <1>1, StartListTyped DEF ListsTyped
        <5>2. QED  BY <5>1
      <4> HIDE DEF deep
      <4>3. ~deep
        <5>1. i # 0  BY <2>2
        <5>2. (i # 0 /\ deep) => short' = TRUE  BY <4>1
        <5>3. QED  BY <4>2, <5>1, <5>2
      <4>4. QED  BY <4>3 DEF deep
    <3>2. iBullets[i].level = Len(openLists)
      <4>1. Len(openLists) \in Nat /\ (openLists = <<>> => Len(openLists) = 0)
        BY <1>1
      <4>2. QED  BY <2>1, <2>2, <4>1 DEF AtItsDepth
    <3>3. StyleInUse'.levels = iBullets[i].levels /\ Len(iBullets[i].levels) \in Nat
      <4>1. iBullets[i] \in ListStyle
        BY <1>1, <2>2 DEF ListsTyped
      <4>2. QED  BY <2>1, <2>2, <4>1 DEF Deepened, StyleInUse, ListStyle
    <3>4. QED  BY <1>1, <1>2, <3>1, <3>2, <3>3
  <2>6. QED  BY <2>3, <2>4, <2>5
<1>10. QED  BY <1>5, <1>8, <1>9

\* A new list style takes its place at the end, and the name goes to the style
\* after the one in use.
LEMMA StyleAdded ==
  ASSUME ListsTyped, NEW name \in ListNames, AddBulletItem(name)
  PROVE  /\ iBullets' \in Seq(ListStyle) /\ Len(iBullets') = Len(iBullets) + 1
         /\ iBulletPos' \in 1..Len(iBullets') /\ iBulletPos' = iBulletPos + 1
         /\ \A j \in 1..Len(iBullets') :
               /\ iBullets'[j].level = IF j <= Len(iBullets) THEN iBullets[j].level ELSE 0
               /\ iBullets'[j].name = IF j = iBulletPos' THEN name
                                      ELSE IF j <= Len(iBullets) THEN iBullets[j].name
                                      ELSE NoName
<1> DEFINE blank == [name |-> NoName, levels |-> <<>>, level |-> 0]
           added == Append(iBullets, blank)
           p == iBulletPos + 1
           r == [added[p] EXCEPT !.name = name]
<1>1. blank \in ListStyle
  <2>1. <<>> \in Seq(Level)  BY EmptySeq
  <2>2. QED  BY <2>1 DEF ListStyle
<1>2. iBullets \in Seq(ListStyle) /\ iBulletPos \in 0..Len(iBullets)
  BY DEF ListsTyped
<1>3. blank.level = 0 /\ blank.name = NoName
  OBVIOUS
<1>4. iBullets' = [added EXCEPT ![p].name = name] /\ iBulletPos' = p
  BY DEF AddBulletItem
<1> HIDE DEF blank
<1>5. /\ added \in Seq(ListStyle) /\ Len(added) = Len(iBullets) + 1
      /\ \A j \in 1..Len(iBullets) : added[j] = iBullets[j]
      /\ added[Len(iBullets) + 1] = blank
  BY <1>1, <1>2, AppendProperties
<1> HIDE DEF added
<1>6. p \in 1..Len(added)
  BY <1>2, <1>5
<1>7. added[p] \in ListStyle
  BY <1>5, <1>6
<1>8. r \in ListStyle /\ r.name = name /\ r.level = added[p].level
  BY <1>7 DEF ListStyle
<1>9. iBullets' = [added EXCEPT ![p] = r]
  BY <1>4, <1>6
<1> HIDE DEF r
<1>10. /\ iBullets' \in Seq(ListStyle) /\ Len(iBullets') = Len(added)
       /\ \A j \in 1..Len(added) : iBullets'[j] = IF j = p THEN r ELSE added[j]
  BY <1>5, <1>6, <1>8, <1>9
<1>11. \A j \in 1..Len(added) : added[j] = IF j <= Len(iBullets) THEN iBullets[j] ELSE blank
  BY <1>2, <1>5
<1>12. p \in 1..Len(iBullets') /\ p = iBulletPos + 1
  BY <1>6, <1>10
<1> HIDE DEF p
<1>13. QED  BY <1>3, <1>4, <1>5, <1>8, <1>10, <1>11, <1>12

\* Declaring a style keeps the invariant.
LEMMA AddBulletItemSafe ==
  ASSUME ListsInv, NEW name \in ListNames, AddBulletItem(name)
  PROVE  ListsInv'
<1>1. ListsTyped
  BY DEF ListsInv
<1>2. /\ openLists = <<>> /\ openLists' = openLists /\ listCrashed' = listCrashed /\ ~listCrashed
      /\ inListStyle' = TRUE /\ foreign' = foreign /\ short' = short /\ unstyled' = unstyled
      /\ late' = (late \/ iBulletPos # Len(iBullets))
  BY DEF AddBulletItem
<1>3. listCrashed = FALSE
  BY <1>1, <1>2 DEF ListsTyped
<1>4. late' \in BOOLEAN
  BY <1>1, <1>2 DEF ListsTyped
<1>5. iBulletPos' \in 0..Len(iBullets') /\ iBulletPos' # 0
  <2>1. iBulletPos' \in 1..Len(iBullets') /\ iBullets' \in Seq(ListStyle)
    BY <1>1, StyleAdded
  <2>2. QED  BY <2>1
<1>6. ListsTyped'
  BY <1>1, <1>2, <1>3, <1>4, <1>5, StyleAdded DEF ListsTyped
<1>7. ~late' => ~late /\ iBulletPos = Len(iBullets)
  <2> DEFINE other == iBulletPos # Len(iBullets)
  <2>1. late' = (late \/ other)  BY <1>2
  <2> HIDE DEF other
  <2>2. ~late' => ~late /\ ~other
    <3> SUFFICES ASSUME ~late' PROVE ~late /\ ~other  OBVIOUS
    <3>1. late' = FALSE  BY <1>4
    <3>2. QED  BY <2>1, <3>1
  <2>3. QED  BY <2>2 DEF other
<1>8. DOMAIN iBullets = 1..Len(iBullets) /\ DOMAIN iBullets' = 1..Len(iBullets')
  BY <1>1, <1>6 DEF ListsTyped
<1>9. NamesKept'
  <2> SUFFICES ASSUME ~late'
               PROVE  \A i, j \in 1..Len(iBullets') :
                         /\ iBullets'[i].name # NoName
                         /\ iBullets'[i].name = iBullets'[j].name => i = j
    BY <1>8 DEF NamesKept
  <2>1. \A i, j \in 1..Len(iBullets) :
          /\ iBullets[i].name # NoName
          /\ iBullets[i].name = iBullets[j].name => i = j
    BY <1>7, <1>8 DEF ListsInv, NamesKept
  <2>2. name # NoName /\ \A i \in 1..Len(iBullets) : iBullets[i].name # name
    <3>1. name \notin DeclaredNames  BY DEF AddBulletItem
    <3>2. name # NoName  BY ListConstants
    <3>3. QED  BY <1>8, <3>1, <3>2 DEF DeclaredNames
  <2>3. Len(iBullets) \in Nat /\ Len(iBullets') = Len(iBullets) + 1 /\ iBulletPos' = Len(iBullets) + 1
    BY <1>1, <1>7, StyleAdded DEF ListsTyped
  <2>4. \A i \in 1..Len(iBullets') :
          iBullets'[i].name = IF i \in 1..Len(iBullets) THEN iBullets[i].name ELSE name
    BY <1>1, <2>3, StyleAdded
  <2>5. QED  BY <2>1, <2>2, <2>3, <2>4
<1>10. PlainInv'
  <2> SUFFICES ASSUME Plain' PROVE AtItsDepth'
    BY <1>2 DEF PlainInv
  <2>1. Plain /\ ~listCrashed
    <3>1. ~late' /\ ~foreign' /\ ~unstyled'  BY DEF Plain
    <3>2. QED  BY <1>2, <1>7, <3>1 DEF Plain
  <2>2. AtItsDepth
    BY <2>1 DEF ListsInv, PlainInv
  <2>3. Len(openLists) = 0 /\ Len(openLists') = 0
    BY <1>2
  <2>4. \A j \in 1..Len(iBullets) : iBullets[j].level = 0
    BY <2>2, <2>3 DEF AtItsDepth
  <2>5. Len(iBullets) \in Nat
    BY <1>1 DEF ListsTyped
  <2>6. \A j \in 1..Len(iBullets') : iBullets'[j].level = 0
    BY <1>1, <2>4, <2>5, StyleAdded
  <2>7. QED  BY <2>3, <2>6 DEF AtItsDepth
<1>11. ItemsInRange'
  BY <1>2, <1>3 DEF ItemsInRange
<1>12. QED  BY <1>6, <1>9, <1>10, <1>11 DEF ListsInv

\* Steps that leave depths and lists alone leave the rest of the invariant, too.
LEMMA DepthsStay ==
  ASSUME ListsInv, ListsTyped', OnlyLevels, SameLists, listHistory' = listHistory,
         ~listCrashed, openLists = <<>> \/ SameLevels
  PROVE  NamesKept' /\ PlainInv'
<1>1. /\ late' = late /\ foreign' = foreign /\ unstyled' = unstyled /\ short' = short
  BY DEF listHistory
<1>2. /\ DOMAIN iBullets = 1..Len(iBullets) /\ DOMAIN iBullets' = 1..Len(iBullets')
      /\ Len(openLists) \in Nat /\ openLists \in Seq(OpenList)
      /\ iBulletPos \in 0..Len(iBullets) /\ Len(iBullets) \in Nat
  BY DEF ListsInv, ListsTyped
<1>3. /\ Len(iBullets') = Len(iBullets) /\ iBulletPos' = iBulletPos
      /\ \A i \in 1..Len(iBullets) :
            iBullets'[i].name = iBullets[i].name /\ iBullets'[i].level = iBullets[i].level
  BY DEF OnlyLevels
<1>4. /\ Len(openLists') = Len(openLists) /\ openLists' \in Seq(OpenList)
      /\ \A i \in 1..Len(openLists) : openLists'[i].style = openLists[i].style
  BY DEF SameLists
<1>5. NamesKept'
  BY <1>1, <1>2, <1>3 DEF ListsInv, NamesKept
<1>6. ASSUME Plain', ~listCrashed'
      PROVE  /\ AtItsDepth'
             /\ openLists' # <<>> =>
                   OfOneStyle' /\ (~short' => Len(openLists') <= Len(StyleInUse'.levels))
  <2>1. Plain
    BY <1>1, <1>6 DEF Plain
  <2>2. AtItsDepth'
    BY <1>3, <1>4, <2>1 DEF ListsInv, PlainInv, AtItsDepth
  <2>3. ASSUME openLists' # <<>>
        PROVE  OfOneStyle' /\ (~short' => Len(openLists') <= Len(StyleInUse'.levels))
    <3>1. openLists # <<>> /\ Len(openLists) \in 1..Len(openLists)
      BY <1>2, <1>4, <2>3
    <3>2. OfOneStyle /\ (~short => Len(openLists) <= Len(StyleInUse.levels)) /\ SameLevels
      BY <2>1, <3>1 DEF ListsInv, PlainInv
    <3>3. iBulletPos \in 1..Len(iBullets)
      BY <1>2, <3>2 DEF OfOneStyle
    <3>4. OfOneStyle'
      BY <1>3, <1>4, <3>1, <3>2, <3>3 DEF OfOneStyle, StyleInUse
    <3>5. ~short' => Len(openLists') <= Len(StyleInUse'.levels)
      BY <1>1, <1>3, <1>4, <3>2, <3>3 DEF SameLevels, StyleInUse
    <3>6. QED  BY <3>4, <3>5
  <2>4. QED  BY <2>2, <2>3
<1>7. QED  BY <1>5, <1>6 DEF PlainInv

\* Giving a list style its levels keeps the invariant.
LEMMA DeclaringSafe ==
  ASSUME ListsInv, (\E type \in LevelTypes : AddBullet(type)) \/ VerifyBullets
  PROVE  ListsInv'
<1>1. ListsTyped
  BY DEF ListsInv
<1>2. /\ OnlyLevels /\ inListStyle /\ ~listCrashed' /\ inListStyle' \in BOOLEAN
      /\ openLists' = openLists /\ listHistory' = listHistory
  BY <1>1, DeclaringStep
<1>3. ~listCrashed /\ listCrashed' = listCrashed
  BY DEF AddBullet, VerifyBullets
<1>4. openLists = <<>> /\ iBulletPos # 0
  BY <1>1, <1>2 DEF ListsTyped
<1>5. listCrashed' \in BOOLEAN
  BY <1>1, <1>3 DEF ListsTyped
<1>6. ListsTyped'
  BY <1>1, <1>2, <1>4, <1>5 DEF ListsTyped, OnlyLevels, listHistory
<1>7. SameLists
  BY <1>1, <1>2 DEF SameLists, ListsTyped
<1>8. ItemsInRange'
  BY <1>2 DEF ItemsInRange
<1>9. QED  BY <1>2, <1>3, <1>4, <1>6, <1>7, <1>8, DepthsStay DEF ListsInv

\* In plain documents with levels enough, the level of an item is there.
LEMMA ItemInRange ==
  ASSUME ListsInv, Plain, ~short, ~listCrashed, openLists # <<>>
  PROVE  InRange
<1>1. ListsTyped /\ AtItsDepth /\ OfOneStyle /\ Len(openLists) <= Len(StyleInUse.levels)
  BY DEF ListsInv, PlainInv
<1>2. iBulletPos \in 1..Len(iBullets) /\ StyleInUse.levels \in Seq(Level)
  BY <1>1, InUseTyped DEF OfOneStyle
<1>3. StyleInUse.level = Len(openLists)
  BY <1>1, <1>2 DEF AtItsDepth, StyleInUse
<1>4. Len(openLists) \in 1..Len(StyleInUse.levels)
  BY <1>1, <1>2 DEF ListsTyped
<1>5. QED  BY <1>2, <1>3, <1>4 DEF InRange

\* Items keep the invariant.
LEMMA ItemSafe ==
  ASSUME ListsInv,
         \/ \E start \in {0, Digits, Bullet} : StartItem(start)
         \/ ReadBulletChar \/ EndItem
  PROVE  ListsInv'
<1>1. ListsTyped
  BY DEF ListsInv
<1>2. /\ SameLevels /\ SameLists /\ openLists # <<>> /\ ~listCrashed
      /\ listCrashed' \in BOOLEAN /\ (listCrashed' => ~InRange)
      /\ inListStyle' = inListStyle /\ listHistory' = listHistory
  BY <1>1, ItemStep
<1>3. OnlyLevels
  BY <1>2 DEF SameLevels
<1>4. inListStyle = FALSE
  BY <1>1, <1>2 DEF ListsTyped
<1>5. ListsTyped'
  BY <1>1, <1>2, <1>3, <1>4 DEF ListsTyped, OnlyLevels, SameLists, listHistory
<1>6. ItemsInRange'
  <2> SUFFICES ASSUME Plain', ~short' PROVE ~listCrashed'
    BY DEF ItemsInRange
  <2>1. Plain /\ ~short
    BY <1>2 DEF Plain, listHistory
  <2>2. QED  BY <1>2, <2>1, ItemInRange
<1>7. NamesKept' /\ PlainInv'
  BY <1>2, <1>3, <1>5, DepthsStay
<1>8. QED  BY <1>5, <1>6, <1>7 DEF ListsInv

\* Opening a list keeps the invariant.
LEMMA StartListSafe ==
  ASSUME ListsInv, NEW name \in ListNames \cup {NoName}, StartList(name)
  PROVE  ListsInv'
<1>1. ListsTyped
  BY DEF ListsInv
<1>2. QED  BY <1>1, StartListTyped, StartListPlain DEF ListsInv

\* Closing a list keeps the invariant.
LEMMA EndListSafe ==
  ASSUME ListsInv, EndList
  PROVE  ListsInv'
<1>1. ListsTyped /\ openLists \in Seq(OpenList) /\ openLists # <<>>
  BY DEF ListsInv, ListsTyped, EndList
<1>2. /\ openLists' = Tail(openLists) /\ iBulletPos' = iBulletPos
      /\ listCrashed' = listCrashed /\ ~listCrashed /\ inListStyle' = inListStyle
      /\ listHistory' = listHistory
  BY DEF EndList
<1>3. /\ openLists' \in Seq(OpenList) /\ Len(openLists') = Len(openLists) - 1
      /\ \A i \in 1..Len(openLists') : openLists'[i] = openLists[i + 1]
      /\ Len(openLists) \in Nat /\ Len(openLists) >= 1
  BY <1>1, <1>2, HeadTailProperties
<1>4. listCrashed = FALSE /\ inListStyle = FALSE
  BY <1>1, <1>2 DEF ListsTyped
<1>5. Deepened(iBulletPos, 0 - 1)
  <2>1. iBulletPos \in 0..Len(iBullets)
    BY <1>1 DEF ListsTyped
  <2>2. iBulletPos = 0 => iBullets' = iBullets
    BY DEF EndList
  <2>3. iBulletPos # 0 =>
          iBullets' = [iBullets EXCEPT ![iBulletPos] =
             [iBullets[iBulletPos] EXCEPT !.level = iBullets[iBulletPos].level + (0 - 1)]]
    <3> SUFFICES ASSUME iBulletPos # 0
                 PROVE  iBullets' = [iBullets EXCEPT ![iBulletPos] =
                           [iBullets[iBulletPos] EXCEPT !.level = iBullets[iBulletPos].level + (0 - 1)]]
      OBVIOUS
    <3>1. StyleInUse.level \in Int /\ iBulletPos \in DOMAIN iBullets
      BY <1>1, InUseTyped
    <3>2. iBullets[iBulletPos].level - 1 = iBullets[iBulletPos].level + (0 - 1)
      BY <3>1 DEF StyleInUse
    <3>3. iBullets' = [iBullets EXCEPT ![iBulletPos] =
             [iBullets[iBulletPos] EXCEPT !.level = iBullets[iBulletPos].level - 1]]
      BY <3>1 DEF EndList
    <3>4. QED  BY <3>2, <3>3
  <2>4. QED  BY <1>1, <2>1, <2>2, <2>3, Deepens
<1>6. ListsTyped'
  BY <1>1, <1>2, <1>3, <1>4, <1>5 DEF ListsTyped, Deepened, listHistory
<1>7. DOMAIN iBullets = 1..Len(iBullets) /\ DOMAIN iBullets' = 1..Len(iBullets')
  BY <1>1, <1>6 DEF ListsTyped
<1>8. NamesKept'
  BY <1>2, <1>5, <1>7 DEF ListsInv, NamesKept, Deepened, listHistory
<1>9. ItemsInRange'
  BY <1>2 DEF ItemsInRange
<1>10. PlainInv'
  <2> SUFFICES ASSUME Plain'
               PROVE  /\ AtItsDepth'
                      /\ openLists' # <<>> =>
                            OfOneStyle' /\ (~short' => Len(openLists') <= Len(StyleInUse'.levels))
    BY DEF PlainInv
  <2>1. Plain
    BY <1>2 DEF Plain, listHistory
  <2>2. AtItsDepth /\ OfOneStyle /\ (~short => Len(openLists) <= Len(StyleInUse.levels))
    BY <1>1, <1>2, <2>1 DEF ListsInv, PlainInv
  <2>3. /\ iBulletPos \in 1..Len(iBullets) /\ StyleInUse.levels \in Seq(Level)
    BY <1>1, <2>2, InUseTyped DEF OfOneStyle
  <2>4. AtItsDepth'
    BY <1>2, <1>3, <1>5, <2>2 DEF AtItsDepth, Deepened
  <2>5. ASSUME openLists' # <<>>
        PROVE  OfOneStyle' /\ (~short' => Len(openLists') <= Len(StyleInUse'.levels))
    <3>1. Len(openLists') \in 1..Len(openLists') /\ Len(openLists') + 1 = Len(openLists)
      BY <1>3, <2>5
    <3>2. openLists'[Len(openLists')] = openLists[Len(openLists)]
      BY <1>3, <3>1
    <3>3. StyleInUse'.name = StyleInUse.name /\ StyleInUse'.levels = StyleInUse.levels
      BY <1>2, <1>5, <2>3 DEF Deepened, StyleInUse
    <3>4. \A i \in 1..Len(openLists') : openLists'[i].style \in {StyleInUse.name, NoName}
      <4> TAKE i \in 1..Len(openLists')
      <4>1. i + 1 \in 1..Len(openLists)  BY <1>3
      <4>2. openLists'[i] = openLists[i + 1]  BY <1>3
      <4>3. QED  BY <2>2, <4>1, <4>2 DEF OfOneStyle
    <3>5. OfOneStyle'
      BY <1>2, <2>2, <3>2, <3>3, <3>4 DEF OfOneStyle
    <3>6. ~short' => Len(openLists') <= Len(StyleInUse'.levels)
      <4>1. short' = short  BY <1>2 DEF listHistory
      <4>2. Len(StyleInUse.levels) \in Nat  BY <2>3
      <4>3. QED  BY <1>3, <2>2, <3>3, <4>1, <4>2
    <3>7. QED  BY <3>5, <3>6
  <2>6. QED  BY <2>4, <2>5
<1>11. QED  BY <1>6, <1>8, <1>9, <1>10 DEF ListsInv

\* The invariant says all that is to be shown.
LEMMA ListsInvShows ==
  ASSUME ListsInv
  PROVE  ListsShown
<1>1. ListsTyped
  BY DEF ListsInv
<1>2. DOMAIN iBullets = 1..Len(iBullets)
  BY <1>1 DEF ListsTyped
<1>3. ListsTypeOK
  <2>1. \A i \in DOMAIN iBullets :
          /\ iBullets[i].name \in ListNames \cup {NoName} /\ iBullets[i].level \in Int
          /\ iBullets[i].levels \in Seq(Level)
    <3> TAKE i \in DOMAIN iBullets
    <3>1. iBullets[i] \in ListStyle  BY <1>1, <1>2 DEF ListsTyped
    <3>2. QED  BY <3>1 DEF ListStyle
  <2>2. QED  BY <1>1, <2>1 DEF ListsTyped, ListsTypeOK, Level, OpenList
<1>4. LevelsReturn
  <2> SUFFICES ASSUME Plain, ~listCrashed, openLists = <<>>
               PROVE  \A i \in 1..Len(iBullets) : iBullets[i].level = 0
    BY <1>2 DEF LevelsReturn
  <2>1. AtItsDepth /\ Len(openLists) = 0
    BY DEF ListsInv, PlainInv
  <2>2. QED  BY <2>1 DEF AtItsDepth
<1>5. RightLevel
  <2> SUFFICES ASSUME Plain, ~listCrashed, openLists # <<>>
               PROVE  StyleInUse.name = StyleOf(openLists) /\ StyleInUse.level = Len(openLists)
    BY DEF RightLevel
  <2>1. AtItsDepth /\ OfOneStyle
    BY DEF ListsInv, PlainInv
  <2>2. iBulletPos \in 1..Len(iBullets)
    BY <1>1, <2>1, InUseTyped DEF OfOneStyle
  <2>3. StyleInUse.level = Len(openLists)
    BY <2>1, <2>2 DEF AtItsDepth, StyleInUse
  <2>4. StyleInUse.name = StyleOf(openLists)
    BY <1>1, <2>1, StyleOfOne DEF OfOneStyle, ListsTyped
  <2>5. QED  BY <2>3, <2>4
<1>6. QED  BY <1>3, <1>4, <1>5 DEF ListsInv, ListsShown

\* Lists are shown as the document has them: in plain documents every list is at
\* the level its nesting gives it, in the style it or a list around it names, no
\* item indexes outside the levels of a style, and all levels are left again; and
\* every style is found under its name.
THEOREM ListsCorrect == ListsSpec => []ListsShown
<1>1. ListsInit => ListsInv
  <2> SUFFICES ASSUME ListsInit PROVE ListsInv
    OBVIOUS
  <2>1. ListsTyped
    <3>1. <<>> \in Seq(ListStyle) /\ <<>> \in Seq(OpenList)  BY EmptySeq
    <3>2. 0 \in 0..Len(<<>>)  OBVIOUS
    <3>3. /\ iBullets = <<>> /\ iBulletPos = 0 /\ openLists = <<>> /\ inListStyle = FALSE
          /\ listCrashed \in BOOLEAN /\ inListStyle \in BOOLEAN /\ foreign \in BOOLEAN
          /\ short \in BOOLEAN /\ unstyled \in BOOLEAN /\ late \in BOOLEAN
      BY DEF ListsInit
    <3>4. iBullets \in Seq(ListStyle) /\ openLists \in Seq(OpenList) /\ iBulletPos \in 0..Len(iBullets)
      BY <3>1, <3>2, <3>3
    <3>5. QED  BY <3>3, <3>4 DEF ListsTyped
  <2>2. NamesKept /\ PlainInv /\ ItemsInRange
    BY DEF ListsInit, NamesKept, PlainInv, ItemsInRange, AtItsDepth
  <2>3. QED  BY <2>1, <2>2 DEF ListsInv
<1>2. ListsInv /\ [ListsNext]_listVars => ListsInv'
  <2> SUFFICES ASSUME ListsInv, [ListsNext]_listVars PROVE ListsInv'
    OBVIOUS
  <2>1. CASE ListsNext
    <3>1. ASSUME NEW name \in ListNames, AddBulletItem(name) PROVE ListsInv'
      BY <3>1, AddBulletItemSafe
    <3>2. ASSUME (\E type \in LevelTypes : AddBullet(type)) \/ VerifyBullets PROVE ListsInv'
      BY <3>2, DeclaringSafe
    <3>3. ASSUME NEW name \in ListNames \cup {NoName}, StartList(name) PROVE ListsInv'
      BY <3>3, StartListSafe
    <3>4. ASSUME \/ \E start \in {0, Digits, Bullet} : StartItem(start)
                 \/ ReadBulletChar \/ EndItem
          PROVE  ListsInv'
      BY <3>4, ItemSafe
    <3>5. ASSUME EndList PROVE ListsInv'
      BY <3>5, EndListSafe
    <3>6. QED  BY <2>1, <3>1, <3>2, <3>3, <3>4, <3>5 DEF ListsNext
  <2>2. CASE UNCHANGED listVars
    BY <2>2 DEF listVars, bullets, listDocument, listHistory, ListsInv, ListsTyped, NamesKept,
       PlainInv, ItemsInRange, Plain, AtItsDepth, OfOneStyle, StyleInUse
  <2>3. QED  BY <2>1, <2>2
<1>3. ListsInv => ListsShown
  BY ListsInvShows
<1>4. QED  BY <1>1, <1>2, <1>3, PTL DEF ListsSpec
=============================================================================
