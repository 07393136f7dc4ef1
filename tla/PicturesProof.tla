--------------------------- MODULE PicturesProof ---------------------------
(***************************************************************************)
(* Proofs about Pictures, and below about Archive, where they are read     *)
(* from.  The first invariant of Pictures is that an engine with a request *)
(* outstanding has its bitmap data: the pointer of an idle engine may      *)
(* dangle, but nothing reads or deletes through it.  The second says where *)
(* the pictures of the text come from, so that they can be counted.        *)
(***************************************************************************)
EXTENDS Pictures, Archive, TLAPS, FiniteSetTheorems, SequenceTheorems, WellFoundedInduction

Inv == TypeOK /\ ActiveHasData /\ DataDeletedOnce

(***************************************************************************)
(* Inserting into the text leaves a text.                                  *)
(***************************************************************************)
LEMMA InsertedIsText ==
  ASSUME NEW s \in Seq(Nat), NEW n \in 1 .. Len(s) + 1, NEW e \in Nat
  PROVE  InsertAt(s, n, e) \in Seq(Nat)
<1>1. SubSeq(s, 1, n - 1) \in Seq(Nat)
  OBVIOUS
<1>2. SubSeq(s, n, Len(s)) \in Seq(Nat)
  OBVIOUS
<1>3. <<e>> \in Seq(Nat)
  OBVIOUS
<1> QED
  BY <1>1, <1>2, <1>3 DEF InsertAt

(***************************************************************************)
(* An engine changed in its fields alone stays an engine, and the others   *)
(* stay what they were.                                                    *)
(***************************************************************************)
LEMMA Changed ==
  ASSUME NEW es \in Seq(Engine), NEW i \in DOMAIN es, NEW e \in Engine
  PROVE  /\ [es EXCEPT ![i] = e] \in Seq(Engine)
         /\ DOMAIN [es EXCEPT ![i] = e] = DOMAIN es
         /\ [es EXCEPT ![i] = e][i] = e
         /\ \A j \in DOMAIN es \ {i} : [es EXCEPT ![i] = e][j] = es[j]
OBVIOUS

(***************************************************************************)
(* A new engine joins those there are.                                     *)
(***************************************************************************)
LEMMA Joined ==
  ASSUME NEW es \in Seq(Engine), NEW e \in Engine
  PROVE  /\ Append(es, e) \in Seq(Engine)
         /\ \A j \in DOMAIN Append(es, e) :
              \/ j \in DOMAIN es /\ Append(es, e)[j] = es[j]
              \/ Append(es, e)[j] = e
OBVIOUS

(***************************************************************************)
(* A new editor view, with the document read or refused, keeps the         *)
(* invariant: the destructors delete the data of busy engines only.        *)
(***************************************************************************)
LEMMA OpenEditorStep ==
  ASSUME Inv, OpenEditor
  PROVE  /\ view' = "editor" /\ iEditor' \in Pointer /\ iRichText' \in Seq(Nat)
         /\ loading' \in BOOLEAN /\ iBitmaps' \in Seq(Engine)
         /\ misused' = FALSE /\ ActiveHasData'
<1>1. CASE iEditor' = "valid" /\ iRichText' = <<>> /\ loading' = TRUE /\ ResetAndDestroy
  <2>1. iBitmaps' = <<>> /\ misused' = FALSE
    BY <1>1 DEF ResetAndDestroy, Inv, ActiveHasData, DataDeletedOnce
  <2> QED
    BY <2>1, <1>1 DEF OpenEditor, Pointer, ActiveHasData
<1>2. CASE UNCHANGED <<iEditor, iRichText, loading, iBitmaps, misused>>
  BY <1>2 DEF Inv, TypeOK, ActiveHasData, DataDeletedOnce, OpenEditor
<1> QED
  BY <1>1, <1>2 DEF OpenEditor

(***************************************************************************)
(* StartDecode leaves an engine busy with its data, or idle.               *)
(***************************************************************************)
LEMMA NewEngines ==
  /\ \A at \in Nat : \A mode \in {"thumbnail", "image"} :
       Started(mode, at) \in Engine /\ Started(mode, at).iBitmapData = "valid"
  /\ \A at \in Nat, d \in Pointer : \A mode \in {"thumbnail", "image"} :
       NotStarted(mode, at, d) \in Engine /\ ~ NotStarted(mode, at, d).active
BY DEF Started, NotStarted, Engine, Pointer

(***************************************************************************)
(* Starting an engine, for a picture or for the thumbnail.                 *)
(***************************************************************************)
LEMMA GetPictureStep ==
  ASSUME Inv, GetPicture
  PROVE  iBitmaps' \in Seq(Engine) /\ ActiveHasData'
<1> DEFINE e == Started("image", Len(iRichText))
<1>1. e \in Engine /\ e.iBitmapData = "valid"
  BY NewEngines DEF Inv, TypeOK
<1>2. iBitmaps' = Append(iBitmaps, e) /\ iBitmaps \in Seq(Engine)
  BY DEF GetPicture, Inv, TypeOK
<1> HIDE DEF e
<1> QED
  BY <1>1, <1>2, Joined DEF ActiveHasData, Inv

(***************************************************************************)
(* GetThubnail keeps the engine whether it started or not.                 *)
(***************************************************************************)
LEMMA GetThubnailStep ==
  ASSUME Inv, GetThubnail
  PROVE  iBitmaps' \in Seq(Engine) /\ ActiveHasData'
<1>1. PICK e : /\ e \in {Started("thumbnail", 0)} \union
                        {NotStarted("thumbnail", 0, d) : d \in {"null", "dangling"}}
               /\ iBitmaps' = Append(iBitmaps, e)
  BY DEF GetThubnail
<1>2. e \in Engine /\ (e.active => e.iBitmapData = "valid")
  BY <1>1, NewEngines DEF Pointer
<1> QED
  BY <1>1, <1>2, Joined DEF ActiveHasData, Inv, TypeOK

(***************************************************************************)
(* The callback of an engine: it reads its data while it has them.         *)
(***************************************************************************)
LEMMA RunLStep ==
  ASSUME Inv, NEW i \in 1 .. MaxPicture + MaxThumbnail, RunL(i)
  PROVE  /\ iBitmaps' \in Seq(Engine) /\ ActiveHasData' /\ misused' = FALSE
         /\ iRichText' \in Seq(Nat) /\ fault' \in Faults
<1> USE DEF Inv
<1>1. /\ i \in DOMAIN iBitmaps /\ iBitmaps[i].active /\ iBitmaps[i] \in Engine
      /\ iBitmaps \in Seq(Engine)
  BY DEF RunL, TypeOK
<1>2. misused' = FALSE
  BY <1>1 DEF RunL, Reads, ActiveHasData, DataDeletedOnce
<1> SUFFICES /\ iBitmaps' \in Seq(Engine) /\ ActiveHasData'
             /\ iRichText' \in Seq(Nat) /\ fault' \in Faults
  BY <1>2
<1>3. ASSUME NEW e \in Engine, e.active => e.iBitmapData = "valid",
             iBitmaps' = [iBitmaps EXCEPT ![i] = e]
      PROVE  iBitmaps' \in Seq(Engine) /\ ActiveHasData'
  BY <1>1, <1>3, Changed DEF ActiveHasData
<1>4. CASE Scale(i)
  <2> DEFINE e == [iBitmaps[i] EXCEPT !.status = 1]
  <2>1. e \in Engine /\ e.iBitmapData = "valid"
    BY <1>1 DEF Engine, ActiveHasData
  <2>2. iBitmaps' = [iBitmaps EXCEPT ![i] = e]
    BY <1>4 DEF Scale
  <2> HIDE DEF e
  <2> QED
    BY <2>1, <2>2, <1>3, <1>4 DEF Scale, TypeOK
<1>5. CASE Finish(i)
  <2> DEFINE e == [iBitmaps[i] EXCEPT !.active = FALSE, !.iBitmapData = "dangling", !.outcome = "shown"]
  <2>1. e \in Engine /\ ~ e.active
    BY <1>1 DEF Engine, Pointer
  <2>2. iBitmaps' = [iBitmaps EXCEPT ![i] = e]
    BY <1>5 DEF Finish
  <2> HIDE DEF e
  <2>3. iBitmaps' \in Seq(Engine) /\ ActiveHasData'
    BY <2>1, <2>2, <1>3
  <2>4. iRichText' \in Seq(Nat) /\ fault' \in Faults
    <3>1. CASE iEditor = "valid" /\ Place(i) <= Len(iRichText)
               /\ iRichText' = InsertAt(iRichText, Place(i) + 1, i) /\ UNCHANGED fault
      <4>1. i \in Nat /\ Len(iBitmaps) \in Nat /\ Len(iBitmaps) >= 1 /\ iBitmaps[i].iPos \in Nat
        BY <1>1 DEF Engine
      <4>2. Place(i) + 1 \in 1 .. Len(iRichText) + 1 /\ iRichText \in Seq(Nat)
        BY <3>1, <4>1 DEF Place, TypeOK
      <4>3. InsertAt(iRichText, Place(i) + 1, i) \in Seq(Nat)
        BY <4>1, <4>2, InsertedIsText
      <4> QED
        BY <3>1, <4>3 DEF TypeOK
    <3>2. CASE UNCHANGED iRichText /\ fault' \in Faults
      BY <3>2 DEF TypeOK
    <3> QED
      BY <1>5, <3>1, <3>2 DEF Finish, HandleEventL, AddPictureL, HandleControlEventL, Faults
  <2> QED
    BY <2>3, <2>4
<1>6. CASE GiveUp(i)
  <2> DEFINE e == [iBitmaps[i] EXCEPT !.active = FALSE, !.outcome = "lost"]
  <2>1. e \in Engine /\ ~ e.active
    BY <1>1 DEF Engine
  <2>2. iBitmaps' = [iBitmaps EXCEPT ![i] = e]
    BY <1>6 DEF GiveUp
  <2> HIDE DEF e
  <2> QED
    BY <2>1, <2>2, <1>3, <1>6 DEF GiveUp, TypeOK
<1>7. CASE ContinueConvert(i)
  BY <1>7 DEF ContinueConvert, TypeOK, ActiveHasData
<1> QED
  BY <1>4, <1>5, <1>6, <1>7 DEF RunL

(***************************************************************************)
(* The invariant holds at first and is kept by every action.               *)
(***************************************************************************)
LEMMA Initially == Init => Inv
<1> SUFFICES ASSUME Init PROVE Inv
  OBVIOUS
<1>1. <<>> \in Seq(Nat) /\ <<>> \in Seq(Engine) /\ DOMAIN <<>> = {}
  OBVIOUS
<1>2. TypeOK
  BY <1>1 DEF Init, TypeOK, Pointer, Faults
<1>3. ActiveHasData /\ DataDeletedOnce
  BY <1>1 DEF Init, ActiveHasData, DataDeletedOnce
<1> QED
  BY <1>2, <1>3 DEF Inv

(***************************************************************************)
(* No step of the program disturbs the invariant.                          *)
(***************************************************************************)
LEMMA InvStep == Inv /\ [Next]_vars => Inv'
<1> SUFFICES ASSUME Inv, [Next]_vars
             PROVE  Inv'
  OBVIOUS
<1> USE DEF Inv, DataDeletedOnce
<1>1. CASE Open
  <2>1. OpenEditor /\ iNextViewID' = "list" /\ UNCHANGED <<iBitmapContainer, fault>>
    BY <1>1 DEF Open
  <2> QED
    BY <2>1, OpenEditorStep DEF TypeOK
<1>2. CASE AddTextL
  <2>1. iRichText' \in Seq(Nat)
    BY <1>2 DEF AddTextL, TypeOK, Character
  <2> QED
    BY <2>1, <1>2 DEF AddTextL, TypeOK, ActiveHasData
<1>3. CASE GetPicture
  BY <1>3, GetPictureStep DEF GetPicture, TypeOK
<1>4. CASE EndOfDocument
  BY <1>4 DEF EndOfDocument, TypeOK, ActiveHasData
<1>5. CASE Picture
  <2>1. iBitmaps' \in Seq(Engine) /\ ActiveHasData'
    BY <1>5, GetThubnailStep DEF Picture
  <2>2. iEditor' \in Pointer /\ iRichText' \in Seq(Nat)
    BY <1>5 DEF Picture, CloseEditor, TypeOK, Pointer
  <2> QED
    BY <1>5, <2>1, <2>2 DEF Picture, TypeOK, Pointer
<1>6. CASE Back
  <2>1. CASE view = "editor" /\ view' = "list" /\ CloseEditor /\ iNextViewID' = "editor"
             /\ UNCHANGED <<iBitmapContainer, loading, iBitmaps, misused>>
    <3>1. iEditor' \in Pointer /\ iRichText' \in Seq(Nat)
      BY <2>1 DEF CloseEditor, TypeOK, Pointer
    <3> QED
      BY <1>6, <2>1, <3>1 DEF Back, TypeOK, ActiveHasData
  <2>2. CASE iBitmapContainer' = "dangling" /\ view' = "list"
             /\ UNCHANGED <<iEditor, iRichText, loading, iBitmaps, misused, iNextViewID>>
    BY <1>6, <2>2 DEF Back, TypeOK, Pointer, ActiveHasData
  <2>3. CASE iBitmapContainer' = "dangling" /\ OpenEditor /\ UNCHANGED iNextViewID
    BY <1>6, <2>3, OpenEditorStep DEF Back, TypeOK, Pointer
  <2> QED
    BY <1>6, <2>1, <2>2, <2>3 DEF Back
<1>7. ASSUME NEW i \in 1 .. MaxPicture + MaxThumbnail, RunL(i)
      PROVE  Inv'
  <2>1. UNCHANGED <<view, iNextViewID, iEditor, iBitmapContainer, loading>>
    BY <1>7 DEF RunL
  <2> QED
    BY <1>7, <2>1, RunLStep DEF TypeOK
<1>8. CASE UNCHANGED vars
  BY <1>8 DEF vars, TypeOK, ActiveHasData
<1> QED
  BY <1>1, <1>2, <1>3, <1>4, <1>5, <1>6, <1>7, <1>8 DEF Next

(***************************************************************************)
(* The invariant holds in every reachable state.                           *)
(***************************************************************************)
THEOREM Invariance == Spec => []Inv
BY Initially, InvStep, PTL DEF Spec

(***************************************************************************)
(* The types of the state hold for documents and visits of every length.   *)
(***************************************************************************)
THEOREM TypeCorrect == Spec => []TypeOK
BY Invariance, PTL DEF Inv

(***************************************************************************)
(* The bitmap data of CCImageEngine are deleted at most once and never     *)
(* read afterwards, however many pictures there are and whenever they are  *)
(* cancelled.                                                              *)
(***************************************************************************)
THEOREM DataCorrect == Spec => []DataDeletedOnce
BY Invariance, PTL DEF Inv

(***************************************************************************)
(* Both, for documents and visits of every length.                         *)
(***************************************************************************)
THEOREM SafeCorrect == Spec => []PicturesSafe
  <1>1. TypeOK /\ DataDeletedOnce => PicturesSafe
    BY DEF PicturesSafe
  <1> QED BY <1>1, TypeCorrect, DataCorrect, PTL

-----------------------------------------------------------------------------
(***************************************************************************)
(* What is in the text: while the document is read there is no picture in  *)
(* it and its editor is there, a view that is gone has no text, and every  *)
(* picture of the text is the one picture of an engine that is done.       *)
(***************************************************************************)
Placed ==
  /\ loading => Shown = {} /\ iEditor = "valid"
  /\ iEditor # "valid" => iRichText = <<>>
  /\ \A j \in Shown : iRichText[j] \in DOMAIN iBitmaps /\ ~ iBitmaps[iRichText[j]].active
  /\ \A j, k \in Shown : iRichText[j] = iRichText[k] => j = k

PlacedInv == Inv /\ Placed /\ NeverTooEarly

\* The characters among the first j entries of a text.
Chars(s, j) == {k \in 1 .. j : s[k] = Character}

(***************************************************************************)
(* Two texts joined.                                                       *)
(***************************************************************************)
LEMMA TextsJoined ==
  ASSUME NEW a \in Seq(Nat), NEW b \in Seq(Nat)
  PROVE  /\ a \o b \in Seq(Nat)
         /\ Len(a \o b) = Len(a) + Len(b)
         /\ \A k \in 1 .. Len(a) + Len(b) :
              (a \o b)[k] = IF k <= Len(a) THEN a[k] ELSE b[k - Len(a)]
BY ConcatProperties, Zenon

(***************************************************************************)
(* What an insertion leaves where it was, and what it moves.               *)
(***************************************************************************)
LEMMA Inserted ==
  ASSUME NEW s \in Seq(Nat), NEW n \in 1 .. Len(s) + 1, NEW e \in Nat
  PROVE  /\ Len(InsertAt(s, n, e)) = Len(s) + 1
         /\ DOMAIN InsertAt(s, n, e) = 1 .. Len(s) + 1
         /\ InsertAt(s, n, e)[n] = e
         /\ \A k \in 1 .. n - 1 : InsertAt(s, n, e)[k] = s[k]
         /\ \A k \in n + 1 .. Len(s) + 1 : InsertAt(s, n, e)[k] = s[k - 1]
<1> DEFINE a == SubSeq(s, 1, n - 1)  b == SubSeq(s, n, Len(s))
<1>1. a \in Seq(Nat) /\ Len(a) = n - 1 /\ \A k \in 1 .. n - 1 : a[k] = s[k]
  OBVIOUS
<1>2. /\ b \in Seq(Nat) /\ Len(b) = Len(s) - n + 1
      /\ \A k \in 1 .. Len(s) - n + 1 : b[k] = s[n + k - 1]
  OBVIOUS
<1>3. InsertAt(s, n, e) = (a \o <<e>>) \o b
  BY DEF InsertAt
<1> HIDE DEF a, b
<1> DEFINE u == <<e>>  c == a \o u  d == c \o b
<1>4. u \in Seq(Nat) /\ Len(u) = 1 /\ u[1] = e
  OBVIOUS
<1> HIDE DEF u
<1>5. /\ c \in Seq(Nat) /\ Len(c) = n
      /\ \A k \in 1 .. n : c[k] = IF k <= n - 1 THEN a[k] ELSE u[k - (n - 1)]
  <2>1. /\ c \in Seq(Nat) /\ Len(c) = Len(a) + Len(u)
        /\ \A k \in 1 .. Len(a) + Len(u) : c[k] = IF k <= Len(a) THEN a[k] ELSE u[k - Len(a)]
    BY <1>1, <1>4, TextsJoined, Zenon
  <2> HIDE DEF c
  <2> QED
    BY <2>1, <1>1, <1>4
<1> HIDE DEF c
<1>6. /\ d \in Seq(Nat) /\ Len(d) = Len(s) + 1
      /\ \A k \in 1 .. Len(s) + 1 : d[k] = IF k <= n THEN c[k] ELSE b[k - n]
  <2>1. /\ d \in Seq(Nat) /\ Len(d) = Len(c) + Len(b)
        /\ \A k \in 1 .. Len(c) + Len(b) : d[k] = IF k <= Len(c) THEN c[k] ELSE b[k - Len(c)]
    BY <1>2, <1>5, TextsJoined, Zenon
  <2> HIDE DEF d
  <2> QED
    <3>1. Len(c) = n /\ Len(c) + Len(b) = Len(s) + 1
      BY <1>2, <1>5
    <3> QED
      BY <2>1, <3>1, Zenon
<1> HIDE DEF d
<1>7. d[n] = e
  <2>1. n <= n /\ n \in 1 .. n /\ n \in 1 .. Len(s) + 1 /\ ~ (n <= n - 1) /\ n - (n - 1) = 1
    OBVIOUS
  <2> QED
    BY <2>1, <1>4, <1>5, <1>6
<1>8. ASSUME NEW k \in 1 .. n - 1
      PROVE  d[k] = s[k]
  <2>1. k <= n - 1 /\ k <= n /\ k \in 1 .. n /\ k \in 1 .. Len(s) + 1
    OBVIOUS
  <2> QED
    BY <2>1, <1>1, <1>5, <1>6
<1>9. ASSUME NEW k \in n + 1 .. Len(s) + 1
      PROVE  d[k] = s[k - 1]
  <2>1. k - n \in 1 .. Len(s) - n + 1 /\ n + (k - n) - 1 = k - 1 /\ ~ (k <= n) /\ k \in 1 .. Len(s) + 1
    OBVIOUS
  <2> QED
    BY <2>1, <1>2, <1>6
<1>10. d = InsertAt(s, n, e)
  BY <1>3 DEF c, d, u
<1>11. DOMAIN d = 1 .. Len(s) + 1
  BY <1>6
<1> QED
  BY <1>6, <1>7, <1>8, <1>9, <1>10, <1>11

(***************************************************************************)
(* The characters of a text are finitely many.                             *)
(***************************************************************************)
LEMMA CharsFinite ==
  ASSUME NEW s, NEW j \in Nat
  PROVE  IsFiniteSet(Chars(s, j)) /\ Cardinality(Chars(s, j)) \in Nat
<1>1. IsFiniteSet(1 .. j)
  BY FS_Interval
<1>2. Chars(s, j) \in SUBSET (1 .. j)
  BY DEF Chars
<1> QED
  BY <1>1, <1>2, FS_Subset, FS_CardinalityType

(***************************************************************************)
(* A picture inserted takes no character from before an entry.             *)
(***************************************************************************)
LEMMA CharsKept ==
  ASSUME NEW s \in Seq(Nat), NEW n \in 1 .. Len(s) + 1, NEW e \in Nat,
         NEW i \in Nat, NEW j \in Nat,
         \/ j = i /\ i < n
         \/ j = i + 1 /\ n <= j,
         j <= Len(s) + 1
  PROVE  Cardinality(Chars(InsertAt(s, n, e), j)) >= Cardinality(Chars(s, i))
<1> DEFINE t == InsertAt(s, n, e)
           f == [k \in Chars(s, i) |-> IF k < n THEN k ELSE k + 1]
<1>1. /\ \A k \in 1 .. n - 1 : t[k] = s[k]
      /\ \A k \in n + 1 .. Len(s) + 1 : t[k] = s[k - 1]
  BY Inserted
<1> HIDE DEF t
<1>2. \A k \in Chars(s, i) : f[k] \in Chars(t, j)
  <2> TAKE k \in Chars(s, i)
  <2>1. k \in 1 .. i /\ s[k] = Character
    BY DEF Chars
  <2>2. CASE k < n
    <3>1. f[k] = k /\ k \in 1 .. j /\ k \in 1 .. n - 1
      BY <2>1, <2>2
    <3> QED
      BY <3>1, <2>1, <1>1 DEF Chars
  <2>3. CASE ~ (k < n)
    <3>1. f[k] = k + 1 /\ k + 1 \in 1 .. j /\ k + 1 \in n + 1 .. Len(s) + 1
      BY <2>1, <2>3
    <3>2. t[k + 1] = s[k]
      <4>1. t[k + 1] = s[(k + 1) - 1]
        BY <3>1, <1>1
      <4>2. (k + 1) - 1 = k
        BY <2>1
      <4> QED
        BY <4>1, <4>2
    <3> QED
      BY <3>1, <3>2, <2>1 DEF Chars
  <2> QED
    BY <2>2, <2>3
<1>3. \A k, l \in Chars(s, i) : f[k] = f[l] => k = l
  BY DEF Chars
<1>4. f \in Injection(Chars(s, i), Chars(t, j))
  BY <1>2, <1>3 DEF Injection, IsInjective
<1>5. Cardinality(Chars(s, i)) <= Cardinality(Chars(t, j))
  BY <1>4, CharsFinite, FS_Injection
<1> QED
  BY <1>5, CharsFinite DEF t

(***************************************************************************)
(* Counting: what is not a picture among the first entries is text.        *)
(***************************************************************************)
LEMMA CharsCounted ==
  ASSUME NEW s \in Seq(Nat), NEW p \in 0 .. Len(s), NEW T, IsFiniteSet(T),
         \A k \in 1 .. p : s[k] # Character => s[k] \in T,
         \A k, l \in 1 .. p : s[k] # Character /\ s[k] = s[l] => k = l
  PROVE  Cardinality(Chars(s, p)) >= p - Cardinality(T)
<1> DEFINE pics == {k \in 1 .. p : s[k] # Character}
           f == [k \in pics |-> s[k]]
<1>1. f \in Injection(pics, T)
  BY DEF Injection, IsInjective
<1>2. IsFiniteSet(pics) /\ Cardinality(pics) <= Cardinality(T)
  BY <1>1, FS_Injection
<1>3. Chars(s, p) \cup pics = 1 .. p /\ Chars(s, p) \cap pics = {}
  BY DEF Chars
<1>4. Cardinality(1 .. p) = p
  BY FS_Interval
<1>5. Cardinality(Chars(s, p) \cap pics) = 0
  BY <1>3, FS_EmptySet
<1> HIDE DEF pics
<1>6. Cardinality(Chars(s, p) \cup pics) = Cardinality(Chars(s, p)) + Cardinality(pics)
                                             - Cardinality(Chars(s, p) \cap pics)
  BY <1>2, CharsFinite, FS_Union
<1>7. Cardinality(Chars(s, p)) \in Nat /\ Cardinality(pics) \in Nat /\ Cardinality(T) \in Nat
  BY <1>2, CharsFinite, FS_CardinalityType
<1>8. Cardinality(Chars(s, p)) + Cardinality(pics) - 0 = p
  BY <1>3, <1>4, <1>5, <1>6
<1> QED
  BY <1>2, <1>7, <1>8

(***************************************************************************)
(* The text before an entry is counted as a number.                        *)
(***************************************************************************)
LEMMA TextCounted ==
  /\ \A j \in Nat : TextBefore(j) = Cardinality(Chars(iRichText, j)) /\ TextBefore(j) \in Nat
  /\ \A j \in Nat : TextBefore(j)' = Cardinality(Chars(iRichText', j)) /\ TextBefore(j)' \in Nat
BY CharsFinite DEF TextBefore, Chars

(***************************************************************************)
(* A text that is discarded has no picture in a wrong place.               *)
(***************************************************************************)
LEMMA TextGone ==
  ASSUME iRichText' = <<>>, loading' => iEditor' = "valid"
  PROVE  Placed' /\ NeverTooEarly'
<1>1. DOMAIN iRichText' = {}
  OBVIOUS
<1>2. Shown' = {}
  BY <1>1 DEF Shown
<1> QED
  BY <1>2 DEF Placed, NeverTooEarly

(***************************************************************************)
(* A step that leaves the text alone and at most adds engines, or stops    *)
(* them, leaves every picture where it was.                                *)
(***************************************************************************)
LEMMA TextStays ==
  ASSUME PlacedInv, UNCHANGED <<iRichText, iEditor>>, loading' => loading,
         DOMAIN iBitmaps \subseteq DOMAIN iBitmaps',
         \A k \in DOMAIN iBitmaps : /\ iBitmaps'[k].iPos = iBitmaps[k].iPos
                                    /\ iBitmaps'[k].active => iBitmaps[k].active
  PROVE  Placed' /\ NeverTooEarly'
<1>1. Shown' = Shown /\ Shown \subseteq Nat
  BY DEF Shown, PlacedInv, Inv, TypeOK
<1>2. Placed'
  BY <1>1 DEF PlacedInv, Placed
<1>3. \A j \in Shown : TextBefore(j)' = TextBefore(j)
  BY DEF TextBefore
<1>4. NeverTooEarly'
  BY <1>1, <1>3 DEF PlacedInv, Placed, NeverTooEarly
<1> QED
  BY <1>2, <1>4

(***************************************************************************)
(* AddTextL: the document is read before any picture comes back.           *)
(***************************************************************************)
LEMMA AddTextStep ==
  ASSUME PlacedInv, AddTextL
  PROVE  Placed' /\ NeverTooEarly'
<1>1. loading /\ Shown = {} /\ iEditor = "valid" /\ iRichText \in Seq(Nat)
      /\ iRichText' = Append(iRichText, Character) /\ iEditor' = iEditor /\ Character \in Nat
  BY DEF AddTextL, PlacedInv, Placed, Inv, TypeOK, Character
<1>2. \A j \in DOMAIN iRichText' :
        \/ j \in DOMAIN iRichText /\ iRichText'[j] = iRichText[j]
        \/ iRichText'[j] = Character
  BY <1>1
<1>3. Shown' = {}
  BY <1>1, <1>2 DEF Shown
<1> QED
  BY <1>1, <1>3 DEF Placed, NeverTooEarly

(***************************************************************************)
(* AddPictureL: the pictures before the place are those of other engines,  *)
(* at most one fewer than there are engines, and the place is that much    *)
(* behind where the text ended; what lies behind moves on by one.          *)
(***************************************************************************)
LEMMA AddPictureStep ==
  ASSUME PlacedInv, ~ loading', UNCHANGED iEditor,
         NEW i \in DOMAIN iBitmaps, iBitmaps[i].active,
         iEditor = "valid", Place(i) <= Len(iRichText),
         iRichText' = InsertAt(iRichText, Place(i) + 1, i),
         DOMAIN iBitmaps' = DOMAIN iBitmaps, ~ iBitmaps'[i].active,
         \A k \in DOMAIN iBitmaps : /\ iBitmaps'[k].iPos = iBitmaps[k].iPos
                                    /\ iBitmaps'[k].active => iBitmaps[k].active
  PROVE  Placed' /\ NeverTooEarly'
<1> DEFINE s == iRichText  n == Place(i) + 1  N == Len(iBitmaps)
           Old(j) == IF j < n THEN j ELSE j - 1
<1>1. /\ s \in Seq(Nat) /\ N \in Nat /\ i \in Nat \ {0} /\ DOMAIN iBitmaps = 1 .. N /\ N >= 1
      /\ \A k \in DOMAIN iBitmaps : iBitmaps[k].iPos \in Nat
  <2>1. iRichText \in Seq(Nat) /\ iBitmaps \in Seq(Engine)
    BY DEF PlacedInv, Inv, TypeOK
  <2>2. \A k \in DOMAIN iBitmaps : iBitmaps[k].iPos \in Nat
    <3>1. \A k \in DOMAIN iBitmaps : iBitmaps[k] \in Engine
      BY <2>1
    <3> QED
      BY <3>1 DEF Engine
  <2>3. DOMAIN iBitmaps = 1 .. N /\ N \in Nat
    BY <2>1
  <2> QED
    BY <2>1, <2>2, <2>3
<1>2. /\ Place(i) = iBitmaps[i].iPos + N - 1 /\ Place(i) \in 0 .. Len(s) /\ Len(s) \in Nat
      /\ n \in 1 .. Len(s) + 1 /\ n - 1 = Place(i)
  BY <1>1 DEF Place
<1> HIDE DEF s, N
<1>3. /\ DOMAIN s' = 1 .. Len(s) + 1 /\ s'[n] = i
      /\ \A j \in 1 .. Len(s) + 1 : j # n => s'[j] = s[Old(j)] /\ Old(j) \in 1 .. Len(s)
  <2>1. s' = InsertAt(s, n, i)
    BY DEF s
  <2> HIDE DEF n
  <2>2. /\ DOMAIN s' = 1 .. Len(s) + 1 /\ s'[n] = i
        /\ \A k \in 1 .. n - 1 : s'[k] = s[k]
        /\ \A k \in n + 1 .. Len(s) + 1 : s'[k] = s[k - 1]
    <3>1. i \in Nat /\ n \in 1 .. Len(s) + 1 /\ s \in Seq(Nat)
      BY <1>1, <1>2
    <3> HIDE DEF s
    <3> QED
      BY <3>1, <2>1, Inserted
  <2> QED
    BY <1>2, <2>2
<1>4. \A j \in Shown' : j # n => /\ Old(j) \in Shown /\ s[Old(j)] = s'[j]
                                 /\ j \in 1 .. Len(s) + 1
  BY <1>1, <1>3 DEF Shown, s
<1>5. \A j \in Shown : s[j] \in DOMAIN iBitmaps /\ s[j] # i
  BY DEF PlacedInv, Placed, s
<1>6. Placed'
  <2>1. \A j \in Shown' : s'[j] \in DOMAIN iBitmaps' /\ ~ iBitmaps'[s'[j]].active
    BY <1>3, <1>4, <1>5, SMTT(30) DEF PlacedInv, Placed, s
  <2>2. ASSUME NEW j \in Shown', NEW k \in Shown', s'[j] = s'[k]
        PROVE  j = k
    <3>1. CASE j = n \/ k = n
      BY <2>2, <3>1, <1>3, <1>4, <1>5
    <3>2. CASE j # n /\ k # n
      <4>1. Old(j) = Old(k)
        BY <2>2, <3>2, <1>4 DEF PlacedInv, Placed, s
      <4>2. j \in Int /\ k \in Int /\ n \in Int
        BY <3>2, <1>2, <1>4
      <4> HIDE DEF n
      <4> QED
        BY <4>1, <4>2, <3>2
    <3> QED
      BY <3>1, <3>2
  <2> QED
    BY <2>1, <2>2 DEF Placed, s
<1>7. ASSUME NEW j \in Shown'
      PROVE  TextBefore(j)' >= iBitmaps'[iRichText'[j]].iPos
  <2>1. j \in 1 .. Len(s) + 1 /\ j \in Nat
    BY <1>2, <1>3 DEF Shown, s
  <2>2. CASE j = n
    <3>1. iBitmaps'[iRichText'[j]].iPos = iBitmaps[i].iPos
      BY <2>2, <1>3 DEF s
    <3>2. Cardinality(Chars(s', n)) >= Cardinality(Chars(s, n - 1))
      <4> HIDE DEF n
      <4>1. s' = InsertAt(s, n, i)
        BY DEF s, n
      <4>2. n - 1 \in Nat /\ n \in Nat /\ n = (n - 1) + 1 /\ n <= n /\ n <= Len(s) + 1
        BY <1>2
      <4> QED
        BY <1>1, <1>2, <4>1, <4>2, CharsKept
    <3>3. Cardinality(Chars(s, Place(i))) >= Place(i) - (N - 1)
      <4> DEFINE T == (1 .. N) \ {i}
      <4>1. IsFiniteSet(T) /\ Cardinality(T) = N - 1
        <5>1. IsFiniteSet(1 .. N) /\ Cardinality(1 .. N) = N /\ i \in 1 .. N
          BY <1>1, FS_Interval
        <5> QED
          BY <5>1, FS_RemoveElement, ZenonT(40)
      <4>2. \A k \in 1 .. Place(i) : s[k] # Character => k \in Shown
        BY <1>2, <1>1 DEF Shown, s
      <4>3. \A k \in 1 .. Place(i) : s[k] # Character => s[k] \in T
        BY <4>2, <1>1, <1>5
      <4>4. \A k, l \in 1 .. Place(i) : s[k] # Character /\ s[k] = s[l] => k = l
        BY <4>2 DEF PlacedInv, Placed, s
      <4> HIDE DEF T
      <4> QED
        BY <1>1, <1>2, <4>1, <4>3, <4>4, CharsCounted
    <3>4. Cardinality(Chars(s, n - 1)) \in Nat /\ Cardinality(Chars(s', n)) \in Nat
      BY <1>2, CharsFinite
    <3> QED
      <4>1. TextBefore(j)' = Cardinality(Chars(s', n))
        BY <2>1, <2>2, TextCounted DEF s
      <4>2. iBitmaps[i].iPos \in Nat /\ Place(i) - (N - 1) = iBitmaps[i].iPos
        BY <1>1, <1>2
      <4>3. Cardinality(Chars(s, Place(i))) = Cardinality(Chars(s, n - 1))
        BY <1>2
      <4> HIDE DEF n
      <4> QED
        <5>1. Cardinality(Chars(s', n)) >= iBitmaps[i].iPos
          BY <3>2, <3>3, <3>4, <4>2, <4>3
        <5> QED
          BY <3>1, <4>1, <5>1
  <2>3. CASE j # n
    <3>1. /\ Old(j) \in Shown /\ iRichText'[j] = iRichText[Old(j)] /\ Old(j) \in Nat
          /\ iBitmaps'[iRichText'[j]].iPos = iBitmaps[iRichText[Old(j)]].iPos
          /\ iBitmaps[iRichText[Old(j)]].iPos \in Nat
      <4>1. Old(j) \in Shown /\ s[Old(j)] = s'[j] /\ Old(j) \in 1 .. Len(s)
        BY <2>3, <2>1, <1>3, <1>4
      <4> HIDE DEF Old
      <4>2. s[Old(j)] \in DOMAIN iBitmaps
        BY <4>1, <1>5
      <4> QED
        BY <4>1, <4>2, <1>1 DEF s
    <3>2. TextBefore(Old(j)) >= iBitmaps[iRichText[Old(j)]].iPos
      BY <3>1 DEF PlacedInv, NeverTooEarly
    <3>3. Cardinality(Chars(s', j)) >= Cardinality(Chars(s, Old(j)))
      <4>1. \/ j = Old(j) /\ Old(j) < n
            \/ j = Old(j) + 1 /\ n <= j
        BY <2>1, <2>3, <1>2
      <4> HIDE DEF n, Old
      <4>2. s' = InsertAt(s, n, i)
        BY DEF s, n
      <4> QED
        BY <1>1, <1>2, <2>1, <3>1, <4>1, <4>2, CharsKept
    <3> QED
      <4>1. TextBefore(j)' = Cardinality(Chars(s', j)) /\ TextBefore(j)' \in Nat
        BY <2>1, TextCounted DEF s
      <4>2. TextBefore(Old(j)) = Cardinality(Chars(s, Old(j))) /\ TextBefore(Old(j)) \in Nat
        BY <3>1, TextCounted DEF s
      <4> HIDE DEF Old
      <4> QED
        BY <3>1, <3>2, <3>3, <4>1, <4>2
  <2> QED
    BY <2>2, <2>3
<1> QED
  BY <1>6, <1>7 DEF NeverTooEarly

(***************************************************************************)
(* OpenEditor empties the text with the editor view, or changes nothing.   *)
(***************************************************************************)
LEMMA OpenEditorPlaces ==
  ASSUME PlacedInv, OpenEditor
  PROVE  Placed' /\ NeverTooEarly'
<1>1. CASE iEditor' = "valid" /\ iRichText' = <<>>
  BY <1>1, TextGone
<1>2. CASE UNCHANGED <<iEditor, iRichText, loading, iBitmaps, misused>>
  BY <1>2, TextStays
<1> QED
  BY <1>1, <1>2 DEF OpenEditor

(***************************************************************************)
(* The callback of an engine moves pictures only when it inserts its own.  *)
(***************************************************************************)
LEMMA RunLPlaces ==
  ASSUME PlacedInv, NEW i \in 1 .. MaxPicture + MaxThumbnail, RunL(i)
  PROVE  Placed' /\ NeverTooEarly'
<1>1. /\ i \in DOMAIN iBitmaps /\ iBitmaps[i].active /\ iBitmaps \in Seq(Engine)
      /\ ~ loading' /\ loading' = loading /\ iEditor' = iEditor
      /\ iBitmaps[i] \in Engine
  BY DEF RunL, Ready, PlacedInv, Inv, TypeOK
<1>2. CASE Scale(i)
  <2>1. /\ iRichText' = iRichText /\ DOMAIN iBitmaps' = DOMAIN iBitmaps
        /\ \A k \in DOMAIN iBitmaps : /\ iBitmaps'[k].iPos = iBitmaps[k].iPos
                                      /\ iBitmaps'[k].active => iBitmaps[k].active
    BY <1>1, <1>2 DEF Scale, Engine
  <2> QED
    BY <1>1, <2>1, TextStays
<1>3. CASE GiveUp(i)
  <2>1. /\ iRichText' = iRichText /\ DOMAIN iBitmaps' = DOMAIN iBitmaps
        /\ \A k \in DOMAIN iBitmaps : /\ iBitmaps'[k].iPos = iBitmaps[k].iPos
                                      /\ iBitmaps'[k].active => iBitmaps[k].active
    BY <1>1, <1>3 DEF GiveUp, Engine
  <2> QED
    BY <1>1, <2>1, TextStays
<1>4. CASE ContinueConvert(i)
  BY <1>1, <1>4, TextStays DEF ContinueConvert
<1>5. CASE Finish(i)
  <2>1. /\ DOMAIN iBitmaps' = DOMAIN iBitmaps /\ ~ iBitmaps'[i].active
        /\ \A k \in DOMAIN iBitmaps : /\ iBitmaps'[k].iPos = iBitmaps[k].iPos
                                      /\ iBitmaps'[k].active => iBitmaps[k].active
    BY <1>1, <1>5 DEF Finish, Engine
  <2>2. CASE iRichText' = iRichText
    BY <1>1, <2>1, <2>2, TextStays
  <2>3. CASE /\ iEditor = "valid" /\ Place(i) <= Len(iRichText)
             /\ iRichText' = InsertAt(iRichText, Place(i) + 1, i)
    BY <1>1, <2>1, <2>3, AddPictureStep
  <2> QED
    BY <1>5, <2>2, <2>3 DEF Finish, HandleEventL, AddPictureL, HandleControlEventL
<1> QED
  BY <1>2, <1>3, <1>4, <1>5 DEF RunL

(***************************************************************************)
(* No step of the program puts a picture before text that precedes it.     *)
(***************************************************************************)
LEMMA PlacedStep == PlacedInv /\ [Next]_vars => PlacedInv'
<1> SUFFICES ASSUME PlacedInv, [Next]_vars
             PROVE  Placed' /\ NeverTooEarly'
  BY InvStep DEF PlacedInv
<1>1. CASE Open
  BY <1>1, OpenEditorPlaces DEF Open
<1>2. CASE AddTextL
  BY <1>2, AddTextStep
<1>3. CASE GetPicture
  <2>1. /\ DOMAIN iBitmaps \subseteq DOMAIN iBitmaps'
        /\ \A k \in DOMAIN iBitmaps : iBitmaps'[k] = iBitmaps[k]
    BY <1>3 DEF GetPicture, PlacedInv, Inv, TypeOK
  <2> QED
    BY <1>3, <2>1, TextStays DEF GetPicture
<1>4. CASE EndOfDocument
  BY <1>4, TextStays DEF EndOfDocument
<1>5. CASE Picture
  BY <1>5, TextGone DEF Picture, CloseEditor, Ready
<1>6. CASE Back
  <2>1. CASE CloseEditor /\ UNCHANGED loading
    BY <1>6, <2>1, TextGone DEF Back, CloseEditor, Ready
  <2>2. CASE UNCHANGED <<iEditor, iRichText, loading, iBitmaps, misused>>
    BY <2>2, TextStays
  <2>3. CASE OpenEditor
    BY <2>3, OpenEditorPlaces
  <2> QED
    BY <1>6, <2>1, <2>2, <2>3 DEF Back
<1>7. ASSUME NEW i \in 1 .. MaxPicture + MaxThumbnail, RunL(i)
      PROVE  Placed' /\ NeverTooEarly'
  BY <1>7, RunLPlaces
<1>8. CASE UNCHANGED vars
  BY <1>8, TextStays DEF vars
<1> QED
  BY <1>1, <1>2, <1>3, <1>4, <1>5, <1>6, <1>7, <1>8 DEF Next

(***************************************************************************)
(* COpenDocument::HandleEventL never puts a picture before text that       *)
(* precedes it in the document, for documents of every length, with any    *)
(* number of pictures that decode, scale and fail in any order while the   *)
(* user comes and goes.                                                    *)
(***************************************************************************)
THEOREM PlaceCorrect == Spec => []NeverTooEarly
<1>1. Init => PlacedInv
  <2>1. Init => Shown = {}
    BY DEF Init, Shown
  <2> QED
    BY <2>1, Initially DEF Init, PlacedInv, Placed, NeverTooEarly
<1>2. PlacedInv => NeverTooEarly
  BY DEF PlacedInv
<1> QED
  BY <1>1, <1>2, PlacedStep, PTL DEF Spec

-----------------------------------------------------------------------------
(***************************************************************************)
(* Archive.  The invariant has two parts.  The list: the calls of AddFile  *)
(* under way are directories each one below the next, and unless one was   *)
(* left halfway the level is their number, so that KeptName keeps what     *)
(* lies below the root.  The disk: what FlushToZip writes is laid out as   *)
(* entries, directory and end, where the sums of the sizes are the offsets *)
(* the directory states; what FlushFails leaves has no end.  Sums and      *)
(* FlattenSeq are recursive functions: they are the sums and the string of *)
(* sequences by a least counterexample, which < on Nat always has.         *)
(***************************************************************************)

\* The smallest of some numbers.
LEMMA LeastNat ==
  ASSUME NEW T, T \subseteq Nat, T # {}
  PROVE  \E m \in T : \A k \in T : m <= k
<1>1. PICK m \in T : \A k \in T : ~(<<k, m>> \in OpToRel(<, Nat))
  BY NatLessThanWellFounded, WFMin, Zenon
<1>2. \A k \in T : ~(k < m)  BY <1>1 DEF OpToRel
<1>3. QED  BY <1>2

\* A set that is entered at 0 and left nowhere holds all numbers up to n.
LEMMA Climb ==
  ASSUME NEW n \in Nat, NEW T, 0 \in T, \A i \in 1 .. n : i - 1 \in T => i \in T
  PROVE  \A i \in 0 .. n : i \in T
<1> DEFINE U == {i \in 0 .. n : i \notin T}
<1> SUFFICES ASSUME U # {} PROVE FALSE
  OBVIOUS
<1>0. U \subseteq Nat
  OBVIOUS
<1>1. PICK m \in U : \A k \in U : m <= k
  <2> HIDE DEF U
  <2>1. QED  BY <1>0, LeastNat
<1>2. m \in 1 .. n /\ m - 1 \in 0 .. n /\ m - 1 < m
  BY <1>1
<1>3. m - 1 \notin U
  BY <1>1, <1>2
<1>4. QED  BY <1>2, <1>3

-----------------------------------------------------------------------------
\* c holds the sums of the first numbers of s.
SumsUp(c, s) ==
  /\ c \in [0 .. Len(s) -> Nat] /\ c[0] = 0
  /\ \A i \in 1 .. Len(s) : c[i] = c[i - 1] + s[i]

\* f is what the recursion of Sums defines, up to m.
SumTo(f, s, m) == f = [i \in 0 .. m |-> IF i = 0 THEN 0 ELSE f[i - 1] + s[i]]

\* Sums does so.
LEMMA SumsAre ==
  ASSUME NEW s \in Seq(Nat)
  PROVE  SumsUp(Sums(s), s)
<1> DEFINE n == Len(s)
           T == {m \in 0 .. n : \E f : SumTo(f, s, m)}
           c == Sums(s)
<1>1. n \in Nat /\ \A i \in 1 .. n : s[i] \in Nat
  OBVIOUS
<1> HIDE DEF n
<1>2. 0 \in T
  <2>1. SumTo([i \in 0 .. 0 |-> 0], s, 0)
    BY DEF SumTo
  <2>2. QED  BY <1>1, <2>1
<1>3. ASSUME NEW m \in 1 .. n, m - 1 \in T
      PROVE  m \in T
  <2>1. PICK f : SumTo(f, s, m - 1)
    BY <1>3
  <2> DEFINE e(i) == IF i = 0 THEN 0 ELSE f[i - 1] + s[i]
             g == [i \in 0 .. m |-> e(i)]
  <2>2. \A i \in 0 .. m - 1 : f[i] = e(i)
    BY <2>1 DEF SumTo
  <2>3. \A i \in 1 .. m : i - 1 \in 0 .. m - 1 /\ i - 1 \in 0 .. m /\ i # 0
    BY <1>1
  <2>4. \A i \in 1 .. m : g[i - 1] = f[i - 1]
    BY <2>2, <2>3
  <2>5. \A i \in 0 .. m : i = 0 \/ i \in 1 .. m
    BY <1>1
  <2>6. g = [i \in 0 .. m |-> IF i = 0 THEN 0 ELSE g[i - 1] + s[i]]
    <3>1. \A i \in 0 .. m : e(i) = IF i = 0 THEN 0 ELSE g[i - 1] + s[i]
      BY <2>4, <2>5
    <3>2. QED  BY <3>1
  <2> HIDE DEF g
  <2>7. SumTo(g, s, m)
    BY <2>6 DEF SumTo
  <2>8. m \in 0 .. n
    BY <1>1
  <2>9. QED  BY <2>7, <2>8
<1>4. \E f : SumTo(f, s, n)
  <2>1. \A i \in 0 .. n : i \in T
    <3> HIDE DEF T
    <3>1. QED  BY <1>1, <1>2, <1>3, Climb
  <2>2. n \in 0 .. n  BY <1>1
  <2>3. QED  BY <2>1, <2>2
<1>5. c = [i \in 0 .. n |-> IF i = 0 THEN 0 ELSE c[i - 1] + s[i]]
  BY <1>4, Zenon DEF Sums, SumTo, n
<1> HIDE DEF c
<1>6. DOMAIN c = 0 .. n /\ c[0] = 0 /\ \A i \in 1 .. n : c[i] = c[i - 1] + s[i]
  BY <1>1, <1>5
<1>7. \A i \in 0 .. n : c[i] \in Nat
  <2> DEFINE N == {i \in 0 .. n : c[i] \in Nat}
  <2>1. 0 \in N
    BY <1>1, <1>6
  <2>2. ASSUME NEW i \in 1 .. n, i - 1 \in N PROVE i \in N
    <3>1. c[i - 1] \in Nat /\ s[i] \in Nat /\ c[i] = c[i - 1] + s[i]
      BY <1>1, <1>6, <2>2
    <3>2. QED  BY <1>1, <3>1
  <2>3. \A i \in 0 .. n : i \in N
    <3> HIDE DEF N
    <3>1. QED  BY <1>1, <2>1, <2>2, Climb
  <2>4. QED  BY <2>3
<1>8. c \in [0 .. n -> Nat]
  <2>1. c = [i \in 0 .. n |-> c[i]]
    BY <1>5, <1>6
  <2>2. QED  BY <1>7, <2>1
<1>9. QED  BY <1>6, <1>8 DEF SumsUp, c, n

\* Sums grow.
LEMMA SumsGrow ==
  ASSUME NEW s \in Seq(Nat), NEW c, SumsUp(c, s), NEW i \in 0 .. Len(s), NEW j \in 0 .. Len(s), i <= j
  PROVE  c[i] <= c[j]
<1> DEFINE n == Len(s)
           T == {k \in 0 .. n : k < i \/ c[i] <= c[k]}
<1>1. n \in Nat /\ c[i] \in Nat /\ \A k \in 1 .. n : s[k] \in Nat /\ c[k] \in Nat /\ c[k - 1] \in Nat
  <2>1. n \in Nat /\ \A k \in 0 .. n : c[k] \in Nat
    <3>1. c \in [0 .. n -> Nat]  BY DEF SumsUp
    <3>2. n \in Nat  OBVIOUS
    <3> HIDE DEF n
    <3>3. QED  BY <3>1, <3>2
  <2>2. \A k \in 1 .. n : k - 1 \in 0 .. n /\ k \in 0 .. n /\ s[k] \in Nat
    BY <2>1
  <2> HIDE DEF n
  <2>3. QED  BY <2>1, <2>2 DEF n
<1>2. 0 \in T
  BY <1>1
<1>3. \A k \in 1 .. n : k - 1 \in T => k \in T
  <2> SUFFICES ASSUME NEW k \in 1 .. n, k - 1 \in T PROVE k \in T
    OBVIOUS
  <2>1. c[k] = c[k - 1] + s[k]
    BY DEF SumsUp
  <2>2. CASE k < i \/ k = i
    BY <1>1, <2>2
  <2>3. CASE ~(k < i \/ k = i)
    BY <1>1, <2>1, <2>3
  <2>4. QED  BY <2>2, <2>3
<1>4. j \in T
  <2> HIDE DEF T
  <2>1. QED  BY <1>1, <1>2, <1>3, Climb
<1>5. QED  BY <1>4

\* Every place below the last sum is in one of the parts.
LEMMA SumsLocate ==
  ASSUME NEW s \in Seq(Nat), NEW c, SumsUp(c, s), NEW x \in 1 .. c[Len(s)]
  PROVE  \E i \in 1 .. Len(s), m \in Nat : m \in 1 .. s[i] /\ x = c[i - 1] + m
<1> DEFINE n == Len(s)
           T == {i \in 0 .. n : c[i] >= x}
<1>1. n \in Nat /\ c[0] = 0 /\ \A k \in 1 .. n : /\ s[k] \in Nat /\ c[k] \in Nat /\ c[k - 1] \in Nat
                                    /\ c[k] = c[k - 1] + s[k]
  <2>1. n \in Nat /\ c[0] = 0 /\ \A k \in 0 .. n : c[k] \in Nat
    BY DEF SumsUp
  <2>2. \A k \in 1 .. n : k - 1 \in 0 .. n /\ k \in 0 .. n /\ s[k] \in Nat
    BY <2>1
  <2>3. \A k \in 1 .. n : c[k] = c[k - 1] + s[k]
    BY DEF SumsUp
  <2> HIDE DEF n
  <2>4. QED  BY <2>1, <2>2, <2>3
<1>2. c[n] \in Nat /\ x \in Nat /\ x >= 1 /\ x <= c[n]
  BY DEF SumsUp
<1>3. n \in T /\ T \subseteq Nat
  BY <1>1, <1>2
<1>4. PICK i \in T : \A k \in T : i <= k
  <2> HIDE DEF T
  <2>1. QED  BY <1>3, LeastNat
<1>5. i \in 1 .. n /\ i - 1 \in 0 .. n
  BY <1>1, <1>2, <1>4
<1>6. ~(c[i - 1] >= x)
  BY <1>4, <1>5
<1>7. x - c[i - 1] \in 1 .. s[i] /\ x = c[i - 1] + (x - c[i - 1])
  BY <1>1, <1>2, <1>4, <1>5, <1>6
<1>8. QED  BY <1>5, <1>7

-----------------------------------------------------------------------------
\* Two sequences, one behind the other.
LEMMA Concatenated ==
  ASSUME NEW S, NEW a \in Seq(S), NEW b \in Seq(S)
  PROVE  /\ a \o b \in Seq(S)
         /\ Len(a \o b) = Len(a) + Len(b)
         /\ \A k \in 1 .. Len(a) + Len(b) :
              (a \o b)[k] = IF k <= Len(a) THEN a[k] ELSE b[k - Len(a)]
BY ConcatProperties, Zenon

\* The lengths of some sequences.
Lengths(ss) == [i \in 1 .. Len(ss) |-> Len(ss[i])]

\* f is the first i sequences, one behind the other.
Strung(f, ss, c, i, P) ==
  /\ f \in Seq(P) /\ Len(f) = c[i]
  /\ \A j \in 1 .. i : \A m \in 1 .. Len(ss[j]) : f[c[j - 1] + m] = ss[j][m]

\* What the sums of the lengths are.
LEMMA LengthSums ==
  ASSUME NEW P, NEW ss \in Seq(Seq(P)), NEW c, SumsUp(c, Lengths(ss))
  PROVE  /\ Lengths(ss) \in Seq(Nat) /\ Len(Lengths(ss)) = Len(ss) /\ Len(ss) \in Nat
         /\ \A i \in 1 .. Len(ss) : ss[i] \in Seq(P) /\ Len(ss[i]) \in Nat
         /\ c[0] = 0 /\ \A i \in 0 .. Len(ss) : c[i] \in Nat
         /\ \A i \in 1 .. Len(ss) : /\ i - 1 \in 0 .. Len(ss) /\ i \in 0 .. Len(ss)
                                    /\ c[i] = c[i - 1] + Len(ss[i])
<1> DEFINE n == Len(ss)
<1>1. n \in Nat /\ \A i \in 1 .. n : ss[i] \in Seq(P)
  OBVIOUS
<1>2. \A i \in 1 .. n : Len(ss[i]) \in Nat
  BY <1>1
<1>3. Lengths(ss) \in Seq(Nat) /\ Len(Lengths(ss)) = n
  BY <1>1, <1>2 DEF Lengths
<1>4. \A i \in 1 .. n : Lengths(ss)[i] = Len(ss[i])
  BY DEF Lengths
<1>5. c \in [0 .. n -> Nat] /\ c[0] = 0 /\ \A i \in 1 .. n : c[i] = c[i - 1] + Lengths(ss)[i]
  BY <1>3 DEF SumsUp
<1>6. \A i \in 1 .. n : i - 1 \in 0 .. n /\ i \in 0 .. n
  BY <1>1
<1> HIDE DEF n
<1>7. \A i \in 0 .. n : c[i] \in Nat
  BY <1>5
<1>8. QED  BY <1>1, <1>2, <1>3, <1>4, <1>5, <1>6, <1>7 DEF n

\* One more sequence.
LEMMA StrungOn ==
  ASSUME NEW P, NEW ss \in Seq(Seq(P)), NEW c, SumsUp(c, Lengths(ss)),
         NEW i \in 1 .. Len(ss), NEW f, Strung(f, ss, c, i - 1, P)
  PROVE  Strung(f \o ss[i], ss, c, i, P)
<1> DEFINE u == ss[i]
<1>1. /\ f \in Seq(P) /\ u \in Seq(P) /\ Len(f) = c[i - 1] /\ Len(u) \in Nat /\ Len(f) \in Nat
      /\ c[i] = c[i - 1] + Len(u)
  BY LengthSums DEF Strung
<1> HIDE DEF u
<1>2. /\ f \o u \in Seq(P) /\ Len(f \o u) = c[i]
      /\ \A k \in 1 .. c[i] : (f \o u)[k] = IF k <= Len(f) THEN f[k] ELSE u[k - Len(f)]
  <2>1. /\ f \o u \in Seq(P) /\ Len(f \o u) = Len(f) + Len(u)
        /\ \A k \in 1 .. Len(f) + Len(u) : (f \o u)[k] = IF k <= Len(f) THEN f[k] ELSE u[k - Len(f)]
    BY <1>1, Concatenated, Zenon
  <2>2. Len(f) + Len(u) = c[i]
    BY <1>1
  <2>3. QED  BY <2>1, <2>2, Zenon
<1>3. ASSUME NEW j \in 1 .. i, NEW m \in 1 .. Len(ss[j])
      PROVE  (f \o u)[c[j - 1] + m] = ss[j][m]
  <2>1. /\ j \in 1 .. Len(ss) /\ i \in Nat /\ j \in Nat
    OBVIOUS
  <2>2. /\ c[j - 1] \in Nat /\ Len(ss[j]) \in Nat /\ c[j] = c[j - 1] + Len(ss[j])
        /\ c[j] \in Nat /\ c[i] \in Nat /\ j \in 0 .. Len(ss) /\ i - 1 \in 0 .. Len(ss)
    BY <2>1, LengthSums
  <2>3. CASE j = i
    <3>1. c[j - 1] + m \in 1 .. c[i] /\ ~(c[j - 1] + m <= Len(f)) /\ (c[j - 1] + m) - Len(f) = m
      <4>1. m \in Nat /\ m >= 1 /\ m <= Len(u)
        BY <2>2, <2>3 DEF u
      <4>2. c[j - 1] = Len(f) /\ c[i] = Len(f) + Len(u)
        BY <1>1, <2>3
      <4>3. Len(f) \in Nat /\ Len(u) \in Nat
        BY <1>1
      <4>4. QED  BY SMTT(40), <4>1, <4>2, <4>3
    <3>2. (f \o u)[c[j - 1] + m] = u[(c[j - 1] + m) - Len(f)]
      BY <1>2, <3>1
    <3>3. QED  BY <2>3, <3>1, <3>2 DEF u
  <2>4. CASE j # i
    <3>1. j \in 1 .. i - 1 /\ j <= i - 1
      BY <2>1, <2>4
    <3>2. c[j] <= c[i - 1]
      BY <2>2, <3>1, LengthSums, SumsGrow
    <3>3. c[j - 1] + m \in 1 .. c[i] /\ c[j - 1] + m <= Len(f)
      <4>1. m \in Nat /\ m >= 1 /\ c[j - 1] + m <= c[j]
        BY <2>2
      <4>2. c[j] <= Len(f) /\ Len(f) <= c[i]
        <5>1. c[i] = Len(f) + Len(u)  BY <1>1
        <5>2. QED  BY <1>1, <3>2, <5>1
      <4>3. Len(f) \in Nat /\ c[j - 1] \in Nat /\ c[j] \in Nat /\ c[i] \in Nat
        BY <1>1, <2>2
      <4>4. QED  BY SMTT(40), <4>1, <4>2, <4>3
    <3>4. (f \o u)[c[j - 1] + m] = f[c[j - 1] + m]
      BY <1>2, <3>3
    <3>5. QED  BY <3>1, <3>4 DEF Strung
  <2>5. QED  BY <2>3, <2>4
<1>4. QED  BY <1>2, <1>3 DEF Strung, u

\* f is what the recursion of FlattenSeq defines, up to m.
Flattening(f, ss, m) == f = [i \in 1 .. m |-> IF i = 1 THEN ss[i] ELSE f[i - 1] \o ss[i]]

\* FlattenSeq puts sequences one behind the other.
LEMMA Flattened ==
  ASSUME NEW P, NEW ss \in Seq(Seq(P)), NEW c, SumsUp(c, Lengths(ss))
  PROVE  Strung(FlattenSeq(ss), ss, c, Len(ss), P)
<1> DEFINE n == Len(ss)
           T == {m \in 0 .. n : \E f : Flattening(f, ss, m)}
<1>1. n \in Nat
  OBVIOUS
<1>2. CASE n = 0
  <2>1. FlattenSeq(ss) = <<>> /\ <<>> \in Seq(P) /\ Len(<<>>) = 0
    BY <1>2, EmptySeq DEF FlattenSeq
  <2>2. c[0] = 0  BY LengthSums
  <2>3. QED  BY <1>2, <2>1, <2>2 DEF Strung
<1>3. CASE n # 0
  <2> HIDE DEF n
  <2>1. 0 \in T
    <3>1. Flattening([i \in 1 .. 0 |-> ss], ss, 0)
      BY DEF Flattening
    <3>2. QED  BY <1>1, <3>1
  <2>2. ASSUME NEW m \in 1 .. n, m - 1 \in T
        PROVE  m \in T
    <3>1. PICK f : Flattening(f, ss, m - 1)
      BY <2>2
    <3> DEFINE e(i) == IF i = 1 THEN ss[i] ELSE f[i - 1] \o ss[i]
               g == [i \in 1 .. m |-> e(i)]
    <3>2. \A i \in 1 .. m - 1 : f[i] = e(i)
      BY <3>1 DEF Flattening
    <3>3. \A i \in 1 .. m : i = 1 \/ (i - 1 \in 1 .. m - 1 /\ i - 1 \in 1 .. m)
      BY <1>1
    <3>4. \A i \in 1 .. m : i = 1 \/ g[i - 1] = f[i - 1]
      BY <3>2, <3>3
    <3>5. g = [i \in 1 .. m |-> IF i = 1 THEN ss[i] ELSE g[i - 1] \o ss[i]]
      <4>1. \A i \in 1 .. m : e(i) = IF i = 1 THEN ss[i] ELSE g[i - 1] \o ss[i]
        BY <3>4
      <4>2. QED  BY <4>1
    <3> HIDE DEF g
    <3>6. Flattening(g, ss, m)
      BY <3>5 DEF Flattening
    <3>7. m \in 0 .. n
      BY <1>1
    <3>8. QED  BY <3>6, <3>7
  <2>3. \E f : Flattening(f, ss, n)
    <3>1. \A i \in 0 .. n : i \in T
      <4> HIDE DEF T
      <4>1. QED  BY <1>1, <2>1, <2>2, Climb
    <3>2. n \in 0 .. n  BY <1>1
    <3>3. QED  BY <3>1, <3>2
  <2> DEFINE h == CHOOSE f : Flattening(f, ss, n)
  <2>4. FlattenSeq(ss) = h[n]
    BY <1>3, Zenon DEF FlattenSeq, Flattening, n
  <2>5. Flattening(h, ss, n)
    BY <2>3
  <2> HIDE DEF h
  <2>6. \A i \in 1 .. n : h[i] = IF i = 1 THEN ss[i] ELSE h[i - 1] \o ss[i]
    BY <2>5 DEF Flattening
  <2> DEFINE U == {i \in 0 .. n : i = 0 \/ Strung(h[i], ss, c, i, P)}
  <2>7. 0 \in U
    BY <1>1
  <2>8. ASSUME NEW i \in 1 .. n, i - 1 \in U
        PROVE  i \in U
    <3>1. Strung(h[i], ss, c, i, P)
      <4>1. CASE i = 1
        <5>1. h[1] = ss[1]
          BY <2>6, <4>1
        <5>2. ss[1] \in Seq(P) /\ c[0] = 0 /\ c[1] = c[0] + Len(ss[1]) /\ Len(ss[1]) \in Nat
          BY <4>1, LengthSums DEF n
        <5>3. \A m \in 1 .. Len(ss[1]) : c[1 - 1] + m = m
          BY <5>2
        <5>4. Strung(ss[1], ss, c, 1, P)
          BY <5>2, <5>3 DEF Strung
        <5>5. QED  BY <4>1, <5>1, <5>4
      <4>2. CASE i # 1
        <5>1. h[i] = h[i - 1] \o ss[i] /\ Strung(h[i - 1], ss, c, i - 1, P)
          <6>1. h[i] = h[i - 1] \o ss[i]  BY <2>6, <4>2
          <6>2. i - 1 # 0  BY <1>1, <4>2
          <6>3. QED  BY <2>8, <6>1, <6>2
        <5>2. QED  BY <5>1, StrungOn DEF n
      <4>3. QED  BY <4>1, <4>2
    <3>2. i \in 0 .. n
      BY <1>1
    <3>3. QED  BY <3>1, <3>2
  <2>9. \A i \in 0 .. n : i \in U
    <3> HIDE DEF U
    <3>1. QED  BY <1>1, <2>7, <2>8, Climb
  <2>10. n \in 0 .. n
    BY <1>1
  <2>11. Strung(h[n], ss, c, n, P)
    BY <1>3, <2>9, <2>10
  <2>12. QED  BY <2>4, <2>11 DEF n
<1>4. QED  BY <1>2, <1>3

-----------------------------------------------------------------------------
\* The entries a list can have.
Entry ==
  UNION {Nodes(path, content, compress, dirLevel, root) :
           path \in Tree, content \in Content, compress \in BOOLEAN, dirLevel \in Int,
           root \in Tree \cup {<<>>}}

\* What is known of the data of a content.
LEMMA DataFacts ==
  ASSUME NEW c \in Content, NEW b \in BOOLEAN, NEW d \in Data(c, b)
  PROVE  /\ Size(c) \in Nat /\ d.size \in 0 .. Size(c)
         /\ d.form \in {"none", "plain", "deflated", "cut"}
         /\ Size(c) = 0 => d.form = "none" /\ d.size = 0 /\ c = Empty
         /\ Size(c) > 0 => d.form # "none"
         /\ Size(c) > 0 /\ ~b => d.form = "plain" /\ d.of = c
         /\ Size(c) > 0 /\ b /\ Packed(c) <= Size(c) => d.form = "deflated" /\ d.of = c
         /\ Size(c) > 0 /\ b /\ ~(Packed(c) <= Size(c)) => d.form = "cut"
<1>1. Size(c) \in Nat /\ Packed(c) \in Nat /\ (Size(c) = 0 <=> c = Empty)
  BY ArchiveConstants
<1>2. CASE Size(c) = 0
  <2>1. d = [form |-> "none", of |-> Empty, size |-> 0]
    BY <1>2 DEF Data
  <2>2. QED  BY <1>1, <1>2, <2>1
<1>3. CASE Size(c) # 0 /\ ~b
  <2>1. d = [form |-> "plain", of |-> c, size |-> Size(c)]
    BY <1>3 DEF Data
  <2>2. QED  BY <1>1, <1>3, <2>1
<1>4. CASE Size(c) # 0 /\ b /\ Packed(c) <= Size(c)
  <2>1. d = [form |-> "deflated", of |-> c, size |-> Packed(c)]
    BY <1>4 DEF Data
  <2>2. QED  BY <1>1, <1>4, <2>1
<1>5. CASE Size(c) # 0 /\ b /\ ~(Packed(c) <= Size(c))
  <2>1. PICK n \in 0 .. Size(c) : d = [form |-> "cut", of |-> c, size |-> n]
    BY <1>5 DEF Data
  <2>2. QED  BY <1>1, <1>5, <2>1
<1>6. QED  BY <1>2, <1>3, <1>4, <1>5

\* Where the name that is kept of a path begins.
KeptFrom(path, dirLevel) ==
  LET count == IF dirLevel < 0 THEN 1 ELSE dirLevel + 1
  IN  IF count >= Len(path) THEN 1 ELSE Len(path) + 1 - count

\* What KeptName keeps of a path: never nothing, and always a name with a size.
LEMMA NameKept ==
  ASSUME NEW p \in Tree, NEW d \in Int
  PROVE  /\ p \in Seq(STRING) /\ Len(p) \in Nat /\ Len(p) >= 1
         /\ KeptFrom(p, d) \in 1 .. Len(p)
         /\ KeptName(p, d) = SubSeq(p, KeptFrom(p, d), Len(p))
         /\ KeptName(p, d) # <<>> /\ NameSize(KeptName(p, d)) \in Nat
<1> DEFINE count == IF d < 0 THEN 1 ELSE d + 1
<1>1. p \in Seq(STRING) /\ p # <<>>
  BY ArchiveConstants
<1>2. Len(p) \in Nat /\ Len(p) >= 1
  BY <1>1
<1>3. KeptFrom(p, d) \in 1 .. Len(p)
  BY <1>2 DEF KeptFrom
<1>4. KeptName(p, d) = SubSeq(p, KeptFrom(p, d), Len(p))
  <2>1. CASE count >= Len(p)
    <3>1. SubSeq(p, 1, Len(p)) = p
      BY <1>1, SubSeqFull
    <3>2. QED  BY <2>1, <3>1 DEF KeptName, KeptFrom
  <2>2. CASE ~(count >= Len(p))
    BY <2>2 DEF KeptName, KeptFrom
  <2>3. QED  BY <2>1, <2>2
<1> DEFINE k == KeptFrom(p, d)
<1>5. NameSize(SubSeq(p, k, Len(p))) \in Nat
  BY <1>3, ArchiveConstants
<1>6. Len(SubSeq(p, k, Len(p))) = Len(p) - k + 1
  BY <1>1, <1>2, <1>3, SubSeqProperties
<1>7. SubSeq(p, k, Len(p)) # <<>>
  <2>1. Len(p) - k + 1 # 0
    BY <1>2, <1>3
  <2>2. QED  BY <1>6, <2>1
<1>8. QED  BY <1>1, <1>2, <1>3, <1>4, <1>5, <1>7

\* What is known of an entry.
LEMMA EntryFacts ==
  ASSUME NEW n \in Entry
  PROVE  /\ n.name # <<>> /\ NameSize(n.name) \in Nat
         /\ n.content \in Content /\ n.compress \in BOOLEAN
         /\ n.deflate = (n.compress /\ ~IsDir(n.full))
         /\ n.uncompressed = Size(n.content) /\ n.data \in Data(n.content, n.compress)
<1>1. PICK path \in Tree, content \in Content, compress \in BOOLEAN, dirLevel \in Int,
           root \in Tree \cup {<<>>} : n \in Nodes(path, content, compress, dirLevel, root)
  BY DEF Entry
<1>2. PICK d \in Data(content, compress) :
        n = [name |-> KeptName(path, dirLevel), full |-> path, root |-> root,
             deflate |-> compress /\ ~IsDir(path), content |-> content, compress |-> compress,
             uncompressed |-> Size(content), data |-> d]
  BY <1>1 DEF Nodes
<1>3. QED  BY <1>2, NameKept

\* The entry has the name its root asks for.
Named(n) == IsDir(n.full) \/ n.root = <<>> \/ n.name = SubSeq(n.full, FirstOf(n.root), Len(n.full))

\* A new entry is one, and is named rightly when the level fits.
LEMMA EntryMade ==
  ASSUME NEW p \in Tree, NEW c \in Content, NEW b \in BOOLEAN, NEW d \in Int,
         NEW r \in Tree \cup {<<>>}, NEW n \in Nodes(p, c, b, d, r)
  PROVE  /\ n \in Entry
         /\ IsDir(p) \/ r = <<>> \/ KeptFrom(p, d) = FirstOf(r) => Named(n)
<1>1. n \in Entry
  BY DEF Entry
<1>2. n.full = p /\ n.root = r /\ n.name = KeptName(p, d)
  BY DEF Nodes
<1>3. KeptName(p, d) = SubSeq(p, KeptFrom(p, d), Len(p))
  BY NameKept
<1>4. QED  BY <1>1, <1>2, <1>3 DEF Named

AllNamed(l) == \A i \in 1 .. Len(l) : Named(l[i])

\* Adding an entry to a list.
LEMMA EntryAdded ==
  ASSUME NEW l \in Seq(Entry), NEW n \in Entry
  PROVE  /\ Append(l, n) \in Seq(Entry)
         /\ AllNamed(l) /\ Named(n) => AllNamed(Append(l, n))
<1>1. /\ Append(l, n) \in Seq(Entry) /\ Len(Append(l, n)) = Len(l) + 1
      /\ \A i \in 1 .. Len(l) : Append(l, n)[i] = l[i]
      /\ Append(l, n)[Len(l) + 1] = n
  BY AppendProperties
<1> DEFINE a == Append(l, n)
<1>2. Len(l) \in Nat
  OBVIOUS
<1> HIDE DEF a
<1>3. ASSUME AllNamed(l), Named(n), NEW i \in 1 .. Len(a)
      PROVE  Named(a[i])
  <2>1. CASE i \in 1 .. Len(l)
    <3>1. a[i] = l[i]  BY <1>1, <2>1 DEF a
    <3>2. QED  BY <1>3, <2>1, <3>1 DEF AllNamed
  <2>2. CASE i = Len(l) + 1
    <3>1. a[i] = n  BY <1>1, <2>2 DEF a
    <3>2. QED  BY <1>3, <3>1
  <2>3. i \in 1 .. Len(l) \/ i = Len(l) + 1
    <3>1. Len(a) = Len(l) + 1  BY <1>1 DEF a
    <3>2. QED  BY <1>2, <1>3, <3>1
  <2>4. QED  BY <2>1, <2>2, <2>3
<1>4. AllNamed(l) /\ Named(n) => AllNamed(a)
  BY <1>3 DEF AllNamed
<1>5. QED  BY <1>1, <1>4 DEF a

\* r is s without the i-th.
Without(r, s, i, S) ==
  /\ r \in Seq(S) /\ Len(r) = Len(s) - 1
  /\ \A k \in 1 .. Len(r) : r[k] = IF k < i THEN s[k] ELSE s[k + 1]

\* RemoveAt takes out one and keeps the order of the others.
LEMMA RemovedAt ==
  ASSUME NEW S, NEW s \in Seq(S), NEW i \in 1 .. Len(s)
  PROVE  Without(RemoveAt(s, i), s, i, S)
<1> DEFINE a == SubSeq(s, 1, i - 1)
           b == SubSeq(s, i + 1, Len(s))
<1>1. Len(s) \in Nat /\ i \in Nat /\ i >= 1 /\ i <= Len(s) /\ \A k \in 1 .. Len(s) : s[k] \in S
  OBVIOUS
<1>2. a \in Seq(S) /\ Len(a) = i - 1 /\ \A k \in 1 .. i - 1 : a[k] = s[k]
  <2>1. 1 \in Int /\ i - 1 \in Int /\ \A k \in 1 .. i - 1 : s[k] \in S
    BY <1>1
  <2>2. /\ a \in Seq(S) /\ Len(a) = (IF 1 <= i - 1 THEN (i - 1) - 1 + 1 ELSE 0)
        /\ \A k \in 1 .. (i - 1) - 1 + 1 : a[k] = s[1 + k - 1]
    BY <2>1, SubSeqProperties
  <2> HIDE DEF a
  <2>3. Len(a) = i - 1
    BY <1>1, <2>2
  <2>4. \A k \in 1 .. i - 1 : a[k] = s[k]
    <3> TAKE k \in 1 .. i - 1
    <3>1. k \in 1 .. (i - 1) - 1 + 1 /\ 1 + k - 1 = k  BY <1>1
    <3>2. QED  BY <2>2, <3>1
  <2>5. QED  BY <2>2, <2>3, <2>4
<1>3. b \in Seq(S) /\ Len(b) = Len(s) - i /\ \A k \in 1 .. Len(s) - i : b[k] = s[i + k]
  <2>1. i + 1 \in Int /\ Len(s) \in Int /\ \A k \in i + 1 .. Len(s) : s[k] \in S
    BY <1>1
  <2>2. /\ b \in Seq(S) /\ Len(b) = (IF i + 1 <= Len(s) THEN Len(s) - (i + 1) + 1 ELSE 0)
        /\ \A k \in 1 .. Len(s) - (i + 1) + 1 : b[k] = s[(i + 1) + k - 1]
    BY <2>1, SubSeqProperties
  <2> HIDE DEF b
  <2>3. Len(b) = Len(s) - i
    BY <1>1, <2>2
  <2>4. \A k \in 1 .. Len(s) - i : b[k] = s[i + k]
    <3> TAKE k \in 1 .. Len(s) - i
    <3>1. k \in 1 .. Len(s) - (i + 1) + 1 /\ (i + 1) + k - 1 = i + k  BY <1>1
    <3>2. QED  BY <2>2, <3>1
  <2>5. QED  BY <2>2, <2>3, <2>4
<1>4. RemoveAt(s, i) = a \o b
  BY DEF RemoveAt
<1> HIDE DEF a, b
<1>5. /\ a \o b \in Seq(S) /\ Len(a \o b) = Len(s) - 1
      /\ \A k \in 1 .. Len(s) - 1 : (a \o b)[k] = IF k <= i - 1 THEN a[k] ELSE b[k - (i - 1)]
  <2>1. /\ a \o b \in Seq(S) /\ Len(a \o b) = Len(a) + Len(b)
        /\ \A k \in 1 .. Len(a) + Len(b) : (a \o b)[k] = IF k <= Len(a) THEN a[k] ELSE b[k - Len(a)]
    BY <1>2, <1>3, Concatenated, Zenon
  <2>2. Len(a) = i - 1 /\ Len(a) + Len(b) = Len(s) - 1
    BY <1>1, <1>2, <1>3
  <2>3. QED  BY <2>1, <2>2, Zenon
<1>6. ASSUME NEW k \in 1 .. Len(s) - 1
      PROVE  (a \o b)[k] = IF k < i THEN s[k] ELSE s[k + 1]
  <2>1. CASE k < i
    <3>1. k <= i - 1 /\ k \in 1 .. i - 1  BY <1>1, <2>1
    <3>2. QED  BY <1>2, <1>5, <2>1, <3>1
  <2>2. CASE ~(k < i)
    <3>1. ~(k <= i - 1) /\ k - (i - 1) \in 1 .. Len(s) - i /\ i + (k - (i - 1)) = k + 1
      BY <1>1, <2>2
    <3>2. QED  BY <1>3, <1>5, <2>2, <3>1
  <2>3. QED  BY <2>1, <2>2
<1>7. QED  BY <1>4, <1>5, <1>6 DEF Without

\* Taking an entry out.
LEMMA EntryRemoved ==
  ASSUME list \in Seq(Entry), NEW path, Matches(path) # {}
  PROVE  /\ \E i \in 1 .. Len(list) : Removed(path) = RemoveAt(list, i)
         /\ Removed(path) \in Seq(Entry)
         /\ AllNamed(list) => AllNamed(Removed(path))
<1> DEFINE M == Matches(path)
           i == CHOOSE i \in M : \A j \in M : i <= j
<1>1. M \subseteq 1 .. Len(list) /\ M \subseteq Nat
  BY DEF Matches
<1>2. i \in M
  <2>1. \E k \in M : \A j \in M : k <= j
    <3>0. M # {}  OBVIOUS
    <3> HIDE DEF M
    <3>1. QED  BY <1>1, <3>0, LeastNat
  <2>2. QED  BY <2>1
<1>3. i \in 1 .. Len(list)
  BY <1>1, <1>2
<1>4. Removed(path) = RemoveAt(list, i)
  BY DEF Removed
<1> HIDE DEF i, M
<1> DEFINE r == RemoveAt(list, i)
<1>5. Without(r, list, i, Entry)
  BY <1>3, RemovedAt
<1> HIDE DEF r
<1>6. ASSUME AllNamed(list) PROVE AllNamed(r)
  <2> SUFFICES ASSUME NEW k \in 1 .. Len(r) PROVE Named(r[k])
    BY DEF AllNamed
  <2>1. Len(r) = Len(list) - 1 /\ r[k] = IF k < i THEN list[k] ELSE list[k + 1]
    BY <1>5 DEF Without
  <2>2. k \in 1 .. Len(list) /\ k + 1 \in 1 .. Len(list)
    BY <2>1
  <2>3. QED  BY <1>6, <2>1, <2>2 DEF AllNamed
<1>7. QED  BY <1>3, <1>4, <1>5, <1>6 DEF Without, r

-----------------------------------------------------------------------------
\* The directories under way: each is one below the next, and what is left of
\* it is in it.
FrameSet == [dir : Tree, left : Seq(Tree), compress : BOOLEAN, root : Tree]

Below(f, depth) ==
  /\ IsDir(f.root) /\ IsDir(f.dir) /\ Len(f.dir) = Len(f.root) + depth
  /\ \A i \in 1 .. Len(f.left) : Len(f.left[i]) = Len(f.dir) + (IF IsDir(f.left[i]) THEN 1 ELSE 0)

Walking(w) == w \in Seq(FrameSet) /\ \A k \in 1 .. Len(w) : Below(w[k], Len(w) - k)

\* The list, and the calls that make it.
ListInv ==
  /\ list \in Seq(Entry) /\ Walking(walk) /\ level \in Nat /\ Len(walk) <= level
  /\ strayed \in BOOLEAN /\ calls \in 0 .. MaxCalls
  /\ ~strayed => level = Len(walk) /\ AllNamed(list)

\* A directory that AddFile enters.
LEMMA FrameMade ==
  ASSUME NEW dir \in Tree, IsDir(dir), NEW b \in BOOLEAN, NEW root \in Tree, IsDir(root),
         NEW depth \in Nat, Len(dir) = Len(root) + depth
  PROVE  Frame(dir, b, root) \in FrameSet /\ Below(Frame(dir, b, root), depth)
<1> DEFINE f == Frame(dir, b, root)
<1>1. f.dir = dir /\ f.left = Entries(dir) /\ f.root = root /\ f.compress = b
  BY DEF Frame
<1>2. /\ Entries(dir) \in Seq(Tree)
      /\ \A i \in DOMAIN Entries(dir) :
            LET p == Entries(dir)[i] IN Len(p) = Len(dir) + (IF IsDir(p) THEN 1 ELSE 0)
  BY ArchiveConstants
<1>3. DOMAIN Entries(dir) = 1 .. Len(Entries(dir))
  BY <1>2
<1>4. f \in FrameSet
  BY <1>2 DEF Frame, FrameSet
<1> HIDE DEF f
<1>5. Below(f, depth)
  BY <1>1, <1>2, <1>3 DEF Below
<1>6. QED  BY <1>4, <1>5 DEF f

\* One element put before a sequence.
LEMMA Prepended ==
  ASSUME NEW S, NEW e \in S, NEW s \in Seq(S)
  PROVE  /\ <<e>> \o s \in Seq(S) /\ Len(<<e>> \o s) = Len(s) + 1
         /\ (<<e>> \o s)[1] = e
         /\ \A k \in 1 .. Len(s) : (<<e>> \o s)[k + 1] = s[k]
<1> DEFINE u == <<e>>
<1>1. u \in Seq(S) /\ Len(u) = 1 /\ u[1] = e /\ Len(s) \in Nat
  OBVIOUS
<1> HIDE DEF u
<1>2. /\ u \o s \in Seq(S) /\ Len(u \o s) = 1 + Len(s)
      /\ \A k \in 1 .. 1 + Len(s) : (u \o s)[k] = IF k <= 1 THEN u[k] ELSE s[k - 1]
  <2>1. /\ u \o s \in Seq(S) /\ Len(u \o s) = Len(u) + Len(s)
        /\ \A k \in 1 .. Len(u) + Len(s) : (u \o s)[k] = IF k <= Len(u) THEN u[k] ELSE s[k - Len(u)]
    BY <1>1, Concatenated, Zenon
  <2>2. QED  BY <1>1, <2>1, Zenon
<1>3. \A k \in 1 .. Len(s) : k + 1 \in 1 .. 1 + Len(s) /\ ~(k + 1 <= 1) /\ (k + 1) - 1 = k
  BY <1>1
<1>4. 1 \in 1 .. 1 + Len(s) /\ 1 <= 1
  BY <1>1
<1>5. (u \o s)[1] = e
  BY <1>1, <1>2, <1>4
<1>6. \A k \in 1 .. Len(s) : (u \o s)[k + 1] = s[k]
  <2> TAKE k \in 1 .. Len(s)
  <2>1. (u \o s)[k + 1] = s[(k + 1) - 1]
    BY <1>2, <1>3
  <2>2. QED  BY <1>3, <2>1
<1>7. Len(u \o s) = Len(s) + 1
  BY <1>1, <1>2
<1>8. QED  BY <1>2, <1>5, <1>6, <1>7 DEF u

\* A directory put before those under way.
LEMMA WalkedInto ==
  ASSUME NEW w, Walking(w), NEW f \in FrameSet, Below(f, Len(w))
  PROVE  Walking(<<f>> \o w) /\ Len(<<f>> \o w) = Len(w) + 1
<1> DEFINE u == <<f>> \o w
<1>1. w \in Seq(FrameSet) /\ Len(w) \in Nat
  BY DEF Walking
<1>2. u \in Seq(FrameSet) /\ Len(u) = Len(w) + 1 /\ u[1] = f /\ \A k \in 1 .. Len(w) : u[k + 1] = w[k]
  BY <1>1, Prepended
<1> HIDE DEF u
<1>3. ASSUME NEW k \in 1 .. Len(u)
      PROVE  Below(u[k], Len(u) - k)
  <2>1. CASE k = 1
    <3>1. Len(u) - k = Len(w)  BY <1>1, <1>2, <2>1
    <3>2. QED  BY <1>2, <2>1, <3>1
  <2>2. CASE k # 1
    <3>1. k - 1 \in 1 .. Len(w) /\ (k - 1) + 1 = k /\ Len(u) - k = Len(w) - (k - 1)
      BY <1>1, <1>2, <2>2
    <3>2. u[k] = w[k - 1]
      BY <1>2, <3>1
    <3>3. Below(w[k - 1], Len(w) - (k - 1))
      BY <3>1 DEF Walking
    <3>4. QED  BY <3>1, <3>2, <3>3
  <2>3. QED  BY <2>1, <2>2
<1>4. QED  BY <1>2, <1>3 DEF Walking, u

\* The innermost directory, and those without it.
LEMMA WalkTop ==
  ASSUME Walking(walk), walk # <<>>
  PROVE  /\ Top \in FrameSet /\ Below(Top, Len(walk) - 1) /\ Len(walk) \in Nat /\ Len(walk) >= 1
         /\ Walking(Tail(walk)) /\ Len(Tail(walk)) = Len(walk) - 1
<1>1. walk \in Seq(FrameSet) /\ Len(walk) \in Nat /\ Len(walk) >= 1
  BY DEF Walking
<1>2. Top = walk[1] /\ Top \in FrameSet
  BY <1>1 DEF Top
<1>3. Below(Top, Len(walk) - 1)
  BY <1>1, <1>2 DEF Walking
<1>4. /\ Tail(walk) \in Seq(FrameSet) /\ Len(Tail(walk)) = Len(walk) - 1
      /\ \A k \in 1 .. Len(Tail(walk)) : Tail(walk)[k] = walk[k + 1]
  BY <1>1, HeadTailProperties
<1> DEFINE t == Tail(walk)
<1> HIDE DEF t
<1>5. ASSUME NEW k \in 1 .. Len(t)
      PROVE  Below(t[k], Len(t) - k)
  <2>1. k + 1 \in 1 .. Len(walk) /\ Len(t) - k = Len(walk) - (k + 1)
    <3>1. Len(t) = Len(walk) - 1  BY <1>4 DEF t
    <3>2. QED  BY <1>1, <3>1
  <2>2. t[k] = walk[k + 1]
    BY <1>4 DEF t
  <2>3. Below(walk[k + 1], Len(walk) - (k + 1))
    BY <2>1 DEF Walking
  <2>4. QED  BY <2>1, <2>2, <2>3
<1>6. Walking(t)
  BY <1>4, <1>5 DEF Walking, t
<1>7. QED  BY <1>1, <1>2, <1>3, <1>4, <1>6 DEF t

\* The next path of a directory, and the directory without it.
LEMMA NextPath ==
  ASSUME Walking(walk), walk # <<>>, Top.left # <<>>
  PROVE  /\ Head(Top.left) \in Tree
         /\ Len(Head(Top.left)) = Len(Top.dir) + (IF IsDir(Head(Top.left)) THEN 1 ELSE 0)
         /\ Walking(Onward) /\ Len(Onward) = Len(walk)
<1> DEFINE e == [Top EXCEPT !.left = Tail(Top.left)]
<1>1. /\ Top \in FrameSet /\ Below(Top, Len(walk) - 1) /\ Len(walk) \in Nat
      /\ Walking(Tail(walk)) /\ Len(Tail(walk)) = Len(walk) - 1
  BY WalkTop
<1>2. Top.left \in Seq(Tree) /\ Top.dir \in Tree
  BY <1>1 DEF FrameSet
<1>3. Head(Top.left) = Top.left[1] /\ 1 \in 1 .. Len(Top.left) /\ Head(Top.left) \in Tree
  BY <1>2
<1>4. Len(Head(Top.left)) = Len(Top.dir) + (IF IsDir(Head(Top.left)) THEN 1 ELSE 0)
  BY <1>1, <1>3 DEF Below
<1>5. /\ Tail(Top.left) \in Seq(Tree) /\ Len(Tail(Top.left)) = Len(Top.left) - 1
      /\ \A k \in 1 .. Len(Tail(Top.left)) : Tail(Top.left)[k] = Top.left[k + 1]
  BY <1>2, HeadTailProperties
<1>6. /\ e \in FrameSet /\ e.dir = Top.dir /\ e.root = Top.root /\ e.left = Tail(Top.left)
  BY <1>1, <1>5 DEF FrameSet
<1>7. Onward = <<e>> \o Tail(walk)
  BY <1>1 DEF Onward, FrameSet
<1> HIDE DEF e
<1>8. Below(e, Len(walk) - 1)
  <2>1. \A k \in 1 .. Len(e.left) : k + 1 \in 1 .. Len(Top.left) /\ e.left[k] = Top.left[k + 1]
    <3>1. Len(Top.left) \in Nat /\ Len(e.left) = Len(Top.left) - 1
      BY <1>2, <1>5, <1>6
    <3>2. \A k \in 1 .. Len(e.left) : k + 1 \in 1 .. Len(Top.left)
      BY <3>1
    <3>3. QED  BY <1>5, <1>6, <3>2
  <2>2. QED  BY <1>1, <1>6, <2>1 DEF Below
<1>9. Walking(<<e>> \o Tail(walk)) /\ Len(<<e>> \o Tail(walk)) = Len(Tail(walk)) + 1
  BY <1>1, <1>6, <1>8, WalkedInto
<1>10. Len(Tail(walk)) + 1 = Len(walk)
  <2> DEFINE t == Len(Tail(walk))
  <2>1. t = Len(walk) - 1 /\ Len(walk) \in Nat  BY <1>1
  <2> HIDE DEF t
  <2>2. t + 1 = Len(walk)  BY <2>1
  <2>3. QED  BY <2>2 DEF t
<1>11. Walking(Onward) /\ Len(Onward) = Len(walk)
  BY <1>7, <1>9, <1>10
<1>12. QED  BY <1>3, <1>4, <1>11

\* Where a name begins that is kept by the depth.
LEMMA KeptBelow ==
  ASSUME NEW p \in Tree, NEW root \in Tree, IsDir(root), NEW depth \in Nat,
         Len(p) = Len(root) + depth
  PROVE  KeptFrom(p, depth + 1) = FirstOf(root)
<1>1. Len(root) >= 2 /\ Len(root) \in Nat
  <2>1. root \in Seq(STRING)  BY ArchiveConstants
  <2>2. Len(root) \in Nat  BY <2>1
  <2>3. QED  BY <2>2, ArchiveConstants
<1>2. FirstOf(root) = Len(root) - 1
  BY DEF FirstOf
<1>3. KeptFrom(p, depth + 1) = IF depth + 2 >= Len(p) THEN 1 ELSE Len(p) + 1 - (depth + 2)
  BY DEF KeptFrom
<1>4. QED  BY <1>1, <1>2, <1>3

\* Where the name of a file begins that is added by itself.
LEMMA KeptAlone ==
  ASSUME NEW p \in Tree, ~IsDir(p)
  PROVE  KeptFrom(p, 0) = FirstOf(p)
<1>1. Len(p) >= 1 /\ Len(p) \in Nat
  <2>1. p \in Seq(STRING) /\ p # <<>>  BY ArchiveConstants
  <2>2. QED  BY <2>1
<1>2. FirstOf(p) = Len(p)
  BY DEF FirstOf
<1>3. KeptFrom(p, 0) = IF 1 >= Len(p) THEN 1 ELSE Len(p) + 1 - 1
  BY DEF KeptFrom
<1>4. QED  BY <1>1, <1>2, <1>3

-----------------------------------------------------------------------------
\* A path has a length.
LEMMA PathLength == \A p \in Tree : Len(p) \in Nat
<1>1. \A p \in Tree : p \in Seq(STRING)
  BY ArchiveConstants
<1>2. QED  BY <1>1

\* No directory is under way.
LEMMA NoWalk == Walking(<<>>)
<1>1. <<>> \in Seq(FrameSet) /\ Len(<<>>) = 0
  BY EmptySeq
<1>2. QED  BY <1>1 DEF Walking

\* A change counts as one call.
LEMMA Counted ==
  ASSUME ListInv, Change
  PROVE  walk = <<>> /\ Len(walk) = 0 /\ calls' \in 0 .. MaxCalls /\ (~strayed => level = 0 /\ AllNamed(list))
<1>1. walk = <<>> /\ calls < MaxCalls /\ calls' = calls + 1
  BY DEF Change
<1>2. Len(walk) = 0
  BY <1>1
<1>3. calls' \in 0 .. MaxCalls
  BY <1>1, ArchiveConstants DEF ListInv
<1>4. QED  BY <1>1, <1>2, <1>3 DEF ListInv

\* AddFile of a path by its caller, to a list that has right names.
LEMMA StartAddSafe ==
  ASSUME ListInv, Change, strayed' = strayed, NEW l \in Seq(Entry), ~strayed => AllNamed(l),
         NEW p \in Path, NEW b \in BOOLEAN, StartAdd(p, b, l)
  PROVE  ListInv'
<1>1. p \in Tree /\ p \in Tree \cup {<<>>}
  BY ArchiveConstants
<1>2. /\ walk = <<>> /\ calls' \in 0 .. MaxCalls /\ (~strayed => level = 0)
      /\ level \in Nat /\ strayed \in BOOLEAN
  BY Counted DEF ListInv
<1>3. strayed' \in BOOLEAN
  BY <1>2
<1>4. CASE IsDir(p) /\ level' = level + 1 /\ walk' = <<Frame(p, b, p)>> /\ list' = l
  <2>1. Len(p) \in Nat /\ Len(p) = Len(p) + 0
    BY <1>1, NameKept
  <2>2. Frame(p, b, p) \in FrameSet /\ Below(Frame(p, b, p), 0)
    BY <1>1, <1>4, <2>1, FrameMade
  <2> DEFINE f == Frame(p, b, p)
  <2> HIDE DEF f
  <2>3. <<f>> \in Seq(FrameSet) /\ Len(<<f>>) = 1 /\ <<f>>[1] = f
    BY <2>2 DEF f
  <2>4. Walking(<<f>>)
    BY <2>2, <2>3 DEF Walking, f
  <2>5. Walking(walk') /\ Len(walk') = 1
    BY <1>4, <2>3, <2>4 DEF f
  <2>6. level' \in Nat /\ Len(walk') <= level' /\ (~strayed => level' = Len(walk'))
    BY <1>2, <1>4, <2>5
  <2>7. QED  BY <1>2, <1>3, <1>4, <2>5, <2>6 DEF ListInv
<1>5. CASE /\ ~IsDir(p) /\ UNCHANGED <<level, walk>>
           /\ \E n \in Nodes(p, Stored(p), b, level, p) : list' = Append(l, n)
  <2>1. PICK n \in Nodes(p, Stored(p), b, level, p) : list' = Append(l, n)
    BY <1>5
  <2>2. Stored(p) \in Content /\ level \in Int
    BY <1>1, <1>2, ArchiveConstants
  <2>3. n \in Entry /\ (~strayed => Named(n))
    BY <1>1, <1>2, <1>5, <2>2, EntryMade, KeptAlone
  <2>4. list' \in Seq(Entry) /\ (~strayed => AllNamed(list'))
    BY <2>1, <2>3, EntryAdded
  <2>5. level' = level /\ walk' = walk
    BY <1>5
  <2>6. QED  BY <1>2, <1>3, <2>4, <2>5 DEF ListInv
<1>6. CASE list' = l /\ UNCHANGED <<level, walk>>
  <2>1. level' = level /\ walk' = walk
    BY <1>6
  <2>2. QED  BY <1>2, <1>3, <1>6, <2>1 DEF ListInv
<1>7. QED  BY <1>4, <1>5, <1>6 DEF StartAdd

\* The calls and their steps, one by one: AddFile by the caller.
LEMMA AddFileSafe ==
  ASSUME ListInv, NEW p \in Path, NEW b \in BOOLEAN, AddFile(p, b)
  PROVE  ListInv'
BY StartAddSafe DEF AddFile, ListInv

\* A content added by name.
LEMMA AddContentSafe ==
  ASSUME ListInv, NEW part \in Part, NEW b \in BOOLEAN, AddContent(part, b)
  PROVE  ListInv'
<1>1. /\ level' = level /\ walk' = walk /\ strayed' = strayed /\ calls' \in 0 .. MaxCalls
  BY Counted DEF AddContent
<1>2. PICK n \in Nodes(part.path, part.content, b, part.level, <<>>) : list' = Append(list, n)
  BY DEF AddContent
<1>3. part.path \in Tree /\ part.content \in Content /\ part.level \in Int /\ <<>> \in Tree \cup {<<>>}
  BY ArchiveConstants
<1>4. n \in Entry /\ Named(n)
  BY <1>3, EntryMade
<1>5. list' \in Seq(Entry) /\ (~strayed => AllNamed(list'))
  BY <1>2, <1>4, EntryAdded DEF ListInv
<1>6. QED  BY <1>1, <1>5 DEF ListInv

\* A file in a directory: the level is the depth, so the name begins at the root.
LEMMA WalkFileSafe ==
  ASSUME ListInv, WalkFile
  PROVE  ListInv'
<1> DEFINE p == Head(Top.left)
<1>1. walk # <<>> /\ Top.left # <<>> /\ ~IsDir(p) /\ Walking(walk)
  BY DEF WalkFile, ListInv
<1>2. /\ level' = level /\ strayed' = strayed /\ calls' = calls /\ walk' = Onward
  BY DEF WalkFile
<1>3. /\ p \in Tree /\ Len(p) = Len(Top.dir) + 0
      /\ Walking(walk') /\ Len(walk') = Len(walk)
  BY <1>1, <1>2, NextPath
<1>4. /\ Top \in FrameSet /\ Below(Top, Len(walk) - 1) /\ Len(walk) \in Nat /\ Len(walk) >= 1
  BY <1>1, WalkTop
<1>5. Top.root \in Tree /\ Top.root \in Tree \cup {<<>>} /\ Top.compress \in BOOLEAN /\ Top.dir \in Tree
  BY <1>4 DEF FrameSet
<1>6. PICK n \in Nodes(p, Stored(p), Top.compress, level, Top.root) : list' = Append(list, n)
  BY DEF WalkFile
<1> HIDE DEF p
<1>7. ~strayed => KeptFrom(p, level) = FirstOf(Top.root)
  <2> SUFFICES ASSUME ~strayed PROVE KeptFrom(p, level) = FirstOf(Top.root)
    OBVIOUS
  <2> DEFINE depth == Len(walk) - 1
  <2>1. depth \in Nat /\ depth + 1 = Len(walk)
    BY <1>4
  <2>2. IsDir(Top.root) /\ Len(Top.dir) = Len(Top.root) + depth
    BY <1>4 DEF Below
  <2> HIDE DEF depth
  <2>3. Len(p) = Len(Top.root) + depth
    <3>1. Len(Top.root) \in Nat /\ Len(Top.dir) \in Nat  BY <1>5, PathLength
    <3>2. QED  BY <1>3, <2>1, <2>2, <3>1
  <2>4. KeptFrom(p, depth + 1) = FirstOf(Top.root)
    BY <1>3, <1>5, <2>1, <2>2, <2>3, KeptBelow
  <2>5. level = depth + 1
    BY <2>1 DEF ListInv
  <2>6. QED  BY <2>4, <2>5
<1>8. Stored(p) \in Content /\ level \in Int
  BY <1>3, ArchiveConstants DEF ListInv
<1>9. n \in Entry /\ (~strayed => Named(n))
  BY <1>3, <1>5, <1>7, <1>8, EntryMade
<1>10. list' \in Seq(Entry) /\ (~strayed => AllNamed(list'))
  BY <1>6, <1>9, EntryAdded DEF ListInv
<1>11. QED  BY <1>2, <1>3, <1>10 DEF ListInv

\* A directory in a directory.
LEMMA WalkIntoSafe ==
  ASSUME ListInv, WalkInto
  PROVE  ListInv'
<1> DEFINE p == Head(Top.left)
           f == Frame(p, Top.compress, Top.root)
<1>1. walk # <<>> /\ Top.left # <<>> /\ IsDir(p) /\ Walking(walk)
  BY DEF WalkInto, ListInv
<1>2. /\ level' = level + 1 /\ list' = list /\ strayed' = strayed /\ calls' = calls
      /\ walk' = <<f>> \o Onward
  BY DEF WalkInto
<1>3. p \in Tree /\ Len(p) = Len(Top.dir) + 1 /\ Walking(Onward) /\ Len(Onward) = Len(walk)
  BY <1>1, NextPath
<1>4. /\ Top \in FrameSet /\ Below(Top, Len(walk) - 1) /\ Len(walk) \in Nat /\ Len(walk) >= 1
  BY <1>1, WalkTop
<1>5. Top.root \in Tree /\ Top.compress \in BOOLEAN /\ Top.dir \in Tree
  BY <1>4 DEF FrameSet
<1>6. IsDir(Top.root) /\ Len(Top.dir) = Len(Top.root) + (Len(walk) - 1)
  BY <1>4 DEF Below
<1> HIDE DEF p
<1>7. Len(p) = Len(Top.root) + Len(walk)
  <2>1. Len(Top.root) \in Nat /\ Len(Top.dir) \in Nat  BY <1>5, PathLength
  <2>2. QED  BY <1>3, <1>4, <1>6, <2>1
<1>8. f \in FrameSet /\ Below(f, Len(walk))
  BY <1>1, <1>3, <1>4, <1>5, <1>6, <1>7, FrameMade
<1> HIDE DEF f
<1>9. Walking(walk') /\ Len(walk') = Len(walk) + 1
  BY <1>2, <1>3, <1>8, WalkedInto
<1>10. level' \in Nat /\ Len(walk') <= level' /\ (~strayed => level' = Len(walk'))
  BY <1>2, <1>4, <1>9 DEF ListInv
<1>11. QED  BY <1>2, <1>9, <1>10 DEF ListInv

\* A directory that is left halfway: from here on no name is promised.
LEMMA WalkLeavesSafe ==
  ASSUME ListInv, WalkLeaves
  PROVE  ListInv'
<1>1. walk' = <<>> /\ strayed' = TRUE /\ level' = level /\ list' = list /\ calls' = calls
  BY DEF WalkLeaves
<1>2. Walking(walk') /\ Len(walk') = 0
  BY <1>1, NoWalk
<1>3. level' \in Nat /\ Len(walk') <= level'
  BY <1>1, <1>2 DEF ListInv
<1>4. QED  BY <1>1, <1>2, <1>3 DEF ListInv

\* The end of a directory; an empty one becomes an entry.
LEMMA WalkReturnsSafe ==
  ASSUME ListInv, WalkReturns
  PROVE  ListInv'
<1>1. walk # <<>> /\ Walking(walk)
  BY DEF WalkReturns, ListInv
<1>2. /\ level' = level - 1 /\ strayed' = strayed /\ calls' = calls /\ walk' = Tail(walk)
  BY DEF WalkReturns, LevelAbove
<1>3. /\ Top \in FrameSet /\ Below(Top, Len(walk) - 1) /\ Len(walk) \in Nat /\ Len(walk) >= 1
      /\ Walking(walk') /\ Len(walk') = Len(walk) - 1
  BY <1>1, <1>2, WalkTop
<1>4. Top.root \in Tree \cup {<<>>} /\ Top.compress \in BOOLEAN /\ Top.dir \in Tree
  BY <1>3 DEF FrameSet
<1>5. IsDir(Top.dir)
  BY <1>3 DEF Below
<1>6. list' \in Seq(Entry) /\ (~strayed => AllNamed(list'))
  <2>1. CASE list' = list
    BY <2>1 DEF ListInv
  <2>2. CASE \E n \in Nodes(Top.dir, Empty, Top.compress, LevelAbove, Top.root) : list' = Append(list, n)
    <3>1. PICK n \in Nodes(Top.dir, Empty, Top.compress, LevelAbove, Top.root) : list' = Append(list, n)
      BY <2>2
    <3>2. LevelAbove \in Int /\ Empty \in Content
      BY ArchiveConstants DEF LevelAbove, ListInv
    <3>3. n \in Entry /\ Named(n)
      BY <1>4, <1>5, <3>2, EntryMade
    <3>4. QED  BY <3>1, <3>3, EntryAdded DEF ListInv
  <2>3. QED  BY <2>1, <2>2 DEF WalkReturns
<1>7. level' \in Nat /\ Len(walk') <= level' /\ (~strayed => level' = Len(walk'))
  BY <1>2, <1>3 DEF ListInv
<1>8. QED  BY <1>2, <1>3, <1>6, <1>7 DEF ListInv

\* A file taken out.
LEMMA RemoveFileSafe ==
  ASSUME ListInv, NEW p \in Path, RemoveFile(p)
  PROVE  ListInv'
<1>1. list' = Removed(p) /\ Matches(p) # {} /\ list \in Seq(Entry)
  BY DEF RemoveFile, Removable, ListInv
<1>2. list' \in Seq(Entry) /\ (~strayed => AllNamed(list'))
  BY <1>1, EntryRemoved DEF ListInv
<1>3. level' = level /\ walk' = walk /\ strayed' = strayed /\ calls' \in 0 .. MaxCalls
  BY Counted DEF RemoveFile
<1>4. QED  BY <1>2, <1>3 DEF ListInv

\* A file taken out and another added.
LEMMA ReplaceFileSafe ==
  ASSUME ListInv, NEW old \in Path, NEW new \in Path, NEW b \in BOOLEAN, ReplaceFile(old, new, b)
  PROVE  ListInv'
<1>1. Matches(old) # {} /\ list \in Seq(Entry)
  BY DEF ReplaceFile, Removable, ListInv
<1>2. Removed(old) \in Seq(Entry) /\ (~strayed => AllNamed(Removed(old)))
  BY <1>1, EntryRemoved DEF ListInv
<1>3. QED  BY <1>2, StartAddSafe DEF ReplaceFile

\* All taken out.
LEMMA ResetSafe ==
  ASSUME ListInv, Reset
  PROVE  ListInv'
<1>1. list' = <<>> /\ level' = level /\ walk' = walk /\ strayed' = strayed /\ calls' \in 0 .. MaxCalls
  BY Counted DEF Reset
<1>2. list' \in Seq(Entry) /\ AllNamed(list')
  BY <1>1, EmptySeq DEF AllNamed
<1>3. QED  BY <1>1, <1>2 DEF ListInv

-----------------------------------------------------------------------------
\* The pieces a file can have.
Piece ==
  {Local(n) : n \in Entry} \cup {DataPiece(n) : n \in Entry} \cup {Descriptor}
    \cup {Central(n, o) : n \in Entry, o \in Nat}
    \cup {[kind |-> "end", size |-> EndSize, entries |-> c, directory |-> d, offset |-> o] :
            c \in Nat, d \in Nat, o \in Nat}

\* u is three sequences, one behind the other.
InARow(u, a, x, y, S) ==
  /\ u \in Seq(S) /\ Len(u) = Len(a) + Len(x) + Len(y)
  /\ \A k \in 1 .. Len(a) : u[k] = a[k]
  /\ \A k \in 1 .. Len(x) : u[Len(a) + k] = x[k]
  /\ \A k \in 1 .. Len(y) : u[Len(a) + Len(x) + k] = y[k]

\* So are three that are joined.
LEMMA ThreeJoined ==
  ASSUME NEW S, NEW a \in Seq(S), NEW x \in Seq(S), NEW y \in Seq(S)
  PROVE  InARow(a \o x \o y, a, x, y, S)
<1>1. /\ a \o x \in Seq(S) /\ Len(a \o x) = Len(a) + Len(x)
      /\ \A k \in 1 .. Len(a) + Len(x) : (a \o x)[k] = IF k <= Len(a) THEN a[k] ELSE x[k - Len(a)]
  BY Concatenated, Zenon
<1> DEFINE u == a \o x
           z == u \o y
           l == Len(a)
           m == Len(x)
<1>2. l \in Nat /\ m \in Nat /\ Len(y) \in Nat
  OBVIOUS
<1> HIDE DEF u
<1>3. u \in Seq(S) /\ Len(u) = l + m
  BY <1>1 DEF u
<1>4. /\ z \in Seq(S) /\ Len(z) = Len(u) + Len(y)
      /\ \A k \in 1 .. Len(u) + Len(y) : z[k] = IF k <= Len(u) THEN u[k] ELSE y[k - Len(u)]
  <2>1. u \in Seq(S)  BY <1>3
  <2>2. QED  BY <2>1, Concatenated, Zenon
<1> HIDE DEF z, l, m
<1>5. \A k \in 1 .. l : z[k] = a[k]
  <2> TAKE k \in 1 .. l
  <2>1. k \in 1 .. l + m /\ k <= l + m /\ k \in 1 .. (l + m) + Len(y) /\ k <= l
    BY <1>2
  <2>2. z[k] = u[k] /\ u[k] = a[k]
    BY <1>1, <1>3, <1>4, <2>1 DEF u, l, m
  <2>3. QED  BY <2>2
<1>6. \A k \in 1 .. m : z[l + k] = x[k]
  <2> TAKE k \in 1 .. m
  <2>1. /\ l + k \in 1 .. l + m /\ l + k <= l + m /\ l + k \in 1 .. (l + m) + Len(y)
        /\ ~(l + k <= l) /\ (l + k) - l = k
    BY <1>2
  <2>2. z[l + k] = u[l + k]
    BY <1>3, <1>4, <2>1
  <2>3. u[l + k] = x[(l + k) - l]
    BY <1>1, <2>1 DEF u, l, m
  <2>4. QED  BY <2>1, <2>2, <2>3
<1>7. \A k \in 1 .. Len(y) : z[l + m + k] = y[k]
  <2> TAKE k \in 1 .. Len(y)
  <2>1. /\ l + m + k \in 1 .. (l + m) + Len(y) /\ ~(l + m + k <= l + m)
        /\ (l + m + k) - (l + m) = k
    BY <1>2
  <2>2. z[l + m + k] = y[(l + m + k) - (l + m)]
    BY <1>3, <1>4, <2>1
  <2>3. QED  BY <2>1, <2>2
<1>8. Len(z) = l + m + Len(y)
  BY <1>2, <1>3, <1>4
<1>9. InARow(z, a, x, y, S)
  BY <1>4, <1>5, <1>6, <1>7, <1>8 DEF l, m, InARow
<1>10. QED  BY <1>9 DEF z, u

\* The pieces of an entry: a header, data unless it has none, and a descriptor
\* if one before it or it itself is deflated.
LEMMA EntryShape ==
  ASSUME list \in Seq(Entry), NEW i \in 1 .. Len(list)
  PROVE  LET n == list[i]
             u == EntryPieces(i)
             d == IF n.data.form = "none" THEN 0 ELSE 1
             e == IF Described(i) THEN 1 ELSE 0
         IN  /\ u \in Seq(Piece) /\ Len(u) = 1 + d + e /\ u[1] = Local(n)
             /\ d = 1 => u[2] = DataPiece(n)
             /\ e = 1 => u[1 + d + 1] = Descriptor
<1> DEFINE n == list[i]
           x == IF n.data.form = "none" THEN <<>> ELSE <<DataPiece(n)>>
           y == IF Described(i) THEN <<Descriptor>> ELSE <<>>
           d == IF n.data.form = "none" THEN 0 ELSE 1
           e == IF Described(i) THEN 1 ELSE 0
           a == <<Local(n)>>
           u == a \o x \o y
<1>1. n \in Entry
  OBVIOUS
<1>2. Local(n) \in Piece /\ DataPiece(n) \in Piece /\ Descriptor \in Piece
  BY <1>1 DEF Piece
<1>3. a \in Seq(Piece) /\ Len(a) = 1 /\ a[1] = Local(n)
  BY <1>2
<1>4. x \in Seq(Piece) /\ Len(x) = d /\ (d = 1 => x[1] = DataPiece(n))
  <2>1. CASE n.data.form = "none"
    <3>1. <<>> \in Seq(Piece)  BY EmptySeq
    <3>2. QED  BY <2>1, <3>1
  <2>2. CASE n.data.form # "none"
    BY <1>2, <2>2
  <2>3. QED  BY <2>1, <2>2
<1>5. y \in Seq(Piece) /\ Len(y) = e /\ (e = 1 => y[1] = Descriptor)
  <2>1. CASE ~Described(i)
    <3>1. <<>> \in Seq(Piece)  BY EmptySeq
    <3>2. QED  BY <2>1, <3>1
  <2>2. CASE Described(i)
    BY <1>2, <2>2
  <2>3. QED  BY <2>1, <2>2
<1>6. EntryPieces(i) = u
  BY DEF EntryPieces
<1>7. d \in {0, 1} /\ e \in {0, 1}
  OBVIOUS
<1> HIDE DEF a, x, y, d, e
<1>8. /\ u \in Seq(Piece) /\ Len(u) = Len(a) + Len(x) + Len(y)
      /\ \A k \in 1 .. Len(a) : u[k] = a[k]
      /\ \A k \in 1 .. Len(x) : u[Len(a) + k] = x[k]
      /\ \A k \in 1 .. Len(y) : u[Len(a) + Len(x) + k] = y[k]
  <2>1. a \in Seq(Piece) /\ x \in Seq(Piece) /\ y \in Seq(Piece)  BY <1>3, <1>4, <1>5
  <2>2. InARow(u, a, x, y, Piece)  BY <2>1, ThreeJoined, Zenon
  <2>3. QED  BY <2>2 DEF InARow
<1> HIDE DEF u
<1>9. u[1] = Local(n) /\ Len(u) = 1 + d + e
  BY <1>3, <1>4, <1>5, <1>8
<1>10. d = 1 => u[2] = DataPiece(n)
  BY <1>3, <1>4, <1>8
<1>11. e = 1 => u[1 + d + 1] = Descriptor
  BY <1>3, <1>4, <1>5, <1>8
<1>12. QED  BY <1>6, <1>8, <1>9, <1>10, <1>11 DEF d, e

-----------------------------------------------------------------------------
\* The pieces of the entries, and where those of the next entry begin; what the
\* offset grows by, and the sizes of the directory.
Bodies   == [i \in 1 .. Len(list) |-> EntryPieces(i)]
Start    == Sums(Lengths(Bodies))
Advances == [i \in 1 .. Len(list) |-> Advance(i)]
DirSizes == [i \in 1 .. Len(list) |-> CentralSize + NameSize(list[i].name)]

\* The numbers of an entry.
LEMMA EntryNumbers ==
  ASSUME list \in Seq(Entry), NEW i \in 1 .. Len(list)
  PROVE  /\ list[i] \in Entry /\ NameSize(list[i].name) \in Nat /\ list[i].data.size \in Nat
         /\ Advance(i) \in Nat /\ EntryPieces(i) \in Seq(Piece)
         /\ list[i].data.form = "none" => list[i].data.size = 0
<1>1. list[i] \in Entry
  OBVIOUS
<1>2. /\ NameSize(list[i].name) \in Nat /\ list[i].content \in Content /\ list[i].compress \in BOOLEAN
      /\ list[i].data \in Data(list[i].content, list[i].compress)
  BY <1>1, EntryFacts
<1>3. /\ Size(list[i].content) \in Nat /\ list[i].data.size \in 0 .. Size(list[i].content)
      /\ Size(list[i].content) = 0 => list[i].data.size = 0
      /\ Size(list[i].content) > 0 => list[i].data.form # "none"
  BY <1>2, DataFacts
<1>4. list[i].data.size \in Nat
  BY <1>3
<1>5. Advance(i) \in Nat
  BY <1>2, <1>4 DEF Advance, LocalSize, DescriptorSize
<1>6. EntryPieces(i) \in Seq(Piece)
  BY EntryShape
<1>7. QED  BY <1>1, <1>2, <1>3, <1>4, <1>5, <1>6

\* Places, offsets and sizes are sums.
LEMMA ListSums ==
  ASSUME list \in Seq(Entry)
  PROVE  /\ Len(list) \in Nat
         /\ Bodies \in Seq(Seq(Piece)) /\ Len(Bodies) = Len(list)
         /\ SumsUp(Start, Lengths(Bodies))
         /\ Advances \in Seq(Nat) /\ Len(Advances) = Len(list) /\ SumsUp(Offset, Advances)
         /\ DirSizes \in Seq(Nat) /\ Len(DirSizes) = Len(list) /\ SumsUp(Sums(DirSizes), DirSizes)
<1> DEFINE n == Len(list)
<1>1. n \in Nat
  OBVIOUS
<1>2. Bodies \in Seq(Seq(Piece)) /\ Len(Bodies) = n
  <2>1. \A i \in 1 .. n : EntryPieces(i) \in Seq(Piece)
    BY EntryNumbers
  <2>2. QED  BY <1>1, <2>1 DEF Bodies
<1>3. Lengths(Bodies) \in Seq(Nat)
  <2>1. \A i \in 1 .. Len(Bodies) : Len(Bodies[i]) \in Nat
    <3>1. \A i \in 1 .. Len(Bodies) : Bodies[i] \in Seq(Piece)  BY <1>2
    <3>2. QED  BY <3>1
  <2>2. QED  BY <1>1, <1>2, <2>1 DEF Lengths
<1>4. SumsUp(Start, Lengths(Bodies))
  BY <1>3, SumsAre DEF Start
<1>5. Advances \in Seq(Nat) /\ Len(Advances) = n
  <2>1. \A i \in 1 .. n : Advance(i) \in Nat
    BY EntryNumbers
  <2>2. QED  BY <1>1, <2>1 DEF Advances
<1>6. SumsUp(Offset, Advances)
  BY <1>5, SumsAre DEF Offset, Advances
<1>7. DirSizes \in Seq(Nat) /\ Len(DirSizes) = n
  <2>1. \A i \in 1 .. n : CentralSize + NameSize(list[i].name) \in Nat
    BY EntryNumbers DEF CentralSize
  <2>2. QED  BY <1>1, <2>1 DEF DirSizes
<1>8. SumsUp(Sums(DirSizes), DirSizes)
  BY <1>7, SumsAre
<1>9. QED  BY <1>1, <1>2, <1>4, <1>5, <1>6, <1>7, <1>8

\* The places and offsets one by one.
LEMMA ListSteps ==
  ASSUME list \in Seq(Entry)
  PROVE  /\ Start[0] = 0 /\ Offset[0] = 0 /\ Sums(DirSizes)[0] = 0
         /\ \A i \in 0 .. Len(list) :
               Start[i] \in Nat /\ Offset[i] \in Nat /\ Sums(DirSizes)[i] \in Nat
         /\ \A i \in 1 .. Len(list) :
               /\ i - 1 \in 0 .. Len(list) /\ i \in 0 .. Len(list)
               /\ Start[i] = Start[i - 1] + Len(EntryPieces(i))
               /\ Offset[i] = Offset[i - 1] + Advance(i)
               /\ Sums(DirSizes)[i] = Sums(DirSizes)[i - 1] + (CentralSize + NameSize(list[i].name))
<1> DEFINE n == Len(list)
           D == Sums(DirSizes)
<1>1. n \in Nat /\ \A i \in 1 .. n : i - 1 \in 0 .. n /\ i \in 0 .. n
  OBVIOUS
<1>2. /\ Start[0] = 0 /\ \A i \in 0 .. n : Start[i] \in Nat
      /\ \A i \in 1 .. n : Start[i] = Start[i - 1] + Len(EntryPieces(i))
  <2>1. /\ Bodies \in Seq(Seq(Piece)) /\ Len(Bodies) = n /\ SumsUp(Start, Lengths(Bodies))
    BY ListSums
  <2>2. /\ Start[0] = 0 /\ \A i \in 0 .. Len(Bodies) : Start[i] \in Nat
        /\ \A i \in 1 .. Len(Bodies) : Start[i] = Start[i - 1] + Len(Bodies[i])
    BY <2>1, LengthSums
  <2>3. \A i \in 1 .. n : Bodies[i] = EntryPieces(i)
    BY DEF Bodies
  <2>4. QED  BY <2>1, <2>2, <2>3
<1>3. /\ Offset[0] = 0 /\ \A i \in 0 .. n : Offset[i] \in Nat
      /\ \A i \in 1 .. n : Offset[i] = Offset[i - 1] + Advance(i)
  <2>1. /\ Len(Advances) = n /\ SumsUp(Offset, Advances)
    BY ListSums
  <2>2. Offset \in [0 .. n -> Nat] /\ Offset[0] = 0 /\ \A i \in 1 .. n : Offset[i] = Offset[i - 1] + Advances[i]
    BY <2>1 DEF SumsUp
  <2>3. \A i \in 1 .. n : Advances[i] = Advance(i)
    BY DEF Advances
  <2> HIDE DEF n
  <2>4. QED  BY <2>2, <2>3
<1>4. /\ D[0] = 0 /\ \A i \in 0 .. n : D[i] \in Nat
      /\ \A i \in 1 .. n : D[i] = D[i - 1] + (CentralSize + NameSize(list[i].name))
  <2>1. /\ Len(DirSizes) = n /\ SumsUp(D, DirSizes)
    BY ListSums
  <2> HIDE DEF D
  <2>2. D \in [0 .. n -> Nat] /\ D[0] = 0 /\ \A i \in 1 .. n : D[i] = D[i - 1] + DirSizes[i]
    BY <2>1 DEF SumsUp
  <2>3. \A i \in 1 .. n : DirSizes[i] = CentralSize + NameSize(list[i].name)
    BY DEF DirSizes
  <2> HIDE DEF n
  <2>4. QED  BY <2>2, <2>3
<1>5. QED  BY <1>1, <1>2, <1>3, <1>4

\* The file as it is written.
LaidOut(file) ==
  LET n == Len(list)
  IN  /\ file \in Seq(Piece) /\ Len(file) = Start[n] + n + 1
      /\ \A i \in 1 .. n : \A m \in 1 .. Len(EntryPieces(i)) :
            file[Start[i - 1] + m] = EntryPieces(i)[m]
      /\ \A j \in 1 .. n : file[Start[n] + j] = Central(list[j], Offset[j - 1])
      /\ file[Start[n] + n + 1] = EndRecord(Offset)

\* WriteToFile lays the file out in this way.
LEMMA PiecesLaidOut ==
  ASSUME list \in Seq(Entry)
  PROVE  LaidOut(Pieces)
<1> DEFINE n == Len(list)
           f == FlattenSeq(Bodies)
           h == [i \in 1 .. n |-> Central(list[i], Offset[i - 1])]
           e == EndRecord(Offset)
           t == <<e>>
           file == f \o h \o t
<1>1. Pieces = file
  BY DEF Pieces, Bodies
<1>2. /\ Bodies \in Seq(Seq(Piece)) /\ Len(Bodies) = n /\ SumsUp(Start, Lengths(Bodies)) /\ n \in Nat
  BY ListSums
<1>3. Strung(f, Bodies, Start, n, Piece)
  BY <1>2, Flattened
<1>4. f \in Seq(Piece) /\ Len(f) = Start[n]
  BY <1>3 DEF Strung
<1>5. \A i \in 1 .. n : \A m \in 1 .. Len(EntryPieces(i)) : f[Start[i - 1] + m] = EntryPieces(i)[m]
  <2>1. \A i \in 1 .. n : Bodies[i] = EntryPieces(i)
    BY DEF Bodies
  <2>2. QED  BY <1>3, <2>1 DEF Strung
<1>6. h \in Seq(Piece) /\ Len(h) = n /\ \A j \in 1 .. n : h[j] = Central(list[j], Offset[j - 1])
  <2>1. \A i \in 1 .. n : Central(list[i], Offset[i - 1]) \in Piece
    <3> TAKE i \in 1 .. n
    <3>1. list[i] \in Entry /\ Offset[i - 1] \in Nat
      BY EntryNumbers, ListSteps
    <3>2. QED  BY <3>1 DEF Piece
  <2>2. QED  BY <1>2, <2>1
<1>7. e \in Piece
  <2>1. n \in 0 .. n
    BY <1>2
  <2>2. Offset[n] \in Nat /\ DirectorySize \in Nat
    BY <2>1, ListSteps DEF DirectorySize, DirSizes
  <2>3. e = [kind |-> "end", size |-> EndSize, entries |-> n, directory |-> DirectorySize, offset |-> Offset[n]]
    BY DEF EndRecord
  <2>4. QED  BY <1>2, <2>2, <2>3 DEF Piece
<1> HIDE DEF f, h, e
<1>8. t \in Seq(Piece) /\ Len(t) = 1 /\ t[1] = e
  BY <1>7
<1> HIDE DEF t
<1>9. InARow(file, f, h, t, Piece)
  <2>1. f \in Seq(Piece) /\ h \in Seq(Piece) /\ t \in Seq(Piece)  BY <1>4, <1>6, <1>8
  <2>2. QED  BY <2>1, ThreeJoined, Zenon
<1> HIDE DEF file
<1>10. file \in Seq(Piece) /\ Len(file) = Start[n] + n + 1
  BY <1>4, <1>6, <1>8, <1>9 DEF InARow
<1>11. \A i \in 1 .. n : \A m \in 1 .. Len(EntryPieces(i)) : file[Start[i - 1] + m] = EntryPieces(i)[m]
  <2> TAKE i \in 1 .. n
  <2> TAKE m \in 1 .. Len(EntryPieces(i))
  <2>1. Start[i - 1] + m \in 1 .. Len(f)
    <3>1. Start[i] <= Start[n]
      <4>1. i \in 0 .. n /\ n \in 0 .. n /\ i <= n  BY <1>2
      <4>2. Lengths(Bodies) \in Seq(Nat) /\ Len(Lengths(Bodies)) = n
        BY <1>2, LengthSums
      <4>3. QED  BY <1>2, <4>1, <4>2, SumsGrow
    <3>2. /\ Start[i] = Start[i - 1] + Len(EntryPieces(i)) /\ Start[i - 1] \in Nat /\ Start[i] \in Nat
      BY ListSteps
    <3>3. EntryPieces(i) \in Seq(Piece)  BY EntryNumbers
    <3>4. Len(EntryPieces(i)) \in Nat  BY <3>3
    <3>5. Start[n] \in Nat
      <4>1. n \in 0 .. n  BY <1>2
      <4>2. QED  BY <4>1, ListSteps
    <3>6. QED  BY <1>4, <3>1, <3>2, <3>4, <3>5
  <2>2. file[Start[i - 1] + m] = f[Start[i - 1] + m]
    BY <1>9, <2>1 DEF InARow
  <2>3. QED  BY <1>5, <2>2
<1>12. \A j \in 1 .. n : file[Start[n] + j] = Central(list[j], Offset[j - 1])
  BY <1>4, <1>6, <1>9 DEF InARow
<1>13. file[Start[n] + n + 1] = e
  BY <1>4, <1>6, <1>8, <1>9 DEF InARow
<1>14. QED  BY <1>1, <1>10, <1>11, <1>12, <1>13 DEF LaidOut, e

-----------------------------------------------------------------------------
\* What is known of a piece.
LEMMA PieceFacts ==
  ASSUME NEW p \in Piece
  PROVE  p.size \in Nat /\ (p.kind # "data" => p.size > 0)
<1>1. CASE \E n \in Entry : p = Local(n)
  <2>1. PICK n \in Entry : p = Local(n)  BY <1>1
  <2>2. NameSize(n.name) \in Nat  BY EntryFacts
  <2>3. QED  BY <2>1, <2>2 DEF Local, LocalSize
<1>2. CASE \E n \in Entry : p = DataPiece(n)
  <2>1. PICK n \in Entry : p = DataPiece(n)  BY <1>2
  <2>2. /\ n.content \in Content /\ n.compress \in BOOLEAN /\ n.data \in Data(n.content, n.compress)
    BY EntryFacts
  <2>3. Size(n.content) \in Nat /\ n.data.size \in 0 .. Size(n.content)
    BY <2>2, DataFacts
  <2>4. p.size = n.data.size /\ p.kind = "data"
    BY <2>1 DEF DataPiece
  <2>5. QED  BY <2>3, <2>4
<1>3. CASE p = Descriptor
  BY <1>3 DEF Descriptor, DescriptorSize
<1>4. CASE \E n \in Entry, o \in Nat : p = Central(n, o)
  <2>1. PICK n \in Entry, o \in Nat : p = Central(n, o)  BY <1>4
  <2>2. NameSize(n.name) \in Nat  BY EntryFacts
  <2>3. QED  BY <2>1, <2>2 DEF Central, CentralSize
<1>5. CASE \E c \in Nat, d \in Nat, o \in Nat :
             p = [kind |-> "end", size |-> EndSize, entries |-> c, directory |-> d, offset |-> o]
  BY <1>5 DEF EndSize
<1>6. QED  BY <1>1, <1>2, <1>3, <1>4, <1>5 DEF Piece

\* The sizes of the pieces of a file.
PieceSizes(file) == [i \in 1 .. Len(file) |-> file[i].size]

\* Where pieces end is the sum of their sizes.
LEMMA EndsAdd ==
  ASSUME NEW file \in Seq(Piece)
  PROVE  /\ Len(file) \in Nat /\ PieceEnds(file)[0] = 0
         /\ PieceSizes(file) \in Seq(Nat) /\ Len(PieceSizes(file)) = Len(file)
         /\ SumsUp(PieceEnds(file), PieceSizes(file))
         /\ \A x \in 0 .. Len(file) : PieceEnds(file)[x] \in Nat
         /\ \A x \in 1 .. Len(file) :
               /\ x - 1 \in 0 .. Len(file) /\ x \in 0 .. Len(file)
               /\ file[x] \in Piece /\ file[x].size \in Nat
               /\ PieceEnds(file)[x] = PieceEnds(file)[x - 1] + file[x].size
<1> DEFINE e == PieceEnds(file)
           n == Len(file)
<1>1. n \in Nat /\ \A x \in 1 .. n : x - 1 \in 0 .. n /\ x \in 0 .. n /\ file[x] \in Piece
  OBVIOUS
<1>2. \A x \in 1 .. n : file[x].size \in Nat
  BY <1>1, PieceFacts
<1>3. PieceSizes(file) \in Seq(Nat) /\ Len(PieceSizes(file)) = n
  BY <1>1, <1>2 DEF PieceSizes
<1>4. SumsUp(e, PieceSizes(file))
  BY <1>3, SumsAre DEF PieceEnds, PieceSizes
<1>5. \A x \in 1 .. n : PieceSizes(file)[x] = file[x].size
  BY DEF PieceSizes
<1> HIDE DEF e
<1>6. e \in [0 .. n -> Nat] /\ e[0] = 0 /\ \A x \in 1 .. n : e[x] = e[x - 1] + file[x].size
  BY <1>3, <1>4, <1>5 DEF SumsUp
<1> HIDE DEF n
<1>7. \A x \in 0 .. n : e[x] \in Nat
  BY <1>6
<1>8. QED  BY <1>1, <1>2, <1>3, <1>4, <1>6, <1>7 DEF e, n

\* A reader that follows the offset of a piece finds that piece.
LEMMA PieceFound ==
  ASSUME NEW file \in Seq(Piece), NEW x \in 1 .. Len(file), file[x].size > 0
  PROVE  PieceAt(file, PieceEnds(file)[x - 1]) = [kind |-> file[x].kind, index |-> x]
<1> DEFINE e == PieceEnds(file)
           n == Len(file)
           at == {i \in 1 .. n : file[i].size > 0 /\ e[i - 1] = e[x - 1]}
<1>1. /\ n \in Nat /\ PieceSizes(file) \in Seq(Nat) /\ Len(PieceSizes(file)) = n
      /\ SumsUp(e, PieceSizes(file))
  BY EndsAdd
<1>2. \A i \in 1 .. n : /\ i - 1 \in 0 .. n /\ i \in 0 .. n /\ e[i] \in Nat /\ e[i - 1] \in Nat
                        /\ file[i].size \in Nat /\ e[i] = e[i - 1] + file[i].size
  BY EndsAdd
<1> HIDE DEF e
<1>3. \A i, j \in 1 .. n : i < j => e[i] <= e[j - 1]
  <2> TAKE i, j \in 1 .. n
  <2> SUFFICES ASSUME i < j PROVE e[i] <= e[j - 1]
    OBVIOUS
  <2>1. i <= j - 1 /\ i \in 0 .. n /\ j - 1 \in 0 .. n  BY <1>1
  <2>2. QED  BY <1>1, <2>1, SumsGrow
<1>4. x \in at
  OBVIOUS
<1>5. \A i \in at : i = x
  <2> SUFFICES ASSUME NEW i \in at, i # x PROVE FALSE
    OBVIOUS
  <2>1. i \in 1 .. n /\ file[i].size > 0 /\ e[i - 1] = e[x - 1]
    OBVIOUS
  <2>2. i < x \/ x < i
    BY <2>1
  <2>3. CASE i < x
    <3>1. e[i] <= e[x - 1]  BY <1>3, <2>1, <2>3
    <3>2. e[i] = e[i - 1] + file[i].size /\ e[i - 1] \in Nat /\ file[i].size \in Nat  BY <1>2, <2>1
    <3>3. QED  BY <2>1, <3>1, <3>2
  <2>4. CASE x < i
    <3>1. e[x] <= e[i - 1]  BY <1>3, <2>1, <2>4
    <3>2. e[x] = e[x - 1] + file[x].size /\ e[x - 1] \in Nat /\ file[x].size \in Nat  BY <1>2
    <3>3. QED  BY <2>1, <3>1, <3>2
  <2>5. QED  BY <2>2, <2>3, <2>4
<1>6. at = {x}
  BY <1>4, <1>5
<1>7. PieceAt(file, e[x - 1]) = IF at = {} THEN [kind |-> "nothing", index |-> 0]
        ELSE LET i == CHOOSE i \in at : TRUE IN [kind |-> file[i].kind, index |-> i]
  BY DEF PieceAt, e
<1> HIDE DEF at
<1>8. (CHOOSE i \in at : TRUE) = x /\ at # {}
  BY <1>6
<1>9. QED  BY <1>7, <1>8 DEF e

-----------------------------------------------------------------------------
\* Where the entries lie among the pieces.
LEMMA Places ==
  ASSUME list \in Seq(Entry)
  PROVE  /\ Len(list) \in Nat /\ \A i \in 0 .. Len(list) : Start[i] \in Nat
         /\ Start[Len(list)] \in Nat
         /\ \A i \in 1 .. Len(list) :
               /\ Start[i - 1] \in Nat /\ Start[i] \in Nat /\ Len(EntryPieces(i)) \in Nat
               /\ Start[i - 1] + 1 <= Start[i] /\ Start[i] <= Start[Len(list)]
               /\ Start[i] = Start[i - 1] + Len(EntryPieces(i))
         /\ \A i, j \in 1 .. Len(list) : i < j => Start[i] <= Start[j - 1]
<1> DEFINE n == Len(list)
<1>1. n \in Nat /\ n \in 0 .. n
  OBVIOUS
<1>2. \A i \in 0 .. n : Start[i] \in Nat
  BY ListSteps
<1>3. /\ Bodies \in Seq(Seq(Piece)) /\ Len(Bodies) = n /\ SumsUp(Start, Lengths(Bodies))
      /\ Lengths(Bodies) \in Seq(Nat) /\ Len(Lengths(Bodies)) = n
  <2>1. /\ Bodies \in Seq(Seq(Piece)) /\ Len(Bodies) = n /\ SumsUp(Start, Lengths(Bodies))
    BY ListSums
  <2>2. QED  BY <2>1, LengthSums
<1>4. ASSUME NEW i \in 1 .. n
      PROVE  /\ Start[i - 1] \in Nat /\ Start[i] \in Nat /\ Len(EntryPieces(i)) \in Nat
             /\ Start[i - 1] + 1 <= Start[i] /\ Start[i] <= Start[n]
             /\ Start[i] = Start[i - 1] + Len(EntryPieces(i))
  <2>1. /\ i - 1 \in 0 .. n /\ i \in 0 .. n /\ i <= n
    BY <1>1
  <2>2. /\ Start[i - 1] \in Nat /\ Start[i] \in Nat /\ Start[i] = Start[i - 1] + Len(EntryPieces(i))
    BY <2>1, ListSteps
  <2>3. Len(EntryPieces(i)) \in Nat /\ Len(EntryPieces(i)) >= 1
    BY EntryShape
  <2>4. Start[i] <= Start[n]
    BY <1>1, <1>3, <2>1, SumsGrow
  <2>5. QED  BY <2>2, <2>3, <2>4
<1>5. ASSUME NEW i \in 1 .. n, NEW j \in 1 .. n, i < j
      PROVE  Start[i] <= Start[j - 1]
  <2>1. i \in 0 .. n /\ j - 1 \in 0 .. n /\ i <= j - 1
    BY <1>1, <1>5
  <2>2. QED  BY <1>3, <2>1, SumsGrow
<1>6. QED  BY <1>1, <1>2, <1>4, <1>5

\* The pieces of an entry in the file.
LEMMA EntryInFile ==
  ASSUME list \in Seq(Entry), NEW file, LaidOut(file), NEW i \in 1 .. Len(list)
  PROVE  LET n == list[i]
             p == Start[i - 1]
             d == IF n.data.form = "none" THEN 0 ELSE 1
             e == IF Described(i) THEN 1 ELSE 0
         IN  /\ p \in Nat /\ Start[i] = p + 1 + d + e /\ file[p + 1] = Local(n)
             /\ d = 1 => file[p + 2] = DataPiece(n)
             /\ e = 1 => file[p + 1 + d + 1] = Descriptor
<1> DEFINE n == list[i]
           p == Start[i - 1]
           u == EntryPieces(i)
           d == IF n.data.form = "none" THEN 0 ELSE 1
           e == IF Described(i) THEN 1 ELSE 0
<1>1. /\ Len(u) = 1 + d + e /\ u[1] = Local(n)
      /\ d = 1 => u[2] = DataPiece(n)
      /\ e = 1 => u[1 + d + 1] = Descriptor
  BY EntryShape
<1>2. p \in Nat /\ Start[i] = p + Len(u)
  BY Places
<1>3. \A m \in 1 .. Len(u) : file[p + m] = u[m]
  BY DEF LaidOut
<1>4. d \in {0, 1} /\ e \in {0, 1}
  OBVIOUS
<1> HIDE DEF n, p, u, d, e
<1>5. Start[i] = p + 1 + d + e
  BY <1>1, <1>2, <1>4
<1>6. file[p + 1] = Local(n)
  <2>1. 1 \in 1 .. Len(u)  BY <1>1, <1>4
  <2>2. QED  BY <1>1, <1>3, <2>1
<1>7. d = 1 => file[p + 2] = DataPiece(n)
  <2>1. d = 1 => 2 \in 1 .. Len(u)  BY <1>1, <1>4
  <2>2. QED  BY <1>1, <1>3, <2>1
<1>8. e = 1 => file[p + 1 + d + 1] = Descriptor
  <2>1. e = 1 => 1 + d + 1 \in 1 .. Len(u)  BY <1>1, <1>4
  <2>2. p + (1 + d + 1) = p + 1 + d + 1  BY <1>2, <1>4
  <2>3. QED  BY <1>1, <1>3, <2>1, <2>2
<1>9. QED  BY <1>2, <1>5, <1>6, <1>7, <1>8 DEF n, p, d, e

\* The offset of an entry is where its header begins in the file.
LEMMA EntryEnds ==
  ASSUME list \in Seq(Entry), NEW file, LaidOut(file), NEW i \in 1 .. Len(list),
         PieceEnds(file)[Start[i - 1]] = Offset[i - 1]
  PROVE  PieceEnds(file)[Start[i]] = Offset[i]
<1> DEFINE n == list[i]
           p == Start[i - 1]
           d == IF n.data.form = "none" THEN 0 ELSE 1
           b == IF Described(i) THEN 1 ELSE 0
           e == PieceEnds(file)
           size == n.data.size
           name == NameSize(n.name)
<1>1. /\ p \in Nat /\ Start[i] = p + 1 + d + b /\ file[p + 1] = Local(n)
      /\ d = 1 => file[p + 2] = DataPiece(n)
      /\ b = 1 => file[p + 1 + d + 1] = Descriptor
  BY EntryInFile
<1>2. file \in Seq(Piece) /\ Len(file) = Start[Len(list)] + Len(list) + 1
  BY DEF LaidOut
<1>3. \A x \in 1 .. Len(file) : e[x - 1] \in Nat /\ e[x] = e[x - 1] + file[x].size
  BY <1>2, EndsAdd
<1>4. /\ name \in Nat /\ size \in Nat /\ (n.data.form = "none" => size = 0)
  BY EntryNumbers
<1>5. /\ Offset[i] = Offset[i - 1] + Advance(i) /\ Offset[i - 1] \in Nat
      /\ Advance(i) = 30 + name + size + (IF b = 1 THEN 16 ELSE 0)
  <2>1. Offset[i] = Offset[i - 1] + Advance(i) /\ Offset[i - 1] \in Nat
    BY ListSteps
  <2>2. Advance(i) = 30 + name + size + (IF b = 1 THEN 16 ELSE 0)
    BY DEF Advance, LocalSize, DescriptorSize
  <2>3. QED  BY <2>1, <2>2
<1>6. d \in {0, 1} /\ b \in {0, 1} /\ (d = 0 => size = 0)
  BY <1>4
<1>7. /\ Local(n).size = 30 + name /\ DataPiece(n).size = size /\ Descriptor.size = 16
  BY DEF Local, DataPiece, Descriptor, LocalSize, DescriptorSize
<1>8. \A x \in 1 .. Start[i] : x \in 1 .. Len(file)
  <2> DEFINE k == Len(list)
             z == Start[k]
             y == Start[i]
             l == Len(file)
  <2>1. y \in Nat /\ y <= z /\ z \in Nat /\ k \in Nat /\ l = z + k + 1
    BY <1>2, Places
  <2> HIDE DEF k, z, y, l
  <2>2. \A x \in 1 .. y : x \in 1 .. l
    BY <2>1
  <2>3. QED  BY <2>2 DEF y, l
<1> DEFINE o == Offset[i - 1]
           q == Start[i]
<1> HIDE DEF n, p, d, b, e, size, name, o
<1>9. e[p + 1] = o + 30 + name
  <2>1. p + 1 \in 1 .. q /\ (p + 1) - 1 = p  BY <1>1, <1>6
  <2>2. e[p + 1] = e[p] + file[p + 1].size  BY <1>3, <1>8, <2>1
  <2>3. e[p] = o  BY DEF e, o, p
  <2>4. file[p + 1].size = 30 + name  BY <1>1, <1>7
  <2>5. o \in Nat  BY <1>5 DEF o
  <2>6. e[p + 1] = o + (30 + name)  BY <2>2, <2>3, <2>4
  <2>7. QED  BY <1>4, <2>5, <2>6
<1>10. e[p + 1 + d] = o + 30 + name + size
  <2>1. CASE d = 0
    <3>1. p + 1 + d = p + 1 /\ size = 0  BY <1>1, <1>6, <2>1
    <3>2. o \in Nat  BY <1>5 DEF o
    <3>3. QED  BY <1>4, <1>9, <3>1, <3>2
  <2>2. CASE d = 1
    <3>1. p \in Nat /\ q = p + 1 + d + b  BY <1>1
    <3>2. p + 2 \in 1 .. q /\ (p + 2) - 1 = p + 1 /\ p + 1 + d = p + 2  BY <1>6, <2>2, <3>1
    <3>3. e[p + 2] = e[p + 1] + file[p + 2].size  BY <1>3, <1>8, <3>2
    <3>4. QED  BY <1>1, <1>7, <1>9, <2>2, <3>2, <3>3
  <2>3. QED  BY <1>6, <2>1, <2>2
<1>11. e[p + 1 + d + b] = o + 30 + name + size + (IF b = 1 THEN 16 ELSE 0)
  <2>1. CASE b = 0
    <3>1. p + 1 + d + b = p + 1 + d  BY <1>1, <1>6, <2>1
    <3>2. o \in Nat  BY <1>5 DEF o
    <3>3. QED  BY <1>4, <1>10, <2>1, <3>1, <3>2
  <2>2. CASE b = 1
    <3> DEFINE x == p + 1 + d + 1
    <3>0. p \in Nat /\ q = p + 1 + d + b  BY <1>1
    <3>1. x \in 1 .. q /\ x - 1 = p + 1 + d /\ p + 1 + d + b = x  BY <1>6, <2>2, <3>0
    <3>2. e[x] = e[p + 1 + d] + file[x].size
      <4>1. x \in 1 .. Len(file)  BY <1>8, <3>1
      <4>2. e[x] = e[x - 1] + file[x].size  BY <1>3, <4>1
      <4>3. QED  BY <3>1, <4>2
    <3>3. file[x].size = 16  BY <1>1, <1>7, <2>2
    <3> HIDE DEF x
    <3>4. QED  BY <1>10, <2>2, <3>1, <3>2, <3>3
  <2>3. QED  BY <1>6, <2>1, <2>2
<1>12. Offset[i] = o + 30 + name + size + (IF b = 1 THEN 16 ELSE 0)
  <2>1. o \in Nat  BY <1>5 DEF o
  <2>2. Offset[i] = o + (30 + name + size + (IF b = 1 THEN 16 ELSE 0))  BY <1>5 DEF o
  <2>3. QED  BY <1>4, <2>1, <2>2
<1>13. e[q] = Offset[i]
  BY <1>1, <1>11, <1>12
<1>14. QED  BY <1>13 DEF e

\* So are all of them, and the directory follows.
LEMMA EndsAtOffsets ==
  ASSUME list \in Seq(Entry), NEW file, LaidOut(file)
  PROVE  \A i \in 0 .. Len(list) : PieceEnds(file)[Start[i]] = Offset[i]
<1> DEFINE n == Len(list)
           T == {i \in 0 .. n : PieceEnds(file)[Start[i]] = Offset[i]}
<1>1. n \in Nat
  OBVIOUS
<1>2. 0 \in T
  <2>1. Start[0] = 0 /\ Offset[0] = 0 /\ PieceEnds(file)[0] = 0
    BY ListSteps, EndsAdd DEF LaidOut
  <2>2. QED  BY <1>1, <2>1
<1>3. \A i \in 1 .. n : i - 1 \in T => i \in T
  <2> SUFFICES ASSUME NEW i \in 1 .. n, i - 1 \in T PROVE i \in T
    OBVIOUS
  <2>1. PieceEnds(file)[Start[i - 1]] = Offset[i - 1]
    OBVIOUS
  <2>2. PieceEnds(file)[Start[i]] = Offset[i] /\ i \in 0 .. n
    BY <2>1, EntryEnds
  <2>3. QED  BY <2>2
<1>4. \A i \in 0 .. n : i \in T
  <2> HIDE DEF T
  <2>1. QED  BY <1>1, <1>2, <1>3, Climb
<1>5. QED  BY <1>4

\* Where the entries of the directory end.
LEMMA EndsInDirectory ==
  ASSUME list \in Seq(Entry), NEW file, LaidOut(file)
  PROVE  \A j \in 0 .. Len(list) :
            PieceEnds(file)[Start[Len(list)] + j] = Offset[Len(list)] + Sums(DirSizes)[j]
<1> DEFINE n == Len(list)
           e == PieceEnds(file)
           p == Start[n]
           o == Offset[n]
           D == Sums(DirSizes)
           T == {j \in 0 .. n : e[p + j] = o + D[j]}
<1>1. n \in Nat /\ n \in 0 .. n
  OBVIOUS
<1>2. p \in Nat /\ o \in Nat /\ D[0] = 0 /\ e[p] = o
  BY <1>1, Places, ListSteps, EndsAtOffsets
<1>3. 0 \in T
  <2>1. p + 0 = p /\ o + D[0] = o  BY <1>2
  <2>2. QED  BY <1>1, <1>2, <2>1
<1>4. ASSUME NEW j \in 1 .. n, j - 1 \in T
      PROVE  j \in T
  <2>1. /\ D[j] = D[j - 1] + (46 + NameSize(list[j].name)) /\ D[j - 1] \in Nat
        /\ NameSize(list[j].name) \in Nat
    BY ListSteps, EntryNumbers DEF CentralSize
  <2>2. /\ file \in Seq(Piece) /\ Len(file) = p + n + 1
        /\ file[p + j] = Central(list[j], Offset[j - 1])
    BY DEF LaidOut
  <2>3. file[p + j].size = 46 + NameSize(list[j].name)
    BY <2>2 DEF Central, CentralSize
  <2>4. p + j \in 1 .. Len(file) /\ (p + j) - 1 = p + (j - 1) /\ j \in 0 .. n
    <3>1. p \in Nat /\ n \in Nat /\ j \in 1 .. n /\ Len(file) = p + n + 1
      BY <1>1, <1>2, <2>2
    <3> HIDE DEF p, n
    <3>2. QED  BY <3>1
  <2>5. e[p + j] = e[p + (j - 1)] + file[p + j].size
    <3>1. e[p + j] = e[(p + j) - 1] + file[p + j].size
      BY <2>2, <2>4, EndsAdd
    <3>2. QED  BY <2>4, <3>1
  <2>6. e[p + (j - 1)] = o + D[j - 1]
    BY <1>4
  <2> HIDE DEF e, p, o, D
  <2>7. e[p + j] = o + D[j]
    BY <1>2, <2>1, <2>3, <2>5, <2>6
  <2>8. QED  BY <2>4, <2>7
<1>5. \A j \in 0 .. n : j \in T
  <2> HIDE DEF T
  <2>1. QED  BY <1>1, <1>3, <1>4, Climb
<1>6. QED  BY <1>5

-----------------------------------------------------------------------------
\* A piece before the directory is one of an entry: its header, or behind it.
LEMMA BeforeDirectory ==
  ASSUME list \in Seq(Entry), NEW file, LaidOut(file), NEW x \in 1 .. Start[Len(list)]
  PROVE  \E i \in 1 .. Len(list) :
           \/ x = Start[i - 1] + 1 /\ file[x].kind = "local"
           \/ x # Start[i - 1] + 1 /\ Start[i - 1] < x /\ x <= Start[i]
                /\ file[x].kind \in {"data", "descriptor"}
<1> DEFINE n == Len(list)
           s == Lengths(Bodies)
<1>1. /\ s \in Seq(Nat) /\ Len(s) = n /\ SumsUp(Start, s)
  <2>1. Bodies \in Seq(Seq(Piece)) /\ Len(Bodies) = n /\ SumsUp(Start, s)
    BY ListSums
  <2>2. QED  BY <2>1, LengthSums
<1>2. \E i \in 1 .. n, m \in Nat : m \in 1 .. s[i] /\ x = Start[i - 1] + m
  <2>1. x \in 1 .. Start[Len(s)]  BY <1>1
  <2> HIDE DEF s
  <2>2. \E i \in 1 .. Len(s), m \in Nat : m \in 1 .. s[i] /\ x = Start[i - 1] + m
    BY <1>1, <2>1, SumsLocate
  <2>3. QED  BY <1>1, <2>2
<1>3. PICK i \in 1 .. n, m \in Nat : m \in 1 .. s[i] /\ x = Start[i - 1] + m
  BY <1>2
<1>4. s[i] = Len(EntryPieces(i))
  <2>1. Len(Bodies) = n  BY ListSums
  <2>2. s[i] = Len(Bodies[i])  BY <2>1 DEF Lengths
  <2>3. QED  BY <2>2 DEF Bodies
<1> DEFINE p == Start[i - 1]
           d == IF list[i].data.form = "none" THEN 0 ELSE 1
           b == IF Described(i) THEN 1 ELSE 0
<1>5. /\ p \in Nat /\ Start[i] = p + 1 + d + b /\ file[p + 1] = Local(list[i])
      /\ d = 1 => file[p + 2] = DataPiece(list[i])
      /\ b = 1 => file[p + 1 + d + 1] = Descriptor
  BY EntryInFile
<1>6. Start[i] = p + s[i] /\ s[i] \in Nat
  BY <1>4, Places
<1>7. d \in {0, 1} /\ b \in {0, 1} /\ m \in 1 .. s[i] /\ x = p + m
  BY <1>3
<1> DEFINE q == Start[i]
           l == s[i]
<1> HIDE DEF n, s, p, d, b, q, l
<1>8. l = 1 + d + b
  <2>1. q = p + 1 + d + b /\ q = p + l /\ l \in Nat /\ p \in Nat  BY <1>5, <1>6 DEF q, l
  <2>2. QED  BY <1>7, <2>1
<1>9. m \in 1 .. 1 + d + b
  BY <1>7, <1>8 DEF l
<1>10. CASE m = 1
  <2>1. x = p + 1 /\ file[x] = Local(list[i])
    BY <1>5, <1>7, <1>10
  <2>2. file[x].kind = "local"
    BY <2>1 DEF Local
  <2>3. QED  BY <2>1, <2>2 DEF p, n
<1>11. CASE m # 1
  <2>1. x # p + 1 /\ p < x /\ x <= q
    <3>1. q = p + l  BY <1>6 DEF q, l
    <3>2. QED  BY <1>5, <1>7, <1>8, <1>9, <1>11, <3>1
  <2>2. file[x].kind \in {"data", "descriptor"}
    <3>1. CASE m = 2 /\ d = 1
      <4>1. file[x] = DataPiece(list[i])  BY <1>5, <1>7, <3>1
      <4>2. QED  BY <4>1 DEF DataPiece
    <3>2. CASE ~(m = 2 /\ d = 1)
      <4>1. b = 1 /\ m = 1 + d + 1  BY <1>7, <1>9, <1>11, <3>2
      <4>2. p + m = p + 1 + d + 1  BY <1>5, <1>7, <4>1
      <4>3. file[x] = Descriptor  BY <1>5, <1>7, <4>1, <4>2
      <4>4. QED  BY <4>3 DEF Descriptor
    <3>3. QED  BY <3>1, <3>2
  <2>3. QED  BY <2>1, <2>2 DEF p, n, q
<1>12. QED  BY <1>10, <1>11

\* The directory, and the end.
LEMMA TheDirectory ==
  ASSUME list \in Seq(Entry), NEW file, LaidOut(file)
  PROVE  LET n == Len(list)
             p == Start[n]
         IN  /\ n \in Nat /\ p \in Nat /\ Len(file) = p + n + 1 /\ file \in Seq(Piece)
             /\ OfKind(file, "central") = p + 1 .. p + n
             /\ OfKind(file, "local") = {Start[i - 1] + 1 : i \in 1 .. n}
             /\ IsArchive(file) /\ Last(file) = EndRecord(Offset)
             /\ \A j \in 1 .. n : file[p + j] = Central(list[j], Offset[j - 1])
<1> DEFINE n == Len(list)
           p == Start[n]
<1>1. n \in Nat /\ p \in Nat
  BY Places
<1>2. file \in Seq(Piece) /\ Len(file) = p + n + 1
  BY DEF LaidOut
<1>3. \A j \in 1 .. n : file[p + j] = Central(list[j], Offset[j - 1])
  BY DEF LaidOut
<1>4. file[p + n + 1] = EndRecord(Offset)
  BY DEF LaidOut
<1>5. Last(file) = EndRecord(Offset) /\ file # <<>>
  <2>1. Len(file) # 0
    <3> HIDE DEF p, n
    <3>1. QED  BY <1>1, <1>2
  <2>2. QED  BY <1>2, <1>4, <2>1 DEF Last
<1>6. IsArchive(file)
  BY <1>5 DEF IsArchive, EndRecord
<1>7. \A x \in 1 .. p : \E i \in 1 .. n :
        \/ x = Start[i - 1] + 1 /\ file[x].kind = "local"
        \/ x # Start[i - 1] + 1 /\ Start[i - 1] < x /\ x <= Start[i]
             /\ file[x].kind \in {"data", "descriptor"}
  BY BeforeDirectory
<1>8. \A x \in 1 .. p + n + 1 : x \in 1 .. p \/ (x - p \in 1 .. n /\ x = p + (x - p)) \/ x = p + n + 1
  <2> HIDE DEF p, n
  <2>1. QED  BY <1>1
<1>9. \A x \in p + 1 .. p + n : file[x].kind = "central"
  <2> TAKE x \in p + 1 .. p + n
  <2>1. x - p \in 1 .. n /\ x = p + (x - p)
    <3> HIDE DEF p, n
    <3>1. QED  BY <1>1
  <2>2. file[p + (x - p)] = Central(list[x - p], Offset[(x - p) - 1])
    BY <1>3, <2>1
  <2>3. QED  BY <2>1, <2>2 DEF Central
<1>10. file[p + n + 1].kind = "end"
  BY <1>4 DEF EndRecord
<1>11. OfKind(file, "central") = p + 1 .. p + n
  <2>1. ASSUME NEW x \in OfKind(file, "central") PROVE x \in p + 1 .. p + n
    <3>1. x \in 1 .. p + n + 1 /\ file[x].kind = "central"
      BY <1>2 DEF OfKind
    <3>2. x \notin 1 .. p /\ x # p + n + 1
      BY <1>7, <1>10, <3>1
    <3> HIDE DEF p, n
    <3>3. QED  BY <1>1, <3>1, <3>2
  <2>2. ASSUME NEW x \in p + 1 .. p + n PROVE x \in OfKind(file, "central")
    <3>1. file[x].kind = "central"  BY <1>9
    <3>2. x \in 1 .. Len(file)
      <4> DEFINE l == Len(file)
      <4>1. l = p + n + 1  BY <1>2
      <4> HIDE DEF p, n, l
      <4>2. x \in 1 .. l  BY <1>1, <4>1
      <4>3. QED  BY <4>2 DEF l
    <3>3. QED  BY <3>1, <3>2 DEF OfKind
  <2>3. QED  BY <2>1, <2>2
<1>12. \A i \in 1 .. n : Start[i - 1] + 1 \in 1 .. p /\ file[Start[i - 1] + 1].kind = "local"
  <2> TAKE i \in 1 .. n
  <2>1. file[Start[i - 1] + 1] = Local(list[i])
    BY EntryInFile
  <2>2. Start[i - 1] \in Nat /\ Start[i] \in Nat /\ Start[i - 1] + 1 <= Start[i] /\ Start[i] <= p
    BY Places
  <2>3. Start[i - 1] + 1 \in 1 .. p
    <3> DEFINE a == Start[i - 1]
               z == Start[i]
    <3>1. a \in Nat /\ z \in Nat /\ a + 1 <= z /\ z <= p  BY <2>2
    <3> HIDE DEF a, z, p
    <3>2. a + 1 \in 1 .. p  BY <1>1, <3>1
    <3>3. QED  BY <3>2 DEF a
  <2>4. QED  BY <2>1, <2>3 DEF Local
<1>13. OfKind(file, "local") = {Start[i - 1] + 1 : i \in 1 .. n}
  <2>1. ASSUME NEW x \in OfKind(file, "local") PROVE x \in {Start[i - 1] + 1 : i \in 1 .. n}
    <3>1. x \in 1 .. p + n + 1 /\ file[x].kind = "local"
      BY <1>2 DEF OfKind
    <3>2. x \in 1 .. p
      <4>1. x # p + n + 1  BY <1>10, <3>1
      <4>2. x \notin p + 1 .. p + n  BY <1>9, <3>1
      <4> HIDE DEF p, n
      <4>3. QED  BY <1>1, <3>1, <4>1, <4>2
    <3>3. QED  BY <1>7, <3>1, <3>2
  <2>2. ASSUME NEW i \in 1 .. n PROVE Start[i - 1] + 1 \in OfKind(file, "local")
    <3> DEFINE x == Start[i - 1] + 1
    <3>1. x \in 1 .. p /\ file[x].kind = "local"
      BY <1>12
    <3> HIDE DEF x
    <3>2. x \in 1 .. Len(file)
      <4> DEFINE l == Len(file)
      <4>1. l = p + n + 1  BY <1>2
      <4> HIDE DEF p, n, l
      <4>2. x \in 1 .. l  BY <1>1, <3>1, <4>1
      <4>3. QED  BY <4>2 DEF l
    <3>3. x \in OfKind(file, "local")
      BY <3>1, <3>2 DEF OfKind
    <3>4. QED  BY <3>3 DEF x
  <2>3. QED  BY <2>1, <2>2
<1>14. QED  BY <1>1, <1>2, <1>3, <1>5, <1>6, <1>11, <1>13

\* Each entry of the directory leads to the header of its member, and the end
\* record to the directory.
LEMMA EntryFound ==
  ASSUME list \in Seq(Entry), NEW file, LaidOut(file)
  PROVE  /\ \A j \in 1 .. Len(list) :
              /\ PieceAt(file, Offset[j - 1]) = [kind |-> "local", index |-> Start[j - 1] + 1]
              /\ file[Start[j - 1] + 1] = Local(list[j])
         /\ PieceAt(file, Offset[Len(list)]).index = Start[Len(list)] + 1
<1> DEFINE n == Len(list)
           p == Start[n]
<1>1. /\ n \in Nat /\ p \in Nat /\ Len(file) = p + n + 1 /\ file \in Seq(Piece)
  BY TheDirectory
<1>2. ASSUME NEW x \in 0 .. p + n, file[x + 1].kind # "data"
      PROVE  PieceAt(file, PieceEnds(file)[x]) = [kind |-> file[x + 1].kind, index |-> x + 1]
  <2> DEFINE l == Len(file)
  <2>1. l = p + n + 1 /\ x \in 0 .. p + n
    BY <1>1
  <2> HIDE DEF n, p, l
  <2>2. x + 1 \in 1 .. l /\ (x + 1) - 1 = x
    BY <1>1, <2>1
  <2>3. file[x + 1] \in Piece
    BY <1>1, <2>2 DEF l
  <2>4. file[x + 1].size > 0
    BY <1>2, <2>3, PieceFacts
  <2>5. PieceAt(file, PieceEnds(file)[(x + 1) - 1]) = [kind |-> file[x + 1].kind, index |-> x + 1]
    BY <1>1, <2>2, <2>4, PieceFound DEF l
  <2>6. QED  BY <2>2, <2>5
<1>3. ASSUME NEW j \in 1 .. n
      PROVE  /\ PieceAt(file, Offset[j - 1]) = [kind |-> "local", index |-> Start[j - 1] + 1]
             /\ file[Start[j - 1] + 1] = Local(list[j])
  <2> DEFINE a == Start[j - 1]
             z == Start[j]
  <2>1. a \in Nat /\ z \in Nat /\ a + 1 <= z /\ z <= p
    BY Places
  <2>2. file[a + 1] = Local(list[j])
    BY EntryInFile
  <2>3. PieceEnds(file)[a] = Offset[j - 1]
    <3>1. j - 1 \in 0 .. n  BY <1>1
    <3>2. QED  BY <3>1, EndsAtOffsets
  <2> HIDE DEF a, z, n, p
  <2>4. a \in 0 .. p + n
    BY <1>1, <2>1
  <2>5. file[a + 1].kind = "local"
    BY <2>2 DEF Local
  <2>6. PieceAt(file, PieceEnds(file)[a]) = [kind |-> "local", index |-> a + 1]
    BY <1>2, <2>4, <2>5
  <2>7. QED  BY <2>2, <2>3, <2>6 DEF a
<1>4. PieceAt(file, Offset[n]).index = p + 1
  <2>1. PieceEnds(file)[p] = Offset[n]
    <3>1. n \in 0 .. n  BY <1>1
    <3>2. QED  BY <3>1, EndsAtOffsets
  <2>2. file[p + 1].kind # "data"
    <3>1. CASE n = 0
      <4>1. file[p + n + 1] = EndRecord(Offset)  BY DEF LaidOut
      <4>2. p + n + 1 = p + 1
        <5> HIDE DEF p, n
        <5>1. QED  BY <1>1, <3>1
      <4>3. QED  BY <4>1, <4>2 DEF EndRecord
    <3>2. CASE n # 0
      <4>1. 1 \in 1 .. n  BY <1>1, <3>2
      <4>2. file[p + 1] = Central(list[1], Offset[1 - 1])
        BY <4>1, TheDirectory
      <4>3. QED  BY <4>2 DEF Central
    <3>3. QED  BY <3>1, <3>2
  <2>3. p \in 0 .. p + n
    <3> HIDE DEF p, n
    <3>1. QED  BY <1>1
  <2> HIDE DEF p, n
  <2>4. PieceAt(file, PieceEnds(file)[p]) = [kind |-> file[p + 1].kind, index |-> p + 1]
    BY <1>2, <2>2, <2>3
  <2>5. QED  BY <2>1, <2>4
<1>5. QED  BY <1>3, <1>4

\* What DirectoryFits says of a file.
FileFits(file) ==
  IsArchive(file) =>
    LET end   == Last(file)
        dir   == OfKind(file, "central")
        entry == [i \in dir |-> PieceAt(file, file[i].offset).index]
    IN  /\ PieceEnds(file)[Len(file) - 1] = end.offset + end.directory
        /\ Announced(file) = dir
        /\ {entry[i] : i \in dir} = OfKind(file, "local")
        /\ \A i, j \in dir : i < j => entry[i] < entry[j]
        /\ \A i \in dir : file[entry[i]].name = file[i].name

\* A file that is laid out fits.
LEMMA LaidOutFits ==
  ASSUME list \in Seq(Entry), NEW file, LaidOut(file)
  PROVE  /\ FileFits(file)
         /\ Directory(file) = OfKind(file, "central")
<1> DEFINE n     == Len(list)
           p     == Start[n]
           end   == Last(file)
           dir   == OfKind(file, "central")
           entry == [i \in dir |-> PieceAt(file, file[i].offset).index]
<1>1. /\ n \in Nat /\ p \in Nat /\ Len(file) = p + n + 1 /\ file \in Seq(Piece)
      /\ dir = p + 1 .. p + n
      /\ OfKind(file, "local") = {Start[i - 1] + 1 : i \in 1 .. n}
      /\ end = EndRecord(Offset)
      /\ \A j \in 1 .. n : file[p + j] = Central(list[j], Offset[j - 1])
  BY TheDirectory
<1>2. end.entries = n /\ end.directory = Sums(DirSizes)[n] /\ end.offset = Offset[n]
  BY <1>1 DEF EndRecord, DirectorySize, DirSizes
<1>3. \A j \in 1 .. n : p + j \in dir
  <2> HIDE DEF n, p, dir
  <2>1. QED  BY <1>1
<1>4. \A i \in dir : i - p \in 1 .. n /\ i = p + (i - p)
  <2> HIDE DEF n, p, dir
  <2>1. QED  BY <1>1
<1>5. ASSUME NEW j \in 1 .. n
      PROVE  entry[p + j] = Start[j - 1] + 1 /\ file[Start[j - 1] + 1].name = file[p + j].name
  <2>1. file[p + j] = Central(list[j], Offset[j - 1])
    BY <1>1
  <2>2. file[p + j].offset = Offset[j - 1] /\ file[p + j].name = list[j].name
    BY <2>1 DEF Central
  <2>3. /\ PieceAt(file, Offset[j - 1]) = [kind |-> "local", index |-> Start[j - 1] + 1]
        /\ file[Start[j - 1] + 1] = Local(list[j])
    BY EntryFound
  <2>4. entry[p + j] = PieceAt(file, file[p + j].offset).index
    BY <1>3
  <2>5. Local(list[j]).name = list[j].name
    BY DEF Local
  <2> HIDE DEF entry, n, p, dir
  <2>6. QED  BY <2>2, <2>3, <2>4, <2>5
<1>6. PieceEnds(file)[Len(file) - 1] = end.offset + end.directory
  <2>1. Len(file) - 1 = p + n /\ n \in 0 .. n
    <3> DEFINE l == Len(file)
    <3>1. l = p + n + 1  BY <1>1
    <3> HIDE DEF n, p, l
    <3>2. l - 1 = p + n /\ n \in 0 .. n  BY <1>1, <3>1
    <3>3. QED  BY <3>2 DEF l
  <2>2. PieceEnds(file)[p + n] = Offset[n] + Sums(DirSizes)[n]
    BY <2>1, EndsInDirectory
  <2> HIDE DEF n, p, end
  <2>3. QED  BY <1>2, <2>1, <2>2
<1>7. Announced(file) = dir
  <2>1. PieceAt(file, Offset[n]).index = p + 1
    BY EntryFound
  <2>2. Announced(file) = p + 1 .. (p + 1) + n - 1
    BY <1>2, <2>1 DEF Announced
  <2>3. (p + 1) + n - 1 = p + n
    <3> HIDE DEF n, p
    <3>1. QED  BY <1>1
  <2>4. QED  BY <1>1, <2>2, <2>3
<1>8. {entry[i] : i \in dir} = OfKind(file, "local")
  <2>1. \A i \in dir : entry[i] \in {Start[j - 1] + 1 : j \in 1 .. n}
    <3> HIDE DEF n, p, dir, entry
    <3>1. QED  BY <1>4, <1>5
  <2>2. \A j \in 1 .. n : Start[j - 1] + 1 \in {entry[i] : i \in dir}
    <3> HIDE DEF n, p, dir, entry
    <3>1. QED  BY <1>3, <1>5
  <2> DEFINE E == {entry[i] : i \in dir}
             L == {Start[j - 1] + 1 : j \in 1 .. n}
  <2>3. E = L
    BY <2>1, <2>2
  <2>4. QED  BY <1>1, <2>3
<1>9. \A i, j \in dir : i < j => entry[i] < entry[j]
  <2> TAKE i, j \in dir
  <2> SUFFICES ASSUME i < j PROVE entry[i] < entry[j]
    OBVIOUS
  <2> DEFINE k == i - p
             m == j - p
             a == Start[k - 1]
             y == Start[k]
             z == Start[m - 1]
  <2>1. k \in 1 .. n /\ m \in 1 .. n /\ i = p + k /\ j = p + m
    BY <1>4
  <2>2. k < m
    <3>1. i \in p + 1 .. p + n /\ j \in p + 1 .. p + n  BY <1>1
    <3> HIDE DEF n, p, dir, entry
    <3>2. QED  BY <1>1, <3>1
  <2>3. entry[i] = a + 1 /\ entry[j] = z + 1
    <3> HIDE DEF n, p, dir, entry, k, m
    <3>1. QED  BY <1>5, <2>1
  <2>4. a \in Nat /\ y \in Nat /\ z \in Nat /\ a + 1 <= y /\ y <= z
    BY <2>1, <2>2, Places
  <2> HIDE DEF n, p, dir, entry, a, y, z
  <2>5. QED  BY <2>3, <2>4
<1>10. \A i \in dir : file[entry[i]].name = file[i].name
  <2> TAKE i \in dir
  <2>1. i - p \in 1 .. n /\ i = p + (i - p)
    BY <1>4
  <2> HIDE DEF n, p, dir, entry
  <2>2. QED  BY <1>5, <2>1
<1>11. Directory(file) = dir
  BY <1>7 DEF Directory
<1>12. FileFits(file)
  BY <1>6, <1>7, <1>8, <1>9, <1>10 DEF FileFits
<1>13. QED  BY <1>11, <1>12

\* What is there of a file that was not written to its end is no archive.
LEMMA CutOff ==
  ASSUME list \in Seq(Entry), NEW file, LaidOut(file), NEW last \in 0 .. Len(file) - 1
  PROVE  SubSeq(file, 1, last) \in Seq(Piece) /\ ~IsArchive(SubSeq(file, 1, last))
<1> DEFINE n == Len(list)
           p == Start[n]
           f == SubSeq(file, 1, last)
           l == Len(file)
<1>1. /\ n \in Nat /\ p \in Nat /\ l = p + n + 1 /\ file \in Seq(Piece)
      /\ OfKind(file, "central") = p + 1 .. p + n
  BY TheDirectory
<1>2. last \in Int /\ last \in 0 .. p + n /\ \A k \in 1 .. last : k \in 1 .. l
  <2>1. last \in 0 .. l - 1  OBVIOUS
  <2> HIDE DEF n, p, l
  <2>2. QED  BY <1>1, <2>1
<1>3. \A k \in 1 .. last : file[k] \in Piece
  BY <1>1, <1>2
<1>4. /\ f \in Seq(Piece) /\ Len(f) = (IF 1 <= last THEN last - 1 + 1 ELSE 0)
      /\ \A k \in 1 .. last - 1 + 1 : f[k] = file[1 + k - 1]
  <2>1. 1 \in Int  OBVIOUS
  <2>2. QED  BY <1>2, <1>3, <2>1, SubSeqProperties
<1> HIDE DEF f
<1>5. Len(f) = last
  BY <1>2, <1>4
<1>6. CASE last = 0
  <2>1. f = <<>>  BY <1>4, <1>5, <1>6
  <2>2. ~IsArchive(f)  BY <2>1 DEF IsArchive
  <2>3. QED  BY <1>4, <2>2 DEF f
<1>7. CASE last # 0
  <2>1. last \in 1 .. last - 1 + 1 /\ 1 + last - 1 = last
    BY <1>2, <1>7
  <2>2. Last(f) = file[last]
    BY <1>4, <1>5, <2>1 DEF Last
  <2>3. last \in 1 .. p \/ last \in p + 1 .. p + n
    <3> HIDE DEF n, p
    <3>1. QED  BY <1>1, <1>2, <1>7
  <2>4. file[last].kind # "end"
    <3>1. CASE last \in 1 .. p
      <4>1. file[last].kind \in {"local", "data", "descriptor"}
        BY <3>1, BeforeDirectory
      <4>2. QED  BY <4>1
    <3>2. CASE last \in p + 1 .. p + n
      <4>1. last \in OfKind(file, "central")  BY <1>1, <3>2
      <4>2. QED  BY <4>1 DEF OfKind
    <3>3. QED  BY <2>3, <3>1, <3>2
  <2>5. ~IsArchive(f)
    BY <2>2, <2>4 DEF IsArchive
  <2>6. QED  BY <1>4, <2>5 DEF f
<1>8. QED  BY <1>6, <1>7

-----------------------------------------------------------------------------
\* The list is right, and what is on the disk is an archive or none.
ArchiveInv == ListInv /\ disk \in Seq(Piece) /\ FileFits(disk)

\* It holds at first.
LEMMA ArchiveInvInit == ZipInit => ArchiveInv
<1> SUFFICES ASSUME ZipInit PROVE ArchiveInv
  OBVIOUS
<1>1. list = <<>> /\ walk = <<>> /\ disk = <<>> /\ level = 0 /\ strayed = FALSE /\ calls = 0
  BY DEF ZipInit
<1>2. list \in Seq(Entry) /\ disk \in Seq(Piece) /\ AllNamed(list)
  BY <1>1, EmptySeq DEF AllNamed
<1>3. Walking(walk) /\ Len(walk) = 0
  BY <1>1, NoWalk
<1>4. ListInv
  <2>1. calls \in 0 .. MaxCalls
    <3>1. MaxCalls \in Nat  BY ArchiveConstants
    <3>2. QED  BY <1>1, <3>1
  <2>2. level \in Nat /\ Len(walk) <= level /\ level = Len(walk)
    <3>1. level = 0 /\ Len(walk) = 0  BY <1>1, <1>3
    <3>2. QED  BY <3>1
  <2>3. strayed \in BOOLEAN
    BY <1>1
  <2>4. QED  BY <1>2, <1>3, <2>1, <2>2, <2>3 DEF ListInv
<1>5. FileFits(disk)
  BY <1>1 DEF FileFits, IsArchive
<1>6. QED  BY <1>2, <1>4, <1>5 DEF ArchiveInv

\* Writing leaves the list as it is.
LEMMA Flushed ==
  ASSUME ArchiveInv, FlushToZip \/ FlushFails
  PROVE  ArchiveInv'
<1>1. ListInv /\ list \in Seq(Entry)
  BY DEF ArchiveInv, ListInv
<1>2. UNCHANGED <<level, list, walk, strayed, calls>>
  BY DEF FlushToZip, FlushFails
<1>3. ListInv'
  BY <1>1, <1>2 DEF ListInv
<1>4. LaidOut(Pieces)
  BY <1>1, PiecesLaidOut
<1>5. CASE FlushToZip
  <2>1. disk' = Pieces
    BY <1>5 DEF FlushToZip
  <2>2. Pieces \in Seq(Piece) /\ FileFits(Pieces)
    <3>1. Pieces \in Seq(Piece)  BY <1>4 DEF LaidOut
    <3>2. QED  BY <1>1, <1>4, <3>1, LaidOutFits
  <2>3. QED  BY <1>3, <2>1, <2>2 DEF ArchiveInv
<1>6. CASE FlushFails
  <2> DEFINE pieces == Pieces
  <2>1. PICK last \in 0 .. Len(pieces) - 1 : disk' = SubSeq(pieces, 1, last)
    BY <1>6 DEF FlushFails
  <2> HIDE DEF pieces
  <2>2. LaidOut(pieces)
    BY <1>4 DEF pieces
  <2>3. disk' \in Seq(Piece) /\ ~IsArchive(disk')
    BY <1>1, <2>1, <2>2, CutOff
  <2>4. FileFits(disk')
    BY <2>3 DEF FileFits
  <2>5. QED  BY <1>3, <2>3, <2>4 DEF ArchiveInv
<1>7. QED  BY <1>5, <1>6

\* Every step keeps it.
LEMMA ArchiveStep == ArchiveInv /\ [ZipNext]_zipVars => ArchiveInv'
<1> SUFFICES ASSUME ArchiveInv, [ZipNext]_zipVars PROVE ArchiveInv'
  OBVIOUS
<1>1. ListInv /\ disk \in Seq(Piece) /\ FileFits(disk)
  BY DEF ArchiveInv
<1>2. ASSUME ListInv', disk' = disk PROVE ArchiveInv'
  BY <1>1, <1>2 DEF ArchiveInv
<1>3. CASE \E path \in Path, compress \in BOOLEAN : AddFile(path, compress)
  <2>1. ListInv'  BY <1>1, <1>3, AddFileSafe
  <2>2. disk' = disk  BY <1>3 DEF AddFile
  <2>3. QED  BY <1>2, <2>1, <2>2
<1>4. CASE \E part \in Part, compress \in BOOLEAN : AddContent(part, compress)
  <2>1. ListInv'  BY <1>1, <1>4, AddContentSafe
  <2>2. disk' = disk  BY <1>4 DEF AddContent
  <2>3. QED  BY <1>2, <2>1, <2>2
<1>5. CASE WalkFile
  <2>1. ListInv'  BY <1>1, <1>5, WalkFileSafe
  <2>2. disk' = disk  BY <1>5 DEF WalkFile
  <2>3. QED  BY <1>2, <2>1, <2>2
<1>6. CASE WalkInto
  <2>1. ListInv'  BY <1>1, <1>6, WalkIntoSafe
  <2>2. disk' = disk  BY <1>6 DEF WalkInto
  <2>3. QED  BY <1>2, <2>1, <2>2
<1>7. CASE WalkLeaves
  <2>1. ListInv'  BY <1>1, <1>7, WalkLeavesSafe
  <2>2. disk' = disk  BY <1>7 DEF WalkLeaves
  <2>3. QED  BY <1>2, <2>1, <2>2
<1>8. CASE WalkReturns
  <2>1. ListInv'  BY <1>1, <1>8, WalkReturnsSafe
  <2>2. disk' = disk  BY <1>8 DEF WalkReturns
  <2>3. QED  BY <1>2, <2>1, <2>2
<1>9. CASE \E path \in Path : RemoveFile(path)
  <2>1. ListInv'  BY <1>1, <1>9, RemoveFileSafe
  <2>2. disk' = disk  BY <1>9 DEF RemoveFile
  <2>3. QED  BY <1>2, <2>1, <2>2
<1>10. CASE \E old, new \in Path, compress \in BOOLEAN : ReplaceFile(old, new, compress)
  <2>1. ListInv'  BY <1>1, <1>10, ReplaceFileSafe
  <2>2. disk' = disk  BY <1>10 DEF ReplaceFile
  <2>3. QED  BY <1>2, <2>1, <2>2
<1>11. CASE Reset
  <2>1. ListInv'  BY <1>1, <1>11, ResetSafe
  <2>2. disk' = disk  BY <1>11 DEF Reset
  <2>3. QED  BY <1>2, <2>1, <2>2
<1>12. CASE FlushToZip \/ FlushFails
  BY <1>12, Flushed
<1>13. CASE UNCHANGED zipVars
  BY <1>1, <1>2, <1>13 DEF zipVars, ListInv
<1>14. QED
  BY <1>3, <1>4, <1>5, <1>6, <1>7, <1>8, <1>9, <1>10, <1>11, <1>12, <1>13 DEF ZipNext

\* What the invariant is for.
LEMMA ArchiveInvFits == ArchiveInv => ArchiveFits
<1> SUFFICES ASSUME ArchiveInv PROVE ArchiveFits
  OBVIOUS
<1>1. ListInv /\ disk \in Seq(Piece) /\ FileFits(disk) /\ list \in Seq(Entry)
  BY DEF ArchiveInv, ListInv
<1>2. \A i \in 1 .. Len(disk) : disk[i].size \in Nat
  BY <1>1, EndsAdd
<1>3. ASSUME NEW i \in 1 .. Len(list)
      PROVE  /\ list[i].name # <<>> /\ list[i].data.size <= list[i].uncompressed
             /\ list[i].data.form \in {"none", "plain", "deflated", "cut"}
  <2> DEFINE n == list[i]
  <2>1. n \in Entry
    BY <1>1
  <2> HIDE DEF n
  <2>2. /\ n.name # <<>> /\ n.content \in Content /\ n.compress \in BOOLEAN
        /\ n.uncompressed = Size(n.content) /\ n.data \in Data(n.content, n.compress)
    BY <2>1, EntryFacts
  <2>3. /\ Size(n.content) \in Nat /\ n.data.size \in 0 .. Size(n.content)
        /\ n.data.form \in {"none", "plain", "deflated", "cut"}
    BY <2>2, DataFacts
  <2>4. n.data.size <= n.uncompressed
    BY <2>2, <2>3
  <2>5. QED  BY <2>2, <2>3, <2>4 DEF n
<1>4. ZipTypeOK
  BY <1>1, <1>2, <1>3 DEF ZipTypeOK, ListInv
<1>5. NamedFromTheirRoot
  BY <1>1 DEF NamedFromTheirRoot, ListInv, AllNamed, Named
<1>6. DirectoryFits
  BY <1>1 DEF DirectoryFits, FileFits
<1>7. QED  BY <1>4, <1>5, <1>6 DEF ArchiveFits

\* Whatever is added, removed and written, in any order and with directories
\* that were left halfway: what stands on the disk under an end record is an
\* archive for every reader, and names are those asked for (CCreateZip).
THEOREM WriterCorrect == ZipSpec => []ArchiveFits
<1>1. ArchiveInv => ArchiveFits
  BY ArchiveInvFits
<1>2. QED  BY <1>1, ArchiveInvInit, ArchiveStep, PTL DEF ZipSpec

-----------------------------------------------------------------------------
\* What is listed, and what is seen.
Member == {[name |-> n.name, content |-> Promised(n)] : n \in Entry}

Listing(l) == [i \in 1 .. Len(l) |-> [name |-> l[i].name, content |-> Promised(l[i])]]

SeenIn(file) ==
  IF IsArchive(file)
  THEN {[name |-> file[i].name, content |-> GetFileText(file, file[i])] : i \in Directory(file)}
  ELSE NoArchive

\* One member for each entry, in their order.
LEMMA ShownIsList ==
  ASSUME NEW l \in Seq(Entry)
  PROVE  /\ Listing(l) \in Seq(Member) /\ Len(Listing(l)) = Len(l) /\ Len(l) \in Nat
         /\ \A i \in 1 .. Len(l) :
              Listing(l)[i] = [name |-> l[i].name, content |-> Promised(l[i])]
<1>1. Len(l) \in Nat /\ \A i \in 1 .. Len(l) : l[i] \in Entry
  OBVIOUS
<1>2. \A i \in 1 .. Len(l) : [name |-> l[i].name, content |-> Promised(l[i])] \in Member
  BY <1>1 DEF Member
<1>3. QED  BY <1>1, <1>2 DEF Listing

\* Sequences with the same members are the same.
LEMMA SameSeq ==
  ASSUME NEW S, NEW a \in Seq(S), NEW b \in Seq(S), Len(a) = Len(b),
         \A i \in 1 .. Len(a) : a[i] = b[i]
  PROVE  a = b
OBVIOUS

\* All but the last.
LEMMA FrontIs ==
  ASSUME NEW S, NEW s \in Seq(S), Len(s) # 0
  PROVE  /\ Front(s) \in Seq(S) /\ Len(Front(s)) = Len(s) - 1
         /\ \A k \in 1 .. Len(s) - 1 : Front(s)[k] = s[k]
<1> DEFINE f == SubSeq(s, 1, Len(s) - 1)
           l == Len(s)
<1>1. l \in Nat /\ l >= 1 /\ \A k \in 1 .. l : s[k] \in S
  OBVIOUS
<1>2. 1 \in Int /\ l - 1 \in Int /\ \A k \in 1 .. l - 1 : s[k] \in S
  <2> HIDE DEF l
  <2>1. QED  BY <1>1
<1>3. /\ f \in Seq(S) /\ Len(f) = (IF 1 <= l - 1 THEN (l - 1) - 1 + 1 ELSE 0)
      /\ \A k \in 1 .. (l - 1) - 1 + 1 : f[k] = s[1 + k - 1]
  BY <1>2, SubSeqProperties
<1>4. Front(s) = f
  BY DEF Front
<1> HIDE DEF f, l
<1>5. Len(f) = l - 1
  BY <1>1, <1>3
<1>6. \A k \in 1 .. l - 1 : f[k] = s[k]
  <2> TAKE k \in 1 .. l - 1
  <2>1. k \in 1 .. (l - 1) - 1 + 1 /\ 1 + k - 1 = k  BY <1>1
  <2>2. QED  BY <1>3, <2>1
<1>7. QED  BY <1>3, <1>4, <1>5, <1>6 DEF l

\* An entry more is a member more.
LEMMA ShownAdded ==
  ASSUME NEW l \in Seq(Entry), NEW n, Append(l, n) \in Seq(Entry)
  PROVE  /\ Listing(Append(l, n)) # <<>> /\ Front(Listing(Append(l, n))) = Listing(l)
         /\ Len(Listing(Append(l, n))) = Len(l) + 1
<1> DEFINE a == Append(l, n)
           s == Listing(a)
           t == Listing(l)
<1>1. /\ Len(a) = Len(l) + 1 /\ \A i \in 1 .. Len(l) : a[i] = l[i]
  <2>1. l \in Seq(Entry \cup {n}) /\ n \in Entry \cup {n}
    OBVIOUS
  <2>2. QED  BY <2>1, AppendProperties
<1>2. a \in Seq(Entry)
  OBVIOUS
<1> HIDE DEF a
<1>3. /\ s \in Seq(Member) /\ Len(s) = Len(a) /\ \A i \in 1 .. Len(a) :
              s[i] = [name |-> a[i].name, content |-> Promised(a[i])]
  BY <1>2, ShownIsList
<1>4. /\ t \in Seq(Member) /\ Len(t) = Len(l) /\ Len(l) \in Nat
      /\ \A i \in 1 .. Len(l) : t[i] = [name |-> l[i].name, content |-> Promised(l[i])]
  BY ShownIsList
<1> HIDE DEF s, t
<1>5. Len(s) # 0 /\ Len(s) - 1 = Len(l) /\ \A i \in 1 .. Len(l) : i \in 1 .. Len(a)
  BY <1>1, <1>3, <1>4
<1>6. s # <<>>
  BY <1>3, <1>5
<1>7. /\ Front(s) \in Seq(Member) /\ Len(Front(s)) = Len(l)
      /\ \A k \in 1 .. Len(l) : Front(s)[k] = s[k]
  BY <1>3, <1>5, FrontIs
<1>8. \A k \in 1 .. Len(l) : Front(s)[k] = t[k]
  BY <1>1, <1>3, <1>4, <1>5, <1>7
<1>9. Front(s) = t
  BY <1>4, <1>7, <1>8, SameSeq
<1>10. QED  BY <1>1, <1>3, <1>6, <1>9 DEF s, t, a

\* An entry taken out is a member taken out.
LEMMA ShownRemoved ==
  ASSUME NEW l \in Seq(Entry), NEW i \in 1 .. Len(l)
  PROVE  /\ RemoveAt(l, i) \in Seq(Entry) /\ Len(RemoveAt(l, i)) = Len(l) - 1
         /\ i \in 1 .. Len(Listing(l)) /\ Len(Listing(l)) = Len(l)
         /\ Listing(RemoveAt(l, i)) = RemoveAt(Listing(l), i)
<1> DEFINE r == RemoveAt(l, i)
           s == Listing(r)
           t == Listing(l)
           u == RemoveAt(t, i)
<1>1. Without(r, l, i, Entry)
  BY RemovedAt
<1>2. /\ t \in Seq(Member) /\ Len(t) = Len(l) /\ Len(l) \in Nat
      /\ \A k \in 1 .. Len(l) : t[k] = [name |-> l[k].name, content |-> Promised(l[k])]
  BY ShownIsList
<1>3. i \in 1 .. Len(t)
  BY <1>2
<1> HIDE DEF r, t
<1>4. Without(u, t, i, Member)
  BY <1>2, <1>3, RemovedAt
<1>5. r \in Seq(Entry) /\ Len(r) = Len(l) - 1
  BY <1>1 DEF Without
<1>6. /\ s \in Seq(Member) /\ Len(s) = Len(r)
      /\ \A k \in 1 .. Len(r) : s[k] = [name |-> r[k].name, content |-> Promised(r[k])]
  BY <1>5, ShownIsList
<1> HIDE DEF s, u
<1>7. u \in Seq(Member) /\ Len(u) = Len(r)
  BY <1>2, <1>4, <1>5 DEF Without
<1>8. ASSUME NEW k \in 1 .. Len(r)
      PROVE  s[k] = u[k]
  <2>1. k \in 1 .. Len(l) /\ k + 1 \in 1 .. Len(l)
    BY <1>2, <1>5
  <2>2. r[k] = IF k < i THEN l[k] ELSE l[k + 1]
    BY <1>1 DEF Without
  <2>3. u[k] = IF k < i THEN t[k] ELSE t[k + 1]
    BY <1>4, <1>7 DEF Without
  <2>4. s[k] = [name |-> r[k].name, content |-> Promised(r[k])]
    BY <1>6
  <2>5. /\ t[k] = [name |-> l[k].name, content |-> Promised(l[k])]
        /\ t[k + 1] = [name |-> l[k + 1].name, content |-> Promised(l[k + 1])]
    BY <1>2, <2>1
  <2>6. QED  BY <2>2, <2>3, <2>4, <2>5
<1>9. s = u
  BY <1>6, <1>7, <1>8, SameSeq
<1>10. QED  BY <1>2, <1>3, <1>5, <1>9 DEF r, s, t, u

\* Whoever follows an entry of the directory reads what was promised for it.
LEMMA ReadAsPromised ==
  ASSUME list \in Seq(Entry), NEW file, LaidOut(file), NEW j \in 1 .. Len(list)
  PROVE  GetFileText(file, Central(list[j], Offset[j - 1])) = Promised(list[j])
<1> DEFINE n == list[j]
           p == Start[j - 1]
           c == Central(n, Offset[j - 1])
           h == file[p + 1]
           piece == file[(p + 1) + 1]
<1>1. /\ PieceAt(file, Offset[j - 1]) = [kind |-> "local", index |-> p + 1]
      /\ h = Local(n)
  BY EntryFound
<1>2. /\ c.name = n.name /\ c.offset = Offset[j - 1] /\ c.uncompressed = n.uncompressed
      /\ c.compressed = n.data.size /\ c.deflate = n.deflate
  BY DEF Central
<1>3. p \in Nat /\ (n.data.form # "none" => file[p + 2] = DataPiece(n))
  BY EntryInFile
<1>4. n \in Entry
  OBVIOUS
<1> HIDE DEF n, c, p
<1>5. /\ n.content \in Content /\ n.compress \in BOOLEAN
      /\ n.deflate = (n.compress /\ ~IsDir(n.full))
      /\ n.uncompressed = Size(n.content) /\ n.data \in Data(n.content, n.compress)
  BY <1>4, EntryFacts
<1>6. h.name = n.name
  BY <1>1 DEF Local
<1>7. GetFileText(file, c) =
        IF n.uncompressed = 0 THEN Empty
        ELSE IF piece.kind = "data" /\ piece.size = n.data.size
                  /\ piece.form = (IF n.deflate THEN "deflated" ELSE "plain")
             THEN piece.of ELSE Lost
  BY <1>1, <1>2, <1>6 DEF GetFileText
<1>8. (p + 1) + 1 = p + 2
  BY <1>3
<1>9. n.data.form # "none" =>
        piece.kind = "data" /\ piece.size = n.data.size /\ piece.form = n.data.form /\ piece.of = n.data.of
  BY <1>3, <1>8 DEF DataPiece
<1> HIDE DEF piece, h
<1> DEFINE size == Size(n.content)
           fits == Packed(n.content) <= Size(n.content)
<1>10. /\ size \in Nat
       /\ size = 0 => n.content = Empty
       /\ size > 0 => n.data.form # "none"
       /\ size > 0 /\ ~n.compress => n.data.form = "plain" /\ n.data.of = n.content
       /\ size > 0 /\ n.compress /\ fits => n.data.form = "deflated" /\ n.data.of = n.content
       /\ size > 0 /\ n.compress /\ ~fits => n.data.form = "cut"
  BY <1>5, DataFacts
<1>11. Promised(n) =
         IF n.compress /\ size > 0 /\ (~fits \/ IsDir(n.full)) THEN Lost ELSE n.content
  <2>1. Packed(n.content) \in Nat /\ Size(n.content) \in Nat
    BY <1>5, ArchiveConstants
  <2>2. (Packed(n.content) > Size(n.content)) <=> ~fits
    BY <2>1
  <2>3. QED  BY <1>5, <2>2 DEF Promised
<1>12. ASSUME size = 0 PROVE GetFileText(file, c) = Promised(n)
  <2>1. GetFileText(file, c) = n.content
    BY <1>5, <1>7, <1>10, <1>12
  <2>2. ~(size > 0)
    BY <1>12
  <2> HIDE DEF size, fits
  <2>3. Promised(n) = n.content
    BY <1>11, <2>2, Zenon
  <2>4. QED  BY <2>1, <2>3
<1>13. ASSUME size > 0 PROVE GetFileText(file, c) = Promised(n)
  <2> DEFINE full == size > 0
             form == n.data.form
             read == IF n.deflate THEN "deflated" ELSE "plain"
  <2>1. n.uncompressed # 0 /\ form # "none"
    BY <1>5, <1>10, <1>13
  <2>2. GetFileText(file, c) = IF form = read THEN n.data.of ELSE Lost
    BY <1>7, <1>9, <2>1
  <2>3. /\ full
        /\ full /\ ~n.compress => form = "plain" /\ n.data.of = n.content
        /\ full /\ n.compress /\ fits => form = "deflated" /\ n.data.of = n.content
        /\ full /\ n.compress /\ ~fits => form = "cut"
    BY <1>10, <1>13
  <2>4. Promised(n) = IF n.compress /\ full /\ (~fits \/ IsDir(n.full)) THEN Lost ELSE n.content
    BY <1>11
  <2>5. read \in {"deflated", "plain"}
    OBVIOUS
  <2> HIDE DEF size, fits, full, form
  <2>6. CASE ~n.compress
    <3>1. n.deflate = FALSE
      BY <1>5, <2>6, Zenon
    <3>2. form = read /\ n.data.of = n.content
      BY <2>3, <2>6, <3>1, Zenon
    <3>3. Promised(n) = n.content
      BY <2>4, <2>6, Zenon
    <3>4. QED  BY <2>2, <3>2, <3>3, Zenon
  <2>7. CASE n.compress /\ ~fits
    <3>1. form = "cut"
      BY <2>3, <2>7, Zenon
    <3>2. form # read
      BY <2>5, <3>1
    <3>3. Promised(n) = Lost
      BY <2>3, <2>4, <2>7, Zenon
    <3>4. QED  BY <2>2, <3>2, <3>3, Zenon
  <2>8. CASE n.compress /\ fits /\ IsDir(n.full)
    <3>1. n.deflate = FALSE
      BY <1>5, <2>8, Zenon
    <3>2. form = "deflated" /\ read = "plain"
      BY <2>3, <2>8, <3>1, Zenon
    <3>3. Promised(n) = Lost
      BY <2>3, <2>4, <2>8, Zenon
    <3>4. QED  BY <2>2, <3>2, <3>3
  <2>9. CASE n.compress /\ fits /\ ~IsDir(n.full)
    <3>1. n.deflate = TRUE
      BY <1>5, <2>9, Zenon
    <3>2. form = read /\ n.data.of = n.content
      BY <2>3, <2>9, <3>1, Zenon
    <3>3. Promised(n) = n.content
      BY <2>4, <2>9, Zenon
    <3>4. QED  BY <2>2, <3>2, <3>3, Zenon
  <2>10. QED  BY <2>6, <2>7, <2>8, <2>9, Zenon
<1>14. GetFileText(file, c) = Promised(n)
  <2>1. size = 0 \/ size > 0
    BY <1>10
  <2>2. QED  BY <1>12, <1>13, <2>1
<1>15. QED  BY <1>14 DEF c, n

\* A file that is laid out shows what is listed.
LEMMA SeenAsListed ==
  ASSUME list \in Seq(Entry), NEW file, LaidOut(file)
  PROVE  SeenIn(file) = ToSet(Listing(list))
<1> DEFINE n == Len(list)
           p == Start[n]
           s == Listing(list)
           m(i) == [name |-> file[i].name, content |-> GetFileText(file, file[i])]
<1>1. /\ n \in Nat /\ p \in Nat /\ OfKind(file, "central") = p + 1 .. p + n /\ IsArchive(file)
      /\ \A j \in 1 .. n : file[p + j] = Central(list[j], Offset[j - 1])
  BY TheDirectory
<1>2. Directory(file) = p + 1 .. p + n
  BY <1>1, LaidOutFits
<1>3. SeenIn(file) = {m(i) : i \in p + 1 .. p + n}
  BY <1>1, <1>2 DEF SeenIn
<1>4. \A j \in 1 .. n : m(p + j) = s[j]
  <2> TAKE j \in 1 .. n
  <2>1. file[p + j] = Central(list[j], Offset[j - 1])
    BY <1>1
  <2>2. GetFileText(file, file[p + j]) = Promised(list[j])
    BY <2>1, ReadAsPromised
  <2>3. file[p + j].name = list[j].name
    BY <2>1 DEF Central
  <2>4. s[j] = [name |-> list[j].name, content |-> Promised(list[j])]
    BY ShownIsList
  <2>5. QED  BY <2>2, <2>3, <2>4
<1>5. ToSet(s) = {s[j] : j \in 1 .. n}
  <2>1. s \in Seq(Member) /\ Len(s) = n
    BY ShownIsList
  <2>2. DOMAIN s = 1 .. n
    BY <2>1
  <2>3. QED  BY <2>2 DEF ToSet
<1>6. \A j \in 1 .. n : p + j \in p + 1 .. p + n
  <2> HIDE DEF n, p
  <2>1. QED  BY <1>1
<1>7. \A i \in p + 1 .. p + n : i - p \in 1 .. n /\ i = p + (i - p)
  <2> HIDE DEF n, p
  <2>1. QED  BY <1>1
<1> HIDE DEF n, p, s, m
<1>8. {m(i) : i \in p + 1 .. p + n} = {s[j] : j \in 1 .. n}
  <2>1. \A i \in p + 1 .. p + n : m(i) \in {s[j] : j \in 1 .. n}
    <3> TAKE i \in p + 1 .. p + n
    <3>1. m(p + (i - p)) = s[i - p] /\ i - p \in 1 .. n  BY <1>4, <1>7
    <3>2. m(i) = s[i - p]
      <4>1. i = p + (i - p)  BY <1>7
      <4>2. QED  BY <3>1, <4>1
    <3>3. QED  BY <3>1, <3>2
  <2>2. \A j \in 1 .. n : s[j] \in {m(i) : i \in p + 1 .. p + n}
    BY <1>4, <1>6
  <2>3. QED  BY <2>1, <2>2
<1>9. QED  BY <1>3, <1>5, <1>8 DEF s

-----------------------------------------------------------------------------
\* What can become of the list in a step: it stays, is emptied, has an entry
\* more or less, or one exchanged.
Grown(k, l)     == \E n : k = Append(l, n)
Shrunk(k, l)    == \E i \in 1 .. Len(l) : k = RemoveAt(l, i)
Exchanged(k, l) == \E i \in 1 .. Len(l) : \E n : k = Append(RemoveAt(l, i), n)

Reworked(k, l) == k = l \/ k = <<>> \/ Grown(k, l) \/ Shrunk(k, l) \/ Exchanged(k, l)

\* The operators on sequences are the same in both specifications.
LEMMA SameOperators ==
  /\ \A s : Promise!Front(s) = Front(s) /\ Promise!ToSet(s) = ToSet(s)
  /\ \A s, i : Promise!RemoveAt(s, i) = RemoveAt(s, i)
BY DEF Front, Promise!Front, ToSet, Promise!ToSet, RemoveAt, Promise!RemoveAt

\* Such a step is one of the abstract specification.
LEMMA ReworkedIsStep ==
  ASSUME list \in Seq(Entry), list' \in Seq(Entry), disk' = disk, Reworked(list', list)
  PROVE  [Promise!Next]_(Promise!vars)
<1>1. Listed = Listing(list) /\ Listed' = Listing(list')
  BY DEF Listed, Listing
<1>2. Seen' = Seen
  BY DEF Seen
<1>3. CASE list' = list
  <2>1. Listed' = Listed
    BY <1>1, <1>3
  <2>2. QED  BY <1>2, <2>1 DEF Promise!vars
<1>4. CASE list' = <<>>
  <2>1. Listed' = <<>>
    BY <1>1, <1>4 DEF Listing
  <2>2. Promise!List
    BY <1>2, <2>1 DEF Promise!List
  <2>3. QED  BY <2>2 DEF Promise!Next
<1>5. CASE Grown(list', list)
  <2>1. PICK n : list' = Append(list, n)
    BY <1>5 DEF Grown
  <2>2. Listing(list') # <<>> /\ Front(Listing(list')) = Listing(list)
    BY <2>1, ShownAdded
  <2>3. Listed' # <<>> /\ Front(Listed') = Listed
    BY <1>1, <2>2
  <2>4. Promise!List
    BY <1>2, <2>3, SameOperators DEF Promise!List
  <2>5. QED  BY <2>4 DEF Promise!Next
<1>6. CASE Shrunk(list', list)
  <2>1. PICK i \in 1 .. Len(list) : list' = RemoveAt(list, i)
    BY <1>6 DEF Shrunk
  <2>2. i \in 1 .. Len(Listing(list)) /\ Listing(list') = RemoveAt(Listing(list), i)
    BY <2>1, ShownRemoved
  <2>3. i \in 1 .. Len(Listed) /\ Listed' = RemoveAt(Listed, i)
    BY <1>1, <2>2
  <2>4. Promise!List
    BY <1>2, <2>3, SameOperators DEF Promise!List
  <2>5. QED  BY <2>4 DEF Promise!Next
<1>7. CASE Exchanged(list', list)
  <2>0. PICK i \in 1 .. Len(list) : \E n : list' = Append(RemoveAt(list, i), n)
    BY <1>7 DEF Exchanged
  <2>1. PICK n : list' = Append(RemoveAt(list, i), n)
    BY <2>0
  <2> DEFINE r == RemoveAt(list, i)
  <2>2. /\ r \in Seq(Entry) /\ Len(r) = Len(list) - 1
        /\ i \in 1 .. Len(Listing(list)) /\ Len(Listing(list)) = Len(list)
        /\ Listing(r) = RemoveAt(Listing(list), i)
    BY ShownRemoved
  <2> HIDE DEF r
  <2>3. /\ Front(Listing(Append(r, n))) = Listing(r) /\ Len(Listing(Append(r, n))) = Len(r) + 1
    BY <2>1, <2>2, ShownAdded DEF r
  <2>4. Len(list) \in Nat
    OBVIOUS
  <2>5. Front(Listed') = RemoveAt(Listed, i) /\ i \in 1 .. Len(Listed)
    BY <1>1, <2>1, <2>2, <2>3 DEF r
  <2>6. Len(Listed') = Len(Listed)
    <3>1. Listed' = Listing(Append(r, n))
      BY <1>1, <2>1 DEF r
    <3>2. QED  BY <1>1, <2>2, <2>3, <2>4, <3>1
  <2>7. Promise!Exchange
    BY <1>2, <2>5, <2>6, SameOperators DEF Promise!Exchange
  <2>8. QED  BY <2>7 DEF Promise!Next
<1>8. QED  BY <1>3, <1>4, <1>5, <1>6, <1>7 DEF Reworked

\* AddFile of a path by its caller adds an entry or none.
LEMMA StartAdds ==
  ASSUME NEW l, NEW p, NEW b, StartAdd(p, b, l)
  PROVE  list' = l \/ Grown(list', l)
BY DEF StartAdd, Grown

\* Every call that changes the list reworks it.
LEMMA CallsRework ==
  ASSUME ListInv,
         \/ \E path \in Path, compress \in BOOLEAN : AddFile(path, compress)
         \/ \E part \in Part, compress \in BOOLEAN : AddContent(part, compress)
         \/ WalkFile \/ WalkInto \/ WalkLeaves \/ WalkReturns
         \/ \E path \in Path : RemoveFile(path)
         \/ \E old, new \in Path, compress \in BOOLEAN : ReplaceFile(old, new, compress)
         \/ Reset
  PROVE  disk' = disk /\ Reworked(list', list)
<1>1. list \in Seq(Entry)
  BY DEF ListInv
<1>2. CASE \E path \in Path, compress \in BOOLEAN : AddFile(path, compress)
  <2>1. PICK path \in Path, compress \in BOOLEAN : AddFile(path, compress)
    BY <1>2
  <2>2. disk' = disk /\ StartAdd(path, compress, list)
    BY <2>1 DEF AddFile
  <2>3. QED  BY <2>2, StartAdds DEF Reworked
<1>3. CASE \E part \in Part, compress \in BOOLEAN : AddContent(part, compress)
  BY <1>3 DEF AddContent, Reworked, Grown
<1>4. CASE WalkFile
  BY <1>4 DEF WalkFile, Reworked, Grown
<1>5. CASE WalkInto
  BY <1>5 DEF WalkInto, Reworked
<1>6. CASE WalkLeaves
  BY <1>6 DEF WalkLeaves, Reworked
<1>7. CASE WalkReturns
  BY <1>7 DEF WalkReturns, Reworked, Grown
<1>8. CASE \E path \in Path : RemoveFile(path)
  <2>1. PICK path \in Path : RemoveFile(path)
    BY <1>8
  <2>2. disk' = disk /\ list' = Removed(path) /\ Matches(path) # {}
    BY <2>1 DEF RemoveFile, Removable
  <2>3. QED  BY <1>1, <2>2, EntryRemoved DEF Reworked, Shrunk
<1>9. CASE \E old, new \in Path, compress \in BOOLEAN : ReplaceFile(old, new, compress)
  <2>1. PICK old \in Path, new \in Path, compress \in BOOLEAN : ReplaceFile(old, new, compress)
    BY <1>9
  <2>2. disk' = disk /\ Matches(old) # {} /\ StartAdd(new, compress, Removed(old))
    BY <2>1 DEF ReplaceFile, Removable
  <2>3. PICK i \in 1 .. Len(list) : Removed(old) = RemoveAt(list, i)
    BY <1>1, <2>2, EntryRemoved
  <2>4. list' = Removed(old) \/ Grown(list', Removed(old))
    BY <2>2, StartAdds
  <2>5. CASE list' = Removed(old)
    BY <2>2, <2>3, <2>5 DEF Reworked, Shrunk
  <2>6. CASE Grown(list', Removed(old))
    <3>1. PICK n : list' = Append(RemoveAt(list, i), n)
      BY <2>3, <2>6 DEF Grown
    <3>2. Exchanged(list', list)
      BY <3>1 DEF Exchanged
    <3>3. QED  BY <2>2, <3>2 DEF Reworked
  <2>7. QED  BY <2>4, <2>5, <2>6
<1>10. CASE Reset
  BY <1>10 DEF Reset, Reworked
<1>11. QED  BY <1>2, <1>3, <1>4, <1>5, <1>6, <1>7, <1>8, <1>9, <1>10

\* Writing publishes the list, or loses the archive.
LEMMA WritesAsPromised ==
  ASSUME ListInv, FlushToZip \/ FlushFails
  PROVE  [Promise!Next]_(Promise!vars)
<1>1. list \in Seq(Entry)
  BY DEF ListInv
<1>2. list' = list
  BY DEF FlushToZip, FlushFails
<1>3. Listed = Listing(list) /\ Listed' = Listed
  BY <1>2 DEF Listed, Listing
<1>4. Seen' = SeenIn(disk')
  BY DEF Seen, SeenIn
<1>5. LaidOut(Pieces)
  BY <1>1, PiecesLaidOut
<1>6. CASE FlushToZip
  <2>1. disk' = Pieces
    BY <1>6 DEF FlushToZip
  <2>2. SeenIn(Pieces) = ToSet(Listing(list))
    BY <1>1, <1>5, SeenAsListed
  <2>3. Seen' = ToSet(Listed)
    BY <1>3, <1>4, <2>1, <2>2
  <2>4. Promise!Publish
    BY <1>3, <2>3, SameOperators DEF Promise!Publish
  <2>5. QED  BY <2>4 DEF Promise!Next
<1>7. CASE FlushFails
  <2> DEFINE pieces == Pieces
  <2>1. PICK last \in 0 .. Len(pieces) - 1 : disk' = SubSeq(pieces, 1, last)
    BY <1>7 DEF FlushFails
  <2> HIDE DEF pieces
  <2>2. LaidOut(pieces)
    BY <1>5 DEF pieces
  <2>3. ~IsArchive(disk')
    BY <1>1, <2>1, <2>2, CutOff
  <2>4. Seen' = NoArchive
    BY <1>4, <2>3 DEF SeenIn
  <2>5. Promise!Lose
    BY <1>3, <2>4 DEF Promise!Lose
  <2>6. QED  BY <2>5 DEF Promise!Next
<1>8. QED  BY <1>6, <1>7

\* Members are listed, and whoever opens the archive sees what was listed when
\* it was written, all of it, or no archive: no order of additions, removals and
\* writes that fail shows a part, an older list or another content under a name
\* (CCreateZip writes it, CCZip reads it).
THEOREM ArchiveRefines == ZipSpec => KeepsItsPromise
<1>1. ZipInit => Promise!Init
  <2> SUFFICES ASSUME ZipInit PROVE Promise!Init
    OBVIOUS
  <2>1. list = <<>> /\ disk = <<>>
    BY DEF ZipInit
  <2>2. Listed = <<>> /\ Seen = NoArchive
    BY <2>1 DEF Listed, Seen, IsArchive
  <2>3. QED  BY <2>2 DEF Promise!Init
<1>2. ArchiveInv /\ ArchiveInv' /\ [ZipNext]_zipVars => [Promise!Next]_(Promise!vars)
  <2> SUFFICES ASSUME ArchiveInv, ArchiveInv', [ZipNext]_zipVars PROVE [Promise!Next]_(Promise!vars)
    OBVIOUS
  <2>1. ListInv /\ list \in Seq(Entry) /\ list' \in Seq(Entry)
    BY DEF ArchiveInv, ListInv
  <2>2. CASE FlushToZip \/ FlushFails
    BY <2>1, <2>2, WritesAsPromised
  <2>3. CASE ZipNext /\ ~(FlushToZip \/ FlushFails)
    <3>1. disk' = disk /\ Reworked(list', list)
      BY <2>1, <2>3, CallsRework DEF ZipNext
    <3>2. QED  BY <2>1, <3>1, ReworkedIsStep
  <2>4. CASE UNCHANGED zipVars
    <3>1. list' = list /\ disk' = disk
      BY <2>4 DEF zipVars
    <3>2. Reworked(list', list)
      BY <3>1 DEF Reworked
    <3>3. QED  BY <2>1, <3>1, <3>2, ReworkedIsStep
  <2>5. QED  BY <2>2, <2>3, <2>4
<1>3. QED
  BY <1>1, <1>2, ArchiveInvInit, ArchiveStep, PTL DEF ZipSpec, KeepsItsPromise, Promise!Spec
=============================================================================
