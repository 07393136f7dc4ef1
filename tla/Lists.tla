-------------------------------- MODULE Lists --------------------------------
(* The list styles and bullets of CPara and CBullets (Engine/src/Para.cpp,    *)
(* Bullet.cpp), driven by CTextXML (XML.cpp:994 and 1205).                    *)
(*                                                                            *)
(* A list style has its levels and counts how deep lists of it are nested;    *)
(* iBulletPos is the list style in use.  Positions count from 1: 0 is the -1  *)
(* of the code.  Numbers stand for the digits, Bullet for the character that  *)
(* follows 9, z and Z.  NoName is the name of a style not yet named, and that *)
(* of a list without a style.                                                 *)
EXTENDS Integers, ParaStyles

CONSTANTS
    ListNames,      \* the list styles
    Digits,         \* the last digit
    MaxStyles,      \* bound: declarations of list styles
    MaxLevels,      \* bound: levels of a list style
    MaxLists,       \* bound: lists of the document
    MaxItems,       \* bound: list items of the document
    MaxDepth        \* bound: nesting of lists

\* There is a digit, and the mark for a missing name is no name.
ASSUME ListConstants ==
    /\ Digits \in Nat \ {0} /\ NoName \notin ListNames
    /\ {MaxStyles, MaxLevels, MaxLists, MaxItems, MaxDepth} \subseteq Nat

Bullet == Digits + 1

VARIABLES
    iBullets,       \* the list styles: name, levels, and iLevel
    iBulletPos,     \* the list style in use
    listCrashed,    \* an index out of range, or a name that is NULL
    inListStyle,    \* environment: inside text:list-style
    listStyles,     \* environment: declarations so far
    openLists,      \* environment: the open lists, innermost first
    lists,          \* environment: lists so far
    items,          \* environment: list items so far
    foreign,        \* history: a list stood in one of another style
    short,          \* history: a list was deeper than its style has levels
    unstyled,       \* history: a list had no style, or an undeclared one
    late            \* history: a style was declared after another was used

bullets == <<iBullets, iBulletPos>>
listDocument == <<inListStyle, listStyles, openLists, lists, items>>
listHistory == <<foreign, short, unstyled, late>>
listVars == <<bullets, listCrashed, listDocument, listHistory>>

LevelTypes == {"numeric", "fixed"}
StyleInUse == iBullets[iBulletPos]
DeclaredNames == {iBullets[i].name : i \in DOMAIN iBullets} \ {NoName}

------------------------------------------------------------------------------
ListsInit ==
    /\ iBullets = <<>> /\ iBulletPos = 0 /\ listCrashed = FALSE
    /\ inListStyle = FALSE /\ listStyles = 0 /\ openLists = <<>> /\ lists = 0 /\ items = 0
    /\ foreign = FALSE /\ short = FALSE /\ unstyled = FALSE /\ late = FALSE

\* text:list-style: the new style is the last, and the next of the one in use
\* gets its name.
AddBulletItem(name) ==
    /\ ~listCrashed /\ ~inListStyle /\ openLists = <<>> /\ listStyles < MaxStyles
    /\ name \in ListNames \ DeclaredNames
    /\ LET added == Append(iBullets, [name |-> NoName, levels |-> <<>>, level |-> 0])
       IN  iBullets' = [added EXCEPT ![iBulletPos + 1].name = name]
    /\ iBulletPos' = iBulletPos + 1
    /\ inListStyle' = TRUE /\ listStyles' = listStyles + 1
    /\ late' = (late \/ iBulletPos # Len(iBullets))
    /\ UNCHANGED <<listCrashed, openLists, lists, items, foreign, short, unstyled>>

\* text:list-level-style-number, -bullet, -image: one more level.
AddBullet(type) ==
    /\ ~listCrashed /\ inListStyle /\ Len(StyleInUse.levels) < MaxLevels
    /\ LET level == [type |-> type, char |-> IF type = "numeric" THEN 1 ELSE Bullet]
       IN  iBullets' = [iBullets EXCEPT ![iBulletPos].levels = Append(@, level)]
    /\ UNCHANGED <<iBulletPos, listCrashed, listDocument, listHistory>>

\* The end of text:list-style: a style without levels gets one.
VerifyBullets ==
    /\ ~listCrashed /\ inListStyle
    /\ iBullets' = [iBullets EXCEPT ![iBulletPos].levels =
           IF @ = <<>> THEN <<[type |-> "numeric", char |-> 1]>> ELSE @]
    /\ inListStyle' = FALSE
    /\ UNCHANGED <<iBulletPos, listCrashed, listStyles, openLists, lists, items, listHistory>>

\* The list style of a name: found, not found (0), or a NULL name on the way.
FoundStyles(name) ==
    {i \in DOMAIN iBullets :
        /\ iBullets[i].name \in {name, NoName}
        /\ \A j \in 1..(i - 1) : iBullets[j].name \notin {name, NoName}}
\* Mutant of BulletIndex: the last style declared.
BulletIndexLast(name) == IF name = NoName THEN iBulletPos ELSE Len(iBullets)
BulletIndex(name) ==
    IF name = NoName \/ FoundStyles(name) = {} THEN iBulletPos
    ELSE CHOOSE i \in FoundStyles(name) : TRUE

\* What the document wants of the innermost of these lists: the style that it
\* or the nearest list around it names.
StyleOf(ls) ==
    IF \E i \in DOMAIN ls : ls[i].style # NoName
    THEN ls[CHOOSE i \in DOMAIN ls :
               ls[i].style # NoName /\ \A j \in 1..(i - 1) : ls[j].style = NoName].style
    ELSE NoName

\* text:list: GetBulletIndex, IncBulletLevel.
StartList(name) ==
    /\ ~listCrashed /\ ~inListStyle /\ lists < MaxLists /\ Len(openLists) < MaxDepth
    /\ openLists # <<>> => Head(openLists).item
    /\ LET i == BulletIndex(name)
           ls == <<[style |-> name, item |-> FALSE]>> \o openLists
       IN  /\ IF name # NoName /\ i \in FoundStyles(name) /\ iBullets[i].name = NoName
              THEN listCrashed' = TRUE /\ UNCHANGED bullets
              ELSE /\ iBulletPos' = i
                   /\ iBullets' = IF i = 0 THEN iBullets
                                  ELSE [iBullets EXCEPT ![i].level = @ + 1]
                   /\ UNCHANGED listCrashed
           /\ openLists' = ls
           /\ foreign' = (foreign \/ (openLists # <<>> /\ StyleOf(ls) # StyleOf(openLists)))
           /\ unstyled' = (unstyled \/ StyleOf(ls) \notin DeclaredNames)
           /\ short' = (short \/ (i # 0 /\ iBullets[i].level >= Len(iBullets[i].levels)))
    /\ lists' = lists + 1
    /\ UNCHANGED <<inListStyle, listStyles, items, late>>

InRange == iBulletPos # 0 /\ StyleInUse.level \in DOMAIN StyleInUse.levels
CurrentLevel == StyleInUse.levels[StyleInUse.level]
WithChar(char) ==
    [iBullets EXCEPT ![iBulletPos].levels[StyleInUse.level].char = char]

\* text:list-item: with text:start-value a numeric level goes on from there; a
\* value of several digits is shown as a bullet.
StartItem(start) ==
    /\ ~listCrashed /\ openLists # <<>> /\ ~Head(openLists).item /\ items < MaxItems
    /\ IF start = 0 THEN UNCHANGED <<iBullets, listCrashed>>
       ELSE IF ~InRange THEN listCrashed' = TRUE /\ UNCHANGED iBullets
       ELSE /\ iBullets' = IF CurrentLevel.type = "numeric" THEN WithChar(start)
                           ELSE iBullets
            /\ UNCHANGED listCrashed
    /\ openLists' = [openLists EXCEPT ![1].item = TRUE] /\ items' = items + 1
    /\ UNCHANGED <<iBulletPos, inListStyle, listStyles, lists, listHistory>>

\* text:p in the item, with a style: ReadBulletChar reads the character.
ReadBulletChar ==
    /\ ~listCrashed /\ openLists # <<>> /\ Head(openLists).item
    /\ listCrashed' = ~InRange
    /\ UNCHANGED <<bullets, listDocument, listHistory>>

IncreaseChar(level) ==
    [level EXCEPT !.char =
        IF level.type # "numeric" THEN @
        ELSE IF @ \in {Digits, Bullet} THEN Bullet ELSE @ + 1]

\* The end of text:list-item: IncChar.
EndItem ==
    /\ ~listCrashed /\ openLists # <<>> /\ Head(openLists).item
    /\ IF InRange
       THEN /\ iBullets' = [iBullets EXCEPT
                 ![iBulletPos].levels[StyleInUse.level] = IncreaseChar(CurrentLevel)]
            /\ UNCHANGED listCrashed
       ELSE listCrashed' = TRUE /\ UNCHANGED iBullets
    /\ openLists' = [openLists EXCEPT ![1].item = FALSE]
    /\ UNCHANGED <<iBulletPos, inListStyle, listStyles, lists, items, listHistory>>

\* The end of text:list: DecBulletLevel of the style in use, whichever that is.
EndList ==
    /\ ~listCrashed /\ openLists # <<>> /\ ~Head(openLists).item
    /\ openLists' = Tail(openLists)
    /\ iBullets' = IF iBulletPos = 0 THEN iBullets
                   ELSE [iBullets EXCEPT ![iBulletPos].level = @ - 1]
    /\ UNCHANGED <<iBulletPos, listCrashed, inListStyle, listStyles, lists, items, listHistory>>

ListsNext ==
    \/ \E name \in ListNames : AddBulletItem(name)
    \/ \E type \in LevelTypes : AddBullet(type)
    \/ VerifyBullets
    \/ \E name \in ListNames \cup {NoName} : StartList(name)
    \/ \E start \in {0, Digits, Bullet} : StartItem(start)
    \/ ReadBulletChar \/ EndItem \/ EndList

ListsSpec == ListsInit /\ [][ListsNext]_listVars

------------------------------------------------------------------------------
(* Properties.                                                                *)

\* Documents whose lists stand in lists of their own style, which is declared,
\* with levels enough, and before any list is used.
Plain == ~foreign /\ ~unstyled /\ ~late

\* Type invariant.
ListsTypeOK ==
    /\ \A i \in DOMAIN iBullets :
          /\ iBullets[i].name \in ListNames \cup {NoName}
          /\ iBullets[i].level \in Int
          /\ iBullets[i].levels \in
                Seq([type : LevelTypes, char : 1..Bullet])
    /\ iBulletPos \in 0..Len(iBullets)
    /\ openLists \in Seq([style : ListNames \cup {NoName}, item : BOOLEAN])
    /\ {listCrashed, inListStyle, foreign, short, unstyled, late} \subseteq BOOLEAN

\* Items, numbers and bullets never index outside the levels of a style.
ItemsInRange == Plain /\ ~short => ~listCrashed

\* The assertion of ~CBullets (Bullet.cpp:125): when all lists have ended, no
\* style is left at a level.
LevelsReturn ==
    Plain /\ ~listCrashed /\ openLists = <<>> =>
        \A i \in DOMAIN iBullets : iBullets[i].level = 0

\* An item is shown with the style its list asks for, at the depth of its list.
RightLevel ==
    Plain /\ ~listCrashed /\ openLists # <<>> =>
        StyleInUse.name = StyleOf(openLists) /\ StyleInUse.level = Len(openLists)

\* Every list style can be found under its name, and is found first.
NamesKept ==
    ~late => \A i, j \in DOMAIN iBullets :
        /\ iBullets[i].name # NoName
        /\ iBullets[i].name = iBullets[j].name => i = j

\* Lists in lists go to their levels and come back from them, with the bullets of
\* the styles they ask for.
ListsShown == ListsTypeOK /\ ItemsInRange /\ LevelsReturn /\ RightLevel /\ NamesKept
==============================================================================
