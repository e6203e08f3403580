---------------------------- MODULE DesktopProofs ----------------------------
(***************************************************************************)
(* What runs beside the exchange between programs and shell, for desktops, *)
(* screens, logs and images of any size: a shortcut is never lost or taken *)
(* for another (DeskIcons), no gesture loses a window (WinGeometry), the   *)
(* viewer of the log shows a line as it was written (SysLog), and the      *)
(* image that the boot chooser enters is whole (Boot).                     *)
(***************************************************************************)
EXTENDS DeskIcons, WinGeometry, SysLog, Boot,
        TLAPS, SequenceTheorems, FiniteSetTheorems, WellFoundedInduction
-----------------------------------------------------------------------------
(* The desktop shortcuts                                                   *)

Icons == [id : 1..MAXDESK + 1, user : START \cup {BuiltIn}, pos : Places]

\* The built-in icons come first, and no two icons are the same one.
WellFormed(icons) ==
  /\ icons \in Seq(Icons) /\ DEFAULT_N <= Len(icons) /\ Len(icons) <= MAXDESK
  /\ \A k \in 1..Len(icons) : icons[k].user = BuiltIn <=> k <= DEFAULT_N
  /\ \A j, k \in 1..Len(icons) : icons[j].id = icons[k].id => j = k

DragOK ==
  /\ drag \in [held : BOOLEAN, moved : BOOLEAN, kind : {"none", "start", "icon"}, target : START \cup Nat]
  /\ drag.kind = "start" => drag.target \in START

IconsInv ==
  /\ WellFormed(desk) /\ vmu = UserEntries(desk)
  /\ DragOK /\ cursor \in Places
  /\ ContextOnItsIcon

-----------------------------------------------------------------------------
LEMMA DeskNumbers ==
  /\ DEFAULT_N \in Nat /\ DEFAULT_N > 0 /\ MAXDESK \in Nat /\ NPLACES \in Nat
  /\ DEFAULT_N <= MAXDESK /\ DEFAULT_N <= NPLACES /\ 0 \notin START
BY DeskIconsAssumption

LEMMA SmallestNat ==
  ASSUME NEW T, T \subseteq Nat, T # {}
  PROVE  \E x \in T : \A y \in T : x <= y
<1> DEFINE R == OpToRel(<, Nat)
<1>1. IsWellFoundedOn(R, Nat)
  BY NatLessThanWellFounded
<1>2. R = {ss \in Nat \X Nat : ss[1] < ss[2]}
  BY DEF OpToRel
<1> HIDE DEF R
<1>3. PICK x \in T : \A y \in T : ~(<<y, x>> \in R)
  BY <1>1, WFMin, Zenon
<1>4. ASSUME NEW y \in T PROVE x <= y
  <2>1. x \in Nat /\ y \in Nat /\ ~(<<y, x>> \in R)
    BY <1>3
  <2> QED
    BY <1>2, <2>1
<1> QED
  BY <1>4

LEMMA MinIsThere == ASSUME NEW T, T \subseteq Nat, T # {} PROVE Min(T) \in T
BY SmallestNat DEF Min

\* The icon under the cursor is one of the desktop.
LEMMA IconAtIsThere ==
  ASSUME WellFormed(desk), NEW p PROVE IconAt(p) = 0 \/ IconAt(p) \in 1..Len(desk)
<1> DEFINE hit == {k \in DOMAIN desk : desk[k].pos = p}
<1>1. DOMAIN desk = 1..Len(desk) /\ Len(desk) \in Nat
  BY DEF WellFormed
<1>2. hit \subseteq 1..Len(desk) /\ hit \subseteq Nat
  BY <1>1
<1>3. IconAt(p) = IF hit = {} THEN 0 ELSE Min(hit)
  BY DEF IconAt
<1> HIDE DEF hit
<1> QED
  BY <1>2, <1>3, MinIsThere

\* A new icon is told apart from all that are there.
LEMMA NewIdIsNew ==
  ASSUME NEW icons, WellFormed(icons), Len(icons) < MAXDESK
  PROVE  NewId(icons) \in 1..MAXDESK + 1 /\ \A k \in 1..Len(icons) : icons[k].id # NewId(icons)
<1> DEFINE used == {icons[k].id : k \in 1..Len(icons)}
           free == (1..MAXDESK + 1) \ used
<1>1. Len(icons) \in Nat /\ DOMAIN icons = 1..Len(icons)
  BY DEF WellFormed
<1>2. IsFiniteSet(1..Len(icons)) /\ Cardinality(1..Len(icons)) = Len(icons)
  <2>1. 1 \in Int /\ Len(icons) \in Int
    BY <1>1
  <2>2. /\ IsFiniteSet(1..Len(icons))
        /\ Cardinality(1..Len(icons)) = IF 1 > Len(icons) THEN 0 ELSE Len(icons) - 1 + 1
    BY <2>1, FS_Interval
  <2> QED
    BY <1>1, <2>2
<1>3. IsFiniteSet(used) /\ Cardinality(used) <= Len(icons)
  <2> DEFINE number == [k \in 1..Len(icons) |-> icons[k].id]
  <2>1. number \in Surjection(1..Len(icons), used)
    BY DEF Surjection
  <2> QED
    BY <1>2, <2>1, FS_Surjection
<1>4. Cardinality(1..MAXDESK + 1) = MAXDESK + 1 /\ IsFiniteSet(1..MAXDESK + 1)
  <2>1. 1 \in Int /\ MAXDESK + 1 \in Int /\ MAXDESK + 1 >= 1
    BY DeskNumbers
  <2>2. Cardinality(1..MAXDESK + 1) = (MAXDESK + 1) - 1 + 1
    BY <2>1, DeskNumbers, FS_Interval
  <2> QED
    BY <2>1, <2>2, DeskNumbers, FS_Interval
<1>5. free # {}
  <2> SUFFICES ASSUME 1..MAXDESK + 1 \subseteq used PROVE FALSE
    OBVIOUS
  <2>1. Cardinality(1..MAXDESK + 1) <= Cardinality(used)
    BY <1>3, FS_Subset
  <2>2. Cardinality(used) \in Nat
    BY <1>3, FS_CardinalityType
  <2> HIDE DEF used
  <2> QED
    BY <1>1, <1>3, <1>4, <2>1, <2>2, DeskNumbers
<1>6. NewId(icons) = Min(free)
  BY <1>1 DEF NewId
<1>7. free \subseteq Nat
  BY DeskNumbers
<1>8. NewId(icons) \in free
  BY <1>5, <1>6, <1>7, MinIsThere
<1> QED
  BY <1>8

\* The saved entries are the icons after the built-in ones.
LEMMA EntriesAre ==
  ASSUME NEW icons, WellFormed(icons)
  PROVE  UserEntries(icons) =
           [j \in 1..Len(icons) - DEFAULT_N |-> <<icons[DEFAULT_N + j].user, icons[DEFAULT_N + j].pos>>]
<1> DEFINE S == DEFAULT_N + 1..Len(icons)
<1>1. Len(icons) \in Nat /\ DOMAIN icons = 1..Len(icons) /\ DEFAULT_N \in Nat /\ DEFAULT_N <= Len(icons)
  BY DeskNumbers DEF WellFormed
<1>2. Users(icons) = S
  BY <1>1 DEF Users, WellFormed
<1>3. \A k \in DEFAULT_N..Len(icons) : Cardinality(DEFAULT_N + 1..k) = k - DEFAULT_N
  <2> SUFFICES ASSUME NEW k \in DEFAULT_N..Len(icons) PROVE Cardinality(DEFAULT_N + 1..k) = k - DEFAULT_N
    OBVIOUS
  <2>1. DEFAULT_N + 1 \in Int /\ k \in Int
    BY <1>1
  <2>2. Cardinality(DEFAULT_N + 1..k) = IF DEFAULT_N + 1 > k THEN 0 ELSE k - (DEFAULT_N + 1) + 1
    BY <2>1, FS_Interval
  <2> QED
    BY <1>1, <2>2
<1>4. Cardinality(S) = Len(icons) - DEFAULT_N
  <2>1. Len(icons) \in DEFAULT_N..Len(icons)
    BY <1>1
  <2> QED
    BY <1>3, <2>1
<1>5. \A k \in S : {i \in S : i <= k} = DEFAULT_N + 1..k /\ k \in DEFAULT_N..Len(icons)
  BY <1>1
<1>6. \A k \in S : Cardinality({i \in S : i <= k}) = k - DEFAULT_N
  BY <1>3, <1>5
<1>7. ASSUME NEW j \in 1..Len(icons) - DEFAULT_N PROVE Nth(S, j) = DEFAULT_N + j
  <2>1. DEFAULT_N + j \in S /\ (DEFAULT_N + j) - DEFAULT_N = j
    BY <1>1
  <2>2. \A k \in S : k - DEFAULT_N = j => k = DEFAULT_N + j
    BY <1>1
  <2>3. \A k \in S : Cardinality({i \in S : i <= k}) = j <=> k = DEFAULT_N + j
    BY <1>6, <2>1, <2>2
  <2> HIDE DEF S
  <2>4. Nth(S, j) = CHOOSE k \in S : Cardinality({i \in S : i <= k}) = j
    BY DEF Nth
  <2>5. \E k \in S : Cardinality({i \in S : i <= k}) = j
    BY <2>1, <2>3
  <2> QED
    BY <2>3, <2>4, <2>5
<1> HIDE DEF S
<1> QED
  BY <1>2, <1>4, <1>7 DEF UserEntries

LEMMA RemoveAtIs ==
  ASSUME NEW S, NEW s \in Seq(S), NEW i \in 1..Len(s)
  PROVE  /\ RemoveAt(s, i) \in Seq(S) /\ Len(RemoveAt(s, i)) = Len(s) - 1
         /\ \A j \in 1..Len(s) - 1 : RemoveAt(s, i)[j] = IF j < i THEN s[j] ELSE s[j + 1]
<1> DEFINE a == SubSeq(s, 1, i - 1)
           b == SubSeq(s, i + 1, Len(s))
<1>1. Len(s) \in Nat /\ \A j \in 1..Len(s) : s[j] \in S
  BY ElementOfSeq
<1>2. /\ a \in Seq(S) /\ Len(a) = IF 1 <= i - 1 THEN i - 1 - 1 + 1 ELSE 0
      /\ \A j \in 1..i - 1 - 1 + 1 : a[j] = s[1 + j - 1]
  <2>1. \A j \in 1..i - 1 : s[j] \in S
    BY <1>1
  <2> QED
    BY <2>1, SubSeqProperties
<1>3. /\ b \in Seq(S) /\ Len(b) = IF i + 1 <= Len(s) THEN Len(s) - (i + 1) + 1 ELSE 0
      /\ \A j \in 1..Len(s) - (i + 1) + 1 : b[j] = s[i + 1 + j - 1]
  <2>1. \A j \in i + 1..Len(s) : s[j] \in S
    BY <1>1
  <2> QED
    BY <1>1, <2>1, SubSeqProperties
<1> HIDE DEF a, b
<1>4. Len(a) = i - 1 /\ \A j \in 1..i - 1 : a[j] = s[j]
  BY <1>2
<1>5. Len(b) = Len(s) - i /\ \A j \in 1..Len(s) - i : b[j] = s[i + j]
  BY <1>1, <1>3
<1>6. /\ a \o b \in Seq(S) /\ Len(a \o b) = Len(a) + Len(b)
      /\ \A j \in 1..Len(a) + Len(b) : (a \o b)[j] = IF j <= Len(a) THEN a[j] ELSE b[j - Len(a)]
  BY <1>2, <1>3, ConcatProperties
<1>7. RemoveAt(s, i) = a \o b
  BY DEF RemoveAt, a, b
<1>8. Len(a) + Len(b) = Len(s) - 1
  BY <1>1, <1>4, <1>5
<1>9. ASSUME NEW j \in 1..Len(s) - 1 PROVE (a \o b)[j] = IF j < i THEN s[j] ELSE s[j + 1]
  <2>1. CASE j < i
    <3>1. j <= Len(a) /\ j \in 1..i - 1
      BY <1>4, <2>1
    <3> QED
      BY <1>4, <1>6, <1>8, <2>1, <3>1
  <2>2. CASE ~(j < i)
    <3>1. ~(j <= Len(a)) /\ j - Len(a) \in 1..Len(s) - i /\ i + (j - Len(a)) = j + 1
      BY <1>1, <1>4, <2>2
    <3> QED
      BY <1>5, <1>6, <1>8, <2>2, <3>1
  <2> QED
    BY <2>1, <2>2
<1> QED
  BY <1>6, <1>7, <1>8, <1>9

-----------------------------------------------------------------------------
Entries == START \X Places

\* What is saved of a desktop.
LEMMA SavedAre ==
  ASSUME NEW icons, WellFormed(icons)
  PROVE  UserEntries(icons) \in Seq(Entries) /\ Len(UserEntries(icons)) = Len(icons) - DEFAULT_N
<1>1. Len(icons) \in Nat /\ \A k \in 1..Len(icons) : icons[k] \in Icons
  BY ElementOfSeq DEF WellFormed
<1>2. Len(icons) - DEFAULT_N \in Nat
  BY <1>1, DeskNumbers DEF WellFormed
<1>3. ASSUME NEW j \in 1..Len(icons) - DEFAULT_N
      PROVE  <<icons[DEFAULT_N + j].user, icons[DEFAULT_N + j].pos>> \in Entries
  <2>1. DEFAULT_N + j \in 1..Len(icons) /\ ~(DEFAULT_N + j <= DEFAULT_N)
    BY <1>1, DeskNumbers
  <2>2. icons[DEFAULT_N + j].user # BuiltIn
    BY <2>1 DEF WellFormed
  <2> QED
    BY <1>1, <2>1, <2>2 DEF Icons, Entries
<1> DEFINE saved == [j \in 1..Len(icons) - DEFAULT_N |->
                       <<icons[DEFAULT_N + j].user, icons[DEFAULT_N + j].pos>>]
<1>4. UserEntries(icons) = saved
  BY EntriesAre
<1>5. saved \in [1..Len(icons) - DEFAULT_N -> Entries]
  BY <1>3
<1> HIDE DEF saved
<1>6. saved \in Seq(Entries)
  BY <1>2, <1>5, SeqDef
<1>7. DOMAIN saved = 1..Len(icons) - DEFAULT_N
  BY <1>5
<1> QED
  BY <1>2, <1>4, <1>6, <1>7, LenProperties

\* Two desktops with the same shortcuts at the same places save the same.
LEMMA SameSaved ==
  ASSUME NEW icons, WellFormed(icons), NEW other, WellFormed(other), Len(other) = Len(icons),
         \A k \in 1..Len(icons) : k > DEFAULT_N => other[k].user = icons[k].user /\ other[k].pos = icons[k].pos
  PROVE  UserEntries(other) = UserEntries(icons)
<1>1. Len(icons) \in Nat
  BY DEF WellFormed
<1>2. ASSUME NEW j \in 1..Len(icons) - DEFAULT_N
      PROVE  /\ other[DEFAULT_N + j].user = icons[DEFAULT_N + j].user
             /\ other[DEFAULT_N + j].pos = icons[DEFAULT_N + j].pos
  <2>1. DEFAULT_N + j \in 1..Len(icons) /\ DEFAULT_N + j > DEFAULT_N
    BY <1>1, DeskNumbers
  <2> QED
    BY <2>1
<1>3. [j \in 1..Len(other) - DEFAULT_N |-> <<other[DEFAULT_N + j].user, other[DEFAULT_N + j].pos>>]
        = [j \in 1..Len(icons) - DEFAULT_N |-> <<icons[DEFAULT_N + j].user, icons[DEFAULT_N + j].pos>>]
  BY <1>2
<1> QED
  BY <1>3, EntriesAre

\* What was saved and is loaded again is saved the same.
LEMMA LoadedAgain ==
  ASSUME NEW e \in Seq(Entries), Len(e) <= MAXDESK - DEFAULT_N
  PROVE  WellFormed(Loaded(e)) /\ UserEntries(Loaded(e)) = e
<1> DEFINE n == DEFAULT_N + Len(e)
<1>1. Len(e) \in Nat /\ (\A j \in 1..Len(e) : e[j] \in Entries) /\ e = [j \in 1..Len(e) |-> e[j]]
  BY ElementOfSeq, SeqDef, LenProperties
<1>2. n \in Nat /\ n <= MAXDESK /\ DEFAULT_N <= n
  BY <1>1, DeskNumbers
<1>3. Min({MAXDESK, n}) = n
  <2>1. \A x \in {MAXDESK, n} : (\A y \in {MAXDESK, n} : x <= y) <=> x = n
    BY <1>2, DeskNumbers
  <2> HIDE DEF n
  <2>2. Min({MAXDESK, n}) = CHOOSE x \in {MAXDESK, n} : \A y \in {MAXDESK, n} : x <= y
    BY DEF Min
  <2> QED
    BY <2>1, <2>2
<1> DEFINE L == Loaded(e)
<1>4. L = [k \in 1..n |->
             IF k <= DEFAULT_N THEN [id |-> k, user |-> BuiltIn, pos |-> k]
             ELSE [id |-> k, user |-> e[k - DEFAULT_N][1], pos |-> e[k - DEFAULT_N][2]]]
  BY <1>3 DEF Loaded
<1>5. ASSUME NEW k \in 1..n, k <= DEFAULT_N
      PROVE  L[k] \in Icons /\ L[k].id = k /\ L[k].user = BuiltIn
  <2>1. L[k] = [id |-> k, user |-> BuiltIn, pos |-> k]
    BY <1>4, <1>5
  <2>2. k \in 1..MAXDESK + 1 /\ k \in Places
    BY <1>2, <1>5, DeskNumbers DEF Places
  <2> HIDE DEF L
  <2> QED
    BY <2>1, <2>2 DEF Icons
<1>6. ASSUME NEW k \in 1..n, ~(k <= DEFAULT_N)
      PROVE  /\ k - DEFAULT_N \in 1..Len(e)
             /\ L[k].user = e[k - DEFAULT_N][1] /\ L[k].pos = e[k - DEFAULT_N][2]
             /\ L[k] \in Icons /\ L[k].id = k /\ L[k].user # BuiltIn
  <2>1. k - DEFAULT_N \in 1..Len(e)
    BY <1>1, <1>6, DeskNumbers
  <2>2. L[k] = [id |-> k, user |-> e[k - DEFAULT_N][1], pos |-> e[k - DEFAULT_N][2]]
    BY <1>4, <1>6
  <2>3. e[k - DEFAULT_N][1] \in START /\ e[k - DEFAULT_N][2] \in Places
    BY <1>1, <2>1 DEF Entries
  <2>4. k \in 1..MAXDESK + 1
    BY <1>2, DeskNumbers
  <2> HIDE DEF L
  <2> QED
    BY <2>1, <2>2, <2>3, <2>4, DeskNumbers DEF Icons, BuiltIn
<1>7. L \in Seq(Icons) /\ Len(L) = n
  <2>1. L \in [1..n -> Icons]
    <3> HIDE DEF L
    <3>1. DOMAIN L = 1..n /\ L = [k \in 1..n |-> L[k]]
      BY <1>4
    <3>2. \A k \in 1..n : L[k] \in Icons
      BY <1>5, <1>6
    <3> QED
      BY <3>1, <3>2
  <2> HIDE DEF L, n
  <2>2. L \in Seq(Icons)
    BY <1>2, <2>1, SeqDef
  <2> QED
    BY <1>2, <2>1, <2>2, LenProperties
<1>8. \A k \in 1..n : L[k].id = k /\ (L[k].user = BuiltIn <=> k <= DEFAULT_N)
  <2> SUFFICES ASSUME NEW k \in 1..n PROVE L[k].id = k /\ (L[k].user = BuiltIn <=> k <= DEFAULT_N)
    OBVIOUS
  <2> HIDE DEF L
  <2>1. CASE k <= DEFAULT_N
    BY <1>5, <2>1
  <2>2. CASE ~(k <= DEFAULT_N)
    BY <1>6, <2>2
  <2> QED
    BY <2>1, <2>2
<1>9. WellFormed(L)
  <2> HIDE DEF L, n
  <2> QED
    BY <1>2, <1>7, <1>8 DEF WellFormed
<1>10. UserEntries(L) = e
  <2>1. UserEntries(L) = [j \in 1..Len(L) - DEFAULT_N |-> <<L[DEFAULT_N + j].user, L[DEFAULT_N + j].pos>>]
    BY <1>9, EntriesAre
  <2>2. Len(L) - DEFAULT_N = Len(e)
    BY <1>1, <1>7, DeskNumbers
  <2>3. ASSUME NEW j \in 1..Len(e) PROVE <<L[DEFAULT_N + j].user, L[DEFAULT_N + j].pos>> = e[j]
    <3>1. DEFAULT_N + j \in 1..n /\ ~(DEFAULT_N + j <= DEFAULT_N) /\ (DEFAULT_N + j) - DEFAULT_N = j
      BY <1>1, DeskNumbers
    <3> HIDE DEF L, n
    <3>2. L[DEFAULT_N + j].user = e[j][1] /\ L[DEFAULT_N + j].pos = e[j][2]
      BY <1>6, <3>1
    <3>3. e[j] = <<e[j][1], e[j][2]>>
      BY <1>1 DEF Entries
    <3> QED
      BY <3>2, <3>3
  <2> HIDE DEF L, n
  <2> QED
    BY <1>1, <2>1, <2>2, <2>3
<1> QED
  BY <1>9, <1>10

-----------------------------------------------------------------------------
\* The desktop as DeskInit sets it up.
LEMMA IconsInitInv == IconsInit => IconsInv
<1> SUFFICES ASSUME IconsInit PROVE IconsInv
  OBVIOUS
<1>1. <<>> \in Seq(Entries) /\ Len(<<>>) = 0 /\ 0 <= MAXDESK - DEFAULT_N
  BY DeskNumbers
<1>2. WellFormed(Loaded(<<>>)) /\ UserEntries(Loaded(<<>>)) = <<>>
  BY <1>1, LoadedAgain
<1>3. DragOK /\ ContextOnItsIcon
  BY DEF IconsInit, DragOK, NoDrag, ContextOnItsIcon, Closed
<1>4. cursor \in Places
  BY DeskNumbers DEF IconsInit, Places
<1> QED
  BY <1>2, <1>3, <1>4 DEF IconsInit, IconsInv

\* What follows an event that changes no icon.
LEMMA IconsQuiet ==
  ASSUME IconsInv, UNCHANGED <<desk, vmu>>, ctx' \in {ctx, Closed}, DragOK', cursor' \in Places
  PROVE  IconsInv'
<1>1. ContextOnItsIcon'
  BY DEF IconsInv, ContextOnItsIcon, Closed
<1> QED
  BY <1>1 DEF IconsInv, WellFormed, UserEntries, Users

LEMMA DragEnds == ASSUME IconsInv, Release \/ Click \/ UNCHANGED drag PROVE DragOK'
<1>1. CASE drag' = NoDrag
  BY <1>1 DEF NoDrag, DragOK
<1>2. CASE drag' = drag
  BY <1>2 DEF IconsInv, DragOK
<1> QED
  BY <1>1, <1>2 DEF Click, Release

LEMMA RemoveKeeps ==
  ASSUME IconsInv, NEW i, RemoveShortcut(i)
  PROVE  WellFormed(desk') /\ vmu' = UserEntries(desk')
<1>1. CASE ~Removable(i)
  BY <1>1 DEF RemoveShortcut, IconsInv
<1>2. CASE Removable(i)
  <2>1. /\ desk' = RemoveAt(desk, i) /\ vmu' = UserEntries(desk')
        /\ i \in 1..Len(desk) /\ desk[i].user # BuiltIn
    BY <1>2 DEF RemoveShortcut, Removable, IconsInv, WellFormed
  <2>2. desk \in Seq(Icons) /\ Len(desk) \in Nat /\ Len(desk) <= MAXDESK /\ DEFAULT_N <= Len(desk)
    BY DEF IconsInv, WellFormed
  <2>3. i > DEFAULT_N
    BY <2>1, DeskNumbers DEF IconsInv, WellFormed
  <2>4. /\ desk' \in Seq(Icons) /\ Len(desk') = Len(desk) - 1
        /\ \A j \in 1..Len(desk) - 1 : desk'[j] = IF j < i THEN desk[j] ELSE desk[j + 1]
    BY <2>1, <2>2, RemoveAtIs
  <2>5. ASSUME NEW j \in 1..Len(desk) - 1
        PROVE  /\ desk'[j].user = BuiltIn <=> j <= DEFAULT_N
               /\ \E a \in 1..Len(desk) : a = (IF j < i THEN j ELSE j + 1) /\ desk'[j] = desk[a]
    <3>1. CASE j < i
      <4>1. j \in 1..Len(desk) /\ desk'[j] = desk[j]
        BY <2>2, <2>4, <3>1
      <4> QED
        BY <3>1, <4>1 DEF IconsInv, WellFormed
    <3>2. CASE ~(j < i)
      <4>1. j + 1 \in 1..Len(desk) /\ desk'[j] = desk[j + 1]
        BY <2>2, <2>4, <3>2
      <4>2. ~(j + 1 <= DEFAULT_N) /\ ~(j <= DEFAULT_N)
        BY <2>1, <2>3, <3>2, DeskNumbers
      <4> QED
        BY <3>2, <4>1, <4>2 DEF IconsInv, WellFormed
    <3> QED
      BY <3>1, <3>2
  <2>6. ASSUME NEW j \in 1..Len(desk) - 1, NEW k \in 1..Len(desk) - 1, desk'[j].id = desk'[k].id PROVE j = k
    <3>1. PICK a \in 1..Len(desk) : a = (IF j < i THEN j ELSE j + 1) /\ desk'[j] = desk[a]
      BY <2>5
    <3>2. PICK b \in 1..Len(desk) : b = (IF k < i THEN k ELSE k + 1) /\ desk'[k] = desk[b]
      BY <2>5
    <3>3. a = b
      BY <2>6, <3>1, <3>2 DEF IconsInv, WellFormed
    <3> QED
      BY <2>1, <3>1, <3>2, <3>3
  <2>7. DEFAULT_N <= Len(desk) - 1 /\ Len(desk) - 1 <= MAXDESK
    BY <2>1, <2>2, <2>3, DeskNumbers
  <2> QED
    BY <2>1, <2>4, <2>5, <2>6, <2>7 DEF WellFormed
<1> QED
  BY <1>1, <1>2

LEMMA AddKeeps ==
  ASSUME IconsInv, NEW s \in START, NEW p \in Places, AddDesktopShortcut(s, p)
  PROVE  /\ WellFormed(desk') /\ vmu' = UserEntries(desk')
         /\ \A k \in 1..Len(desk) : k \in 1..Len(desk') /\ desk'[k] = desk[k]
<1>1. CASE ~(Len(desk) < MAXDESK)
  BY <1>1 DEF AddDesktopShortcut, IconsInv
<1>2. CASE Len(desk) < MAXDESK
  <2> DEFINE icon == [id |-> NewId(desk), user |-> s, pos |-> p]
  <2>1. desk' = Append(desk, icon) /\ vmu' = UserEntries(desk')
    BY <1>2 DEF AddDesktopShortcut
  <2>2. desk \in Seq(Icons) /\ Len(desk) \in Nat /\ DEFAULT_N <= Len(desk) /\ WellFormed(desk)
    BY DEF IconsInv, WellFormed
  <2>3. NewId(desk) \in 1..MAXDESK + 1 /\ \A k \in 1..Len(desk) : desk[k].id # NewId(desk)
    BY <1>2, <2>2, NewIdIsNew
  <2>4. icon \in Icons /\ icon.user # BuiltIn /\ icon.id = NewId(desk)
    BY <2>3, DeskNumbers DEF Icons, BuiltIn
  <2> HIDE DEF icon
  <2>5. /\ desk' \in Seq(Icons) /\ Len(desk') = Len(desk) + 1
        /\ desk'[Len(desk) + 1] = icon
        /\ \A k \in 1..Len(desk) : desk'[k] = desk[k]
    BY <2>1, <2>2, <2>4, AppendProperties
  <2>6. \A k \in 1..Len(desk') : k \in 1..Len(desk) \/ k = Len(desk) + 1
    BY <2>2, <2>5
  <2>7. \A k \in 1..Len(desk') : desk'[k].user = BuiltIn <=> k <= DEFAULT_N
    <3>1. \A k \in 1..Len(desk) : desk'[k].user = BuiltIn <=> k <= DEFAULT_N
      BY <2>2, <2>5 DEF WellFormed
    <3>2. ~(Len(desk) + 1 <= DEFAULT_N) /\ desk'[Len(desk) + 1].user # BuiltIn
      BY <2>2, <2>4, <2>5, DeskNumbers
    <3> QED
      BY <2>6, <3>1, <3>2
  <2>8. ASSUME NEW j \in 1..Len(desk'), NEW k \in 1..Len(desk'), desk'[j].id = desk'[k].id PROVE j = k
    <3>1. CASE j \in 1..Len(desk) /\ k \in 1..Len(desk)
      BY <2>2, <2>5, <2>8, <3>1 DEF WellFormed
    <3>2. CASE j \in 1..Len(desk) /\ k = Len(desk) + 1
      BY <2>3, <2>4, <2>5, <2>8, <3>2
    <3>3. CASE k \in 1..Len(desk) /\ j = Len(desk) + 1
      BY <2>3, <2>4, <2>5, <2>8, <3>3
    <3> QED
      BY <2>6, <3>1, <3>2, <3>3
  <2>9. DEFAULT_N <= Len(desk') /\ Len(desk') <= MAXDESK /\ \A k \in 1..Len(desk) : k \in 1..Len(desk')
    BY <1>2, <2>2, <2>5, DeskNumbers
  <2> QED
    BY <2>1, <2>5, <2>7, <2>8, <2>9 DEF WellFormed
<1> QED
  BY <1>1, <1>2

LEMMA PlaceKeeps ==
  ASSUME IconsInv, NEW i \in DOMAIN desk, NEW p \in Places, Place(i, p)
  PROVE  /\ WellFormed(desk') /\ vmu' = UserEntries(desk')
         /\ Len(desk') = Len(desk) /\ \A k \in 1..Len(desk) : desk'[k].id = desk[k].id
<1>1. /\ desk \in Seq(Icons) /\ Len(desk) \in Nat /\ WellFormed(desk)
      /\ DOMAIN desk = 1..Len(desk) /\ i \in 1..Len(desk)
  BY DEF IconsInv, WellFormed
<1>2. desk' = [desk EXCEPT ![i] = [desk[i] EXCEPT !.pos = p]]
  BY DEF Place
<1>3. desk[i] \in Icons
  BY <1>1, ElementOfSeq
<1> DEFINE icon == [desk[i] EXCEPT !.pos = p]
<1>4. icon \in Icons /\ icon.id = desk[i].id /\ icon.user = desk[i].user
  BY <1>3 DEF Icons
<1> HIDE DEF icon
<1>5. desk' \in Seq(Icons) /\ Len(desk') = Len(desk)
  BY <1>1, <1>2, <1>4, ExceptSeq DEF icon
<1>6. \A k \in 1..Len(desk) : desk'[k] = IF k = i THEN icon ELSE desk[k]
  BY <1>1, <1>2 DEF icon
<1>7. \A k \in 1..Len(desk) : desk'[k].id = desk[k].id /\ desk'[k].user = desk[k].user
  BY <1>4, <1>6
<1>8. WellFormed(desk')
  BY <1>1, <1>5, <1>7 DEF WellFormed
<1>9. vmu' = UserEntries(desk')
  <2>1. CASE desk[i].user # BuiltIn
    BY <2>1 DEF Place
  <2>2. CASE desk[i].user = BuiltIn
    <3>1. i <= DEFAULT_N
      BY <1>1, <2>2 DEF WellFormed
    <3>2. \A k \in 1..Len(desk) : k > DEFAULT_N => desk'[k] = desk[k]
      BY <1>6, <3>1, DeskNumbers
    <3>3. UserEntries(desk') = UserEntries(desk)
      BY <1>1, <1>5, <1>8, <3>2, SameSaved
    <3> QED
      BY <2>2, <3>3 DEF Place, IconsInv
  <2> QED
    BY <2>1, <2>2
<1> QED
  BY <1>5, <1>7, <1>8, <1>9

LEMMA ArrangedKeeps ==
  ASSUME IconsInv, desk' = Arranged(desk), UNCHANGED vmu
  PROVE  WellFormed(desk') /\ vmu' = UserEntries(desk')
<1>1. desk \in Seq(Icons) /\ Len(desk) \in Nat /\ WellFormed(desk) /\ DOMAIN desk = 1..Len(desk)
  BY DEF IconsInv, WellFormed
<1>2. desk' = [k \in 1..Len(desk) |-> IF desk[k].user = BuiltIn THEN [desk[k] EXCEPT !.pos = k] ELSE desk[k]]
  BY <1>1 DEF Arranged
<1>3. ASSUME NEW k \in 1..Len(desk)
      PROVE  /\ desk'[k] \in Icons /\ desk'[k].id = desk[k].id /\ desk'[k].user = desk[k].user
             /\ k > DEFAULT_N => desk'[k] = desk[k]
  <2>1. desk[k] \in Icons
    BY <1>1, ElementOfSeq
  <2>2. CASE desk[k].user = BuiltIn
    <3>1. desk'[k] = [desk[k] EXCEPT !.pos = k]
      BY <1>2, <2>2
    <3>2. k <= DEFAULT_N
      BY <1>1, <2>2 DEF WellFormed
    <3>3. k \in Places /\ ~(k > DEFAULT_N)
      BY <3>2, DeskNumbers DEF Places
    <3> QED
      BY <2>1, <3>1, <3>3 DEF Icons
  <2>3. CASE desk[k].user # BuiltIn
    BY <1>2, <2>1, <2>3
  <2> QED
    BY <2>2, <2>3
<1>4. desk' \in [1..Len(desk) -> Icons]
  <2>1. DOMAIN desk' = 1..Len(desk) /\ desk' = [k \in 1..Len(desk) |-> desk'[k]]
    BY <1>2
  <2> QED
    BY <1>3, <2>1
<1>5. desk' \in Seq(Icons) /\ Len(desk') = Len(desk)
  <2>1. desk' \in Seq(Icons)
    BY <1>1, <1>4, SeqDef
  <2> QED
    BY <1>1, <1>4, <2>1, LenProperties
<1>6. WellFormed(desk')
  BY <1>1, <1>3, <1>5 DEF WellFormed
<1>7. UserEntries(desk') = UserEntries(desk)
  BY <1>1, <1>3, <1>5, <1>6, SameSaved
<1> QED
  BY <1>6, <1>7 DEF IconsInv

-----------------------------------------------------------------------------
LEMMA IconsStep == IconsInv /\ [IconsNext]_iconVars => IconsInv'
<1> SUFFICES ASSUME IconsInv, [IconsNext]_iconVars PROVE IconsInv'
  OBVIOUS
<1> USE DEF IconsInv
<1>1. CASE KeyArrow \/ ToggleMenu \/ ClickMenu \/ ClickIcon \/ ClickEmpty
  <2>1. UNCHANGED <<desk, vmu, ctx, cursor>> /\ (Release \/ Click \/ UNCHANGED drag)
    BY <1>1 DEF KeyArrow, ToggleMenu, ClickMenu, ClickIcon, ClickEmpty
  <2>2. DragOK'
    BY <2>1, DragEnds
  <2> QED
    BY <2>1, <2>2, IconsQuiet
<1>2. CASE KeyDelete
  <2>1. RemoveShortcut(sel) /\ UNCHANGED <<ctx, cursor, drag>> /\ ~ctx.open
    BY <1>2 DEF KeyDelete, KeysToDesktop
  <2>2. WellFormed(desk') /\ vmu' = UserEntries(desk')
    BY <2>1, RemoveKeeps
  <2> QED
    BY <2>1, <2>2 DEF DragOK, ContextOnItsIcon
<1>3. CASE OpenContext
  <2> DEFINE k == IconAt(cursor)
  <2>1. /\ ctx' = [open |-> TRUE, icon |-> k, id |-> IF k = 0 THEN 0 ELSE desk[k].id,
                   delete |-> k # 0 /\ desk[k].user # BuiltIn]
        /\ UNCHANGED <<desk, vmu, cursor, drag>>
    BY <1>3 DEF OpenContext
  <2>2. k = 0 \/ k \in 1..Len(desk)
    BY IconAtIsThere
  <2> HIDE DEF k
  <2>3. ctx'.icon = k /\ (k # 0 => ctx'.id = desk[k].id)
    BY <2>1
  <2>4. DOMAIN desk = 1..Len(desk)
    BY DEF WellFormed
  <2>5. ContextOnItsIcon'
    BY <2>1, <2>2, <2>3, <2>4 DEF ContextOnItsIcon
  <2> QED
    BY <2>1, <2>5 DEF DragOK, WellFormed, UserEntries, Users
<1>4. CASE ContextKey \/ ClickContext
  <2>1. (ContextActivate \/ CloseContext) /\ (Click \/ UNCHANGED drag)
    BY <1>4 DEF ContextKey, ClickContext
  <2>2. DragOK'
    BY <2>1, DragEnds
  <2>3. ctx' = Closed /\ UNCHANGED cursor
    BY <2>1 DEF ContextActivate, ContextOpen, ContextDelete, ContextArrange, CloseContext
  <2>4. ContextOnItsIcon'
    BY <2>3 DEF ContextOnItsIcon, Closed
  <2>5. WellFormed(desk') /\ vmu' = UserEntries(desk')
    <3>1. CASE ContextOpen \/ CloseContext
      <4>1. UNCHANGED <<desk, vmu>>
        BY <3>1 DEF ContextOpen, CloseContext
      <4> QED
        BY <4>1 DEF WellFormed, UserEntries, Users
    <3>2. CASE ContextDelete
      BY <3>2, RemoveKeeps DEF ContextDelete
    <3>3. CASE ContextArrange
      BY <3>3, ArrangedKeeps DEF ContextArrange
    <3> QED
      BY <2>1, <3>1, <3>2, <3>3 DEF ContextActivate
  <2> QED
    BY <2>2, <2>3, <2>4, <2>5
<1>5. ASSUME NEW p \in Places, Move(p) PROVE IconsInv'
  <2>1. UNCHANGED <<desk, vmu, ctx>> /\ cursor' = p
    BY <1>5 DEF Move
  <2>2. DragOK'
    BY <1>5 DEF Move, DragOK
  <2> QED
    BY <2>1, <2>2, IconsQuiet
<1>6. CASE Press
  <2>1. UNCHANGED <<desk, vmu, ctx, cursor>>
    BY <1>6 DEF Press
  <2>2. DragOK'
    <3>1. IconAt(cursor) \in Nat
      <4>1. \A k \in 1..Len(desk) : k \in Nat
        BY DEF WellFormed
      <4> QED
        BY <4>1, IconAtIsThere
    <3>2. CASE menu /\ \E s \in START \cup {0} : Pressed(IF s = 0 THEN "none" ELSE "start", s) /\ UNCHANGED sel
      <4>1. PICK s \in START \cup {0} : Pressed(IF s = 0 THEN "none" ELSE "start", s)
        BY <3>2
      <4>2. CASE s = 0
        BY <4>1, <4>2 DEF Pressed, DragOK
      <4>3. CASE s # 0
        BY <4>1, <4>3 DEF Pressed, DragOK
      <4> QED
        BY <4>2, <4>3
    <3>3. CASE Pressed("none", 0)
      BY <3>3 DEF Pressed, DragOK
    <3>4. CASE Pressed("icon", IconAt(cursor))
      <4> DEFINE k == IconAt(cursor)
      <4> HIDE DEF k
      <4>1. drag' = [held |-> TRUE, moved |-> FALSE, kind |-> "icon", target |-> k] /\ k \in Nat
        BY <3>1, <3>4 DEF Pressed, k
      <4> QED
        BY <4>1 DEF DragOK
    <3> QED
      BY <1>6, <3>2, <3>3, <3>4 DEF Press
  <2> QED
    BY <2>1, <2>2, IconsQuiet
<1>7. CASE DropStartItem \/ DropIcon \/ DropNothing
  <2>1. Release /\ UNCHANGED <<ctx, cursor>>
    BY <1>7 DEF DropStartItem, DropIcon, DropNothing, Drop
  <2>2. DragOK'
    BY <2>1, DragEnds
  <2>3. DOMAIN desk = 1..Len(desk)
    BY DEF WellFormed
  <2>4. /\ WellFormed(desk') /\ vmu' = UserEntries(desk')
        /\ \A k \in 1..Len(desk) : k \in 1..Len(desk') /\ desk'[k].id = desk[k].id
    <3>1. CASE UNCHANGED <<desk, vmu>>
      BY <3>1
    <3>2. CASE DropStartItem /\ AddDesktopShortcut(drag.target, cursor)
      <4>1. drag.target \in START
        BY <3>2 DEF DropStartItem, DragOK
      <4> QED
        BY <3>2, <4>1, AddKeeps
    <3>3. CASE DropIcon
      <4>1. drag.target \in DOMAIN desk /\ Place(drag.target, cursor)
        BY <3>3 DEF DropIcon
      <4> QED
        BY <4>1, PlaceKeeps
    <3>4. CASE DropNothing
      BY <3>1, <3>4 DEF DropNothing
    <3> QED
      BY <1>7, <3>1, <3>2, <3>3, <3>4 DEF DropStartItem
  <2>5. DOMAIN desk' = 1..Len(desk')
    BY <2>4 DEF WellFormed
  <2>6. ContextOnItsIcon'
    BY <2>1, <2>3, <2>4, <2>5 DEF ContextOnItsIcon
  <2> QED
    BY <2>1, <2>2, <2>4, <2>6
<1>8. CASE Reboot
  <2>1. /\ desk' = Loaded(vmu) /\ ctx' = Closed /\ drag' = NoDrag /\ cursor' = NPLACES
        /\ UNCHANGED vmu
    BY <1>8 DEF Reboot, Boot
  <2>2. vmu \in Seq(Entries) /\ Len(vmu) = Len(desk) - DEFAULT_N
    BY SavedAre
  <2>3. Len(vmu) <= MAXDESK - DEFAULT_N
    BY <2>2, DeskNumbers DEF WellFormed
  <2>4. WellFormed(Loaded(vmu)) /\ UserEntries(Loaded(vmu)) = vmu
    BY <2>2, <2>3, LoadedAgain
  <2>5. cursor' \in Places
    BY <2>1, DeskNumbers DEF Places
  <2>6. DragOK' /\ ContextOnItsIcon'
    BY <2>1 DEF DragOK, NoDrag, ContextOnItsIcon, Closed
  <2> QED
    BY <2>1, <2>4, <2>5, <2>6
<1>9. CASE UNCHANGED iconVars
  BY <1>9 DEF iconVars, WellFormed, UserEntries, Users, DragOK, ContextOnItsIcon
<1> QED
  BY <1>1, <1>2, <1>3, <1>4, <1>5, <1>6, <1>7, <1>8, <1>9 DEF IconsNext

LEMMA IconsAlways == IconsSpec => []IconsInv
BY IconsInitInv, IconsStep, PTL DEF IconsSpec

\* The context menu acts on the icon it was opened for (s_nCtxIcon of dcshell.c is
\* only an index): a shortcut that arrives or moves under it takes no other's place.
THEOREM MenuKeepsItsIcon == IconsSpec => []ContextOnItsIcon
<1>1. IconsInv => ContextOnItsIcon
  BY DEF IconsInv
<1> QED
  BY <1>1, IconsAlways, PTL

\* A power cycle brings back every shortcut, at its place and in its order, however
\* often LoadShortcuts and SaveShortcuts of dcshell.c have followed each other.
THEOREM ShortcutsComeBack == IconsSpec => RebootRestores
<1>1. ASSUME IconsInv, Reboot PROVE UserEntries(desk') = UserEntries(desk)
  <2>1. vmu \in Seq(Entries) /\ Len(vmu) = Len(desk) - DEFAULT_N
    BY <1>1, SavedAre DEF IconsInv
  <2>2. Len(vmu) <= MAXDESK - DEFAULT_N
    BY <1>1, <2>1, DeskNumbers DEF IconsInv, WellFormed
  <2>3. UserEntries(Loaded(vmu)) = vmu
    BY <2>1, <2>2, LoadedAgain
  <2>4. desk' = Loaded(vmu)
    BY <1>1 DEF Reboot, Boot
  <2> QED
    BY <1>1, <2>3, <2>4 DEF IconsInv
<1>2. IconsInv /\ [IconsNext]_iconVars => [Reboot => UserEntries(desk') = UserEntries(desk)]_iconVars
  BY <1>1
<1> QED
  BY <1>2, IconsAlways, PTL DEF RebootRestores, IconsSpec
-----------------------------------------------------------------------------
(* The place of a window                                                   *)

GeometryTypeOK ==
  /\ isOpen \in BOOLEAN /\ maxed \in BOOLEAN
  /\ rect \in Rect /\ restore \in Rect
  /\ grab \in [kind : {"none", "move", "size"}, dx : Int, dy : Int]

\* What both clamps and every opening rectangle guarantee.
Placed(r) ==
  /\ r.w \in WIN_MINW..SCREEN_W /\ r.x \in (KEEP - SCREEN_W)..(SCREEN_W - KEEP)
  /\ r.h \in WIN_MINH..SCREEN_H /\ r.y \in BAR..(TASK_Y - 1)

\* A resize may take the right edge further out than a move, but only with the corner.
Graspable(r) ==
  \/ r.x + r.w >= KEEP
  \/ r.x + r.w >= -EDGE /\ r.y + r.h - GRIP < SCREEN_H

\* A window that is being resized is not so low that its corner can get lost.
Resizing ==
  grab.kind = "size" =>
    /\ grab.dx \in (-GRIP)..EDGE /\ grab.dy \in (-GRIP)..EDGE
    /\ isOpen => rect.y + WIN_MINH - GRIP < SCREEN_H

GeometryInv ==
  /\ GeometryTypeOK
  /\ isOpen => Placed(rect) /\ Graspable(rect)
  /\ Placed(restore) /\ Graspable(restore)
  /\ Resizing

-----------------------------------------------------------------------------
LEMMA GeometryNumbers ==
  /\ SCREEN_W \in Nat /\ SCREEN_H \in Nat /\ TASK_Y \in Nat
  /\ WIN_MINW \in Nat /\ WIN_MINH \in Nat /\ GRIP \in Nat
  /\ EDGE \in Nat /\ BOX \in Nat /\ KEEP \in Nat
  /\ 0 < GRIP /\ 0 < EDGE /\ EDGE < BOX /\ BOX <= KEEP
  /\ KEEP <= WIN_MINW /\ 3 * BOX <= WIN_MINW
  /\ GRIP < WIN_MINH /\ BAR < TASK_Y /\ TASK_Y <= SCREEN_H /\ BAR = BOX + EDGE
  /\ WIN_MINW + 2 * EDGE <= SCREEN_W /\ WIN_MINH + BAR + 2 * EDGE <= TASK_Y
BY GeometryAssumption DEF BAR

LEMMA OpensPlaced ==
  ASSUME NEW r \in Opens
  PROVE  r \in Rect /\ Placed(r) /\ Graspable(r) /\ r.y + WIN_MINH - GRIP < SCREEN_H
<1>1. /\ r \in Rect
      /\ r.w \in WIN_MINW..SCREEN_W /\ r.x \in 0..(SCREEN_W - r.w)
      /\ r.h \in WIN_MINH..TASK_Y /\ r.y \in BAR..(TASK_Y - r.h)
  BY GeometryAssumption
<1>2. r.x \in Int /\ r.y \in Int /\ r.w \in Int /\ r.h \in Int
  BY <1>1 DEF Rect
<1> QED
  BY <1>1, <1>2, GeometryNumbers DEF Placed, Graspable

LEMMA MaximizedPlaced == Maximized \in Rect /\ Placed(Maximized) /\ Graspable(Maximized)
BY GeometryNumbers DEF Maximized, Rect, Placed, Graspable

\* A move leaves KEEP of the window on the screen.
LEMMA MovedPlaced ==
  ASSUME NEW r \in Rect, Placed(r), NEW nx \in Int, NEW ny \in Int
  PROVE  /\ Moved(r, nx, ny) \in Rect
         /\ Placed(Moved(r, nx, ny)) /\ Graspable(Moved(r, nx, ny))
<1> DEFINE cx == Clamp(nx, -(r.w - KEEP), SCREEN_W - KEEP)
           cy == Clamp(ny, BAR, TASK_Y - 1)
<1>1. r.x \in Int /\ r.y \in Int /\ r.w \in Int /\ r.h \in Int
  BY DEF Rect
<1>2. cx \in (-(r.w - KEEP))..(SCREEN_W - KEEP) /\ cy \in BAR..(TASK_Y - 1)
  BY <1>1, GeometryNumbers DEF Placed, Clamp
<1>3. Moved(r, nx, ny) = [r EXCEPT !.x = cx, !.y = cy]
  BY DEF Moved
<1> HIDE DEF cx, cy
<1>4. Moved(r, nx, ny) = [x |-> cx, y |-> cy, w |-> r.w, h |-> r.h]
  BY <1>3 DEF Rect
<1> QED
  BY <1>1, <1>2, <1>4, GeometryNumbers DEF Rect, Placed, Graspable

\* A resize leaves the pointer on the corner, or the right edge where it can be reached.
LEMMA SizedPlaced ==
  ASSUME NEW r \in Rect, Placed(r), r.y + WIN_MINH - GRIP < SCREEN_H,
         NEW px \in ScreenX, NEW py \in ScreenY,
         NEW dx \in (-GRIP)..EDGE, NEW dy \in (-GRIP)..EDGE
  PROVE  LET s == Sized(r, px - dx - r.x, py - dy - r.y)
         IN  s \in Rect /\ s.y = r.y /\ Placed(s) /\ Graspable(s)
<1> DEFINE nw == px - dx - r.x
           nh == py - dy - r.y
           cw == Clamp(nw, WIN_MINW, SCREEN_W)
           ch == Clamp(nh, WIN_MINH, SCREEN_H)
<1>1. r.x \in Int /\ r.y \in Int /\ r.w \in Int /\ r.h \in Int
  BY DEF Rect
<1>2. px \in Int /\ py \in Int /\ dx \in Int /\ dy \in Int /\ nw \in Int /\ nh \in Int
  BY <1>1, GeometryNumbers DEF ScreenX, ScreenY
<1>3. /\ cw \in WIN_MINW..SCREEN_W /\ (cw >= nw \/ cw = SCREEN_W)
      /\ ch \in WIN_MINH..SCREEN_H /\ (ch <= nh \/ ch = WIN_MINH)
  <2> HIDE DEF nw, nh
  <2> QED
    BY <1>2, GeometryNumbers DEF Clamp
<1>0. Sized(r, nw, nh) = [r EXCEPT !.w = cw, !.h = ch]
  BY DEF Sized
<1> HIDE DEF cw, ch
<1>4. Sized(r, nw, nh) = [x |-> r.x, y |-> r.y, w |-> cw, h |-> ch]
  BY <1>0 DEF Rect
<1>5. r.x + cw >= -EDGE
  BY <1>1, <1>2, <1>3, GeometryNumbers DEF Placed, ScreenX
<1>6. r.y + ch - GRIP < SCREEN_H
  BY <1>1, <1>2, <1>3, GeometryNumbers DEF ScreenY
<1>7. Sized(r, nw, nh) \in Rect /\ Sized(r, nw, nh).y = r.y
  BY <1>1, <1>3, <1>4, GeometryNumbers DEF Rect
<1>8. Placed(Sized(r, nw, nh))
  BY <1>1, <1>3, <1>4, GeometryNumbers DEF Placed
<1>9. Graspable(Sized(r, nw, nh))
  BY <1>4, <1>5, <1>6 DEF Graspable
<1> QED
  BY <1>7, <1>8, <1>9

\* What is placed and held can be reached.
LEMMA GraspableInReach ==
  ASSUME NEW r \in Rect, Placed(r), Graspable(r) PROVE InReach(r)
<1>1. r.x \in Int /\ r.y \in Int /\ r.w \in Int /\ r.h \in Int
  BY DEF Rect
<1> DEFINE R == r.x + r.w
           at(v) == IF v < 0 THEN 0 ELSE v
<1>2. CASE R < KEEP
  <2>1. OnCorner(r, at(R - GRIP), r.y + r.h - GRIP)
    BY <1>1, <1>2, GeometryNumbers DEF Placed, Graspable, OnCorner
  <2>2. at(R - GRIP) \in ScreenX /\ r.y + r.h - GRIP \in ScreenY
    BY <1>1, <1>2, GeometryNumbers DEF Placed, Graspable, ScreenX, ScreenY
  <2> QED
    BY <2>1, <2>2 DEF InReach
<1>3. CASE R >= KEEP /\ R > 3 * BOX - EDGE
  <2>1. OnTitle(r, at(r.x - EDGE), r.y - BAR)
    BY <1>1, <1>3, GeometryNumbers DEF Placed, OnTitle
  <2>2. at(r.x - EDGE) \in ScreenX /\ r.y - BAR \in ScreenY
    BY <1>1, <1>3, GeometryNumbers DEF Placed, ScreenX, ScreenY
  <2> QED
    BY <2>1, <2>2 DEF InReach
<1>4. CASE R >= KEEP /\ R <= 3 * BOX - EDGE
  <2>1. OnMaximize(r, at(R - (2 * BOX - EDGE)), r.y - BOX)
    BY <1>1, <1>4, GeometryNumbers DEF Placed, OnMaximize
  <2>2. at(R - (2 * BOX - EDGE)) \in ScreenX /\ r.y - BOX \in ScreenY
    BY <1>1, <1>4, GeometryNumbers DEF Placed, ScreenX, ScreenY
  <2> QED
    BY <2>1, <2>2 DEF InReach
<1> QED
  BY <1>1, <1>2, <1>3, <1>4, GeometryNumbers

-----------------------------------------------------------------------------
LEMMA GeometryInitInv == GeometryInit => GeometryInv
<1> SUFFICES ASSUME GeometryInit PROVE GeometryInv
  OBVIOUS
<1>1. rect \in Rect /\ Placed(rect) /\ Graspable(rect)
  BY OpensPlaced DEF GeometryInit
<1>2. Placed(restore) /\ Graspable(restore) /\ restore \in Rect
  BY <1>1 DEF GeometryInit
<1>3. grab \in [kind : {"none", "move", "size"}, dx : Int, dy : Int] /\ grab.kind = "none"
  BY DEF GeometryInit, NoGrab
<1> QED
  BY <1>1, <1>2, <1>3 DEF GeometryInit, GeometryInv, GeometryTypeOK, Resizing

LEMMA GeometryStep == GeometryInv /\ [GeometryNext]_geometryVars => GeometryInv'
<1> SUFFICES ASSUME GeometryInv, [GeometryNext]_geometryVars PROVE GeometryInv'
  OBVIOUS
<1> USE DEF GeometryInv
<1>1. ASSUME NEW px \in ScreenX, NEW py \in ScreenY, PressWindow(px, py) PROVE GeometryInv'
  <2>0. /\ rect.x \in Int /\ rect.y \in Int /\ rect.w \in Int /\ rect.h \in Int
        /\ px \in Int /\ py \in Int
    BY GeometryNumbers DEF GeometryTypeOK, Rect, ScreenX, ScreenY
  <2>1. GeometryTypeOK'
    BY <1>1, <2>0 DEF PressWindow, GeometryTypeOK
  <2>2. Resizing'
    <3> SUFFICES ASSUME grab'.kind = "size" PROVE Resizing'
      BY DEF Resizing
    <3>1. OnCorner(rect, px, py) /\ isOpen
          /\ grab' = [kind |-> "size", dx |-> px - (rect.x + rect.w),
                      dy |-> py - (rect.y + rect.h)]
      BY <1>1 DEF PressWindow
    <3>2. Placed(rect)
      BY <3>1
    <3>3. grab'.dx \in (-GRIP)..EDGE /\ grab'.dy \in (-GRIP)..EDGE
      BY <2>0, <3>1, GeometryNumbers DEF OnCorner
    <3>4. rect.y + WIN_MINH - GRIP < SCREEN_H
      BY <2>0, <3>1, <3>2, GeometryNumbers DEF OnCorner, Placed, ScreenY
    <3> QED
      BY <1>1, <3>3, <3>4 DEF PressWindow, Resizing
  <2> QED
    BY <1>1, <2>1, <2>2 DEF PressWindow, Placed, Graspable
<1>2. ASSUME NEW px \in ScreenX, NEW py \in ScreenY, DragApply(px, py) PROVE GeometryInv'
  <2>0. /\ rect \in Rect /\ rect.x \in Int /\ rect.y \in Int
        /\ px \in Int /\ py \in Int /\ grab.dx \in Int /\ grab.dy \in Int
    BY GeometryNumbers DEF GeometryTypeOK, Rect, ScreenX, ScreenY
  <2>1. isOpen /\ isOpen' = isOpen /\ grab' = grab /\ restore' = restore /\ maxed' = maxed
        /\ Placed(rect)
    BY <1>2 DEF DragApply
  <2>2. CASE grab.kind = "move"
    <3>1. rect' = Moved(rect, px - grab.dx, py - grab.dy)
      BY <1>2, <2>2 DEF DragApply
    <3>2. rect' \in Rect /\ Placed(rect') /\ Graspable(rect')
      BY <2>0, <2>1, <3>1, MovedPlaced
    <3> QED
      BY <2>1, <2>2, <3>2 DEF GeometryTypeOK, Resizing, Placed, Graspable
  <2>3. CASE grab.kind = "size"
    <3>1. rect' = Sized(rect, px - grab.dx - rect.x, py - grab.dy - rect.y)
      BY <1>2, <2>3 DEF DragApply
    <3>2. rect' \in Rect /\ rect'.y = rect.y /\ Placed(rect') /\ Graspable(rect')
      BY <2>0, <2>1, <2>3, <3>1, SizedPlaced DEF Resizing
    <3> QED
      BY <2>1, <2>3, <3>2 DEF GeometryTypeOK, Resizing, Placed, Graspable
  <2>4. grab.kind = "move" \/ grab.kind = "size"
    BY <1>2 DEF DragApply, GeometryTypeOK
  <2> QED
    BY <2>2, <2>3, <2>4
<1>3. ASSUME NEW px \in ScreenX, NEW py \in ScreenY, ToggleMaximize(px, py) PROVE GeometryInv'
  <2>1. grab.kind = "none" /\ Placed(rect) /\ Graspable(rect)
    BY <1>3 DEF ToggleMaximize, NoGrab
  <2>2. CASE maxed
    BY <1>3, <2>1, <2>2 DEF ToggleMaximize, GeometryTypeOK, Resizing, Placed, Graspable
  <2>3. CASE ~maxed
    BY <1>3, <2>1, <2>3, MaximizedPlaced
    DEF ToggleMaximize, GeometryTypeOK, Resizing, Placed, Graspable
  <2> QED
    BY <2>2, <2>3
<1>4. CASE ReleaseWindow
  BY <1>4 DEF ReleaseWindow, GeometryTypeOK, Resizing, NoGrab, Placed, Graspable
<1>5. CASE CloseWindow
  BY <1>5 DEF CloseWindow, GeometryTypeOK, Resizing, Placed, Graspable
<1>6. CASE Forget
  BY <1>6 DEF Forget, GeometryTypeOK, Resizing, Placed, Graspable
<1>7. CASE OpenWindow
  <2>1. rect' \in Rect /\ Placed(rect') /\ Graspable(rect')
        /\ rect'.y + WIN_MINH - GRIP < SCREEN_H
    BY <1>7, OpensPlaced DEF OpenWindow
  <2> QED
    BY <1>7, <2>1 DEF OpenWindow, GeometryTypeOK, Resizing, Placed, Graspable
<1>8. CASE UNCHANGED geometryVars
  BY <1>8 DEF geometryVars, GeometryTypeOK, Resizing, Placed, Graspable
<1> QED
  BY <1>1, <1>2, <1>3, <1>4, <1>5, <1>6, <1>7, <1>8 DEF GeometryNext

LEMMA GeometryAlways == GeometrySpec => []GeometryInv
BY GeometryInitInv, GeometryStep, PTL DEF GeometrySpec

\* Rectangles, flags and the drag keep their types.
THEOREM GeometryTypes == GeometrySpec => []GeometryTypeOK
<1>1. GeometryInv => GeometryTypeOK
  BY DEF GeometryInv
<1> QED
  BY <1>1, GeometryAlways, PTL

\* A window that is open can be taken hold of with the pointer (DragHitTest, DragApply,
\* ToggleMaximize), also when its slot changed hands during a drag.
THEOREM WindowStaysInReach == GeometrySpec => []WindowInReach
<1>1. GeometryInv => WindowInReach
  BY GraspableInReach DEF GeometryInv, GeometryTypeOK, WindowInReach
<1> QED
  BY <1>1, GeometryAlways, PTL
-----------------------------------------------------------------------------
(* The system log                                                          *)

\* A cell or a row holds parts of lines, or nothing.
Line == [Parts -> {<<>>} \cup LogWriters \X Int]

LogTypeOK ==
  /\ lineHead \in Nat /\ line \in [0..LINES - 1 -> Line]
  /\ logAt \in [LogWriters -> 0..2] /\ lIdx \in [LogWriters -> Int]
  /\ viewAt \in {<<>>} \cup Rows \X Parts /\ lHead \in Nat /\ nScroll \in Int
  /\ shown \in [Rows -> Line] /\ done \subseteq Int /\ before \subseteq Int

Writing(w) == logAt[w] # 0
Fresh(n) == lineHead - n <= LINES      \* its cell was not claimed again
Intact(n) == n \notin mixed /\ Fresh(n)

\* Each number is claimed once, and whoever was in the cell before it mixes with it.
Claims ==
  /\ \A w \in LogWriters : Writing(w) => lIdx[w] \in 0..lineHead - 1
  /\ \A w, v \in LogWriters : Writing(w) /\ Writing(v) /\ lIdx[w] = lIdx[v] => w = v
  /\ \A v \in LogWriters : \A n \in lIdx[v] + 1..lineHead - 1 :
       Writing(v) /\ CellOf(lIdx[v]) = CellOf(n) => n \in mixed

\* What an intact line's cell holds, when it is complete and when it is half written.
Held(n, w, p) == line[CellOf(n)][p] = <<w, n>>
Written ==
  /\ \A n \in done : n \in 0..lineHead - 1 /\ \A w \in LogWriters : Writing(w) => lIdx[w] # n
  /\ \A n \in done : Intact(n) => \E w \in LogWriters : \A p \in Parts : Held(n, w, p)
  /\ \A w \in LogWriters : logAt[w] = 2 /\ Intact(lIdx[w]) => Held(lIdx[w], w, 1)

\* What the viewer has copied of an intact line is what the cell still holds.
IsCopied(r, p) == viewAt = <<>> \/ r < viewAt[1] \/ (r = viewAt[1] /\ p < viewAt[2])
Viewed ==
  /\ before \subseteq done /\ lHead <= lineHead
  /\ \A r \in Rows : \A p \in Parts :
       LET n == LineAt(r, lHead, nScroll)
       IN n \in before /\ Intact(n) /\ IsCopied(r, p) => shown[r][p] = line[CellOf(n)][p]

LogInv == LogTypeOK /\ Claims /\ Written /\ Viewed

\* Two lines in one cell are at least a round apart.
LEMMA RoundApart ==
  ASSUME NEW a \in Int, NEW b \in Int, CellOf(a) = CellOf(b), a < b
  PROVE  b - a >= LINES
<1>1. LINES \in Nat \ {0}
  BY SysLogAssumption
<1> DEFINE c == a \div LINES
           d == b \div LINES
<1>2. a = LINES * c + (a % LINES) /\ b = LINES * d + (b % LINES) /\ c \in Int /\ d \in Int
  BY <1>1
<1>3. a % LINES = b % LINES /\ a % LINES \in Int
  BY <1>1 DEF CellOf
<1> HIDE DEF c, d
<1>4. LINES * (d - c) = LINES * d - LINES * c /\ LINES * d \in Int /\ LINES * c \in Int
  BY <1>1, <1>2
<1>5. LINES * (d - c) = b - a
  BY <1>2, <1>3, <1>4
<1>6. d - c \in Int /\ (d - c >= 1 => LINES * (d - c) >= LINES) /\ (d - c <= 0 => LINES * (d - c) <= 0)
  BY <1>1, <1>2
<1> QED
  BY <1>5, <1>6

LEMMA CellRange ==
  ASSUME NEW n \in Int PROVE CellOf(n) \in 0..LINES - 1
BY SysLogAssumption DEF CellOf

\* A writer is in no intact line's cell but its own.
LEMMA CellApart ==
  ASSUME LogTypeOK, Claims, NEW w \in LogWriters, Writing(w), NEW n \in 0..lineHead - 1, Intact(n), lIdx[w] # n
  PROVE  CellOf(lIdx[w]) # CellOf(n)
<1> SUFFICES ASSUME CellOf(lIdx[w]) = CellOf(n) PROVE FALSE
  OBVIOUS
<1>1. lIdx[w] \in 0..lineHead - 1 /\ lineHead \in Nat /\ LINES \in Nat
  BY SysLogAssumption DEF Claims, LogTypeOK
<1>2. CASE lIdx[w] < n
  BY <1>1, <1>2 DEF Claims, Intact
<1>3. CASE n < lIdx[w]
  BY <1>1, <1>3, RoundApart DEF Intact, Fresh
<1> QED
  BY <1>1, <1>2, <1>3

LEMMA LogInvInit == LogInit => LogInv
<1> SUFFICES ASSUME LogInit PROVE LogInv
  OBVIOUS
<1>1. Blank \in Line
  BY DEF Blank, Line
<1>2. LogTypeOK
  BY <1>1 DEF LogInit, LogTypeOK
<1>3. Claims /\ Written
  BY DEF LogInit, Claims, Written, Writing
<1>4. Viewed
  BY DEF LogInit, Viewed
<1> QED
  BY <1>2, <1>3, <1>4 DEF LogInv

\* What stays intact when a line is claimed was intact before.
LEMMA ClaimKeeps ==
  ASSUME LogInv, NEW w \in LogWriters, Claim(w) PROVE LogInv'
<1> USE DEF LogInv
<1>1. /\ logAt[w] = 0 /\ lIdx' = [lIdx EXCEPT ![w] = lineHead] /\ lineHead' = lineHead + 1
      /\ logAt' = [logAt EXCEPT ![w] = 1] /\ UNCHANGED <<line, viewAt, lHead, nScroll, shown, done, before>>
  BY DEF Claim, viewer
<1>2. /\ lineHead \in Nat /\ lIdx'[w] = lineHead /\ logAt'[w] = 1
      /\ \A v \in LogWriters \ {w} : lIdx'[v] = lIdx[v] /\ logAt'[v] = logAt[v]
  BY <1>1 DEF LogTypeOK
<1>3. LogTypeOK'
  BY <1>1 DEF LogTypeOK
<1>4. mixed \subseteq mixed'
  BY DEF Claim, Meets
<1>5. ASSUME NEW v \in LogWriters \ {w}, Writing(v), CellOf(lIdx[v]) = CellOf(lineHead)
      PROVE  lineHead \in mixed'
  <2> DEFINE inside == {lIdx[u] : u \in {u \in LogWriters \ {w} :
                                           logAt[u] # 0 /\ CellOf(lIdx[u]) = CellOf(lIdx'[w])}}
  <2>1. lIdx[v] \in inside
    BY <1>2, <1>5 DEF Writing
  <2>2. lineHead \notin inside
    BY <1>2 DEF Claims, Writing
  <2>3. mixed' = mixed \cup IF inside = {} \/ lIdx'[w] \in inside THEN {} ELSE inside \cup {lIdx'[w]}
    BY DEF Claim, Meets
  <2> HIDE DEF inside
  <2> QED
    BY <1>2, <2>1, <2>2, <2>3
<1>6. Claims'
  <2>1. \A v \in LogWriters : Writing(v)' => lIdx'[v] \in 0..lineHead' - 1
    BY <1>1, <1>2 DEF Claims, Writing
  <2>2. \A u, v \in LogWriters : Writing(u)' /\ Writing(v)' /\ lIdx'[u] = lIdx'[v] => u = v
    BY <1>2 DEF Claims, Writing
  <2>3. ASSUME NEW v \in LogWriters, NEW n \in lIdx'[v] + 1..lineHead' - 1,
               Writing(v)', CellOf(lIdx'[v]) = CellOf(n)
        PROVE  n \in mixed'
    <3>1. v # w
      BY <1>1, <1>2
    <3>2. lIdx'[v] = lIdx[v] /\ Writing(v) /\ lIdx[v] \in Int
      BY <1>2, <2>3, <3>1 DEF Writing, LogTypeOK
    <3>3. CASE n = lineHead
      BY <1>5, <2>3, <3>1, <3>2, <3>3
    <3>4. CASE n # lineHead
      <4>1. n \in lIdx[v] + 1..lineHead - 1
        BY <1>1, <1>2, <3>2, <3>4
      <4> QED
        BY <1>4, <2>3, <3>2, <4>1 DEF Claims
    <3> QED
      BY <3>3, <3>4
  <2> QED
    BY <2>1, <2>2, <2>3 DEF Claims
<1>7. ASSUME NEW n \in Int PROVE Intact(n)' => Intact(n)
  BY <1>1, <1>2, <1>4, SysLogAssumption DEF Intact, Fresh
<1>8. Written'
  <2>1. \A n \in done : n \in 0..lineHead' - 1 /\ \A v \in LogWriters : Writing(v)' => lIdx'[v] # n
    BY <1>1, <1>2 DEF Written, Writing
  <2>2. \A n \in done : Intact(n)' => \E v \in LogWriters : \A p \in Parts : Held(n, v, p)'
    BY <1>1, <1>7 DEF Written, Held, LogTypeOK
  <2>3. ASSUME NEW v \in LogWriters, logAt'[v] = 2, Intact(lIdx[v])'
        PROVE  Held(lIdx[v], v, 1)'
    <3>1. v # w /\ lIdx'[v] = lIdx[v] /\ logAt[v] = 2
      BY <1>2, <2>3
    <3>2. Intact(lIdx[v])
      BY <2>3, <1>1, <1>2, <1>4, <3>1, SysLogAssumption DEF Intact, Fresh, LogTypeOK
    <3>3. Held(lIdx[v], v, 1)
      BY <3>1, <3>2 DEF Written
    <3> QED
      BY <1>1, <3>1, <3>3 DEF Held
  <2> QED
    BY <1>1, <2>1, <2>2, <2>3 DEF Written
<1>9. Viewed'
  <2>1. before' \subseteq done' /\ lHead' <= lineHead'
    BY <1>1, <1>2 DEF Viewed, LogTypeOK
  <2>2. \A r \in Rows : LineAt(r, lHead, nScroll)' = LineAt(r, lHead, nScroll)
    BY <1>1 DEF LineAt
  <2>3. \A r \in Rows : \A p \in Parts : IsCopied(r, p)' = IsCopied(r, p)
    BY <1>1 DEF IsCopied
  <2>4. \A n \in before : n \in Int
    BY DEF LogTypeOK
  <2> QED
    BY <1>1, <1>7, <2>1, <2>2, <2>3, <2>4 DEF Viewed
<1> QED
  BY <1>3, <1>6, <1>8, <1>9

LEMMA CopyKeeps ==
  ASSUME LogInv, NEW w \in LogWriters, CopyPart(w) PROVE LogInv'
<1> USE DEF LogInv
<1> DEFINE m == lIdx[w]
           p == logAt[w]
<1>1. /\ p \in Parts /\ line' = [line EXCEPT ![CellOf(m)][p] = <<w, m>>]
      /\ logAt' = [logAt EXCEPT ![w] = IF p = 2 THEN 0 ELSE 2]
      /\ done' = IF p = 2 THEN done \cup {m} ELSE done
      /\ UNCHANGED <<lineHead, lIdx, viewAt, lHead, nScroll, shown, mixed, before>>
  <2>1. p = 1 \/ p = 2
    BY DEF CopyPart, Parts
  <2> QED
    BY <2>1 DEF CopyPart, viewer
<1>2. /\ m \in Int /\ m \in 0..lineHead - 1 /\ Writing(w) /\ lineHead \in Nat
      /\ CellOf(m) \in 0..LINES - 1
  <2>1. m \in Int /\ lineHead \in Nat
    BY DEF LogTypeOK
  <2>2. Writing(w)
    BY <1>1 DEF Writing, Parts
  <2>3. m \in 0..lineHead - 1
    BY <2>2 DEF Claims
  <2> QED
    BY <2>1, <2>2, <2>3, CellRange
<1>3. /\ line' \in [0..LINES - 1 -> Line]
      /\ \A c \in 0..LINES - 1 : c # CellOf(m) => line'[c] = line[c]
      /\ line'[CellOf(m)][p] = <<w, m>>
      /\ \A q \in Parts : q # p => line'[CellOf(m)][q] = line[CellOf(m)][q]
  <2> DEFINE old == line[CellOf(m)]
             new == [old EXCEPT ![p] = <<w, m>>]
  <2>1. line' = [line EXCEPT ![CellOf(m)] = new] /\ old \in Line
    BY <1>1, <1>2 DEF LogTypeOK
  <2>2. new \in Line /\ new[p] = <<w, m>> /\ \A q \in Parts : q # p => new[q] = old[q]
    BY <1>1, <1>2, <2>1 DEF Line
  <2>3. line'[CellOf(m)] = new /\ \A c \in 0..LINES - 1 : c # CellOf(m) => line'[c] = line[c]
    BY <1>2, <2>1 DEF LogTypeOK
  <2> HIDE DEF new
  <2>4. line' \in [0..LINES - 1 -> Line]
    BY <1>2, <2>1, <2>2 DEF LogTypeOK
  <2> QED
    BY <2>2, <2>3, <2>4
<1> HIDE DEF m, p
<1>4. LogTypeOK'
  <2>1. done' \subseteq Int
    BY <1>1, <1>2 DEF LogTypeOK
  <2> QED
    BY <1>1, <1>3, <2>1 DEF LogTypeOK
<1>5. \A v \in LogWriters : Writing(v)' => Writing(v)
  BY <1>1, <1>2 DEF Writing, LogTypeOK
<1>6. Claims'
  BY <1>1, <1>5 DEF Claims
<1>7. \A n \in Int : Intact(n)' = Intact(n)
  BY <1>1 DEF Intact, Fresh
\* No other intact line has a part in this cell.
<1>8. ASSUME NEW n \in 0..lineHead - 1, Intact(n), n # m
      PROVE  line'[CellOf(n)] = line[CellOf(n)]
  <2>1. CellOf(n) # CellOf(m) /\ n \in Int
    BY <1>2, <1>8, CellApart DEF m
  <2>2. CellOf(n) \in 0..LINES - 1
    BY <2>1, CellRange
  <2> QED
    BY <1>3, <2>1, <2>2
<1>9. p = 2 /\ Intact(m) => \A q \in Parts : line'[CellOf(m)][q] = <<w, m>>
  <2> SUFFICES ASSUME p = 2, Intact(m), NEW q \in Parts PROVE line'[CellOf(m)][q] = <<w, m>>
    OBVIOUS
  <2>1. line[CellOf(m)][1] = <<w, m>>
    BY DEF Written, Held, m, p
  <2>2. q = 1 \/ q = 2
    BY DEF Parts
  <2> QED
    BY <1>3, <2>1, <2>2
<1>10. \A n \in done : n \in 0..lineHead - 1 /\ n # m
  BY <1>2 DEF Written, m
<1>11. Written'
  <2>1. \A n \in done' : n \in 0..lineHead - 1 /\ \A v \in LogWriters : Writing(v)' => lIdx[v] # n
    <3> SUFFICES ASSUME NEW n \in done'
                 PROVE  n \in 0..lineHead - 1 /\ \A v \in LogWriters : Writing(v)' => lIdx[v] # n
      OBVIOUS
    <3>1. CASE n \in done
      BY <1>5, <3>1 DEF Written
    <3>2. CASE n = m /\ p = 2
      <4>1. ~Writing(w)'
        BY <1>1, <3>2 DEF Writing, LogTypeOK
      <4>2. \A v \in LogWriters : Writing(v) /\ lIdx[v] = m => v = w
        BY <1>2 DEF Claims, m
      <4> QED
        BY <1>2, <1>5, <3>2, <4>1, <4>2
    <3> QED
      BY <1>1, <3>1, <3>2
  <2>2. ASSUME NEW n \in done', Intact(n)
        PROVE  \E v \in LogWriters : \A q \in Parts : line'[CellOf(n)][q] = <<v, n>>
    <3>1. CASE n \in done
      BY <1>8, <1>10, <2>2, <3>1 DEF Written, Held
    <3>2. CASE n = m /\ p = 2
      BY <1>9, <2>2, <3>2
    <3> QED
      BY <1>1, <3>1, <3>2
  <2>3. ASSUME NEW v \in LogWriters, logAt'[v] = 2, Intact(lIdx[v])
        PROVE  line'[CellOf(lIdx[v])][1] = <<v, lIdx[v]>>
    <3>1. CASE v = w
      <4>1. p = 1
        BY <1>1, <2>3, <3>1 DEF LogTypeOK, Parts
      <4> QED
        BY <1>3, <3>1, <4>1 DEF m
    <3>2. CASE v # w
      <4>1. logAt[v] = 2 /\ Writing(v)
        BY <1>1, <2>3, <3>2 DEF LogTypeOK, Writing
      <4>2. lIdx[v] \in 0..lineHead - 1 /\ lIdx[v] # m
        BY <1>2, <3>2, <4>1 DEF Claims, m
      <4>3. line[CellOf(lIdx[v])][1] = <<v, lIdx[v]>>
        BY <2>3, <4>1 DEF Written, Held
      <4> QED
        BY <1>8, <2>3, <4>2, <4>3
    <3> QED
      BY <3>1, <3>2
  <2>4. \A n \in done' : n \in Int
    BY <1>4 DEF LogTypeOK
  <2>5. \A v \in LogWriters : lIdx[v] \in Int
    BY DEF LogTypeOK
  <2> QED
    BY <1>1, <1>7, <2>1, <2>2, <2>3, <2>4, <2>5 DEF Written, Held
<1>12. Viewed'
  <2>1. before \subseteq done' /\ lHead <= lineHead
    BY <1>1 DEF Viewed
  <2>2. ASSUME NEW r \in Rows, NEW q \in Parts, NEW n, n = LineAt(r, lHead, nScroll),
               n \in before, Intact(n), IsCopied(r, q)
        PROVE  shown[r][q] = line'[CellOf(n)][q]
    <3>1. shown[r][q] = line[CellOf(n)][q]
      BY <2>2 DEF Viewed
    <3>2. n \in done
      BY <2>2 DEF Viewed
    <3> QED
      BY <1>8, <1>10, <2>2, <3>1, <3>2
  <2>3. \A n \in before : n \in Int
    BY DEF LogTypeOK
  <2>4. /\ \A r \in Rows : LineAt(r, lHead, nScroll)' = LineAt(r, lHead, nScroll)
        /\ \A r \in Rows : \A q \in Parts : IsCopied(r, q)' = IsCopied(r, q)
    BY <1>1 DEF LineAt, IsCopied
  <2> QED
    BY <1>1, <1>7, <2>1, <2>2, <2>3, <2>4 DEF Viewed
<1> QED
  BY <1>4, <1>6, <1>11, <1>12

\* The steps of the viewer leave the writers alone.
LEMMA WritersKept ==
  ASSUME Claims, Written, UNCHANGED <<shared, writers, done, mixed>>
  PROVE  Claims' /\ Written' /\ \A n : Intact(n)' = Intact(n)
<1>1. UNCHANGED <<lineHead, line, logAt, lIdx, done, mixed>>
  BY DEF shared, writers
<1>2. Claims'
  BY <1>1 DEF Claims, Writing
<1>3. \A n : Intact(n)' = Intact(n)
  BY <1>1 DEF Intact, Fresh
<1>4. Written'
  BY <1>1, <1>3 DEF Written, Writing, Held
<1> QED
  BY <1>2, <1>3, <1>4

LEMMA PollKeeps ==
  ASSUME LogInv, ViewPoll PROVE LogInv'
<1> USE DEF LogInv
<1>1. UNCHANGED <<shared, writers, done, mixed>> /\ viewAt = <<>>
  BY DEF ViewPoll
<1>2. UNCHANGED <<lineHead, line, logAt, lIdx>>
  BY <1>1 DEF shared, writers
<1>3. Claims' /\ Written' /\ \A n : Intact(n)' = Intact(n)
  BY <1>1, WritersKept
<1>4. CASE UNCHANGED <<lHead, nScroll, viewAt, shown, before>>
  <2>1. LogTypeOK'
    BY <1>1, <1>2, <1>4 DEF LogTypeOK
  <2>2. Viewed'
    BY <1>1, <1>2, <1>3, <1>4 DEF Viewed, LineAt, IsCopied
  <2> QED
    BY <1>3, <2>1, <2>2
<1>5. ASSUME NEW scroll \in Nat, lHead' = lineHead, nScroll' = Clamped(scroll, lineHead), viewAt' = <<1, 1>>,
             shown' = [r \in Rows |-> Blank], before' = done
      PROVE  LogInv'
  <2>1. Blank \in Line /\ NVIS \in Nat \ {0} /\ lineHead \in Nat
    BY SysLogAssumption DEF Blank, Line, LogTypeOK
  <2>2. nScroll' \in Int
    BY <1>5, <2>1 DEF Clamped
  <2>3. viewAt' \in Rows \X Parts
    BY <1>5, <2>1 DEF Rows, Parts
  <2>4. LogTypeOK'
    BY <1>1, <1>2, <1>5, <2>1, <2>2, <2>3 DEF LogTypeOK
  <2>5. ASSUME NEW r \in Rows, NEW p \in Parts PROVE ~IsCopied(r, p)'
    BY <1>5 DEF IsCopied, Rows, Parts
  <2>6. Viewed'
    BY <1>1, <1>2, <1>5, <2>1, <2>5 DEF Viewed
  <2> QED
    BY <1>3, <2>4, <2>6
<1> QED
  BY <1>4, <1>5 DEF ViewPoll

LEMMA PartKeeps ==
  ASSUME LogInv, ViewPart PROVE LogInv'
<1> USE DEF LogInv
<1> DEFINE r == viewAt[1]
           p == viewAt[2]
           n == LineAt(r, lHead, nScroll)
<1>1. /\ UNCHANGED <<shared, writers, lHead, nScroll, done, mixed, before>> /\ viewAt # <<>>
      /\ shown' = IF InRing(n, lHead) THEN [shown EXCEPT ![r][p] = line[CellOf(n)][p]] ELSE shown
      /\ viewAt' = IF p = 1 THEN <<r, 2>> ELSE IF r < NVIS THEN <<r + 1, 1>> ELSE <<>>
  BY DEF ViewPart, logHistory
<1>2. UNCHANGED <<lineHead, line, logAt, lIdx>>
  BY <1>1 DEF shared, writers
<1>3. Claims' /\ Written' /\ \A k : Intact(k)' = Intact(k)
  BY <1>1, WritersKept
<1>4. /\ r \in Rows /\ p \in Parts /\ viewAt = <<r, p>> /\ NVIS \in Nat \ {0}
  BY <1>1, SysLogAssumption DEF LogTypeOK
<1>5. n \in Int
  BY <1>4 DEF LineAt, LogTypeOK, Rows
<1>6. CellOf(n) \in 0..LINES - 1
  BY <1>5, CellRange
<1>7. /\ shown' \in [Rows -> Line]
      /\ InRing(n, lHead) => shown'[r][p] = line[CellOf(n)][p]
      /\ \A s \in Rows : \A q \in Parts : s # r \/ q # p => shown'[s][q] = shown[s][q]
  <2> DEFINE x == line[CellOf(n)][p]
  <2>1. x \in {<<>>} \cup LogWriters \X Int
    BY <1>4, <1>6 DEF LogTypeOK, Line
  <2>2. shown[r] \in Line /\ [shown[r] EXCEPT ![p] = x] \in Line
    BY <1>4, <2>1 DEF LogTypeOK, Line
  <2> HIDE DEF x, n
  <2>3. InRing(n, lHead) => shown' = [shown EXCEPT ![r] = [shown[r] EXCEPT ![p] = x]]
    BY <1>1 DEF x
  <2>4. ~InRing(n, lHead) => shown' = shown
    BY <1>1
  <2>5. InRing(n, lHead) => /\ shown' \in [Rows -> Line] /\ shown'[r] = [shown[r] EXCEPT ![p] = x]
                            /\ \A s \in Rows : s # r => shown'[s] = shown[s]
    BY <1>4, <2>2, <2>3 DEF LogTypeOK
  <2>6. [shown[r] EXCEPT ![p] = x][p] = x /\ \A q \in Parts : q # p => [shown[r] EXCEPT ![p] = x][q] = shown[r][q]
    BY <1>4, <2>2 DEF Line
  <2>7. CASE InRing(n, lHead)
    <3>1. /\ shown' \in [Rows -> Line] /\ shown'[r][p] = x
          /\ \A q \in Parts : q # p => shown'[r][q] = shown[r][q]
          /\ \A s \in Rows : s # r => shown'[s] = shown[s]
      BY <2>5, <2>6, <2>7
    <3>2. \A s \in Rows : \A q \in Parts : s # r \/ q # p => shown'[s][q] = shown[s][q]
      BY <3>1
    <3> QED
      BY <3>1, <3>2 DEF x
  <2>8. CASE ~InRing(n, lHead)
    <3>1. shown \in [Rows -> Line]
      BY DEF LogTypeOK
    <3> QED
      BY <2>4, <2>8, <3>1
  <2> QED
    BY <2>7, <2>8
<1>8. viewAt' \in {<<>>} \cup Rows \X Parts
  BY <1>1, <1>4 DEF Rows, Parts
<1>9. LogTypeOK'
  BY <1>1, <1>2, <1>7, <1>8 DEF LogTypeOK
<1>10. ASSUME NEW s \in Rows, NEW q \in Parts, IsCopied(s, q)'
       PROVE  IsCopied(s, q) \/ (s = r /\ q = p)
  BY <1>1, <1>4, <1>10 DEF IsCopied, Rows, Parts
<1>11. Viewed'
  <2>1. before \subseteq done /\ lHead <= lineHead
    BY DEF Viewed
  <2>2. ASSUME NEW s \in Rows, NEW q \in Parts, NEW k, k = LineAt(s, lHead, nScroll),
               k \in before, Intact(k), IsCopied(s, q)'
        PROVE  shown'[s][q] = line[CellOf(k)][q]
    <3>1. CASE s = r /\ q = p
      <4>1. k = n /\ k \in 0..lineHead - 1 /\ lHead <= lineHead /\ lHead \in Nat /\ lineHead \in Nat /\ LINES \in Nat
        BY <2>1, <2>2, <3>1, SysLogAssumption DEF Written, LogTypeOK
      <4>2. InRing(n, lHead)
        BY <2>2, <4>1 DEF InRing, Intact, Fresh
      <4> QED
        BY <1>7, <3>1, <4>1, <4>2
    <3>2. CASE ~(s = r /\ q = p)
      <4>1. shown[s][q] = line[CellOf(k)][q]
        BY <1>10, <2>2, <3>2 DEF Viewed
      <4> QED
        BY <1>7, <3>2, <4>1
    <3> QED
      BY <3>1, <3>2
  <2>3. \A s \in Rows : LineAt(s, lHead, nScroll)' = LineAt(s, lHead, nScroll)
    BY <1>1 DEF LineAt
  <2> QED
    BY <1>1, <1>2, <1>3, <2>1, <2>2, <2>3 DEF Viewed
<1> QED
  BY <1>3, <1>9, <1>11

LEMMA LogInvNext == LogInv /\ [LogNext]_logVars => LogInv'
<1> SUFFICES ASSUME LogInv, [LogNext]_logVars PROVE LogInv'
  OBVIOUS
<1>1. CASE UNCHANGED logVars
  <2>1. /\ UNCHANGED <<shared, writers, done, mixed>> /\ UNCHANGED <<lineHead, line, logAt, lIdx>>
        /\ UNCHANGED <<lHead, nScroll, viewAt, shown, before>>
    BY <1>1 DEF logVars, shared, writers, viewer, logHistory
  <2>2. Claims' /\ Written' /\ \A n : Intact(n)' = Intact(n)
    BY <2>1, WritersKept DEF LogInv
  <2>3. LogTypeOK'
    BY <2>1 DEF LogInv, LogTypeOK
  <2>4. Viewed'
    BY <2>1, <2>2 DEF LogInv, Viewed, LineAt, IsCopied
  <2> QED
    BY <2>2, <2>3, <2>4 DEF LogInv
<1> QED
  BY <1>1, ClaimKeeps, CopyKeeps, PollKeeps, PartKeeps DEF LogNext

\* Whatever the writers, the lines and the rows, a finished frame of the viewer (dcwlog.c)
\* holds each line as it was written, unless its cell was claimed again or its writer met
\* another one there.
THEOREM LogShownAsWritten == LogSpec => []ShownAsWritten
<1>1. LogInv => ShownAsWritten
  <2> SUFFICES ASSUME LogInv, viewAt = <<>>, NEW r \in Rows, NEW n, n = LineAt(r, lHead, nScroll),
                      n \in before \ mixed, lineHead - n <= LINES
               PROVE  \E w \in LogWriters : shown[r] = [p \in Parts |-> <<w, n>>]
    BY DEF ShownAsWritten
  <2>1. n \in done /\ Intact(n)
    BY DEF LogInv, Viewed, Intact, Fresh
  <2>2. PICK w \in LogWriters : \A p \in Parts : line[CellOf(n)][p] = <<w, n>>
    BY <2>1 DEF LogInv, Written, Held
  <2>3. \A p \in Parts : shown[r][p] = <<w, n>>
    BY <2>1, <2>2 DEF LogInv, Viewed, IsCopied
  <2>4. shown[r] \in Line
    BY DEF LogInv, LogTypeOK
  <2>5. shown[r] = [p \in Parts |-> <<w, n>>]
    BY <2>3, <2>4 DEF Line
  <2> QED
    BY <2>5
<1>2. LogInit => LogInv
  BY LogInvInit
<1> QED
  BY <1>1, <1>2, LogInvNext, PTL DEF LogSpec
-----------------------------------------------------------------------------
(* The boot chooser                                                        *)

\* What BootIeImage can have open or allocated.
Gettable ==
  {<<"file">>, <<"payload">>, <<"pfnTmp">>, <<"tramp">>} \cup {<<"list", k>> : k \in 0..CHAIN_MAXPFNPG - 1}

\* The lists for the first n pages.
ListsFor(n) == {<<"list", k>> : k \in {i \in Nat : i * ENTRIES < n}}

\* Where the image has got to.
Placing == bootAt \in {"read", "lists", "copy", "entered"}
Copying == bootAt \in {"copy", "entered"}
Listed  == IF bootAt = "lists" THEN idx ELSE IF Copying THEN nPages ELSE 0

BootTypeOK ==
  /\ bootAt \in {"menu", "gone", "header", "alloc", "fail", "read", "lists", "copy", "entered"}
  /\ nPages \in 0..MaxPages /\ idx \in 0..nPages
  /\ DOMAIN mem = Pages
  /\ bootAt \in {"menu", "header"} => idx = 0

GivenBack ==
  /\ held \subseteq Gettable
  /\ bootAt \in {"menu", "gone"} => held = {}

\* An image that is read can be listed, and the lists are filled one after the other.
Listable ==
  /\ bootAt \in {"alloc", "read", "lists"} =>
       \A k \in Nat : k * ENTRIES < nPages => k < CHAIN_MAXPFNPG
  /\ bootAt = "lists" /\ idx < nPages => \E k \in Nat : idx = k * ENTRIES

\* No page is used twice.
Apart ==
  Placing =>
    /\ DOMAIN place = Payload \cup {<<"tramp">>} \cup ListsFor(Listed)
    /\ \A p \in DOMAIN place : place[p] \in RAM
    /\ \A p, q \in DOMAIN place : place[p] = place[q] => p = q

\* As long as nothing is copied, everything is where it was put.
Built ==
  bootAt = "lists" =>
    /\ \A p \in Payload : mem[place[p]] = p
    /\ \A k \in Nat : k * ENTRIES < idx => mem[place[<<"list", k>>]] = <<"addresses", Addresses(k)>>

\* While it is copied: the pages copied are there, and those to come can still be found.
Copied ==
  Copying /\ (\A p \in Payload \cup Lists : Harmless(p)) =>
    /\ \A j \in 0..idx - 1 : mem[DST + j] = <<"page", j>>
    /\ \A j \in idx..nPages - 1 : mem[place[<<"page", j>>]] = <<"page", j>>
    /\ idx < nPages =>
         \A k \in Nat : k * ENTRIES < nPages /\ idx < (k + 1) * ENTRIES
           => mem[place[<<"list", k>>]] = <<"addresses", Addresses(k)>>

BootInv ==
  /\ BootTypeOK /\ GivenBack /\ Listable /\ Apart /\ Built /\ Copied
  /\ bootAt = "entered" => idx = nPages

-----------------------------------------------------------------------------
LEMMA BootNumbers ==
  /\ DST \in Nat /\ RAM \subseteq Nat /\ ENTRIES \in Nat /\ ENTRIES > 0
  /\ CHAIN_MAXPFNPG \in Nat /\ MaxPages \in Nat
BY BootAssumption

\* A place in the image is a list and an entry of it.
LEMMA ListAndEntry ==
  ASSUME NEW i \in Nat
  PROVE  /\ i \div ENTRIES \in Nat /\ i % ENTRIES \in 0..ENTRIES - 1
         /\ i = (i \div ENTRIES) * ENTRIES + (i % ENTRIES)
BY BootNumbers

LEMMA Multiples ==
  ASSUME NEW i \in Nat, NEW k \in Nat
  PROVE  /\ i * ENTRIES \in Nat /\ (i + 1) * ENTRIES = i * ENTRIES + ENTRIES
         /\ i < k => (i + 1) * ENTRIES <= k * ENTRIES
         /\ i * ENTRIES < k * ENTRIES => i < k
BY BootNumbers

\* Exactly the lists that the code counts.
LEMMA CountedLists ==
  ASSUME NEW k \in Nat, NEW n \in Nat
  PROVE  k * ENTRIES < n <=> k < (n + ENTRIES - 1) \div ENTRIES
<1> DEFINE m == (n + ENTRIES - 1) \div ENTRIES
           r == (n + ENTRIES - 1) % ENTRIES
<1>1. n + ENTRIES - 1 \in Nat
  BY BootNumbers
<1>2. m \in Nat /\ r \in 0..ENTRIES - 1 /\ n + ENTRIES - 1 = m * ENTRIES + r
  BY <1>1, ListAndEntry
<1>3. /\ k < m => (k + 1) * ENTRIES <= m * ENTRIES
      /\ (k + 1) * ENTRIES = k * ENTRIES + ENTRIES
      /\ k * ENTRIES \in Nat /\ m * ENTRIES \in Nat
  BY <1>2, Multiples
<1>4. m < k + 1 => m * ENTRIES <= k * ENTRIES
  BY <1>2, BootNumbers
<1> HIDE DEF m, r
<1> DEFINE km == k * ENTRIES
           mm == m * ENTRIES
<1>8. /\ n + ENTRIES - 1 = mm + r /\ km \in Nat /\ mm \in Nat /\ r \in 0..ENTRIES - 1
      /\ k < m => km + ENTRIES <= mm
      /\ m < k + 1 => mm <= km
      /\ m \in Nat
  BY <1>2, <1>3, <1>4
<1> HIDE DEF km, mm
<1>5. k < m => km < n
  BY <1>8, BootNumbers
<1>6. m <= k => n <= km
  BY <1>8, BootNumbers
<1>7. k < m <=> k * ENTRIES < n
  BY <1>5, <1>6, <1>8 DEF km
<1> QED
  BY <1>7 DEF m

LEMMA ListsAreCounted ==
  ASSUME nPages \in Nat PROVE ListsFor(nPages) = Lists
<1> DEFINE m == (nPages + ENTRIES - 1) \div ENTRIES
<1>1. \A k \in Nat : k * ENTRIES < nPages <=> k < m
  BY CountedLists
<1>2. m \in Nat
  <2>1. nPages + ENTRIES - 1 \in Nat
    BY BootNumbers
  <2> QED
    BY <2>1, ListAndEntry
<1>3. Lists = {<<"list", k>> : k \in 0..m - 1}
  BY DEF Lists
<1> HIDE DEF m
<1>4. {i \in Nat : i * ENTRIES < nPages} = 0..m - 1
  BY <1>1, <1>2
<1> QED
  BY <1>3, <1>4 DEF ListsFor

\* What a list holds: the pages from its first on, as many as fit or are left.
LEMMA ListOf ==
  ASSUME BootTypeOK, NEW k \in Nat, k * ENTRIES < nPages
  PROVE  /\ Len(Addresses(k)) \in 1..ENTRIES
         /\ k * ENTRIES + Len(Addresses(k)) = nPages
              \/ (Len(Addresses(k)) = ENTRIES /\ (k + 1) * ENTRIES <= nPages)
         /\ \A e \in 0..ENTRIES - 1 : k * ENTRIES + e < nPages =>
              Addresses(k)[e + 1] = place[<<"page", k * ENTRIES + e>>]
<1> DEFINE first == k * ENTRIES
           left == nPages - first
           size == IF left > ENTRIES THEN ENTRIES ELSE left
<1>1. nPages \in Nat /\ first \in Nat /\ (k + 1) * ENTRIES = first + ENTRIES
  BY Multiples DEF BootTypeOK
<1>2. Addresses(k) = [e \in 1..size |-> place[<<"page", first + e - 1>>]]
  BY DEF Addresses
<1> HIDE DEF first
<1>3. first < nPages
  BY DEF first
<1>4. size \in 1..ENTRIES /\ (first + size = nPages \/ (size = ENTRIES /\ first + ENTRIES <= nPages))
  BY <1>1, <1>3, BootNumbers
<1>8. ENTRIES \in Nat
  BY BootNumbers
<1>5. ASSUME NEW e \in 0..ENTRIES - 1, first + e < nPages
      PROVE  e + 1 \in 1..size /\ first + (e + 1) - 1 = first + e
  <2>1. e \in Nat /\ e + 1 <= ENTRIES /\ e + 1 <= left
    BY <1>1, <1>5, <1>8
  <2> QED
    BY <1>1, <1>4, <2>1
<1> HIDE DEF size
<1>6. Len(Addresses(k)) = size
  BY <1>2, <1>4
<1>7. \A e \in 0..ENTRIES - 1 : first + e < nPages => Addresses(k)[e + 1] = place[<<"page", first + e>>]
  BY <1>2, <1>5
<1> QED
  BY <1>1, <1>4, <1>6, <1>7 DEF first

LEMMA BootInitInv == BootInit => BootInv
<1> SUFFICES ASSUME BootInit PROVE BootInv
  OBVIOUS
<1>1. bootAt = "menu" /\ nPages = 0 /\ idx = 0 /\ held = {} /\ DOMAIN mem = Pages
  BY DEF BootInit
<1> QED
  BY <1>1, BootNumbers DEF BootInv, BootTypeOK, GivenBack, Listable, Apart, Built, Copied, Placing,
     Copying, Gettable

\* The menu, and the steps that only get something.
LEMMA MenuKeeps ==
  ASSUME BootInv, MoveSel \/ Choose \/ MenuEnds \/ ReadHeader \/ Fail PROVE BootInv'
<1> USE BootNumbers DEF BootInv
<1>1. CASE MoveSel
  BY <1>1 DEF MoveSel, BootTypeOK, GivenBack, Listable, Apart, Built, Copied, Placing, Copying, Pages
<1>2. CASE Choose
  <2>1. UNCHANGED <<nPages, place, mem, idx>> /\ bootAt = "menu" /\ bootAt' \in {"menu", "header"}
    BY <1>2 DEF Choose
  <2>2. held' \subseteq Gettable /\ (bootAt' = "menu" => held' = {})
    BY <1>2 DEF Choose, GivenBack, Gettable
  <2> QED
    BY <2>1, <2>2 DEF BootTypeOK, GivenBack, Listable, Apart, Built, Copied, Placing, Copying, Pages
<1>3. CASE MenuEnds
  BY <1>3 DEF MenuEnds, BootTypeOK, GivenBack, Listable, Apart, Built, Copied, Placing, Copying, Pages
<1>4. CASE ReadHeader
  <2>1. UNCHANGED <<held, place, mem>> /\ idx' = idx /\ bootAt' \in {"fail", "alloc"}
        /\ nPages' \in 0..MaxPages
    BY <1>4 DEF ReadHeader, BootTypeOK
  <2>2. idx' \in 0..nPages'
    BY <1>4, <2>1 DEF ReadHeader, BootTypeOK
  <2>5. nPages' \in Nat
    BY <2>1
  <2>6. nPages' + ENTRIES - 1 \in Nat
    <3>1. \A a, b \in Nat : b > 0 => a + b - 1 \in Nat
      OBVIOUS
    <3> QED
      BY <2>5, <3>1
  <2>3. ASSUME bootAt' = "alloc", NEW k \in Nat, k * ENTRIES < nPages' PROVE k < CHAIN_MAXPFNPG
    <3>1. (nPages' + ENTRIES - 1) \div ENTRIES <= CHAIN_MAXPFNPG
      <4>2. (nPages' + ENTRIES - 1) \div ENTRIES \in Nat
        BY <2>6, ListAndEntry
      <4> QED
        BY <1>4, <2>3, <4>2 DEF ReadHeader
    <3>2. k < (nPages' + ENTRIES - 1) \div ENTRIES
      BY <2>3, <2>5, CountedLists
    <3>3. (nPages' + ENTRIES - 1) \div ENTRIES \in Nat
      BY <2>6, ListAndEntry
    <3> QED
      BY <2>3, <3>1, <3>2, <3>3
  <2>4. BootTypeOK'
    BY <2>1, <2>2 DEF BootTypeOK, Pages
  <2> QED
    BY <2>1, <2>3, <2>4 DEF GivenBack, Listable, Apart, Built, Copied, Placing, Copying
<1>5. CASE Fail
  <2>1. bootAt' = "menu" /\ nPages' = 0 /\ idx' = 0 /\ DOMAIN mem' = Pages
    BY <1>5 DEF Fail
  <2>2. held' = {}
    BY <1>5 DEF Fail, GivenBack, Gettable
  <2> QED
    BY <2>1, <2>2 DEF BootTypeOK, GivenBack, Listable, Apart, Built, Copied, Placing, Copying, Pages
<1> QED
  BY <1>1, <1>2, <1>3, <1>4, <1>5

LEMMA AllocateKeeps == ASSUME BootInv, Allocate PROVE BootInv'
<1> USE BootNumbers DEF BootInv
<1>1. UNCHANGED <<nPages, mem, idx>> /\ bootAt = "alloc" /\ bootAt' \in {"read", "fail"}
  BY DEF Allocate
<1>2. held' \subseteq Gettable
  BY DEF Allocate, GivenBack, Gettable
<1>3. Apart'
  <2>1. CASE bootAt' = "read"
    <3>1. /\ place' \in [Payload \cup {<<"tramp">>} -> RAM]
          /\ \A p, q \in DOMAIN place' : place'[p] = place'[q] => p = q
      BY <2>1 DEF Allocate
    <3>2. Listed' = 0 /\ Payload' = Payload
      BY <1>1, <2>1 DEF Listed, Copying, Payload
    <3>3. ListsFor(Listed)' = {}
      <4>1. \A i \in Nat : ~(i * ENTRIES < 0)
        BY Multiples
      <4> QED
        BY <3>2, <4>1 DEF ListsFor
    <3> QED
      BY <3>1, <3>2, <3>3 DEF Apart
  <2>2. CASE bootAt' = "fail"
    BY <2>2 DEF Apart, Placing
  <2> QED
    BY <1>1, <2>1, <2>2
<1> QED
  BY <1>1, <1>2, <1>3 DEF BootTypeOK, GivenBack, Listable, Built, Copied, Copying, Pages

LEMMA ReadPayloadKeeps == ASSUME BootInv, ReadPayload PROVE BootInv'
<1> USE BootNumbers DEF BootInv
<1>1. UNCHANGED <<nPages, place>> /\ bootAt = "read" /\ bootAt' \in {"lists", "fail"}
      /\ DOMAIN mem' = Pages /\ idx' \in {idx, 0} /\ held' \subseteq held
  BY DEF ReadPayload, BootTypeOK
<1>2. CASE bootAt' = "fail"
  BY <1>1, <1>2 DEF BootTypeOK, GivenBack, Listable, Apart, Built, Copied, Placing, Copying, Pages
<1>3. CASE bootAt' = "lists"
  <2>1. /\ idx' = 0
        /\ mem' = [f \in Pages |-> IF HeldBy(f) = {} THEN mem[f] ELSE CHOOSE p \in HeldBy(f) : TRUE]
    BY <1>3 DEF ReadPayload
  <2>2. Listed' = 0 /\ Listed = 0 /\ Payload' = Payload
    BY <1>1, <1>3, <2>1 DEF Listed, Copying, Payload
  <2>3. Apart'
    BY <1>1, <2>2 DEF Apart, Placing, ListsFor
  <2>4. ASSUME NEW p \in Payload PROVE mem'[place[p]] = p
    <3>1. p \in DOMAIN place /\ place[p] \in Pages
      BY <1>1 DEF Apart, Placing, Pages
    <3>2. HeldBy(place[p]) = {p}
      BY <1>1, <3>1 DEF HeldBy, Apart, Placing
    <3>3. (CHOOSE q \in {p} : TRUE) = p
      OBVIOUS
    <3> QED
      BY <2>1, <3>1, <3>2, <3>3
  <2>5. \A k \in Nat : ~(k * ENTRIES < idx')
    BY <2>1, Multiples
  <2>6. Built'
    BY <1>1, <2>2, <2>4, <2>5 DEF Built
  <2>7. Listable'
    <3>1. idx' = 0 * ENTRIES
      BY <2>1
    <3> QED
      BY <1>1, <3>1 DEF Listable
  <2> QED
    BY <1>1, <1>3, <2>1, <2>3, <2>6, <2>7 DEF BootTypeOK, GivenBack, Copied, Copying, Pages
<1> QED
  BY <1>1, <1>2, <1>3

\* A list takes a page that nothing else is on.
LEMMA BuildListKeeps == ASSUME BootInv, BuildList PROVE BootInv'
<1> USE BootNumbers DEF BootInv
<1> DEFINE k == idx \div ENTRIES
           list == <<"list", k>>
<1>1. /\ bootAt = "lists" /\ idx < nPages /\ UNCHANGED nPages
      /\ idx \in Nat /\ nPages \in Nat /\ nPages \in 0..MaxPages
  BY DEF BuildList, BootTypeOK
<1>2. k \in Nat /\ idx = k * ENTRIES
  <2>1. PICK i \in Nat : idx = i * ENTRIES
    BY <1>1 DEF Listable
  <2>2. k \in Nat /\ idx % ENTRIES \in 0..ENTRIES - 1 /\ idx = k * ENTRIES + (idx % ENTRIES)
    BY <1>1, ListAndEntry
  <2>3. k * ENTRIES \in Nat /\ (k + 1) * ENTRIES = k * ENTRIES + ENTRIES
    BY <2>2, Multiples
  <2>4. i * ENTRIES < (k + 1) * ENTRIES
    BY <2>1, <2>2, <2>3
  <2>5. i < k + 1
    BY <2>1, <2>2, <2>4, Multiples
  <2>6. ~(i < k)
    <3>1. i < k => (i + 1) * ENTRIES <= k * ENTRIES /\ (i + 1) * ENTRIES = i * ENTRIES + ENTRIES
      BY <2>1, <2>2, Multiples
    <3> QED
      BY <2>1, <2>2, <2>3, <3>1
  <2>7. i = k
    BY <2>1, <2>2, <2>5, <2>6
  <2> QED
    BY <2>1, <2>2, <2>7
<1> HIDE DEF k
<1>3. k < CHAIN_MAXPFNPG /\ list \in Gettable
  <2>1. k < CHAIN_MAXPFNPG
    BY <1>1, <1>2 DEF Listable
  <2> QED
    BY <1>2, <2>1 DEF Gettable
<1>4. \/ bootAt' = "fail" /\ held' \in {held, held \cup {list}} /\ UNCHANGED <<place, mem, idx>>
      \/ \E f \in RAM \ {place[p] : p \in DOMAIN place} :
           /\ held' = held \cup {list} /\ idx' = idx + Len(Addresses(k))
           /\ place' = [p \in DOMAIN place \cup {list} |-> IF p = list THEN f ELSE place[p]]
           /\ mem' = [mem EXCEPT ![f] = <<"addresses", Addresses(k)>>]
           /\ UNCHANGED bootAt
  BY DEF BuildList, k
<1>5. GivenBack'
  BY <1>1, <1>3, <1>4 DEF GivenBack, Gettable
<1>6. CASE bootAt' = "fail" /\ UNCHANGED <<place, mem, idx>>
  BY <1>1, <1>5, <1>6 DEF BootTypeOK, Listable, Apart, Built, Copied, Placing, Copying, Pages
<1>7. CASE \E f \in RAM \ {place[p] : p \in DOMAIN place} :
           /\ idx' = idx + Len(Addresses(k))
           /\ place' = [p \in DOMAIN place \cup {list} |-> IF p = list THEN f ELSE place[p]]
           /\ mem' = [mem EXCEPT ![f] = <<"addresses", Addresses(k)>>]
           /\ UNCHANGED bootAt
  <2>1. PICK f \in RAM \ {place[p] : p \in DOMAIN place} :
           /\ idx' = idx + Len(Addresses(k))
           /\ place' = [p \in DOMAIN place \cup {list} |-> IF p = list THEN f ELSE place[p]]
           /\ mem' = [mem EXCEPT ![f] = <<"addresses", Addresses(k)>>]
           /\ UNCHANGED bootAt
    BY <1>7
  <2>2. /\ Len(Addresses(k)) \in 1..ENTRIES
        /\ idx' = nPages \/ (Len(Addresses(k)) = ENTRIES /\ idx' = (k + 1) * ENTRIES /\ idx' <= nPages)
    <3>1. Len(Addresses(k)) \in 1..ENTRIES /\ (k + 1) * ENTRIES = k * ENTRIES + ENTRIES
      BY <1>1, <1>2, ListOf, Multiples
    <3>2. \/ k * ENTRIES + Len(Addresses(k)) = nPages
          \/ Len(Addresses(k)) = ENTRIES /\ (k + 1) * ENTRIES <= nPages
      BY <1>1, <1>2, ListOf
    <3> QED
      BY <1>2, <2>1, <3>1, <3>2
  <2>3. idx' \in 0..nPages /\ idx < idx'
    BY <1>1, <2>1, <2>2
  <2>4. \A i \in Nat : i * ENTRIES < idx' <=> i * ENTRIES < idx \/ i = k
    <3> SUFFICES ASSUME NEW i \in Nat PROVE i * ENTRIES < idx' <=> i * ENTRIES < idx \/ i = k
      OBVIOUS
    <3> DEFINE im == i * ENTRIES
    <3>1. /\ im \in Nat /\ (k + 1) * ENTRIES = idx + ENTRIES
          /\ i < k => im + ENTRIES <= idx
          /\ k < i => idx + ENTRIES <= im
          /\ i = k => im = idx
      BY <1>2, Multiples
    <3>2. idx' <= idx + ENTRIES
      BY <1>1, <2>1, <2>2
    <3> HIDE DEF im
    <3>3. im < idx' <=> im < idx \/ i = k
      BY <1>1, <1>2, <2>3, <3>1, <3>2
    <3> QED
      BY <3>3 DEF im
  <2>5. ListsFor(idx') = ListsFor(idx) \cup {list}
    <3>1. {i \in Nat : i * ENTRIES < idx'} = {i \in Nat : i * ENTRIES < idx} \cup {k}
      BY <1>2, <2>4
    <3> QED
      BY <3>1 DEF ListsFor
  <2>6. /\ DOMAIN place = Payload \cup {<<"tramp">>} \cup ListsFor(idx)
        /\ \A p \in DOMAIN place : place[p] \in RAM
        /\ \A p, q \in DOMAIN place : place[p] = place[q] => p = q
    BY <1>1 DEF Apart, Placing, Listed
  <2>7. list \notin DOMAIN place
    <3>1. list \notin ListsFor(idx)
      <4>1. ~(k * ENTRIES < idx)
        BY <1>1, <1>2
      <4> QED
        BY <4>1 DEF ListsFor
    <3>2. list \notin Payload
      BY DEF Payload
    <3> QED
      BY <2>6, <3>1, <3>2
  <2>8. Payload' = Payload
    BY <1>1 DEF Payload
  <2>9. Apart'
    <3>1. bootAt' = "lists" /\ Listed' = idx'
      BY <1>1, <2>1 DEF Listed
    <3>2. DOMAIN place' = Payload' \cup {<<"tramp">>} \cup ListsFor(idx')
      BY <2>1, <2>5, <2>6, <2>8
    <3>3. \A p \in DOMAIN place' : place'[p] \in RAM
      BY <2>1, <2>6
    <3>4. \A p, q \in DOMAIN place' : place'[p] = place'[q] => p = q
      BY <2>1, <2>6
    <3>5. ListsFor(Listed)' = ListsFor(idx')
      BY <3>1 DEF ListsFor
    <3> QED
      BY <3>1, <3>2, <3>3, <3>4, <3>5 DEF Apart
  <2>10. \A p \in DOMAIN place : place'[p] = place[p] /\ place[p] # f
    BY <2>1, <2>7
  <2>11. f \in Pages /\ mem'[f] = <<"addresses", Addresses(k)>>
         /\ \A p \in DOMAIN place : mem'[place[p]] = mem[place[p]]
    <3>1. RAM \subseteq Pages
      BY DEF Pages
    <3> QED
      BY <2>1, <2>6, <2>10, <3>1 DEF BootTypeOK
  <2>12. \A i \in Nat : i * ENTRIES < nPages => Addresses(i)' = Addresses(i)
    <3> SUFFICES ASSUME NEW i \in Nat, i * ENTRIES < nPages PROVE Addresses(i)' = Addresses(i)
      OBVIOUS
    <3> DEFINE first == i * ENTRIES
               size == IF nPages - first > ENTRIES THEN ENTRIES ELSE nPages - first
    <3>1. first \in Nat
      BY Multiples
    <3>2. /\ Addresses(i)' = [e \in 1..size |-> place'[<<"page", first + e - 1>>]]
          /\ Addresses(i) = [e \in 1..size |-> place[<<"page", first + e - 1>>]]
      BY <1>1 DEF Addresses
    <3> HIDE DEF first
    <3>3. \A e \in 1..size : first + e - 1 \in 0..nPages - 1
      BY <1>1, <3>1
    <3> HIDE DEF size
    <3>4. \A e \in 1..size : place'[<<"page", first + e - 1>>] = place[<<"page", first + e - 1>>]
      BY <2>6, <2>10, <3>3 DEF Payload
    <3> QED
      BY <3>2, <3>4
  <2>13. Built'
    <3>1. \A p \in Payload : mem'[place'[p]] = p
      BY <1>1, <2>6, <2>10, <2>11 DEF Built
    <3>2. ASSUME NEW i \in Nat, i * ENTRIES < idx'
          PROVE  mem'[place'[<<"list", i>>]] = <<"addresses", Addresses(i)'>>
      <4>1. i * ENTRIES < nPages
        <5>1. i * ENTRIES \in Nat
          BY Multiples
        <5> QED
          BY <1>1, <2>3, <3>2, <5>1
      <4>2. Addresses(i)' = Addresses(i)
        BY <2>12, <4>1
      <4>3. CASE i = k
        <5>1. place'[list] = f
          BY <2>1
        <5> QED
          BY <2>11, <4>2, <4>3, <5>1
      <4>4. CASE i # k
        <5>1. i * ENTRIES < idx
          BY <2>4, <3>2, <4>4
        <5>2. <<"list", i>> \in DOMAIN place
          BY <2>6, <5>1 DEF ListsFor
        <5> QED
          BY <1>1, <2>10, <2>11, <4>2, <5>1, <5>2 DEF Built
      <4> QED
        BY <4>3, <4>4
    <3> QED
      BY <2>8, <3>1, <3>2 DEF Built
  <2>14. Listable'
    <3>1. bootAt' = "lists" /\ \A i \in Nat : i * ENTRIES < nPages' => i < CHAIN_MAXPFNPG
      BY <1>1, <2>1 DEF Listable
    <3>2. idx' < nPages' => \E i \in Nat : idx' = i * ENTRIES
      <4>1. k + 1 \in Nat
        BY <1>2
      <4>2. idx' < nPages' => idx' = (k + 1) * ENTRIES
        BY <1>1, <2>2, <2>3
      <4> QED
        BY <4>1, <4>2
    <3> QED
      BY <3>1, <3>2 DEF Listable
  <2>15. BootTypeOK'
    BY <1>1, <2>1, <2>3 DEF BootTypeOK, Pages
  <2> QED
    BY <1>1, <1>5, <2>1, <2>9, <2>13, <2>14, <2>15 DEF Copied, Copying
<1> QED
  BY <1>4, <1>6, <1>7

LEMMA JumpKeeps == ASSUME BootInv, Jump PROVE BootInv'
<1> USE BootNumbers DEF BootInv
<1>1. UNCHANGED <<nPages, held, place, mem>> /\ bootAt = "lists" /\ idx = nPages /\ idx' = 0
      /\ bootAt' \in {"fail", "copy"} /\ nPages \in Nat
  BY DEF Jump, BootTypeOK
<1>2. Payload' = Payload /\ Listed = nPages /\ (bootAt' = "copy" => Listed' = nPages)
  BY <1>1 DEF Payload, Listed, Copying
<1>3. Apart'
  BY <1>1, <1>2 DEF Apart, Placing, ListsFor
<1>4. \A i \in Nat : Addresses(i)' = Addresses(i)
  BY <1>1 DEF Addresses
<1>5. Copied'
  <2>1. \A j \in 0..nPages - 1 : mem[place[<<"page", j>>]] = <<"page", j>>
    BY <1>1 DEF Built, Payload
  <2>2. \A i \in Nat : i * ENTRIES < nPages => mem[place[<<"list", i>>]] = <<"addresses", Addresses(i)>>
    BY <1>1 DEF Built
  <2>3. 0..idx' - 1 = {}
    BY <1>1
  <2> QED
    BY <1>1, <1>4, <2>1, <2>2, <2>3 DEF Copied
<1> QED
  BY <1>1, <1>3, <1>5 DEF BootTypeOK, GivenBack, Listable, Built, Pages

\* The page that is copied next is found, unless its list or the page was overwritten too early.
LEMMA SourceIsThePage ==
  ASSUME BootInv, bootAt = "copy", idx < nPages, \A p \in Payload \cup Lists : Harmless(p)
  PROVE  Source = <<"page", idx>>
<1> USE BootNumbers DEF BootInv
<1> DEFINE k == idx \div ENTRIES
           e == idx % ENTRIES
<1>1. idx \in Nat /\ nPages \in Nat
  BY DEF BootTypeOK
<1>2. k \in Nat /\ e \in 0..ENTRIES - 1 /\ idx = k * ENTRIES + e
  BY <1>1, ListAndEntry
<1>3. Source = LET list == mem[place[<<"list", k>>]]
               IN IF list[1] = "addresses" THEN mem[list[2][e + 1]] ELSE Other
  BY DEF Source
<1> HIDE DEF k, e
<1>4. k * ENTRIES < nPages /\ idx < (k + 1) * ENTRIES /\ k * ENTRIES + e < nPages
  <2>1. k * ENTRIES \in Nat /\ (k + 1) * ENTRIES = k * ENTRIES + ENTRIES
    BY <1>2, Multiples
  <2> QED
    BY <1>1, <1>2, <2>1
<1>5. mem[place[<<"list", k>>]] = <<"addresses", Addresses(k)>>
  BY <1>2, <1>4 DEF Copied, Copying
<1>6. Addresses(k)[e + 1] = place[<<"page", idx>>]
  BY <1>2, <1>4, ListOf
<1>7. mem[place[<<"page", idx>>]] = <<"page", idx>>
  <2>1. idx \in idx..nPages - 1
    BY <1>1
  <2> QED
    BY <2>1 DEF Copied, Copying
<1> QED
  BY <1>3, <1>5, <1>6, <1>7

LEMMA CopyPageKeeps == ASSUME BootInv, CopyPage PROVE BootInv'
<1> USE BootNumbers DEF BootInv
<1>1. /\ UNCHANGED <<nPages, held, place, bootAt>> /\ bootAt = "copy" /\ idx < nPages /\ idx' = idx + 1
      /\ mem' = [mem EXCEPT ![DST + idx] = Source]
      /\ nPages \in 0..MaxPages /\ nPages \in Nat /\ idx \in Nat
  BY DEF CopyPage, BootTypeOK
<1>2. Payload' = Payload /\ Listed' = Listed /\ Lists' = Lists /\ Listed = nPages
  BY <1>1 DEF Payload, Listed, Copying, Lists
<1>3. Apart'
  BY <1>1, <1>2 DEF Apart, Placing, ListsFor
<1>4. BootTypeOK'
  BY <1>1 DEF BootTypeOK, Pages
<1>5. \A i \in Nat : Addresses(i)' = Addresses(i)
  BY <1>1 DEF Addresses
<1>6. \A p : Harmless(p)' <=> Harmless(p)
  BY <1>1 DEF Harmless
<1>7. DST + idx \in DOMAIN mem
  BY <1>1 DEF BootTypeOK, Pages
<1>8. Copied'
  <2> SUFFICES ASSUME \A p \in Payload \cup Lists : Harmless(p)
               PROVE  /\ \A j \in 0..idx' - 1 : mem'[DST + j] = <<"page", j>>
                      /\ \A j \in idx'..nPages - 1 : mem'[place[<<"page", j>>]] = <<"page", j>>
                      /\ idx' < nPages =>
                           \A k \in Nat : k * ENTRIES < nPages /\ idx' < (k + 1) * ENTRIES
                             => mem'[place[<<"list", k>>]] = <<"addresses", Addresses(k)>>
    BY <1>1, <1>2, <1>5, <1>6 DEF Copied, Copying
  <2>1. mem'[DST + idx] = <<"page", idx>>
    BY <1>1, <1>7, SourceIsThePage
  <2>2. /\ \A j \in 0..idx - 1 : mem[DST + j] = <<"page", j>>
        /\ \A j \in idx..nPages - 1 : mem[place[<<"page", j>>]] = <<"page", j>>
        /\ \A k \in Nat : k * ENTRIES < nPages /\ idx < (k + 1) * ENTRIES
             => mem[place[<<"list", k>>]] = <<"addresses", Addresses(k)>>
    BY <1>1 DEF Copied, Copying
  <2>3. \A x : x # DST + idx => mem'[x] = mem[x] \/ x \notin Pages
    BY <1>1 DEF BootTypeOK
  <2>4. ASSUME NEW j \in 0..idx' - 1 PROVE mem'[DST + j] = <<"page", j>>
    <3>1. DST + j \in Pages
      BY <1>1 DEF Pages
    <3>2. CASE j = idx
      BY <2>1, <3>2
    <3>3. CASE j # idx
      <4>1. j \in 0..idx - 1 /\ DST + j # DST + idx
        BY <1>1, <3>3
      <4> QED
        BY <2>2, <2>3, <3>1, <4>1
    <3> QED
      BY <3>2, <3>3
  <2>5. DOMAIN place = Payload \cup {<<"tramp">>} \cup Lists /\ \A p \in DOMAIN place : place[p] \in RAM
    BY <1>1, <1>2, ListsAreCounted DEF Apart, Placing
  <2>6. \A p \in DOMAIN place : place[p] \in Pages /\ place[p] \in Nat
    BY <2>5 DEF Pages
  <2>7. ASSUME NEW j \in idx'..nPages - 1 PROVE mem'[place[<<"page", j>>]] = <<"page", j>>
    <3>1. j \in Nat /\ j < nPages /\ idx < j /\ j \in idx..nPages - 1 /\ <<"page", j>> \in Payload
      BY <1>1 DEF Payload
    <3>2. Harmless(<<"page", j>>)
      BY <3>1
    <3>3. place[<<"page", j>>] # DST + idx
      <4>1. place[<<"page", j>>] \in Nat
        BY <2>5, <2>6, <3>1
      <4>2. place[<<"page", j>>] - DST \in 0..nPages - 1 => place[<<"page", j>>] - DST >= j
        BY <3>1, <3>2 DEF Harmless
      <4> QED
        BY <1>1, <3>1, <4>1, <4>2
    <3> QED
      BY <2>2, <2>3, <2>5, <2>6, <3>1, <3>3
  <2>8. ASSUME idx' < nPages, NEW k \in Nat, k * ENTRIES < nPages, idx' < (k + 1) * ENTRIES
        PROVE  mem'[place[<<"list", k>>]] = <<"addresses", Addresses(k)>>
    <3> DEFINE list == <<"list", k>>
               end == (k + 1) * ENTRIES
    <3>1. list \in Lists /\ end \in Nat
      <4>1. list \in ListsFor(nPages)
        BY <2>8 DEF ListsFor
      <4> QED
        BY <1>1, <4>1, ListsAreCounted, Multiples
    <3>2. Harmless(list)
      BY <3>1
    <3>3. place[list] \in Nat /\ place[list] \in Pages
      BY <2>5, <2>6, <3>1
    <3>4. place[list] - DST \in 0..nPages - 1
            => place[list] - DST >= IF end - 1 < nPages THEN end - 1 ELSE nPages - 1
      BY <3>2 DEF Harmless
    <3>5. idx' < end
      BY <2>8
    <3> HIDE DEF end
    <3>6. place[list] # DST + idx
      <4> SUFFICES ASSUME place[list] = DST + idx PROVE FALSE
        OBVIOUS
      <4>1. place[list] - DST = idx /\ idx \in 0..nPages - 1
        BY <1>1
      <4> QED
        BY <1>1, <2>8, <3>1, <3>4, <3>5, <4>1
    <3>7. mem[place[list]] = <<"addresses", Addresses(k)>>
      <4>1. idx < (k + 1) * ENTRIES
        BY <1>1, <3>1, <3>5 DEF end
      <4> QED
        BY <2>2, <2>8, <4>1
    <3> QED
      BY <2>3, <3>3, <3>6, <3>7
  <2> QED
    BY <2>4, <2>7, <2>8
<1> QED
  BY <1>1, <1>3, <1>4, <1>8 DEF GivenBack, Listable, Built

LEMMA EnterKeeps == ASSUME BootInv, Enter PROVE BootInv'
<1> USE BootNumbers DEF BootInv
<1>1. /\ UNCHANGED <<nPages, held, place, mem, idx>> /\ bootAt = "copy" /\ bootAt' = "entered"
      /\ idx = nPages
  BY DEF Enter
<1>2. Listed' = Listed /\ Payload' = Payload /\ Lists' = Lists
  BY <1>1 DEF Listed, Copying, Payload, Lists
<1>3. Apart'
  BY <1>1, <1>2 DEF Apart, Placing, ListsFor
<1>4. Copied'
  <2>1. \A i \in Nat : Addresses(i)' = Addresses(i)
    BY <1>1 DEF Addresses
  <2>2. \A p : Harmless(p)' <=> Harmless(p)
    BY <1>1 DEF Harmless
  <2> QED
    BY <1>1, <1>2, <2>1, <2>2 DEF Copied, Copying
<1> QED
  BY <1>1, <1>3, <1>4 DEF BootTypeOK, GivenBack, Listable, Built, Pages

LEMMA BootInvStep == BootInv /\ [BootNext]_bootVars => BootInv'
<1>1. ASSUME BootInv, UNCHANGED bootVars PROVE BootInv'
  <2>1. UNCHANGED <<bootAt, nPages, held, place, mem, idx>>
    BY <1>1 DEF bootVars
  <2>2. Listed' = Listed /\ Payload' = Payload /\ Lists' = Lists
    BY <2>1 DEF Listed, Copying, Payload, Lists
  <2>3. Apart'
    BY <1>1, <2>1, <2>2 DEF BootInv, Apart, Placing, ListsFor
  <2>4. \A i \in Nat : Addresses(i)' = Addresses(i)
    BY <2>1 DEF Addresses
  <2>5. \A p : Harmless(p)' <=> Harmless(p)
    BY <2>1 DEF Harmless
  <2>6. Copied' /\ Built'
    BY <1>1, <2>1, <2>2, <2>4, <2>5 DEF BootInv, Copied, Copying, Built
  <2> QED
    BY <1>1, <2>1, <2>3, <2>6 DEF BootInv, BootTypeOK, GivenBack, Listable, Pages
<1> QED
  BY <1>1, MenuKeeps, AllocateKeeps, ReadPayloadKeeps, BuildListKeeps, JumpKeeps, CopyPageKeeps,
     EnterKeeps DEF BootNext

\* Whatever the size of the image, of the lists and of RAM, and wherever the allocator puts
\* the pages: back in the menu nothing is held, and a kernel that is entered is whole,
\* unless a page or a list lay where it was overwritten before its use.
THEOREM KernelBootsWholeOrNot == BootSpec => []BootsWholeOrNot
<1>1. BootInv => BootsWholeOrNot
  BY DEF BootInv, BootTypeOK, GivenBack, Copied, Copying, BootsWholeOrNot
<1> QED
  BY <1>1, BootInitInv, BootInvStep, PTL DEF BootSpec
==============================================================================
