-------------------------- MODULE StorageOrderProofs --------------------------
(***************************************************************************)
(* On a card of any size and after any sequence of calls on any number of  *)
(* files, with failing calls to the card and power cuts between any two    *)
(* sectors written, the chains of two names never share a cluster          *)
(* (ChainsStayApart), and a search gives every name that stays             *)
(* (SearchMissesNone).                                                     *)
(*                                                                         *)
(* Neither is inductive.  The invariant is OrderInv: the card by itself    *)
(* is sound (CardInOrder), and so is the volume, window and open files     *)
(* included (VolumeInOrder), wherever the model does not say that the code *)
(* has lost it.  A name truncated to nothing does not count from the       *)
(* release of its chain until its entry is written (CutMarked).            *)
(*                                                                         *)
(* Each call takes an orderly volume to an orderly one, whether it ends or *)
(* stops at a sector that was not read or written: a call on names is      *)
(* Turned, a call on an open file Done.                                    *)
(***************************************************************************)
EXTENDS StorageProofs
-----------------------------------------------------------------------------
(* The calls on names.  What a call on the names in Y makes of a card: the *)
(* other names keep what they have, and no chain is given to two.          *)

Own(d, Y, X) ==
  {EntryIn(d, t).clust : t \in {u \in Clusters : Claims(d, u, X) /\ EntryIn(d, u).name \in Y}}
Stretched(d, e) == \A c \in Clusters : c \in Tab(e) /\ c \notin Tab(d) => FatOf(d, c) = 0
NewClaims(d, e, X, Y) ==
  \A t \in Clusters : Claims(e, t, X) /\ EntryIn(e, t).name \in Y =>
    \/ EntryIn(e, t).clust \in Clusters /\ FatOf(d, EntryIn(e, t).clust) = 0
    \/ EntryIn(e, t).clust \in Own(d, Y, X)
Turned(d, e, X, Y) ==
  /\ AlikeBut(d, e, Y) /\ Keeping(d, e, Own(d, Y, X))
  /\ Stretched(d, e) /\ NewClaims(d, e, X, Y)

LEMMA KeepingLess ==
  ASSUME NEW d, NEW e, NEW A, Keeping(d, e, A), NEW C, \A h : Leads(d, h) /\ h \notin C => h \notin A
  PROVE  Keeping(d, e, C)
BY DEF Keeping

LEMMA GrowsStretched ==
  ASSUME NEW d, NEW e, Grows(d, e) \/ Tab(e) = Tab(d) PROVE Stretched(d, e)
BY DEF Grows, Stretched

LEMMA SameTurned ==
  ASSUME NEW d, NEW e, NEW X, NEW Y, SameEntries(d, e), Keeping(d, e, {}), Stretched(d, e)
  PROVE  Turned(d, e, X, Y)
<1>1. AlikeBut(d, e, Y)
  BY SameAlike
<1>2. Keeping(d, e, Own(d, Y, X))
  BY KeepingLess
<1>3. ASSUME NEW t \in Clusters, Claims(e, t, X), EntryIn(e, t).name \in Y
      PROVE  EntryIn(e, t).clust \in Own(d, Y, X)
  <2>1. EntryIn(e, t) = EntryIn(d, t) /\ Claims(d, t, X)
    BY <1>3 DEF SameEntries, Claims
  <2> QED
    BY <1>3, <2>1 DEF Own
<1> QED
  BY <1>1, <1>2, <1>3 DEF Turned, NewClaims

LEMMA ClearClears ==
  ASSUME NEW v, NEW X, Base(v, X), v.res = "ok", NEW n, n \notin X, NEW t, At(v, t, n)
  PROVE  LET w == Clear(v, n)
         IN  /\ Edits(v, w, X, {n}, {EntryIn(View(v), t).clust}) /\ Tab(View(w)) = Tab(View(v))
             /\ w.res \in Results
             /\ \A u \in Clusters : UsedIn(View(w), u) /\ EntryIn(View(w), u).name = n =>
                                      EntryIn(View(w), u).clust = 0
             /\ w.res = "ok" => At(w, t, n)
<1> DEFINE old == EntryAt(v).clust
           home == v.win.sect
           x == Entry(n, FALSE, FALSE, 0, 0)
           p == Put(v, DirOf(x))
           r == RemoveChain(p, old)
           q == [r EXCEPT !.fs.last = old - 1]
           m == MoveWindow(q, home)
           d == View(v)
           A == Clear(v, n)
<1>1. A = IF old = 0 THEN p ELSE IF r.res = "ok" THEN m ELSE r
  BY DEF Clear, Then
<1>2. t \in Tab(d) /\ home = ClustSect(t) /\ old = EntryIn(d, t).clust
  BY EntryShown DEF At, UsedIn
<1>3. IsEntry(x) /\ x.st = "used" /\ x.name = n /\ x.clust = 0
  BY BlankEntry
<1>4. \A u \in Clusters : UsedIn(d, u) /\ EntryIn(d, u).name = n => u = t
  BY BaseParts DEF At, Sane, DirOK, OneName
<1>5. Fits(d, t, x, X) /\ x.st # "unused" /\ X \subseteq X
  BY <1>3, <1>4 DEF Fits
<1> HIDE DEF x
<1>6. EntrySet(v, p, t, x, X)
  BY <1>2, <1>3, <1>5, EntryPut
<1> HIDE DEF p
<1>7. /\ Base(p, X) /\ Frame(v, p) /\ p.res = v.res /\ p.win.sect = ClustSect(t)
      /\ SameFat(d, View(p)) /\ Tab(View(p)) = Tab(d) /\ IsDir(View(p), t) /\ EntryIn(View(p), t) = x
  BY <1>6 DEF EntrySet
<1>8. (\A gone : Keeping(d, View(p), gone)) /\ \A N : n \in N => AlikeBut(d, View(p), N)
  <2>1. \A N : (UsedIn(d, t) => EntryIn(d, t).name \in N) /\ (x.st = "used" => x.name \in N) => AlikeBut(d, View(p), N)
    BY <1>6 DEF EntrySet
  <2>2. \A gone : Keeping(d, View(p), gone)
    BY <1>6 DEF EntrySet
  <2> QED
    BY <1>3, <2>1, <2>2 DEF At
<1>9. \A u \in Clusters : u # t => EntryIn(View(p), u) = EntryIn(d, u) /\ (UsedIn(View(p), u) <=> UsedIn(d, u))
  BY <1>6 DEF EntrySet
<1>10. AlikeBut(d, View(p), {n})
  BY <1>8
<1>11. Edits(v, p, X, {n}, {old})
  BY <1>7, <1>8, <1>10 DEF Edits
<1>12. At(p, t, n)
  BY <1>2, <1>3, <1>7 DEF At, UsedIn
<1>13. \A u \in Clusters : UsedIn(View(p), u) /\ EntryIn(View(p), u).name = n => EntryIn(View(p), u).clust = 0
  BY <1>3, <1>4, <1>7, <1>9
<1>14. CASE old = 0
  BY <1>1, <1>2, <1>7, <1>11, <1>12, <1>13, <1>14 DEF Results
<1>15. CASE old # 0
  <2>1. Claims(d, t, X)
    BY <1>2, <1>15 DEF Claims, At
  <2>2. Leads(d, old) /\ old # Root /\ \A u \in Clusters : Claims(d, u, X) /\ EntryIn(d, u).clust = old => u = t
    BY <1>2, <2>1, BaseParts DEF Sane, DirOK, OwnChain, At
  <2>3. Leads(View(p), old)
    BY <1>7, <2>2, ReachSame
  <2>4. Unclaimed(View(p), old, X)
    <3> SUFFICES ASSUME NEW u \in Clusters, Claims(View(p), u, X), EntryIn(View(p), u).clust = old
                 PROVE  FALSE
      BY DEF Unclaimed
    <3>1. u # t
      BY <1>3, <1>7, <1>15
    <3>2. Claims(d, u, X) /\ EntryIn(d, u).clust = old
      BY <1>9, <3>1 DEF Claims
    <3> QED
      BY <2>2, <3>1, <3>2
  <2>5. /\ Links(p, r, X, {old}) /\ Tab(View(r)) = Tab(View(p)) /\ r.res \in Results
    BY <1>7, <2>2, <2>3, <2>4, RemoveChainFrees
  <2> HIDE DEF r
  <2>6. Edits(v, r, X, {n}, {old})
    <3>1. Edits(p, r, X, {n}, {old})
      BY <2>5, LinksEdits
    <3>2. {old} \subseteq {old} /\ \A h : Leads(View(v), h) /\ h \notin {old} => h \notin {old}
      OBVIOUS
    <3> QED
      BY <1>11, <3>1, <3>2, EditsOn
  <2>7. \A u \in Clusters : UsedIn(View(r), u) /\ EntryIn(View(r), u).name = n => EntryIn(View(r), u).clust = 0
    BY <1>13, <2>5 DEF Links, SameEntries
  <2>8. CASE r.res # "ok"
    BY <1>1, <1>2, <1>7, <1>15, <2>5, <2>6, <2>7, <2>8
  <2>9. CASE r.res = "ok"
    <3>1. /\ DOMAIN q = Fields /\ q.win = r.win /\ q.disk = r.disk /\ q.io = r.io /\ q.bad = r.bad
          /\ Frame(r, q) /\ q.res = r.res /\ DOMAIN q.fs = {"mounted", "free", "last", "fsi"}
          /\ q.fs.mounted = r.fs.mounted
      BY <2>5 DEF Links, Base, Shape, Fields, Frame
    <3> HIDE DEF q
    <3>2. Base(q, X) /\ View(q) = View(r)
      <4>1. Shape(q)
        BY <2>5, <3>1 DEF Links, Base, Shape, Frame
      <4> QED
        BY <2>5, <3>1, <4>1, BesideBase DEF Links
    <3>3. Moves(q, m, X) /\ m.res \in {"ok", "disk"} /\ (m.res = "ok" => m.win.sect = home)
      BY <2>9, <3>1, <3>2, MoveWindowMoves
    <3> HIDE DEF m
    <3>4. View(m) = View(r) /\ Base(m, X) /\ Frame(r, m)
      BY <3>1, <3>2, <3>3 DEF Moves, Frame, Elsewhere
    <3>5. Edits(v, m, X, {n}, {old})
      BY <2>6, <3>4, FrameOn DEF Edits
    <3>6. At(r, t, n) \/ (UsedIn(View(r), t) /\ EntryIn(View(r), t).name = n)
      BY <1>12, <2>5 DEF Links, SameEntries, At
    <3>7. m.res = "ok" => At(m, t, n)
      BY <1>2, <1>12, <3>3, <3>4, <3>6 DEF At
    <3> QED
      BY <1>1, <1>2, <1>7, <1>15, <2>5, <2>7, <2>9, <3>3, <3>4, <3>5, <3>7 DEF Results
  <2> QED
    BY <2>8, <2>9
<1> QED
  BY <1>14, <1>15

LEMMA ClearTurns ==
  ASSUME NEW d, NEW e, NEW X, NEW n, n \notin X, NEW t \in Clusters, UsedIn(d, t), EntryIn(d, t).name = n,
         AlikeBut(d, e, {n}), Keeping(d, e, {EntryIn(d, t).clust}), Stretched(d, e),
         \A u \in Clusters : UsedIn(e, u) /\ EntryIn(e, u).name = n => EntryIn(e, u).clust = 0
  PROVE  Turned(d, e, X, {n})
<1>1. Keeping(d, e, Own(d, {n}, X))
  <2> SUFFICES ASSUME NEW h, Leads(d, h), h = EntryIn(d, t).clust PROVE h \in Own(d, {n}, X)
    BY KeepingLess
  <2>1. h # 0
    BY ClustersDiffer DEF Leads
  <2>2. Claims(d, t, X)
    BY <2>1 DEF Claims
  <2> QED
    BY <2>2 DEF Own
<1>2. NewClaims(d, e, X, {n})
  BY DEF NewClaims, Claims
<1> QED
  BY <1>1, <1>2 DEF Turned

LEMMA CreateCreates ==
  ASSUME NEW v, NEW X, Base(v, X), v.res \in {"ok", "nofile"}, NotTorn(View(v)), NEW n, n \notin X, NEW how,
         v.res = "ok" => At(v, v.val, n), v.res = "nofile" => NoName(View(v), n)
  PROVE  LET w == Create(v, n, how)
         IN  /\ Base(w, X) /\ Frame(v, w) /\ Turned(View(v), View(w), X, {n})
             /\ w.res \in Results \cup {"denied", "endless", "exist"}
             /\ w.res = "ok" => \E t : At(w, t, n)
<1> DEFINE A == Create(v, n, how)
<1>1. CASE v.res = "nofile"
  <2> DEFINE a == [v EXCEPT !.res = "ok"]
             r == Register(a, n)
             c == Clear(r, n)
  <2>1. A = IF r.res = "ok" THEN c ELSE r
    BY <1>1 DEF Create, Then
  <2>2. Shape(a) /\ a.win = v.win /\ a.disk = v.disk /\ a.io = v.io /\ Frame(v, a) /\ a.res = "ok"
    BY DEF Base, Shape, Fields, Frame
  <2> HIDE DEF a
  <2>3. Base(a, X) /\ View(a) = View(v)
    BY <2>2, BesideBase
  <2>4. /\ Edits(a, r, X, {n}, {}) /\ Grows(View(a), View(r))
        /\ r.res \in Results \cup {"denied", "endless"}
        /\ r.res # "ok" => Links(a, r, X, {})
        /\ r.res = "ok" => \E t : At(r, t, n) /\ EntryIn(View(r), t) = Entry(n, FALSE, FALSE, 0, 0)
    BY <1>1, <2>2, <2>3, RegisterRegisters
  <2> HIDE DEF r
  <2>5. Stretched(View(v), View(r))
    BY <2>3, <2>4, GrowsStretched
  <2>6. CASE r.res # "ok"
    <3>1. Turned(View(v), View(r), X, {n})
      BY <2>3, <2>4, <2>5, <2>6, SameTurned DEF Links
    <3> QED
      BY <1>1, <2>1, <2>2, <2>4, <2>6, <3>1, FrameOn DEF Links
  <2>7. CASE r.res = "ok"
    <3>1. PICK t : At(r, t, n) /\ EntryIn(View(r), t) = Entry(n, FALSE, FALSE, 0, 0)
      BY <2>4, <2>7
    <3>2. EntryIn(View(r), t).clust = 0
      BY <3>1, BlankEntry
    <3>3. Base(r, X)
      BY <2>4 DEF Edits
    <3>4. /\ Edits(r, c, X, {n}, {EntryIn(View(r), t).clust}) /\ Tab(View(c)) = Tab(View(r))
          /\ c.res \in Results
          /\ \A u \in Clusters : UsedIn(View(c), u) /\ EntryIn(View(c), u).name = n =>
                                   EntryIn(View(c), u).clust = 0
          /\ c.res = "ok" => At(c, t, n)
      BY <2>7, <3>1, <3>3, ClearClears
    <3> HIDE DEF c
    <3>5. Edits(a, c, X, {n}, {})
      <4>1. {} \subseteq {} /\ \A h : Leads(View(a), h) /\ h \notin {} => h \notin {EntryIn(View(r), t).clust}
        BY <3>2, ClustersDiffer DEF Leads
      <4> QED
        BY <2>4, <3>4, <4>1, EditsOn
    <3>6. Stretched(View(v), View(c))
      BY <2>5, <3>4 DEF Stretched
    <3>7. Turned(View(v), View(c), X, {n})
      <4>1. NewClaims(View(v), View(c), X, {n})
        BY <3>4 DEF NewClaims, Claims
      <4>2. Keeping(View(v), View(c), Own(View(v), {n}, X))
        BY <2>3, <3>5, KeepingLess DEF Edits
      <4> QED
        BY <2>3, <3>5, <3>6, <4>1, <4>2 DEF Turned, Edits
    <3> QED
      BY <1>1, <2>1, <2>2, <2>7, <3>4, <3>5, <3>7, FrameOn DEF Edits
  <2> QED
    BY <2>6, <2>7
<1>2. CASE v.res = "ok"
  <2> DEFINE c == Clear(v, n)
  <2>1. A \in {c, Fail(v, "denied"), Fail(v, "exist")}
    BY <1>2 DEF Create, Then
  <2>2. CASE A = c
    <3> DEFINE t == v.val
    <3>1. /\ Edits(v, c, X, {n}, {EntryIn(View(v), t).clust}) /\ Tab(View(c)) = Tab(View(v))
          /\ c.res \in Results
          /\ \A u \in Clusters : UsedIn(View(c), u) /\ EntryIn(View(c), u).name = n =>
                                   EntryIn(View(c), u).clust = 0
          /\ c.res = "ok" => At(c, t, n)
      BY <1>2, ClearClears
    <3> HIDE DEF c
    <3>2. Turned(View(v), View(c), X, {n})
      BY <1>2, <3>1, GrowsStretched, ClearTurns DEF Edits, At
    <3> QED
      BY <2>2, <3>1, <3>2 DEF Edits
  <2>3. ASSUME NEW why \in {"denied", "exist"}, A = Fail(v, why) PROVE
          /\ Base(A, X) /\ Frame(v, A) /\ Turned(View(v), View(A), X, {n}) /\ A.res = why
    <3>1. Moves(v, A, X) /\ A.res = why
      BY <2>3, BaseFail
    <3>2. Links(v, A, X, {}) /\ Tab(View(A)) = Tab(View(v))
      BY <3>1, MovesLinks
    <3>3. Turned(View(v), View(A), X, {n})
      BY <3>2, GrowsStretched, SameTurned DEF Links
    <3> QED
      BY <3>1, <3>2, <3>3 DEF Links
  <2> QED
    BY <2>1, <2>2, <2>3
<1> QED
  BY <1>1, <1>2

-----------------------------------------------------------------------------
(* The open files, and the search.                                         *)

\* The entry of a file is where the file object says, and no other name has its chain.
FileBase(d, n, f, X) ==
  /\ \E t \in Clusters : /\ f.slot = ClustSect(t) /\ UsedIn(d, t) /\ EntryIn(d, t).name = n
                         /\ n \notin X => EntryIn(d, t).clust \in {0, f.sclust}
  /\ f.sclust # 0 => Leads(d, f.sclust) /\ f.sclust # Root
  /\ \A t \in Clusters : Claims(d, t, X) /\ EntryIn(d, t).clust = f.sclust => EntryIn(d, t).name = n
  /\ f.dirty => f.dsect \in Clusters \ Tab(d)
  /\ f.ptr \in Int /\ f.size \in Int
\* The cluster it has come to is one of its chain.
FilePos(d, f) ==
  /\ f.ptr # 0 => f.clust \in Reach(d, f.sclust)
  /\ f.ptr % Units # 0 => f.dsect = f.clust
FileOK(d, n, f, X) == FileBase(d, n, f, X) /\ (f.err = "ok" => FilePos(d, f))

Files(v, X) ==
  /\ \A n \in Names : v.fp[n].open => FileOK(View(v), n, v.fp[n], X)
  /\ \A m, n \in Names :
       v.fp[n].open /\ v.fp[m].open /\ v.fp[n].sclust = v.fp[m].sclust /\ v.fp[m].sclust # 0 => m = n

\* Every entry that the search has still to see is ahead of it.
Ahead(d, at, S) ==
  /\ at \in {0} \cup Tab(d)
  /\ \A t \in Clusters : UsedIn(d, t) /\ EntryIn(d, t).name \in S => t \in Reach(d, at)
Finding(v) == v.find.open => Ahead(View(v), v.find.at, v.find.stay \ v.find.seen)

LEMMA FileStays ==
  ASSUME NEW d, NEW e, NEW X, NEW Y, Turned(d, e, X, Y), NEW m, m \notin Y, NEW f, FileOK(d, m, f, X),
         f.dirty => FatOf(d, f.dsect) # 0
  PROVE  FileOK(e, m, f, X)
<1>1. /\ FileBase(d, m, f, X) /\ AlikeBut(d, e, Y) /\ Keeping(d, e, Own(d, Y, X))
      /\ Stretched(d, e) /\ NewClaims(d, e, X, Y)
  BY DEF FileOK, Turned
<1>2. f.sclust \notin Own(d, Y, X) \/ f.sclust = 0
  <2> SUFFICES ASSUME f.sclust \in Own(d, Y, X) PROVE FALSE
    OBVIOUS
  <2>1. PICK t \in Clusters : Claims(d, t, X) /\ EntryIn(d, t).name \in Y /\ EntryIn(d, t).clust = f.sclust
    BY DEF Own
  <2>2. EntryIn(d, t).name = m
    BY <1>1, <2>1 DEF FileBase
  <2> QED
    BY <2>1, <2>2
<1>3. \E t \in Clusters : /\ f.slot = ClustSect(t) /\ UsedIn(e, t) /\ EntryIn(e, t).name = m
                          /\ m \notin X => EntryIn(e, t).clust \in {0, f.sclust}
  BY <1>1 DEF FileBase, AlikeBut
<1>4. f.sclust # 0 => Leads(e, f.sclust) /\ f.sclust # Root /\ Reach(d, f.sclust) \subseteq Reach(e, f.sclust)
  BY <1>1, <1>2 DEF FileBase, Keeping
<1>5. ASSUME NEW t \in Clusters, Claims(e, t, X), EntryIn(e, t).clust = f.sclust
      PROVE  EntryIn(e, t).name = m
  <2>1. CASE EntryIn(e, t).name \in Y
    <3>1. FatOf(d, f.sclust) = 0 \/ f.sclust \in Own(d, Y, X)
      BY <1>1, <1>5, <2>1 DEF NewClaims
    <3>2. f.sclust # 0
      BY <1>5 DEF Claims
    <3>3. FatOf(d, f.sclust) # 0
      BY <1>1, <3>2 DEF FileBase, Leads
    <3> QED
      BY <1>2, <3>1, <3>2, <3>3
  <2>2. CASE EntryIn(e, t).name \notin Y
    <3>1. UsedIn(d, t) /\ EntryIn(e, t).name = EntryIn(d, t).name /\ EntryIn(e, t).clust = EntryIn(d, t).clust
      BY <1>1, <1>5, <2>2 DEF AlikeBut, Claims
    <3>2. Claims(d, t, X) /\ EntryIn(d, t).clust = f.sclust
      BY <1>5, <3>1 DEF Claims
    <3> QED
      BY <1>1, <3>1, <3>2 DEF FileBase
  <2> QED
    BY <2>1, <2>2
<1>6. f.dirty => f.dsect \in Clusters \ Tab(e)
  BY <1>1 DEF FileBase, Stretched
<1>7. FileBase(e, m, f, X)
  BY <1>1, <1>3, <1>4, <1>5, <1>6 DEF FileBase
<1>8. FilePos(d, f) => FilePos(e, f)
  <2>1. f.sclust = 0 => Reach(d, f.sclust) = {}
    BY ReachNone, ClustersDiffer
  <2> QED
    BY <1>4, <2>1 DEF FilePos
<1> QED
  BY <1>7, <1>8 DEF FileOK

\* What the call has to leave alone.
Idle(v, n) == v.fp[n].open /\ v.fp[n].dirty => FatOf(View(v), v.fp[n].dsect) # 0
LEMMA FilesStay ==
  ASSUME NEW v, NEW w, NEW X, NEW Y, Files(v, X), w.fp = v.fp, Turned(View(v), View(w), X, Y),
         \A n \in Names : Idle(v, n) /\ (v.fp[n].open => n \notin Y)
  PROVE  Files(w, X)
<1>1. ASSUME NEW n \in Names, w.fp[n].open PROVE FileOK(View(w), n, w.fp[n], X)
  <2>1. FileOK(View(v), n, v.fp[n], X) /\ n \notin Y /\ (v.fp[n].dirty => FatOf(View(v), v.fp[n].dsect) # 0)
    BY <1>1 DEF Files, Idle
  <2> QED
    BY <2>1, FileStays
<1> QED
  BY <1>1 DEF Files

LEMMA AheadStays ==
  ASSUME NEW d, NEW e, NEW at, NEW S, NEW T, Ahead(d, at, S), T \subseteq S, Tab(d) \subseteq Tab(e),
         \A t \in Tab(d) : Reach(d, t) \subseteq Reach(e, t),
         \A t \in Clusters : UsedIn(e, t) /\ EntryIn(e, t).name \in T =>
                               UsedIn(d, t) /\ EntryIn(d, t).name = EntryIn(e, t).name
  PROVE  Ahead(e, at, T)
<1>1. Reach(d, at) \subseteq Reach(e, at)
  BY ReachNone, ClustersDiffer DEF Ahead
<1> QED
  BY <1>1 DEF Ahead

LEMMA FindingStays ==
  ASSUME NEW v, NEW w, NEW X, NEW Y, Finding(v), w.find = v.find, Turned(View(v), View(w), X, Y), NEW z,
         View(z) = View(w), z.find.open => w.find.open, z.find.at = w.find.at,
         z.find.stay \ z.find.seen \subseteq (w.find.stay \ w.find.seen) \ Y
  PROVE  Finding(z)
<1> SUFFICES ASSUME z.find.open PROVE Ahead(View(z), z.find.at, z.find.stay \ z.find.seen)
  BY DEF Finding
<1> DEFINE S == v.find.stay \ v.find.seen
           T == z.find.stay \ z.find.seen
<1>1. Ahead(View(v), v.find.at, S) /\ T \subseteq S
  BY DEF Finding
<1>2. \A t \in Clusters : UsedIn(View(w), t) /\ EntryIn(View(w), t).name \in T =>
                            UsedIn(View(v), t) /\ EntryIn(View(v), t).name = EntryIn(View(w), t).name
  BY DEF Turned, AlikeBut
<1>3. Tab(View(v)) \subseteq Tab(View(w)) /\ \A t \in Tab(View(v)) : Reach(View(v), t) \subseteq Reach(View(w), t)
  BY DEF Turned, Keeping
<1> HIDE DEF S, T
<1>4. Ahead(View(w), v.find.at, T)
  BY <1>1, <1>2, <1>3, AheadStays
<1> QED
  BY <1>4 DEF T

Opens(v, w, X, n, Y) ==
  /\ Base(w, X) /\ Up(w) /\ w.find = v.find /\ Turned(View(v), View(w), X, Y)
  /\ \A m \in Names : m # n => w.fp[m] = v.fp[m]
  /\ w.res # "ok" => w.fp = v.fp
  /\ w.res = "ok" =>
       /\ w.fs.mounted /\ w.fp[n].open /\ ~w.fp[n].dirty /\ FileOK(View(w), n, w.fp[n], X)
       /\ w.fp[n].sclust \in {0} \cup Own(View(w), {n}, X)

\* What a call opens the file of n on, when the window is on its entry.
Made(v, w, X, n, f) ==
  /\ Base(w, X) /\ View(w) = View(v) /\ w.find = v.find /\ w.res = v.res /\ w.fs = v.fs
  /\ \A m \in Names : m # n => w.fp[m] = v.fp[m]
  /\ w.fp[n] = f /\ FileOK(View(w), n, f, X) /\ f.sclust \in {0} \cup Own(View(w), {n}, X)
LEMMA ObjectMade ==
  ASSUME NEW v, NEW X, Base(v, X), NEW n \in Names, n \notin X, NEW t, At(v, t, n), v.fs.mounted, NEW f,
         DOMAIN f = FileFields, f.open = TRUE, f.slot = v.win.sect, f.sclust = EntryAt(v).clust,
         f.size = EntryAt(v).size, f.ptr = 0, f.dirty = FALSE,
         NEW w, w = [v EXCEPT !.fp[n] = f]
  PROVE  Made(v, w, X, n, f)
<1> DEFINE d == View(v)
<1>1. t \in Tab(d) /\ t \in Clusters /\ v.win.sect = ClustSect(t) /\ UsedIn(d, t) /\ EntryIn(d, t).name = n
  BY DEF At, UsedIn
<1>2. EntryAt(v) = EntryIn(d, t)
  BY <1>1, EntryShown
<1>3. IsUsed(EntryIn(d, t))
  BY <1>1, BaseParts DEF Sane, DirOK, Entries, IsEntry, UsedIn, Unused, Deleted
<1>4. /\ DOMAIN w = Fields /\ w.win = v.win /\ w.disk = v.disk /\ w.io = v.io /\ w.bad = v.bad
      /\ w.fs = v.fs /\ w.find = v.find /\ w.res = v.res /\ DOMAIN w.fp = Names
      /\ \A m \in Names : w.fp[m] = IF m = n THEN f ELSE v.fp[m]
  BY DEF Base, Shape, Fields
<1>5. IsObject(f)
  BY DEF IsObject, FileFields
<1>6. Base(w, X) /\ View(w) = d
  <2>1. Shape(w)
    BY <1>4, <1>5, ZenonT(60) DEF Base, Shape
  <2> QED
    BY <1>4, <2>1, BaseSame
<1>7. f.sclust # 0 => Claims(d, t, X) /\ f.sclust = EntryIn(d, t).clust
  BY <1>1, <1>2 DEF Claims
<1>8. f.sclust \in {0} \cup Own(d, {n}, X)
  BY <1>1, <1>7 DEF Own
<1>9. f.sclust # 0 => Leads(d, f.sclust) /\ f.sclust # Root
  BY <1>1, <1>7, BaseParts DEF Sane, DirOK, OwnChain
<1>10. \A u \in Clusters : Claims(d, u, X) /\ EntryIn(d, u).clust = f.sclust => EntryIn(d, u).name = n
  <2>1. \A u \in Clusters : Claims(d, u, X) => EntryIn(d, u).clust # 0
    BY DEF Claims
  <2> QED
    BY <1>1, <1>7, <2>1, BaseParts DEF Sane, DirOK, OwnChain
<1>11. FileBase(d, n, f, X)
  BY <1>1, <1>2, <1>3, <1>9, <1>10 DEF FileBase, IsUsed
<1>12. FilePos(d, f)
  <2>1. f.ptr % Units = 0
    BY FatFsAssumption
  <2> QED
    BY <2>1 DEF FilePos
<1> QED
  BY <1>4, <1>6, <1>8, <1>11, <1>12 DEF FileOK, Made

LEMMA FOpenOpens ==
  ASSUME NEW v, NEW X, Base(v, X), Up(v), NotTorn(View(v)), NEW n \in Names, n \notin X,
         v.res = "nofile" => v.fs.mounted /\ NoName(View(v), n), NEW mode
  PROVE  LET w == FOpen(v, n, mode)
         IN  Opens(v, w, X, n, IF mode.how = "existing" THEN {} ELSE {n})
<1> DEFINE found == Lookup(v, n)
           e == EntryAt(found)
           old == OpenOld(found, mode)
           new == Create(found, n, mode.how)
           made == IF mode.how = "existing" THEN old
                   ELSE IF found.res \in {"ok", "nofile"} THEN new ELSE found
           f == [open |-> TRUE, rd |-> mode.rd, wr |-> mode.wr, slot |-> made.win.sect,
                 sclust |-> EntryAt(made).clust, clust |-> 0, size |-> EntryAt(made).size, ptr |-> 0,
                 dsect |-> 0, buf |-> [i \in 1..Units |-> 0], dirty |-> FALSE,
                 written |-> mode.how # "existing", err |-> "ok"]
           w == [made EXCEPT !.fp[n] = f]
           Y == IF mode.how = "existing" THEN {} ELSE {n}
           A == FOpen(v, n, mode)
<1>1. A = IF made.res = "ok" THEN w ELSE made
  BY DEF FOpen, Then
<1>2. /\ Base(found, X) /\ View(found) = View(v) /\ Same5(v, found) /\ Up(found)
      /\ found.res = "ok" => found.fs.mounted /\ At(found, found.val, n)
      /\ found.res = "nofile" => found.fs.mounted /\ NoName(View(v), n)
  BY LookupSeeks
<1> HIDE DEF found
<1>3. /\ Base(made, X) /\ Turned(View(v), View(made), X, Y) /\ made.fp = found.fp
      /\ made.find = found.find /\ made.fs.mounted = found.fs.mounted
      /\ made.res = "ok" => \E t : At(made, t, n)
  <2>1. \A x, y : Moves(found, x, X) => /\ Base(x, X) /\ Turned(View(v), View(x), X, y) /\ x.fp = found.fp
                                       /\ x.find = found.find /\ x.fs.mounted = found.fs.mounted
    <3> SUFFICES ASSUME NEW x, NEW y, Moves(found, x, X)
                 PROVE  Turned(View(v), View(x), X, y)
      BY DEF Moves, Elsewhere
    <3>1. Links(found, x, X, {}) /\ Tab(View(x)) = Tab(View(found))
      BY MovesLinks
    <3> QED
      BY <1>2, <3>1, GrowsStretched, SameTurned DEF Links
  <2>2. Moves(found, found, X)
    BY <1>2, MovesSelf
  <2>3. CASE mode.how = "existing"
    <3>1. old \in {found, Fail(found, "nofile"), Fail(found, "denied")}
      BY DEF OpenOld, Then
    <3>2. Moves(found, old, X) /\ (old.res = "ok" => old = found)
      <4>1. \A why \in {"nofile", "denied"} : Moves(found, Fail(found, why), X) /\ Fail(found, why).res = why
        BY <1>2, BaseFail
      <4> QED
        BY <2>2, <3>1, <4>1
    <3> HIDE DEF old
    <3> QED
      BY <1>2, <2>1, <2>3, <3>2
  <2>4. CASE mode.how # "existing" /\ found.res \in {"ok", "nofile"}
    <3>1. NotTorn(View(found)) /\ (found.res = "nofile" => NoName(View(found), n))
      BY <1>2
    <3>2. /\ Base(new, X) /\ Frame(found, new) /\ Turned(View(found), View(new), X, {n})
          /\ new.res = "ok" => \E t : At(new, t, n)
      BY <1>2, <2>4, <3>1, CreateCreates
    <3> HIDE DEF new
    <3> QED
      BY <1>2, <2>4, <3>2 DEF Frame
  <2>5. CASE mode.how # "existing" /\ found.res \notin {"ok", "nofile"}
    BY <2>1, <2>2, <2>5
  <2> QED
    BY <2>3, <2>4, <2>5
<1>4. made = found \/ found.fs.mounted
  BY <1>2 DEF OpenOld, Then
<1> HIDE DEF made
<1>5. Up(made) /\ (made.res = "ok" => made.fs.mounted)
  BY <1>2, <1>3, <1>4 DEF Up
<1>6. CASE made.res # "ok"
  BY <1>1, <1>2, <1>3, <1>5, <1>6 DEF Opens, Same5
<1>7. CASE made.res = "ok"
  <2>1. PICK t : At(made, t, n)
    BY <1>3, <1>7
  <2>2. /\ DOMAIN f = FileFields /\ f.open = TRUE /\ f.slot = made.win.sect /\ f.sclust = EntryAt(made).clust
        /\ f.size = EntryAt(made).size /\ f.ptr = 0 /\ f.dirty = FALSE /\ made.fs.mounted
    BY <1>5, <1>7 DEF FileFields
  <2> HIDE DEF f
  <2>3. w = [made EXCEPT !.fp[n] = f]
    OBVIOUS
  <2> HIDE DEF w
  <2>4. Made(made, w, X, n, f)
    BY <1>3, <2>1, <2>2, <2>3, ObjectMade
  <2> QED
    BY <1>1, <1>2, <1>3, <1>7, <2>2, <2>4 DEF Opens, Same5, Up, Made
<1> QED
  BY <1>6, <1>7

-----------------------------------------------------------------------------
(* The other calls on names.                                               *)

Ends(v, w, X, Y) ==
  /\ Base(w, X) /\ Up(w) /\ w.fp = v.fp /\ w.find = v.find
  /\ Turned(View(v), View(w), X, Y)

LEMMA LinksTurned ==
  ASSUME NEW v, NEW w, NEW X, NEW Y, Links(v, w, X, {}), Grows(View(v), View(w)) \/ Tab(View(w)) = Tab(View(v))
  PROVE  Turned(View(v), View(w), X, Y)
BY GrowsStretched, SameTurned DEF Links

\* A file is looked up, and nothing comes of it.
LEMMA LookedUp ==
  ASSUME NEW v, NEW X, NEW n, Base(v, X), Up(v), NotTorn(View(v)), v.res = "ok", NEW Y
  PROVE  LET u == Lookup(v, n)
         IN  /\ Base(u, X) /\ View(u) = View(v) /\ Same5(v, u) /\ Up(u) /\ Ends(v, u, X, Y)
             /\ u.res = "ok" => u.fs.mounted /\ At(u, u.val, n)
             /\ u.res = "nofile" => u.fs.mounted /\ NoName(View(v), n)
<1> DEFINE u == Lookup(v, n)
<1>1. /\ Base(u, X) /\ View(u) = View(v) /\ Same5(v, u) /\ Up(u)
      /\ u.res = "ok" => u.fs.mounted /\ At(u, u.val, n)
      /\ u.res = "nofile" => u.fs.mounted /\ NoName(View(v), n)
  BY LookupSeeks
<1> HIDE DEF u
<1>2. Turned(View(v), View(u), X, Y)
  BY <1>1, SameEntriesSame, KeepingSelf, GrowsStretched, SameTurned
<1> QED
  BY <1>1, <1>2 DEF Ends, Same5, u

\* What is done on a mounted volume after something that changed nothing.
LEMMA EndsAfter ==
  ASSUME NEW v, NEW u, NEW w, NEW X, NEW Y, View(u) = View(v), Same5(v, u), u.fs.mounted,
         Base(w, X), Frame(u, w), Turned(View(u), View(w), X, Y)
  PROVE  Ends(v, w, X, Y)
BY DEF Ends, Same5, Frame, Up

LEMMA EndsFail ==
  ASSUME NEW v, NEW u, NEW X, NEW Y, View(u) = View(v), Same5(v, u), u.fs.mounted, Base(u, X), NEW w,
         Moves(u, w, X)
  PROVE  Ends(v, w, X, Y)
<1>1. Links(u, w, X, {}) /\ Tab(View(w)) = Tab(View(u))
  BY MovesLinks
<1>2. Turned(View(u), View(w), X, Y)
  BY <1>1, LinksTurned
<1> QED
  BY <1>1, <1>2, EndsAfter DEF Links

LEMMA FUnlinkEnds ==
  ASSUME NEW v, NEW X, NEW n, n \notin X, Base(v, X), Up(v), NotTorn(View(v)), v.res = "ok"
  PROVE  Ends(v, FUnlink(v, n), X, {n})
<1> DEFINE u == Lookup(v, n)
           e == EntryAt(u)
           m == IF e.dir THEN MoveWindow(u, ClustSect(e.clust)) ELSE u
           a == RemoveEntry(m, u.val)
           b == IF e.clust = 0 THEN a ELSE RemoveChain(a, e.clust)
           s == SyncFs(b)
           d == View(v)
           t == u.val
           A == FUnlink(v, n)
<1>1. A = IF u.res # "ok" THEN u
          ELSE IF e.ro THEN Fail(u, "denied")
          ELSE IF e.dir /\ e.clust < 2 THEN Fail(u, "int")
          ELSE IF m.res # "ok" THEN m
          ELSE IF a.res # "ok" THEN a
          ELSE IF b.res # "ok" THEN b ELSE s
  BY DEF FUnlink, Then
<1>2. /\ Base(u, X) /\ View(u) = View(v) /\ Same5(v, u) /\ Up(u) /\ Ends(v, u, X, {n})
      /\ u.res = "ok" => u.fs.mounted /\ At(u, t, n)
  BY LookedUp
<1> HIDE DEF u
<1>3. CASE u.res # "ok"
  BY <1>1, <1>2, <1>3
<1>4. CASE u.res = "ok"
  <2>1. t \in Tab(d) /\ t \in Clusters /\ UsedIn(d, t) /\ EntryIn(d, t).name = n /\ e = EntryIn(d, t)
    BY <1>2, <1>4, EntryShown DEF At, UsedIn
  <2> HIDE DEF e
  <2>2. \A why \in {"denied", "int"} : Ends(v, Fail(u, why), X, {n})
    BY <1>2, <1>4, BaseFail, EndsFail
  <2>3. Moves(u, m, X)
    BY <1>2, <1>4, MoveWindowMoves, MovesSelf
  <2>4. Ends(v, m, X, {n}) /\ Base(m, X) /\ View(m) = d /\ Frame(u, m)
    BY <1>2, <1>4, <2>3, EndsFail, MovesLinks DEF Moves, Links
  <2> HIDE DEF m
  <2>5. CASE m.res # "ok"
    BY <1>1, <1>4, <2>2, <2>4, <2>5
  <2>6. CASE m.res = "ok"
    <3>1. /\ Edits(m, a, X, {n}, {}) /\ a.res \in {"ok", "disk"} /\ Tab(View(a)) = Tab(d) /\ SameFat(d, View(a))
          /\ a.res # "ok" => Moves(m, a, X)
          /\ a.res = "ok" => ~UsedIn(View(a), t)
      BY <2>1, <2>4, <2>6, RemoveEntryRemoves
    <3>2. a.res = "ok" => \A x \in Clusters : x # t => /\ UsedIn(View(a), x) <=> UsedIn(d, x)
                                                       /\ EntryIn(View(a), x) = EntryIn(d, x)
      <4>1. t \in Tab(View(m)) /\ EntryIn(View(m), t).name \in {n}
        BY <2>1, <2>4
      <4> QED
        BY <2>4, <2>6, <4>1, RemoveEntryRemoves
    <3> HIDE DEF a
    <3>3. CASE a.res # "ok"
      <4>1. Moves(u, a, X)
        BY <2>3, <3>1, <3>3, MovesOn DEF m
      <4>2. Ends(v, a, X, {n})
        BY <1>2, <1>4, <4>1, EndsFail
      <4> QED
        BY <1>1, <1>4, <2>2, <2>6, <3>3, <4>2
    <3>4. CASE a.res = "ok"
      <4>1. Base(a, X) /\ Frame(m, a) /\ AlikeBut(d, View(a), {n}) /\ Keeping(d, View(a), {})
        BY <2>4, <3>1 DEF Edits
      <4>2. \A x \in Clusters : UsedIn(d, x) /\ EntryIn(d, x).name = n => x = t
        BY <1>2, <2>1, BaseParts DEF Sane, DirOK, OneName
      <4>3. \A x \in Clusters : UsedIn(View(a), x) => EntryIn(View(a), x).name # n
        BY <3>1, <3>2, <3>4, <4>2
      <4>4. /\ Base(b, X) /\ Frame(a, b) /\ SameEntries(View(a), View(b))
            /\ Keeping(View(a), View(b), {e.clust}) /\ Tab(View(b)) = Tab(View(a)) /\ b.res \in Results
        <5>1. CASE e.clust = 0
          BY <3>4, <4>1, <5>1, SameEntriesSame, KeepingSelf DEF Results, Frame
        <5>2. CASE e.clust # 0
          <6>1. Claims(d, t, X)
            BY <2>1, <5>2 DEF Claims
          <6>2. /\ Leads(d, e.clust) /\ e.clust # Root
                /\ \A x \in Clusters : Claims(d, x, X) /\ EntryIn(d, x).clust = e.clust => x = t
            BY <1>2, <2>1, <6>1, BaseParts DEF Sane, DirOK, OwnChain
          <6>3. Leads(View(a), e.clust)
            BY <3>1, <6>2, ReachSame
          <6>4. Unclaimed(View(a), e.clust, X)
            BY <3>1, <3>2, <3>4, <6>2 DEF Unclaimed, Claims
          <6>5. LET r == RemoveChain(a, e.clust)
                IN  Links(a, r, X, {e.clust}) /\ Tab(View(r)) = Tab(View(a)) /\ r.res \in Results
            BY <3>4, <4>1, <6>2, <6>3, <6>4, RemoveChainFrees
          <6> QED
            BY <5>2, <6>5 DEF Links
        <5> QED
          BY <5>1, <5>2
      <4> HIDE DEF b
      <4>5. ASSUME NEW z, Base(z, X), Frame(b, z), SameEntries(View(b), View(z)),
                   Keeping(View(b), View(z), {}), Tab(View(z)) = Tab(View(b))
            PROVE  Ends(v, z, X, {n})
        <5>1. AlikeBut(d, View(z), {n})
          BY <4>1, <4>4, <4>5, SameAlike, AlikeOn
        <5>2. Keeping(d, View(b), {e.clust})
          BY <4>1, <4>4, KeepingOn
        <5>3. Keeping(d, View(z), {e.clust})
          BY <4>5, <5>2, KeepingOn
        <5>4. Stretched(d, View(z))
          BY <3>1, <4>4, <4>5, GrowsStretched
        <5>5. \A x \in Clusters : UsedIn(View(z), x) /\ EntryIn(View(z), x).name = n => EntryIn(View(z), x).clust = 0
          BY <4>3, <4>4, <4>5 DEF SameEntries
        <5>6. Turned(d, View(z), X, {n})
          BY <2>1, <5>1, <5>3, <5>4, <5>5, ClearTurns
        <5>7. Frame(u, z)
          BY <2>4, <4>1, <4>4, <4>5, FrameOn
        <5> QED
          BY <1>2, <1>4, <4>5, <5>6, <5>7, EndsAfter
      <4>6. Ends(v, b, X, {n})
        BY <4>4, <4>5, SameEntriesSame, KeepingSelf DEF Frame
      <4>7. b.res = "ok" => Ends(v, s, X, {n})
        <5> HAVE b.res = "ok"
        <5>1. Links(b, s, X, {}) /\ Tab(View(s)) = Tab(View(b))
          BY <4>4, SyncFsSyncs
        <5> HIDE DEF s
        <5> QED
          BY <4>5, <5>1 DEF Links
      <4> QED
        BY <1>1, <1>4, <2>2, <2>6, <3>4, <4>6, <4>7
    <3> QED
      BY <3>3, <3>4
  <2> QED
    BY <2>5, <2>6
<1> QED
  BY <1>3, <1>4

LEMMA FChmodEnds ==
  ASSUME NEW v, NEW X, NEW n, Base(v, X), Up(v), NotTorn(View(v)), v.res = "ok", NEW ro
  PROVE  Ends(v, FChmod(v, n, ro), X, {})
<1> DEFINE u == Lookup(v, n)
           x == [EntryAt(u) EXCEPT !.ro = ro]
           p == Put(u, DirOf(x))
           s == SyncFs(p)
           d == View(v)
           t == u.val
           A == FChmod(v, n, ro)
<1>1. A = IF u.res = "ok" THEN s ELSE u
  BY DEF FChmod, Then
<1>2. /\ Base(u, X) /\ View(u) = View(v) /\ Same5(v, u) /\ Up(u) /\ Ends(v, u, X, {})
      /\ u.res = "ok" => u.fs.mounted /\ At(u, t, n)
  BY LookedUp
<1> HIDE DEF u
<1>3. CASE u.res # "ok"
  BY <1>1, <1>2, <1>3
<1>4. CASE u.res = "ok"
  <2>1. t \in Tab(d) /\ t \in Clusters /\ UsedIn(d, t) /\ EntryIn(d, t).name = n /\ EntryAt(u) = EntryIn(d, t)
        /\ u.win.sect = ClustSect(t)
    BY <1>2, <1>4, EntryShown DEF At, UsedIn
  <2>2. IsUsed(EntryIn(d, t))
    BY <1>2, <2>1, BaseParts DEF Sane, DirOK, Entries, IsEntry, UsedIn, Unused, Deleted
  <2>3. IsUsed(x) /\ x.st = "used" /\ x.name = n /\ x.clust = EntryIn(d, t).clust
    BY <2>1, <2>2 DEF IsUsed
  <2> HIDE DEF x
  <2>4. Fits(d, t, x, X)
    <3>1. \A y \in Clusters : UsedIn(d, y) /\ y # t => EntryIn(d, y).name # x.name
      BY <1>2, <2>1, <2>3, BaseParts DEF Sane, DirOK, OneName
    <3>2. x.name \notin X /\ x.clust # 0 => Claims(d, t, X)
      BY <2>1, <2>3 DEF Claims
    <3> QED
      BY <1>2, <2>1, <2>3, <3>1, <3>2, BaseParts DEF Fits, Sane, DirOK, OwnChain
  <2>5. EntrySet(u, p, t, x, X)
    <3>1. IsEntry(x) /\ x.st # "unused" /\ X \subseteq X
      BY <2>3 DEF IsEntry
    <3> QED
      BY <1>2, <2>1, <2>4, <3>1, EntryPut
  <2>6. p.res = "ok"
    BY <1>4, <2>5 DEF EntrySet
  <2> HIDE DEF p
  <2>7. Base(p, X) /\ Frame(u, p) /\ Keeping(d, View(p), {}) /\ Tab(View(p)) = Tab(d)
    BY <1>2, <2>5 DEF EntrySet
  <2>8. AlikeBut(d, View(p), {})
    <3>1. UsedIn(View(p), t)
      BY <2>1, <2>3, <2>5, <2>7 DEF EntrySet, UsedIn
    <3> QED
      BY <1>2, <2>1, <2>3, <2>5, <3>1 DEF AlikeBut, EntrySet
  <2>9. Links(p, s, X, {}) /\ Tab(View(s)) = Tab(View(p))
    BY <2>6, <2>7, SyncFsSyncs
  <2> HIDE DEF s
  <2>10. Turned(d, View(s), X, {})
    <3>1. AlikeBut(d, View(s), {}) /\ Keeping(d, View(s), {})
      BY <2>7, <2>8, <2>9, SameAlike, AlikeOn, KeepingOn DEF Links
    <3> QED
      BY <2>7, <2>9, <3>1, KeepingLess, GrowsStretched DEF Turned, NewClaims
  <2>11. Frame(u, s)
    BY <2>7, <2>9, FrameOn DEF Links
  <2> QED
    BY <1>1, <1>2, <1>4, <2>9, <2>10, <2>11, EndsAfter DEF Links
<1> QED
  BY <1>3, <1>4

\* A chain that was begun is given back.
LEMMA GivenBack ==
  ASSUME NEW u, NEW X, Base(u, X), NEW y, Links(u, y, X, {}), Grows(View(u), View(y)), NEW c \in Clusters,
         FatOf(View(u), c) = 0, Leads(View(y), c), c # Root, Unclaimed(View(y), c, X), NEW Y
  PROVE  LET r == [RemoveChain([y EXCEPT !.res = "ok"], c) EXCEPT !.res = y.res]
         IN  Base(r, X) /\ Frame(u, r) /\ Turned(View(u), View(r), X, Y)
<1> DEFINE o == [y EXCEPT !.res = "ok"]
           q == RemoveChain(o, c)
           r == [q EXCEPT !.res = y.res]
<1>1. Shape(o) /\ o.win = y.win /\ o.disk = y.disk /\ o.io = y.io /\ Frame(y, o) /\ o.res = "ok"
  BY DEF Links, Base, Shape, Fields, Frame
<1> HIDE DEF o
<1>2. Base(o, X) /\ View(o) = View(y)
  BY <1>1, BesideBase DEF Links
<1>3. Links(o, q, X, {c}) /\ Tab(View(q)) = Tab(View(o))
  BY <1>1, <1>2, RemoveChainFrees
<1> HIDE DEF q
<1>4. Shape(r) /\ r.win = q.win /\ r.disk = q.disk /\ r.io = q.io /\ Frame(q, r)
  BY <1>3 DEF Links, Base, Shape, Fields, Frame
<1> HIDE DEF r
<1>5. Base(r, X) /\ View(r) = View(q)
  BY <1>3, <1>4, BesideBase DEF Links
<1>6. Frame(u, r)
  BY <1>1, <1>3, <1>4, FrameOn DEF Links
<1>7. SameEntries(View(u), View(r))
  BY <1>2, <1>3, <1>5, SameEntriesOn DEF Links
<1>8. Keeping(View(u), View(r), {})
  <2>1. Keeping(View(u), View(q), {c})
    BY <1>2, <1>3, KeepingOn DEF Links
  <2> QED
    BY <1>5, <2>1, KeepingLess DEF Leads
<1>9. Stretched(View(u), View(r))
  BY <1>2, <1>3, <1>5 DEF Grows, Stretched
<1> QED
  BY <1>5, <1>6, <1>7, <1>8, <1>9, SameTurned DEF r, q, o

LEMMA FMkdirEnds ==
  ASSUME NEW v, NEW X, NEW n, n \notin X, Base(v, X), Up(v), NotTorn(View(v)), v.res = "ok"
  PROVE  Ends(v, FMkdir(v, n), X, {n})
<1> DEFINE u == Lookup(v, n)
           o == [u EXCEPT !.res = "ok"]
           new == CreateChain(o, 0)
           c == new.val
           z == ClearCluster(new, c)
           y == Register(z, n)
           made == IF new.res # "ok" THEN new ELSE IF z.res # "ok" THEN z ELSE y
           back == [RemoveChain([made EXCEPT !.res = "ok"], c) EXCEPT !.res = made.res]
           x == Entry(n, TRUE, FALSE, c, 0)
           p == Put(made, DirOf(x))
           s == SyncFs(p)
           A == FMkdir(v, n)
<1>1. A = IF u.res = "ok" THEN Fail(u, "exist")
          ELSE IF u.res # "nofile" THEN u
          ELSE IF new.res = "ok" /\ c = 0 THEN Fail(new, "denied")
          ELSE IF new.res # "ok" THEN new
          ELSE IF made.res # "ok" THEN back ELSE s
  BY DEF FMkdir, Then
<1>2. /\ Base(u, X) /\ View(u) = View(v) /\ Same5(v, u) /\ Up(u) /\ Ends(v, u, X, {n})
      /\ u.res = "ok" => u.fs.mounted
      /\ u.res = "nofile" => u.fs.mounted /\ NoName(View(v), n)
  BY LookedUp
<1> HIDE DEF u
<1>3. CASE u.res # "nofile"
  <2>1. u.res = "ok" => Ends(v, Fail(u, "exist"), X, {n})
    BY <1>2, BaseFail, EndsFail
  <2> QED
    BY <1>1, <1>2, <1>3, <2>1
<1>4. CASE u.res = "nofile"
  <2>1. Shape(o) /\ o.win = u.win /\ o.disk = u.disk /\ o.io = u.io /\ Frame(u, o) /\ o.res = "ok"
    BY <1>2 DEF Base, Shape, Fields, Frame
  <2> HIDE DEF o
  <2>2. Base(o, X) /\ View(o) = View(v)
    BY <1>2, <2>1, BesideBase
  <2>3. Created(o, new, X, 0)
    BY <2>1, <2>2, CreateChainCreates, ReachIn, ClustersDiffer DEF Linkable, Tab
  <2> HIDE DEF new
  <2>4. /\ Base(new, X) /\ Links(o, new, X, {}) /\ Grows(View(o), View(new)) /\ SameData(View(o), View(new))
        /\ Tab(View(new)) = Tab(View(o))
    <3>1. 0 \notin Tab(View(o))
      BY ReachIn, ClustersDiffer DEF Tab
    <3> QED
      BY <2>3, <3>1 DEF Created, Links, Keeping
  <2>5. ASSUME NEW w, Base(w, X), Frame(o, w), Turned(View(o), View(w), X, {n}) PROVE Ends(v, w, X, {n})
    <3>1. Frame(u, w)
      BY <2>1, <2>5, FrameOn
    <3> QED
      BY <1>2, <1>4, <2>2, <2>5, <3>1, EndsAfter
  <2>6. CASE new.res # "ok" \/ c = 0
    <3>1. Turned(View(o), View(new), X, {n})
      BY <2>4, LinksTurned
    <3>2. Ends(v, new, X, {n})
      BY <2>4, <2>5, <3>1 DEF Links
    <3>3. Ends(v, Fail(new, "denied"), X, {n})
      <4> DEFINE f == Fail(new, "denied")
      <4>1. Moves(new, f, X)
        BY <2>4, BaseFail
      <4> HIDE DEF f
      <4>2. Links(o, f, X, {}) /\ View(f) = View(new)
        BY <2>4, <4>1, LinksMoves DEF Moves
      <4>3. Turned(View(o), View(f), X, {n})
        BY <3>1, <4>2
      <4> QED
        BY <2>5, <4>2, <4>3 DEF Links, f
    <3> QED
      BY <1>1, <1>4, <2>6, <3>2, <3>3
  <2>7. CASE new.res = "ok" /\ c # 0
    <3>1. /\ c \in Clusters /\ FatOf(View(o), c) = 0
          /\ Leads(View(new), c) /\ c # Root /\ Unclaimed(View(new), c, X)
      BY <2>3, <2>7 DEF Created
    <3>2. c \notin Tab(View(new))
      BY <2>4, <3>1, BaseParts, SaneParts
    <3>3. /\ Links(new, z, X, {}) /\ Tab(View(z)) = Tab(View(new)) /\ SameFat(View(new), View(z))
          /\ z.res = "ok" => \A b \in Clusters : IsDir(View(new), b) => IsDir(View(z), b)
      BY <2>4, <2>7, <3>1, <3>2, ClearClusterClears DEF UsedIn
    <3> HIDE DEF z
    <3>4. /\ Base(z, X) /\ Links(o, z, X, {}) /\ Grows(View(o), View(z))
          /\ Leads(View(z), c) /\ Unclaimed(View(z), c, X)
      <4>1. Grows(View(new), View(z))
        BY <3>3, ReachSame DEF Grows, SameFat
      <4>2. SameEntries(View(o), View(z)) /\ Keeping(View(o), View(z), {}) /\ Frame(o, z)
        BY <2>4, <3>3, SameEntriesOn, KeepingOn, FrameOn DEF Links
      <4>3. Grows(View(o), View(z))
        BY <2>4, <4>1, GrowsOn
      <4>4. Leads(View(z), c) /\ Unclaimed(View(z), c, X)
        BY <3>1, <3>3, SameUnclaimed, ReachSame DEF Links
      <4> QED
        BY <3>3, <4>2, <4>3, <4>4 DEF Links
    <3>5. CASE z.res # "ok"
      <4>1. made = z
        BY <2>7, <3>5
      <4> HIDE DEF made
      <4>2. Base(back, X) /\ Frame(o, back) /\ Turned(View(o), View(back), X, {n})
        BY <2>2, <3>1, <3>4, <4>1, GivenBack
      <4> HIDE DEF back
      <4> QED
        BY <1>1, <1>4, <2>5, <2>7, <3>5, <4>1, <4>2
    <3>6. CASE z.res = "ok"
      <4>1. NotTorn(View(z)) /\ NoName(View(z), n)
        <5>1. NotTorn(View(new))
          BY <2>2, <2>4, ReachIn DEF NotTorn, IsDir, SameData, Tab
        <5>2. NotTorn(View(z))
          BY <3>3, <3>6, <5>1, ReachIn DEF NotTorn, Tab
        <5>3. NoName(View(z), n)
          BY <1>2, <1>4, <2>2, <3>4 DEF NoName, Links, SameEntries
        <5> QED
          BY <5>2, <5>3
      <4>2. /\ Edits(z, y, X, {n}, {}) /\ Grows(View(z), View(y))
            /\ y.res # "ok" => Links(z, y, X, {})
            /\ y.res = "ok" => \E t : At(y, t, n) /\ EntryIn(View(y), t) = Entry(n, FALSE, FALSE, 0, 0)
        BY <3>4, <3>6, <4>1, RegisterRegisters
      <4> HIDE DEF y
      <4>3. made = y
        BY <2>7, <3>6
      <4> HIDE DEF made
      <4>4. Grows(View(o), View(y)) /\ Keeping(View(o), View(y), {}) /\ Frame(o, y) /\ Base(y, X)
            /\ Leads(View(y), c)
        BY <3>1, <3>4, <4>2, GrowsOn, KeepingOn, FrameOn DEF Links, Edits, Keeping
      <4>5. CASE y.res # "ok"
        <5>1. Links(o, y, X, {}) /\ Unclaimed(View(y), c, X)
          BY <3>4, <4>2, <4>4, <4>5, SameEntriesOn, SameUnclaimed DEF Links
        <5>2. Base(back, X) /\ Frame(o, back) /\ Turned(View(o), View(back), X, {n})
          BY <2>2, <3>1, <4>3, <4>4, <5>1, GivenBack
        <5> HIDE DEF back
        <5> QED
          BY <1>1, <1>4, <2>5, <2>7, <4>3, <4>5, <5>2
      <4>6. CASE y.res = "ok"
        <5>1. PICK t : At(y, t, n) /\ EntryIn(View(y), t) = Entry(n, FALSE, FALSE, 0, 0)
          BY <4>2, <4>6
        <5>2. t \in Tab(View(y)) /\ t \in Clusters /\ UsedIn(View(y), t) /\ EntryIn(View(y), t).name = n
              /\ y.win.sect = ClustSect(t)
          BY <5>1 DEF At, UsedIn
        <5>3. IsEntry(x) /\ x.st = "used" /\ x.st # "unused" /\ x.name = n /\ x.clust = c
          BY <3>1 DEF Entry, IsEntry, IsUsed
        <5> HIDE DEF x
        <5>4. \A b \in Clusters : UsedIn(View(y), b) /\ EntryIn(View(y), b).name = n => b = t
          BY <4>4, <5>2, BaseParts DEF Sane, DirOK, OneName
        <5>5. Fits(View(y), t, x, X)
          <6>1. \A b \in Clusters : Claims(View(y), b, X) /\ b # t => EntryIn(View(y), b).clust # c
            <7> SUFFICES ASSUME NEW b \in Clusters, Claims(View(y), b, X), b # t,
                                EntryIn(View(y), b).clust = c
                         PROVE  FALSE
              OBVIOUS
            <7>1. UsedIn(View(y), b) /\ EntryIn(View(y), b).name \notin {n}
              BY <5>4 DEF Claims
            <7>2. Claims(View(z), b, X) /\ EntryIn(View(z), b).clust = c
              BY <4>2, <7>1 DEF Edits, AlikeBut, Claims
            <7> QED
              BY <3>4, <7>2 DEF Unclaimed
          <6> QED
            BY <3>1, <4>4, <5>3, <5>4, <6>1 DEF Fits
        <5>6. EntrySet(y, p, t, x, X)
          <6>1. X \subseteq X
            OBVIOUS
          <6> QED
            BY <4>3, <4>4, <5>2, <5>3, <5>5, <6>1, EntryPut
        <5> HIDE DEF p
        <5>7. /\ Base(p, X) /\ Frame(y, p) /\ p.res = "ok" /\ Keeping(View(y), View(p), {})
              /\ Tab(View(p)) = Tab(View(y)) /\ EntryIn(View(p), t) = x
          BY <4>6, <5>6 DEF EntrySet
        <5>8. \A b \in Clusters : b # t => /\ UsedIn(View(p), b) <=> UsedIn(View(y), b)
                                           /\ EntryIn(View(p), b) = EntryIn(View(y), b)
          BY <5>6 DEF EntrySet
        <5>9. AlikeBut(View(o), View(p), {n})
          <6>1. AlikeBut(View(y), View(p), {n})
            BY <5>2, <5>3, <5>6 DEF EntrySet
          <6>2. AlikeBut(View(o), View(z), {n}) /\ AlikeBut(View(z), View(y), {n})
            BY <3>4, <4>2, SameAlike DEF Links, Edits
          <6> QED
            BY <6>1, <6>2, AlikeOn
        <5>10. Links(p, s, X, {}) /\ Tab(View(s)) = Tab(View(p))
          BY <5>7, SyncFsSyncs
        <5> HIDE DEF s
        <5>11. AlikeBut(View(o), View(s), {n}) /\ Keeping(View(o), View(s), {})
          BY <4>4, <5>7, <5>9, <5>10, SameAlike, AlikeOn, KeepingOn DEF Links
        <5>12. NewClaims(View(o), View(s), X, {n})
          <6> SUFFICES ASSUME NEW b \in Clusters, Claims(View(s), b, X), EntryIn(View(s), b).name = n
                       PROVE  EntryIn(View(s), b).clust = c
            BY <3>1 DEF NewClaims
          <6>1. UsedIn(View(p), b) /\ EntryIn(View(p), b) = EntryIn(View(s), b)
            BY <5>10 DEF Links, SameEntries, Claims
          <6>2. b = t
            BY <5>4, <5>8, <6>1
          <6> QED
            BY <5>3, <5>7, <6>1, <6>2
        <5>13. Stretched(View(o), View(s))
          BY <4>4, <5>7, <5>10 DEF Grows, Stretched
        <5>14. Turned(View(o), View(s), X, {n})
          BY <5>11, <5>12, <5>13, KeepingLess DEF Turned
        <5>15. Frame(o, s) /\ Base(s, X)
          BY <4>4, <5>7, <5>10, FrameOn DEF Links
        <5> QED
          BY <1>1, <1>4, <2>5, <2>7, <4>3, <4>6, <5>14, <5>15
      <4> QED
        BY <4>5, <4>6
    <3> QED
      BY <3>5, <3>6
  <2> QED
    BY <2>6, <2>7
<1> QED
  BY <1>3, <1>4

\* What a call leaves when the cards on its way do not matter.
Rests(w, X) ==
  /\ Shape(w) /\ Sane(w.disk, X) /\ Sane(View(w), X) /\ Tab(w.disk) \subseteq Tab(View(w)) /\ Clean(w)
Rested(v, w, X, Y) ==
  /\ Rests(w, X) /\ Up(w) /\ w.fp = v.fp /\ w.find = v.find
  /\ Turned(View(v), View(w), X, Y)

LEMMA EndsRested ==
  ASSUME NEW v, NEW w, NEW X, NEW Y, Ends(v, w, X, Y) PROVE Rested(v, w, X, Y)
  BY DEF Ends, Rested, Rests, Base, Cards

\* The entry of n has been written as one of to, at t1, and removed at t0: the card, which has
\* all of it, counts both names again.
LEMMA MovedKeeps ==
  ASSUME NEW d, NEW X, Sane(d, X), NEW n, NEW to, n # to, n \notin X, to \notin X,
         NEW t0 \in Clusters, UsedIn(d, t0), EntryIn(d, t0).name = n, NEW g, Sane(g, X \cup {n, to}),
         AlikeBut(d, g, {n, to}), Keeping(d, g, {}), Stretched(d, g), NEW t1 \in Clusters,
         \A t \in Clusters : UsedIn(g, t) => EntryIn(g, t).name # n,
         \A t \in Clusters : UsedIn(g, t) /\ EntryIn(g, t).name = to =>
                               t = t1 /\ EntryIn(g, t).clust = EntryIn(d, t0).clust
  PROVE  Sane(g, X) /\ Turned(d, g, X, {n, to})
<1> DEFINE c == EntryIn(d, t0).clust
<1>1. ASSUME NEW t \in Clusters, Claims(g, t, X), ~Claims(g, t, X \cup {n, to})
      PROVE  /\ Leads(g, EntryIn(g, t).clust) /\ EntryIn(g, t).clust # Root
             /\ \A u \in Clusters : Claims(g, u, X) /\ EntryIn(g, u).clust = EntryIn(g, t).clust => u = t
  <2>1. t = t1 /\ EntryIn(g, t).clust = c /\ c # 0
    BY <1>1 DEF Claims
  <2>2. Claims(d, t0, X)
    BY <2>1 DEF Claims
  <2>3. Leads(d, c) /\ c # Root /\ \A u \in Clusters : Claims(d, u, X) /\ EntryIn(d, u).clust = c => u = t0
    BY <2>2 DEF Sane, DirOK, OwnChain
  <2>4. Leads(g, c)
    BY <2>3 DEF Keeping
  <2>5. ASSUME NEW u \in Clusters, Claims(g, u, X), EntryIn(g, u).clust = c, u # t1 PROVE FALSE
    <3>1. UsedIn(g, u) /\ EntryIn(g, u).name \notin {n, to}
      BY <2>5 DEF Claims
    <3>2. UsedIn(d, u) /\ EntryIn(d, u).name = EntryIn(g, u).name /\ EntryIn(d, u).clust = c
      BY <2>5, <3>1 DEF AlikeBut
    <3>3. Claims(d, u, X)
      BY <2>1, <2>5, <3>2 DEF Claims
    <3> QED
      BY <2>3, <3>1, <3>2, <3>3
  <2> QED
    BY <2>1, <2>3, <2>4, <2>5
<1>2. Sane(g, X)
  BY <1>1, CountsAgain
<1>3. NewClaims(d, g, X, {n, to})
  <2> SUFFICES ASSUME NEW t \in Clusters, Claims(g, t, X), EntryIn(g, t).name \in {n, to}
               PROVE  EntryIn(g, t).clust \in Own(d, {n, to}, X)
    BY DEF NewClaims
  <2>1. EntryIn(g, t).clust = c /\ c # 0
    BY DEF Claims
  <2>2. Claims(d, t0, X)
    BY <2>1 DEF Claims
  <2> QED
    BY <2>1, <2>2 DEF Own
<1> QED
  BY <1>2, <1>3, KeepingLess DEF Turned

LEMMA FRenameRests ==
  ASSUME NEW v, NEW X, NEW n, NEW to, n # to, n \notin X, to \notin X, Base(v, X), Up(v),
         NotTorn(View(v)), v.res = "ok"
  PROVE  LET w == FRename(v, n, to)
         IN  w.fp = v.fp /\ (w.res \notin {"disk", "int"} => Rested(v, w, X, {n, to}))
<1> DEFINE u == Lookup(v, n)
           e == EntryAt(u)
           k == Find(u, to)
           o == [k EXCEPT !.res = "ok"]
           r == Register(o, to)
           x == [e EXCEPT !.name = to]
           p == Put(r, DirOf(x))
           a == RemoveEntry(p, u.val)
           s == SyncFs(a)
           d == View(v)
           t0 == u.val
           Y == {n, to}
           X2 == X \cup Y
           A == FRename(v, n, to)
<1>1. A = IF u.res # "ok" THEN u
          ELSE IF k.res = "ok" THEN Fail(k, "exist")
          ELSE IF k.res # "nofile" THEN k
          ELSE IF r.res # "ok" THEN r
          ELSE IF a.res # "ok" THEN a ELSE s
  BY DEF FRename, Then
<1>2. /\ Base(u, X) /\ View(u) = View(v) /\ Same5(v, u) /\ Up(u) /\ Ends(v, u, X, Y)
      /\ u.res = "ok" => u.fs.mounted /\ At(u, t0, n)
  BY LookedUp
<1> HIDE DEF u
<1>3. ASSUME NEW w, Ends(v, w, X, Y) PROVE w.fp = v.fp /\ Rested(v, w, X, Y)
  BY <1>3, EndsRested DEF Rested
<1>4. CASE u.res # "ok"
  BY <1>1, <1>2, <1>3, <1>4
<1>5. CASE u.res = "ok"
  <2>1. t0 \in Tab(d) /\ t0 \in Clusters /\ UsedIn(d, t0) /\ EntryIn(d, t0).name = n /\ e = EntryIn(d, t0)
    BY <1>2, <1>5, EntryShown DEF At, UsedIn
  <2> HIDE DEF e
  <2>2. /\ Base(k, X) /\ Frame(u, k) /\ View(k) = d
        /\ k.res = "nofile" => NoName(d, to)
    BY <1>2, <1>5, FindSeeks
  <2> HIDE DEF k
  <2>3. SameEntries(d, d) /\ Keeping(d, d, {}) /\ Turned(d, d, X, Y)
    BY SameEntriesSame, KeepingSelf, SameTurned, GrowsStretched
  <2>4. Ends(v, k, X, Y) /\ Ends(v, Fail(k, "exist"), X, Y)
    <3> DEFINE f == Fail(k, "exist")
    <3>1. Moves(k, f, X)
      BY <2>2, BaseFail
    <3>2. Base(f, X) /\ View(f) = d
      BY <2>2, <3>1 DEF Moves
    <3>3. Frame(k, f)
      BY <3>1, MovesLinks DEF Links
    <3> HIDE DEF f
    <3>4. Frame(u, f)
      BY <2>2, <3>3, FrameOn
    <3>5. Ends(v, f, X, Y)
      BY <1>2, <1>5, <2>3, <3>2, <3>4, EndsAfter
    <3> QED
      BY <1>2, <1>5, <2>2, <2>3, <3>5, EndsAfter DEF f
  <2>5. CASE k.res # "nofile"
    <3>1. A = k \/ A = Fail(k, "exist")
      BY <1>1, <1>5, <2>5
    <3> QED
      BY <1>3, <2>4, <3>1
  <2>6. CASE k.res = "nofile"
    <3>1. Shape(o) /\ o.win = k.win /\ o.disk = k.disk /\ o.io = k.io /\ Frame(k, o) /\ o.res = "ok"
      BY <2>2 DEF Base, Shape, Fields, Frame
    <3> HIDE DEF o
    <3>2. Base(o, X) /\ View(o) = d /\ Frame(u, o)
      BY <2>2, <3>1, BesideBase, FrameOn
    <3>3. /\ Edits(o, r, X, {to}, {}) /\ Grows(d, View(r))
          /\ r.res # "ok" => Links(o, r, X, {})
          /\ r.res = "ok" => \E t : At(r, t, to)
      BY <2>2, <2>6, <3>1, <3>2, RegisterRegisters
    <3> HIDE DEF r
    <3>4. Base(r, X) /\ Frame(u, r) /\ AlikeBut(d, View(r), {to}) /\ Keeping(d, View(r), {})
      BY <3>2, <3>3, FrameOn DEF Edits
    <3>5. CASE r.res # "ok"
      <4>1. Turned(d, View(r), X, Y)
        BY <3>2, <3>3, <3>5, LinksTurned
      <4>2. Ends(v, r, X, Y)
        BY <1>2, <1>5, <3>4, <4>1, EndsAfter
      <4> QED
        BY <1>1, <1>3, <1>5, <2>6, <3>5, <4>2
    <3>6. CASE r.res = "ok"
      <4>1. PICK t1 : At(r, t1, to)
        BY <3>3, <3>6
      <4>2. t1 \in Tab(View(r)) /\ t1 \in Clusters /\ UsedIn(View(r), t1) /\ EntryIn(View(r), t1).name = to
            /\ r.win.sect = ClustSect(t1)
        BY <4>1 DEF At, UsedIn
      <4>3. UsedIn(View(r), t0) /\ EntryIn(View(r), t0).name = n /\ t0 # t1
        BY <2>1, <3>4, <4>2 DEF AlikeBut
      <4>4. IsUsed(EntryIn(d, t0))
        BY <1>2, <2>1, BaseParts DEF Sane, DirOK, Entries, IsEntry, UsedIn, Unused, Deleted
      <4>5. IsUsed(x) /\ x.st = "used" /\ x.name = to /\ x.clust = EntryIn(d, t0).clust
        BY <2>1, <4>4 DEF IsUsed
      <4> HIDE DEF x
      <4>6. \A t \in Clusters : UsedIn(View(r), t) /\ t # t1 => EntryIn(View(r), t).name # to
        BY <3>4, <4>2, BaseParts DEF Sane, DirOK, OneName
      <4>7. EntrySet(r, p, t1, x, X2)
        <5>1. IsEntry(x) /\ x.st # "unused" /\ X \subseteq X2
          BY <4>5 DEF IsEntry
        <5>2. Fits(View(r), t1, x, X2)
          BY <4>5, <4>6 DEF Fits
        <5> QED
          BY <3>4, <4>2, <5>1, <5>2, EntryPut
      <4> HIDE DEF p
      <4>8. /\ Base(p, X2) /\ Frame(r, p) /\ p.res = "ok" /\ Tab(View(p)) = Tab(View(r))
            /\ EntryIn(View(p), t1) = x /\ Keeping(View(r), View(p), {}) /\ Grows(View(r), View(p))
        BY <3>6, <4>7 DEF EntrySet
      <4>9. \A t \in Clusters : t # t1 => /\ UsedIn(View(p), t) <=> UsedIn(View(r), t)
                                          /\ EntryIn(View(p), t) = EntryIn(View(r), t)
        BY <4>7 DEF EntrySet
      <4>10. AlikeBut(View(r), View(p), Y)
        <5>1. EntryIn(View(r), t1).name \in Y /\ x.name \in Y
          BY <4>2, <4>5
        <5> QED
          BY <4>7, <5>1 DEF EntrySet
      <4>11. t0 \in Tab(View(p)) /\ EntryIn(View(p), t0).name \in Y
        <5>1. UsedIn(View(p), t0) /\ EntryIn(View(p), t0) = EntryIn(View(r), t0)
          BY <2>1, <4>3, <4>9
        <5> QED
          BY <4>3, <5>1 DEF UsedIn
      <4>12. /\ Edits(p, a, X2, Y, {}) /\ a.res \in {"ok", "disk"} /\ Tab(View(a)) = Tab(View(p))
             /\ a.res = "ok" => ~UsedIn(View(a), t0)
        BY <4>8, <4>11, RemoveEntryRemoves
      <4>13. a.res = "ok" => \A t \in Clusters : t # t0 => /\ UsedIn(View(a), t) <=> UsedIn(View(p), t)
                                                           /\ EntryIn(View(a), t) = EntryIn(View(p), t)
        BY <4>8, <4>11, RemoveEntryRemoves
      <4> HIDE DEF a
      <4>14. Frame(u, a) /\ Base(a, X2)
        BY <3>4, <4>8, <4>12, FrameOn DEF Edits
      <4>15. CASE a.res # "ok"
        <5>1. a.fp = v.fp /\ a.res = "disk"
          BY <1>2, <4>12, <4>14, <4>15 DEF Frame, Same5
        <5> QED
          BY <1>1, <1>5, <2>6, <3>6, <4>15, <5>1
      <4>16. CASE a.res = "ok"
        <5>1. /\ Links(a, s, X2, {}) /\ s.res \in {"ok", "disk"} /\ Tab(View(s)) = Tab(View(a))
              /\ s.res = "ok" => ~s.win.dirty
          BY <4>14, <4>16, SyncFsSyncs
        <5> HIDE DEF s
        <5>2. A = s
          BY <1>1, <1>5, <2>6, <3>6, <4>16
        <5>3. Frame(u, s) /\ Base(s, X2)
          BY <4>14, <5>1, FrameOn DEF Links
        <5>4. s.fp = v.fp /\ s.find = v.find /\ s.fs.mounted
          BY <1>2, <1>5, <5>3 DEF Frame, Same5
        <5>5. CASE s.res # "ok"
          BY <5>1, <5>2, <5>4, <5>5
        <5>6. CASE s.res = "ok"
          <6> DEFINE g == View(s)
          <6>1. AlikeBut(d, g, Y)
            <7>1. AlikeBut(d, View(r), Y)
              BY <3>4 DEF AlikeBut
            <7>2. AlikeBut(View(p), View(a), Y) /\ AlikeBut(View(a), g, Y)
              BY <4>12, <5>1, SameAlike DEF Edits, Links
            <7> QED
              BY <4>10, <7>1, <7>2, AlikeOn
          <6>2. Keeping(d, g, {})
            <7>1. Keeping(d, View(p), {})
              BY <3>4, <4>8, KeepingOn
            <7>2. Keeping(d, View(a), {})
              BY <4>12, <7>1, KeepingOn DEF Edits
            <7> QED
              BY <5>1, <7>2, KeepingOn DEF Links
          <6>3. Stretched(d, g)
            BY <3>3, <4>8, <4>12, <5>1 DEF Grows, Stretched
          <6>4. ASSUME NEW t \in Clusters, UsedIn(g, t) PROVE EntryIn(g, t).name # n
            <7>1. UsedIn(View(a), t) /\ EntryIn(View(a), t) = EntryIn(g, t)
              BY <5>1, <6>4 DEF Links, SameEntries
            <7>2. t # t0 /\ UsedIn(View(p), t) /\ EntryIn(View(p), t) = EntryIn(g, t)
              BY <4>12, <4>13, <4>16, <7>1
            <7>3. t = t1 => EntryIn(g, t).name = to
              BY <4>5, <4>8, <7>2
            <7>4. t # t1 => EntryIn(g, t).name # n
              <8> SUFFICES ASSUME t # t1, EntryIn(g, t).name = n PROVE FALSE
                OBVIOUS
              <8>1. UsedIn(View(r), t) /\ EntryIn(View(r), t).name = n
                BY <4>9, <7>2
              <8>2. OneName(View(r))
                BY <3>4, BaseParts DEF Sane, DirOK
              <8>3. t = t0
                BY <2>1, <4>3, <8>1, <8>2 DEF OneName
              <8> QED
                BY <7>2, <8>3
            <7> QED
              BY <7>3, <7>4
          <6>5. ASSUME NEW t \in Clusters, UsedIn(g, t), EntryIn(g, t).name = to
                PROVE  t = t1 /\ EntryIn(g, t).clust = EntryIn(d, t0).clust
            <7>1. UsedIn(View(a), t) /\ EntryIn(View(a), t) = EntryIn(g, t)
              BY <5>1, <6>5 DEF Links, SameEntries
            <7>2. UsedIn(View(p), t) /\ EntryIn(View(p), t) = EntryIn(g, t)
              BY <4>12, <4>13, <4>16, <7>1
            <7>3. t = t1
              BY <4>6, <4>9, <6>5, <7>2
            <7> QED
              BY <4>5, <4>8, <7>2, <7>3
          <6>6. Sane(d, X) /\ Sane(g, X2)
            BY <1>2, <5>3, BaseParts
          <6> HIDE DEF g
          <6>7. Sane(g, X) /\ Turned(d, g, X, Y)
            BY <2>1, <4>2, <6>1, <6>2, <6>3, <6>4, <6>5, <6>6, MovedKeeps
          <6>8. s.disk = g
            BY <5>1, <5>6 DEF View, g
          <6>9. Rests(s, X)
            BY <5>3, <6>7, <6>8 DEF Rests, Base, g
          <6> QED
            BY <5>2, <5>4, <6>7, <6>9 DEF Rested, Up, g
        <5> QED
          BY <5>5, <5>6
      <4> QED
        BY <4>15, <4>16
    <3> QED
      BY <3>5, <3>6
  <2> QED
    BY <2>5, <2>6
<1> QED
  BY <1>4, <1>5

-----------------------------------------------------------------------------
(* The search, and the count of free clusters.                             *)

\* The names it has still to see are among those that it asks for.
Asks(v) == v.find.stay \subseteq v.find.pat
SameSearch(v, w) ==
  /\ w.find.open = v.find.open /\ w.find.pat = v.find.pat
  /\ w.find.seen = v.find.seen /\ w.find.stay = v.find.stay
\* The volume is as it was, but for how far the search has come.
Looks(v, w, X) ==
  /\ Base(w, X) /\ View(w) = View(v) /\ w.fp = v.fp /\ w.fs.mounted = v.fs.mounted
  /\ SameSearch(v, w)

LEMMA MovesLooks ==
  ASSUME NEW u, NEW v, NEW w, NEW X, Looks(u, v, X), Moves(v, w, X)
  PROVE  Looks(u, w, X) /\ w.find = v.find /\ w.out = v.out
  BY DEF Looks, Moves, Elsewhere, SameSearch

LEMMA LooksBeside ==
  ASSUME NEW u, NEW v, NEW X, Looks(u, v, X), NEW w, DOMAIN w = Fields, w.win = v.win, w.disk = v.disk,
         w.io = v.io, w.bad = v.bad, w.fs = v.fs, w.fp = v.fp, SameSearch(v, w),
         DOMAIN w.find = DOMAIN v.find
  PROVE  Looks(u, w, X)
<1>1. Shape(w)
  BY DEF Looks, Base, Shape
<1>2. Base(w, X) /\ View(w) = View(v)
  BY <1>1, BaseSame DEF Looks
<1> QED
  BY <1>2 DEF Looks, SameSearch

LEMMA DirNextGoes ==
  ASSUME NEW v, NEW X, NEW x, Looks(v, x, X), x.res = "ok", x.find.at \in Tab(View(v))
  PROVE  LET w == DirNext(x)
         IN  /\ Looks(v, w, X) /\ w.out = x.out /\ w.res \in Results
             /\ w.res = "ok" => LET c == FatOf(View(v), x.find.at)
                                IN  w.find.at = IF c \in Clusters THEN c ELSE 0
<1> DEFINE t == x.find.at
           g == GetFat(x, t)
           next == [g EXCEPT !.find.at = IF g.val \in Clusters THEN g.val ELSE 0]
           A == DirNext(x)
<1>1. A = IF g.res # "ok" THEN g ELSE IF g.val < 2 THEN Fail(g, "int") ELSE next
  BY DEF DirNext, Then
<1>2. t \in Clusters /\ Base(x, X) /\ View(x) = View(v)
  BY ReachIn DEF Tab, Looks
<1>3. /\ Moves(x, g, X) /\ g.res \in {"ok", "disk"}
      /\ g.res = "ok" => g.val = FatOf(View(v), t)
  BY <1>2, GetFatMoves
<1> HIDE DEF g
<1>4. Looks(v, g, X) /\ g.find = x.find /\ g.out = x.out
  BY <1>3, MovesLooks
<1>5. CASE g.res # "ok"
  BY <1>1, <1>3, <1>4, <1>5 DEF Results
<1>6. CASE g.res = "ok" /\ g.val < 2
  <2>1. A = Fail(g, "int")
    BY <1>1, <1>6
  <2>2. Moves(g, A, X) /\ A.res = "int"
    BY <1>4, <2>1, BaseFail DEF Looks
  <2>3. Looks(v, A, X) /\ A.out = x.out
    BY <1>4, <2>2, MovesLooks
  <2> QED
    BY <2>2, <2>3 DEF Results
<1>7. CASE g.res = "ok" /\ ~(g.val < 2)
  <2>1. A = next
    BY <1>1, <1>7
  <2>2. /\ DOMAIN next = Fields /\ next.win = g.win /\ next.disk = g.disk /\ next.io = g.io
        /\ next.bad = g.bad /\ next.fs = g.fs /\ next.fp = g.fp /\ SameSearch(g, next)
        /\ DOMAIN next.find = DOMAIN g.find /\ next.out = g.out /\ next.res = "ok"
        /\ next.find.at = IF g.val \in Clusters THEN g.val ELSE 0
    BY <1>4, <1>7 DEF Looks, Base, Shape, Fields, SameSearch
  <2> HIDE DEF next
  <2>3. Looks(v, next, X)
    BY <1>4, <2>2, LooksBeside
  <2> QED
    BY <1>3, <1>4, <1>7, <2>1, <2>2, <2>3 DEF Results
<1> QED
  BY <1>5, <1>6, <1>7

\* A search on the volume v for the names in S has come to x.
Listing(v, X, S, x) ==
  /\ Looks(v, x, X) /\ x.res \in Results
  /\ x.res = "ok" =>
       \/ x.out = <<>> /\ Ahead(View(v), x.find.at, S)
       \/ \E m : x.out = <<m>> /\ Ahead(View(v), x.find.at, S \ {m})

\* The search passes an entry at t that is none of S.
LEMMA AheadNext ==
  ASSUME NEW d, NEW t \in Tab(d), NEW S, Ahead(d, t, S),
         UsedIn(d, t) => EntryIn(d, t).name \notin S
  PROVE  LET c == FatOf(d, t) IN Ahead(d, IF c \in Clusters THEN c ELSE 0, S)
<1>1. t \in Clusters /\ Reach(d, t) \subseteq {t} \cup Reach(d, FatOf(d, t))
  BY ReachIn, ReachNext DEF Tab
<1>2. \A u \in Clusters : UsedIn(d, u) /\ EntryIn(d, u).name \in S => u \in Reach(d, FatOf(d, t))
  BY <1>1 DEF Ahead
<1>3. CASE FatOf(d, t) \in Clusters
  <2>1. FatOf(d, t) \in Tab(d)
    BY <1>3, ReachFollows DEF Tab, Follows
  <2> QED
    BY <1>2, <1>3, <2>1 DEF Ahead
<1>4. CASE FatOf(d, t) \notin Clusters
  BY <1>2, <1>4, ReachNone DEF Ahead
<1> QED
  BY <1>3, <1>4

LEMMA ListStepLists ==
  ASSUME NEW v, NEW X, NEW S, NotTorn(View(v)), S \subseteq v.find.pat, NEW x, Listing(v, X, S, x)
  PROVE  Listing(v, X, S, ListStep(x))
<1> DEFINE A == ListStep(x)
<1>1. CASE x.res # "ok" \/ x.find.at = 0 \/ x.out # <<>>
  BY <1>1 DEF ListStep
<1>2. CASE x.res = "ok" /\ x.find.at # 0 /\ x.out = <<>>
  <2> DEFINE d == View(v)
             t == x.find.at
             w == MoveWindow(x, ClustSect(t))
             e == EntryAt(w)
             end == [w EXCEPT !.find.at = 0]
             mine == e.st = "used" /\ e.name \in w.find.pat
             g == DirNext(w)
             told == [g EXCEPT !.out = <<e.name>>]
  <2>1. Looks(v, x, X) /\ Base(x, X) /\ View(x) = d /\ Sane(d, X) /\ Ahead(d, t, S) /\ t \in Tab(d)
    BY <1>2, BaseParts DEF Listing, Looks, Ahead
  <2>2. /\ Moves(x, w, X) /\ w.res \in {"ok", "disk"} /\ (w.res = "ok" => w.win.sect = ClustSect(t))
    BY <1>2, <2>1, MoveWindowMoves
  <2>3. A = IF w.res # "ok" THEN w
            ELSE IF e.st = "unused" THEN end
            ELSE IF g.res # "ok" THEN g
            ELSE IF mine THEN told ELSE g
    <3>1. A = IF w.res = "ok" THEN IF e.st = "unused" THEN end
                                   ELSE Then(g, LAMBDA y : IF e.st = "used" /\ e.name \in x.find.pat
                                                           THEN [y EXCEPT !.out = <<e.name>>] ELSE y)
              ELSE w
      BY <1>2, <2>1, <2>2, MovesLooks DEF ListStep, Then
    <3>2. x.find.pat = w.find.pat
      BY <2>1, <2>2, MovesLooks
    <3> QED
      BY <3>1, <3>2 DEF Then
  <2>4. Looks(v, w, X) /\ w.find = x.find /\ w.out = <<>>
    BY <1>2, <2>1, <2>2, MovesLooks
  <2> HIDE DEF w
  <2>5. CASE w.res # "ok"
    BY <2>2, <2>3, <2>4, <2>5 DEF Listing, Results
  <2>6. CASE w.res = "ok"
    <3>1. e = EntryIn(d, t) /\ IsDir(d, t) /\ t \in Clusters
      BY <2>1, <2>2, <2>4, <2>6, EntryShown, ReachIn DEF Looks, NotTorn, Tab
    <3> HIDE DEF e
    <3>2. CASE e.st = "unused"
      <4>1. A = end
        BY <2>3, <2>6, <3>2
      <4>2. /\ DOMAIN end = Fields /\ end.win = w.win /\ end.disk = w.disk /\ end.io = w.io
            /\ end.bad = w.bad /\ end.fs = w.fs /\ end.fp = w.fp /\ SameSearch(w, end)
            /\ DOMAIN end.find = DOMAIN w.find /\ end.out = <<>> /\ end.res = "ok" /\ end.find.at = 0
        BY <2>4, <2>6 DEF Looks, Base, Shape, Fields, SameSearch
      <4> HIDE DEF end
      <4>3. Looks(v, end, X)
        BY <2>4, <4>2, LooksBeside
      <4>4. FatOf(d, t) \notin Clusters /\ ~UsedIn(d, t)
        BY <2>1, <3>1, <3>2 DEF Sane, DirOK, UnusedLast, UsedIn
      <4>5. Ahead(d, 0, S)
        BY <2>1, <4>4, AheadNext
      <4> QED
        BY <4>1, <4>2, <4>3, <4>5 DEF Listing, Results
    <3>3. CASE e.st # "unused"
      <4>1. /\ Looks(v, g, X) /\ g.out = <<>> /\ g.res \in Results
            /\ g.res = "ok" => g.find.at = IF FatOf(d, t) \in Clusters THEN FatOf(d, t) ELSE 0
        BY <2>1, <2>4, <2>6, DirNextGoes
      <4> HIDE DEF g
      <4>2. CASE g.res # "ok"
        BY <2>3, <2>6, <3>3, <4>1, <4>2 DEF Listing
      <4>3. CASE g.res = "ok" /\ mine
        <5>1. A = told
          BY <2>3, <2>6, <3>3, <4>3
        <5>2. /\ DOMAIN told = Fields /\ told.win = g.win /\ told.disk = g.disk /\ told.io = g.io
              /\ told.bad = g.bad /\ told.fs = g.fs /\ told.fp = g.fp /\ told.find = g.find
              /\ told.out = <<e.name>> /\ told.res = "ok"
          BY <4>1, <4>3 DEF Looks, Base, Shape, Fields
        <5> HIDE DEF told
        <5>3. Looks(v, told, X)
          BY <4>1, <5>2, LooksBeside DEF SameSearch
        <5>4. Ahead(d, t, S \ {e.name})
          BY <2>1 DEF Ahead
        <5>5. Ahead(d, g.find.at, S \ {e.name})
          BY <2>1, <3>1, <4>1, <4>3, <5>4, AheadNext
        <5> QED
          BY <5>1, <5>2, <5>3, <5>5 DEF Listing, Results
      <4>4. CASE g.res = "ok" /\ ~mine
        <5>1. A = g
          BY <2>3, <2>6, <3>3, <4>4
        <5>2. w.find.pat = v.find.pat
          BY <2>4 DEF Looks, SameSearch
        <5>3. UsedIn(d, t) => EntryIn(d, t).name \notin S
          BY <3>1, <4>4, <5>2 DEF UsedIn
        <5>4. Ahead(d, g.find.at, S)
          BY <2>1, <4>1, <4>4, <5>3, AheadNext
        <5> QED
          BY <4>1, <5>1, <5>4 DEF Listing
      <4> QED
        BY <4>2, <4>3, <4>4
    <3> QED
      BY <3>2, <3>3
  <2> QED
    BY <2>5, <2>6
<1> QED
  BY <1>1, <1>2

LEMMA FReaddirLists ==
  ASSUME NEW v, NEW X, Base(v, X), v.res = "ok", v.out = <<>>, NotTorn(View(v)),
         NEW S, S \subseteq v.find.pat, Ahead(View(v), v.find.at, S)
  PROVE  LET w == FReaddir(v)
         IN  /\ Looks(v, w, X)
             /\ w.res = "ok" => Ahead(View(v), w.find.at, S \ Range(w.out))
<1> DEFINE P(h) == h = [i \in 0..LastCluster |-> IF i = 0 THEN v ELSE ListStep(h[i - 1])]
           h == CHOOSE x : P(x)
           w == h[LastCluster]
           l == IF w.res = "ok" /\ w.find.at # 0 /\ w.out = <<>> THEN Fail(w, "endless") ELSE w
           A == FReaddir(v)
<1>1. A = l
  BY DEF FReaddir, Turns
<1>2. Listing(v, X, S, v)
  BY DEF Listing, Looks, SameSearch, Results
<1>L1. PICK g : Runs("list", 0, v, LastCluster, g)
  BY RunExists, FatNumbers
<1>L2. P(g)
  BY <1>L1 DEF Runs, Turn
<1> HIDE DEF P
<1>L3. P(h)
  BY <1>L2, Zenon
<1> HIDE DEF h
<1>L4. \A i \in 0..LastCluster : h[i] = IF i = 0 THEN v ELSE ListStep(h[i - 1])
  BY <1>L3 DEF P
<1> DEFINE T == {i \in 0..LastCluster : Listing(v, X, S, h[i])}
<1>L5. 0 \in T
  <2>1. h[0] = v /\ 0 \in 0..LastCluster
    BY <1>L4, FatNumbers
  <2>2. Listing(v, X, S, h[0])
    BY <1>2, <2>1
  <2> QED
    BY <2>1, <2>2
<1>L6. ASSUME NEW i \in 0..LastCluster - 1, i \in T PROVE i + 1 \in T
  <2>1. i + 1 \in 0..LastCluster /\ h[i + 1] = ListStep(h[i])
    <3>1. i + 1 \in 0..LastCluster /\ i + 1 # 0 /\ (i + 1) - 1 = i
      BY FatNumbers
    <3> QED
      BY <1>L4, <3>1
  <2>2. Listing(v, X, S, h[i])
    BY <1>L6
  <2>3. Listing(v, X, S, ListStep(h[i]))
    BY <2>2, ListStepLists
  <2> QED
    BY <2>1, <2>3
<1> HIDE DEF T
<1>L7. Listing(v, X, S, h[LastCluster])
  <2>1. LastCluster \in T
    <3>1. \A i \in 0..LastCluster - 1 : i \in T => i + 1 \in T
      BY <1>L6
    <3>2. \A i \in 0..LastCluster : i \in T
      BY <1>L5, <3>1, FatNumbers, Upwards
    <3>3. LastCluster \in 0..LastCluster
      BY FatNumbers
    <3> QED
      BY <3>2, <3>3
  <2> QED
    BY <2>1 DEF T
<1>3. Listing(v, X, S, w)
  BY <1>L7
<1> HIDE DEF w
<1>4. /\ Looks(v, l, X)
      /\ l.res = "ok" => l = w
  <2>1. Moves(w, Fail(w, "endless"), X) /\ Fail(w, "endless").res = "endless"
    BY <1>3, BaseFail DEF Listing, Looks
  <2>2. Looks(v, Fail(w, "endless"), X)
    BY <1>3, <2>1, MovesLooks DEF Listing
  <2> QED
    BY <1>3, <2>1, <2>2 DEF Listing
<1> HIDE DEF l
<1>5. CASE l.res = "ok"
  <2>1. Range(<<>>) = {} /\ \A m : Range(<<m>>) = {m}
    BY DEF Range
  <2>2. Ahead(View(v), w.find.at, S \ Range(w.out))
    <3>1. CASE w.out = <<>> /\ Ahead(View(v), w.find.at, S)
      <4>1. S \ Range(w.out) = S
        BY <2>1, <3>1
      <4> QED
        BY <3>1, <4>1
    <3>2. ASSUME NEW m, w.out = <<m>>, Ahead(View(v), w.find.at, S \ {m})
          PROVE  Ahead(View(v), w.find.at, S \ Range(w.out))
      BY <2>1, <3>2
    <3> QED
      BY <1>3, <1>4, <1>5, <3>1, <3>2 DEF Listing
  <2> QED
    BY <1>1, <1>4, <1>5, <2>2
<1> QED
  BY <1>1, <1>4, <1>5

LEMMA EntriesNat == FatEntries \in Nat
  BY FatNumbers DEF FatEntries

LEMMA ScanStepLooks ==
  ASSUME NEW w, NEW X, NEW x, Looks(w, x, X) /\ x.find = w.find
  PROVE  Looks(w, ScanStep(x), X) /\ ScanStep(x).find = w.find
<1> DEFINE c == x.at + 1
           m == MoveWindow(x, FatSect(c))
           y == [m EXCEPT !.at = c, !.left = @ + IF m.win.buf[c] = 0 THEN 1 ELSE 0]
           A == ScanStep(x)
<1>1. CASE x.res # "ok"
  BY <1>1 DEF ScanStep
<1>2. CASE x.res = "ok"
  <2>1. A = IF m.res = "ok" THEN y ELSE m
    BY <1>2 DEF ScanStep, Then
  <2>2. Moves(x, m, X)
    BY <1>2, MoveWindowMoves DEF Looks
  <2> HIDE DEF m
  <2>3. Looks(w, m, X) /\ m.find = w.find
    BY <2>2, MovesLooks
  <2>4. /\ DOMAIN y = Fields /\ y.win = m.win /\ y.disk = m.disk /\ y.io = m.io /\ y.bad = m.bad
        /\ y.fs = m.fs /\ y.fp = m.fp /\ y.find = m.find
    BY <2>3 DEF Looks, Base, Shape, Fields
  <2> HIDE DEF y
  <2>5. Looks(w, y, X)
    BY <2>3, <2>4, LooksBeside DEF SameSearch
  <2> QED
    BY <2>1, <2>3, <2>4, <2>5
<1> QED
  BY <1>1, <1>2

LEMMA FGetfreeEnds ==
  ASSUME NEW v, NEW X, Base(v, X), Up(v)
  PROVE  Ends(v, FGetfree(v), X, {})
<1> DEFINE w == FindVolume(v)
           a == [w EXCEPT !.left = 0, !.at = 1]
           P(h) == h = [i \in 0..FatEntries |-> IF i = 0 THEN a ELSE ScanStep(h[i - 1])]
           h == CHOOSE x : P(x)
           y == h[FatEntries]
           z == [y EXCEPT !.val = y.left, !.fs.free = y.left,
                          !.fs.fsi = IF @ = "off" THEN "off" ELSE "due"]
           A == FGetfree(v)
<1>1. A = IF w.res # "ok" THEN w ELSE IF w.fs.free # Unknown THEN Answer(w, w.fs.free) ELSE z
  BY DEF FGetfree, Then, Turns
<1>2. /\ Base(w, X) /\ View(w) = View(v) /\ Same5(v, w) /\ Up(w)
      /\ w.res = "ok" => w.fs.mounted
  BY FindVolumeMounts
<1> HIDE DEF w
<1>3. ASSUME NEW x, Looks(w, x, X), x.find = w.find, w.fs.mounted PROVE Ends(v, x, X, {})
  <2>1. Turned(View(v), View(v), X, {})
    BY SameEntriesSame, KeepingSelf, SameTurned, GrowsStretched
  <2> QED
    BY <1>2, <1>3, <2>1 DEF Looks, Ends, Up, Same5
<1>4. CASE w.res # "ok"
  <2>1. Turned(View(v), View(v), X, {})
    BY SameEntriesSame, KeepingSelf, SameTurned, GrowsStretched
  <2> QED
    BY <1>1, <1>2, <1>4, <2>1 DEF Ends, Same5
<1>5. CASE w.res = "ok" /\ w.fs.free # Unknown
  <2> DEFINE x == Answer(w, w.fs.free)
  <2>1. Moves(w, x, X)
    BY <1>2, BaseAnswer
  <2> HIDE DEF x
  <2>2. Looks(w, x, X) /\ x.find = w.find
    BY <1>2, <2>1, MovesLooks DEF Looks, SameSearch
  <2>3. A = x
    BY <1>1, <1>5 DEF x
  <2> QED
    BY <1>2, <1>3, <1>5, <2>2, <2>3
<1>6. CASE w.res = "ok" /\ w.fs.free = Unknown
  <2>1. A = z
    BY <1>1, <1>6
  <2>2. /\ DOMAIN a = Fields /\ a.win = w.win /\ a.disk = w.disk /\ a.io = w.io /\ a.bad = w.bad
        /\ a.fs = w.fs /\ a.fp = w.fp /\ a.find = w.find
    BY <1>2 DEF Base, Shape, Fields
  <2> HIDE DEF a
  <2>3. Looks(w, a, X) /\ a.find = w.find
    <3>1. Looks(w, w, X)
      BY <1>2 DEF Looks, SameSearch
    <3> QED
      BY <2>2, <3>1, LooksBeside DEF SameSearch
  <2>L1. PICK g : Runs("scan", 0, a, FatEntries, g)
    BY RunExists, EntriesNat
  <2>L2. P(g)
    BY <2>L1 DEF Runs, Turn
  <2> HIDE DEF P
  <2>L3. P(h)
    BY <2>L2, Zenon
  <2> HIDE DEF h
  <2>L4. \A i \in 0..FatEntries : h[i] = IF i = 0 THEN a ELSE ScanStep(h[i - 1])
    BY <2>L3 DEF P
  <2> DEFINE T == {i \in 0..FatEntries : Looks(w, h[i], X) /\ h[i].find = w.find}
  <2>L5. 0 \in T
    <3>1. h[0] = a /\ 0 \in 0..FatEntries
      BY <2>L4, EntriesNat
    <3>2. Looks(w, h[0], X) /\ h[0].find = w.find
      BY <2>3, <3>1
    <3> QED
      BY <3>1, <3>2
  <2>L6. ASSUME NEW i \in 0..FatEntries - 1, i \in T PROVE i + 1 \in T
    <3>1. i + 1 \in 0..FatEntries /\ h[i + 1] = ScanStep(h[i])
      <4>1. i + 1 \in 0..FatEntries /\ i + 1 # 0 /\ (i + 1) - 1 = i
        BY EntriesNat
      <4> QED
        BY <2>L4, <4>1
    <3>2. Looks(w, h[i], X) /\ h[i].find = w.find
      BY <2>L6
    <3>3. Looks(w, ScanStep(h[i]), X) /\ ScanStep(h[i]).find = w.find
      BY <3>2, ScanStepLooks
    <3> QED
      BY <3>1, <3>3
  <2> HIDE DEF T
  <2>L7. Looks(w, h[FatEntries], X) /\ h[FatEntries].find = w.find
    <3>1. FatEntries \in T
      BY <2>L5, <2>L6, Upwards, EntriesNat
    <3> QED
      BY <3>1 DEF T
  <2>4. Looks(w, y, X) /\ y.find = w.find
    BY <2>L7
  <2> HIDE DEF y
  <2>5. /\ DOMAIN z = Fields /\ z.win = y.win /\ z.disk = y.disk /\ z.io = y.io /\ z.bad = y.bad
        /\ DOMAIN z.fs = DOMAIN y.fs /\ z.fs.mounted = y.fs.mounted /\ z.fp = y.fp /\ z.find = y.find
    BY <2>4 DEF Looks, Base, Shape, Fields
  <2> HIDE DEF z
  <2>6. Shape(z)
    BY <2>4, <2>5 DEF Looks, Base, Shape
  <2>7. Base(z, X) /\ View(z) = View(y)
    BY <2>4, <2>5, <2>6, BaseSame DEF Looks
  <2>8. Looks(w, z, X)
    BY <2>4, <2>5, <2>7 DEF Looks, SameSearch
  <2> QED
    BY <1>2, <1>3, <1>6, <2>1, <2>4, <2>5, <2>8
<1> QED
  BY <1>4, <1>5, <1>6

\* What a call of a search leaves.
Searched(v, w, X) ==
  /\ Base(w, X) /\ View(w) = View(v) /\ w.fp = v.fp /\ Up(w) /\ Finding(w) /\ Asks(w)

LEMMA NoSearch ==
  ASSUME NEW v, NEW w, NEW X, Base(w, X), View(w) = View(v), w.fp = v.fp,
         w.fs.mounted \/ (~w.win.dirty /\ \A n \in Names : ~w.fp[n].open)
  PROVE  Searched(v, [w EXCEPT !.find = NoFind], X)
<1> DEFINE z == [w EXCEPT !.find = NoFind]
<1>1. /\ Shape(z) /\ z.win = w.win /\ z.disk = w.disk /\ z.io = w.io /\ z.fs = w.fs /\ z.fp = w.fp
      /\ z.find = NoFind
  BY DEF Base, Shape, Fields, NoFind
<1> HIDE DEF z
<1>2. Base(z, X) /\ View(z) = View(w)
  BY <1>1, BaseSame
<1>3. ~z.find.open /\ z.find.stay = {} /\ z.find.pat = {}
  BY <1>1 DEF NoFind
<1>4. Searched(v, z, X)
  BY <1>1, <1>2, <1>3 DEF Searched, Up, Finding, Asks
<1> QED
  BY <1>4 DEF z

LEMMA ListedFinds ==
  ASSUME NEW v, NEW X, Base(v, X), v.res = "ok", v.out = <<>>, NotTorn(View(v)), v.find.open,
         v.fs.mounted, Finding(v), Asks(v)
  PROVE  LET w == Listed(FReaddir(v))
         IN  Searched(v, w, X) /\ w.fs.mounted
<1> DEFINE S == v.find.stay \ v.find.seen
           r == FReaddir(v)
           w == Listed(r)
<1>1. S \subseteq v.find.pat /\ Ahead(View(v), v.find.at, S)
  BY DEF Asks, Finding
<1>2. /\ Looks(v, r, X)
      /\ r.res = "ok" => Ahead(View(v), r.find.at, S \ Range(r.out))
  BY <1>1, FReaddirLists
<1> HIDE DEF r
<1>3. CASE r.res = "ok"
  <2>1. /\ DOMAIN w = Fields /\ w.win = r.win /\ w.disk = r.disk /\ w.io = r.io /\ w.bad = r.bad
        /\ w.fs = r.fs /\ w.fp = r.fp /\ DOMAIN w.find = DOMAIN r.find
        /\ w.find.open = r.find.open /\ w.find.at = r.find.at /\ w.find.pat = r.find.pat
        /\ w.find.seen = r.find.seen \cup Range(r.out) /\ w.find.stay = r.find.stay
    BY <1>2, <1>3 DEF Listed, Looks, Base, Shape, Fields
  <2> HIDE DEF w
  <2>2. Shape(w)
    BY <1>2, <2>1 DEF Looks, Base, Shape
  <2>3. Base(w, X) /\ View(w) = View(v)
    BY <1>2, <2>1, <2>2, BaseSame DEF Looks
  <2>4. w.find.stay \ w.find.seen = S \ Range(r.out)
    BY <1>2, <2>1 DEF Looks, SameSearch
  <2>5. Ahead(View(v), w.find.at, w.find.stay \ w.find.seen)
    BY <1>2, <1>3, <2>1, <2>4
  <2>6. Asks(w)
    BY <1>2, <2>1 DEF Asks, Looks, SameSearch
  <2> QED
    BY <1>2, <2>1, <2>3, <2>5, <2>6 DEF Searched, Finding, Up, Looks, w, r
<1>4. CASE r.res # "ok"
  <2>1. w = [r EXCEPT !.find = NoFind]
    BY <1>4 DEF Listed
  <2>2. Base(r, X) /\ View(r) = View(v) /\ r.fp = v.fp /\ r.fs.mounted
    BY <1>2 DEF Looks
  <2>3. Searched(v, [r EXCEPT !.find = NoFind], X)
    BY <2>2, NoSearch
  <2>4. [r EXCEPT !.find = NoFind].fs = r.fs
    BY <2>2 DEF Base, Shape, Fields
  <2> QED
    BY <2>1, <2>2, <2>3, <2>4 DEF r
<1> QED
  BY <1>3, <1>4

LEMMA FirstOfFinds ==
  ASSUME NEW v, NEW X, Base(v, X), Up(v), v.res = "ok", v.out = <<>>, NotTorn(View(v)), NEW pat
  PROVE  Searched(v, FirstOf(v, pat), X)
<1> DEFINE o == [v EXCEPT !.find = Asked(pat)]
           u == FindVolume(o)
           w == [u EXCEPT !.find.at = Root]
           y == IF u.res = "ok" THEN IF w.res = "ok" THEN FReaddir(w) ELSE w ELSE u
           l == Listed(y)
           A == FirstOf(v, pat)
<1>1. A = IF l.out = <<>> THEN [l EXCEPT !.find = NoFind] ELSE l
  BY DEF FirstOf, FOpendir, Then
<1>2. /\ Shape(o) /\ o.win = v.win /\ o.disk = v.disk /\ o.io = v.io /\ o.fs = v.fs /\ o.fp = v.fp
      /\ o.find = Asked(pat) /\ o.res = "ok" /\ o.out = <<>>
  BY DEF Base, Shape, Fields, Asked
<1> HIDE DEF o
<1>3. Base(o, X) /\ View(o) = View(v)
  BY <1>2, BaseSame
<1>4. Asked(pat).open = TRUE /\ Asked(pat).pat = pat /\ Asked(pat).stay \subseteq pat
  BY DEF Asked
<1>5. Calm(o)
  BY <1>2 DEF Calm, Up
<1>6. /\ Base(u, X) /\ View(u) = View(o) /\ Same5(o, u) /\ Calm(u)
      /\ u.res = "ok" => u.fs.mounted
      /\ o.fs.mounted => u = o
  BY <1>3, <1>5, FindVolumeBrings
<1> HIDE DEF u
<1>7. u.fs.mounted \/ (~u.win.dirty /\ \A n \in Names : ~u.fp[n].open)
  BY <1>2, <1>6 DEF Calm, Up, Same5
<1>8. CASE u.res # "ok"
  <2>1. y = u
    BY <1>8
  <2> HIDE DEF y
  <2>2. /\ DOMAIN l = Fields /\ l.win = u.win /\ l.disk = u.disk /\ l.io = u.io /\ l.bad = u.bad
        /\ l.fs = u.fs /\ l.fp = u.fp /\ l.out = u.out /\ DOMAIN l.find = DOMAIN u.find
    BY <1>6, <1>8, <2>1 DEF Listed, NoFind, Base, Shape, Fields
  <2> HIDE DEF l
  <2>3. Shape(l)
    BY <1>6, <2>2 DEF Base, Shape
  <2>4. Base(l, X) /\ View(l) = View(u)
    BY <1>6, <2>2, <2>3, BaseSame
  <2>5. l.out = <<>>
    BY <1>2, <1>6, <2>2 DEF Same5
  <2>6. l.fp = v.fp /\ View(l) = View(v)
    BY <1>2, <1>3, <1>6, <2>2, <2>4 DEF Same5
  <2>7. Searched(v, [l EXCEPT !.find = NoFind], X)
    BY <1>7, <2>2, <2>4, <2>6, NoSearch
  <2> QED
    BY <1>1, <2>5, <2>7
<1>9. CASE u.res = "ok"
  <2>1. /\ DOMAIN w = Fields /\ w.win = u.win /\ w.disk = u.disk /\ w.io = u.io /\ w.bad = u.bad
        /\ w.fs = u.fs /\ w.fp = u.fp /\ w.out = u.out /\ DOMAIN w.find = DOMAIN u.find /\ w.res = "ok"
        /\ w.find.open = u.find.open /\ w.find.pat = u.find.pat /\ w.find.stay = u.find.stay
        /\ w.find.at = Root /\ w.find.seen = u.find.seen
    BY <1>6, <1>9 DEF Base, Shape, Fields
  <2> HIDE DEF w
  <2>2. Shape(w)
    BY <1>6, <2>1 DEF Base, Shape
  <2>3. Base(w, X) /\ View(w) = View(v)
    BY <1>3, <1>6, <2>1, <2>2, BaseSame
  <2>4. w.out = <<>> /\ w.find.open /\ w.fs.mounted /\ w.find.stay \subseteq w.find.pat /\ w.fp = v.fp
    BY <1>2, <1>4, <1>6, <1>9, <2>1 DEF Same5
  <2>5. Finding(w)
    <3>1. Root \in Tab(View(w))
      BY <2>3, BaseParts, SaneParts
    <3> QED
      BY <2>1, <3>1 DEF Finding, Ahead, UsedIn, Tab
  <2>6. y = FReaddir(w)
    BY <1>9, <2>1
  <2> HIDE DEF y
  <2>7. Searched(w, l, X) /\ l.fs.mounted
    BY <2>1, <2>3, <2>4, <2>5, <2>6, ListedFinds DEF Asks
  <2> HIDE DEF l
  <2>8. Searched(v, l, X)
    BY <2>3, <2>4, <2>7 DEF Searched
  <2>9. Searched(v, [l EXCEPT !.find = NoFind], X)
    BY <2>7, <2>8, NoSearch DEF Searched
  <2> QED
    BY <1>1, <2>8, <2>9
<1> QED
  BY <1>8, <1>9

-----------------------------------------------------------------------------
(* The calls on an open file.                                              *)

LEMMA PartIs ==
  ASSUME NEW x \in Int, NEW k \in Nat \ {0}, NEW q \in Int, NEW r \in 0..k - 1, x = (k * q) + r
  PROVE  x % k = r
OBVIOUS

LEMMA PartOf == ASSUME NEW p \in Int PROVE p % Units \in 0..Units - 1 /\ (p + Units) % Units = p % Units
<1> DEFINE q == p \div Units
           r == p % Units
<1>1. Units \in Nat \ {0}
  BY FatFsAssumption
<1>2. q \in Int /\ r \in 0..Units - 1
  BY <1>1
<1>3. p = (Units * q) + r
  BY <1>1
<1> HIDE DEF q, r
<1>4. p + Units = (Units * (q + 1)) + r
  BY <1>1, <1>2, <1>3
<1>5. (p + Units) % Units = r
  <2>1. p + Units \in Int /\ q + 1 \in Int
    BY <1>1, <1>2
  <2> QED
    BY <1>1, <1>2, <1>4, <2>1, PartIs
<1> QED
  BY <1>2, <1>5 DEF r

LEMMA WholeParts == ASSUME NEW q \in Int PROVE (q * Units) % Units = 0
  BY FatFsAssumption

\* Data is written to a cluster outside the table.
LEMMA DataWritten ==
  ASSUME NEW v, NEW X, Base(v, X), v.res = "ok", NEW c \in Clusters, c \notin Tab(View(v)), NEW u
  PROVE  LET w == DiskWrite(v, ClustSect(c), DataOf(u))
         IN  /\ Base(w, X) /\ Elsewhere(v, w) /\ w.win = v.win /\ w.val = v.val /\ w.res \in {"ok", "disk"}
             /\ SameFat(View(v), View(w)) /\ Tab(View(w)) = Tab(View(v)) /\ SameEntries(View(v), View(w))
             /\ \A gone : Keeping(View(v), View(w), gone)
<1> DEFINE s == ClustSect(c)
           x == DataOf(u)
           w == DiskWrite(v, s, x)
           d == v.disk
           e == View(v)
<1>1. /\ Shape(w) /\ Elsewhere(v, w) /\ w.win = v.win /\ w.val = v.val /\ w.res \in {"ok", "disk"}
      /\ \/ w.disk = Over(d, s, x) /\ w.io = Append(v.io, w.disk)
         \/ w.disk = d /\ w.io = v.io
  BY DiskWriteIs DEF Base
<1>2. /\ Sane(d, X) /\ Sane(e, X) /\ Tab(d) \subseteq Tab(e) /\ c \notin Tab(d) /\ DOMAIN d = Sectors /\ DOMAIN e = Sectors
      /\ Clean(v)
  BY BaseParts DEF Base, Cards, Sane
<1>3. x.is # "dir"
  BY DEF DataOf
<1> HIDE DEF x, w
<1>4. CASE w.disk = d /\ w.io = v.io
  <2>1. Base(w, X) /\ View(w) = e
    BY <1>1, <1>4, BaseSame
  <2> QED
    BY <1>1, <2>1, SameKeeps, SameEntriesSame DEF SameFat, w, x
<1>5. CASE w.disk = Over(d, s, x) /\ w.io = Append(v.io, w.disk)
  <2>1. Redata(d, w.disk, c) /\ w.disk[ClustSect(c)] = x
    BY <1>2, <1>5, OverData
  <2>2. Sane(w.disk, X) /\ Tab(w.disk) = Tab(d)
    BY <1>2, <1>3, <2>1, DataKeeps
  <2>3. View(w) = e \/ (Redata(e, View(w), c) /\ View(w)[ClustSect(c)] = x)
    <3>1. CASE ~v.win.dirty
      BY <1>1, <2>1, <3>1 DEF View
    <3>2. CASE v.win.dirty
      <4>1. View(w) = Over(w.disk, v.win.sect, v.win.buf) /\ e = Over(d, v.win.sect, v.win.buf)
        BY <1>1, <3>2 DEF View
      <4>2. CASE v.win.sect = s
        BY <1>5, <4>1, <4>2, OverIs
      <4>3. CASE v.win.sect # s
        <5>1. /\ DOMAIN View(w) = DOMAIN w.disk
              /\ \A r \in Sectors : View(w)[r] = IF r = v.win.sect THEN v.win.buf ELSE w.disk[r]
          BY <1>2, <2>1, <4>1, OverIs DEF Redata
        <5>2. \A r \in Sectors : e[r] = IF r = v.win.sect THEN v.win.buf ELSE d[r]
          BY <1>2, <4>1, OverIs
        <5>3. \A b \in Clusters : FatSect(b) \in Sectors /\ ClustSect(b) \in Sectors
          BY DEF Sectors
        <5> QED
          BY <2>1, <4>3, <5>1, <5>2, <5>3 DEF Redata
      <4> QED
        BY <4>2, <4>3
    <3> QED
      BY <3>1, <3>2
  <2>4. /\ Sane(View(w), X) /\ SameFat(e, View(w)) /\ Tab(View(w)) = Tab(e) /\ SameEntries(e, View(w))
        /\ \A gone : Keeping(e, View(w), gone)
        /\ \A r : r \in Shown(e) => View(w)[r] = e[r]
    <3>1. CASE View(w) = e
      BY <1>2, <3>1, SameKeeps, SameEntriesSame DEF SameFat
    <3>2. CASE Redata(e, View(w), c) /\ View(w)[ClustSect(c)] = x
      <4>1. \A r : r \in Shown(e) => View(w)[r] = e[r]
        BY <3>2, ReachIn DEF Shown, Redata, Tab
      <4> QED
        BY <1>2, <1>3, <3>2, <4>1, DataKeeps
    <3> QED
      BY <2>3, <3>1, <3>2
  <2>5. \A i \in 1..Len(w.io) : Sane(w.io[i], X)
    <3>1. /\ Len(v.io) \in Nat /\ Len(w.io) = Len(v.io) + 1
          /\ \A i \in 1..Len(v.io) + 1 : w.io[i] = IF i <= Len(v.io) THEN v.io[i] ELSE w.disk
      BY <1>5, IoMore DEF Base, Shape, AreCards
    <3>2. ASSUME NEW i \in 1..Len(w.io) PROVE Sane(w.io[i], X)
      <4>1. CASE i <= Len(v.io)
        <5>1. i \in 1..Len(v.io) /\ w.io[i] = v.io[i]
          BY <3>1, <4>1
        <5> QED
          BY <5>1 DEF Base, Cards
      <4>2. CASE ~(i <= Len(v.io))
        BY <2>2, <3>1, <4>2
      <4> QED
        BY <4>1, <4>2
    <3> QED
      BY <3>2
  <2>6. Clean(w)
    BY <1>1, <1>2, <2>4 DEF Clean, Shown
  <2>7. Base(w, X)
    BY <1>1, <1>2, <2>2, <2>4, <2>5, <2>6 DEF Base, Cards
  <2> QED
    BY <1>1, <2>4, <2>7 DEF w, x
<1> QED
  BY <1>1, <1>4, <1>5

\* No other file has the chain s.
Alone(v, n, s) == \A m \in Names : m # n /\ v.fp[m].open /\ v.fp[m].sclust # 0 => s # v.fp[m].sclust

\* A call on the file of n, from the volume v on, has come to x.
Works(v, x, X, n) ==
  /\ Base(x, X) /\ x.find = v.find /\ x.fs.mounted = v.fs.mounted
  /\ \A m \in Names : m # n => x.fp[m] = v.fp[m]
  /\ x.fp[n].open /\ (v.fp[n].written => x.fp[n].written)
  /\ Tab(View(x)) = Tab(View(v)) /\ SameEntries(View(v), View(x)) /\ Keeping(View(v), View(x), {})
  /\ FileBase(View(x), n, x.fp[n], X) /\ Alone(v, n, x.fp[n].sclust)
\* The file object of n is set, and perhaps what passes between the calls.
FileSet(x, y, n) ==
  /\ DOMAIN y = Fields /\ y.win = x.win /\ y.disk = x.disk /\ y.io = x.io /\ y.bad = x.bad
  /\ y.fs = x.fs /\ y.find = x.find /\ DOMAIN y.fp = Names
  /\ \A m \in Names : m # n => y.fp[m] = x.fp[m]
  /\ DOMAIN y.fp[n] = FileFields /\ y.fp[n].open

LEMMA FileSetWorks ==
  ASSUME NEW v, NEW x, NEW X, NEW n \in Names, Works(v, x, X, n), NEW y, FileSet(x, y, n),
         FileBase(View(x), n, y.fp[n], X), Alone(v, n, y.fp[n].sclust),
         x.fp[n].written => y.fp[n].written
  PROVE  Works(v, y, X, n) /\ View(y) = View(x)
<1>1. Shape(y)
  <2>1. IsObject(y.fp[n])
    BY DEF FileSet, IsObject, FileFields
  <2>2. \A m \in Names : IsObject(y.fp[m])
    BY <2>1 DEF FileSet, Works, Base, Shape
  <2> QED
    BY <2>2 DEF FileSet, Works, Base, Shape
<1>2. Base(y, X) /\ View(y) = View(x)
  BY <1>1, BaseSame DEF FileSet, Works
<1> QED
  BY <1>2 DEF FileSet, Works

\* What a call on another file is to this one, or what moves sectors about.
LEMMA WorksOn ==
  ASSUME NEW v, NEW x, NEW X, NEW n \in Names, Works(v, x, X, n), NEW y, Base(y, X), Frame(x, y),
         SameEntries(View(x), View(y)), Keeping(View(x), View(y), {}), Tab(View(y)) = Tab(View(x))
  PROVE  Works(v, y, X, n)
<1>1. y.fp = x.fp /\ y.find = x.find /\ y.fs.mounted = x.fs.mounted
  BY DEF Frame
<1>2. SameEntries(View(v), View(y)) /\ Keeping(View(v), View(y), {})
  BY SameEntriesOn, KeepingOn DEF Works
<1>3. FileBase(View(y), n, y.fp[n], X)
  <2> DEFINE f == x.fp[n]
             d == View(x)
             e == View(y)
  <2>1. FileBase(d, n, f, X)
    BY DEF Works
  <2> HIDE DEF f, d, e
  <2>2. /\ \A t \in Clusters : UsedIn(d, t) => UsedIn(e, t) /\ EntryIn(e, t) = EntryIn(d, t)
        /\ \A t \in Clusters : Claims(e, t, X) => Claims(d, t, X) /\ EntryIn(e, t) = EntryIn(d, t)
    BY DEF SameEntries, Claims, d, e
  <2>3. f.sclust # 0 => Leads(e, f.sclust)
    BY <2>1 DEF FileBase, Keeping, d, e
  <2>4. Tab(e) = Tab(d)
    BY DEF d, e
  <2>5. FileBase(e, n, f, X)
    BY <2>1, <2>2, <2>3, <2>4 DEF FileBase
  <2> QED
    BY <1>1, <2>5 DEF e, f
<1> QED
  BY <1>1, <1>2, <1>3 DEF Works

LEMMA MovesWorks ==
  ASSUME NEW v, NEW x, NEW X, NEW n \in Names, Works(v, x, X, n), NEW y, Moves(x, y, X)
  PROVE  Works(v, y, X, n) /\ y.fp = x.fp /\ y.left = x.left /\ y.in = x.in /\ View(y) = View(x)
<1>1. Base(y, X) /\ Frame(x, y) /\ View(y) = View(x)
  BY MovesLinks DEF Moves, Links
<1>2. Works(v, y, X, n)
  BY <1>1, WorksOn, SameEntriesSame, KeepingSelf
<1> QED
  BY <1>1, <1>2 DEF Frame

\* Where the file is has not changed.
Tended(x, y, n) ==
  /\ y.fp[n].ptr = x.fp[n].ptr /\ y.fp[n].clust = x.fp[n].clust /\ y.fp[n].sclust = x.fp[n].sclust
  /\ y.fp[n].dsect = x.fp[n].dsect /\ y.fp[n].size = x.fp[n].size /\ y.fp[n].written = x.fp[n].written
  /\ y.fp[n].err = x.fp[n].err /\ y.fp[n].slot = x.fp[n].slot /\ y.fp[n].wr = x.fp[n].wr
  /\ (y.fp[n].dirty => x.fp[n].dirty)
  /\ SameFat(View(x), View(y)) /\ Tab(View(y)) = Tab(View(x))
  /\ y.val = x.val /\ y.left = x.left /\ y.in = x.in

LEMMA SamePos ==
  ASSUME NEW d, NEW e, NEW f, NEW g, FilePos(d, f), SameFat(d, e), g.ptr = f.ptr, g.clust = f.clust,
         g.sclust = f.sclust, g.dsect = f.dsect
  PROVE  FilePos(e, g)
  BY ReachSame DEF FilePos

LEMMA TendedPos ==
  ASSUME NEW x, NEW y, NEW n, Tended(x, y, n), FilePos(View(x), x.fp[n])
  PROVE  FilePos(View(y), y.fp[n])
  BY SamePos DEF Tended

LEMMA ObjectHas ==
  ASSUME NEW v, NEW x, NEW X, NEW n \in Names, Works(v, x, X, n)
  PROVE  /\ DOMAIN x.fp[n] = FileFields /\ DOMAIN x = Fields /\ DOMAIN x.fp = Names
         /\ x.fp[n].ptr \in Int /\ x.fp[n].size \in Int /\ FileBase(View(x), n, x.fp[n], X)
         /\ Sane(View(x), X) /\ Base(x, X)
  BY BaseParts DEF Works, Base, Shape, IsObject, FileBase

LEMMA FileSetTends ==
  ASSUME NEW v, NEW x, NEW X, NEW n \in Names, Works(v, x, X, n), NEW y, FileSet(x, y, n),
         FileBase(View(x), n, y.fp[n], X), y.fp[n].sclust = x.fp[n].sclust,
         y.fp[n].written = x.fp[n].written
  PROVE  Works(v, y, X, n) /\ View(y) = View(x)
<1>1. Alone(v, n, y.fp[n].sclust)
  BY DEF Works
<1> QED
  BY <1>1, FileSetWorks

LEMMA FlushBufTends ==
  ASSUME NEW v, NEW x, NEW X, NEW n \in Names, Works(v, x, X, n), x.res = "ok"
  PROVE  LET w == FlushBuf(x, n)
         IN  Works(v, w, X, n) /\ Tended(x, w, n) /\ (w.res = "ok" => ~w.fp[n].dirty)
<1> DEFINE c == x.fp[n].dsect
           u == DiskWrite(x, ClustSect(c), DataOf(x.fp[n].buf))
           z == [u EXCEPT !.fp[n].dirty = FALSE]
           w == FlushBuf(x, n)
<1>1. w = IF ~x.fp[n].dirty THEN x ELSE IF u.res = "ok" THEN z ELSE u
  BY DEF FlushBuf, Then
<1>2. CASE ~x.fp[n].dirty
  BY <1>1, <1>2 DEF Tended, SameFat
<1>3. CASE x.fp[n].dirty
  <2>1. c \in Clusters /\ c \notin Tab(View(x)) /\ Base(x, X)
    BY <1>3, ObjectHas DEF FileBase
  <2>2. /\ Base(u, X) /\ Elsewhere(x, u) /\ u.val = x.val
        /\ SameFat(View(x), View(u)) /\ Tab(View(u)) = Tab(View(x)) /\ SameEntries(View(x), View(u))
        /\ Keeping(View(x), View(u), {})
    BY <2>1, DataWritten
  <2> HIDE DEF u
  <2>3. Frame(x, u)
    BY <2>2 DEF Elsewhere, Frame
  <2>4. Works(v, u, X, n)
    BY <2>2, <2>3, WorksOn
  <2>5. Tended(x, u, n)
    BY <2>2, <2>3 DEF Tended, Frame
  <2>6. CASE u.res # "ok"
    BY <1>1, <1>3, <2>4, <2>5, <2>6
  <2>7. CASE u.res = "ok"
    <3>1. /\ FileSet(u, z, n) /\ z.fp[n].dirty = FALSE /\ z.res = "ok"
          /\ z.fp[n].ptr = u.fp[n].ptr /\ z.fp[n].clust = u.fp[n].clust /\ z.fp[n].sclust = u.fp[n].sclust
          /\ z.fp[n].dsect = u.fp[n].dsect /\ z.fp[n].size = u.fp[n].size
          /\ z.fp[n].written = u.fp[n].written
          /\ z.fp[n].err = u.fp[n].err /\ z.fp[n].slot = u.fp[n].slot /\ z.fp[n].wr = u.fp[n].wr
          /\ z.val = u.val /\ z.left = u.left /\ z.in = u.in
      BY <2>4, <2>7, ObjectHas DEF FileSet, Works, Base, Shape, Fields, FileFields
    <3> HIDE DEF z
    <3>2. FileBase(View(u), n, z.fp[n], X)
      BY <2>4, <3>1 DEF Works, FileBase
    <3>3. Works(v, z, X, n) /\ View(z) = View(u)
      BY <2>4, <3>1, <3>2, FileSetTends
    <3>4. Tended(x, z, n)
      BY <2>2, <2>3, <3>1, <3>3 DEF Tended, Frame
    <3> QED
      BY <1>1, <1>3, <2>7, <3>1, <3>3, <3>4
  <2> QED
    BY <2>6, <2>7
<1> QED
  BY <1>2, <1>3

LEMMA DiskReadWorks ==
  ASSUME NEW v, NEW x, NEW X, NEW n \in Names, Works(v, x, X, n), x.res = "ok", NEW s
  PROVE  LET w == DiskRead(x, s)
         IN  Works(v, w, X, n) /\ Tended(x, w, n) /\ w.fp = x.fp /\ View(w) = View(x)
<1> DEFINE w == DiskRead(x, s)
<1>1. /\ Shape(w) /\ Elsewhere(x, w) /\ w.win = x.win /\ w.val = x.val
      /\ w.disk = x.disk /\ w.io = x.io
  BY DiskReadIs DEF Works, Base
<1> HIDE DEF w
<1>2. Base(w, X) /\ View(w) = View(x)
  BY <1>1, BaseSame DEF Works
<1>3. Moves(x, w, X)
  BY <1>1, <1>2 DEF Moves
<1>4. Works(v, w, X, n) /\ w.fp = x.fp /\ w.left = x.left /\ w.in = x.in
  BY <1>3, MovesWorks
<1> QED
  BY <1>1, <1>2, <1>4 DEF Tended, SameFat, w

LEMMA FillBufTends ==
  ASSUME NEW v, NEW x, NEW X, NEW n \in Names, Works(v, x, X, n), x.res = "ok", NEW c
  PROVE  LET w == FillBuf(x, n, c)
         IN  Works(v, w, X, n) /\ Tended(x, w, n)
<1> DEFINE u == DiskRead(x, ClustSect(c))
           z == [u EXCEPT !.fp[n].buf = UnitsOf(u.data)]
<1>1. FillBuf(x, n, c) = IF u.res = "ok" THEN z ELSE u
  BY DEF FillBuf, Then
<1>2. Works(v, u, X, n) /\ Tended(x, u, n) /\ View(u) = View(x)
  BY DiskReadWorks
<1> HIDE DEF u
<1>3. /\ FileSet(u, z, n) /\ z.fp[n].dirty = u.fp[n].dirty
      /\ z.fp[n].ptr = u.fp[n].ptr /\ z.fp[n].clust = u.fp[n].clust /\ z.fp[n].sclust = u.fp[n].sclust
      /\ z.fp[n].dsect = u.fp[n].dsect /\ z.fp[n].size = u.fp[n].size
      /\ z.fp[n].written = u.fp[n].written
      /\ z.fp[n].err = u.fp[n].err /\ z.fp[n].slot = u.fp[n].slot /\ z.fp[n].wr = u.fp[n].wr
      /\ z.val = u.val /\ z.left = u.left /\ z.in = u.in
  BY <1>2, ObjectHas DEF FileSet, Works, Base, Shape, Fields, FileFields
<1> HIDE DEF z
<1>4. FileBase(View(u), n, z.fp[n], X)
  BY <1>2, <1>3 DEF Works, FileBase
<1>5. Works(v, z, X, n) /\ View(z) = View(u)
  BY <1>2, <1>3, <1>4, FileSetTends
<1>6. Tended(x, z, n)
  BY <1>2, <1>3, <1>5 DEF Tended
<1> QED
  BY <1>1, <1>2, <1>5, <1>6

\* A loop of such a call has come to x, and one of the calls has ended at x.
Going(v, x, X, n) ==
  /\ Works(v, x, X, n) /\ x.left \in Int /\ IsIo(x.in)
  /\ x.res = "ok" => FilePos(View(x), x.fp[n])
Tends(v, x, X, n) ==
  Works(v, x, X, n) /\ (x.fp[n].err = "ok" => FilePos(View(x), x.fp[n]))

LEMMA AbortTends ==
  ASSUME NEW v, NEW x, NEW X, NEW n \in Names, Works(v, x, X, n),
         x.res = "ok" => FilePos(View(x), x.fp[n])
  PROVE  Tends(v, Abort(x, n), X, n)
<1> DEFINE z == [x EXCEPT !.fp[n].err = x.res]
<1>1. CASE x.res = "ok"
  BY <1>1 DEF Abort, Tends
<1>2. CASE x.res # "ok"
  <2>1. Abort(x, n) = z
    BY <1>2 DEF Abort
  <2>2. /\ FileSet(x, z, n) /\ z.fp[n].dirty = x.fp[n].dirty
        /\ z.fp[n].ptr = x.fp[n].ptr /\ z.fp[n].sclust = x.fp[n].sclust
        /\ z.fp[n].dsect = x.fp[n].dsect /\ z.fp[n].size = x.fp[n].size
        /\ z.fp[n].written = x.fp[n].written
        /\ z.fp[n].err = x.res /\ z.fp[n].slot = x.fp[n].slot
    BY ObjectHas DEF FileSet, Works, Base, Shape, Fields, FileFields
  <2> HIDE DEF z
  <2>3. FileBase(View(x), n, z.fp[n], X)
    BY <2>2 DEF Works, FileBase
  <2>4. Works(v, z, X, n)
    BY <2>2, <2>3, FileSetTends
  <2> QED
    BY <1>2, <2>1, <2>2, <2>4 DEF Tends
<1> QED
  BY <1>1, <1>2

\* A call that is refused.
LEMMA CheckedFails ==
  ASSUME NEW v, NEW x, NEW X, NEW n \in Names, Tends(v, x, X, n), NEW why
  PROVE  Tends(v, Fail(x, why), X, n)
<1> DEFINE z == Fail(x, why)
<1>1. Moves(x, z, X)
  BY BaseFail DEF Tends, Works
<1> HIDE DEF z
<1>2. Works(v, z, X, n) /\ z.fp = x.fp /\ View(z) = View(x)
  BY <1>1, MovesWorks DEF Tends
<1> QED
  BY <1>2 DEF Tends, z

LEMMA ReadPartGoes ==
  ASSUME NEW v, NEW x, NEW X, NEW n \in Names, Works(v, x, X, n), x.left \in Int, IsIo(x.in),
         FileBase(View(x), n, x.fp[n], X), x.fp[n].clust \in Reach(View(x), x.fp[n].sclust),
         x.fp[n].dsect = x.fp[n].clust
  PROVE  Going(v, ReadPart(x, n), X, n)
<1> DEFINE f == x.fp[n]
           cnt == Lower(Units - Within(f), x.left)
           y == ReadPart(x, n)
<1>1. f.ptr \in Int /\ f.size \in Int /\ DOMAIN f = FileFields
  BY ObjectHas
<1>2. cnt \in Int
  BY <1>1, PartOf, FatFsAssumption, SMTT(30) DEF Lower, Within
<1> HIDE DEF cnt
<1>3. y = [x EXCEPT !.out = @ \o SubSeq(f.buf, Within(f) + 1, Within(f) + cnt),
                    !.fp[n].ptr = @ + cnt, !.left = @ - cnt]
  BY DEF ReadPart, cnt
<1>4. /\ FileSet(x, y, n) /\ y.fp[n].dirty = f.dirty
      /\ y.fp[n].ptr = f.ptr + cnt /\ y.fp[n].clust = f.clust /\ y.fp[n].sclust = f.sclust
      /\ y.fp[n].dsect = f.dsect /\ y.fp[n].size = f.size
      /\ y.fp[n].written = f.written
      /\ y.fp[n].err = f.err /\ y.fp[n].slot = f.slot
      /\ y.left = x.left - cnt /\ y.in = x.in /\ y.res = x.res
  BY <1>3, ObjectHas DEF FileSet, Works, Base, Shape, Fields, FileFields
<1> HIDE DEF y
<1>5. FileBase(View(x), n, y.fp[n], X)
  BY <1>1, <1>2, <1>4 DEF FileBase
<1>6. Works(v, y, X, n) /\ View(y) = View(x)
  BY <1>4, <1>5, FileSetTends
<1>7. FilePos(View(y), y.fp[n])
  BY <1>4, <1>6 DEF FilePos
<1>8. y.left \in Int
  BY <1>2, <1>4
<1> QED
  BY <1>4, <1>6, <1>7, <1>8 DEF Going, y

\* A whole cluster is passed.
LEMMA WholePassed ==
  ASSUME NEW d, NEW f, NEW g, f.ptr \in Int, f.ptr % Units = 0, g.ptr = f.ptr + Units, g.clust = f.clust,
         g.sclust = f.sclust, f.clust \in Reach(d, f.sclust)
  PROVE  g.ptr \in Int /\ FilePos(d, g)
<1>1. g.ptr \in Int
  BY FatFsAssumption
<1>2. g.ptr % Units = 0
  BY PartOf
<1> QED
  BY <1>1, <1>2 DEF FilePos

LEMMA ReadWholeGoes ==
  ASSUME NEW v, NEW x, NEW X, NEW n \in Names, Works(v, x, X, n), x.left \in Int, IsIo(x.in), x.res = "ok",
         x.fp[n].clust \in Reach(View(x), x.fp[n].sclust), AtBoundary(x, n)
  PROVE  Going(v, ReadWhole(x, n), X, n)
<1> DEFINE f == x.fp[n]
           u == DiskRead(x, ClustSect(f.clust))
           o == u.out \o IF f.dirty /\ f.dsect = f.clust THEN f.buf ELSE UnitsOf(u.data)
           z == [u EXCEPT !.out = o, !.fp[n].ptr = @ + Units, !.left = @ - Units]
<1>1. ReadWhole(x, n) = IF u.res = "ok" THEN z ELSE u
  BY DEF ReadWhole, Then
<1>2. Works(v, u, X, n) /\ Tended(x, u, n) /\ u.fp = x.fp /\ View(u) = View(x)
  BY DiskReadWorks
<1> HIDE DEF u
<1>3. u.left \in Int /\ IsIo(u.in) /\ f.ptr \in Int /\ f.ptr % Units = 0
  BY <1>2, ObjectHas DEF Tended, AtBoundary, Within
<1>4. CASE u.res # "ok"
  BY <1>1, <1>2, <1>3, <1>4 DEF Going
<1>5. CASE u.res = "ok"
  <2> HIDE DEF o
  <2>1. /\ FileSet(u, z, n) /\ z.fp[n].dirty = f.dirty
        /\ z.fp[n].ptr = f.ptr + Units /\ z.fp[n].clust = f.clust /\ z.fp[n].sclust = f.sclust
        /\ z.fp[n].dsect = f.dsect /\ z.fp[n].size = f.size
        /\ z.fp[n].written = f.written
        /\ z.fp[n].err = f.err /\ z.fp[n].slot = f.slot
        /\ z.left = u.left - Units /\ z.in = u.in /\ z.res = "ok"
    BY <1>2, <1>5, ObjectHas DEF FileSet, Works, Base, Shape, Fields, FileFields
  <2> HIDE DEF z
  <2>2. z.fp[n].ptr \in Int /\ FilePos(View(x), z.fp[n])
    BY <1>3, <2>1, WholePassed
  <2>3. FileBase(View(u), n, z.fp[n], X)
    BY <1>2, <2>1, <2>2 DEF Works, FileBase
  <2>4. Works(v, z, X, n) /\ View(z) = View(u)
    BY <1>2, <2>1, <2>3, FileSetTends
  <2>5. z.left \in Int
    BY <1>3, <2>1, FatFsAssumption
  <2>6. IsIo(z.in) /\ FilePos(View(z), z.fp[n])
    BY <1>2, <1>3, <2>1, <2>2, <2>4
  <2>7. Going(v, z, X, n)
    BY <2>4, <2>5, <2>6 DEF Going
  <2> QED
    BY <1>1, <1>5, <2>7
<1> QED
  BY <1>4, <1>5

\* What the next cluster is set to.
LEMMA ClustSet ==
  ASSUME NEW v, NEW g, NEW X, NEW n \in Names, Works(v, g, X, n), NEW c
  PROVE  LET h == [g EXCEPT !.fp[n].clust = c]
         IN  /\ Works(v, h, X, n) /\ View(h) = View(g) /\ h.res = g.res /\ h.left = g.left /\ h.in = g.in
             /\ h.fp[n].clust = c /\ h.fp[n].sclust = g.fp[n].sclust /\ h.fp[n].ptr = g.fp[n].ptr
             /\ h.fp[n].dsect = g.fp[n].dsect /\ h.val = g.val /\ h.fp[n].wr = g.fp[n].wr
<1> DEFINE h == [g EXCEPT !.fp[n].clust = c]
<1>1. /\ FileSet(g, h, n) /\ h.fp[n].dirty = g.fp[n].dirty
      /\ h.fp[n].ptr = g.fp[n].ptr /\ h.fp[n].clust = c /\ h.fp[n].sclust = g.fp[n].sclust
      /\ h.fp[n].dsect = g.fp[n].dsect /\ h.fp[n].size = g.fp[n].size
      /\ h.fp[n].written = g.fp[n].written /\ h.fp[n].wr = g.fp[n].wr
      /\ h.fp[n].err = g.fp[n].err /\ h.fp[n].slot = g.fp[n].slot
      /\ h.left = g.left /\ h.in = g.in /\ h.res = g.res /\ h.val = g.val
  BY ObjectHas DEF FileSet, Works, Base, Shape, Fields, FileFields
<1> HIDE DEF h
<1>2. FileBase(View(g), n, h.fp[n], X)
  BY <1>1 DEF Works, FileBase
<1>3. Works(v, h, X, n) /\ View(h) = View(g)
  BY <1>1, <1>2, FileSetTends
<1> QED
  BY <1>1, <1>3 DEF h

LEMMA FailWorks ==
  ASSUME NEW v, NEW x, NEW X, NEW n \in Names, Works(v, x, X, n), NEW why
  PROVE  LET w == Fail(x, why)
         IN  /\ Works(v, w, X, n) /\ w.fp = x.fp /\ w.left = x.left /\ w.in = x.in
             /\ View(w) = View(x) /\ w.res = why
<1> DEFINE w == Fail(x, why)
<1>1. Moves(x, w, X) /\ w.res = why
  BY BaseFail DEF Works
<1> HIDE DEF w
<1>2. Works(v, w, X, n) /\ w.fp = x.fp /\ w.left = x.left /\ w.in = x.in /\ View(w) = View(x)
  BY <1>1, MovesWorks
<1> QED
  BY <1>1, <1>2 DEF w

\* What the sector in the buffer is set to, which has nothing to be written, or the same.
LEMMA DsectSet ==
  ASSUME NEW v, NEW g, NEW X, NEW n \in Names, Works(v, g, X, n), NEW c,
         g.fp[n].dirty => g.fp[n].dsect = c
  PROVE  LET h == [g EXCEPT !.fp[n].dsect = c]
         IN  /\ Works(v, h, X, n) /\ View(h) = View(g) /\ h.res = g.res /\ h.left = g.left /\ h.in = g.in
             /\ h.fp[n].clust = g.fp[n].clust /\ h.fp[n].sclust = g.fp[n].sclust
             /\ h.fp[n].ptr = g.fp[n].ptr /\ h.fp[n].size = g.fp[n].size
             /\ h.fp[n].dsect = c /\ h.val = g.val /\ h.fp[n].wr = g.fp[n].wr
             /\ h.fp[n].dirty = g.fp[n].dirty
<1> DEFINE h == [g EXCEPT !.fp[n].dsect = c]
<1>1. /\ FileSet(g, h, n) /\ h.fp[n].dirty = g.fp[n].dirty
      /\ h.fp[n].ptr = g.fp[n].ptr /\ h.fp[n].clust = g.fp[n].clust /\ h.fp[n].sclust = g.fp[n].sclust
      /\ h.fp[n].dsect = c /\ h.fp[n].size = g.fp[n].size
      /\ h.fp[n].written = g.fp[n].written /\ h.fp[n].wr = g.fp[n].wr
      /\ h.fp[n].err = g.fp[n].err /\ h.fp[n].slot = g.fp[n].slot
      /\ h.left = g.left /\ h.in = g.in /\ h.res = g.res /\ h.val = g.val
  BY ObjectHas DEF FileSet, Works, Base, Shape, Fields, FileFields
<1> HIDE DEF h
<1>2. FileBase(View(g), n, h.fp[n], X)
  BY <1>1, ObjectHas DEF FileBase
<1>3. Works(v, h, X, n) /\ View(h) = View(g)
  BY <1>1, <1>2, FileSetTends
<1> QED
  BY <1>1, <1>3 DEF h

LEMMA ReadNextWorks ==
  ASSUME NEW v, NEW x, NEW X, NEW n \in Names, Works(v, x, X, n), x.res = "ok",
         FilePos(View(x), x.fp[n])
  PROVE  LET w == ReadNext(x, n)
         IN  /\ Works(v, w, X, n) /\ w.left = x.left /\ w.in = x.in
             /\ w.fp[n].ptr = x.fp[n].ptr
             /\ w.res = "ok" => w.fp[n].clust \in Reach(View(w), w.fp[n].sclust)
<1> DEFINE f == x.fp[n]
           g == IF f.ptr = 0 THEN Answer(x, f.sclust) ELSE GetFat(x, f.clust)
           h == [g EXCEPT !.fp[n].clust = g.val]
           w == ReadNext(x, n)
<1>1. w = IF g.res # "ok" THEN g ELSE IF g.val < 2 THEN Fail(g, "int")
          ELSE IF g.val \notin Clusters THEN Fail(h, "int") ELSE h
  BY DEF ReadNext, Then
<1>2. Moves(x, g, X) /\ (g.res = "ok" /\ g.val \in Clusters => g.val \in Reach(View(x), f.sclust))
  <2>1. CASE f.ptr = 0
    <3>1. Moves(x, Answer(x, f.sclust), X) /\ Answer(x, f.sclust).val = f.sclust
      BY BaseAnswer DEF Works
    <3> QED
      BY <2>1, <3>1, ReachHas
  <2>2. CASE f.ptr # 0
    <3>1. f.clust \in Reach(View(x), f.sclust) /\ f.clust \in Clusters
      BY <2>2, ReachIn DEF FilePos
    <3>2. /\ Moves(x, GetFat(x, f.clust), X)
          /\ GetFat(x, f.clust).res = "ok" => GetFat(x, f.clust).val = FatOf(View(x), f.clust)
      BY <3>1, GetFatMoves DEF Works
    <3>3. Follows(View(x), Reach(View(x), f.sclust))
      BY ReachFollows
    <3> QED
      BY <2>2, <3>1, <3>2, <3>3 DEF Follows
  <2> QED
    BY <2>1, <2>2
<1> HIDE DEF g
<1>3. /\ Works(v, g, X, n) /\ g.fp = x.fp /\ g.left = x.left /\ g.in = x.in /\ View(g) = View(x)
  BY <1>2, MovesWorks
<1>4. /\ Works(v, h, X, n) /\ View(h) = View(g) /\ h.res = g.res /\ h.left = g.left /\ h.in = g.in
      /\ h.fp[n].clust = g.val /\ h.fp[n].sclust = g.fp[n].sclust /\ h.fp[n].ptr = g.fp[n].ptr
  BY <1>3, ClustSet
<1> HIDE DEF h
<1>5. /\ Works(v, Fail(g, "int"), X, n) /\ Fail(g, "int").fp = g.fp /\ Fail(g, "int").left = g.left
      /\ Fail(g, "int").in = g.in /\ Fail(g, "int").res = "int"
  BY <1>3, FailWorks
<1>6. /\ Works(v, Fail(h, "int"), X, n) /\ Fail(h, "int").fp = h.fp /\ Fail(h, "int").left = h.left
      /\ Fail(h, "int").in = h.in /\ Fail(h, "int").res = "int"
  BY <1>4, FailWorks
<1>7. CASE g.res # "ok"
  BY <1>1, <1>3, <1>7
<1>8. CASE g.res = "ok" /\ g.val < 2
  BY <1>1, <1>3, <1>5, <1>8
<1>9. CASE g.res = "ok" /\ ~(g.val < 2) /\ g.val \notin Clusters
  BY <1>1, <1>3, <1>4, <1>6, <1>9
<1>10. CASE g.res = "ok" /\ ~(g.val < 2) /\ g.val \in Clusters
  BY <1>1, <1>2, <1>3, <1>4, <1>10
<1> QED
  BY <1>7, <1>8, <1>9, <1>10

LEMMA ReadBufferedGoes ==
  ASSUME NEW v, NEW x, NEW X, NEW n \in Names, Works(v, x, X, n), x.left \in Int, IsIo(x.in), x.res = "ok",
         x.fp[n].clust \in Reach(View(x), x.fp[n].sclust)
  PROVE  Going(v, ReadBuffered(x, n), X, n)
<1> DEFINE c == x.fp[n].clust
           u == FlushBuf(x, n)
           y == IF x.fp[n].dsect = c THEN x ELSE IF u.res = "ok" THEN FillBuf(u, n, c) ELSE u
           q == [y EXCEPT !.fp[n].dsect = c]
<1>1. ReadBuffered(x, n) = IF y.res = "ok" THEN ReadPart(q, n) ELSE y
  BY DEF ReadBuffered, Then
<1>2. Works(v, u, X, n) /\ Tended(x, u, n) /\ (u.res = "ok" => ~u.fp[n].dirty)
  BY FlushBufTends
<1>3. u.res = "ok" => Works(v, FillBuf(u, n, c), X, n) /\ Tended(u, FillBuf(u, n, c), n)
  BY <1>2, FillBufTends
<1> HIDE DEF u
<1>4. /\ Works(v, y, X, n) /\ SameFat(View(x), View(y)) /\ y.fp[n].clust = c
      /\ y.fp[n].sclust = x.fp[n].sclust /\ y.left = x.left /\ y.in = x.in
      /\ y.res = "ok" => (y.fp[n].dirty => y.fp[n].dsect = c)
  <2>1. CASE x.fp[n].dsect = c
    BY <2>1 DEF SameFat
  <2>2. CASE x.fp[n].dsect # c /\ u.res = "ok"
    BY <1>2, <1>3, <2>2 DEF Tended, SameFat
  <2>3. CASE x.fp[n].dsect # c /\ u.res # "ok"
    BY <1>2, <2>3 DEF Tended
  <2> QED
    BY <2>1, <2>2, <2>3
<1> HIDE DEF y
<1>5. CASE y.res # "ok"
  BY <1>1, <1>4, <1>5 DEF Going
<1>6. CASE y.res = "ok"
  <2>1. /\ Works(v, q, X, n) /\ View(q) = View(y) /\ q.left = y.left /\ q.in = y.in
        /\ q.fp[n].clust = c /\ q.fp[n].sclust = y.fp[n].sclust /\ q.fp[n].dsect = c
    BY <1>4, <1>6, DsectSet
  <2> HIDE DEF q
  <2>2. Reach(View(y), x.fp[n].sclust) = Reach(View(x), x.fp[n].sclust)
    BY <1>4, ReachSame
  <2>3. FileBase(View(q), n, q.fp[n], X) /\ q.fp[n].clust \in Reach(View(q), q.fp[n].sclust)
    BY <1>4, <2>1, <2>2, ObjectHas
  <2>4. Going(v, ReadPart(q, n), X, n)
    BY <1>4, <2>1, <2>3, ReadPartGoes
  <2> QED
    BY <1>1, <1>6, <2>4
<1> QED
  BY <1>5, <1>6

LEMMA WithinZero == 0 % Units = 0
<1>1. (0 * Units) % Units = 0 /\ 0 * Units = 0
  BY WholeParts, FatFsAssumption
<1> QED
  BY <1>1

LEMMA ReadTurnGoes ==
  ASSUME NEW v, NEW x, NEW X, NEW n \in Names, Going(v, x, X, n)
  PROVE  Going(v, ReadTurn(x, n), X, n)
<1> DEFINE f == x.fp[n]
           w == ReadNext(x, n)
<1>1. ReadTurn(x, n) = IF x.res # "ok" \/ x.left = 0 THEN x
                       ELSE IF ~AtBoundary(x, n) THEN ReadPart(x, n)
                       ELSE IF w.res # "ok" THEN w
                       ELSE IF w.left >= Units THEN ReadWhole(w, n) ELSE ReadBuffered(w, n)
  BY DEF ReadTurn, Then
<1>2. CASE x.res # "ok" \/ x.left = 0
  BY <1>1, <1>2
<1>3. CASE x.res = "ok" /\ x.left # 0 /\ ~AtBoundary(x, n)
  <2>1. FilePos(View(x), f) /\ Works(v, x, X, n) /\ x.left \in Int /\ IsIo(x.in)
    BY <1>3 DEF Going
  <2>2. f.ptr % Units # 0 /\ f.ptr # 0
    BY <1>3, WithinZero DEF AtBoundary, Within
  <2>3. f.clust \in Reach(View(x), f.sclust) /\ f.dsect = f.clust
    BY <2>1, <2>2 DEF FilePos
  <2>4. FileBase(View(x), n, f, X)
    BY <2>1, ObjectHas
  <2>5. Going(v, ReadPart(x, n), X, n)
    BY <2>1, <2>3, <2>4, ReadPartGoes
  <2> QED
    BY <1>1, <1>3, <2>5
<1>4. CASE x.res = "ok" /\ x.left # 0 /\ AtBoundary(x, n)
  <2>1. FilePos(View(x), f) /\ Works(v, x, X, n) /\ x.left \in Int /\ IsIo(x.in)
    BY <1>4 DEF Going
  <2>2. /\ Works(v, w, X, n) /\ w.left = x.left /\ w.in = x.in
        /\ w.fp[n].ptr = f.ptr
        /\ w.res = "ok" => w.fp[n].clust \in Reach(View(w), w.fp[n].sclust)
    BY <1>4, <2>1, ReadNextWorks
  <2> HIDE DEF w
  <2>3. CASE w.res # "ok"
    BY <1>1, <1>4, <2>1, <2>2, <2>3 DEF Going
  <2>4. CASE w.res = "ok"
    <3>1. AtBoundary(w, n)
      BY <1>4, <2>2 DEF AtBoundary, Within
    <3>2. Going(v, ReadWhole(w, n), X, n)
      BY <2>1, <2>2, <2>4, <3>1, ReadWholeGoes
    <3>3. Going(v, ReadBuffered(w, n), X, n)
      BY <2>1, <2>2, <2>4, ReadBufferedGoes
    <3> QED
      BY <1>1, <1>4, <2>4, <3>2, <3>3
  <2> QED
    BY <2>3, <2>4
<1> QED
  BY <1>2, <1>3, <1>4

LEMMA FReadTends ==
  ASSUME NEW v, NEW x, NEW X, NEW n \in Names, Tends(v, x, X, n), x.res = "ok", IsIo(x.in), NEW cnt \in Nat
  PROVE  Tends(v, FRead(x, n, cnt), X, n)
<1> DEFINE f == x.fp[n]
           a == [x EXCEPT !.left = Lower(cnt, f.size - f.ptr)]
           P(h) == h = [i \in 0..cnt |-> IF i = 0 THEN a ELSE ReadTurn(h[i - 1], n)]
           h == CHOOSE y : P(y)
           A == FRead(x, n, cnt)
<1>1. A = IF f.err # "ok" THEN Fail(x, f.err) ELSE IF ~f.rd THEN Fail(x, "denied")
          ELSE Abort(h[cnt], n)
  BY DEF FRead, Checked, Turns
<1>2. CASE f.err # "ok"
  BY <1>1, <1>2, CheckedFails
<1>3. CASE f.err = "ok" /\ ~f.rd
  BY <1>1, <1>3, CheckedFails
<1>4. CASE f.err = "ok" /\ f.rd
  <2>1. Works(v, x, X, n) /\ FilePos(View(x), f)
    BY <1>4 DEF Tends
  <2>2. f.ptr \in Int /\ f.size \in Int /\ DOMAIN x = Fields
    BY <2>1, ObjectHas
  <2>3. Going(v, a, X, n)
    <3>1. /\ DOMAIN a = Fields /\ a.win = x.win /\ a.disk = x.disk /\ a.io = x.io /\ a.bad = x.bad
          /\ a.fs = x.fs /\ a.fp = x.fp /\ a.find = x.find /\ a.in = x.in
          /\ a.left = Lower(cnt, f.size - f.ptr)
      BY <2>2 DEF Fields
    <3>2. a.left \in Int
      BY <2>2, <3>1 DEF Lower
    <3> HIDE DEF a
    <3>3. FileSet(x, a, n)
      BY <2>1, <3>1, ObjectHas DEF FileSet, Works
    <3>4. Works(v, a, X, n) /\ View(a) = View(x)
      BY <2>1, <3>1, <3>3, FileSetTends, ObjectHas
    <3> QED
      BY <2>1, <3>1, <3>2, <3>4 DEF Going
  <2> HIDE DEF a
  <2> SUFFICES Tends(v, Abort(h[cnt], n), X, n)
    BY <1>1, <1>4
  <2>4. Going(v, h[cnt], X, n)
    <3>1. Going(v, a, X, n)
      BY <2>3
    <3>L1. PICK g : Runs("read", n, a, cnt, g)
      BY RunExists, cnt \in Nat
    <3>L2. P(g)
      BY <3>L1 DEF Runs, Turn
    <3> HIDE DEF P
    <3>L3. P(h)
      BY <3>L2, Zenon
    <3> HIDE DEF h
    <3>L4. \A i \in 0..cnt : h[i] = IF i = 0 THEN a ELSE ReadTurn(h[i - 1], n)
      BY <3>L3 DEF P
    <3> DEFINE T == {i \in 0..cnt : Going(v, h[i], X, n)}
    <3>L5. 0 \in T
      <4>1. h[0] = a /\ 0 \in 0..cnt
        BY <3>L4, cnt \in Nat
      <4>2. Going(v, h[0], X, n)
        BY <3>1, <4>1
      <4> QED
        BY <4>1, <4>2
    <3>L6. ASSUME NEW i \in 0..cnt - 1, i \in T PROVE i + 1 \in T
      <4>1. i + 1 \in 0..cnt /\ h[i + 1] = ReadTurn(h[i], n)
        <5>1. i + 1 \in 0..cnt /\ i + 1 # 0 /\ (i + 1) - 1 = i
          BY cnt \in Nat
        <5> QED
          BY <3>L4, <5>1
      <4>2. Going(v, h[i], X, n)
        BY <3>L6
      <4>3. Going(v, ReadTurn(h[i], n), X, n)
        BY <4>2, ReadTurnGoes
      <4> QED
        BY <4>1, <4>3
    <3> HIDE DEF T
    <3>L7. Going(v, h[cnt], X, n)
      <4>1. cnt \in T
        BY <3>L5, <3>L6, Upwards, cnt \in Nat
      <4> QED
        BY <4>1 DEF T
    <3> QED
      BY <3>L7
  <2> HIDE DEF h
  <2> QED
    BY <2>4, AbortTends DEF Going
<1> QED
  BY <1>2, <1>3, <1>4

LEMMA ChainOutside ==
  ASSUME NEW v, NEW x, NEW X, NEW n \in Names, Works(v, x, X, n),
         NEW c \in Reach(View(x), x.fp[n].sclust)
  PROVE  /\ c \in Clusters /\ c \notin Tab(View(x)) /\ x.fp[n].sclust # 0
         /\ Leads(View(x), x.fp[n].sclust) /\ x.fp[n].sclust # Root
<1> DEFINE s == x.fp[n].sclust
<1>1. c \in Clusters
  BY ReachIn
<1>2. s \in Clusters
  BY ReachNone
<1>3. s # 0
  BY <1>2, ClustersDiffer
<1>4. Leads(View(x), s) /\ s # Root
  BY <1>3, ObjectHas DEF FileBase
<1>5. Reach(View(x), s) \cap Tab(View(x)) = {}
  BY <1>4, ObjectHas, SaneParts
<1> QED
  BY <1>1, <1>3, <1>4, <1>5

\* The rest of what is to be written.
LEMMA RestOf ==
  ASSUME NEW s, IsIo(s), NEW k \in Nat, k <= Len(s)
  PROVE  IsIo(SubSeq(s, k + 1, Len(s)))
<1>1. PICK S : s \in Seq(S)
  BY DEF IsIo
<1>2. Len(s) \in Nat /\ k + 1 \in 1..Len(s) + 1 /\ Len(s) \in (k + 1) - 1..Len(s)
  BY <1>1, LenProperties
<1>3. SubSeq(s, k + 1, Len(s)) \in Seq(S)
  BY <1>1, <1>2, SubSeqProperties
<1> QED
  BY <1>3 DEF IsIo

LEMMA WritePartGoes ==
  ASSUME NEW v, NEW x, NEW X, NEW n \in Names, Works(v, x, X, n), x.left \in Int, IsIo(x.in),
         x.fp[n].clust \in Reach(View(x), x.fp[n].sclust), x.fp[n].dsect = x.fp[n].clust
  PROVE  Going(v, WritePart(x, n), X, n)
<1> DEFINE f == x.fp[n]
           at == Within(f)
           cnt == Lower(Units - at, Len(x.in))
           b == [i \in 1..Units |-> IF i \in at + 1..at + cnt THEN x.in[i - at] ELSE f.buf[i]]
           r == SubSeq(x.in, cnt + 1, Len(x.in))
           y == WritePart(x, n)
<1>1. f.ptr \in Int /\ f.size \in Int /\ DOMAIN f = FileFields
  BY ObjectHas
<1>2. Len(x.in) \in Nat
  BY IoMore
<1>3. at \in 0..Units - 1
  BY <1>1, PartOf DEF Within
<1>4. cnt \in Nat /\ cnt <= Len(x.in)
  BY <1>2, <1>3, FatFsAssumption DEF Lower
<1>5. IsIo(r)
  BY <1>4, RestOf
<1>6. y = [x EXCEPT !.fp[n].buf = b, !.fp[n].dirty = TRUE, !.fp[n].ptr = @ + cnt, !.in = r]
  BY DEF WritePart
<1> HIDE DEF cnt, b, r, at
<1>7. /\ FileSet(x, y, n) /\ y.fp[n].dirty = TRUE
      /\ y.fp[n].ptr = f.ptr + cnt /\ y.fp[n].clust = f.clust /\ y.fp[n].sclust = f.sclust
      /\ y.fp[n].dsect = f.dsect /\ y.fp[n].size = f.size
      /\ y.fp[n].written = f.written
      /\ y.fp[n].err = f.err /\ y.fp[n].slot = f.slot
      /\ y.left = x.left /\ y.in = r /\ y.res = x.res
  BY <1>6, ObjectHas DEF FileSet, Works, Base, Shape, Fields, FileFields
<1> HIDE DEF y
<1>8. f.dsect \in Clusters \ Tab(View(x))
  BY ChainOutside
<1>9. y.fp[n].ptr \in Int
  BY <1>1, <1>4, <1>7
<1>10. FileBase(View(x), n, f, X)
  BY ObjectHas
<1>11. FileBase(View(x), n, y.fp[n], X)
  BY <1>7, <1>8, <1>9, <1>10 DEF FileBase
<1>12. Works(v, y, X, n) /\ View(y) = View(x)
  BY <1>7, <1>11, FileSetTends
<1>13. FilePos(View(y), y.fp[n])
  BY <1>7, <1>12 DEF FilePos
<1> QED
  BY <1>5, <1>7, <1>12, <1>13 DEF Going, y

LEMMA WriteWholeGoes ==
  ASSUME NEW v, NEW x, NEW X, NEW n \in Names, Works(v, x, X, n), x.left \in Int, IsIo(x.in), x.res = "ok",
         x.fp[n].clust \in Reach(View(x), x.fp[n].sclust), AtBoundary(x, n), Len(x.in) >= Units
  PROVE  Going(v, WriteWhole(x, n), X, n)
<1> DEFINE f == x.fp[n]
           u == SubSeq(x.in, 1, Units)
           cached == f.dsect = f.clust
           w == DiskWrite(x, ClustSect(f.clust), DataOf(u))
           b == IF cached THEN u ELSE w.fp[n].buf
           g == w.fp[n].dirty /\ ~cached
           r == SubSeq(w.in, Units + 1, Len(w.in))
           z == [w EXCEPT !.fp[n].buf = IF cached THEN u ELSE @, !.fp[n].dirty = @ /\ ~cached,
                          !.fp[n].ptr = @ + Units, !.in = SubSeq(@, Units + 1, Len(@))]
<1>1. WriteWhole(x, n) = IF w.res = "ok" THEN z ELSE w
  BY DEF WriteWhole, Then
<1>2. f.clust \in Clusters /\ f.clust \notin Tab(View(x)) /\ Base(x, X)
  BY ChainOutside, ObjectHas
<1>3. /\ Base(w, X) /\ Elsewhere(x, w)
      /\ SameFat(View(x), View(w)) /\ Tab(View(w)) = Tab(View(x)) /\ SameEntries(View(x), View(w))
      /\ Keeping(View(x), View(w), {})
  BY <1>2, DataWritten
<1> HIDE DEF w
<1>4. Frame(x, w)
  BY <1>3 DEF Elsewhere, Frame
<1>5. Works(v, w, X, n) /\ w.fp = x.fp /\ w.left = x.left /\ w.in = x.in
  BY <1>3, <1>4, WorksOn DEF Frame
<1>6. CASE w.res # "ok"
  BY <1>1, <1>5, <1>6 DEF Going
<1>7. CASE w.res = "ok"
  <2>1. z = [w EXCEPT !.fp[n].buf = b, !.fp[n].dirty = g, !.fp[n].ptr = @ + Units, !.in = r]
    OBVIOUS
  <2>2. IsIo(r)
    BY <1>5, RestOf, FatFsAssumption
  <2>3. g => w.fp[n].dirty
    OBVIOUS
  <2> HIDE DEF z, b, g, r
  <2>4. /\ FileSet(w, z, n) /\ (z.fp[n].dirty <=> g)
        /\ z.fp[n].ptr = f.ptr + Units /\ z.fp[n].clust = f.clust /\ z.fp[n].sclust = f.sclust
        /\ z.fp[n].dsect = f.dsect /\ z.fp[n].size = f.size
        /\ z.fp[n].written = f.written
        /\ z.fp[n].err = f.err /\ z.fp[n].slot = f.slot
        /\ z.left = x.left /\ z.in = r /\ z.res = "ok"
    BY <1>5, <1>7, <2>1, ObjectHas DEF FileSet, Works, Base, Shape, Fields, FileFields
  <2>5. f.ptr \in Int /\ f.ptr % Units = 0
    BY ObjectHas DEF AtBoundary, Within
  <2>6. Reach(View(w), f.sclust) = Reach(View(x), f.sclust)
    BY <1>3, ReachSame
  <2>7. z.fp[n].ptr \in Int /\ FilePos(View(w), z.fp[n])
    BY <2>4, <2>5, <2>6, WholePassed
  <2>8. FileBase(View(w), n, w.fp[n], X)
    BY <1>5, ObjectHas
  <2>9. FileBase(View(w), n, z.fp[n], X)
    BY <1>5, <2>3, <2>4, <2>7, <2>8 DEF FileBase
  <2>10. Works(v, z, X, n) /\ View(z) = View(w)
    BY <1>5, <2>4, <2>9, FileSetTends
  <2>11. Going(v, z, X, n)
    BY <2>2, <2>4, <2>7, <2>10 DEF Going
  <2> QED
    BY <1>1, <1>7, <2>11
<1> QED
  BY <1>6, <1>7

\* The chains of the other files, which a call on the file of n cannot take.
Others(v, n) ==
  \A m \in Names : m # n /\ v.fp[m].open /\ v.fp[m].sclust # 0 => Leads(View(v), v.fp[m].sclust)

LEMMA FreeAlone ==
  ASSUME NEW v, NEW x, NEW X, NEW n, Others(v, n), Works(v, x, X, n), NEW c, FatOf(View(x), c) = 0
  PROVE  Alone(v, n, c)
<1>1. ASSUME NEW m \in Names, m # n, v.fp[m].open, v.fp[m].sclust # 0 PROVE c # v.fp[m].sclust
  <2>1. Leads(View(v), v.fp[m].sclust)
    BY <1>1 DEF Others
  <2>2. Leads(View(x), v.fp[m].sclust)
    BY <2>1 DEF Works, Keeping
  <2> QED
    BY <2>2 DEF Leads
<1> QED
  BY <1>1 DEF Alone

LEMMA PosKeeps ==
  ASSUME NEW d, NEW e, Keeping(d, e, {}), NEW n, NEW f, NEW X, FileBase(d, n, f, X), FilePos(d, f)
  PROVE  FilePos(e, f)
<1>1. ASSUME f.ptr # 0 PROVE f.clust \in Reach(e, f.sclust)
  <2>1. f.clust \in Reach(d, f.sclust)
    BY <1>1 DEF FilePos
  <2>2. f.sclust # 0
    BY <2>1, ReachNone, ClustersDiffer
  <2> QED
    BY <2>1, <2>2 DEF FileBase, Keeping
<1> QED
  BY <1>1 DEF FilePos

\* A chain is begun for the file, or goes on.
LEMMA CreatedWorks ==
  ASSUME NEW v, NEW x, NEW X, NEW n \in Names, Works(v, x, X, n), NEW c, c \notin Tab(View(x)),
         NEW g, Created(x, g, X, c)
  PROVE  /\ Works(v, g, X, n) /\ g.fp = x.fp /\ g.left = x.left /\ g.in = x.in
         /\ Keeping(View(x), View(g), {})
<1>1. /\ Base(g, X) /\ Frame(x, g) /\ SameEntries(View(x), View(g)) /\ Keeping(View(x), View(g), {})
      /\ Tab(View(g)) \subseteq Tab(View(x))
  BY DEF Created, Links
<1>2. Tab(View(g)) = Tab(View(x))
  BY <1>1 DEF Keeping
<1> QED
  BY <1>1, <1>2, WorksOn DEF Frame

\* A cluster that the file of n can go on with: of its chain, or the first of a new one.
Usable(v, g, X, n, c) ==
  LET s == g.fp[n].sclust
  IN  /\ c \in Clusters /\ (s # 0 => c \in Reach(View(g), s))
      /\ s = 0 => Leads(View(g), c) /\ c # Root /\ Unclaimed(View(g), c, X) /\ Alone(v, n, c)

\* A chain is begun.
LEMMA BegunUsable ==
  ASSUME NEW v, NEW x, NEW X, NEW n \in Names, Others(v, n), Works(v, x, X, n), x.res = "ok",
         x.fp[n].sclust = 0, NEW g, g = CreateChain(x, 0)
  PROVE  /\ Works(v, g, X, n) /\ g.fp = x.fp /\ g.left = x.left /\ g.in = x.in
         /\ Keeping(View(x), View(g), {})
         /\ g.res = "ok" /\ g.val # 0 => Usable(v, g, X, n, g.val)
<1>1. 0 \notin Tab(View(x))
  BY ReachIn, ClustersDiffer DEF Tab
<1>2. Created(x, g, X, 0)
  BY <1>1, ObjectHas, CreateChainCreates DEF Linkable
<1>3. /\ Works(v, g, X, n) /\ g.fp = x.fp /\ g.left = x.left /\ g.in = x.in
      /\ Keeping(View(x), View(g), {})
  BY <1>1, <1>2, CreatedWorks
<1>4. ASSUME g.res = "ok", g.val # 0 PROVE Usable(v, g, X, n, g.val)
  <2>1. /\ g.val \in Clusters /\ FatOf(View(x), g.val) = 0
        /\ Leads(View(g), g.val) /\ g.val # Root /\ Unclaimed(View(g), g.val, X)
    BY <1>2, <1>4 DEF Created
  <2>2. Alone(v, n, g.val)
    BY <2>1, FreeAlone
  <2> QED
    BY <1>3, <2>1, <2>2 DEF Usable
<1> QED
  BY <1>3, <1>4

\* A chain goes on.
LEMMA NextUsable ==
  ASSUME NEW v, NEW x, NEW X, NEW n \in Names, Works(v, x, X, n), x.res = "ok",
         NEW c \in Reach(View(x), x.fp[n].sclust), NEW g, g = CreateChain(x, c)
  PROVE  /\ Works(v, g, X, n) /\ g.fp = x.fp /\ g.left = x.left /\ g.in = x.in
         /\ Keeping(View(x), View(g), {})
         /\ g.res = "ok" /\ g.val # 0 => Usable(v, g, X, n, g.val)
<1>1. c \notin Tab(View(x)) /\ x.fp[n].sclust # 0
  BY ChainOutside
<1>2. Created(x, g, X, c)
  BY <1>1, ObjectHas, CreateChainCreates DEF Linkable
<1>3. /\ Works(v, g, X, n) /\ g.fp = x.fp /\ g.left = x.left /\ g.in = x.in
      /\ Keeping(View(x), View(g), {})
  BY <1>1, <1>2, CreatedWorks
<1>4. ASSUME g.res = "ok", g.val # 0 PROVE Usable(v, g, X, n, g.val)
  <2>1. g.val \in Clusters /\ g.val \in Reach(View(g), x.fp[n].sclust)
    BY <1>2, <1>4 DEF Created
  <2> QED
    BY <1>1, <1>3, <2>1 DEF Usable
<1> QED
  BY <1>3, <1>4

LEMMA WriteNextUsable ==
  ASSUME NEW v, NEW x, NEW X, NEW n \in Names, Others(v, n), Works(v, x, X, n), x.res = "ok",
         FilePos(View(x), x.fp[n])
  PROVE  LET g == WriteNext(x, n)
         IN  /\ Works(v, g, X, n) /\ g.fp = x.fp /\ g.left = x.left /\ g.in = x.in
             /\ FilePos(View(g), g.fp[n])
             /\ g.res = "ok" /\ g.val # 0 => Usable(v, g, X, n, g.val)
<1> DEFINE f == x.fp[n]
           g == WriteNext(x, n)
<1>1. g = IF f.ptr > 0 THEN CreateChain(x, f.clust)
          ELSE IF f.sclust = 0 THEN CreateChain(x, 0) ELSE Answer(x, f.sclust)
  BY DEF WriteNext
<1> HIDE DEF g
<1>2. FileBase(View(x), n, f, X) /\ f.ptr \in Int
  BY ObjectHas
<1>3. CASE f.ptr > 0
  <2>1. f.clust \in Reach(View(x), f.sclust) /\ g = CreateChain(x, f.clust)
    BY <1>1, <1>2, <1>3 DEF FilePos
  <2>2. /\ Works(v, g, X, n) /\ g.fp = x.fp /\ g.left = x.left /\ g.in = x.in
        /\ Keeping(View(x), View(g), {})
        /\ g.res = "ok" /\ g.val # 0 => Usable(v, g, X, n, g.val)
    BY <2>1, NextUsable
  <2> QED
    BY <1>2, <2>2, PosKeeps DEF g
<1>4. CASE ~(f.ptr > 0) /\ f.sclust = 0
  <2>1. g = CreateChain(x, 0)
    BY <1>1, <1>4
  <2>2. /\ Works(v, g, X, n) /\ g.fp = x.fp /\ g.left = x.left /\ g.in = x.in
        /\ Keeping(View(x), View(g), {})
        /\ g.res = "ok" /\ g.val # 0 => Usable(v, g, X, n, g.val)
    BY <1>4, <2>1, BegunUsable
  <2> QED
    BY <1>2, <2>2, PosKeeps DEF g
<1>5. CASE ~(f.ptr > 0) /\ f.sclust # 0
  <2>1. g = Answer(x, f.sclust)
    BY <1>1, <1>5
  <2>2. Moves(x, g, X) /\ g.val = f.sclust
    BY <2>1, BaseAnswer DEF Works
  <2>3. Works(v, g, X, n) /\ g.fp = x.fp /\ g.left = x.left /\ g.in = x.in /\ View(g) = View(x)
    BY <2>2, MovesWorks
  <2>4. g.val \in Clusters /\ g.val \in Reach(View(g), g.fp[n].sclust)
    BY <1>2, <1>5, <2>2, <2>3, ReachHas DEF FileBase, Leads
  <2> QED
    BY <1>5, <2>3, <2>4 DEF Usable, g
<1> QED
  BY <1>3, <1>4, <1>5

\* A call goes on with a usable cluster c, the first of the chain when it had none.
UsableSet(g, n, c) == [g EXCEPT !.fp[n].clust = c, !.fp[n].sclust = IF @ = 0 THEN c ELSE @]

LEMMA UsableGoes ==
  ASSUME NEW v, NEW g, NEW X, NEW n \in Names, Works(v, g, X, n), NEW c, Usable(v, g, X, n, c)
  PROVE  LET y == UsableSet(g, n, c)
         IN  /\ Works(v, y, X, n) /\ View(y) = View(g) /\ y.res = g.res /\ y.left = g.left /\ y.in = g.in
             /\ y.fp[n].clust = c /\ c \in Reach(View(y), y.fp[n].sclust)
             /\ y.fp[n].ptr = g.fp[n].ptr /\ y.fp[n].dirty = g.fp[n].dirty
             /\ y.fp[n].dsect = g.fp[n].dsect /\ y.fp[n].wr = g.fp[n].wr /\ y.val = g.val
             /\ y.fp[n].size = g.fp[n].size
<1> DEFINE s == IF g.fp[n].sclust = 0 THEN c ELSE g.fp[n].sclust
           y == UsableSet(g, n, c)
<1>1. y = [g EXCEPT !.fp[n].clust = c, !.fp[n].sclust = s]
  BY ObjectHas DEF UsableSet, FileFields
<1>2. /\ FileSet(g, y, n) /\ y.fp[n].dirty = g.fp[n].dirty
      /\ y.fp[n].ptr = g.fp[n].ptr /\ y.fp[n].clust = c /\ y.fp[n].sclust = s
      /\ y.fp[n].dsect = g.fp[n].dsect /\ y.fp[n].size = g.fp[n].size
      /\ y.fp[n].written = g.fp[n].written /\ y.fp[n].wr = g.fp[n].wr
      /\ y.fp[n].err = g.fp[n].err /\ y.fp[n].slot = g.fp[n].slot
      /\ y.left = g.left /\ y.in = g.in /\ y.res = g.res /\ y.val = g.val
  BY <1>1, ObjectHas DEF FileSet, Works, Base, Shape, Fields, FileFields
<1> HIDE DEF y
<1>3. FileBase(View(g), n, g.fp[n], X) /\ c \in Clusters /\ c # 0
  BY ObjectHas, ClustersDiffer DEF Usable
<1>4. CASE g.fp[n].sclust # 0
  <2>1. y.fp[n].sclust = g.fp[n].sclust
    BY <1>2, <1>4
  <2>2. FileBase(View(g), n, y.fp[n], X)
    BY <1>2, <1>3, <2>1 DEF FileBase
  <2>3. Works(v, y, X, n) /\ View(y) = View(g)
    BY <1>2, <2>1, <2>2, FileSetTends
  <2>4. c \in Reach(View(y), y.fp[n].sclust)
    BY <1>4, <2>1, <2>3 DEF Usable
  <2> QED
    BY <1>2, <2>3, <2>4 DEF y
<1>5. CASE g.fp[n].sclust = 0
  <2>1. /\ y.fp[n].sclust = c /\ Leads(View(g), c) /\ c # Root /\ Unclaimed(View(g), c, X)
        /\ Alone(v, n, c)
    BY <1>2, <1>5 DEF Usable
  <2>2. \A t \in Clusters : ~(Claims(View(g), t, X) /\ EntryIn(View(g), t).clust = c)
    BY <2>1 DEF Unclaimed
  <2>3. FileBase(View(g), n, y.fp[n], X)
    <3>1. PICK t \in Clusters : /\ g.fp[n].slot = ClustSect(t) /\ UsedIn(View(g), t)
                                /\ EntryIn(View(g), t).name = n
                                /\ n \notin X => EntryIn(View(g), t).clust \in {0, g.fp[n].sclust}
      BY <1>3 DEF FileBase
    <3>2. n \notin X => EntryIn(View(g), t).clust \in {0, c}
      BY <1>5, <3>1
    <3> QED
      BY <1>2, <1>3, <2>1, <2>2, <3>1, <3>2 DEF FileBase
  <2>4. Alone(v, n, y.fp[n].sclust) /\ (g.fp[n].written => y.fp[n].written)
    BY <1>2, <2>1
  <2>5. Works(v, y, X, n) /\ View(y) = View(g)
    BY <1>2, <2>3, <2>4, FileSetWorks
  <2>6. c \in Reach(View(y), y.fp[n].sclust)
    BY <1>3, <2>1, ReachHas
  <2> QED
    BY <1>2, <2>5, <2>6 DEF y
<1> QED
  BY <1>4, <1>5

LEMMA WriteBufferedGoes ==
  ASSUME NEW v, NEW x, NEW X, NEW n \in Names, Works(v, x, X, n), x.left \in Int, IsIo(x.in), x.res = "ok",
         x.fp[n].clust \in Reach(View(x), x.fp[n].sclust), ~x.fp[n].dirty
  PROVE  Going(v, WriteBuffered(x, n), X, n)
<1> DEFINE f == x.fp[n]
           old == f.dsect # f.clust /\ f.ptr < f.size
           y == IF old THEN FillBuf(x, n, f.clust) ELSE x
           q == [y EXCEPT !.fp[n].dsect = f.clust]
<1>1. WriteBuffered(x, n) = IF y.res = "ok" THEN WritePart(q, n) ELSE y
  BY DEF WriteBuffered, Then
<1>2. /\ Works(v, y, X, n) /\ SameFat(View(x), View(y)) /\ y.fp[n].clust = f.clust
      /\ y.fp[n].sclust = f.sclust /\ y.left = x.left /\ y.in = x.in
      /\ (y.fp[n].dirty => y.fp[n].dsect = f.clust)
  <2>1. CASE old
    BY <2>1, FillBufTends DEF Tended
  <2>2. CASE ~old
    BY <2>2 DEF SameFat
  <2> QED
    BY <2>1, <2>2
<1> HIDE DEF y
<1>3. CASE y.res # "ok"
  BY <1>1, <1>2, <1>3 DEF Going
<1>4. CASE y.res = "ok"
  <2>1. /\ Works(v, q, X, n) /\ View(q) = View(y) /\ q.left = y.left /\ q.in = y.in
        /\ q.fp[n].clust = f.clust /\ q.fp[n].sclust = f.sclust /\ q.fp[n].dsect = f.clust
    BY <1>2, <1>4, DsectSet, SMTT(30)
  <2> HIDE DEF q
  <2>2. Reach(View(y), f.sclust) = Reach(View(x), f.sclust)
    BY <1>2, ReachSame
  <2>3. q.fp[n].clust \in Reach(View(q), q.fp[n].sclust) /\ q.fp[n].dsect = q.fp[n].clust
    BY <1>2, <2>1, <2>2
  <2>4. Going(v, WritePart(q, n), X, n)
    BY <1>2, <2>1, <2>3, WritePartGoes
  <2> QED
    BY <1>1, <1>4, <2>4
<1> QED
  BY <1>3, <1>4

LEMMA WriteTurnGoes ==
  ASSUME NEW v, NEW x, NEW X, NEW n \in Names, Others(v, n), Going(v, x, X, n)
  PROVE  Going(v, WriteTurn(x, n), X, n)
<1> DEFINE f == x.fp[n]
           g == WriteNext(x, n)
           e == [g EXCEPT !.in = <<>>]
           y == UsableSet(g, n, g.val)
           w == FlushBuf(y, n)
<1>1. WriteTurn(x, n) = IF x.res # "ok" \/ x.in = <<>> THEN x
                        ELSE IF ~AtBoundary(x, n) THEN WritePart(x, n)
                        ELSE IF g.res # "ok" THEN g
                        ELSE IF g.val = 0 THEN e
                        ELSE IF w.res # "ok" THEN w
                        ELSE IF Len(w.in) >= Units THEN WriteWhole(w, n) ELSE WriteBuffered(w, n)
  BY DEF WriteTurn, Then, UsableSet
<1>2. CASE x.res # "ok" \/ x.in = <<>>
  BY <1>1, <1>2
<1>3. CASE x.res = "ok" /\ x.in # <<>> /\ ~AtBoundary(x, n)
  <2>1. FilePos(View(x), f) /\ Works(v, x, X, n) /\ x.left \in Int /\ IsIo(x.in)
    BY <1>3 DEF Going
  <2>2. f.ptr % Units # 0 /\ f.ptr # 0
    BY <1>3, WithinZero DEF AtBoundary, Within
  <2>3. f.clust \in Reach(View(x), f.sclust) /\ f.dsect = f.clust
    BY <2>1, <2>2 DEF FilePos
  <2>4. Going(v, WritePart(x, n), X, n)
    BY <2>1, <2>3, WritePartGoes
  <2> QED
    BY <1>1, <1>3, <2>4
<1>4. CASE x.res = "ok" /\ x.in # <<>> /\ AtBoundary(x, n)
  <2>1. FilePos(View(x), f) /\ Works(v, x, X, n) /\ x.left \in Int /\ IsIo(x.in)
    BY <1>4 DEF Going
  <2>2. /\ Works(v, g, X, n) /\ g.fp = x.fp /\ g.left = x.left /\ g.in = x.in
        /\ FilePos(View(g), g.fp[n])
        /\ g.res = "ok" /\ g.val # 0 => Usable(v, g, X, n, g.val)
    BY <1>4, <2>1, WriteNextUsable
  <2> HIDE DEF g
  <2>3. CASE g.res # "ok"
    BY <1>1, <1>4, <2>1, <2>2, <2>3 DEF Going
  <2>4. CASE g.res = "ok" /\ g.val = 0
    <3>1. /\ DOMAIN e = Fields /\ e.win = g.win /\ e.disk = g.disk /\ e.io = g.io /\ e.bad = g.bad
          /\ e.fs = g.fs /\ e.fp = g.fp /\ e.find = g.find /\ e.in = <<>> /\ e.left = g.left
      BY <2>2, ObjectHas DEF Fields
    <3> HIDE DEF e
    <3>6. DOMAIN g.fp = Names /\ DOMAIN g.fp[n] = FileFields /\ g.fp[n].open
      <4>1. Works(v, g, X, n)
        BY <2>2
      <4>2. g.fp[n].open
        BY <4>1 DEF Works
      <4> QED
        BY <4>1, <4>2, ObjectHas
    <3>2. FileSet(g, e, n)
      BY <3>1, <3>6 DEF FileSet
    <3>3. Works(v, e, X, n) /\ View(e) = View(g)
      BY <2>2, <3>1, <3>2, FileSetTends, ObjectHas
    <3>4. IsIo(e.in)
      <4>1. <<>> \in Seq(Nat)
        BY EmptySeq
      <4> QED
        BY <3>1, <4>1 DEF IsIo
    <3>5. Going(v, e, X, n)
      BY <2>1, <2>2, <3>1, <3>3, <3>4 DEF Going
    <3> QED
      BY <1>1, <1>4, <2>4, <3>5
  <2>5. CASE g.res = "ok" /\ g.val # 0
    <3>1. /\ Works(v, y, X, n) /\ y.res = "ok" /\ y.left = x.left /\ y.in = x.in
          /\ y.fp[n].clust \in Reach(View(y), y.fp[n].sclust) /\ y.fp[n].ptr = f.ptr
      BY <2>2, <2>5, UsableGoes
    <3> HIDE DEF y
    <3>2. Works(v, w, X, n) /\ Tended(y, w, n) /\ (w.res = "ok" => ~w.fp[n].dirty)
      BY <3>1, FlushBufTends
    <3> HIDE DEF w
    <3>3. Reach(View(w), y.fp[n].sclust) = Reach(View(y), y.fp[n].sclust)
      BY <3>2, ReachSame DEF Tended
    <3>4. /\ w.left \in Int /\ IsIo(w.in) /\ w.fp[n].clust \in Reach(View(w), w.fp[n].sclust)
          /\ AtBoundary(w, n)
      BY <1>4, <2>1, <3>1, <3>2, <3>3 DEF Tended, AtBoundary, Within
    <3>5. CASE w.res # "ok"
      BY <1>1, <1>4, <2>5, <3>2, <3>4, <3>5 DEF Going
    <3>6. CASE w.res = "ok" /\ Len(w.in) >= Units
      <4>1. Going(v, WriteWhole(w, n), X, n)
        BY <3>2, <3>4, <3>6, WriteWholeGoes
      <4> QED
        BY <1>1, <1>4, <2>5, <3>6, <4>1
    <3>7. CASE w.res = "ok" /\ ~(Len(w.in) >= Units)
      <4>1. Going(v, WriteBuffered(w, n), X, n)
        BY <3>2, <3>4, <3>7, WriteBufferedGoes
      <4> QED
        BY <1>1, <1>4, <2>5, <3>7, <4>1
    <3> QED
      BY <3>5, <3>6, <3>7
  <2> QED
    BY <2>3, <2>4, <2>5
<1> QED
  BY <1>2, <1>3, <1>4

\* The file is longer, or has been written.
Sized(x, n, k) == [x EXCEPT !.fp[n].size = k, !.fp[n].written = TRUE]
LEMMA SizeSet ==
  ASSUME NEW v, NEW x, NEW X, NEW n \in Names, Going(v, x, X, n), NEW k \in Int
  PROVE  Going(v, Sized(x, n, k), X, n) /\ Sized(x, n, k).res = x.res /\ Sized(x, n, k).in = x.in
<1> DEFINE f == x.fp[n]
           z == Sized(x, n, k)
<1>1. Works(v, x, X, n)
  BY DEF Going
<1>2. /\ FileSet(x, z, n) /\ z.fp[n].dirty = f.dirty
      /\ z.fp[n].ptr = f.ptr /\ z.fp[n].clust = f.clust /\ z.fp[n].sclust = f.sclust
      /\ z.fp[n].dsect = f.dsect /\ z.fp[n].size = k
      /\ z.fp[n].written = TRUE
      /\ z.fp[n].err = f.err /\ z.fp[n].slot = f.slot
      /\ z.left = x.left /\ z.in = x.in /\ z.res = x.res
  BY <1>1, ObjectHas DEF Sized, FileSet, Works, Base, Shape, Fields, FileFields
<1> HIDE DEF z
<1>3. FileBase(View(x), n, f, X)
  BY <1>1, ObjectHas
<1>4. FileBase(View(x), n, z.fp[n], X)
  BY <1>2, <1>3 DEF FileBase
<1>5. Alone(v, n, z.fp[n].sclust) /\ (f.written => z.fp[n].written)
  BY <1>1, <1>2 DEF Works
<1>6. Works(v, z, X, n) /\ View(z) = View(x)
  BY <1>1, <1>2, <1>4, <1>5, FileSetWorks
<1>7. x.res = "ok" => FilePos(View(z), z.fp[n])
  BY <1>2, <1>6 DEF Going, FilePos
<1>8. Going(v, z, X, n)
  BY <1>2, <1>6, <1>7 DEF Going
<1> QED
  BY <1>2, <1>8 DEF z

LEMMA FWriteTends ==
  ASSUME NEW v, NEW x, NEW X, NEW n \in Names, Others(v, n), Tends(v, x, X, n), x.res = "ok", x.left \in Int,
         NEW u, IsIo(u)
  PROVE  Tends(v, FWrite(x, n, u), X, n)
<1> DEFINE f == x.fp[n]
           a == [x EXCEPT !.in = u]
           k == Len(u)
           P(h) == h = [i \in 0..k |-> IF i = 0 THEN a ELSE WriteTurn(h[i - 1], n)]
           h == CHOOSE y : P(y)
           y == h[k]
           z == [y EXCEPT !.fp[n].size = IF y.fp[n].ptr > @ THEN y.fp[n].ptr ELSE @,
                          !.fp[n].written = TRUE]
           o == IF y.res = "ok" THEN z ELSE y
           A == FWrite(x, n, u)
<1>1. A = IF f.err # "ok" THEN Fail(x, f.err) ELSE IF ~f.wr THEN Fail(x, "denied")
          ELSE Abort(o, n)
  BY DEF FWrite, Checked, Turns, Then
<1>2. CASE f.err # "ok"
  BY <1>1, <1>2, CheckedFails
<1>3. CASE f.err = "ok" /\ ~f.wr
  BY <1>1, <1>3, CheckedFails
<1>4. CASE f.err = "ok" /\ f.wr
  <2>1. Works(v, x, X, n) /\ FilePos(View(x), f)
    BY <1>4 DEF Tends
  <2>2. DOMAIN x = Fields
    BY <2>1, ObjectHas
  <2>3. k \in Nat
    BY IoMore
  <2> HIDE DEF k
  <2>4. Going(v, a, X, n)
    <3>1. /\ DOMAIN a = Fields /\ a.win = x.win /\ a.disk = x.disk /\ a.io = x.io /\ a.bad = x.bad
          /\ a.fs = x.fs /\ a.fp = x.fp /\ a.find = x.find /\ a.in = u
          /\ a.left = x.left
      BY <2>2 DEF Fields
    <3> HIDE DEF a
    <3>2. FileSet(x, a, n)
      BY <2>1, <3>1, ObjectHas DEF FileSet, Works
    <3>3. Works(v, a, X, n) /\ View(a) = View(x)
      BY <2>1, <3>1, <3>2, FileSetTends, ObjectHas
    <3> QED
      BY <2>1, <3>1, <3>3 DEF Going
  <2> HIDE DEF a
  <2>5. Going(v, y, X, n)
    <3> SUFFICES Going(v, h[k], X, n)
      OBVIOUS
    <3>1. Going(v, a, X, n)
      BY <2>4
    <3>L1. PICK g : Runs("write", n, a, k, g)
      BY RunExists, <2>3
    <3>L2. P(g)
      BY <3>L1 DEF Runs, Turn
    <3> HIDE DEF P
    <3>L3. P(h)
      BY <3>L2, Zenon
    <3> HIDE DEF h
    <3>L4. \A i \in 0..k : h[i] = IF i = 0 THEN a ELSE WriteTurn(h[i - 1], n)
      BY <3>L3 DEF P
    <3> DEFINE T == {i \in 0..k : Going(v, h[i], X, n)}
    <3>L5. 0 \in T
      <4>1. h[0] = a /\ 0 \in 0..k
        BY <3>L4, <2>3
      <4>2. Going(v, h[0], X, n)
        BY <3>1, <4>1
      <4> QED
        BY <4>1, <4>2
    <3>L6. ASSUME NEW i \in 0..k - 1, i \in T PROVE i + 1 \in T
      <4>1. i + 1 \in 0..k /\ h[i + 1] = WriteTurn(h[i], n)
        <5>1. i + 1 \in 0..k /\ i + 1 # 0 /\ (i + 1) - 1 = i
          BY <2>3
        <5> QED
          BY <3>L4, <5>1
      <4>2. Going(v, h[i], X, n)
        BY <3>L6
      <4>3. Going(v, WriteTurn(h[i], n), X, n)
        BY <4>2, WriteTurnGoes
      <4> QED
        BY <4>1, <4>3
    <3> HIDE DEF T
    <3>L7. Going(v, h[k], X, n)
      <4>1. k \in T
        BY <3>L5, <3>L6, Upwards, <2>3
      <4> QED
        BY <4>1 DEF T
    <3> QED
      BY <3>L7
  <2> SUFFICES Tends(v, Abort(o, n), X, n)
    BY <1>1, <1>4
  <2> HIDE DEF h
  <2> HIDE DEF y
  <2>6. Going(v, z, X, n) /\ z.res = y.res
    <3> DEFINE s == IF y.fp[n].ptr > y.fp[n].size THEN y.fp[n].ptr ELSE y.fp[n].size
               e == Sized(y, n, s)
    <3>1. s \in Int
      BY <2>5, ObjectHas DEF Going
    <3>2. z = e
      BY DEF Sized
    <3> HIDE DEF s, z
    <3>3. Going(v, e, X, n) /\ e.res = y.res
      BY <2>5, <3>1, SizeSet
    <3> QED
      BY <3>2, <3>3
  <2> HIDE DEF z
  <2>7. Going(v, o, X, n)
    BY <2>5, <2>6
  <2> QED
    BY <2>7, AbortTends DEF Going
<1> QED
  BY <1>2, <1>3, <1>4

\* A seek has come to x: x.val is the cluster, of the chain.
Seeking(v, x, X, n) ==
  /\ Works(v, x, X, n) /\ x.left \in Int /\ IsIo(x.in)
  /\ x.res = "ok" =>
       /\ FilePos(View(x), x.fp[n]) /\ x.fp[n].ptr % Units = 0
       /\ x.val # 0 => x.val = x.fp[n].clust /\ x.fp[n].clust \in Reach(View(x), x.fp[n].sclust)

\* Where the file is, is set.
PtrIs(x, y, n, p) ==
  /\ FileSet(x, y, n) /\ y.fp[n].dirty = x.fp[n].dirty
  /\ y.fp[n].ptr = p /\ y.fp[n].clust = x.fp[n].clust /\ y.fp[n].sclust = x.fp[n].sclust
  /\ y.fp[n].dsect = x.fp[n].dsect /\ y.fp[n].size = x.fp[n].size
  /\ y.fp[n].written = x.fp[n].written /\ y.fp[n].wr = x.fp[n].wr
  /\ y.fp[n].err = x.fp[n].err /\ y.fp[n].slot = x.fp[n].slot
  /\ y.in = x.in /\ y.res = x.res

LEMMA PtrSet ==
  ASSUME NEW v, NEW x, NEW X, NEW n \in Names, Works(v, x, X, n), NEW p \in Int, NEW y, PtrIs(x, y, n, p)
  PROVE  Works(v, y, X, n) /\ View(y) = View(x)
<1>1. FileBase(View(x), n, x.fp[n], X)
  BY ObjectHas
<1>2. FileBase(View(x), n, y.fp[n], X)
  BY <1>1 DEF PtrIs, FileBase
<1> QED
  BY <1>2, FileSetTends DEF PtrIs

LEMMA PtrPos ==
  ASSUME NEW d, NEW f, f.ptr % Units = 0, f.clust \in Reach(d, f.sclust) PROVE FilePos(d, f)
  BY DEF FilePos

LEMMA StartPos ==
  ASSUME NEW d, NEW f, f.ptr = 0 PROVE FilePos(d, f) /\ f.ptr % Units = 0
  BY WithinZero DEF FilePos

LEMMA HereIs ==
  ASSUME NEW p \in Int
  PROVE  ((p - 1) \div Units) * Units \in Int /\ (((p - 1) \div Units) * Units) % Units = 0
<1>1. (p - 1) \div Units \in Int
  BY FatFsAssumption
<1> DEFINE q == (p - 1) \div Units
<1> HIDE DEF q
<1>2. q \in Int
  BY <1>1 DEF q
<1>3. q * Units \in Int /\ (q * Units) % Units = 0
  BY <1>2, WholeParts, FatFsAssumption
<1> QED
  BY <1>3 DEF q

LEMMA SeekStartSeeks ==
  ASSUME NEW v, NEW x, NEW X, NEW n \in Names, Others(v, n), Works(v, x, X, n), x.res = "ok",
         FilePos(View(x), x.fp[n]), IsIo(x.in), NEW ofs \in Int
  PROVE  Seeking(v, SeekStart(x, n, ofs), X, n)
<1> DEFINE f == x.fp[n]
           here == ((f.ptr - 1) \div Units) * Units
           y == [x EXCEPT !.fp[n].ptr = here, !.left = ofs - here, !.val = f.clust]
           w == [x EXCEPT !.fp[n].ptr = 0, !.left = ofs]
           g == IF f.sclust = 0 THEN CreateChain(w, 0) ELSE Answer(w, f.sclust)
           z == [g EXCEPT !.fp[n].sclust = g.val, !.fp[n].clust = g.val]
           A == SeekStart(x, n, ofs)
<1>1. f.ptr \in Int /\ FileBase(View(x), n, f, X)
  BY ObjectHas
<1>2. here \in Int /\ here % Units = 0
  BY <1>1, HereIs
<1>3. A = IF f.ptr > 0 /\ ofs - 1 >= here THEN y ELSE IF g.res = "ok" THEN z ELSE g
  <2>1. w.fp[n].sclust = f.sclust
    BY ObjectHas DEF FileFields, Fields
  <2> QED
    BY <2>1 DEF SeekStart, Then
<1>4. CASE f.ptr > 0 /\ ofs - 1 >= here
  <2> HIDE DEF here
  <2>1. PtrIs(x, y, n, here) /\ y.left = ofs - here /\ y.val = f.clust
    BY ObjectHas DEF PtrIs, FileSet, Works, Base, Shape, Fields, FileFields
  <2>2. Works(v, y, X, n) /\ View(y) = View(x)
    BY <1>2, <2>1, PtrSet
  <2>3. f.clust \in Reach(View(x), f.sclust)
    BY <1>1, <1>4 DEF FilePos
  <2> HIDE DEF y
  <2>4. /\ y.fp[n].ptr % Units = 0 /\ y.fp[n].clust \in Reach(View(y), y.fp[n].sclust)
        /\ y.val = y.fp[n].clust
    BY <1>2, <2>1, <2>2, <2>3 DEF PtrIs
  <2>5. FilePos(View(y), y.fp[n])
    BY <2>4, PtrPos
  <2>6. y.left \in Int /\ IsIo(y.in)
    BY <1>2, <2>1 DEF PtrIs
  <2> QED
    BY <1>3, <1>4, <2>2, <2>4, <2>5, <2>6 DEF Seeking
<1>5. CASE ~(f.ptr > 0 /\ ofs - 1 >= here)
  <2>1. PtrIs(x, w, n, 0) /\ w.left = ofs
    BY ObjectHas DEF PtrIs, FileSet, Works, Base, Shape, Fields, FileFields
  <2>2. Works(v, w, X, n) /\ View(w) = View(x)
    BY <2>1, PtrSet
  <2>3. /\ w.fp[n].ptr = 0 /\ w.fp[n].sclust = f.sclust /\ w.left \in Int /\ IsIo(w.in) /\ w.res = "ok"
    BY <2>1 DEF PtrIs
  <2> HIDE DEF w
  <2>4. /\ Works(v, g, X, n) /\ g.fp = w.fp /\ g.left = w.left /\ g.in = w.in
        /\ g.res = "ok" /\ g.val # 0 => Usable(v, g, X, n, g.val)
        /\ g.res = "ok" => f.sclust \in {0, g.val}
    <3>1. CASE f.sclust = 0
      <4>1. g = CreateChain(w, 0)
        BY <3>1
      <4> QED
        BY <2>2, <2>3, <3>1, <4>1, BegunUsable
    <3>2. CASE f.sclust # 0
      <4>1. Moves(w, g, X) /\ g.val = f.sclust
        BY <2>2, <3>2, BaseAnswer DEF Works
      <4>2. Works(v, g, X, n) /\ g.fp = w.fp /\ g.left = w.left /\ g.in = w.in /\ View(g) = View(w)
        BY <2>2, <4>1, MovesWorks
      <4>3. g.val \in Clusters /\ g.val \in Reach(View(g), g.fp[n].sclust)
        BY <1>1, <2>2, <2>3, <3>2, <4>1, <4>2, ReachHas DEF FileBase, Leads
      <4> QED
        BY <2>3, <3>2, <4>1, <4>2, <4>3 DEF Usable
    <3> QED
      BY <3>1, <3>2
  <2> HIDE DEF g
  <2>5. CASE g.res # "ok"
    BY <1>3, <1>5, <2>3, <2>4, <2>5 DEF Seeking
  <2>6. CASE g.res = "ok"
    <3>1. /\ FileSet(g, z, n) /\ z.fp[n].dirty = g.fp[n].dirty
          /\ z.fp[n].ptr = 0 /\ z.fp[n].clust = g.val /\ z.fp[n].sclust = g.val
          /\ z.fp[n].dsect = g.fp[n].dsect /\ z.fp[n].size = g.fp[n].size
          /\ z.fp[n].written = g.fp[n].written
          /\ z.fp[n].err = g.fp[n].err /\ z.fp[n].slot = g.fp[n].slot
          /\ z.in = g.in /\ z.res = "ok" /\ z.left = g.left /\ z.val = g.val
      BY <2>3, <2>4, <2>6, ObjectHas DEF FileSet, Works, Base, Shape, Fields, FileFields
    <3>2. FilePos(View(z), z.fp[n]) /\ z.fp[n].ptr % Units = 0
      BY <3>1, StartPos
    <3>3. CASE g.val = 0
      <4> HIDE DEF z
      <4>1. g.fp[n].sclust = 0 /\ FileBase(View(g), n, g.fp[n], X)
        BY <2>3, <2>4, <2>6, <3>3, ObjectHas
      <4>2. z.fp[n].sclust = g.fp[n].sclust
        BY <3>1, <3>3, <4>1
      <4>3. FileBase(View(g), n, z.fp[n], X)
        BY <3>1, <4>1, <4>2 DEF FileBase
      <4>4. Works(v, z, X, n)
        BY <2>4, <3>1, <4>2, <4>3, FileSetTends
      <4>5. Seeking(v, z, X, n)
        BY <2>3, <2>4, <3>1, <3>2, <3>3, <4>4 DEF Seeking
      <4> QED
        BY <1>3, <1>5, <2>6, <4>5
    <3>4. CASE g.val # 0
      <4> DEFINE u == UsableSet(g, n, g.val)
      <4>1. z = u
        <5>1. (IF g.fp[n].sclust = 0 THEN g.val ELSE g.fp[n].sclust) = g.val
          BY <2>3, <2>4, <2>6
        <5> DEFINE s == IF g.fp[n].sclust = 0 THEN g.val ELSE g.fp[n].sclust
                   o == [[g.fp[n] EXCEPT !.sclust = g.val] EXCEPT !.clust = g.val]
                   q == [[g.fp[n] EXCEPT !.clust = g.val] EXCEPT !.sclust = s]
        <5>2. DOMAIN g.fp[n] = FileFields /\ DOMAIN g = Fields /\ DOMAIN g.fp = Names
          BY <2>4, ObjectHas
        <5>3. o = q
          <6>1. o = [k \in FileFields |-> IF k = "clust" THEN g.val ELSE IF k = "sclust" THEN g.val
                                          ELSE g.fp[n][k]]
            BY <5>2 DEF FileFields
          <6>2. q = [k \in FileFields |-> IF k = "clust" THEN g.val ELSE IF k = "sclust" THEN s
                                          ELSE g.fp[n][k]]
            BY <5>2 DEF FileFields
          <6> QED
            BY <5>1, <6>1, <6>2
        <5>4. z = [g EXCEPT !.fp = [@ EXCEPT ![n] = o]]
          BY <5>2 DEF Fields
        <5>5. u = [g EXCEPT !.fp = [@ EXCEPT ![n] = q]]
          BY <5>2 DEF UsableSet, Fields
        <5> QED
          BY <5>3, <5>4, <5>5
      <4>4. Usable(v, g, X, n, g.val) /\ Works(v, g, X, n)
        BY <2>4, <2>6, <3>4
      <4>2. Works(v, u, X, n) /\ u.fp[n].clust = g.val /\ g.val \in Reach(View(u), u.fp[n].sclust)
        BY <4>4, UsableGoes
      <4> HIDE DEF z, u
      <4>3. Seeking(v, z, X, n)
        BY <2>3, <2>4, <3>1, <3>2, <4>1, <4>2 DEF Seeking
      <4> QED
        BY <1>3, <1>5, <2>6, <4>3
    <3> QED
      BY <3>3, <3>4
  <2> QED
    BY <2>5, <2>6
<1> QED
  BY <1>4, <1>5

LEMMA SeekTurnSeeks ==
  ASSUME NEW v, NEW x, NEW X, NEW n \in Names, Seeking(v, x, X, n)
  PROVE  Seeking(v, SeekTurn(x, n), X, n)
<1> DEFINE f == x.fp[n]
           g == IF f.wr THEN CreateChain(x, x.val) ELSE GetFat(x, x.val)
           y == [g EXCEPT !.left = Units, !.val = x.val]
           z == [g EXCEPT !.fp[n].clust = g.val, !.fp[n].ptr = @ + Units, !.left = @ - Units]
           A == SeekTurn(x, n)
<1>1. A = IF x.res # "ok" \/ x.val = 0 \/ x.left <= Units THEN x
          ELSE IF g.res # "ok" THEN g
          ELSE IF g.val = 0 /\ f.wr THEN y
          ELSE IF g.val \notin Clusters THEN Fail(g, "int") ELSE z
  BY DEF SeekTurn, Then
<1>2. CASE x.res # "ok" \/ x.val = 0 \/ x.left <= Units
  BY <1>1, <1>2
<1>3. CASE ~(x.res # "ok" \/ x.val = 0 \/ x.left <= Units)
  <2>1. /\ Works(v, x, X, n) /\ x.left \in Int /\ IsIo(x.in) /\ x.res = "ok" /\ x.val = f.clust
        /\ f.clust \in Reach(View(x), f.sclust) /\ f.ptr % Units = 0 /\ FilePos(View(x), f)
    BY <1>3 DEF Seeking
  <2>2. f.clust \in Clusters /\ f.sclust # 0 /\ f.ptr \in Int /\ FileBase(View(x), n, f, X)
    BY <2>1, ChainOutside, ObjectHas
  <2>3. /\ Works(v, g, X, n) /\ g.fp = x.fp /\ g.left = x.left /\ g.in = x.in
        /\ Keeping(View(x), View(g), {})
        /\ g.res = "ok" /\ g.val \in Clusters => g.val \in Reach(View(g), f.sclust)
    <3>1. CASE f.wr
      <4>1. g = CreateChain(x, f.clust)
        BY <2>1, <3>1
      <4>2. /\ Works(v, g, X, n) /\ g.fp = x.fp /\ g.left = x.left /\ g.in = x.in
            /\ Keeping(View(x), View(g), {})
            /\ g.res = "ok" /\ g.val # 0 => Usable(v, g, X, n, g.val)
        BY <2>1, <4>1, NextUsable
      <4> QED
        BY <2>2, <4>2, ClustersDiffer DEF Usable
    <3>2. CASE ~f.wr
      <4>1. Moves(x, g, X) /\ (g.res = "ok" => g.val = FatOf(View(x), f.clust))
        BY <2>1, <2>2, <3>2, GetFatMoves DEF Works
      <4>2. Works(v, g, X, n) /\ g.fp = x.fp /\ g.left = x.left /\ g.in = x.in /\ View(g) = View(x)
        BY <2>1, <4>1, MovesWorks
      <4>3. Follows(View(x), Reach(View(x), f.sclust))
        BY ReachFollows
      <4> QED
        BY <2>1, <4>1, <4>2, <4>3, KeepingSelf DEF Follows
    <3> QED
      BY <3>1, <3>2
  <2> HIDE DEF g
  <2>4. f.clust \in Reach(View(g), f.sclust)
    BY <2>1, <2>2, <2>3 DEF Keeping, FileBase
  <2>5. CASE g.res # "ok"
    BY <1>1, <1>3, <2>1, <2>3, <2>5 DEF Seeking
  <2>6. CASE g.res = "ok" /\ g.val = 0 /\ f.wr
    <3>1. /\ DOMAIN y = Fields /\ y.win = g.win /\ y.disk = g.disk /\ y.io = g.io /\ y.bad = g.bad
          /\ y.fs = g.fs /\ y.fp = g.fp /\ y.find = g.find /\ y.in = g.in
          /\ y.left = Units /\ y.val = x.val
      BY <2>3, ObjectHas DEF Fields
    <3> HIDE DEF y
    <3>2. DOMAIN g.fp = Names /\ DOMAIN g.fp[n] = FileFields /\ g.fp[n].open
      BY <2>3, ObjectHas DEF Works
    <3>3. FileSet(g, y, n)
      BY <3>1, <3>2 DEF FileSet
    <3>4. Works(v, y, X, n) /\ View(y) = View(g)
      BY <2>3, <3>1, <3>3, FileSetTends, ObjectHas
    <3>5. y.fp[n].clust \in Reach(View(y), y.fp[n].sclust) /\ y.fp[n].ptr % Units = 0
      BY <2>1, <2>3, <2>4, <3>1, <3>4
    <3>6. FilePos(View(y), y.fp[n])
      BY <3>5, PtrPos
    <3>7. y.left \in Int /\ IsIo(y.in) /\ y.val = y.fp[n].clust
      BY <2>1, <2>3, <3>1, FatFsAssumption
    <3> QED
      BY <1>1, <1>3, <2>6, <3>4, <3>5, <3>6, <3>7 DEF Seeking
  <2>7. CASE g.res = "ok" /\ ~(g.val = 0 /\ f.wr) /\ g.val \notin Clusters
    <3>1. /\ Works(v, Fail(g, "int"), X, n) /\ Fail(g, "int").left = g.left
          /\ Fail(g, "int").in = g.in /\ Fail(g, "int").res = "int"
      BY <2>3, FailWorks
    <3>2. Seeking(v, Fail(g, "int"), X, n)
      BY <2>1, <2>3, <3>1 DEF Seeking
    <3> QED
      BY <1>1, <1>3, <2>7, <3>2
  <2>8. CASE g.res = "ok" /\ g.val \in Clusters
    <3>1. g.val # 0
      BY <2>8, ClustersDiffer
    <3>2. /\ FileSet(g, z, n) /\ z.fp[n].dirty = f.dirty
          /\ z.fp[n].ptr = f.ptr + Units /\ z.fp[n].clust = g.val /\ z.fp[n].sclust = f.sclust
          /\ z.fp[n].dsect = f.dsect /\ z.fp[n].size = f.size
          /\ z.fp[n].written = f.written
          /\ z.fp[n].err = f.err /\ z.fp[n].slot = f.slot
          /\ z.in = g.in /\ z.res = "ok" /\ z.left = g.left - Units /\ z.val = g.val
      BY <2>3, <2>8, ObjectHas DEF FileSet, Works, Base, Shape, Fields, FileFields
    <3> HIDE DEF z
    <3>3. z.fp[n].ptr \in Int
      BY <2>2, <3>2, FatFsAssumption
    <3>4. z.fp[n].ptr % Units = 0
      BY <2>1, <2>2, <3>2, PartOf
    <3>5. FileBase(View(g), n, g.fp[n], X) /\ g.fp[n] = f
      BY <2>3, ObjectHas
    <3>6. FileBase(View(g), n, z.fp[n], X)
      BY <3>2, <3>3, <3>5 DEF FileBase
    <3>7. Works(v, z, X, n) /\ View(z) = View(g)
      BY <2>3, <3>2, <3>5, <3>6, FileSetTends
    <3>8. z.fp[n].clust \in Reach(View(z), z.fp[n].sclust)
      BY <2>3, <2>8, <3>2, <3>7
    <3>9. FilePos(View(z), z.fp[n])
      BY <3>4, <3>8, PtrPos
    <3>10. z.left \in Int /\ IsIo(z.in)
      BY <2>1, <2>3, <3>2, FatFsAssumption
    <3>11. Seeking(v, z, X, n)
      BY <3>2, <3>4, <3>7, <3>8, <3>9, <3>10 DEF Seeking
    <3> QED
      BY <1>1, <1>3, <2>8, <3>1, <3>11
  <2> QED
    BY <2>5, <2>6, <2>7, <2>8
<1> QED
  BY <1>2, <1>3

LEMMA SeekLandGoes ==
  ASSUME NEW v, NEW x, NEW X, NEW n \in Names, Seeking(v, x, X, n), x.res = "ok"
  PROVE  Going(v, SeekLand(x, n), X, n)
<1> DEFINE w == [x EXCEPT !.fp[n].ptr = @ + x.left]
           u == FlushBuf(w, n)
           y == IF u.res = "ok" THEN FillBuf(u, n, w.val) ELSE u
           q == [y EXCEPT !.fp[n].dsect = w.val]
           A == SeekLand(x, n)
<1>1. A = IF x.val = 0 THEN x
          ELSE IF AtBoundary(w, n) \/ w.fp[n].dsect = w.val THEN w
          ELSE IF y.res = "ok" THEN q ELSE y
  BY DEF SeekLand, Then
<1>2. Works(v, x, X, n) /\ x.left \in Int /\ IsIo(x.in) /\ FilePos(View(x), x.fp[n])
  BY DEF Seeking
<1>3. CASE x.val = 0
  BY <1>1, <1>2, <1>3 DEF Going
<1>4. CASE x.val # 0
  <2>1. x.val = x.fp[n].clust /\ x.fp[n].clust \in Reach(View(x), x.fp[n].sclust)
    BY <1>4 DEF Seeking
  <2>2. x.fp[n].ptr + x.left \in Int
    BY <1>2, ObjectHas
  <2>3. PtrIs(x, w, n, x.fp[n].ptr + x.left) /\ w.val = x.val /\ w.left = x.left
    BY <1>2, ObjectHas DEF PtrIs, FileSet, Works, Base, Shape, Fields, FileFields
  <2>4. Works(v, w, X, n) /\ View(w) = View(x)
    BY <1>2, <2>2, <2>3, PtrSet
  <2> HIDE DEF w
  <2>5. /\ w.fp[n].clust = w.val /\ w.val \in Reach(View(w), w.fp[n].sclust) /\ w.left \in Int
        /\ IsIo(w.in) /\ w.res = "ok"
    BY <1>2, <2>1, <2>3, <2>4 DEF PtrIs
  <2>6. CASE AtBoundary(w, n) \/ w.fp[n].dsect = w.val
    <3>1. FilePos(View(w), w.fp[n])
      BY <2>5, <2>6 DEF FilePos, AtBoundary, Within
    <3> QED
      BY <1>1, <1>4, <2>4, <2>5, <2>6, <3>1 DEF Going
  <2>7. CASE ~(AtBoundary(w, n) \/ w.fp[n].dsect = w.val)
    <3>1. Works(v, u, X, n) /\ Tended(w, u, n) /\ (u.res = "ok" => ~u.fp[n].dirty)
      BY <2>4, <2>5, FlushBufTends
    <3>2. u.res = "ok" => Works(v, FillBuf(u, n, w.val), X, n) /\ Tended(u, FillBuf(u, n, w.val), n)
      BY <3>1, FillBufTends
    <3> HIDE DEF u
    <3>3. /\ Works(v, y, X, n) /\ SameFat(View(w), View(y)) /\ y.fp[n].clust = w.val
          /\ y.fp[n].sclust = w.fp[n].sclust /\ y.left = w.left /\ y.in = w.in
          /\ y.res = "ok" => ~y.fp[n].dirty
      <4>1. CASE u.res = "ok"
        BY <2>5, <3>1, <3>2, <4>1 DEF Tended, SameFat
      <4>2. CASE u.res # "ok"
        BY <2>5, <3>1, <4>2 DEF Tended
      <4> QED
        BY <4>1, <4>2
    <3> HIDE DEF y
    <3>4. CASE y.res # "ok"
      BY <1>1, <1>4, <2>5, <2>7, <3>3, <3>4 DEF Going
    <3>5. CASE y.res = "ok"
      <4>1. /\ Works(v, q, X, n) /\ View(q) = View(y) /\ q.left = y.left /\ q.in = y.in
            /\ q.fp[n].clust = w.val /\ q.fp[n].sclust = w.fp[n].sclust /\ q.fp[n].dsect = w.val
        BY <3>3, <3>5, DsectSet
      <4> HIDE DEF q
      <4>2. Reach(View(y), w.fp[n].sclust) = Reach(View(w), w.fp[n].sclust)
        BY <3>3, ReachSame
      <4>3. FilePos(View(q), q.fp[n])
        BY <2>5, <4>1, <4>2 DEF FilePos
      <4>4. Going(v, q, X, n)
        BY <2>5, <3>3, <4>1, <4>3 DEF Going
      <4> QED
        BY <1>1, <1>4, <2>7, <3>5, <4>4
    <3> QED
      BY <3>4, <3>5
  <2> QED
    BY <2>6, <2>7
<1> QED
  BY <1>3, <1>4

LEMMA GrownGoes ==
  ASSUME NEW v, NEW x, NEW X, NEW n \in Names, Going(v, x, X, n)
  PROVE  Going(v, Grown(x, n), X, n)
<1>1. x.fp[n].ptr \in Int
  BY ObjectHas DEF Going
<1>2. Grown(x, n) = IF x.fp[n].ptr <= x.fp[n].size THEN x ELSE Sized(x, n, x.fp[n].ptr)
  BY DEF Grown, Sized
<1> QED
  BY <1>1, <1>2, SizeSet

LEMMA FLseekTends ==
  ASSUME NEW v, NEW x, NEW X, NEW n \in Names, Others(v, n), Tends(v, x, X, n), x.res = "ok", IsIo(x.in),
         x.left \in Int, NEW to \in Nat
  PROVE  LET w == FLseek(x, n, to) IN Tends(v, w, X, n) /\ w.left \in Int /\ IsIo(w.in)
<1> DEFINE f == x.fp[n]
           ofs == IF to > f.size /\ ~f.wr THEN f.size ELSE to
           o == [x EXCEPT !.fp[n].ptr = 0]
           a == SeekStart(x, n, ofs)
           P(h) == h = [i \in 0..to |-> IF i = 0 THEN a ELSE SeekTurn(h[i - 1], n)]
           h == CHOOSE y : P(y)
           y == h[to]
           z == IF y.res = "ok" THEN SeekLand(y, n) ELSE y
           g == IF z.res = "ok" THEN Grown(z, n) ELSE z
           w == FLseek(x, n, to)
<1>1. w = IF f.err # "ok" THEN Fail(x, f.err) ELSE IF ofs = 0 THEN o ELSE Abort(g, n)
  BY DEF FLseek, Checked, Turns, Then
<1>2. CASE f.err # "ok"
  <2>1. Tends(v, Fail(x, f.err), X, n)
    BY CheckedFails
  <2>2. Fail(x, f.err).left = x.left /\ Fail(x, f.err).in = x.in
    BY FailWorks DEF Tends
  <2> QED
    BY <1>1, <1>2, <2>1, <2>2
<1>3. CASE f.err = "ok" /\ ofs = 0
  <2>1. Works(v, x, X, n)
    BY DEF Tends
  <2>2. PtrIs(x, o, n, 0) /\ o.left = x.left
    BY <2>1, ObjectHas DEF PtrIs, FileSet, Works, Base, Shape, Fields, FileFields
  <2> HIDE DEF o
  <2>3. Works(v, o, X, n)
    BY <2>1, <2>2, PtrSet
  <2>4. FilePos(View(o), o.fp[n])
    BY <2>2, StartPos DEF PtrIs
  <2>5. Tends(v, o, X, n) /\ o.left \in Int /\ IsIo(o.in)
    BY <2>2, <2>3, <2>4 DEF Tends, PtrIs
  <2> QED
    BY <1>1, <1>3, <2>5
<1>4. CASE f.err = "ok" /\ ofs # 0
  <2>1. Works(v, x, X, n) /\ FilePos(View(x), f)
    BY <1>4 DEF Tends
  <2>2. ofs \in Int
    BY <2>1, ObjectHas
  <2>3. w = Abort(g, n)
    BY <1>1, <1>4
  <2> HIDE DEF ofs
  <2>4. Seeking(v, a, X, n)
    BY <2>1, <2>2, SeekStartSeeks
  <2> HIDE DEF a
  <2>5. Seeking(v, y, X, n)
    <3> SUFFICES Seeking(v, h[to], X, n)
      OBVIOUS
    <3>1. Seeking(v, a, X, n)
      BY <2>4
    <3>L1. PICK run : Runs("seek", n, a, to, run)
      BY RunExists, to \in Nat
    <3>L2. P(run)
      BY <3>L1 DEF Runs, Turn
    <3> HIDE DEF P
    <3>L3. P(h)
      BY <3>L2, Zenon
    <3> HIDE DEF h
    <3>L4. \A i \in 0..to : h[i] = IF i = 0 THEN a ELSE SeekTurn(h[i - 1], n)
      BY <3>L3 DEF P
    <3> DEFINE T == {i \in 0..to : Seeking(v, h[i], X, n)}
    <3>L5. 0 \in T
      <4>1. h[0] = a /\ 0 \in 0..to
        BY <3>L4, to \in Nat
      <4>2. Seeking(v, h[0], X, n)
        BY <3>1, <4>1
      <4> QED
        BY <4>1, <4>2
    <3>L6. ASSUME NEW i \in 0..to - 1, i \in T PROVE i + 1 \in T
      <4>1. i + 1 \in 0..to /\ h[i + 1] = SeekTurn(h[i], n)
        <5>1. i + 1 \in 0..to /\ i + 1 # 0 /\ (i + 1) - 1 = i
          BY to \in Nat
        <5> QED
          BY <3>L4, <5>1
      <4>2. Seeking(v, h[i], X, n)
        BY <3>L6
      <4>3. Seeking(v, SeekTurn(h[i], n), X, n)
        BY <4>2, SeekTurnSeeks
      <4> QED
        BY <4>1, <4>3
    <3> HIDE DEF T
    <3>L7. Seeking(v, h[to], X, n)
      <4>1. to \in T
        BY <3>L5, <3>L6, Upwards, to \in Nat
      <4> QED
        BY <4>1 DEF T
    <3> QED
      BY <3>L7
  <2> HIDE DEF h
  <2> HIDE DEF y
  <2>6. Going(v, z, X, n)
    <3>1. CASE y.res = "ok"
      BY <2>5, <3>1, SeekLandGoes
    <3>2. CASE y.res # "ok"
      BY <2>5, <3>2 DEF Seeking, Going
    <3> QED
      BY <3>1, <3>2
  <2> HIDE DEF z
  <2>7. Going(v, g, X, n)
    BY <2>6, GrownGoes
  <2> HIDE DEF g
  <2>8. Tends(v, Abort(g, n), X, n)
    BY <2>7, AbortTends DEF Going
  <2>9. Abort(g, n).left = g.left /\ Abort(g, n).in = g.in
    BY <2>7, ObjectHas DEF Abort, Fields, Going
  <2> QED
    BY <2>3, <2>7, <2>8, <2>9 DEF Going
<1> QED
  BY <1>2, <1>3, <1>4

LEMMA BaseLess ==
  ASSUME NEW v, NEW X, NEW Y, Base(v, X), X \subseteq Y PROVE Base(v, Y)
  BY LessCounts DEF Base, Cards

LEMMA BaseRests == ASSUME NEW v, NEW X, Base(v, X) PROVE Rests(v, X)
  BY DEF Base, Cards, Rests

LEMMA FileLess ==
  ASSUME NEW d, NEW n, NEW f, NEW X, NEW Y, FileBase(d, n, f, X), X \subseteq Y PROVE FileBase(d, n, f, Y)
  BY DEF FileBase, Claims

LEMMA FileBaseOn ==
  ASSUME NEW d, NEW e, NEW n, NEW f, NEW X, FileBase(d, n, f, X), SameEntries(d, e), Keeping(d, e, {}),
         Tab(e) = Tab(d)
  PROVE  FileBase(e, n, f, X)
<1>1. \E t \in Clusters : /\ f.slot = ClustSect(t) /\ UsedIn(e, t) /\ EntryIn(e, t).name = n
                          /\ n \notin X => EntryIn(e, t).clust \in {0, f.sclust}
  <2>1. PICK t \in Clusters : /\ f.slot = ClustSect(t) /\ UsedIn(d, t) /\ EntryIn(d, t).name = n
                              /\ n \notin X => EntryIn(d, t).clust \in {0, f.sclust}
    BY DEF FileBase
  <2>2. UsedIn(e, t) /\ EntryIn(e, t) = EntryIn(d, t)
    BY <2>1 DEF SameEntries
  <2> QED
    BY <2>1, <2>2
<1>2. f.sclust # 0 => Leads(e, f.sclust) /\ f.sclust # Root
  BY DEF FileBase, Keeping
<1>3. ASSUME NEW t \in Clusters, Claims(e, t, X), EntryIn(e, t).clust = f.sclust PROVE EntryIn(e, t).name = n
  <2>1. UsedIn(d, t) /\ EntryIn(e, t) = EntryIn(d, t)
    BY <1>3 DEF SameEntries, Claims
  <2>2. Claims(d, t, X)
    BY <1>3, <2>1 DEF Claims
  <2> QED
    BY <1>3, <2>1, <2>2 DEF FileBase
<1>4. (f.dirty => f.dsect \in Clusters \ Tab(e)) /\ f.ptr \in Int /\ f.size \in Int
  BY DEF FileBase
<1> QED
  BY <1>1, <1>2, <1>3, <1>4 DEF FileBase

\* A call on the open file of n, from the volume v on, has ended with w; the names in Z do not
\* count now.
Done(v, w, Z, n) ==
  /\ Rests(w, Z) /\ w.find = v.find /\ w.fs.mounted = v.fs.mounted
  /\ \A m \in Names : m # n => w.fp[m] = v.fp[m]
  /\ Tab(View(w)) = Tab(View(v)) /\ Keeping(View(v), View(w), {v.fp[n].sclust})
  /\ \A t \in Clusters :
       /\ UsedIn(View(w), t) <=> UsedIn(View(v), t)
       /\ UsedIn(View(v), t) => EntryIn(View(w), t).name = EntryIn(View(v), t).name
       /\ UsedIn(View(v), t) /\ EntryIn(View(v), t).name # n =>
            EntryIn(View(w), t).clust = EntryIn(View(v), t).clust
  /\ w.fp[n].open => FileOK(View(w), n, w.fp[n], Z) /\ Alone(v, n, w.fp[n].sclust)
  /\ \A t \in Clusters : Claims(View(w), t, Z) /\ EntryIn(View(w), t).name = n =>
                           Alone(v, n, EntryIn(View(w), t).clust)

\* The clusters of the entry of n are not in another file.
LEMMA ClaimsAlone ==
  ASSUME NEW v, NEW X, Files(v, X), NEW n, NEW t \in Clusters, Claims(View(v), t, X),
         EntryIn(View(v), t).name = n
  PROVE  Alone(v, n, EntryIn(View(v), t).clust)
<1>1. ASSUME NEW m \in Names, m # n, v.fp[m].open, v.fp[m].sclust # 0
      PROVE  EntryIn(View(v), t).clust # v.fp[m].sclust
  <2>1. FileBase(View(v), m, v.fp[m], X)
    BY <1>1 DEF Files, FileOK
  <2> QED
    BY <1>1, <2>1 DEF FileBase
<1> QED
  BY <1>1 DEF Alone

\* A call has come to u, where the chain of the file may be cut, and goes on to its end.
Reworked(v, u, Z, n) ==
  /\ Base(u, Z) /\ u.find = v.find /\ u.fs.mounted = v.fs.mounted /\ u.fp[n].open
  /\ \A m \in Names : m # n => u.fp[m] = v.fp[m]
  /\ Tab(View(u)) = Tab(View(v)) /\ SameEntries(View(v), View(u))
  /\ Keeping(View(v), View(u), {v.fp[n].sclust})
  /\ FileBase(View(u), n, u.fp[n], Z) /\ Alone(v, n, u.fp[n].sclust)

LEMMA SelfWorks ==
  ASSUME NEW v, NEW u, NEW Z, NEW n, Reworked(v, u, Z, n) PROVE Works(u, u, Z, n)
<1>1. Alone(u, n, u.fp[n].sclust)
  BY DEF Reworked, Alone
<1> QED
  BY <1>1, SameEntriesSame, KeepingSelf DEF Reworked, Works

LEMMA FilesSelf ==
  ASSUME NEW v, NEW X, NEW n \in Names, Files(v, X), Base(v, X), v.fp[n].open
  PROVE  Reworked(v, v, X, n) /\ Others(v, n)
<1>1. ASSUME NEW m \in Names, v.fp[m].open PROVE FileBase(View(v), m, v.fp[m], X)
  BY <1>1 DEF Files, FileOK
<1>2. Alone(v, n, v.fp[n].sclust)
  BY DEF Files, Alone
<1>3. Others(v, n)
  BY <1>1 DEF Others, FileBase
<1> QED
  BY <1>1, <1>2, <1>3, SameEntriesSame, KeepingSelf DEF Reworked

LEMMA TendsDone ==
  ASSUME NEW v, NEW u, NEW w, NEW X, NEW Z, NEW n \in Names, X \subseteq Z, Files(v, X), Reworked(v, u, Z, n),
         Tends(u, w, Z, n)
  PROVE  Done(v, w, Z, n)
<1> USE DEF Reworked
<1>1. Works(u, w, Z, n) /\ (w.fp[n].err = "ok" => FilePos(View(w), w.fp[n]))
  BY DEF Tends
<1>2. /\ Rests(w, Z) /\ w.find = v.find /\ w.fs.mounted = v.fs.mounted
      /\ Tab(View(w)) = Tab(View(v)) /\ SameEntries(View(u), View(w)) /\ Keeping(View(u), View(w), {})
      /\ FileBase(View(w), n, w.fp[n], Z) /\ Alone(u, n, w.fp[n].sclust)
  BY <1>1, BaseRests DEF Works
<1>3. \A m \in Names : m # n => w.fp[m] = v.fp[m]
  BY <1>1 DEF Works
<1>4. Keeping(View(v), View(w), {v.fp[n].sclust})
  <2>1. Keeping(View(v), View(u), {v.fp[n].sclust})
    OBVIOUS
  <2>2. \A h : Leads(View(v), h) /\ h \notin {v.fp[n].sclust} => h \notin {}
    OBVIOUS
  <2>3. {v.fp[n].sclust} \subseteq {v.fp[n].sclust}
    OBVIOUS
  <2> QED
    BY <1>2, <2>1, <2>2, <2>3, KeepingOn
<1>5. SameEntries(View(v), View(w))
  BY <1>2, SameEntriesOn
<1>6. \A t \in Clusters :
       /\ UsedIn(View(w), t) <=> UsedIn(View(v), t)
       /\ UsedIn(View(v), t) => EntryIn(View(w), t).name = EntryIn(View(v), t).name
       /\ UsedIn(View(v), t) /\ EntryIn(View(v), t).name # n =>
            EntryIn(View(w), t).clust = EntryIn(View(v), t).clust
  BY <1>5 DEF SameEntries
<1>7. Alone(v, n, w.fp[n].sclust)
  BY <1>2 DEF Alone
<1>8. FileOK(View(w), n, w.fp[n], Z)
  BY <1>1, <1>2 DEF FileOK
<1>9. ASSUME NEW t \in Clusters, Claims(View(w), t, Z), EntryIn(View(w), t).name = n
      PROVE  Alone(v, n, EntryIn(View(w), t).clust)
  <2>1. UsedIn(View(v), t) /\ EntryIn(View(w), t) = EntryIn(View(v), t)
    BY <1>5, <1>9 DEF SameEntries, Claims
  <2>2. Claims(View(v), t, X)
    BY <1>9, <2>1 DEF Claims
  <2> QED
    BY <1>9, <2>1, <2>2, ClaimsAlone
<1> QED
  BY <1>2, <1>3, <1>4, <1>6, <1>7, <1>8, <1>9 DEF Done

\* Every open file is still what it was, the one of n what the call made of it.
LEMMA FilesDone ==
  ASSUME NEW v, NEW w, NEW X, NEW Z, NEW n \in Names, Files(v, X), v.fp[n].open, Done(v, w, Z, n),
         X \subseteq Z \cup {n}
  PROVE  Files(w, Z)
<1>1. ASSUME NEW m \in Names, m # n, w.fp[m].open PROVE FileOK(View(w), m, w.fp[m], Z)
  <2> DEFINE f == v.fp[m]
             d == View(v)
             e == View(w)
  <2>1. w.fp[m] = f /\ f.open
    BY <1>1 DEF Done
  <2>2. FileBase(d, m, f, X) /\ (f.err = "ok" => FilePos(d, f))
    BY <2>1 DEF Files, FileOK
  <2>3. f.sclust # 0 => f.sclust # v.fp[n].sclust
    BY <1>1, <2>1 DEF Files
  <2>4. f.sclust # 0 => Leads(e, f.sclust) /\ f.sclust # Root /\ Reach(d, f.sclust) \subseteq Reach(e, f.sclust)
    <3>1. ASSUME f.sclust # 0 PROVE Leads(d, f.sclust) /\ f.sclust # Root
      BY <2>2, <3>1 DEF FileBase
    <3> QED
      BY <2>3, <3>1 DEF Done, Keeping
  <2>5. \E t \in Clusters : /\ f.slot = ClustSect(t) /\ UsedIn(e, t) /\ EntryIn(e, t).name = m
                            /\ m \notin Z => EntryIn(e, t).clust \in {0, f.sclust}
    <3>1. PICK t \in Clusters : /\ f.slot = ClustSect(t) /\ UsedIn(d, t) /\ EntryIn(d, t).name = m
                                /\ m \notin X => EntryIn(d, t).clust \in {0, f.sclust}
      BY <2>2 DEF FileBase
    <3>2. /\ UsedIn(e, t) /\ EntryIn(e, t).name = m
          /\ EntryIn(e, t).clust = EntryIn(d, t).clust
      BY <1>1, <3>1 DEF Done
    <3>3. m \notin Z => m \notin X
      BY <1>1
    <3> QED
      BY <3>1, <3>2, <3>3
  <2>6. ASSUME NEW t \in Clusters, Claims(e, t, Z), EntryIn(e, t).clust = f.sclust
        PROVE  EntryIn(e, t).name = m
    <3>1. f.sclust # 0
      BY <2>6 DEF Claims
    <3>2. EntryIn(e, t).name # n
      <4> SUFFICES ASSUME EntryIn(e, t).name = n PROVE FALSE
        OBVIOUS
      <4>1. Alone(v, n, EntryIn(e, t).clust)
        BY <2>6 DEF Done
      <4> QED
        BY <1>1, <2>1, <2>6, <3>1, <4>1 DEF Alone
    <3>3. UsedIn(e, t)
      BY <2>6 DEF Claims
    <3>4. UsedIn(d, t) /\ EntryIn(e, t).name = EntryIn(d, t).name
      BY <3>3 DEF Done
    <3>5. EntryIn(e, t).clust = EntryIn(d, t).clust
      BY <3>2, <3>4 DEF Done
    <3>6. Claims(d, t, X)
      BY <2>6, <3>2, <3>4, <3>5 DEF Claims
    <3> QED
      BY <2>2, <2>6, <3>4, <3>5, <3>6 DEF FileBase
  <2>7. (f.dirty => f.dsect \in Clusters \ Tab(e)) /\ f.ptr \in Int /\ f.size \in Int
    BY <2>2 DEF FileBase, Done
  <2>8. FileBase(e, m, f, Z)
    BY <2>4, <2>5, <2>6, <2>7 DEF FileBase
  <2>9. f.err = "ok" => FilePos(e, f)
    <3>1. ASSUME FilePos(d, f), f.ptr # 0 PROVE f.clust \in Reach(e, f.sclust)
      <4>1. f.clust \in Reach(d, f.sclust)
        BY <3>1 DEF FilePos
      <4>2. f.sclust # 0
        BY <4>1, ReachNone, ClustersDiffer
      <4> QED
        BY <2>4, <4>1, <4>2
    <3> QED
      BY <2>2, <3>1 DEF FilePos
  <2> QED
    BY <2>1, <2>8, <2>9 DEF FileOK
<1>2. w.fp[n].open => FileOK(View(w), n, w.fp[n], Z)
  BY DEF Done
<1>3. ASSUME NEW m \in Names, NEW k \in Names, w.fp[k].open, w.fp[m].open,
             w.fp[k].sclust = w.fp[m].sclust, w.fp[m].sclust # 0
      PROVE  m = k
  <2>1. \A j \in Names : j # n => w.fp[j] = v.fp[j]
    BY DEF Done
  <2>2. CASE m # n /\ k # n
    BY <1>3, <2>1, <2>2 DEF Files
  <2>3. CASE m = n /\ k # n
    <3>1. Alone(v, n, w.fp[n].sclust)
      BY <1>3, <2>3 DEF Done
    <3> QED
      BY <1>3, <2>1, <2>3, <3>1 DEF Alone
  <2>4. CASE m # n /\ k = n
    <3>1. Alone(v, n, w.fp[n].sclust)
      BY <1>3, <2>4 DEF Done
    <3> QED
      BY <1>3, <2>1, <2>4, <3>1 DEF Alone
  <2> QED
    BY <2>2, <2>3, <2>4
<1>4. ASSUME NEW m \in Names, w.fp[m].open PROVE FileOK(View(w), m, w.fp[m], Z)
  BY <1>1, <1>2, <1>4
<1>5. \A m \in Names : w.fp[m].open => FileOK(View(w), m, w.fp[m], Z)
  BY <1>4
<1>6. \A m, k \in Names :
        w.fp[k].open /\ w.fp[m].open /\ w.fp[k].sclust = w.fp[m].sclust /\ w.fp[m].sclust # 0 => m = k
  BY <1>3
<1> QED
  BY <1>5, <1>6 DEF Files

LEMMA FindingDone ==
  ASSUME NEW v, NEW w, NEW Z, NEW n, Finding(v), Done(v, w, Z, n), NEW z, View(z) = View(w),
         z.find.open => w.find.open, z.find.at = w.find.at,
         z.find.stay \ z.find.seen \subseteq w.find.stay \ w.find.seen
  PROVE  Finding(z)
<1> SUFFICES ASSUME z.find.open PROVE Ahead(View(z), z.find.at, z.find.stay \ z.find.seen)
  BY DEF Finding
<1> DEFINE S == v.find.stay \ v.find.seen
           T == z.find.stay \ z.find.seen
<1>1. Ahead(View(v), v.find.at, S) /\ w.find = v.find
  BY DEF Finding, Done
<1>2. T \subseteq S /\ z.find.at = v.find.at
  BY <1>1
<1> HIDE DEF S, T
<1>3. Tab(View(v)) \subseteq Tab(View(w)) /\ \A t \in Tab(View(v)) : Reach(View(v), t) \subseteq Reach(View(w), t)
  BY DEF Done, Keeping
<1>4. \A t \in Clusters : UsedIn(View(w), t) /\ EntryIn(View(w), t).name \in T =>
                            UsedIn(View(v), t) /\ EntryIn(View(v), t).name = EntryIn(View(w), t).name
  BY DEF Done
<1>5. Ahead(View(w), v.find.at, T)
  BY <1>1, <1>2, <1>3, <1>4, AheadStays
<1> QED
  BY <1>2, <1>5 DEF T

LEMMA FileSetBase ==
  ASSUME NEW x, NEW X, Base(x, X), NEW n \in Names, NEW y, FileSet(x, y, n)
  PROVE  Base(y, X) /\ View(y) = View(x)
<1>1. IsObject(y.fp[n])
  BY DEF FileSet, IsObject, FileFields
<1>2. \A m \in Names : IsObject(y.fp[m])
  BY <1>1 DEF FileSet, Base, Shape
<1>3. Shape(y)
  BY <1>2 DEF FileSet, Base, Shape
<1> QED
  BY <1>3, BaseSame DEF FileSet

LEMMA WorksReworked ==
  ASSUME NEW v, NEW u, NEW X, NEW n, Works(v, u, X, n) PROVE Reworked(v, u, X, n)
<1>1. Keeping(View(v), View(u), {v.fp[n].sclust})
  BY KeepingLess DEF Works
<1> QED
  BY <1>1 DEF Works, Reworked

LEMMA TendsLess ==
  ASSUME NEW v, NEW w, NEW X, NEW Z, NEW n, Tends(v, w, X, n), X \subseteq Z PROVE Tends(v, w, Z, n)
<1>1. Base(w, Z) /\ FileBase(View(w), n, w.fp[n], Z)
  BY BaseLess, FileLess DEF Tends, Works
<1> QED
  BY <1>1 DEF Tends, Works

LEMMA ReworkedLess ==
  ASSUME NEW v, NEW u, NEW X, NEW Z, NEW n, Reworked(v, u, X, n), X \subseteq Z PROVE Reworked(v, u, Z, n)
<1>1. Base(u, Z) /\ FileBase(View(u), n, u.fp[n], Z)
  BY BaseLess, FileLess DEF Reworked
<1> QED
  BY <1>1 DEF Reworked

LEMMA FlushRes ==
  ASSUME NEW x, Shape(x), x.res = "ok", NEW n PROVE FlushBuf(x, n).res \in {"ok", "disk"}
<1> DEFINE u == DiskWrite(x, ClustSect(x.fp[n].dsect), DataOf(x.fp[n].buf))
           z == [u EXCEPT !.fp[n].dirty = FALSE]
<1>1. FlushBuf(x, n) = IF ~x.fp[n].dirty THEN x ELSE IF u.res = "ok" THEN z ELSE u
  BY DEF FlushBuf, Then
<1>2. Shape(u) /\ u.res \in {"ok", "disk"}
  BY DiskWriteIs
<1> HIDE DEF u
<1>3. z.res = u.res
  BY <1>2 DEF Shape, Fields
<1> QED
  BY <1>1, <1>2, <1>3

\* A call on the open file of n leaves it open; what it has in touched counts as written.
Leaving(v, w, Z, n) ==
  /\ Base(w, Z) /\ Done(v, w, Z, n) /\ w.fp[n].open

LEMMA TruncEnds ==
  ASSUME NEW v, NEW u, NEW X, NEW Z, NEW n \in Names, X \subseteq Z, Files(v, X), Reworked(v, u, Z, n),
         FilePos(View(u), u.fp[n])
  PROVE  LET o == IF u.res = "ok" THEN FlushBuf(u, n) ELSE u
             w == Abort(o, n)
         IN  /\ Leaving(v, w, Z, n) /\ (u.fp[n].written => w.fp[n].written)
             /\ w.res = o.res /\ (u.res \in Results => w.res \in Results)
<1> DEFINE o == IF u.res = "ok" THEN FlushBuf(u, n) ELSE u
           w == Abort(o, n)
<1>1. Works(u, u, Z, n)
  BY SelfWorks
<1>2. /\ Works(u, o, Z, n) /\ (o.res = "ok" => FilePos(View(o), o.fp[n]))
      /\ (u.res \in Results => o.res \in Results)
  <2>1. CASE u.res = "ok"
    <3>1. Works(u, FlushBuf(u, n), Z, n) /\ Tended(u, FlushBuf(u, n), n)
      BY <1>1, <2>1, FlushBufTends
    <3>2. FilePos(View(FlushBuf(u, n)), FlushBuf(u, n).fp[n])
      BY <3>1, TendedPos
    <3>3. FlushBuf(u, n).res \in {"ok", "disk"}
      BY <2>1, FlushRes DEF Reworked, Base
    <3> QED
      BY <2>1, <3>1, <3>2, <3>3 DEF Results
  <2>2. CASE u.res # "ok"
    BY <1>1, <2>2
  <2> QED
    BY <2>1, <2>2
<1> HIDE DEF o
<1>3. Tends(u, w, Z, n)
  BY <1>2, AbortTends
<1>4. w.res = o.res
  <2>1. DOMAIN o = Fields
    BY <1>2, ObjectHas
  <2> QED
    BY <2>1 DEF Abort, Fields
<1> HIDE DEF w
<1>5. Done(v, w, Z, n)
  BY <1>3, TendsDone
<1>6. Base(w, Z) /\ w.fp[n].open /\ (u.fp[n].written => w.fp[n].written)
  BY <1>3 DEF Tends, Works
<1>7. Leaving(v, w, Z, n)
  BY <1>5, <1>6 DEF Leaving
<1> QED
  BY <1>2, <1>4, <1>6, <1>7 DEF w, o

SizedAs(v, x, X, n, k) ==
         LET z == Sized(x, n, k)
             f == x.fp[n]
         IN  /\ Works(v, z, X, n) /\ View(z) = View(x)
             /\ z.fp[n].ptr = f.ptr /\ z.fp[n].clust = f.clust /\ z.fp[n].sclust = f.sclust
             /\ z.fp[n].dsect = f.dsect /\ z.fp[n].written = TRUE /\ z.res = x.res
             /\ z.fp[n].dirty = f.dirty /\ z.fp[n].slot = f.slot
LEMMA SizedIs ==
  ASSUME NEW v, NEW x, NEW X, NEW n \in Names, Works(v, x, X, n), NEW k \in Int
  PROVE  SizedAs(v, x, X, n, k)
<1> DEFINE f == x.fp[n]
           z == Sized(x, n, k)
<1>1. /\ FileSet(x, z, n) /\ z.fp[n].dirty = f.dirty
      /\ z.fp[n].ptr = f.ptr /\ z.fp[n].clust = f.clust /\ z.fp[n].sclust = f.sclust
      /\ z.fp[n].dsect = f.dsect /\ z.fp[n].size = k
      /\ z.fp[n].written = TRUE
      /\ z.fp[n].err = f.err /\ z.fp[n].slot = f.slot /\ z.res = x.res
  BY ObjectHas DEF Sized, FileSet, Works, Base, Shape, Fields, FileFields
<1> HIDE DEF z
<1>2. FileBase(View(x), n, f, X)
  BY ObjectHas
<1>3. FileBase(View(x), n, z.fp[n], X)
  BY <1>1, <1>2 DEF FileBase
<1>4. Alone(v, n, z.fp[n].sclust) /\ (f.written => z.fp[n].written)
  BY <1>1 DEF Works
<1>5. Works(v, z, X, n) /\ View(z) = View(x)
  BY <1>1, <1>3, <1>4, FileSetWorks
<1> QED
  BY <1>1, <1>5 DEF z, SizedAs

\* A file is emptied: the entry still has the chain, and does not count.
EmptiedOf(v, n) == [RemoveChain(Sized(v, n, v.fp[n].ptr), v.fp[n].sclust) EXCEPT !.fp[n].sclust = 0]
LEMMA Emptied ==
  ASSUME NEW v, NEW Z, NEW n \in Names, n \in Z, Reworked(v, v, Z, n), v.res = "ok", v.fp[n].ptr = 0
  PROVE  LET u == EmptiedOf(v, n)
         IN  /\ Reworked(v, u, Z, n) /\ FilePos(View(u), u.fp[n]) /\ u.res \in Results
             /\ u.fp[n].written = TRUE
<1> DEFINE f == v.fp[n]
           s == f.sclust
           x == Sized(v, n, f.ptr)
           r == RemoveChain(x, s)
           u == EmptiedOf(v, n)
<1>1. Works(v, v, Z, n)
  BY SelfWorks
<1>2. /\ Works(v, x, Z, n) /\ View(x) = View(v) /\ x.res = "ok" /\ x.fp[n].written = TRUE
      /\ x.fp[n].ptr = 0 /\ x.fp[n].sclust = s
  <2>1. f.ptr \in Int
    OBVIOUS
  <2>2. LET z == Sized(v, n, f.ptr)
        IN  /\ Works(v, z, Z, n) /\ View(z) = View(v)
            /\ z.fp[n].ptr = f.ptr /\ z.fp[n].sclust = s /\ z.fp[n].written = TRUE /\ z.res = v.res
    <3>1. SizedAs(v, v, Z, n, f.ptr)
      BY <1>1, <2>1, SizedIs
    <3> QED
      BY <3>1 DEF SizedAs
  <2> QED
    BY <2>2
<1> HIDE DEF x
<1>3. FileBase(View(x), n, x.fp[n], Z)
  BY <1>2, ObjectHas
<1>4. s \in Clusters => Leads(View(x), s) /\ s # Root /\ Unclaimed(View(x), s, Z)
  <2>1. s \in Clusters => Leads(View(x), s) /\ s # Root
    BY <1>2, <1>3, ClustersDiffer DEF FileBase
  <2>2. ASSUME NEW t \in Clusters, Claims(View(x), t, Z) PROVE EntryIn(View(x), t).clust # s
    BY <1>2, <1>3, <2>2 DEF FileBase, Claims
  <2> QED
    BY <2>1, <2>2 DEF Unclaimed
<1>5. Links(x, r, Z, {s}) /\ Tab(View(r)) = Tab(View(x)) /\ r.res \in Results
  BY <1>2, <1>4, RemoveChainFrees DEF Works
<1> HIDE DEF r
<1>6. /\ Base(r, Z) /\ r.fp = x.fp /\ r.find = x.find /\ r.fs.mounted = x.fs.mounted
      /\ SameEntries(View(x), View(r)) /\ Keeping(View(x), View(r), {s})
  BY <1>5 DEF Links, Frame
<1>7. DOMAIN r = Fields /\ DOMAIN r.fp = Names /\ DOMAIN r.fp[n] = FileFields /\ r.fp[n].open
  <2>1. DOMAIN r = Fields
    BY <1>6 DEF Base, Shape
  <2>2. DOMAIN x.fp = Names /\ DOMAIN x.fp[n] = FileFields
    BY <1>2, ObjectHas
  <2>3. x.fp[n].open
    BY <1>2 DEF Works
  <2> QED
    BY <1>6, <2>1, <2>2, <2>3
<1>8. u = [r EXCEPT !.fp[n].sclust = 0]
  BY DEF EmptiedOf, r, x
<1> HIDE DEF u
<1>9. /\ FileSet(r, u, n) /\ u.fp[n].dirty = x.fp[n].dirty
      /\ u.fp[n].ptr = 0 /\ u.fp[n].sclust = 0
      /\ u.fp[n].dsect = x.fp[n].dsect /\ u.fp[n].size = x.fp[n].size
      /\ u.fp[n].written = TRUE
      /\ u.fp[n].slot = x.fp[n].slot /\ u.res = r.res
  BY <1>2, <1>6, <1>7, <1>8 DEF FileSet, Fields, FileFields
<1>10. Base(u, Z) /\ View(u) = View(r)
  BY <1>6, <1>9, FileSetBase
<1>11. FileBase(View(u), n, u.fp[n], Z)
  <2>1. PICK t \in Clusters : /\ x.fp[n].slot = ClustSect(t) /\ UsedIn(View(x), t)
                              /\ EntryIn(View(x), t).name = n
    BY <1>3 DEF FileBase
  <2>2. UsedIn(View(r), t) /\ EntryIn(View(r), t).name = n
    BY <1>6, <2>1 DEF SameEntries
  <2>3. \A c \in Clusters : Claims(View(u), c, Z) => EntryIn(View(u), c).clust # 0
    BY DEF Claims
  <2>4. (u.fp[n].dirty => u.fp[n].dsect \in Clusters \ Tab(View(u))) /\ u.fp[n].ptr \in Int /\ u.fp[n].size \in Int
    BY <1>2, <1>3, <1>5, <1>9, <1>10 DEF FileBase
  <2> QED
    BY <1>9, <1>10, <2>1, <2>2, <2>3, <2>4 DEF FileBase
<1>12. Alone(v, n, u.fp[n].sclust)
  BY <1>9 DEF Alone
<1>13. Reworked(v, u, Z, n)
  <2>1. SameEntries(View(v), View(u)) /\ Keeping(View(v), View(u), {s}) /\ Tab(View(u)) = Tab(View(v))
    BY <1>2, <1>5, <1>6, <1>10
  <2>2. u.find = v.find /\ u.fs.mounted = v.fs.mounted /\ u.fp[n].open
    BY <1>2, <1>6, <1>9 DEF Works, FileSet
  <2>3. \A m \in Names : m # n => u.fp[m] = v.fp[m]
    BY <1>2, <1>6, <1>9 DEF Works, FileSet
  <2> QED
    BY <1>10, <1>11, <1>12, <2>1, <2>2, <2>3 DEF Reworked
<1>14. FilePos(View(u), u.fp[n])
  BY <1>9, StartPos
<1> QED
  BY <1>5, <1>9, <1>13, <1>14 DEF u

\* The chain is cut after the cluster that the file has come to.
TrimmedOf(x, n) ==
  LET c == x.fp[n].clust
      g == GetFat(x, c)
      y == PutFat(g, c, EOC)
  IN  IF g.res # "ok" THEN g
      ELSE IF g.val = 1 THEN Fail(g, "int")
      ELSE IF g.val \notin Clusters THEN g
      ELSE IF y.res = "ok" THEN RemoveChain(y, g.val) ELSE y
LEMMA Trimmed ==
  ASSUME NEW v, NEW x, NEW X, NEW n \in Names, Works(v, x, X, n), x.res = "ok", x.fp[n].ptr # 0,
         FilePos(View(x), x.fp[n]), x.fp[n].sclust = v.fp[n].sclust
  PROVE  LET u == TrimmedOf(x, n)
         IN  /\ Reworked(v, u, X, n) /\ FilePos(View(u), u.fp[n]) /\ u.fp[n] = x.fp[n]
             /\ u.res \in Results
<1> DEFINE f == x.fp[n]
           s == f.sclust
           c == f.clust
           g == GetFat(x, c)
           y == PutFat(g, c, EOC)
           r == RemoveChain(y, g.val)
           u == TrimmedOf(x, n)
<1>1. u = IF g.res # "ok" THEN g ELSE IF g.val = 1 THEN Fail(g, "int") ELSE IF g.val \notin Clusters THEN g
          ELSE IF y.res = "ok" THEN r ELSE y
  BY DEF TrimmedOf
<1> HIDE DEF u
<1>2. c \in Reach(View(x), s)
  BY DEF FilePos
<1>3. c \in Clusters /\ s # 0 /\ Leads(View(x), s) /\ s # Root
  BY <1>2, ChainOutside
<1>4. /\ Moves(x, g, X) /\ g.res \in {"ok", "disk"}
      /\ g.res = "ok" => g.val = FatOf(View(x), c) /\ g.win.sect = FatSect(c)
  BY <1>3, GetFatMoves DEF Works
<1> HIDE DEF g
<1>5. Works(v, g, X, n) /\ g.fp = x.fp /\ View(g) = View(x)
  BY <1>4, MovesWorks
<1>6. ASSUME NEW a, Works(v, a, X, n), a.fp = x.fp, View(a) = View(x)
      PROVE  Reworked(v, a, X, n) /\ FilePos(View(a), a.fp[n]) /\ a.fp[n] = f
  BY <1>6, WorksReworked
<1>g. Reworked(v, g, X, n) /\ FilePos(View(g), g.fp[n]) /\ g.fp[n] = f
  BY <1>5, <1>6
<1> DEFINE Fine == Reworked(v, u, X, n) /\ FilePos(View(u), u.fp[n]) /\ u.fp[n] = f /\ u.res \in Results
<1>7. ASSUME g.res # "ok" PROVE Fine
  <2>1. u = g /\ g.res \in Results
    BY <1>1, <1>4, <1>7 DEF Results
  <2> QED
    BY <1>g, <2>1
<1>8. ASSUME g.res = "ok" /\ g.val = 1 PROVE Fine
  <2>1. /\ Works(v, Fail(g, "int"), X, n) /\ Fail(g, "int").fp = g.fp /\ View(Fail(g, "int")) = View(g)
        /\ Fail(g, "int").res = "int"
    BY <1>5, FailWorks
  <2> DEFINE h == Fail(g, "int")
  <2>2. u = h
    BY <1>1, <1>8
  <2> HIDE DEF h
  <2>3. Reworked(v, h, X, n) /\ FilePos(View(h), h.fp[n]) /\ h.fp[n] = f
    BY <1>5, <1>6, <2>1 DEF h
  <2>4. h.res \in Results
    BY <2>1 DEF h, Results
  <2> QED
    BY <2>2, <2>3, <2>4
<1>9. ASSUME g.res = "ok" /\ g.val # 1 /\ g.val \notin Clusters PROVE Fine
  <2>1. u = g /\ g.res \in Results
    BY <1>1, <1>9 DEF Results
  <2> QED
    BY <1>g, <2>1
<1>10. ASSUME g.res = "ok" /\ g.val \in Clusters PROVE Fine
  <2> DEFINE rest == g.val
             d == View(x)
             e == View(y)
  <2>1. Base(g, X)
    BY <1>4 DEF Moves
  <2>2. /\ Elsewhere(g, y) /\ y.res = "ok" /\ Refat(View(g), View(y), c, EOC)
        /\ Sane(View(y), X) /\ Tab(View(g)) \subseteq Tab(View(y)) => Base(y, X)
    BY <1>3, <1>4, <1>10, <2>1, PutFatHere
  <2>3. rest = FatOf(d, c) /\ Refat(d, e, c, EOC)
    BY <1>4, <1>5, <1>10, <2>2
  <2>4. Sane(d, X)
    BY ObjectHas
  <2> HIDE DEF y, r, d, rest, e
  <2>k. FatOf(d, c) \in Clusters /\ c \in Reach(d, s)
    BY <1>2, <1>10, <2>3 DEF rest, d
  <2>5. /\ Sane(e, X) /\ Tab(e) = Tab(d) /\ SameEntries(d, e) /\ Keeping(d, e, {s})
        /\ Leads(e, s) /\ c \in Reach(e, s)
        /\ Leads(e, rest) /\ rest # Root /\ Unclaimed(e, rest, X) /\ ~Leads(d, rest)
    <3>1. Leads(d, s) /\ s # Root
      BY <1>3 DEF d
    <3> DEFINE q == FatOf(d, c)
    <3> HIDE DEF s, c
    <3>2. /\ Sane(e, X) /\ Tab(e) = Tab(d) /\ SameEntries(d, e) /\ Keeping(d, e, {s})
          /\ Leads(e, s) /\ c \in Reach(e, s)
          /\ Leads(e, q) /\ q # Root /\ Unclaimed(e, q, X) /\ ~Leads(d, q)
      BY <2>3, <2>4, <2>k, <3>1, TrimKeeps
    <3> QED
      BY <2>3, <3>2
  <2>6. Base(y, X) /\ Frame(x, y)
    <3>1. Base(y, X)
      BY <1>5, <2>2, <2>5 DEF d, e
    <3>2. Frame(g, y) /\ Frame(x, g)
      BY <1>4, <2>2 DEF Elsewhere, Frame, Moves
    <3> QED
      BY <3>1, <3>2, FrameOn
  <2>7. Links(y, r, X, {rest}) /\ Tab(View(r)) = Tab(e) /\ r.res \in Results
    BY <2>2, <2>5, <2>6, RemoveChainFrees DEF r, e, rest
  <2>8. /\ Base(r, X) /\ Frame(y, r) /\ SameEntries(e, View(r)) /\ Keeping(e, View(r), {rest})
    BY <2>7 DEF Links, e
  <2>9. Keeping(d, View(r), {s})
    <3>1. \A h : Leads(d, h) /\ h \notin {s} => h \notin {rest}
      BY <2>5
    <3> QED
      BY <2>5, <2>8, <3>1, KeepingOn
  <2>10. Leads(View(r), s) /\ c \in Reach(View(r), s)
    <3>1. s # rest
      BY <1>3, <2>5 DEF d
    <3> QED
      BY <2>5, <2>8, <3>1 DEF Keeping
  <2>11. Frame(x, r) /\ SameEntries(d, View(r)) /\ Tab(View(r)) = Tab(d)
    BY <2>5, <2>6, <2>7, <2>8, FrameOn, SameEntriesOn
  <2>12. r.fp = x.fp /\ r.find = x.find /\ r.fs.mounted = x.fs.mounted
    BY <2>11 DEF Frame
  <2>13. FileBase(View(r), n, f, X)
    <3>1. FileBase(d, n, f, X)
      BY ObjectHas DEF d
    <3>2. PICK t \in Clusters : /\ f.slot = ClustSect(t) /\ UsedIn(d, t) /\ EntryIn(d, t).name = n
                                /\ n \notin X => EntryIn(d, t).clust \in {0, f.sclust}
      BY <3>1 DEF FileBase
    <3>3. UsedIn(View(r), t) /\ EntryIn(View(r), t) = EntryIn(d, t)
      BY <2>11, <3>2 DEF SameEntries
    <3>4. ASSUME NEW b \in Clusters, Claims(View(r), b, X), EntryIn(View(r), b).clust = f.sclust
          PROVE  EntryIn(View(r), b).name = n
      <4>1. UsedIn(d, b) /\ EntryIn(View(r), b) = EntryIn(d, b)
        BY <2>11, <3>4 DEF SameEntries, Claims
      <4>2. Claims(d, b, X)
        BY <3>4, <4>1 DEF Claims
      <4> QED
        BY <3>1, <3>4, <4>1, <4>2 DEF FileBase
    <3>5. (f.dirty => f.dsect \in Clusters \ Tab(View(r))) /\ f.ptr \in Int /\ f.size \in Int
      BY <2>11, <3>1 DEF FileBase
    <3> QED
      BY <1>3, <2>10, <3>2, <3>3, <3>4, <3>5 DEF FileBase
  <2>14. Reworked(v, r, X, n)
    <3>1. /\ x.find = v.find /\ x.fs.mounted = v.fs.mounted /\ x.fp[n].open
          /\ \A m \in Names : m # n => x.fp[m] = v.fp[m]
          /\ Tab(d) = Tab(View(v)) /\ SameEntries(View(v), d) /\ Keeping(View(v), d, {})
          /\ Alone(v, n, s)
      BY DEF Works, d
    <3>2. Keeping(View(v), View(r), {s})
      <4>1. {} \subseteq {s} /\ \A h : Leads(View(v), h) /\ h \notin {s} => h \notin {s}
        OBVIOUS
      <4> QED
        BY <2>9, <3>1, <4>1, KeepingOn
    <3>3. SameEntries(View(v), View(r))
      BY <2>11, <3>1, SameEntriesOn
    <3> QED
      BY <2>8, <2>11, <2>12, <2>13, <3>1, <3>2, <3>3 DEF Reworked
  <2>15. FilePos(View(r), f)
    BY <2>10 DEF FilePos
  <2>16. u = r
    <3>1. g.val # 1
      BY <1>10, ClustersDiffer
    <3> QED
      BY <1>1, <1>10, <2>2, <3>1
  <2> QED
    BY <2>7, <2>12, <2>14, <2>15, <2>16
<1> QED
  <2>1. Fine
    BY <1>4, <1>7, <1>8, <1>9, <1>10
  <2> QED
    BY <2>1 DEF u

\* A file is cut where it has come to: at its start, the names that do not count gain its own.
CutOf(v, n) == IF v.fp[n].ptr = 0 THEN EmptiedOf(v, n) ELSE TrimmedOf(Sized(v, n, v.fp[n].ptr), n)
CutShort(v, n) == Abort(IF CutOf(v, n).res = "ok" THEN FlushBuf(CutOf(v, n), n) ELSE CutOf(v, n), n)
LEMMA FTruncateIs ==
  ASSUME NEW v, NEW n \in Names, Shape(v), v.fp[n].open
  PROVE  \/ v.fp[n].err # "ok" /\ FTruncate(v, n) = Fail(v, v.fp[n].err)
         \/ v.fp[n].err = "ok" /\ ~v.fp[n].wr /\ FTruncate(v, n) = Fail(v, "denied")
         \/ v.fp[n].size <= v.fp[n].ptr /\ FTruncate(v, n) = v
         \/ /\ v.fp[n].err = "ok" /\ ~(v.fp[n].size <= v.fp[n].ptr)
            /\ FTruncate(v, n) = CutShort(v, n)
<1> DEFINE f == v.fp[n]
           x == Sized(v, n, f.ptr)
           trim == Then(GetFat(x, f.clust), LAMBDA g:
                      IF g.val = 1 THEN Fail(g, "int")
                      ELSE IF g.val \notin Clusters THEN g
                      ELSE Then(PutFat(g, f.clust, EOC), LAMBDA y: RemoveChain(y, g.val)))
           cutting == IF f.ptr = 0 THEN [RemoveChain(x, f.sclust) EXCEPT !.fp[n].sclust = 0] ELSE trim
<1>1. trim = TrimmedOf(x, n)
  <2>1. x.fp[n].clust = f.clust
    BY DEF Sized, Shape, IsObject, Fields, FileFields
  <2> HIDE DEF x, f
  <2> QED
    BY <2>1 DEF Then, TrimmedOf
<1>2. cutting = CutOf(v, n)
  <2> HIDE DEF trim
  <2> QED
    BY <1>1 DEF CutOf, EmptiedOf, trim
<1>3. FTruncate(v, n) = IF f.err # "ok" THEN Fail(v, f.err) ELSE IF ~f.wr THEN Fail(v, "denied")
                        ELSE IF f.size <= f.ptr THEN v
                        ELSE Abort(Then(cutting, LAMBDA y: FlushBuf(y, n)), n)
  BY DEF FTruncate, Checked, Sized
<1>4. Abort(Then(cutting, LAMBDA y: FlushBuf(y, n)), n) = CutShort(v, n)
  <2> HIDE DEF cutting
  <2> QED
    BY <1>2 DEF Then, CutShort
<1> QED
  <2> HIDE DEF cutting
  <2> QED
    BY <1>3, <1>4

\* A call on the file of n that is refused, or that there is nothing to do for.
LEMMA RefusedDone ==
  ASSUME NEW v, NEW X, NEW n \in Names, Files(v, X), Base(v, X), v.fp[n].open, NEW why
  PROVE  Done(v, v, X, n) /\ Done(v, Fail(v, why), X, n) /\ Fail(v, why).fp = v.fp /\ Rests(Fail(v, why), X)
<1>1. Reworked(v, v, X, n)
  BY FilesSelf
<1>2. Works(v, v, X, n)
  BY <1>1, SelfWorks
<1>3. Tends(v, v, X, n)
  BY <1>2 DEF Tends, Files, FileOK
<1>4. Tends(v, Fail(v, why), X, n) /\ Fail(v, why).fp = v.fp
  BY <1>2, <1>3, CheckedFails, FailWorks
<1>5. Done(v, v, X, n) /\ Done(v, Fail(v, why), X, n)
  BY <1>1, <1>3, <1>4, TendsDone
<1> QED
  BY <1>4, <1>5 DEF Done

\* SetEndOfFile: cut to nothing, the file has an entry that does not count until it is written.
LEMMA FTruncateDone ==
  ASSUME NEW v, NEW X, NEW n \in Names, Files(v, X), Base(v, X), v.fp[n].open, v.res = "ok"
  PROVE  LET w == FTruncate(v, n)
             C == IF v.fp[n].ptr = 0 /\ v.fp[n].size > 0 THEN {n} ELSE {}
         IN  /\ Base(w, X \cup C) /\ Done(v, w, X \cup C, n) /\ w.fp[n].open
             /\ (v.fp[n].written => w.fp[n].written)
             /\ (w.res \notin Results => Done(v, w, X, n))
             /\ (C = {n} /\ w.res = "ok" => w.fp[n].written)
<1> DEFINE f == v.fp[n]
           w == FTruncate(v, n)
           C == IF f.ptr = 0 /\ f.size > 0 THEN {n} ELSE {}
           Z == X \cup C
           Fine == /\ Base(w, Z) /\ Done(v, w, Z, n) /\ w.fp[n].open /\ (f.written => w.fp[n].written)
                   /\ (w.res \notin Results => Done(v, w, X, n))
                   /\ (C = {n} /\ w.res = "ok" => w.fp[n].written)
<1>1. Reworked(v, v, X, n) /\ Reworked(v, v, Z, n)
  BY FilesSelf, ReworkedLess
<1>2. Works(v, v, X, n) /\ f.ptr \in Int /\ f.size \in Int /\ Shape(v)
  <2>1. Works(v, v, X, n)
    BY <1>1, SelfWorks
  <2>2. f.ptr \in Int /\ f.size \in Int
    BY <2>1, ObjectHas
  <2> QED
    BY <2>1, <2>2 DEF Base
<1> DEFINE ref == Fail(v, f.err)
           den == Fail(v, "denied")
<1>3. /\ Tends(v, v, X, n) /\ Tends(v, ref, X, n) /\ Tends(v, den, X, n)
      /\ ref.fp = v.fp /\ den.fp = v.fp /\ ref.res = f.err /\ den.res = "denied"
  <2>1. Tends(v, v, X, n)
    BY <1>2 DEF Tends, Files, FileOK
  <2>2. \A why : Fail(v, why).fp = v.fp /\ Fail(v, why).res = why
    BY <1>2 DEF Fail, Shape, Fields
  <2> QED
    BY <2>1, <2>2, CheckedFails
<1> HIDE DEF w, C, ref, den
<1>4. ASSUME NEW a, Tends(v, a, X, n), a.fp = v.fp, w = a, a.res = "ok" => C = {} PROVE Fine
  <2>1. Tends(v, a, Z, n)
    BY <1>4, TendsLess
  <2>2. Done(v, a, Z, n) /\ Done(v, a, X, n)
    BY <1>1, <1>4, <2>1, TendsDone
  <2>3. a.fp[n].open /\ Base(a, Z)
    BY <1>4, <2>1 DEF Tends, Works
  <2> QED
    BY <1>4, <2>2, <2>3
<1>5. ASSUME f.err # "ok" /\ w = ref PROVE Fine
  BY <1>3, <1>4, <1>5
<1>6. ASSUME w = den PROVE Fine
  BY <1>3, <1>4, <1>6
<1>7. ASSUME f.size <= f.ptr /\ w = v PROVE Fine
  <2>1. C = {}
    BY <1>2, <1>7 DEF C
  <2> QED
    BY <1>3, <1>4, <1>7, <2>1
<1>8. ASSUME f.err = "ok" /\ ~(f.size <= f.ptr) /\ w = CutShort(v, n) PROVE Fine
  <2> DEFINE u == CutOf(v, n)
             o == IF u.res = "ok" THEN FlushBuf(u, n) ELSE u
  <2>1. CutShort(v, n) = Abort(o, n)
    BY DEF CutShort
  <2>2. /\ Reworked(v, u, Z, n) /\ FilePos(View(u), u.fp[n]) /\ u.res \in Results
        /\ u.fp[n].written = TRUE
    <3>1. CASE f.ptr = 0
      <4>1. C = {n} /\ u = EmptiedOf(v, n)
        BY <1>2, <1>8, <3>1 DEF C, CutOf
      <4>2. n \in Z
        BY <4>1
      <4> HIDE DEF u
      <4> DEFINE e == EmptiedOf(v, n)
      <4>3. Reworked(v, e, Z, n) /\ FilePos(View(e), e.fp[n]) /\ e.res \in Results /\ e.fp[n].written = TRUE
        BY <1>1, <3>1, <4>2, Emptied
      <4> QED
        BY <4>1, <4>3
    <3>2. CASE f.ptr # 0
      <4> DEFINE x == Sized(v, n, f.ptr)
                 t == TrimmedOf(x, n)
      <4>1. u = t
        BY <3>2 DEF CutOf
      <4>2. SizedAs(v, v, X, n, f.ptr)
        BY <1>2, SizedIs
      <4>3. /\ Works(v, x, X, n) /\ View(x) = View(v) /\ x.res = "ok" /\ x.fp[n].written = TRUE
            /\ x.fp[n].ptr = f.ptr /\ x.fp[n].clust = f.clust /\ x.fp[n].sclust = f.sclust
            /\ x.fp[n].dsect = f.dsect
        BY <4>2 DEF SizedAs
      <4> HIDE DEF u, x
      <4>4. FilePos(View(v), f)
        BY <1>8 DEF Files, FileOK
      <4>5. FilePos(View(x), x.fp[n]) /\ x.fp[n].ptr # 0
        BY <3>2, <4>3, <4>4 DEF FilePos
      <4>6. /\ Reworked(v, t, X, n) /\ FilePos(View(t), t.fp[n]) /\ t.fp[n] = x.fp[n] /\ t.res \in Results
        BY <4>3, <4>5, Trimmed
      <4> HIDE DEF t
      <4>7. Reworked(v, t, Z, n)
        BY <4>6, ReworkedLess
      <4> QED
        BY <4>1, <4>3, <4>6, <4>7
    <3> QED
      BY <3>1, <3>2
  <2> HIDE DEF u
  <2>3. /\ Leaving(v, w, Z, n) /\ (u.fp[n].written => w.fp[n].written) /\ w.res \in Results
    <3>1. LET q == Abort(o, n)
          IN  Leaving(v, q, Z, n) /\ (u.fp[n].written => q.fp[n].written) /\ (u.res \in Results => q.res \in Results)
      BY <2>2, TruncEnds
    <3> QED
      BY <1>8, <2>1, <2>2, <3>1
  <2> QED
    BY <2>2, <2>3 DEF Leaving
<1>9. \/ f.err # "ok" /\ w = ref
      \/ w = den
      \/ f.size <= f.ptr /\ w = v
      \/ f.err = "ok" /\ ~(f.size <= f.ptr) /\ w = CutShort(v, n)
  BY <1>2, FTruncateIs DEF w, ref, den
<1>10. Fine
  BY <1>5, <1>6, <1>7, <1>8, <1>9
<1> QED
  BY <1>10 DEF w, C

\* The entry of a file, at t, has been given its chain and its size; it counts again.
Saved(q, p, t, X, n) ==
  /\ t \in Clusters /\ UsedIn(View(q), t) /\ EntryIn(View(q), t).name = n
  /\ Base(p, X) /\ Frame(q, p) /\ p.res = q.res /\ Sane(View(p), X \ {n})
  /\ SameFat(View(q), View(p)) /\ Tab(View(p)) = Tab(View(q)) /\ (\A gone : Keeping(View(q), View(p), gone))
  /\ UsedIn(View(p), t) /\ EntryIn(View(p), t).name = n /\ EntryIn(View(p), t).clust = q.fp[n].sclust
  /\ \A u \in Clusters : u # t => /\ UsedIn(View(p), u) <=> UsedIn(View(q), u)
                                  /\ EntryIn(View(p), u) = EntryIn(View(q), u)
SavedEntry(q, n) == [EntryAt(q) EXCEPT !.clust = q.fp[n].sclust, !.size = q.fp[n].size]
LEMMA EntrySaves ==
  ASSUME NEW q, NEW X, NEW n \in Names, Base(q, X), FileBase(View(q), n, q.fp[n], X),
         q.win.sect = q.fp[n].slot
  PROVE  \E t : Saved(q, Put(q, DirOf(SavedEntry(q, n))), t, X, n)
<1> DEFINE f == q.fp[n]
           s == f.sclust
           d == View(q)
           x == SavedEntry(q, n)
           p == Put(q, DirOf(x))
           e == View(p)
<1>1. PICK t \in Clusters : f.slot = ClustSect(t) /\ UsedIn(d, t) /\ EntryIn(d, t).name = n
  BY DEF FileBase
<1>2. t \in Tab(d) /\ EntryAt(q) = EntryIn(d, t) /\ q.win.sect = ClustSect(t)
  <2>1. t \in Tab(d) /\ q.win.sect = ClustSect(t)
    BY <1>1 DEF UsedIn
  <2> QED
    BY <2>1, EntryShown
<1>3. Sane(d, X)
  BY BaseParts
<1>4. IsUsed(EntryIn(d, t))
  <2>1. IsEntry(EntryIn(d, t)) /\ EntryIn(d, t).st = "used"
    BY <1>1, <1>3 DEF Sane, DirOK, Entries, UsedIn
  <2>2. Unused.st # "used" /\ Deleted.st # "used"
    BY DEF Unused, Deleted
  <2> QED
    BY <2>1, <2>2 DEF IsEntry
<1>5. s \in {0} \cup Clusters /\ f.size \in Int /\ (s # 0 => Leads(d, s) /\ s # Root)
  BY DEF FileBase, Leads
<1>6. IsEntry(x) /\ x.st = "used" /\ x.name = n /\ x.clust = s
  BY <1>1, <1>2, <1>4, <1>5 DEF IsUsed, IsEntry, SavedEntry
<1>7. \A u \in Clusters : UsedIn(d, u) /\ EntryIn(d, u).name = n => u = t
  BY <1>1, <1>3 DEF Sane, DirOK, OneName
<1>8. \A u \in Clusters : Claims(d, u, X) /\ u # t => EntryIn(d, u).clust # s
  BY <1>7 DEF FileBase, Claims
<1> HIDE DEF x, s
<1>9. Fits(d, t, x, X)
  BY <1>5, <1>6, <1>7, <1>8 DEF Fits
<1>10. x.st # "unused" /\ X \subseteq X
  BY <1>6
<1>11. EntrySet(q, p, t, x, X)
  BY <1>2, <1>6, <1>9, <1>10, EntryPut
<1> HIDE DEF p
<1>12. /\ Base(p, X) /\ Frame(q, p) /\ p.res = q.res /\ SameFat(d, e) /\ Tab(e) = Tab(d)
       /\ IsDir(e, t) /\ EntryIn(e, t) = x
       /\ \A u \in Clusters : u # t => (UsedIn(e, u) <=> UsedIn(d, u)) /\ EntryIn(e, u) = EntryIn(d, u)
  BY <1>11 DEF EntrySet
<1>13. \A gone : Keeping(d, e, gone)
  BY <1>11 DEF EntrySet
<1>14. UsedIn(e, t) /\ EntryIn(e, t).name = n /\ EntryIn(e, t).clust = s
  BY <1>2, <1>6, <1>12 DEF UsedIn
<1>15. Sane(e, X \ {n})
  <2>1. Sane(e, X)
    BY <1>12, BaseParts
  <2>2. ASSUME NEW u \in Clusters, Claims(e, u, X \ {n}), ~Claims(e, u, X)
        PROVE  /\ Leads(e, EntryIn(e, u).clust) /\ EntryIn(e, u).clust # Root
               /\ \A b \in Clusters : Claims(e, b, X \ {n}) /\ EntryIn(e, b).clust = EntryIn(e, u).clust => b = u
    <3>1. UsedIn(e, u) /\ EntryIn(e, u).name = n /\ EntryIn(e, u).clust # 0
      BY <2>2 DEF Claims
    <3>2. u = t
      BY <1>7, <1>12, <3>1
    <3>3. EntryIn(e, u).clust = s /\ s # 0
      BY <1>14, <3>1, <3>2
    <3>4. Leads(e, s)
      BY <1>5, <1>12, <3>3, ReachSame
    <3>5. ASSUME NEW b \in Clusters, Claims(e, b, X \ {n}), EntryIn(e, b).clust = s, b # t PROVE FALSE
      <4>1. UsedIn(d, b) /\ EntryIn(d, b) = EntryIn(e, b)
        BY <1>12, <3>5 DEF Claims
      <4>2. EntryIn(d, b).name # n
        BY <1>7, <3>5, <4>1
      <4>3. Claims(d, b, X)
        BY <3>5, <4>1, <4>2 DEF Claims
      <4> QED
        BY <1>8, <3>5, <4>1, <4>3
    <3> QED
      BY <1>5, <3>2, <3>3, <3>4, <3>5
  <2> QED
    BY <2>1, <2>2, CountsAgain
<1>16. Saved(q, p, t, X, n)
  BY <1>1, <1>12, <1>13, <1>14, <1>15 DEF Saved, s
<1> QED
  BY <1>16 DEF p, x

\* What is saved has been synchronised: on the card too.
LEMMA SavedDone ==
  ASSUME NEW v, NEW q, NEW p, NEW X, NEW n \in Names, NEW t, Reworked(v, q, X, n), Saved(q, p, t, X, n),
         q.fp[n].err = "ok" => FilePos(View(q), q.fp[n]), p.res = "ok"
  PROVE  LET w == SyncFs(p)
         IN  /\ Done(v, w, X, n) /\ Base(w, X) /\ w.res \in {"ok", "disk"}
             /\ w.fp = q.fp
             /\ w.res = "ok" => Done(v, w, X \ {n}, n)
<1> DEFINE w == SyncFs(p)
           d == View(v)
           e == View(w)
           f == q.fp[n]
           s == f.sclust
<1>1. /\ Links(p, w, X, {}) /\ w.res \in {"ok", "disk"} /\ Tab(e) = Tab(View(p))
      /\ SameFat(View(p), e) /\ (w.res = "ok" => ~w.win.dirty)
      /\ \A Z : Sane(View(p), Z) => Sane(e, Z)
  <2>1. Base(p, X)
    BY DEF Saved
  <2> QED
    BY <2>1, SyncFsSyncs
<1> HIDE DEF w
<1>2. /\ Base(w, X) /\ w.fp = q.fp /\ w.find = v.find /\ w.fs.mounted = v.fs.mounted
      /\ SameEntries(View(p), e) /\ Tab(e) = Tab(d) /\ SameFat(View(q), e)
  BY <1>1 DEF Links, Frame, Saved, Reworked, SameFat
<1>3. Keeping(d, e, {v.fp[n].sclust})
  <2>1. Keeping(d, View(q), {v.fp[n].sclust}) /\ Keeping(View(q), View(p), {}) /\ Keeping(View(p), e, {})
    BY <1>1 DEF Links, Saved, Reworked
  <2>2. Keeping(View(q), e, {})
    BY <2>1, KeepingOn
  <2>3. \A h : Leads(d, h) /\ h \notin {v.fp[n].sclust} => h \notin {}
    OBVIOUS
  <2> QED
    BY <2>1, <2>2, <2>3, KeepingOn
<1>4. /\ t \in Clusters /\ UsedIn(d, t) /\ EntryIn(d, t).name = n
      /\ UsedIn(e, t) /\ EntryIn(e, t).name = n /\ EntryIn(e, t).clust = s
      /\ \A u \in Clusters : u # t => /\ UsedIn(e, u) <=> UsedIn(d, u)
                                      /\ UsedIn(e, u) => EntryIn(e, u) = EntryIn(d, u)
  BY <1>2 DEF Saved, Reworked, SameEntries
<1>5. \A u \in Clusters : UsedIn(e, u) /\ EntryIn(e, u).name = n => u = t
  <2>1. Sane(e, X)
    BY <1>2, BaseParts
  <2> QED
    BY <1>4, <2>1 DEF Sane, DirOK, OneName
<1>6. Alone(v, n, s) /\ f.open /\ FileBase(View(q), n, f, X)
  BY DEF Reworked
<1>7. ASSUME NEW Z, Rests(w, Z), X \subseteq Z \cup {n} PROVE Done(v, w, Z, n)
  <2>1. FileBase(e, n, f, Z)
    <3>1. f.slot = ClustSect(t)
      <4>1. PICK b \in Clusters : f.slot = ClustSect(b) /\ UsedIn(View(q), b) /\ EntryIn(View(q), b).name = n
        BY <1>6 DEF FileBase
      <4>2. UsedIn(View(q), t) /\ EntryIn(View(q), t).name = n /\ t \in Clusters
        BY DEF Saved
      <4>3. Sane(View(q), X)
        BY BaseParts DEF Reworked
      <4> QED
        BY <4>1, <4>2, <4>3 DEF Sane, DirOK, OneName
    <3>2. s # 0 => Leads(e, s) /\ s # Root
      BY <1>2, <1>6, ReachSame DEF FileBase
    <3>3. ASSUME NEW b \in Clusters, Claims(e, b, Z), EntryIn(e, b).clust = s PROVE EntryIn(e, b).name = n
      <4>1. SUFFICES ASSUME EntryIn(e, b).name # n PROVE FALSE
        OBVIOUS
      <4>2. UsedIn(e, b) /\ b # t
        BY <1>4, <3>3, <4>1 DEF Claims
      <4>3. UsedIn(View(p), b) /\ EntryIn(e, b) = EntryIn(View(p), b)
        BY <1>2, <4>2 DEF SameEntries
      <4>4. UsedIn(View(q), b) /\ EntryIn(e, b) = EntryIn(View(q), b)
        BY <4>2, <4>3 DEF Saved
      <4>5. Claims(View(q), b, X)
        BY <1>7, <3>3, <4>1, <4>4 DEF Claims
      <4> QED
        BY <1>6, <3>3, <4>1, <4>4, <4>5 DEF FileBase
    <3>4. (f.dirty => f.dsect \in Clusters \ Tab(e)) /\ f.ptr \in Int /\ f.size \in Int
      BY <1>1, <1>6 DEF FileBase, Saved
    <3> QED
      BY <1>4, <3>1, <3>2, <3>3, <3>4 DEF FileBase
  <2>2. f.err = "ok" => FilePos(e, f)
    BY <1>2, SamePos
  <2>3. \A m \in Names : m # n => w.fp[m] = v.fp[m]
    BY <1>2 DEF Reworked
  <2>4. \A b \in Clusters : Claims(e, b, Z) /\ EntryIn(e, b).name = n => Alone(v, n, EntryIn(e, b).clust)
    BY <1>4, <1>5, <1>6 DEF Claims
  <2>5. \A b \in Clusters :
          /\ UsedIn(e, b) <=> UsedIn(d, b)
          /\ UsedIn(d, b) => EntryIn(e, b).name = EntryIn(d, b).name
          /\ UsedIn(d, b) /\ EntryIn(d, b).name # n => EntryIn(e, b).clust = EntryIn(d, b).clust
    BY <1>4
  <2>6. FileOK(e, n, w.fp[n], Z) /\ Alone(v, n, w.fp[n].sclust)
    BY <1>2, <1>6, <2>1, <2>2 DEF FileOK
  <2> HIDE DEF d, e, f, s
  <2> QED
    BY <1>2, <1>3, <1>7, <2>3, <2>4, <2>5, <2>6 DEF Done, d, e
<1>8. Done(v, w, X, n)
  BY <1>2, <1>7, BaseRests
<1>9. w.res = "ok" => Done(v, w, X \ {n}, n)
  <2>1. w.res = "ok" => Rests(w, X \ {n})
    BY <1>1, <1>2 DEF Rests, Saved, Base, View
  <2> QED
    BY <1>7, <2>1
<1> QED
  BY <1>1, <1>2, <1>8, <1>9 DEF w

\* f_sync: when it has written anything and succeeds, the name counts again.
LEMMA FSyncDone ==
  ASSUME NEW v, NEW X, NEW n \in Names, Files(v, X), Base(v, X), v.fp[n].open, v.res = "ok"
  PROVE  LET w == FSync(v, n)
         IN  /\ Base(w, X) /\ Done(v, w, X, n) /\ w.res \in {"ok", "disk"} /\ w.fp[n].open
             /\ w.res = "ok" /\ v.fp[n].written => Done(v, w, X \ {n}, n)
<1> DEFINE f == v.fp[n]
           a == FlushBuf(v, n)
           b == IF a.res = "ok" THEN MoveWindow(a, a.fp[n].slot) ELSE a
           q == [b EXCEPT !.fp[n].written = FALSE]
           p == Put(q, DirOf(SavedEntry(q, n)))
           w == FSync(v, n)
<1>1. Works(v, v, X, n) /\ Reworked(v, v, X, n)
  BY FilesSelf, SelfWorks
<1>2. /\ Works(v, a, X, n) /\ Tended(v, a, n) /\ a.res \in {"ok", "disk"}
  <2>1. Shape(v)
    BY DEF Base
  <2> QED
    BY <1>1, <2>1, FlushBufTends, FlushRes
<1> HIDE DEF a
<1>3. /\ Works(v, b, X, n) /\ b.fp = a.fp /\ View(b) = View(a) /\ b.res \in {"ok", "disk"}
      /\ b.res = "ok" => b.win.sect = a.fp[n].slot
  <2>1. CASE a.res = "ok"
    <3> DEFINE m == MoveWindow(a, a.fp[n].slot)
    <3>1. Base(a, X)
      BY <1>2 DEF Works
    <3>2. Moves(a, m, X) /\ m.res \in {"ok", "disk"} /\ (m.res = "ok" => m.win.sect = a.fp[n].slot)
      BY <2>1, <3>1, MoveWindowMoves
    <3> HIDE DEF m
    <3>3. Works(v, m, X, n) /\ m.fp = a.fp /\ View(m) = View(a)
      BY <1>2, <3>2, MovesWorks
    <3>4. b = m
      BY <2>1 DEF m
    <3> QED
      BY <3>2, <3>3, <3>4
  <2>2. CASE a.res # "ok"
    BY <1>2, <2>2
  <2> QED
    BY <2>1, <2>2
<1> HIDE DEF b
<1>4. f.err = "ok" => FilePos(View(v), f)
  BY DEF Files, FileOK
<1>5. b.fp[n].err = f.err /\ (b.fp[n].err = "ok" => FilePos(View(b), b.fp[n]))
  BY <1>2, <1>3, <1>4, TendedPos DEF Tended
<1>6. Base(b, X) /\ Done(v, b, X, n) /\ b.fp[n].open /\ Tends(v, b, X, n)
  <2>1. Tends(v, b, X, n)
    BY <1>3, <1>5 DEF Tends
  <2> QED
    BY <1>1, <1>3, <2>1, TendsDone DEF Works
<1>7. Done(v, v, X, n)
  BY <1>1, <1>4, TendsDone DEF Tends
<1>8. CASE ~f.written
  <2>1. w = v
    BY <1>8 DEF FSync
  <2> QED
    BY <1>7, <1>8, <2>1
<1>9. w = IF ~f.written THEN v ELSE IF b.res = "ok" THEN SyncFs(p) ELSE b
  <2> DEFINE F(x) == SyncFs(Put([x EXCEPT !.fp[n].written = FALSE],
                    DirOf([EntryAt(x) EXCEPT !.clust = x.fp[n].sclust, !.size = x.fp[n].size])))
  <2>1. w = IF ~f.written THEN v ELSE IF b.res = "ok" THEN F(b) ELSE b
    <3>1. w = IF ~f.written THEN v ELSE Then(Then(a, LAMBDA x: MoveWindow(x, x.fp[n].slot)), LAMBDA x: F(x))
      BY DEF FSync, a
    <3> HIDE DEF F
    <3> QED
      BY <3>1 DEF Then, b
  <2>2. F(b) = SyncFs(p)
    <3>1. /\ EntryAt(q) = EntryAt(b) /\ q.fp[n].sclust = b.fp[n].sclust /\ q.fp[n].size = b.fp[n].size
      BY <1>3, ObjectHas DEF EntryAt, Fields, FileFields
    <3> DEFINE x1 == [EntryAt(b) EXCEPT !.clust = b.fp[n].sclust, !.size = b.fp[n].size]
    <3>2. SavedEntry(q, n) = x1
      <4> HIDE DEF q
      <4> QED
        BY <3>1 DEF SavedEntry
    <3>3. F(b) = SyncFs(Put(q, DirOf(x1)))
      OBVIOUS
    <3> HIDE DEF x1, q
    <3> QED
      BY <3>2, <3>3 DEF p
  <2> HIDE DEF F, p
  <2> QED
    BY <2>1, <2>2
<1>10. CASE f.written /\ b.res # "ok"
  <2>1. w = b
    BY <1>9, <1>10
  <2> HIDE DEF w
  <2>2. Base(w, X) /\ Done(v, w, X, n) /\ w.res \in {"ok", "disk"} /\ w.res # "ok" /\ w.fp[n].open
    BY <1>3, <1>6, <1>10, <2>1
  <2> QED
    BY <2>2 DEF w
<1>11. CASE f.written /\ b.res = "ok"
  <2>1. /\ FileSet(b, q, n) /\ q.fp[n].slot = b.fp[n].slot /\ q.fp[n].sclust = b.fp[n].sclust
        /\ q.fp[n].clust = b.fp[n].clust /\ q.fp[n].ptr = b.fp[n].ptr /\ q.fp[n].size = b.fp[n].size
        /\ q.fp[n].dsect = b.fp[n].dsect /\ q.fp[n].dirty = b.fp[n].dirty /\ q.fp[n].err = b.fp[n].err
        /\ q.res = b.res /\ q.win = b.win
    BY <1>3, <1>6, ObjectHas DEF FileSet, Fields, FileFields
  <2> HIDE DEF q
  <2>2. Base(q, X) /\ View(q) = View(b)
    BY <1>3, <2>1, FileSetBase DEF Works
  <2>3. FileBase(View(q), n, q.fp[n], X)
    <3>1. FileBase(View(b), n, b.fp[n], X)
      BY <1>3 DEF Works
    <3> QED
      BY <2>1, <2>2, <3>1 DEF FileBase
  <2>4. Reworked(v, q, X, n)
    <3>1. Reworked(v, b, X, n)
      BY <1>3, WorksReworked
    <3> QED
      BY <2>1, <2>2, <2>3, <3>1 DEF Reworked, FileSet, Alone
  <2>5. q.fp[n].err = "ok" => FilePos(View(q), q.fp[n])
    BY <1>5, <2>1, <2>2 DEF FilePos
  <2>6. q.win.sect = q.fp[n].slot
    BY <1>3, <1>11, <2>1
  <2>7. PICK t : Saved(q, p, t, X, n)
    BY <2>2, <2>3, <2>6, EntrySaves
  <2> HIDE DEF p
  <2>8. p.res = "ok"
    BY <1>11, <2>1, <2>7 DEF Saved
  <2> DEFINE z == SyncFs(p)
  <2>9. /\ Done(v, z, X, n) /\ Base(z, X) /\ z.res \in {"ok", "disk"} /\ z.fp = q.fp
        /\ z.res = "ok" => Done(v, z, X \ {n}, n)
    BY <2>4, <2>5, <2>7, <2>8, SavedDone
  <2>10. w = z /\ q.fp[n].open
    BY <1>9, <1>11, <2>1 DEF FileSet
  <2> HIDE DEF w, z
  <2>11. Base(w, X) /\ Done(v, w, X, n) /\ w.res \in {"ok", "disk"} /\ w.fp[n].open /\ (w.res = "ok" => Done(v, w, X \ {n}, n))
    BY <2>9, <2>10
  <2> QED
    BY <2>11 DEF w
<1> QED
  BY <1>8, <1>10, <1>11, <1>3

-----------------------------------------------------------------------------
(* Chains as sequences: what Chain gives is the set Reach, in order.       *)
Linked(d, s, c) ==
  /\ c \in Seq(Clusters) /\ (Len(c) > 0 => c[1] = s)
  /\ \A i \in 1..Len(c) - 1 : FatOf(d, c[i]) = c[i + 1]
\* After i turns.
Hopping(d, s, x, i) ==
  /\ Linked(d, s, x.seq) /\ (Len(x.seq) = 0 => x.at = s)
  /\ Len(x.seq) > 0 => FatOf(d, x.seq[Len(x.seq)]) = x.at
  /\ x.at \in Clusters => FatOf(d, x.at) # 0 /\ Len(x.seq) = i

LEMMA HopHops ==
  ASSUME NEW d, NoGaps(d), NEW s, NEW i \in Nat, NEW x, Hopping(d, s, x, i)
  PROVE  Hopping(d, s, Hop(d, x), i + 1)
<1> DEFINE y == [at |-> FatOf(d, x.at), seq |-> Append(x.seq, x.at)]
<1>1. CASE x.at \notin Clusters
  <2>1. Hop(d, x) = x
    BY <1>1 DEF Hop
  <2> QED
    BY <1>1, <2>1 DEF Hopping
<1>2. CASE x.at \in Clusters
  <2>1. Hop(d, x) = y /\ Len(x.seq) = i /\ x.seq \in Seq(Clusters)
    BY <1>2 DEF Hop, Hopping, Linked
  <2>2. /\ y.seq \in Seq(Clusters) /\ Len(y.seq) = i + 1 /\ y.seq[i + 1] = x.at
        /\ \A j \in 1..i : y.seq[j] = x.seq[j]
    BY <1>2, <2>1
  <2>3. y.at = FatOf(d, x.at) /\ (y.at \in Clusters => FatOf(d, y.at) # 0)
    BY <1>2 DEF NoGaps
  <2> HIDE DEF y
  <2>4. y.seq[1] = s
    BY <2>1, <2>2 DEF Hopping, Linked
  <2>5. ASSUME NEW j \in 1..i PROVE FatOf(d, y.seq[j]) = y.seq[j + 1]
    <3>1. CASE j = i
      BY <2>1, <2>2, <3>1 DEF Hopping
    <3>2. CASE j < i
      <4>1. j \in 1..Len(x.seq) - 1 /\ j + 1 \in 1..i
        BY <2>1, <3>2
      <4> QED
        BY <2>2, <4>1 DEF Hopping, Linked
    <3> QED
      BY <3>1, <3>2
  <2>6. Hopping(d, s, y, i + 1)
    BY <2>2, <2>3, <2>4, <2>5 DEF Hopping, Linked
  <2> QED
    BY <2>1, <2>6
<1> QED
  BY <1>1, <1>2

\* It never comes to a cluster again.
LEMMA LinkedOnce ==
  ASSUME NEW d, NoJoins(d), NEW s, Leads(d, s), NEW c, Linked(d, s, c)
  PROVE  \A i, j \in 1..Len(c) : c[i] = c[j] => i = j
<1> DEFINE k == Len(c)
           T == {i \in 0..k : \A j \in 1..k : i \in 1..k /\ c[i] = c[j] => i = j}
<1>1. k \in Nat /\ \A i \in 1..k : c[i] \in Clusters
  BY DEF Linked
<1>2. \A i \in 1..k - 1 : FatOf(d, c[i]) = c[i + 1]
  BY DEF Linked
<1>3. \A j \in 1..k : c[j] = s => j = 1
  <2>1. ASSUME NEW j \in 1..k, c[j] = s, j # 1 PROVE FALSE
    <3>1. j - 1 \in 1..k - 1 /\ (j - 1) + 1 = j
      BY <1>1, <2>1
    <3>2. FatOf(d, c[j - 1]) = s /\ c[j - 1] \in Clusters
      BY <1>1, <1>2, <2>1, <3>1
    <3> QED
      BY <3>2 DEF Leads
  <2> QED
    BY <2>1
<1>4. 0 \in T
  BY <1>1
<1>5. ASSUME NEW i \in 0..k - 1, i \in T PROVE i + 1 \in T
  <2>1. i + 1 \in 0..k /\ i + 1 \in 1..k
    BY <1>1
  <2>2. ASSUME NEW j \in 1..k, c[i + 1] = c[j] PROVE i + 1 = j
    <3>1. CASE i = 0
      BY <1>1, <1>3, <2>1, <2>2, <3>1 DEF Linked
    <3>2. CASE i # 0 /\ j = 1
      <4>1. c[i + 1] = s
        BY <1>1, <2>2, <3>2 DEF Linked
      <4> QED
        BY <1>3, <2>1, <3>2, <4>1
    <3>3. CASE i # 0 /\ j # 1
      <4>1. i \in 1..k - 1 /\ j - 1 \in 1..k - 1 /\ (j - 1) + 1 = j /\ i \in 1..k /\ j - 1 \in 1..k
        BY <1>1, <2>1, <3>3
      <4>2. FatOf(d, c[i]) = c[i + 1] /\ FatOf(d, c[j - 1]) = c[j]
        BY <1>2, <4>1
      <4>3. c[i] = c[j - 1]
        BY <1>1, <2>1, <2>2, <4>1, <4>2 DEF NoJoins
      <4>4. i = j - 1
        BY <1>5, <4>1, <4>3
      <4> QED
        BY <4>1, <4>4
    <3> QED
      BY <3>1, <3>2, <3>3
  <2> QED
    BY <2>1, <2>2
<1> HIDE DEF T
<1>6. \A i \in 0..k : i \in T
  BY <1>1, <1>4, <1>5, Upwards
<1> QED
  <2>1. ASSUME NEW i \in 1..k, NEW j \in 1..k, c[i] = c[j] PROVE i = j
    <3>1. i \in T
      BY <1>1, <1>6
    <3> QED
      BY <2>1, <3>1 DEF T
  <2> QED
    BY <2>1

\* A chain in order, up to its end.
Ordered(d, s, c) ==
  /\ Linked(d, s, c) /\ Len(c) > 0 /\ FatOf(d, c[Len(c)]) \notin Clusters
  /\ \A i, j \in 1..Len(c) : c[i] = c[j] => i = j

\* There are not more clusters in it than there are.
LEMMA LinkedShort ==
  ASSUME NEW c, c \in Seq(Clusters), \A i, j \in 1..Len(c) : c[i] = c[j] => i = j,
         NEW x \in Clusters, \A i \in 1..Len(c) : c[i] # x
  PROVE  Len(c) < FatEntries
<1> DEFINE S == 1..Len(c)
           T == Clusters \ {x}
<1>1. IsFiniteSet(Clusters) /\ Cardinality(Clusters) = FatEntries
  BY FatNumbers, FS_Interval DEF Clusters, FatEntries
<1>2. IsFiniteSet(T) /\ Cardinality(T) = FatEntries - 1
  BY <1>1, FS_RemoveElement
<1>3. Len(c) \in Nat /\ IsFiniteSet(S) /\ Cardinality(S) = Len(c)
  <2> DEFINE m == Len(c)
  <2>1. m \in Nat
    OBVIOUS
  <2> HIDE DEF m
  <2>2. IsFiniteSet(1..m) /\ Cardinality(1..m) = IF 1 > m THEN 0 ELSE (m - 1) + 1
    BY <2>1, FS_Interval
  <2>3. (IF 1 > m THEN 0 ELSE (m - 1) + 1) = m
    BY <2>1
  <2> QED
    BY <2>1, <2>2, <2>3 DEF m
<1>4. c \in [S -> T]
  OBVIOUS
<1>5. ~(Cardinality(T) < Cardinality(S))
  <2> HIDE DEF T
  <2> SUFFICES ASSUME Cardinality(T) < Cardinality(S) PROVE FALSE
    OBVIOUS
  <2>1. \E i, j \in S : i # j /\ c[i] = c[j]
    BY <1>2, <1>3, <1>4, FS_PigeonHole
  <2> QED
    BY <2>1
<1>6. FatEntries \in Nat
  BY EntriesNat
<1> QED
  BY <1>2, <1>3, <1>5, <1>6

LEMMA ChainOrdered ==
  ASSUME NEW d, NoGaps(d), NoJoins(d), NEW s, Leads(d, s)
  PROVE  Ordered(d, s, Chain(d, s))
<1> DEFINE k == FatEntries
           a == [at |-> s, seq |-> <<>>]
           P(h) == h = [i \in 0..k |-> IF i = 0 THEN a ELSE Hop(d, h[i - 1])]
           h == CHOOSE x : P(x)
           c == h[k].seq
<1>1. Chain(d, s) = c
  BY DEF Chain, Turns
<1>2. Hopping(d, s, a, 0)
  BY DEF Hopping, Linked, Leads
<1>3. k \in Nat
  BY EntriesNat
<1> HIDE DEF k, a
<1>L1. PICK g : Runs("hop", d, a, k, g)
  BY RunExists, <1>3
<1>L2. P(g)
  BY <1>L1 DEF Runs, Turn
<1> HIDE DEF P
<1>L3. P(h)
  BY <1>L2, Zenon
<1> HIDE DEF h
<1>L4. \A i \in 0..k : h[i] = IF i = 0 THEN a ELSE Hop(d, h[i - 1])
  BY <1>L3 DEF P
<1> DEFINE T == {i \in 0..k : Hopping(d, s, h[i], i)}
<1>L5. 0 \in T
  <2>1. h[0] = a /\ 0 \in 0..k
    BY <1>L4, <1>3
  <2>2. Hopping(d, s, h[0], 0)
    BY <1>2, <2>1
  <2> QED
    BY <2>1, <2>2
<1>L6. ASSUME NEW i \in 0..k - 1, i \in T PROVE i + 1 \in T
  <2>1. i + 1 \in 0..k /\ h[i + 1] = Hop(d, h[i])
    <3>1. i + 1 \in 0..k /\ i + 1 # 0 /\ (i + 1) - 1 = i
      BY <1>3
    <3> QED
      BY <1>L4, <3>1
  <2>2. Hopping(d, s, h[i], i)
    BY <1>L6
  <2>3. Hopping(d, s, Hop(d, h[i]), i + 1)
    BY <2>2, HopHops
  <2> QED
    BY <2>1, <2>3
<1> HIDE DEF T
<1>L7. Hopping(d, s, h[k], k)
  <2>1. k \in T
    BY <1>L5, <1>L6, Upwards, <1>3
  <2> QED
    BY <2>1 DEF T
<1>4. Linked(d, s, c)
  BY <1>L7 DEF Hopping
<1>5. \A i, j \in 1..Len(c) : c[i] = c[j] => i = j
  BY <1>4, LinkedOnce
<1> DEFINE x == h[k].at
<1>6. x \notin Clusters
  <2> SUFFICES ASSUME x \in Clusters PROVE FALSE
    OBVIOUS
  <2>1. Len(c) = k /\ c \in Seq(Clusters) /\ \A i \in 1..Len(c) : c[i] \in Clusters
    BY <1>L7 DEF Hopping, Linked
  <2>2. ASSUME NEW i \in 1..Len(c), c[i] = x PROVE FALSE
    <3>1. FatOf(d, c[k]) = x /\ k \in 1..Len(c) /\ i \in 1..k
      BY <1>3, <1>L7, <2>1, <2>2 DEF Hopping
    <3>2. CASE i = 1
      <4>1. x = s
        BY <1>4, <2>2, <3>2 DEF Linked
      <4> QED
        BY <2>1, <3>1, <4>1 DEF Leads
    <3>3. CASE i # 1
      <4>1. i - 1 \in 1..Len(c) - 1 /\ (i - 1) + 1 = i /\ i - 1 \in 1..Len(c) /\ i - 1 # k
        BY <1>3, <2>1, <3>1, <3>3
      <4>2. FatOf(d, c[i - 1]) = x
        BY <1>4, <2>2, <4>1 DEF Linked
      <4>3. c[i - 1] = c[k]
        BY <2>1, <3>1, <4>1, <4>2 DEF NoJoins
      <4> QED
        BY <1>5, <3>1, <4>1, <4>3
    <3> QED
      BY <3>2, <3>3
  <2> HIDE DEF c, x
  <2>3. Len(c) < FatEntries
    BY <1>5, <2>1, <2>2, LinkedShort
  <2> QED
    BY <1>3, <2>1, <2>3 DEF k
<1>7. Len(c) > 0 /\ FatOf(d, c[Len(c)]) = x
  <2>1. Len(c) \in Nat /\ (Len(c) = 0 => x = s) /\ (Len(c) > 0 => FatOf(d, c[Len(c)]) = x)
    BY <1>L7 DEF Hopping, Linked
  <2>2. s \in Clusters
    BY DEF Leads
  <2> QED
    BY <1>6, <2>1, <2>2
<1>8. Ordered(d, s, c)
  BY <1>4, <1>5, <1>6, <1>7 DEF Ordered
<1> QED
  BY <1>1, <1>8

\* What it can reach is what is in it, from some place on what comes after that place.
LEMMA OrderedReach ==
  ASSUME NEW d, NEW s \in Clusters, NEW c, Ordered(d, s, c)
  PROVE  /\ Range(c) = Reach(d, s) /\ DOMAIN c = 1..Len(c) /\ Len(c) \in Nat
         /\ \A i \in 1..Len(c) : c[i] \in Clusters /\ Reach(d, c[i]) \subseteq {c[j] : j \in i..Len(c)}
<1> DEFINE k == Len(c)
<1>1. /\ k \in Nat /\ DOMAIN c = 1..k /\ (\A i \in 1..k : c[i] \in Clusters)
      /\ k > 0 /\ c[1] = s /\ FatOf(d, c[k]) \notin Clusters
      /\ \A i \in 1..k - 1 : FatOf(d, c[i]) = c[i + 1]
  BY DEF Ordered, Linked
<1> HIDE DEF k
<1>2. ASSUME NEW i \in 1..k PROVE Reach(d, c[i]) \subseteq {c[j] : j \in i..k}
  <2> DEFINE S == {c[j] : j \in i..k}
  <2>1. S \subseteq Clusters /\ c[i] \in S
    BY <1>1
  <2>2. ASSUME NEW x \in S, FatOf(d, x) \in Clusters PROVE FatOf(d, x) \in S
    <3>1. PICK j \in i..k : x = c[j]
      BY <2>2
    <3>2. j # k
      BY <1>1, <2>2, <3>1
    <3>3. j \in 1..k - 1 /\ j + 1 \in i..k
      <4> HIDE DEF S
      <4>1. k \in Nat
        BY <1>1
      <4>2. i \in 1..k /\ j \in i..k /\ j # k
        BY <3>2
      <4> QED
        BY <4>1, <4>2
    <3> QED
      BY <1>1, <3>1, <3>3
  <2>3. Follows(d, S)
    BY <2>2 DEF Follows
  <2> HIDE DEF S
  <2>4. Reach(d, c[i]) \subseteq S
    BY <2>1, <2>3, ReachLeast
  <2> QED
    BY <2>4 DEF S
<1>3. Reach(d, s) \subseteq Range(c)
  <2>1. 1 \in 1..k
    BY <1>1
  <2>2. Reach(d, c[1]) \subseteq {c[j] : j \in 1..k}
    BY <1>2, <2>1
  <2> QED
    BY <1>1, <2>2 DEF Range
<1>4. Range(c) \subseteq Reach(d, s)
  <2> DEFINE T == {i \in 0..k : i \in 1..k => c[i] \in Reach(d, s)}
  <2>1. 0 \in T
    BY <1>1
  <2>2. ASSUME NEW i \in 0..k - 1, i \in T PROVE i + 1 \in T
    <3>1. CASE i = 0
      BY <1>1, <3>1, ReachHas
    <3>2. CASE i # 0
      <4>1. i \in 1..k - 1 /\ i \in 1..k /\ i + 1 \in 1..k
        BY <1>1, <2>2, <3>2
      <4>2. FatOf(d, c[i]) = c[i + 1] /\ c[i] \in Reach(d, s) /\ c[i + 1] \in Clusters
        BY <1>1, <2>2, <4>1
      <4>3. c[i + 1] \in Reach(d, s)
        BY <4>2, ReachFollows DEF Follows
      <4> QED
        BY <4>1, <4>3
    <3> QED
      BY <3>1, <3>2
  <2> HIDE DEF T
  <2>3. \A i \in 0..k : i \in T
    BY <1>1, <2>1, <2>2, Upwards
  <2>4. ASSUME NEW i \in 1..k PROVE c[i] \in Reach(d, s)
    <3>1. i \in T
      BY <1>1, <2>3
    <3> QED
      BY <3>1 DEF T
  <2> QED
    BY <1>1, <2>4 DEF Range
<1> QED
  BY <1>1, <1>2, <1>3, <1>4 DEF k

-----------------------------------------------------------------------------
(* Between the calls.  Where the model's labels say that the volume can be *)
(* relied on, it is in order, the names that were truncated to nothing not *)
(* counted; the card by itself is, but for a rename that was cut short.    *)
Cutting == {n \in Names : cut[n]}
Orderly(v, X) == Rests(v, X) /\ Up(v) /\ Files(v, X) /\ Finding(v) /\ Asks(v)
\* What does not count is not relied on after a power cut, and is written when it is flushed.
CutMarked ==
  \A n \in Names : cut[n] =>
    safe[n] = Unsure /\ (fp[n].open /\ want[n].k # "unsure" => fp[n].written)
CardInOrder == ~twin => IsCard(disk) /\ Sane(disk, Cutting)
VolumeInOrder == Sound => Orderly(V, Cutting)
OrderInv == CutMarked /\ CardInOrder /\ VolumeInOrder

LEMMA TableIs ==
  ASSUME NEW d, NEW X, Sane(d, X)
  PROVE  Range(Table(d)) = Tab(d) /\ Ordered(d, Root, Table(d))
<1>1. NoGaps(d) /\ NoJoins(d) /\ Leads(d, Root) /\ Root \in Clusters
  BY SaneParts DEF Leads
<1>2. Ordered(d, Root, Chain(d, Root))
  BY <1>1, ChainOrdered
<1> QED
  BY <1>1, <1>2, OrderedReach DEF Table, Tab

LEMMA TornIs ==
  ASSUME NEW d, NEW X, Sane(d, X) PROVE Torn(d) <=> ~NotTorn(d)
BY TableIs DEF Torn, NotTorn, IsDir

LEMMA SeenIs == Seen = View(V)
BY VolumeIs DEF Seen, View, Over

\* What a call starts from.
Begins(v, X) ==
  /\ Base(v, X) /\ Up(v) /\ Files(v, X) /\ Finding(v) /\ Asks(v) /\ NotTorn(View(v))
  /\ v.res = "ok" /\ v.out = <<>> /\ IsIo(v.in) /\ v.left \in Int /\ v.fp = fp /\ v.find = find
  /\ \A n \in Names : Idle(v, n)
LEMMA EmptyIo == IsIo(<<>>) /\ AreCards(<<>>) /\ Len(<<>>) = 0
<1>1. <<>> \in Seq({})
  OBVIOUS
<1> QED
  BY <1>1 DEF IsIo, AreCards

LEMMA CallBegins ==
  ASSUME OrderInv, Sound, NEW bad \in Faults PROVE Begins(Volume(bad), Cutting)
<1> DEFINE v == Volume(bad)
           X == Cutting
<1>1. Rests(V, X) /\ Up(V) /\ Files(V, X) /\ Finding(V) /\ Asks(V)
  BY DEF OrderInv, VolumeInOrder, Orderly
<1>2. /\ v.disk = V.disk /\ v.win = V.win /\ v.fs = V.fs /\ v.fp = V.fp /\ v.find = V.find
      /\ v.bad = bad /\ v.io = <<>> /\ DOMAIN v = Fields /\ v.fp = fp /\ v.find = find
      /\ v.res = "ok" /\ v.out = <<>> /\ v.in = <<>> /\ v.left = 0
  BY DEF V, Volume, Record, Fields
<1>3. DOMAIN bad = {"at", "kept"} /\ bad.at \in Int
  BY StorageAssumption DEF Faults, NoFault
<1> HIDE DEF v
<1>4. Shape(v)
  BY <1>1, <1>2, <1>3, EmptyIo DEF Rests, Shape
<1>5. View(v) = View(V)
  BY <1>2 DEF View
<1>6. Base(v, X)
  BY <1>1, <1>2, <1>4, <1>5, EmptyIo DEF Base, Cards, Rests, Clean
<1>7. Up(v) /\ Finding(v) /\ Asks(v)
  BY <1>1, <1>2, <1>5 DEF Up, Finding, Asks
<1>8. Files(v, X)
  BY <1>1, <1>2, <1>5 DEF Files
<1>9. NotTorn(View(v))
  BY <1>1, <1>5, TornIs, SeenIs DEF Rests, Sound
<1>10. \A n \in Names : Idle(v, n)
  BY <1>2, <1>5, SeenIs DEF Idle, Sound, Stray
<1> QED
  BY <1>2, <1>6, <1>7, <1>8, <1>9, <1>10, EmptyIo DEF Begins, v

\* Nothing has been done on the card yet, which is in order.
Off(v, d) ==
  /\ v.disk = d /\ v.win = NoWindow /\ v.fs = Unmounted /\ v.fp = [n \in Names |-> NoFile]
  /\ v.find = NoFind /\ v.bad = NoFault /\ v.io = <<>> /\ DOMAIN v = Fields
LEMMA OffOrderly ==
  ASSUME NEW v, NEW d, Off(v, d), NEW X, IsCard(d), Sane(d, X)
  PROVE  Orderly(v, X) /\ View(v) = d
<1>1. /\ v.disk = d /\ v.win = NoWindow /\ v.fs = Unmounted /\ v.fp = [n \in Names |-> NoFile]
      /\ v.find = NoFind /\ v.bad = NoFault /\ v.io = <<>> /\ DOMAIN v = Fields
  BY DEF Off
<1>2. /\ v.win.sect = Nowhere /\ ~v.win.dirty /\ DOMAIN v.win = {"sect", "buf", "dirty"}
      /\ v.win.dirty \in BOOLEAN
  BY <1>1 DEF NoWindow
<1>a. ~v.fs.mounted /\ v.fs.mounted \in BOOLEAN /\ DOMAIN v.fs = {"mounted", "free", "last", "fsi"}
  BY <1>1 DEF Unmounted
<1>b. ~v.find.open /\ v.find.stay = {} /\ DOMAIN v.find = {"open", "pat", "at", "seen", "stay"}
  BY <1>1 DEF NoFind
<1>c. DOMAIN v.bad = {"at", "kept"} /\ v.bad.at \in Int
  BY <1>1 DEF NoFault
<1>d. IsObject(NoFile) /\ ~NoFile.open
  BY DEF NoFile, IsObject
<1>e. DOMAIN v.fp = Names /\ (\A n \in Names : ~v.fp[n].open /\ IsObject(v.fp[n]))
  BY <1>1, <1>d
<1>3. Shape(v)
  BY <1>1, <1>2, <1>a, <1>b, <1>c, <1>e, EmptyIo DEF Shape
<1>4. View(v) = d
  BY <1>1, <1>2 DEF View
<1>5. Clean(v)
  BY <1>2, SectorKinds DEF Clean, Shown
<1>6. Rests(v, X)
  BY <1>1, <1>3, <1>4, <1>5 DEF Rests
<1>7. Up(v) /\ Files(v, X) /\ Finding(v) /\ Asks(v)
  BY <1>2, <1>a, <1>b, <1>e DEF Up, Files, Finding, Asks
<1> QED
  BY <1>4, <1>6, <1>7 DEF Orderly

\* The power goes, and the card is in order.
LEMMA DarkOrderly ==
  ASSUME NEW d, NEW s, Dark(d, s), NEW X, IsCard(d), Sane(d, X) PROVE Orderly(V', X)
<1> DEFINE v == V'
<1>1. Off(v, d)
  BY DEF V, Volume, Record, Fields, Dark, Off
<1> HIDE DEF v
<1>2. Orderly(v, X)
  BY <1>1, OffOrderly
<1> QED
  BY <1>2 DEF v

\* A call is cut short by the power: every card that it left on its way is in order.
Darkens(w, touched, cutting) ==
  /\ \E i \in 1..Len(w.io) - 1 :
       Dark(w.io[i], [n \in Names |-> IF n \in touched THEN Unsure ELSE safe[n]])
  /\ cut' = [n \in Names |-> cut[n] \/ n \in cutting]
  /\ twin' = (Cardinality(touched) > 1)
LEMMA DarkensKeeps ==
  ASSUME OrderInv, NEW w, NEW touched, NEW cutting, cutting \subseteq touched,
         Darkens(w, touched, cutting), cutting \subseteq Names,
         Cardinality(touched) > 1 \/ Base(w, Cutting \cup cutting)
  PROVE  OrderInv'
<1>1. Cutting' = Cutting \cup cutting
  BY DEF Cutting, Darkens
<1>2. PICK i \in 1..Len(w.io) - 1 :
        Dark(w.io[i], [n \in Names |-> IF n \in touched THEN Unsure ELSE safe[n]])
  BY DEF Darkens
<1>3. /\ disk' = w.io[i] /\ fp' = [n \in Names |-> NoFile]
      /\ safe' = [n \in Names |-> IF n \in touched THEN Unsure ELSE safe[n]]
  BY <1>2 DEF Dark
<1>4. CutMarked'
  BY <1>3 DEF CutMarked, NoFile, Darkens, OrderInv
<1>5. CASE Cardinality(touched) > 1
  <2>1. twin' = TRUE
    BY <1>5 DEF Darkens
  <2> QED
    BY <1>4, <2>1 DEF OrderInv, CardInOrder, VolumeInOrder, Sound
<1>6. CASE Base(w, Cutting \cup cutting)
  <2>1. i \in 1..Len(w.io)
    <3>1. AreCards(w.io)
      BY <1>6 DEF Base, Shape
    <3>2. Len(w.io) \in Nat
      BY <3>1, IoMore DEF AreCards
    <3> QED
      BY <3>2
  <2>2. IsCard(disk') /\ Sane(disk', Cutting')
    BY <1>1, <1>3, <1>6, <2>1 DEF Base, Shape, AreCards, Cards
  <2>3. Orderly(V', Cutting')
    BY <1>2, <1>3, <2>2, DarkOrderly
  <2> QED
    BY <1>4, <2>2, <2>3 DEF OrderInv, CardInOrder, VolumeInOrder
<1> QED
  BY <1>5, <1>6

LEMMA PowerCutKeeps == ASSUME OrderInv, PowerCut PROVE OrderInv'
<1>1. Dark(disk, safe) /\ cut' = cut /\ twin' = twin
  BY DEF PowerCut
<1>2. disk' = disk /\ safe' = safe /\ fp' = [n \in Names |-> NoFile] /\ Cutting' = Cutting
  BY <1>1 DEF Dark, Cutting
<1>3. CutMarked' /\ CardInOrder'
  BY <1>1, <1>2 DEF OrderInv, CutMarked, CardInOrder, NoFile
<1>4. ~twin => Orderly(V', Cutting')
  <2>1. ASSUME ~twin PROVE Orderly(V', Cutting)
    <3>1. IsCard(disk) /\ Sane(disk, Cutting)
      BY <2>1 DEF OrderInv, CardInOrder
    <3> QED
      BY <1>1, <3>1, DarkOrderly
  <2> QED
    BY <1>2, <2>1
<1> QED
  BY <1>1, <1>3, <1>4 DEF OrderInv, VolumeInOrder, Sound

\* A call ends with w.
Spoils(w, touched, n) == w.res \in {"disk", "int"} /\ n \in touched
After(w, touched, known) ==
  [n \in Names |-> IF Spoils(w, touched, n) THEN Both(Unsure)
                   ELSE IF w.res = "ok" THEN known[n] ELSE Now[n]]
Settles(w, touched, cutting, known) ==
  LET after == After(w, touched, known)
  IN  /\ Leaves(w, {n \in touched : ~fp[n].open})
      /\ want' = [n \in Names |-> after[n].want]
      /\ safe' = [n \in Names |-> after[n].safe]
      /\ cut' = [n \in Names |-> (cut[n] /\ ~(n \in touched /\ after[n].safe # Unsure))
                                 \/ (n \in cutting /\ w.res \in {"ok", "disk", "int"})]
      /\ twin' = (Cardinality(touched) > 1 /\ \E n \in touched : Spoils(w, touched, n))
Called(w, touched, cutting, known) ==
  Sound /\ (Settles(w, touched, cutting, known) \/ Darkens(w, touched, cutting))

LEMMA LeavesIs ==
  ASSUME NEW w, NEW changed, Leaves(w, changed), NEW X, Rests(w, X)
  PROVE  /\ fp' = w.fp /\ disk' = w.disk /\ View(V') = View(w) /\ Rests(V', X)
         /\ V'.find.open = w.find.open /\ V'.find.at = w.find.at
         /\ V'.find.stay \ V'.find.seen = (w.find.stay \ w.find.seen) \ changed
         /\ Up(w) => Up(V')
         /\ Files(w, X) => Files(V', X)
         /\ Asks(w) => Asks(V')
<1> DEFINE v == V'
<1>1. /\ v.disk = w.disk /\ v.win = w.win /\ v.fs = w.fs /\ v.fp = w.fp /\ v.bad = NoFault
      /\ v.find = [w.find EXCEPT !.stay = @ \ changed] /\ v.io = <<>> /\ DOMAIN v = Fields
  BY DEF V, Volume, Record, Fields, Leaves
<1>2. fp' = w.fp /\ disk' = w.disk
  BY DEF Leaves
<1> HIDE DEF v
<1>3. Shape(w)
  BY DEF Rests
<1>4. DOMAIN w.find = {"open", "pat", "at", "seen", "stay"}
  BY <1>3 DEF Shape
<1>5. /\ v.find.open = w.find.open /\ v.find.at = w.find.at /\ v.find.pat = w.find.pat
      /\ v.find.seen = w.find.seen /\ v.find.stay = w.find.stay \ changed /\ DOMAIN v.find = DOMAIN w.find
  BY <1>1, <1>4
<1>6. DOMAIN v.bad = {"at", "kept"} /\ v.bad.at \in Int
  BY <1>1 DEF NoFault
<1>7. Shape(v)
  BY <1>1, <1>3, <1>5, <1>6, EmptyIo DEF Shape
<1>8. View(v) = View(w)
  BY <1>1 DEF View
<1>9. Rests(v, X)
  BY <1>1, <1>7, <1>8 DEF Rests, Clean
<1>10. (Up(w) => Up(v)) /\ (Files(w, X) => Files(v, X)) /\ (Asks(w) => Asks(v))
  BY <1>1, <1>5, <1>8 DEF Up, Files, Asks
<1> QED
  BY <1>2, <1>5, <1>8, <1>9, <1>10 DEF v

LEMMA Settled ==
  ASSUME NEW w, NEW changed, Leaves(w, changed), NEW Z, Rests(w, Z), Up(w), Files(w, Z), Finding(V'),
         Asks(w), Cutting' = Z, CutMarked'
  PROVE  OrderInv'
<1>1. disk' = w.disk /\ Rests(V', Z) /\ Up(V') /\ Files(V', Z) /\ Asks(V')
  BY LeavesIs
<1>2. Orderly(V', Cutting')
  BY <1>1 DEF Orderly
<1>3. CardInOrder'
  BY <1>1 DEF CardInOrder, Rests, Shape
<1>4. VolumeInOrder'
  BY <1>2 DEF VolumeInOrder
<1> QED
  BY <1>3, <1>4 DEF OrderInv

\* The names of a call that are closed count.
LEMMA NameLabels ==
  ASSUME OrderInv, Sound, NEW w, NEW touched, NEW known, Settles(w, touched, {}, known),
         touched \subseteq Names, \A m \in touched : ~fp[m].open,
         \A m \in Cutting : w.fp[m] = fp[m] /\ known[m] = Now[m]
  PROVE  Cutting' = Cutting /\ CutMarked'
<1>1. /\ want' = [n \in Names |-> After(w, touched, known)[n].want]
      /\ safe' = [n \in Names |-> After(w, touched, known)[n].safe]
      /\ cut' = [n \in Names |-> (cut[n] /\ ~(n \in touched /\ After(w, touched, known)[n].safe # Unsure))]
      /\ fp' = w.fp
  BY DEF Settles, Leaves
<1>2. \A n \in Names : cut[n] => n \notin touched
  BY DEF Sound
<1>3. \A n \in Names : cut'[n] <=> cut[n]
  BY <1>1, <1>2
<1>4. Cutting' = Cutting
  BY <1>3 DEF Cutting
<1>5. ASSUME NEW n \in Names, cut[n] PROVE want'[n] = want[n] /\ safe'[n] = safe[n] /\ fp'[n] = fp[n]
  <2>1. n \in Cutting
    BY <1>5 DEF Cutting
  <2>2. After(w, touched, known)[n] = Now[n]
    BY <1>2, <1>5, <2>1 DEF After, Spoils
  <2>3. Now[n].want = want[n] /\ Now[n].safe = safe[n]
    BY DEF Now
  <2>4. w.fp[n] = fp[n]
    BY <2>1
  <2>5. want'[n] = After(w, touched, known)[n].want /\ safe'[n] = After(w, touched, known)[n].safe
    BY <1>1
  <2> QED
    BY <1>1, <2>2, <2>3, <2>4, <2>5
<1>6. CutMarked'
  BY <1>3, <1>5 DEF CutMarked, OrderInv
<1> QED
  BY <1>4, <1>6

LEMMA FileLabels ==
  ASSUME OrderInv, Sound, NEW w, NEW n \in Names, NEW touched, touched \subseteq {n}, NEW known,
         Settles(w, touched, {}, known), \A m \in Names : m # n => w.fp[m] = fp[m] /\ known[m] = Now[m],
         n \in Cutting => known[n].safe = Unsure,
         known[n].want.k # "unsure" => want[n].k # "unsure", fp[n].open,
         fp[n].written => w.fp[n].written
  PROVE  Cutting' = Cutting /\ CutMarked'
<1> DEFINE after == After(w, touched, known)
<1>1. /\ want' = [m \in Names |-> after[m].want]
      /\ safe' = [m \in Names |-> after[m].safe]
      /\ cut' = [m \in Names |-> (cut[m] /\ ~(m \in touched /\ after[m].safe # Unsure))]
      /\ fp' = w.fp
  BY DEF Settles, Leaves
<1>2. \A m \in Names : m # n => after[m] = Now[m]
  BY DEF After, Spoils
<1>3. after[n] \in {Both(Unsure), known[n], Now[n]}
  BY DEF After
<1> HIDE DEF after
<1>a. \A m \in Names : Now[m].want = want[m] /\ Now[m].safe = safe[m]
  BY DEF Now
<1>b. Both(Unsure).want.k = "unsure" /\ Both(Unsure).safe = Unsure
  BY DEF Both, Unsure
<1>c. \A m \in Names : cut[m] => safe[m] = Unsure /\ (fp[m].open /\ want[m].k # "unsure" => fp[m].written)
  BY DEF OrderInv, CutMarked
<1>4. n \in Cutting => after[n].safe = Unsure
  BY <1>3, <1>a, <1>b, <1>c DEF Cutting
<1>5. after[n].want.k # "unsure" => want[n].k # "unsure"
  BY <1>3, <1>a, <1>b
<1>6. \A m \in Names : cut[m] => after[m].safe = Unsure
  BY <1>2, <1>4, <1>a, <1>c DEF Cutting
<1>7. \A m \in Names : cut'[m] <=> cut[m]
  BY <1>1, <1>6
<1>8. Cutting' = Cutting
  BY <1>7 DEF Cutting
<1>9. ASSUME NEW m \in Names, cut'[m], m # n
      PROVE  safe'[m] = Unsure /\ (fp'[m].open /\ want'[m].k # "unsure" => fp'[m].written)
  BY <1>1, <1>2, <1>7, <1>9, <1>a, <1>c
<1>10. ASSUME cut'[n] PROVE safe'[n] = Unsure /\ (fp'[n].open /\ want'[n].k # "unsure" => fp'[n].written)
  BY <1>1, <1>5, <1>6, <1>7, <1>10, <1>c
<1>11. CutMarked'
  BY <1>9, <1>10 DEF CutMarked
<1> QED
  BY <1>8, <1>11

LEMMA CalledKeeps ==
  ASSUME OrderInv, NEW w, NEW touched, NEW cutting, NEW known, Called(w, touched, cutting, known),
         cutting \subseteq touched, cutting \subseteq Names,
         Cardinality(touched) > 1 \/ Base(w, Cutting \cup cutting),
         Settles(w, touched, cutting, known) => OrderInv'
  PROVE  OrderInv'
BY DarkensKeeps DEF Called

LEMMA NameSettles ==
  ASSUME OrderInv, Sound, NEW bad \in Faults, NEW w, NEW touched, NEW known,
         Settles(w, touched, {}, known), touched \subseteq Names, \A m \in touched : ~fp[m].open,
         \A m \in Cutting : known[m] = Now[m], Rested(Volume(bad), w, Cutting, touched)
  PROVE  OrderInv'
<1> DEFINE v == Volume(bad)
           X == Cutting
<1>1. Begins(v, X)
  BY CallBegins
<1> HIDE DEF v, X
<1>2. Rested(v, w, X, touched)
  BY DEF v, X
<1>3. Leaves(w, touched)
  <2>1. {n \in touched : ~fp[n].open} = touched
    OBVIOUS
  <2> QED
    BY <2>1 DEF Settles
<1>4. w.fp = fp /\ v.fp = fp /\ w.find = v.find
  BY <1>1, <1>2 DEF Rested, Begins
<1>5. Cutting' = X /\ CutMarked'
  BY <1>4, NameLabels DEF X
<1>6. \A n \in Names : Idle(v, n) /\ (v.fp[n].open => n \notin touched)
  BY <1>1, <1>4 DEF Begins
<1>7. Files(w, X)
  BY <1>1, <1>2, <1>4, <1>6, FilesStay DEF Rested, Begins
<1>8. Asks(w)
  BY <1>1, <1>4 DEF Begins, Asks
<1>a. Rests(w, X) /\ Up(w) /\ Turned(View(v), View(w), X, touched) /\ Finding(v)
  BY <1>1, <1>2 DEF Rested, Begins
<1>9. Finding(V')
  <2>1. /\ View(V') = View(w) /\ V'.find.open = w.find.open /\ V'.find.at = w.find.at
        /\ V'.find.stay \ V'.find.seen = (w.find.stay \ w.find.seen) \ touched
    BY <1>3, <1>a, LeavesIs
  <2> DEFINE z == V'
  <2> HIDE DEF z
  <2>2. /\ View(z) = View(w) /\ z.find.open = w.find.open /\ z.find.at = w.find.at
        /\ z.find.stay \ z.find.seen \subseteq (w.find.stay \ w.find.seen) \ touched
    BY <2>1 DEF z
  <2>3. Finding(z)
    BY <1>4, <1>a, <2>2, FindingStays
  <2> QED
    BY <2>3 DEF z
<1> QED
  BY <1>3, <1>5, <1>7, <1>8, <1>9, <1>a, Settled

\* Every open file is still what it was, and so is the one that has been opened.
LEMMA OpensFiles ==
  ASSUME NEW v, NEW w, NEW X, NEW n \in Names, NEW touched, touched \subseteq {n}, ~v.fp[n].open, Files(v, X),
         Opens(v, w, X, n, touched), \A m \in Names : Idle(v, m)
  PROVE  Files(w, X)
<1>1. Turned(View(v), View(w), X, touched) /\ (\A m \in Names : m # n => w.fp[m] = v.fp[m])
  BY DEF Opens
<1>6. ASSUME NEW m \in Names, m # n, w.fp[m].open PROVE FileOK(View(w), m, w.fp[m], X)
  <2>1. FileOK(View(v), m, v.fp[m], X) /\ m \notin touched /\ (v.fp[m].dirty => FatOf(View(v), v.fp[m].dsect) # 0)
    BY <1>1, <1>6 DEF Files, Idle
  <2> QED
    BY <1>1, <1>6, <2>1, FileStays
<1>7. w.fp[n].open => FileOK(View(w), n, w.fp[n], X) /\ w.fp[n].sclust \in {0} \cup Own(View(w), {n}, X)
  BY DEF Opens
<1>8. ASSUME NEW m \in Names, m # n, w.fp[m].open, w.fp[n].open, w.fp[n].sclust = w.fp[m].sclust
      PROVE  w.fp[n].sclust = 0
  <2> SUFFICES ASSUME w.fp[n].sclust # 0 PROVE FALSE
    OBVIOUS
  <2>1. PICK t \in Clusters : /\ Claims(View(w), t, X) /\ EntryIn(View(w), t).name \in {n}
                              /\ w.fp[n].sclust = EntryIn(View(w), t).clust
    BY <1>7, <1>8 DEF Own
  <2>2. FileOK(View(w), m, w.fp[m], X)
    BY <1>6, <1>8
  <2>3. EntryIn(View(w), t).name = m
    BY <1>8, <2>1, <2>2 DEF FileOK, FileBase
  <2> QED
    BY <1>8, <2>1, <2>3
<1>9. ASSUME NEW k \in Names, NEW m \in Names, k # m, w.fp[k].open, w.fp[m].open, w.fp[k].sclust = w.fp[m].sclust
      PROVE  w.fp[m].sclust = 0
  BY <1>1, <1>8, <1>9 DEF Files
<1> QED
  BY <1>6, <1>7, <1>9 DEF Files

\* A file has been opened.
LEMMA OpensSettles ==
  ASSUME OrderInv, Sound, NEW bad \in Faults, NEW w, NEW touched, NEW known, NEW n \in Names, ~fp[n].open,
         Settles(w, touched, {}, known), touched \subseteq {n},
         \A m \in Cutting : known[m] = Now[m], Opens(Volume(bad), w, Cutting, n, touched)
  PROVE  OrderInv'
<1> DEFINE v == Volume(bad)
           X == Cutting
<1>1. Begins(v, X)
  BY CallBegins
<1>0. n \notin X
  BY DEF Cutting, Sound
<1> HIDE DEF v, X
<1>2. Opens(v, w, X, n, touched)
  BY DEF v, X
<1>3. Leaves(w, touched)
  <2>1. {m \in touched : ~fp[m].open} = touched
    OBVIOUS
  <2> QED
    BY <2>1 DEF Settles
<1>4. v.fp = fp /\ w.find = v.find /\ (\A m \in Names : m # n => w.fp[m] = fp[m])
  BY <1>1, <1>2 DEF Opens, Begins
<1>5. Cutting' = X /\ CutMarked'
  <2>1. \A m \in X : w.fp[m] = fp[m]
    BY <1>0, <1>4 DEF X, Cutting
  <2> QED
    BY <2>1, NameLabels DEF X
<1>a. /\ Rests(w, X) /\ Up(w) /\ Turned(View(v), View(w), X, touched) /\ Finding(v) /\ Files(v, X)
      /\ \A m \in Names : Idle(v, m)
  BY <1>1, <1>2, BaseRests DEF Opens, Begins
<1>10. Files(w, X)
  BY <1>2, <1>4, <1>a, OpensFiles
<1>11. Asks(w)
  BY <1>1, <1>4 DEF Begins, Asks
<1>12. Finding(V')
  <2>1. /\ View(V') = View(w) /\ V'.find.open = w.find.open /\ V'.find.at = w.find.at
        /\ V'.find.stay \ V'.find.seen = (w.find.stay \ w.find.seen) \ touched
    BY <1>3, <1>a, LeavesIs
  <2> DEFINE z == V'
  <2> HIDE DEF z
  <2>2. /\ View(z) = View(w) /\ z.find.open = w.find.open /\ z.find.at = w.find.at
        /\ z.find.stay \ z.find.seen \subseteq (w.find.stay \ w.find.seen) \ touched
    BY <2>1 DEF z
  <2>3. Finding(z)
    BY <1>4, <1>a, <2>2, FindingStays
  <2> QED
    BY <2>3 DEF z
<1> QED
  BY <1>3, <1>5, <1>10, <1>11, <1>12, <1>a, Settled

\* A call of a search ends.
LEMMA SearchSettles ==
  ASSUME OrderInv, Sound, NEW bad \in Faults, NEW w, NEW known,
         Settles(w, {}, {}, known), \A m \in Cutting : known[m] = Now[m],
         Searched(Volume(bad), w, Cutting)
  PROVE  OrderInv'
<1> DEFINE v == Volume(bad)
           X == Cutting
<1>1. Begins(v, X)
  BY CallBegins
<1> HIDE DEF v, X
<1>2. Searched(v, w, X)
  BY DEF v, X
<1>3. Leaves(w, {})
  <2>1. {n \in {} : ~fp[n].open} = {}
    OBVIOUS
  <2> QED
    BY <2>1 DEF Settles
<1>4. w.fp = fp /\ v.fp = fp /\ View(w) = View(v) /\ Rests(w, X) /\ Up(w) /\ Finding(w) /\ Asks(w)
  BY <1>1, <1>2, BaseRests DEF Searched, Begins
<1>5. Cutting' = X /\ CutMarked'
  BY <1>4, NameLabels DEF X
<1>6. Files(w, X)
  BY <1>1, <1>4 DEF Begins, Files
<1>7. Finding(V')
  <2>1. /\ View(V') = View(w) /\ V'.find.open = w.find.open /\ V'.find.at = w.find.at
        /\ V'.find.stay \ V'.find.seen = w.find.stay \ w.find.seen
    BY <1>3, <1>4, LeavesIs
  <2> DEFINE z == V'
  <2> HIDE DEF z
  <2>2. /\ View(z) = View(w) /\ z.find.open = w.find.open /\ z.find.at = w.find.at
        /\ z.find.stay \ z.find.seen = w.find.stay \ w.find.seen
    BY <2>1 DEF z
  <2>3. Finding(z)
    BY <1>4, <2>2 DEF Finding
  <2> QED
    BY <2>3 DEF z
<1> QED
  BY <1>3, <1>4, <1>5, <1>6, <1>7, Settled

\* A call on an open file ends.
LEMMA FileSettles ==
  ASSUME OrderInv, Sound, NEW bad \in Faults, NEW w, NEW n \in Names, fp[n].open, NEW touched,
         touched \subseteq {n}, Leaves(w, {m \in touched : ~fp[m].open}), NEW Z,
         Done(Volume(bad), w, Z, n), Cutting \subseteq Z \cup {n}, Cutting' = Z, CutMarked'
  PROVE  OrderInv'
<1> DEFINE v == Volume(bad)
           X == Cutting
<1>1. Begins(v, X)
  BY CallBegins
<1> HIDE DEF v, X
<1>2. Done(v, w, Z, n) /\ X \subseteq Z \cup {n}
  BY DEF v, X
<1>3. Leaves(w, {})
  <2>1. {m \in touched : ~fp[m].open} = {}
    OBVIOUS
  <2> QED
    BY <2>1
<1>4. v.fp = fp /\ w.find = v.find /\ Rests(w, Z) /\ w.fs.mounted = v.fs.mounted
  BY <1>1, <1>2 DEF Done, Begins
<1>5. Up(w) /\ Asks(w)
  BY <1>1, <1>4 DEF Up, Asks, Begins
<1>6. Files(w, Z)
  BY <1>1, <1>2, <1>4, FilesDone DEF Begins
<1>7. Finding(V')
  <2>1. /\ View(V') = View(w) /\ V'.find.open = w.find.open /\ V'.find.at = w.find.at
        /\ V'.find.stay \ V'.find.seen = w.find.stay \ w.find.seen
    BY <1>3, <1>4, LeavesIs
  <2> DEFINE z == V'
  <2> HIDE DEF z
  <2>2. /\ View(z) = View(w) /\ z.find.open = w.find.open /\ z.find.at = w.find.at
        /\ z.find.stay \ z.find.seen \subseteq w.find.stay \ w.find.seen
    BY <2>1 DEF z
  <2>3. Finding(z)
    BY <1>1, <1>2, <2>2, FindingDone DEF Begins
  <2> QED
    BY <2>3 DEF z
<1> QED
  BY <1>3, <1>4, <1>5, <1>6, <1>7, Settled

-----------------------------------------------------------------------------
(* The calls keep the order, one by one.                                   *)
LEMMA OnlyIs ==
  ASSUME NEW n \in Names, NEW x
  PROVE  Only(n, x)[n] = x /\ \A m \in Names : m # n => Only(n, x)[m] = Now[m]
BY DEF Only, Now
LEMMA SureIs ==
  ASSUME NEW n \in Names, NEW y
  PROVE  /\ Sure(n, Pending(y)).safe = Unsure
         /\ Sure(n, Pending(y)).want.k # "unsure" => want[n].k # "unsure"
<1>1. Pending(y).safe = Unsure /\ Pending(Unsure).safe = Unsure /\ Pending(Unsure).want.k = "unsure"
  BY DEF Pending, Unsure
<1>2. CASE Is(n, "file")
  BY <1>1, <1>2 DEF Sure, Is
<1>3. CASE ~Is(n, "file")
  BY <1>1, <1>3 DEF Sure
<1> QED
  BY <1>2, <1>3
LEMMA NowIs ==
  ASSUME OrderInv, NEW n \in Names
  PROVE  (n \in Cutting => Now[n].safe = Unsure) /\ (Now[n].want.k # "unsure" => want[n].k # "unsure")
BY DEF Now, OrderInv, CutMarked, Cutting
LEMMA DataIsIo == ASSUME NEW cnt \in Nat PROVE IsIo(Data(cnt))
<1>1. Data(cnt) \in Seq({ops + 2})
  BY DEF Data
<1> QED
  BY <1>1 DEF IsIo

LEMMA FileBegins ==
  ASSUME NEW v, NEW X, Begins(v, X), NEW n \in Names, fp[n].open
  PROVE  /\ Tends(v, v, X, n) /\ Others(v, n) /\ Reworked(v, v, X, n) /\ v.fp[n].open
         /\ v.res = "ok" /\ v.left \in Int /\ IsIo(v.in) /\ Files(v, X) /\ Base(v, X)
<1>1. /\ v.fp = fp /\ Files(v, X) /\ Base(v, X) /\ v.res = "ok" /\ v.left \in Int /\ IsIo(v.in)
  BY DEF Begins
<1>2. Reworked(v, v, X, n) /\ Others(v, n)
  BY <1>1, FilesSelf
<1>3. Works(v, v, X, n)
  BY <1>2, SelfWorks
<1>4. FileOK(View(v), n, v.fp[n], X)
  BY <1>1 DEF Files
<1> QED
  BY <1>1, <1>2, <1>3, <1>4 DEF Tends, FileOK

LEMMA TendsSettles ==
  ASSUME OrderInv, Sound, NEW bad \in Faults, NEW w, NEW n \in Names, fp[n].open, NEW touched,
         touched \subseteq {n}, NEW known, Settles(w, touched, {}, known),
         Tends(Volume(bad), w, Cutting, n), \A m \in Names : m # n => known[m] = Now[m],
         n \in Cutting => known[n].safe = Unsure, known[n].want.k # "unsure" => want[n].k # "unsure"
  PROVE  OrderInv'
<1> DEFINE v == Volume(bad)
           X == Cutting
<1>1. Begins(v, X)
  BY CallBegins
<1> HIDE DEF v, X
<1>2. Tends(v, w, X, n)
  BY DEF v, X
<1>3. Done(v, w, X, n)
  BY <1>1, <1>2, FileBegins, TendsDone
<1>4. v.fp = fp /\ (\A m \in Names : m # n => w.fp[m] = fp[m]) /\ (fp[n].written => w.fp[n].written)
  BY <1>1, <1>2 DEF Begins, Tends, Works
<1>5. Cutting' = X /\ CutMarked'
  BY <1>4, FileLabels DEF X
<1>6. Leaves(w, {m \in touched : ~fp[m].open})
  BY DEF Settles
<1>7. Cutting \subseteq X \cup {n}
  BY DEF X
<1> QED
  BY <1>3, <1>5, <1>6, <1>7, FileSettles DEF v

LEMMA TendsKeeps ==
  ASSUME OrderInv, NEW bad \in Faults, NEW w, NEW n \in Names, fp[n].open, NEW touched,
         touched \subseteq {n}, NEW known, Called(w, touched, {}, known),
         Sound => Tends(Volume(bad), w, Cutting, n), \A m \in Names : m # n => known[m] = Now[m],
         n \in Cutting => known[n].safe = Unsure, known[n].want.k # "unsure" => want[n].k # "unsure"
  PROVE  OrderInv'
<1>1. Sound /\ Tends(Volume(bad), w, Cutting, n)
  BY DEF Called
<1>2. Base(w, Cutting \cup {})
  BY <1>1 DEF Tends, Works
<1>3. Settles(w, touched, {}, known) => OrderInv'
  BY <1>1, TendsSettles
<1> QED
  BY <1>2, <1>3, CalledKeeps

LEMMA SeekTends ==
  ASSUME NEW v, NEW X, Begins(v, X), NEW n \in Names, fp[n].open, NEW to \in Nat
  PROVE  LET w == [FLseek(v, n, to) EXCEPT !.res = "ok"]
         IN  Tends(v, w, X, n) /\ w.res = "ok" /\ w.left \in Int /\ IsIo(w.in)
<1> DEFINE x == FLseek(v, n, to)
<1>1. Tends(v, x, X, n) /\ x.left \in Int /\ IsIo(x.in)
  BY FileBegins, FLseekTends
<1> HIDE DEF x
<1>2. DOMAIN x = Fields
  BY <1>1, ObjectHas DEF Tends
<1>3. Tends(v, Fail(x, "ok"), X, n)
  BY <1>1, CheckedFails
<1>4. Fail(x, "ok") = [x EXCEPT !.res = "ok"]
  BY DEF Fail
<1> QED
  BY <1>1, <1>2, <1>3, <1>4 DEF x, Fields

LEMMA WriteOrders ==
  ASSUME OrderInv, NEW n \in Names, NEW cnt \in Nat, Write(n, cnt) PROVE OrderInv'
<1>1. fp[n].open
  BY DEF Write, Open
<1> DEFINE F(v) == FWrite(v, n, Data(cnt))
           K(v) == Only(n, Sure(n, Pending(Written(n, fp[n].ptr, Data(v.fp[n].ptr - fp[n].ptr)))))
<1>2. PICK bad \in Faults : Called(F(Volume(bad)), {n}, {}, K(F(Volume(bad))))
  BY DEF Write, Call, Called, Settles, Darkens, After, Spoils
<1>3. ASSUME Sound PROVE Tends(Volume(bad), F(Volume(bad)), Cutting, n)
  BY <1>1, <1>3, CallBegins, FileBegins, FWriteTends, DataIsIo
<1> DEFINE known == K(F(Volume(bad)))
<1>4. /\ \A m \in Names : m # n => known[m] = Now[m]
      /\ known[n].safe = Unsure /\ (known[n].want.k # "unsure" => want[n].k # "unsure")
  BY OnlyIs, SureIs
<1>5. Called(F(Volume(bad)), {n}, {}, known)
  BY <1>2
<1> HIDE DEF F, known
<1> QED
  BY <1>1, <1>3, <1>4, <1>5, TendsKeeps

LEMMA WriteSeekOrders ==
  ASSUME OrderInv, NEW n \in Names, NEW to \in Nat, NEW cnt \in Nat, WriteSeek(n, to, cnt)
  PROVE  OrderInv'
<1>1. fp[n].open
  BY DEF WriteSeek, Open
<1> DEFINE F(v) == FWrite([FLseek(v, n, to) EXCEPT !.res = "ok"], n, Data(cnt))
           K(v) == Only(n, Sure(n, LET cnt2 == v.fp[n].ptr - to IN
                      Pending(IF cnt2 < 0 THEN Unsure ELSE Written(n, to, Data(cnt2)))))
<1>2. PICK bad \in Faults : Called(F(Volume(bad)), {n}, {}, K(F(Volume(bad))))
  BY DEF WriteSeek, Call, Called, Settles, Darkens, After, Spoils
<1>3. ASSUME Sound PROVE Tends(Volume(bad), F(Volume(bad)), Cutting, n)
  BY <1>1, <1>3, CallBegins, FileBegins, SeekTends, FWriteTends, DataIsIo
<1> DEFINE known == K(F(Volume(bad)))
<1>4. /\ \A m \in Names : m # n => known[m] = Now[m]
      /\ known[n].safe = Unsure /\ (known[n].want.k # "unsure" => want[n].k # "unsure")
  BY OnlyIs, SureIs
<1>5. Called(F(Volume(bad)), {n}, {}, known)
  BY <1>2
<1> HIDE DEF F, known
<1> QED
  BY <1>1, <1>3, <1>4, <1>5, TendsKeeps

LEMMA ReadOrders ==
  ASSUME OrderInv, NEW n \in Names, NEW cnt \in Nat, Read(n, cnt) PROVE OrderInv'
<1>1. fp[n].open
  BY DEF Read, Open
<1> DEFINE F(v) == FRead(v, n, cnt)
<1>2. PICK bad \in Faults : Called(F(Volume(bad)), {}, {}, Now)
  BY DEF Read, Call, Called, Settles, Darkens, After, Spoils, Nothing
<1>3. ASSUME Sound PROVE Tends(Volume(bad), F(Volume(bad)), Cutting, n)
  BY <1>1, <1>3, CallBegins, FileBegins, FReadTends
<1> QED
  BY <1>1, <1>2, <1>3, NowIs, TendsKeeps

LEMMA ReadSeekOrders ==
  ASSUME OrderInv, NEW n \in Names, NEW to \in Nat, NEW cnt \in Nat, ReadSeek(n, to, cnt)
  PROVE  OrderInv'
<1>1. fp[n].open
  BY DEF ReadSeek, Open
<1> DEFINE F(v) == FRead([FLseek(v, n, to) EXCEPT !.res = "ok"], n, cnt)
<1>2. PICK bad \in Faults : Called(F(Volume(bad)), {}, {}, Now)
  BY DEF ReadSeek, Call, Called, Settles, Darkens, After, Spoils, Nothing
<1>3. ASSUME Sound PROVE Tends(Volume(bad), F(Volume(bad)), Cutting, n)
  BY <1>1, <1>3, CallBegins, SeekTends, FReadTends
<1> QED
  BY <1>1, <1>2, <1>3, NowIs, TendsKeeps

LEMMA SetPointerOrders ==
  ASSUME OrderInv, NEW n \in Names, NEW to \in Nat, SetPointer(n, to) PROVE OrderInv'
<1>1. fp[n].open
  BY DEF SetPointer, Open
<1> DEFINE F(v) == FLseek(v, n, to)
           K(v) == Only(n, IF v.fp[n].size = fp[n].size THEN Now[n]
                           ELSE Sure(n, Pending(Written(n, v.fp[n].size, <<>>))))
<1>2. PICK bad \in Faults : Called(F(Volume(bad)), {n}, {}, K(F(Volume(bad))))
  BY DEF SetPointer, Call, Called, Settles, Darkens, After, Spoils
<1>3. ASSUME Sound PROVE Tends(Volume(bad), F(Volume(bad)), Cutting, n)
  BY <1>1, <1>3, CallBegins, FileBegins, FLseekTends
<1> DEFINE w == F(Volume(bad))
           x == Sure(n, Pending(Written(n, w.fp[n].size, <<>>)))
           known == Only(n, IF w.fp[n].size = fp[n].size THEN Now[n] ELSE x)
<1>4. x.safe = Unsure /\ (x.want.k # "unsure" => want[n].k # "unsure")
  BY SureIs
<1>5. Called(w, {n}, {}, known)
  BY <1>2
<1>6. Sound => Tends(Volume(bad), w, Cutting, n)
  BY <1>3
<1> HIDE DEF w, x
<1>7. known[n] \in {Now[n], x} /\ (\A m \in Names : m # n => known[m] = Now[m])
  BY OnlyIs
<1> HIDE DEF known
<1>8. (n \in Cutting => known[n].safe = Unsure) /\ (known[n].want.k # "unsure" => want[n].k # "unsure")
  BY <1>4, <1>7, NowIs
<1> QED
  BY <1>1, <1>5, <1>6, <1>7, <1>8, TendsKeeps

\* A flush that succeeds makes the name count again.
LEMMA SyncedSettles ==
  ASSUME OrderInv, Sound, NEW bad \in Faults, NEW w, NEW n \in Names, fp[n].open,
         Settles(w, {n}, {}, Only(n, Kept(n))), w.res \in {"ok", "disk"},
         Done(Volume(bad), w, Cutting, n),
         w.res = "ok" /\ fp[n].written => Done(Volume(bad), w, Cutting \ {n}, n)
  PROVE  OrderInv'
<1> DEFINE known == Only(n, Kept(n))
           after == After(w, {n}, known)
           good == w.res = "ok" /\ want[n].k # "unsure"
           Z == IF good THEN Cutting \ {n} ELSE Cutting
<1>1. /\ want' = [m \in Names |-> after[m].want]
      /\ safe' = [m \in Names |-> after[m].safe]
      /\ cut' = [m \in Names |-> (cut[m] /\ ~(m \in {n} /\ after[m].safe # Unsure))]
      /\ fp' = w.fp /\ Leaves(w, {m \in {n} : ~fp[m].open})
  BY DEF Settles, Leaves
<1>2. \A m \in Names : m # n => after[m] = Now[m]
  BY OnlyIs DEF After, Spoils
<1>3. /\ w.res = "disk" => after[n] = Both(Unsure)
      /\ w.res = "ok" => after[n] = Kept(n)
  BY OnlyIs DEF After, Spoils
<1> HIDE DEF after
<1>a. \A m \in Names : Now[m].want = want[m] /\ Now[m].safe = safe[m]
  BY DEF Now
<1>b. Both(Unsure).want.k = "unsure" /\ Both(Unsure).safe = Unsure /\ Unsure.k = "unsure"
  BY DEF Both, Unsure
<1>c. \A m \in Names : cut[m] => safe[m] = Unsure /\ (fp[m].open /\ want[m].k # "unsure" => fp[m].written)
  BY DEF OrderInv, CutMarked
<1>d. \A m \in Names : m # n => w.fp[m] = Volume(bad).fp[m]
  BY DEF Done
<1>e. Volume(bad).fp = fp
  BY CallBegins DEF Begins
<1>4. good => after[n].safe # Unsure
  <2>1. ASSUME good PROVE after[n] = Both(want[n])
    BY <1>3, <2>1 DEF Kept, Is
  <2>2. Both(want[n]).safe = want[n]
    BY DEF Both
  <2> QED
    BY <1>b, <2>1, <2>2
<1>5. ~good => after[n].want.k = "unsure" /\ (cut[n] => after[n].safe = Unsure)
  <2>1. CASE w.res = "disk"
    BY <1>3, <1>b, <2>1
  <2>2. CASE w.res = "ok" /\ want[n].k = "unsure"
    <3>1. after[n] = Now[n]
      BY <1>3, <2>2 DEF Kept, Is
    <3> QED
      BY <1>a, <1>c, <2>2, <3>1
  <2> QED
    BY <2>1, <2>2
<1> HIDE DEF good
<1>6. \A m \in Names : cut'[m] <=> cut[m] /\ (m = n => ~good)
  BY <1>1, <1>4, <1>5
<1>7. Cutting' = Z
  BY <1>6 DEF Cutting
<1>8. ASSUME NEW m \in Names, cut'[m]
      PROVE  safe'[m] = Unsure /\ (fp'[m].open /\ want'[m].k # "unsure" => fp'[m].written)
  <2>1. CASE m = n
    BY <1>1, <1>5, <1>6, <1>8, <2>1
  <2>2. CASE m # n
    BY <1>1, <1>2, <1>6, <1>8, <1>a, <1>c, <1>d, <1>e, <2>2
  <2> QED
    BY <2>1, <2>2
<1>9. CutMarked'
  BY <1>8 DEF CutMarked
<1>10. Done(Volume(bad), w, Z, n)
  <2>1. ASSUME good, n \in Cutting PROVE Done(Volume(bad), w, Cutting \ {n}, n)
    BY <1>c, <2>1 DEF Cutting, good
  <2>2. n \notin Cutting => Cutting \ {n} = Cutting
    OBVIOUS
  <2>3. Z = Cutting \/ (Z = Cutting \ {n} /\ good)
    OBVIOUS
  <2> HIDE DEF Z
  <2> QED
    BY <2>1, <2>2, <2>3
<1>11. Cutting \subseteq Z \cup {n}
  OBVIOUS
<1>12. Leaves(w, {m \in {n} : ~fp[m].open}) /\ {n} \subseteq {n}
  BY <1>1
<1> HIDE DEF Z
<1> QED
  BY <1>7, <1>9, <1>10, <1>11, <1>12, FileSettles

LEMMA FlushOrders == ASSUME OrderInv, NEW n \in Names, Flush(n) PROVE OrderInv'
<1>1. fp[n].open
  BY DEF Flush, Open
<1>2. PICK bad \in Faults : Called(FSync(Volume(bad), n), {n}, {}, Only(n, Kept(n)))
  BY DEF Flush, Call, Called, Settles, Darkens, After, Spoils
<1> DEFINE v == Volume(bad)
           w == FSync(v, n)
           X == Cutting
<1>3. Sound /\ Begins(v, X)
  BY <1>2, CallBegins DEF Called
<1> HIDE DEF v, X
<1>4. v.fp = fp
  BY <1>3 DEF Begins
<1>5. /\ Base(w, X) /\ Done(v, w, X, n) /\ w.res \in {"ok", "disk"}
      /\ w.res = "ok" /\ fp[n].written => Done(v, w, X \ {n}, n)
  BY <1>1, <1>3, <1>4, FileBegins, FSyncDone
<1> HIDE DEF w
<1>6. Settles(w, {n}, {}, Only(n, Kept(n))) => OrderInv'
  BY <1>1, <1>3, <1>5, SyncedSettles DEF v, X
<1>7. Base(w, Cutting \cup {})
  BY <1>5 DEF X
<1>8. Called(w, {n}, {}, Only(n, Kept(n)))
  BY <1>2 DEF w, v
<1> QED
  BY <1>6, <1>7, <1>8, CalledKeeps

LEMMA ClosedDone ==
  ASSUME NEW w, NEW X, Base(w, X), NEW n \in Names
  PROVE  LET x == [w EXCEPT !.fp[n] = NoFile]
         IN  /\ Base(x, X) /\ x.res = w.res /\ \A v, Z : Done(v, w, Z, n) => Done(v, x, Z, n)
<1> DEFINE x == [w EXCEPT !.fp[n] = NoFile]
<1>1. Shape(w)
  BY DEF Base
<1>a. DOMAIN w = Fields /\ DOMAIN w.fp = Names
  BY <1>1 DEF Shape
<1>2. /\ DOMAIN x = Fields /\ x.win = w.win /\ x.disk = w.disk /\ x.io = w.io /\ x.bad = w.bad
      /\ x.fs = w.fs /\ x.find = w.find /\ DOMAIN x.fp = Names /\ x.fp[n] = NoFile
      /\ x.res = w.res /\ \A m \in Names : m # n => x.fp[m] = w.fp[m]
  BY <1>a DEF Fields
<1> HIDE DEF x
<1>3. IsObject(NoFile) /\ ~NoFile.open
  BY DEF IsObject, NoFile
<1>b. \A m \in Names : IsObject(x.fp[m])
  BY <1>1, <1>2, <1>3 DEF Shape
<1>4. Shape(x)
  BY <1>1, <1>2, <1>b DEF Shape
<1>5. Base(x, X) /\ View(x) = View(w)
  BY <1>2, <1>4, BaseSame
<1>6. ASSUME NEW v, NEW Z, Done(v, w, Z, n) PROVE Done(v, x, Z, n)
  <2>1. Rests(x, Z)
    BY <1>2, <1>4, <1>5, <1>6 DEF Done, Rests, Clean
  <2> QED
    BY <1>2, <1>3, <1>5, <1>6, <2>1 DEF Done
<1> QED
  BY <1>2, <1>5, <1>6 DEF x

LEMMA CloseOrders == ASSUME OrderInv, NEW n \in Names, Close(n) PROVE OrderInv'
<1>1. fp[n].open
  BY DEF Close, Open
<1> DEFINE Shuts(y) == [y EXCEPT !.fp[n] = NoFile]
<1>2. PICK bad \in Faults : Called(Shuts(FSync(Volume(bad), n)), {n}, {}, Only(n, Kept(n)))
  BY DEF Close, Call, Called, Settles, Darkens, After, Spoils
<1> DEFINE v == Volume(bad)
           u == FSync(v, n)
           w == Shuts(u)
           X == Cutting
<1>3. Sound /\ Begins(v, X)
  BY <1>2, CallBegins DEF Called
<1> HIDE DEF v, X
<1>4. v.fp = fp
  BY <1>3 DEF Begins
<1>5. /\ Base(u, X) /\ Done(v, u, X, n) /\ u.res \in {"ok", "disk"}
      /\ u.res = "ok" /\ fp[n].written => Done(v, u, X \ {n}, n)
  BY <1>1, <1>3, <1>4, FileBegins, FSyncDone
<1> HIDE DEF u
<1>a. /\ Base(w, X) /\ w.res = u.res /\ \A Z : Done(v, u, Z, n) => Done(v, w, Z, n)
  BY <1>5, ClosedDone
<1>8. Called(w, {n}, {}, Only(n, Kept(n)))
  BY <1>2 DEF w, v, u
<1> HIDE DEF w
<1>6. Settles(w, {n}, {}, Only(n, Kept(n))) => OrderInv'
  BY <1>1, <1>3, <1>5, <1>a, SyncedSettles DEF v, X
<1>7. Base(w, Cutting \cup {})
  BY <1>a DEF X
<1> QED
  BY <1>6, <1>7, <1>8, CalledKeeps

\* A file that was cut to nothing does not count, until it is flushed.
LEMMA CutSettles ==
  ASSUME OrderInv, Sound, NEW bad \in Faults, NEW w, NEW n \in Names, fp[n].open,
         NEW C, C \subseteq {n}, NEW x, Settles(w, {n}, C, Only(n, x)),
         x.safe = Unsure \/ (x = Now[n] /\ C = {}), x.want.k # "unsure" => want[n].k # "unsure",
         Done(Volume(bad), w, Cutting \cup C, n), w.res \notin Results => Done(Volume(bad), w, Cutting, n),
         fp[n].written => w.fp[n].written, C = {n} /\ w.res = "ok" => w.fp[n].written
  PROVE  OrderInv'
<1> DEFINE after == After(w, {n}, Only(n, x))
           Z == IF w.res \in Results THEN Cutting \cup C ELSE Cutting
<1>1. /\ want' = [m \in Names |-> after[m].want]
      /\ safe' = [m \in Names |-> after[m].safe]
      /\ cut' = [m \in Names |-> (cut[m] /\ ~(m \in {n} /\ after[m].safe # Unsure))
                                 \/ (m \in C /\ w.res \in Results)]
      /\ fp' = w.fp /\ Leaves(w, {m \in {n} : ~fp[m].open})
  BY DEF Settles, Leaves, Results
<1>2. \A m \in Names : m # n => after[m] = Now[m]
  BY OnlyIs DEF After, Spoils
<1>3. /\ w.res \in {"disk", "int"} => after[n] = Both(Unsure)
      /\ w.res = "ok" => after[n] = x
      /\ w.res \notin Results => after[n] = Now[n]
  BY OnlyIs DEF After, Spoils, Results
<1> HIDE DEF after
<1>a. \A m \in Names : Now[m].want = want[m] /\ Now[m].safe = safe[m]
  BY DEF Now
<1>b. Both(Unsure).want.k = "unsure" /\ Both(Unsure).safe = Unsure
  BY DEF Both, Unsure
<1>c. \A m \in Names : cut[m] => safe[m] = Unsure /\ (fp[m].open /\ want[m].k # "unsure" => fp[m].written)
  BY DEF OrderInv, CutMarked
<1>d. \A m \in Names : m # n => w.fp[m] = Volume(bad).fp[m]
  BY DEF Done
<1>e. Volume(bad).fp = fp
  BY CallBegins DEF Begins
<1>4. w.res \in {"disk", "int"} \/ w.res = "ok" \/ w.res \notin Results
  BY DEF Results
<1>5. (cut[n] \/ (C = {n} /\ w.res \in Results)) => after[n].safe = Unsure
  BY <1>3, <1>4, <1>a, <1>b, <1>c
<1>6. /\ cut[n] \/ (C = {n} /\ w.res \in Results)
      /\ after[n].want.k # "unsure"
      => w.fp[n].written
  <2> SUFFICES ASSUME cut[n] \/ (C = {n} /\ w.res \in Results), after[n].want.k # "unsure"
               PROVE  w.fp[n].written
    OBVIOUS
  <2>1. ASSUME cut[n], want[n].k # "unsure" PROVE w.fp[n].written
    BY <1>c, <2>1
  <2>2. CASE w.res \in {"disk", "int"}
    BY <1>3, <1>b, <2>2
  <2>3. CASE w.res = "ok"
    BY <1>3, <2>1, <2>3
  <2>4. CASE w.res \notin Results
    BY <1>3, <1>a, <2>1, <2>4
  <2> QED
    BY <1>4, <2>2, <2>3, <2>4
<1>7. \A m \in Names : cut'[m] <=> cut[m] \/ (m \in C /\ w.res \in Results)
  BY <1>1, <1>5
<1>8. Cutting' = Z
  BY <1>7 DEF Cutting
<1>9. ASSUME NEW m \in Names, cut'[m]
      PROVE  safe'[m] = Unsure /\ (fp'[m].open /\ want'[m].k # "unsure" => fp'[m].written)
  <2>1. CASE m = n
    BY <1>1, <1>5, <1>6, <1>7, <1>9, <2>1
  <2>2. CASE m # n
    BY <1>1, <1>2, <1>7, <1>9, <1>a, <1>c, <1>d, <1>e, <2>2
  <2> QED
    BY <2>1, <2>2
<1>10. CutMarked'
  BY <1>9 DEF CutMarked
<1>11. Done(Volume(bad), w, Z, n)
  OBVIOUS
<1>12. Leaves(w, {m \in {n} : ~fp[m].open}) /\ {n} \subseteq {n} /\ Cutting \subseteq Z \cup {n}
  BY <1>1
<1> HIDE DEF Z
<1> QED
  BY <1>8, <1>10, <1>11, <1>12, FileSettles

LEMMA SetEndOrders == ASSUME OrderInv, NEW n \in Names, SetEnd(n) PROVE OrderInv'
<1>1. fp[n].open
  BY DEF SetEnd, Open
<1> DEFINE C == IF fp[n].ptr = 0 /\ fp[n].size > 0 THEN {n} ELSE {}
           y == Holds(SubSeq(want[n].u, 1, fp[n].ptr))
           x == IF fp[n].size <= fp[n].ptr THEN Now[n] ELSE Sure(n, Pending(y))
<1>2. PICK bad \in Faults : Called(FTruncate(Volume(bad), n), {n}, C, Only(n, x))
  BY DEF SetEnd, Call, Called, Settles, Darkens, After, Spoils
<1> DEFINE v == Volume(bad)
           w == FTruncate(v, n)
           X == Cutting
<1>3. Sound /\ Begins(v, X)
  BY <1>2, CallBegins DEF Called
<1> HIDE DEF v, X, y
<1>4. v.fp = fp
  BY <1>3 DEF Begins
<1>5. /\ Base(w, X \cup C) /\ Done(v, w, X \cup C, n)
      /\ fp[n].written => w.fp[n].written
      /\ w.res \notin Results => Done(v, w, X, n)
      /\ C = {n} /\ w.res = "ok" => w.fp[n].written
  BY <1>1, <1>3, <1>4, FileBegins, FTruncateDone
<1> HIDE DEF w
<1>6. fp[n].ptr \in Int /\ fp[n].size \in Int
  BY <1>1, <1>3, <1>4 DEF Begins, Files, FileOK, FileBase
<1>7. fp[n].size <= fp[n].ptr => C = {}
  BY <1>6
<1>8. C \subseteq {n}
  OBVIOUS
<1>9. x.safe = Unsure \/ (x = Now[n] /\ C = {})
  BY <1>7, SureIs
<1>10. x.want.k # "unsure" => want[n].k # "unsure"
  BY NowIs, SureIs
<1>11. Called(w, {n}, C, Only(n, x))
  BY <1>2 DEF w, v
<1> HIDE DEF C, x
<1>12. Settles(w, {n}, C, Only(n, x)) => OrderInv'
  BY <1>1, <1>3, <1>5, <1>8, <1>9, <1>10, CutSettles DEF v, X
<1>13. Base(w, Cutting \cup C)
  BY <1>5 DEF X
<1> QED
  BY <1>8, <1>11, <1>12, <1>13, CalledKeeps

LEMMA CreateFileOrders ==
  ASSUME OrderInv, NEW n \in Names, NEW mode, CreateFile(n, mode) PROVE OrderInv'
<1>1. ~fp[n].open
  BY DEF CreateFile, Closed
<1> DEFINE old == mode.how = "existing"
           touched == IF old THEN {} ELSE {n}
           known == IF old THEN Now ELSE Only(n, Pending(Holds(<<>>)))
<1>2. PICK bad \in Faults : Called(FOpen(Volume(bad), n, mode), touched, {}, known)
  <2>1. ASSUME mode.how = "existing"
        PROVE  \E bad \in Faults : Called(FOpen(Volume(bad), n, mode), {}, {}, Now)
    BY <2>1 DEF CreateFile, Call, Called, Settles, Darkens, After, Spoils, Nothing
  <2>2. ASSUME mode.how # "existing"
        PROVE  \E bad \in Faults : Called(FOpen(Volume(bad), n, mode), {n}, {}, Only(n, Pending(Holds(<<>>))))
    BY <2>2 DEF CreateFile, Call, Called, Settles, Darkens, After, Spoils
  <2> QED
    BY <2>1, <2>2
<1> DEFINE v == Volume(bad)
           w == FOpen(v, n, mode)
           X == Cutting
<1>3. Sound /\ Begins(v, X)
  BY <1>2, CallBegins DEF Called
<1>4. n \notin X
  BY <1>1, <1>3 DEF Sound, Cutting
<1>a. touched = IF mode.how = "existing" THEN {} ELSE {n}
  OBVIOUS
<1>b. \A m \in Cutting : known[m] = Now[m]
  BY <1>4, OnlyIs DEF Cutting
<1>c. touched \subseteq {n}
  OBVIOUS
<1> HIDE DEF v, X, touched, known
<1>5. Opens(v, w, X, n, touched)
  BY <1>3, <1>4, <1>a, FOpenOpens DEF Begins
<1>6. Called(w, touched, {}, known)
  BY <1>2 DEF v
<1> HIDE DEF w
<1>7. Settles(w, touched, {}, known) => OrderInv'
  BY <1>1, <1>3, <1>5, <1>b, <1>c, OpensSettles DEF v, X
<1>8. Base(w, Cutting \cup {})
  BY <1>5 DEF Opens, X
<1> QED
  BY <1>6, <1>7, <1>8, CalledKeeps

LEMMA NamesKeep ==
  ASSUME OrderInv, NEW bad \in Faults, NEW w, NEW touched, NEW known, Called(w, touched, {}, known),
         touched \subseteq Names, \A m \in touched : ~fp[m].open,
         \A m \in Names \ touched : known[m] = Now[m],
         Begins(Volume(bad), Cutting) => Ends(Volume(bad), w, Cutting, touched)
  PROVE  OrderInv'
<1>1. Sound /\ Ends(Volume(bad), w, Cutting, touched)
  BY CallBegins DEF Called
<1>2. Rested(Volume(bad), w, Cutting, touched) /\ Base(w, Cutting \cup {})
  BY <1>1, EndsRested DEF Ends
<1>3. \A m \in Cutting : known[m] = Now[m]
  BY <1>1 DEF Cutting, Sound
<1>4. Settles(w, touched, {}, known) => OrderInv'
  BY <1>1, <1>2, <1>3, NameSettles
<1> QED
  BY <1>2, <1>4, CalledKeeps

LEMMA CountingOnly ==
  ASSUME Sound, NEW n \in Names, ~fp[n].open, NEW x
  PROVE  /\ {n} \subseteq Names /\ (\A m \in {n} : ~fp[m].open)
         /\ \A m \in Names \ {n} : Only(n, x)[m] = Now[m]
BY OnlyIs

LEMMA DeleteFileOrders == ASSUME OrderInv, NEW n \in Names, DeleteFile(n) PROVE OrderInv'
<1>1. ~fp[n].open
  BY DEF DeleteFile, Closed
<1>2. PICK bad \in Faults : Called(FUnlink(Volume(bad), n), {n}, {}, Only(n, Both(Gone)))
  BY DEF DeleteFile, Call, Called, Settles, Darkens, After, Spoils
<1>3. Sound /\ n \notin Cutting
  BY <1>1, <1>2 DEF Called, Sound, Cutting
<1>4. Begins(Volume(bad), Cutting) => Ends(Volume(bad), FUnlink(Volume(bad), n), Cutting, {n})
  BY <1>3, FUnlinkEnds DEF Begins
<1> QED
  BY <1>1, <1>2, <1>3, <1>4, CountingOnly, NamesKeep

LEMMA CreateDirectoryOrders == ASSUME OrderInv, NEW n \in Names, CreateDirectory(n) PROVE OrderInv'
<1>1. ~fp[n].open
  BY DEF CreateDirectory, Closed
<1>2. PICK bad \in Faults : Called(FMkdir(Volume(bad), n), {n}, {}, Only(n, Both(Folder)))
  BY DEF CreateDirectory, Call, Called, Settles, Darkens, After, Spoils
<1>3. Sound /\ n \notin Cutting
  BY <1>1, <1>2 DEF Called, Sound, Cutting
<1>4. Begins(Volume(bad), Cutting) => Ends(Volume(bad), FMkdir(Volume(bad), n), Cutting, {n})
  BY <1>3, FMkdirEnds DEF Begins
<1> QED
  BY <1>1, <1>2, <1>3, <1>4, CountingOnly, NamesKeep

\* A call that may change nothing that a name holds.
LEMMA NothingKeeps ==
  ASSUME OrderInv, NEW bad \in Faults, NEW w, Called(w, {}, {}, Now),
         Begins(Volume(bad), Cutting) => Ends(Volume(bad), w, Cutting, {})
  PROVE  OrderInv'
BY NamesKeep

LEMMA SetFileAttributesOrders ==
  ASSUME OrderInv, NEW n \in Names, NEW ro, SetFileAttributes(n, ro) PROVE OrderInv'
<1>1. PICK bad \in Faults : Called(FChmod(Volume(bad), n, ro), {}, {}, Now)
  BY DEF SetFileAttributes, Call, Called, Settles, Darkens, After, Spoils, Nothing
<1>2. Begins(Volume(bad), Cutting) => Ends(Volume(bad), FChmod(Volume(bad), n, ro), Cutting, {})
  BY FChmodEnds DEF Begins
<1> QED
  BY <1>1, <1>2, NothingKeeps

LEMMA GetFileAttributesOrders ==
  ASSUME OrderInv, NEW n \in Names, GetFileAttributes(n) PROVE OrderInv'
<1>1. PICK bad \in Faults : Called(FStat(Volume(bad), n), {}, {}, Now)
  BY DEF GetFileAttributes, Call, Called, Settles, Darkens, After, Spoils, Nothing
<1>2. Begins(Volume(bad), Cutting) => Ends(Volume(bad), FStat(Volume(bad), n), Cutting, {})
  BY LookedUp DEF Begins, FStat
<1> QED
  BY <1>1, <1>2, NothingKeeps

LEMMA GetDiskFreeSpaceOrders == ASSUME OrderInv, GetDiskFreeSpace PROVE OrderInv'
<1>1. PICK bad \in Faults : Called(FGetfree(Volume(bad)), {}, {}, Now)
  BY DEF GetDiskFreeSpace, Call, Called, Settles, Darkens, After, Spoils, Nothing
<1>2. Begins(Volume(bad), Cutting) => Ends(Volume(bad), FGetfree(Volume(bad)), Cutting, {})
  BY FGetfreeEnds DEF Begins
<1> QED
  BY <1>1, <1>2, NothingKeeps

LEMMA TwoNames == ASSUME NEW n, NEW to, n # to PROVE Cardinality({n, to}) > 1
<1>1. IsFiniteSet({n}) /\ Cardinality({n}) = 1
  BY FS_Singleton
<1>2. Cardinality({n} \cup {to}) = Cardinality({n}) + 1
  BY <1>1, FS_AddElement
<1>3. {n} \cup {to} = {n, to}
  OBVIOUS
<1> QED
  BY <1>1, <1>2, <1>3

\* A rename that fails on its way may leave the file with two names.
LEMMA MoveFileOrders ==
  ASSUME OrderInv, NEW n \in Names, NEW to \in Names, MoveFile(n, to) PROVE OrderInv'
<1>1. ~fp[n].open /\ ~fp[to].open /\ n # to
  BY DEF MoveFile, Closed
<1> DEFINE known == [Now EXCEPT ![to] = Now[n], ![n] = Both(Gone)]
           touched == {n, to}
<1>2. PICK bad \in Faults : Called(FRename(Volume(bad), n, to), touched, {}, known)
  BY DEF MoveFile, Call, Called, Settles, Darkens, After, Spoils
<1> DEFINE v == Volume(bad)
           w == FRename(v, n, to)
           X == Cutting
<1>3. Sound /\ Begins(v, X)
  BY <1>2, CallBegins DEF Called
<1>4. n \notin X /\ to \notin X
  BY <1>1, <1>3 DEF Sound, Cutting
<1>5. \A m \in Cutting : known[m] = Now[m]
  BY <1>4 DEF Cutting, Now
<1>6. Cardinality(touched) > 1 /\ touched \subseteq Names /\ (\A m \in touched : ~fp[m].open)
  BY <1>1, TwoNames
<1>7. touched = {n, to}
  OBVIOUS
<1>8. Called(w, touched, {}, known)
  BY <1>2
<1> HIDE DEF v, X, touched, known
<1>9. w.fp = v.fp /\ (w.res \notin {"disk", "int"} => Rested(v, w, X, touched))
  BY <1>1, <1>3, <1>4, <1>7, FRenameRests, ZenonT(60) DEF Begins
<1> HIDE DEF w
<1>10. ASSUME Settles(w, touched, {}, known), w.res \in {"disk", "int"} PROVE OrderInv'
  <2>1. w.fp = fp
    BY <1>3, <1>9 DEF Begins
  <2>2. CutMarked'
    BY <1>3, <1>5, <1>6, <1>10, <2>1, NameLabels
  <2>3. twin'
    BY <1>6, <1>7, <1>10 DEF Settles, Spoils
  <2> QED
    BY <2>2, <2>3 DEF OrderInv, CardInOrder, VolumeInOrder, Sound
<1>11. ASSUME Settles(w, touched, {}, known), w.res \notin {"disk", "int"} PROVE OrderInv'
  BY <1>3, <1>5, <1>6, <1>9, <1>11, NameSettles DEF v, X
<1> QED
  BY <1>6, <1>8, <1>10, <1>11, CalledKeeps

LEMMA SearchKeeps ==
  ASSUME OrderInv, NEW bad \in Faults, NEW w, Called(w, {}, {}, Now),
         Begins(Volume(bad), Cutting) => Searched(Volume(bad), w, Cutting)
  PROVE  OrderInv'
<1>1. Sound /\ Searched(Volume(bad), w, Cutting)
  BY CallBegins DEF Called
<1>2. Base(w, Cutting \cup {})
  BY <1>1 DEF Searched
<1>3. Settles(w, {}, {}, Now) => OrderInv'
  BY <1>1, SearchSettles
<1> QED
  BY <1>2, <1>3, CalledKeeps

LEMMA FindFirstFileOrders == ASSUME OrderInv, NEW pat, FindFirstFile(pat) PROVE OrderInv'
<1>1. PICK bad \in Faults : Called(FirstOf(Volume(bad), pat), {}, {}, Now)
  BY DEF FindFirstFile, Call, Called, Settles, Darkens, After, Spoils, Nothing
<1>2. Begins(Volume(bad), Cutting) => Searched(Volume(bad), FirstOf(Volume(bad), pat), Cutting)
  BY FirstOfFinds DEF Begins
<1> QED
  BY <1>1, <1>2, SearchKeeps

LEMMA FindNextOrders == ASSUME OrderInv, FindNext PROVE OrderInv'
<1>1. find.open
  BY DEF FindNext
<1>2. PICK bad \in Faults : Called(Listed(FReaddir(Volume(bad))), {}, {}, Now)
  BY DEF FindNext, Call, Called, Settles, Darkens, After, Spoils, Nothing
<1>3. Begins(Volume(bad), Cutting) => Searched(Volume(bad), Listed(FReaddir(Volume(bad))), Cutting)
  <2>1. ASSUME Begins(Volume(bad), Cutting)
        PROVE  Volume(bad).find.open /\ Volume(bad).fs.mounted
    BY <1>1, <2>1 DEF Begins, Up
  <2> QED
    BY <2>1, ListedFinds DEF Begins
<1> QED
  BY <1>2, <1>3, SearchKeeps

LEMMA FindCloseOrders == ASSUME OrderInv, FindClose PROVE OrderInv'
<1> DEFINE Closes2(v) == [v EXCEPT !.find = NoFind]
<1>1. PICK bad \in Faults : Called(Closes2(Volume(bad)), {}, {}, Now)
  BY DEF FindClose, Call, Called, Settles, Darkens, After, Spoils, Nothing
<1>2. Begins(Volume(bad), Cutting) => Searched(Volume(bad), Closes2(Volume(bad)), Cutting)
  BY NoSearch DEF Begins, Up
<1> HIDE DEF Closes2
<1> QED
  BY <1>1, <1>2, SearchKeeps

LEMMA StandsStill == ASSUME OrderInv, UNCHANGED vars PROVE OrderInv'
BY DEF vars, OrderInv, CutMarked, CardInOrder, VolumeInOrder, Cutting, Sound, Stray, Seen, V, Volume, Orderly

LEMMA StepOrders == ASSUME OrderInv, [Next]_vars PROVE OrderInv'
<1>1. CASE Next
  <2>1. Lengths \subseteq Nat /\ Offsets \subseteq Nat
    BY StorageAssumption
  <2> QED
    BY <1>1, <2>1, CreateFileOrders, WriteOrders, ReadOrders, WriteSeekOrders, ReadSeekOrders,
       SetPointerOrders, FlushOrders, CloseOrders, SetEndOrders, DeleteFileOrders,
       CreateDirectoryOrders, GetFileAttributesOrders, SetFileAttributesOrders, MoveFileOrders,
       FindFirstFileOrders, FindNextOrders, FindCloseOrders, GetDiskFreeSpaceOrders, PowerCutKeeps
       DEF Next
<1> QED
  BY <1>1, StandsStill

-----------------------------------------------------------------------------
(* At the start the card is in order.                                      *)
LEMMA FormattedIs ==
  ASSUME NEW owner, NEW m \in {0, OldLen}
  PROVE  LET d == Formatted(owner, m)
             cnt == ClustersFor(m)
         IN  /\ IsCard(d) /\ DOMAIN d = Sectors /\ cnt \in Nat /\ cnt + 2 <= LastCluster
             /\ \A c \in Clusters :
                  /\ DOMAIN d[FatSect(c)] = {x \in Clusters : FatSect(x) = FatSect(c)}
                  /\ FatOf(d, c) = IF c = Root THEN EOC ELSE IF c - 2 < cnt THEN c + 1
                                   ELSE IF c - 2 = cnt THEN EOC ELSE 0
                  /\ c # Root => d[ClustSect(c)].is = "data"
             /\ d[ClustSect(Root)] = DirOf(IF m = 0 THEN Unused ELSE Entry(owner, FALSE, FALSE, 3, m))
<1> DEFINE d == Formatted(owner, m)
           cnt == ClustersFor(m)
           fat(c) == IF c = Root THEN EOC ELSE IF c - 2 < cnt THEN c + 1
                     ELSE IF c - 2 = cnt THEN EOC ELSE 0
<1>1. cnt \in Nat /\ cnt + 2 <= LastCluster
  BY FitsOnCard
<1>2. DOMAIN d = Sectors
  BY DEF Formatted, Sectors
<1>3. IsCard(d)
  BY DEF Formatted, IsCard
<1>4. \A c \in Clusters : d[FatSect(c)] = [x \in {y \in Clusters : FatSect(y) = FatSect(c)} |-> fat(x)]
  <2> TAKE c \in Clusters
  <2>1. FatSect(c) # Fsi /\ FatSect(c)[1] = "fat"
    BY DEF FatSect, Fsi
  <2> QED
    BY <2>1 DEF Formatted
<1>5. \A c \in Clusters : ClustSect(c) # Fsi /\ ClustSect(c)[1] # "fat" /\ ClustSect(c) \in Sectors
  BY DEF ClustSect, Fsi, Sectors
<1>6. \A c \in Clusters : c # Root => d[ClustSect(c)].is = "data"
  <2> SUFFICES ASSUME NEW c \in Clusters, c # Root PROVE d[ClustSect(c)].is = "data"
    OBVIOUS
  <2>1. ClustSect(c) # ClustSect(Root)
    BY ClustersDiffer
  <2>2. \E u : d[ClustSect(c)] = DataOf(u)
    BY <1>5, <2>1 DEF Formatted
  <2> QED
    BY <2>2 DEF DataOf
<1>7. d[ClustSect(Root)] = DirOf(IF m = 0 THEN Unused ELSE Entry(owner, FALSE, FALSE, 3, m))
  <2>1. Root \in Clusters
    BY ClustersDiffer
  <2> QED
    BY <1>5, <2>1 DEF Formatted
<1> HIDE DEF d, cnt, fat
<1>8. ASSUME NEW c \in Clusters
      PROVE  DOMAIN d[FatSect(c)] = {x \in Clusters : FatSect(x) = FatSect(c)} /\ FatOf(d, c) = fat(c)
  BY <1>4 DEF FatOf
<1> QED
  BY <1>1, <1>2, <1>3, <1>6, <1>7, <1>8 DEF d, cnt, fat

LEMMA FormattedSane ==
  ASSUME NEW owner, NEW m \in {0, OldLen}
  PROVE  LET d == Formatted(owner, m)
         IN  /\ IsCard(d) /\ Sane(d, {}) /\ NotTorn(d)
             /\ \A t \in Clusters : UsedIn(d, t) => EntryIn(d, t).name = owner
<1> DEFINE d == Formatted(owner, m)
           cnt == ClustersFor(m)
           x == IF m = 0 THEN Unused ELSE Entry(owner, FALSE, FALSE, 3, m)
<1>1. /\ IsCard(d) /\ DOMAIN d = Sectors /\ cnt \in Nat /\ cnt + 2 <= LastCluster
      /\ \A c \in Clusters :
           /\ DOMAIN d[FatSect(c)] = {y \in Clusters : FatSect(y) = FatSect(c)}
           /\ FatOf(d, c) = IF c = Root THEN EOC ELSE IF c - 2 < cnt THEN c + 1
                            ELSE IF c - 2 = cnt THEN EOC ELSE 0
           /\ c # Root => d[ClustSect(c)].is = "data"
      /\ d[ClustSect(Root)] = DirOf(x)
  BY FormattedIs
<1>2. m # 0 => m \in Int /\ cnt > 0
  <2> SUFFICES ASSUME m # 0 PROVE m \in Int /\ cnt > 0
    OBVIOUS
  <2>1. m \in Nat /\ m >= 1 /\ Units \in Nat /\ Units > 0
    BY StorageAssumption, FatFsAssumption
  <2>2. m + Units - 1 >= Units
    BY <2>1
  <2> HIDE DEF cnt
  <2>3. cnt = (m + Units - 1) \div Units
    BY DEF cnt, ClustersFor
  <2>4. (m + Units - 1) \div Units > 0
    BY <2>1, <2>2
  <2> QED
    BY <2>1, <2>3, <2>4
<1> HIDE DEF d, cnt
<1>3. \A c \in Clusters : c \in Nat /\ 2 <= c /\ c <= LastCluster
  BY FatFsAssumption DEF Clusters
<1>4. EOC \notin Clusters /\ EOC # 0 /\ Root \in Clusters /\ Root = 2 /\ 0 \notin Clusters
  BY ClustersDiffer DEF Root
<1>5. \A c \in Clusters : FatOf(d, c) \in {0, EOC} \/ (FatOf(d, c) = c + 1 /\ c # Root /\ c - 2 < cnt)
  BY <1>1
<1>6. \A c \in Clusters : c # Root /\ c - 2 < cnt => c + 1 \in Clusters /\ c + 1 > 3
  BY <1>1, <1>3, <1>4, FatFsAssumption DEF Clusters
<1>7. \A c \in Clusters : FatOf(d, c) \in {0, EOC} \cup Clusters
  BY <1>5, <1>6
<1>8. NoGaps(d)
  <2> SUFFICES ASSUME NEW c \in Clusters, FatOf(d, c) \in Clusters PROVE FatOf(d, FatOf(d, c)) # 0
    BY DEF NoGaps
  <2>1. FatOf(d, c) = c + 1 /\ c # Root /\ c - 2 < cnt
    BY <1>4, <1>5
  <2>2. c + 1 \in Clusters /\ (c + 1) - 2 <= cnt /\ c + 1 > 3
    BY <1>1, <1>3, <1>6, <2>1
  <2>3. FatOf(d, c + 1) \in {EOC, c + 1 + 1}
    BY <1>1, <1>4, <2>2
  <2> QED
    BY <1>3, <1>4, <2>1, <2>3
<1>9. NoJoins(d)
  <2> SUFFICES ASSUME NEW b \in Clusters, NEW c \in Clusters, FatOf(d, b) = FatOf(d, c), FatOf(d, b) \in Clusters
               PROVE  b = c
    BY DEF NoJoins
  <2>1. FatOf(d, b) = b + 1 /\ FatOf(d, c) = c + 1
    BY <1>4, <1>5
  <2>2. b + 1 = c + 1
    BY <2>1
  <2>3. b \in Nat /\ c \in Nat
    BY <1>3
  <2> QED
    BY <2>2, <2>3
<1>10. Leads(d, Root) /\ FatOf(d, Root) = EOC
  <2>1. FatOf(d, Root) = EOC
    BY <1>1, <1>4
  <2>2. \A c \in Clusters : FatOf(d, c) # Root
    BY <1>3, <1>4, <1>5, <1>6
  <2> QED
    BY <1>4, <2>1, <2>2 DEF Leads
<1>11. m # 0 => Leads(d, 3) /\ 3 # Root /\ 3 \in Clusters
  <2> SUFFICES ASSUME m # 0 PROVE Leads(d, 3) /\ 3 # Root /\ 3 \in Clusters
    OBVIOUS
  <2>1. 3 \in Clusters
    BY FatFsAssumption DEF Clusters
  <2>2. FatOf(d, 3) # 0
    <3>1. 3 # Root /\ (3 - 2 < cnt \/ 3 - 2 = cnt)
      BY <1>1, <1>2, <1>4
    <3>2. FatOf(d, 3) \in {3 + 1, EOC}
      BY <1>1, <2>1, <3>1
    <3> QED
      BY <1>4, <3>2
  <2>3. \A c \in Clusters : FatOf(d, c) # 3
    <3>1. EOC # 3
      BY <1>4, <2>1
    <3> QED
      BY <1>5, <1>6, <3>1
  <2> QED
    BY <1>4, <2>1, <2>2, <2>3 DEF Leads
<1>12. Tab(d) = {Root}
  <2>1. Follows(d, {Root})
    BY <1>4, <1>10 DEF Follows
  <2>2. Tab(d) \subseteq {Root}
    BY <1>4, <2>1, ReachLeast DEF Tab
  <2> QED
    BY <1>4, <2>2, ReachHas DEF Tab
<1>13. FatOK(d)
  BY <1>1, <1>7, <1>8, <1>9, <1>10 DEF FatOK
<1>14. \A c \in Clusters : IsDir(d, c) => c = Root
  BY <1>1 DEF IsDir
<1>15. IsDir(d, Root) /\ EntryIn(d, Root) = x
  BY <1>1 DEF IsDir, EntryIn, DirOf
<1>16. \A t \in Clusters : UsedIn(d, t) => t = Root /\ m # 0
  <2> SUFFICES ASSUME NEW t \in Clusters, UsedIn(d, t) PROVE t = Root /\ m # 0
    OBVIOUS
  <2>1. t = Root
    BY <1>14 DEF UsedIn
  <2>2. x.st = "used"
    BY <1>15, <2>1 DEF UsedIn
  <2>3. m = 0 => x.st = "unused"
    BY DEF Unused
  <2> QED
    BY <2>1, <2>2, <2>3
<1>17. m # 0 => IsUsed(x) /\ x.clust = 3 /\ x.name = owner
  BY <1>2, <1>11 DEF IsUsed, Entry
<1>18. IsEntry(x)
  BY <1>17 DEF IsEntry
<1> HIDE DEF x
<1>19. Entries(d)
  BY <1>12, <1>14, <1>15, <1>18 DEF Entries
<1>20. UnusedLast(d)
  BY <1>4, <1>10, <1>12 DEF UnusedLast
<1>21. OneName(d)
  BY <1>16 DEF OneName
<1>22. OwnChain(d, {})
  BY <1>11, <1>15, <1>16, <1>17 DEF OwnChain, Claims
<1>23. Sane(d, {})
  BY <1>1, <1>13, <1>19, <1>20, <1>21, <1>22 DEF Sane, DirOK
<1>24. NotTorn(d)
  BY <1>12, <1>15 DEF NotTorn
<1>25. \A t \in Clusters : UsedIn(d, t) => EntryIn(d, t).name = owner
  BY <1>15, <1>16, <1>17
<1> QED
  BY <1>1, <1>23, <1>24, <1>25 DEF d

LEMMA BlankOrders ==
  ASSUME NEW owner, NEW m \in {0, OldLen}
  PROVE  LET v == Blank(owner, m)
         IN  /\ Base(v, {}) /\ Up(v) /\ Files(v, {}) /\ Finding(v) /\ Asks(v) /\ NotTorn(View(v))
             /\ v.res = "ok" /\ v.find = NoFind /\ v.bad = NoFault
             /\ v.fp = [n \in Names |-> NoFile] /\ \A n \in Names : ~v.fp[n].open
             /\ \A t \in Clusters : UsedIn(View(v), t) => EntryIn(View(v), t).name = owner
<1> DEFINE v == Blank(owner, m)
           d == Formatted(owner, m)
<1>1. Off(v, d) /\ v.res = "ok"
  BY DEF Off, Blank, Record, Fields
<1> HIDE DEF v, d
<1>2. /\ IsCard(d) /\ Sane(d, {}) /\ NotTorn(d)
      /\ \A t \in Clusters : UsedIn(d, t) => EntryIn(d, t).name = owner
  BY FormattedSane DEF d
<1>3. Orderly(v, {}) /\ View(v) = d
  BY <1>1, <1>2, OffOrderly
<1>4. Base(v, {})
  BY <1>1, <1>3, EmptyIo DEF Orderly, Rests, Base, Cards, Off
<1>5. \A n \in Names : ~v.fp[n].open
  BY <1>1 DEF Off, NoFile
<1> QED
  BY <1>1, <1>2, <1>3, <1>4, <1>5 DEF Off, Orderly, v

\* An existing file is opened, or not: the card is as it was.
LEMMA OldOpened ==
  ASSUME NEW v, NEW X, NEW n \in Names, Base(v, X), Up(v), NotTorn(View(v)), v.res = "ok", NEW mode,
         mode.how = "existing"
  PROVE  LET w == FOpen(v, n, mode)
         IN  View(w) = View(v) /\ (w.res = "nofile" => w.fs.mounted)
<1> DEFINE u == Lookup(v, n)
           old == OpenOld(u, mode)
           w == FOpen(v, n, mode)
<1>1. Base(u, X) /\ View(u) = View(v) /\ (u.res \in {"ok", "nofile"} => u.fs.mounted)
  BY LookedUp
<1>2. w = old \/ (\E f : w = [old EXCEPT !.fp[n] = f])
  BY DEF FOpen, Then
<1>3. DOMAIN u = Fields
  BY <1>1 DEF Base, Shape
<1>4. old \in {u, Fail(u, "nofile"), Fail(u, "denied")} /\ (old # u => u.res = "ok")
  BY DEF OpenOld, Then
<1> HIDE DEF u, w
<1>5. /\ DOMAIN old = Fields /\ old.disk = u.disk /\ old.win = u.win /\ old.fs = u.fs
      /\ old.res = "nofile" => u.res \in {"ok", "nofile"}
  BY <1>3, <1>4 DEF Fail, Fields
<1> HIDE DEF old
<1>6. w.disk = u.disk /\ w.win = u.win /\ w.fs = u.fs /\ w.res = old.res
  BY <1>2, <1>5 DEF Fields
<1>7. View(w) = View(u)
  BY <1>6 DEF View
<1> QED
  BY <1>1, <1>5, <1>6, <1>7 DEF w

LEMMA StartOrders == ASSUME Init PROVE OrderInv
<1>1. PICK owner \in Names, start \in Starts :
        LET m == IF start = "empty" THEN 0 ELSE OldLen
            v == Begin(owner, m, start = "open")
        IN  disk = v.disk /\ win = v.win /\ fs = v.fs /\ fp = v.fp /\ find = NoFind
  BY DEF Init
<1> DEFINE m == IF start = "empty" THEN 0 ELSE OldLen
           v0 == Blank(owner, m)
           mode1 == [rd |-> TRUE, wr |-> TRUE, how |-> "existing"]
           mode2 == [rd |-> TRUE, wr |-> TRUE, how |-> "always"]
           other == CHOOSE n \in Names : n # owner
           v1 == FOpen(v0, owner, mode1)
           v2 == FOpen(v1, other, mode2)
           v == IF start = "open" THEN v2 ELSE v0
           Starting(x) == Base(x, {}) /\ Up(x) /\ Files(x, {}) /\ x.find = NoFind
<1>2. Begin(owner, m, start = "open") = v
  BY DEF Begin, Blank
<1>3. disk = v.disk /\ win = v.win /\ fs = v.fs /\ fp = v.fp /\ find = NoFind
  BY <1>1, <1>2
<1>4. m \in {0, OldLen}
  OBVIOUS
<1>5. mode1.how = "existing" /\ mode2.how # "existing"
  OBVIOUS
<1> HIDE DEF m, v0, mode1, mode2, other
<1>6. /\ Base(v0, {}) /\ Up(v0) /\ Files(v0, {}) /\ Finding(v0) /\ Asks(v0) /\ NotTorn(View(v0))
      /\ v0.res = "ok" /\ v0.find = NoFind /\ v0.bad = NoFault
      /\ v0.fp = [n \in Names |-> NoFile] /\ (\A n \in Names : ~v0.fp[n].open)
      /\ \A t \in Clusters : UsedIn(View(v0), t) => EntryIn(View(v0), t).name = owner
  BY <1>4, BlankOrders DEF v0
<1> HIDE DEF v
<1>7. Opens(v0, v1, {}, owner, {})
  <2>1. owner \notin {} /\ v0.res # "nofile"
    BY <1>6
  <2>2. Opens(v0, v1, {}, owner, IF mode1.how = "existing" THEN {} ELSE {owner})
    BY <1>6, <2>1, FOpenOpens
  <2> QED
    BY <1>5, <2>2
<1>8. View(v1) = View(v0) /\ (v1.res = "nofile" => v1.fs.mounted)
  BY <1>5, <1>6, OldOpened
<1> HIDE DEF v1
<1>9. \A n \in Names : Idle(v0, n) /\ Idle(v1, n)
  BY <1>6, <1>7 DEF Idle, Opens
<1>10. Starting(v1)
  <2>1. Files(v1, {})
    <3> DEFINE none == {}
    <3>1. /\ none \subseteq {owner} /\ ~v0.fp[owner].open /\ (\A n \in Names : Idle(v0, n))
          /\ Files(v0, none) /\ Opens(v0, v1, none, owner, none)
      BY <1>6, <1>7, <1>9
    <3> HIDE DEF none
    <3>2. Files(v1, none)
      BY <3>1, OpensFiles
    <3> QED
      BY <3>2 DEF none
  <2> QED
    BY <1>6, <1>7, <2>1 DEF Opens
<1>11. ASSUME start = "open" PROVE Starting(v2)
  <2>1. other \in Names /\ other # owner
    <3>1. \E n \in Names : n # owner
      BY <1>11, StorageAssumption
    <3> QED
      BY <3>1 DEF other
  <2>2. NoName(View(v1), other)
    BY <1>6, <1>8, <2>1 DEF NoName
  <2>3. Base(v1, {}) /\ Up(v1) /\ NotTorn(View(v1)) /\ other \notin {}
    BY <1>6, <1>8, <1>10
  <2>4. Opens(v1, v2, {}, other, {other})
    BY <1>5, <1>8, <2>1, <2>2, <2>3, FOpenOpens
  <2> HIDE DEF v2
  <2>5. ~v1.fp[other].open
    BY <1>6, <1>7, <2>1 DEF Opens
  <2>6. Files(v2, {})
    BY <1>9, <1>10, <2>1, <2>4, <2>5, OpensFiles
  <2> QED
    BY <1>10, <2>4, <2>6 DEF Opens
<1> HIDE DEF v2
<1>12. Starting(v)
  BY <1>6, <1>11 DEF v
<1>13. Cutting = {} /\ CutMarked
  BY DEF Init, Cutting, CutMarked
<1> DEFINE z == V
<1>14. /\ z.disk = v.disk /\ z.win = v.win /\ z.fs = v.fs /\ z.fp = v.fp /\ z.find = v.find
       /\ z.bad = NoFault /\ z.io = <<>> /\ DOMAIN z = Fields
  BY <1>3, <1>12 DEF V, Volume, Record, Fields
<1> HIDE DEF z
<1>15. Shape(v) /\ Rests(v, {})
  BY <1>12, BaseRests DEF Base
<1>16. DOMAIN z.bad = {"at", "kept"} /\ z.bad.at \in Int
  BY <1>14 DEF NoFault
<1>17. Shape(z) /\ View(z) = View(v)
  BY <1>14, <1>15, <1>16, EmptyIo DEF Shape, View
<1>18. Rests(z, {}) /\ Up(z) /\ Files(z, {})
  BY <1>12, <1>14, <1>15, <1>17 DEF Rests, Clean, Up, Files
<1>19. ~z.find.open /\ z.find.stay = {}
  BY <1>12, <1>14 DEF NoFind
<1>20. Orderly(z, {})
  BY <1>18, <1>19 DEF Orderly, Finding, Asks
<1>21. IsCard(disk) /\ Sane(disk, {})
  BY <1>3, <1>15 DEF Rests, Shape
<1> QED
  BY <1>13, <1>20, <1>21 DEF OrderInv, CardInOrder, VolumeInOrder, z

-----------------------------------------------------------------------------
(* What the order of the card and of the volume means.                     *)
LEMMA SlotIs ==
  ASSUME NEW d, NEW X, Sane(d, X), NotTorn(d), NEW e \in Slots(d)
  PROVE  \E t \in Clusters : UsedIn(d, t) /\ EntryIn(d, t) = e
<1> DEFINE tab == Table(d)
<1>1. Range(tab) = Tab(d) /\ DOMAIN tab = 1..Len(tab)
  <2>1. Root \in Clusters /\ Ordered(d, Root, tab)
    BY TableIs, ClustersDiffer
  <2> QED
    BY <2>1, TableIs, OrderedReach
<1>2. PICK i \in DOMAIN tab : /\ e = d[ClustSect(tab[i])].e /\ e # Deleted
                              /\ \A j \in 1..i : d[ClustSect(tab[j])].e.st # "unused"
  BY DEF Slots
<1> HIDE DEF tab
<1>3. tab[i] \in Tab(d)
  BY <1>1, <1>2 DEF Range
<1>4. tab[i] \in Clusters /\ IsDir(d, tab[i])
  BY <1>3, SaneParts DEF NotTorn
<1>5. e = EntryIn(d, tab[i]) /\ e.st # "unused"
  <2>1. i \in 1..i
    BY <1>1, <1>2
  <2> QED
    BY <1>2, <2>1 DEF EntryIn
<1>6. IsEntry(e)
  BY <1>4, <1>5 DEF Sane, DirOK, Entries
<1>7. e.st = "used"
  BY <1>2, <1>5, <1>6 DEF IsEntry, IsUsed, Unused
<1> QED
  BY <1>3, <1>4, <1>5, <1>7 DEF UsedIn

LEMMA ChainWhole ==
  ASSUME NEW d, NEW X, Sane(d, X), NEW s, Leads(d, s)
  PROVE  Whole(d, s) /\ Range(Chain(d, s)) = Reach(d, s)
<1> DEFINE c == Chain(d, s)
<1>1. s \in Clusters /\ FatOf(d, s) # 0 /\ NoGaps(d) /\ NoJoins(d)
  BY SaneParts DEF Leads
<1>2. Ordered(d, s, c)
  BY <1>1, ChainOrdered
<1>3. Range(c) = Reach(d, s) /\ DOMAIN c = 1..Len(c) /\ Len(c) \in Nat
  BY <1>1, <1>2, OrderedReach
<1> HIDE DEF c
<1>4. Len(c) > 0 /\ FatOf(d, c[Len(c)]) \notin Clusters
  BY <1>2 DEF Ordered
<1>5. c[Len(c)] \in Range(c)
  BY <1>3, <1>4 DEF Range
<1>6. c[Len(c)] \in Clusters /\ FatOf(d, c[Len(c)]) # 0
  BY <1>1, <1>3, <1>5, ReachIn, ReachTaken
<1>7. FatOf(d, c[Len(c)]) = EOC
  BY <1>4, <1>6 DEF Sane, FatOK
<1>8. c # <<>>
  BY <1>4
<1>9. Last(c) = c[Len(c)]
  BY DEF Last
<1> QED
  BY <1>3, <1>7, <1>8, <1>9 DEF Whole, c

LEMMA OrderIsApart == ASSUME OrderInv PROVE ChainsApart
<1> SUFFICES ASSUME Sound
             PROVE  /\ \A e \in Slots(disk) : e.clust # 0 =>
                         /\ cut[e.name] \/ Whole(disk, e.clust)
                         /\ cut[e.name] \/ Range(Chain(disk, e.clust)) \cap Range(Table(disk)) = {}
                    /\ \A e, f \in Slots(disk) :
                         e.clust # 0 /\ f.clust # 0 /\ e # f /\ ~cut[e.name] /\ ~cut[f.name] =>
                           Range(Chain(disk, e.clust)) \cap Range(Chain(disk, f.clust)) = {}
  BY DEF ChainsApart
<1>1. Sane(disk, Cutting)
  BY DEF OrderInv, CardInOrder, Sound
<1>2. NotTorn(disk)
  BY <1>1, TornIs DEF Sound
<1>3. ASSUME NEW e \in Slots(disk), e.clust # 0, ~cut[e.name]
      PROVE  /\ Leads(disk, e.clust) /\ e.clust # Root
             /\ \E t \in Clusters : Claims(disk, t, Cutting) /\ EntryIn(disk, t) = e
  <2>1. PICK t \in Clusters : UsedIn(disk, t) /\ EntryIn(disk, t) = e
    BY <1>1, <1>2, SlotIs
  <2>2. Claims(disk, t, Cutting)
    BY <1>3, <2>1 DEF Claims, Cutting
  <2>3. Leads(disk, EntryIn(disk, t).clust) /\ EntryIn(disk, t).clust # Root
    BY <1>1, <2>2 DEF Sane, DirOK, OwnChain
  <2> QED
    BY <2>1, <2>2, <2>3
<1>4. ASSUME NEW e \in Slots(disk), e.clust # 0, ~cut[e.name]
      PROVE  Whole(disk, e.clust) /\ Range(Chain(disk, e.clust)) = Reach(disk, e.clust)
  BY <1>1, <1>3, <1>4, ChainWhole
<1>5. ASSUME NEW e \in Slots(disk), e.clust # 0, ~cut[e.name]
      PROVE  Range(Chain(disk, e.clust)) \cap Range(Table(disk)) = {}
  <2>1. Reach(disk, e.clust) \cap Tab(disk) = {}
    BY <1>1, <1>3, <1>5, SaneParts
  <2>2. Range(Table(disk)) = Tab(disk)
    BY <1>1, TableIs
  <2> QED
    BY <1>4, <1>5, <2>1, <2>2
<1>6. ASSUME NEW e \in Slots(disk), NEW f \in Slots(disk), e.clust # 0, f.clust # 0, e # f,
             ~cut[e.name], ~cut[f.name]
      PROVE  Range(Chain(disk, e.clust)) \cap Range(Chain(disk, f.clust)) = {}
  <2>1. PICK t \in Clusters : Claims(disk, t, Cutting) /\ EntryIn(disk, t) = e
    BY <1>3, <1>6
  <2>2. PICK u \in Clusters : Claims(disk, u, Cutting) /\ EntryIn(disk, u) = f
    BY <1>3, <1>6
  <2>3. e.clust # f.clust
    BY <1>1, <1>6, <2>1, <2>2 DEF Sane, DirOK, OwnChain
  <2>4. Leads(disk, e.clust) /\ Leads(disk, f.clust)
    BY <1>3, <1>6
  <2>5. Reach(disk, e.clust) \cap Reach(disk, f.clust) = {}
    BY <1>1, <2>3, <2>4, SaneParts
  <2> QED
    BY <1>4, <1>6, <2>5
<1> QED
  BY <1>4, <1>5, <1>6

LEMMA OrderLists == ASSUME OrderInv PROVE ListsAll
<1> SUFFICES ASSUME find.open, Sound, NEW n \in find.stay \ find.seen, NEW c \in EntryOf(n), Passed(c)
             PROVE  FALSE
  BY DEF ListsAll
<1> DEFINE d == Seen
           tab == Table(d)
<1>1. Orderly(V, Cutting)
  BY DEF OrderInv, VolumeInOrder
<1>2. Sane(d, Cutting) /\ d = View(V)
  BY <1>1, SeenIs DEF Orderly, Rests
<1>3. NotTorn(d)
  BY <1>2, TornIs DEF Sound
<1>4. Ahead(d, find.at, find.stay \ find.seen)
  BY <1>1, <1>2, VolumeIs DEF Orderly, Finding
<1>5. c \in Range(tab) /\ d[ClustSect(c)].e.st = "used" /\ d[ClustSect(c)].e.name = n
  BY DEF EntryOf
<1>6. find.at = 0 \/ \E i, j \in 1..Len(tab) : i < j /\ tab[i] = c /\ tab[j] = find.at
  BY DEF Passed
<1> HIDE DEF d
<1>7. Root \in Clusters /\ Range(tab) = Tab(d) /\ Ordered(d, Root, tab)
  BY <1>2, TableIs, ClustersDiffer
<1> HIDE DEF tab
<1>8. c \in Tab(d) /\ c \in Clusters
  BY <1>2, <1>5, <1>7, SaneParts
<1>9. UsedIn(d, c) /\ EntryIn(d, c).name = n
  BY <1>3, <1>5, <1>8 DEF UsedIn, EntryIn, NotTorn
<1>10. c \in Reach(d, find.at)
  BY <1>4, <1>8, <1>9 DEF Ahead
<1>11. find.at # 0
  BY <1>10, ReachNone, ClustersDiffer
<1>12. PICK i, j \in 1..Len(tab) : i < j /\ tab[i] = c /\ tab[j] = find.at
  BY <1>6, <1>11
<1>13. /\ Len(tab) \in Nat /\ Reach(d, tab[j]) \subseteq {tab[k] : k \in j..Len(tab)}
  BY <1>7, <1>12, OrderedReach
<1>14. PICK k \in j..Len(tab) : c = tab[k]
  BY <1>10, <1>12, <1>13
<1>15. k \in 1..Len(tab)
  BY <1>12, <1>13, <1>14
<1>16. i = k
  BY <1>7, <1>12, <1>14, <1>15 DEF Ordered
<1> QED
  BY <1>12, <1>13, <1>14, <1>16

\* Two names never share a cluster of the card, nor is a cluster of theirs free or the table's,
\* after any sequence of calls, whichever call to the card fails and whenever the power goes,
\* up to the four states in which the code itself gives this up (Sound): a chain is linked only
\* to a cluster that is taken, the window goes out in order, and an entry before its clusters.
THEOREM ChainsStayApart == Spec => []ChainsApart
BY OrderIsApart, StartOrders, StepOrders, PTL DEF Spec

\* A search has not passed the entry of a name that was there all along and that it has not
\* listed yet, whatever is created, removed and renamed while it goes on: the table only grows,
\* at its end, and an entry stays where it is.
THEOREM SearchMissesNone == Spec => []ListsAll
BY OrderLists, StartOrders, StepOrders, PTL DEF Spec
=============================================================================
