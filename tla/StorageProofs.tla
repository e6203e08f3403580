---------------------------- MODULE StorageProofs ----------------------------
(***************************************************************************)
(* The operators of FatFs, on a card of any size, with sectors of any      *)
(* number of entries: what they do to the count of free clusters and to    *)
(* the chains.                                                             *)
(*                                                                         *)
(* The count that FatFs keeps for Explorer follows the FAT, over any calls *)
(* on any number of files, until a call to the card fails or the power     *)
(* goes.  The FAT is what the window and the card show together (Link).    *)
(* Moving the window changes none of it (Steady); every operator leaves a  *)
(* mounted volume with its count right (Mounted), and one that loops does  *)
(* because each of its turns does (RunKeeps).                              *)
(*                                                                         *)
(* The chains stay apart on the volume and on every card that is left on   *)
(* the way, one sector written after the other (Orderly).  A chain is the  *)
(* least set that has its first cluster and that no link leaves (Reach).   *)
(* This module has the lemmas about the operators, StorageOrderProofs      *)
(* those about the calls.                                                  *)
(***************************************************************************)
EXTENDS Storage, TLAPS, FiniteSetTheorems, SequenceTheorems, WellFoundedInduction
-----------------------------------------------------------------------------
(* The card and the window.                                                *)

Sectors == {FatSect(c) : c \in Clusters} \cup {ClustSect(c) : c \in Clusters} \cup {Fsi}
Fields ==
  {"disk", "win", "fs", "fp", "find", "bad", "io", "res", "val", "data", "at", "left", "in", "out"}

\* A sector of the FAT has an entry for each of its clusters.
IsTable(s, x) == DOMAIN x = {c \in Clusters : FatSect(c) = s} /\ \A c \in DOMAIN x : x[c] \in Nat
IsFile(f) == "open" \in DOMAIN f /\ (f.open => "slot" \in DOMAIN f /\ \E c : f.slot = ClustSect(c))

\* What every operator preserves as long as no call to the card fails: the sectors of the
\* FAT are tables, on the card and in the window, which differs from the card only when it
\* is dirty; and the entry of an open file is in a directory.
Good(v) ==
  /\ DOMAIN v = Fields
  /\ DOMAIN v.bad = {"at", "kept"} /\ v.bad.at \in Int /\ v.bad.at <= 0
  /\ DOMAIN v.fs = {"mounted", "free", "last", "fsi"} /\ v.fs.mounted \in BOOLEAN
  /\ DOMAIN v.fp = Names /\ \A n \in Names : IsFile(v.fp[n])
  /\ "open" \in DOMAIN v.find
  /\ DOMAIN v.win = {"sect", "buf", "dirty"} /\ v.win.dirty \in BOOLEAN
  /\ DOMAIN v.disk = Sectors
  /\ \A c \in Clusters :
       /\ IsTable(FatSect(c), v.disk[FatSect(c)])
       /\ v.win.sect = FatSect(c) =>
            IsTable(FatSect(c), v.win.buf) /\ (~v.win.dirty => v.win.buf = v.disk[FatSect(c)])

\* The FAT as a call sees it.
Link(v, c) == IF v.win.sect = FatSect(c) THEN v.win.buf[c] ELSE v.disk[FatSect(c)][c]
SameLinks(v, w) == \A c \in Clusters : Link(w, c) = Link(v, c)

\* What the window has nothing to do with.
Elsewhere(v, w) ==
  /\ w.fs = v.fs /\ w.fp = v.fp /\ w.find = v.find /\ w.at = v.at
  /\ w.left = v.left /\ w.in = v.in /\ w.out = v.out

\* An operator that only moves sectors about.
Steady(v, w) == Good(w) /\ Elsewhere(v, w) /\ SameLinks(v, w) /\ w.res = "ok"

LEMMA SectorKinds ==
  /\ \A c, d : FatSect(c) # ClustSect(d) /\ FatSect(c) # Fsi /\ ClustSect(c) # Fsi
  /\ \A c : FatSect(c) # Nowhere /\ ClustSect(c) # Nowhere
  /\ \A c \in Clusters : FatSect(c) \in Sectors
BY DEF FatSect, ClustSect, Fsi, Nowhere, Sectors

LEMMA LinksAreNumbers ==
  ASSUME NEW v, Good(v), NEW c \in Clusters PROVE Link(v, c) \in Nat
BY DEF Good, Link, IsTable

LEMMA TickIs ==
  ASSUME NEW v, Good(v)
  PROVE  /\ ~Hit(v) /\ Good(Tick(v)) /\ Elsewhere(v, Tick(v))
         /\ Tick(v).res = v.res /\ Tick(v).win = v.win /\ Tick(v).disk = v.disk /\ Tick(v).val = v.val
BY DEF Good, Fields, Tick, Hit, Elsewhere

LEMMA StoredIs ==
  ASSUME NEW v, Good(v), NEW s, NEW x
  PROVE  LET w == Stored(v, s, x)
         IN  /\ DOMAIN w = Fields /\ w.disk = [v.disk EXCEPT ![s] = x] /\ w.bad = v.bad
             /\ Elsewhere(v, w) /\ w.win = v.win /\ w.res = v.res /\ w.val = v.val
BY DEF Good, Fields, Stored, Elsewhere

\* A write to a sector that is not of the FAT, or of what the window holds.
Harmless(v, s, x) ==
  (\A c \in Clusters : s # FatSect(c)) \/ (s = v.win.sect /\ x = v.win.buf)
LEMMA WritesGood ==
  ASSUME NEW v, Good(v), v.res = "ok", NEW s, NEW x, Harmless(v, s, x)
  PROVE  LET w == DiskWrite(v, s, x)
         IN  /\ Steady(v, w) /\ w.win = v.win /\ w.val = v.val
             /\ \A r \in Sectors : w.disk[r] = IF r = s THEN x ELSE v.disk[r]
<1> DEFINE t == Tick(v)
           w == Stored(t, s, x)
<1>1. /\ Good(t) /\ Elsewhere(v, t) /\ t.res = "ok" /\ t.win = v.win /\ t.disk = v.disk /\ t.val = v.val
      /\ DiskWrite(v, s, x) = w
  BY TickIs DEF DiskWrite
<1> HIDE DEF t
<1>2. /\ DOMAIN w = Fields /\ w.disk = [v.disk EXCEPT ![s] = x] /\ w.bad = t.bad
      /\ Elsewhere(t, w) /\ w.win = v.win /\ w.res = "ok" /\ w.val = v.val
  BY <1>1, StoredIs
<1> HIDE DEF w
<1>3. DOMAIN w.disk = Sectors
  BY <1>2 DEF Good
<1>4. \A r \in Sectors : w.disk[r] = IF r = s THEN x ELSE v.disk[r]
  BY <1>2 DEF Good
<1>5. \A c \in Clusters : IsTable(FatSect(c), w.disk[FatSect(c)])
  BY <1>4, SectorKinds DEF Good, Harmless
<1>6. \A c \in Clusters : w.win.sect = FatSect(c) =>
        IsTable(FatSect(c), w.win.buf) /\ (~w.win.dirty => w.win.buf = w.disk[FatSect(c)])
  BY <1>2, <1>4, SectorKinds DEF Good, Harmless
<1>7. Good(w)
  BY <1>1, <1>2, <1>3, <1>5, <1>6 DEF Good, Elsewhere
<1>8. Elsewhere(v, w)
  BY <1>1, <1>2 DEF Elsewhere
<1>9. SameLinks(v, w)
  BY <1>2, <1>4, SectorKinds DEF SameLinks, Link, Harmless
<1> QED
  BY <1>1, <1>2, <1>4, <1>7, <1>8, <1>9 DEF Steady

LEMMA SyncWindowKeeps ==
  ASSUME NEW v, Good(v), v.res = "ok"
  PROVE  LET w == SyncWindow(v)
         IN  /\ Steady(v, w) /\ ~w.win.dirty /\ w.win.sect = v.win.sect /\ w.win.buf = v.win.buf
             /\ w.val = v.val
<1>1. CASE ~v.win.dirty
  BY <1>1 DEF SyncWindow, Steady, Elsewhere, SameLinks
<1>2. CASE v.win.dirty
  <2> DEFINE u == DiskWrite(v, v.win.sect, v.win.buf)
             w == [u EXCEPT !.win.dirty = FALSE]
  <2>1. /\ Steady(v, u) /\ u.win = v.win /\ u.val = v.val
        /\ \A r \in Sectors : u.disk[r] = IF r = v.win.sect THEN v.win.buf ELSE v.disk[r]
    <3>1. Harmless(v, v.win.sect, v.win.buf)
      BY DEF Harmless
    <3> QED
      BY <3>1, WritesGood
  <2>2. SyncWindow(v) = w
    BY <1>2, <2>1 DEF SyncWindow, Then, Steady
  <2> HIDE DEF u
  <2>3. /\ DOMAIN w = Fields /\ w.win = [u.win EXCEPT !.dirty = FALSE] /\ w.disk = u.disk /\ w.bad = u.bad
        /\ Elsewhere(u, w) /\ w.res = u.res /\ w.val = u.val
    BY <2>1 DEF Steady, Good, Fields, Elsewhere
  <2> HIDE DEF w
  <2>4. /\ w.win.sect = v.win.sect /\ w.win.buf = v.win.buf /\ ~w.win.dirty
        /\ DOMAIN w.win = {"sect", "buf", "dirty"}
    <3>1. DOMAIN v.win = {"sect", "buf", "dirty"}
      BY DEF Good
    <3>2. w.win = [v.win EXCEPT !.dirty = FALSE]
      BY <2>1, <2>3
    <3>3. w.win.sect = v.win.sect /\ w.win.buf = v.win.buf
      BY <3>1, <3>2
    <3>4. w.win.dirty = FALSE
      BY <3>1, <3>2
    <3>5. DOMAIN w.win = DOMAIN v.win
      BY <3>1, <3>2
    <3> QED
      BY <3>1, <3>3, <3>4, <3>5
  <2>5. \A c \in Clusters : w.win.sect = FatSect(c) => w.win.buf = w.disk[FatSect(c)]
    BY <2>1, <2>3, <2>4, SectorKinds DEF Good
  <2>6. Good(w)
    BY <2>1, <2>3, <2>4, <2>5 DEF Good, Steady, Elsewhere
  <2>7. Elsewhere(v, w) /\ SameLinks(v, w)
    BY <2>1, <2>3, <2>4 DEF Steady, Elsewhere, SameLinks, Link
  <2> QED
    BY <2>1, <2>2, <2>3, <2>4, <2>6, <2>7 DEF Steady
<1> QED
  BY <1>1, <1>2 DEF Good

LEMMA DiskReads ==
  ASSUME NEW v, Good(v), v.res = "ok", NEW s
  PROVE  LET w == DiskRead(v, s)
         IN  Steady(v, w) /\ w.win = v.win /\ w.val = v.val /\ w.disk = v.disk /\ w.data = v.disk[s]
<1> DEFINE t == Tick(v)
           w == [t EXCEPT !.data = v.disk[s]]
<1>1. /\ Good(t) /\ Elsewhere(v, t) /\ t.res = "ok" /\ t.win = v.win /\ t.disk = v.disk /\ t.val = v.val
      /\ DiskRead(v, s) = w
  BY TickIs DEF DiskRead
<1> HIDE DEF t
<1>2. /\ DOMAIN w = Fields /\ w.win = t.win /\ w.disk = t.disk /\ w.bad = t.bad /\ Elsewhere(t, w)
      /\ w.res = t.res /\ w.val = t.val /\ w.data = v.disk[s]
  BY <1>1 DEF Good, Fields, Elsewhere
<1> HIDE DEF w
<1>3. Good(w)
  BY <1>1, <1>2 DEF Good, Elsewhere
<1> QED
  BY <1>1, <1>2, <1>3 DEF Steady, SameLinks, Link, Elsewhere

\* The window is transparent: wherever it moves, a call sees the same FAT.
LEMMA MoveWindowKeeps ==
  ASSUME NEW v, Good(v), v.res = "ok", NEW s
  PROVE  LET w == MoveWindow(v, s) IN Steady(v, w) /\ w.win.sect = s /\ w.val = v.val
<1>1. CASE v.win.sect = s
  BY <1>1 DEF MoveWindow, Steady, Elsewhere, SameLinks
<1>2. CASE v.win.sect # s
  <2> DEFINE u == SyncWindow(v)
             t == DiskRead(u, s)
             w == [t EXCEPT !.win = [sect |-> s, buf |-> t.data, dirty |-> FALSE]]
  <2>1. Steady(v, u) /\ ~u.win.dirty /\ u.win.sect = v.win.sect /\ u.val = v.val
    BY SyncWindowKeeps
  <2>2. Steady(u, t) /\ t.win = u.win /\ t.val = u.val /\ t.disk = u.disk /\ t.data = u.disk[s]
    BY <2>1, DiskReads DEF Steady
  <2>3. MoveWindow(v, s) = w
    BY <1>2, <2>1, <2>2 DEF MoveWindow, Then, Steady
  <2> HIDE DEF u, t
  <2>4. /\ DOMAIN w = Fields /\ w.win = [sect |-> s, buf |-> t.data, dirty |-> FALSE] /\ w.disk = t.disk
        /\ w.bad = t.bad /\ Elsewhere(t, w) /\ w.res = t.res /\ w.val = t.val
    BY <2>2 DEF Steady, Good, Fields, Elsewhere
  <2> HIDE DEF w
  <2>5. \A c \in Clusters : s = FatSect(c) => w.win.buf = w.disk[FatSect(c)]
    BY <2>2, <2>4
  <2>6. Good(w)
    BY <2>2, <2>4, <2>5 DEF Good, Steady, Elsewhere
  <2>7. \A c \in Clusters : Link(t, c) = t.disk[FatSect(c)][c]
    BY <2>1, <2>2 DEF Link, Steady, Good
  <2>8. \A c \in Clusters : Link(w, c) = t.disk[FatSect(c)][c]
    BY <2>4, <2>5 DEF Link
  <2>9. SameLinks(v, w) /\ Elsewhere(v, w)
    BY <2>1, <2>2, <2>4, <2>7, <2>8 DEF Steady, SameLinks, Elsewhere
  <2> QED
    BY <2>1, <2>2, <2>3, <2>4, <2>6, <2>9 DEF Steady
<1> QED
  BY <1>1, <1>2
-----------------------------------------------------------------------------
(* The FAT.                                                                *)

LEMMA AnswerIs ==
  ASSUME NEW v, Good(v), NEW x
  PROVE  LET w == Answer(v, x)
         IN  /\ Good(w) /\ Elsewhere(v, w) /\ SameLinks(v, w) /\ w.res = v.res /\ w.win = v.win
             /\ w.val = x
<1> DEFINE w == Answer(v, x)
<1>1. /\ DOMAIN w = Fields /\ w.win = v.win /\ w.disk = v.disk /\ w.bad = v.bad /\ Elsewhere(v, w)
      /\ w.res = v.res /\ w.val = x
  BY DEF Good, Fields, Answer, Elsewhere
<1> HIDE DEF w
<1>2. Good(w)
  BY <1>1 DEF Good, Elsewhere
<1>3. SameLinks(v, w)
  BY <1>1 DEF SameLinks, Link
<1> QED
  BY <1>1, <1>2, <1>3 DEF w

LEMMA FailIs ==
  ASSUME NEW v, Good(v), NEW why
  PROVE  LET w == Fail(v, why)
         IN  /\ Good(w) /\ Elsewhere(v, w) /\ SameLinks(v, w) /\ w.res = why /\ w.win = v.win
             /\ w.val = v.val
<1> DEFINE w == Fail(v, why)
<1>1. /\ DOMAIN w = Fields /\ w.win = v.win /\ w.disk = v.disk /\ w.bad = v.bad /\ Elsewhere(v, w)
      /\ w.res = why /\ w.val = v.val
  BY DEF Good, Fields, Fail, Elsewhere
<1> HIDE DEF w
<1>2. Good(w)
  BY <1>1 DEF Good, Elsewhere
<1>3. SameLinks(v, w)
  BY <1>1 DEF SameLinks, Link
<1> QED
  BY <1>1, <1>2, <1>3 DEF w

LEMMA GetFatKeeps ==
  ASSUME NEW v, Good(v), v.res = "ok", NEW c
  PROVE  LET w == GetFat(v, c)
         IN  /\ Steady(v, w)
             /\ IF c \in Clusters THEN w.val = Link(v, c) /\ w.win.sect = FatSect(c) ELSE w.val = 1
<1>1. CASE c \in Clusters
  <2> DEFINE u == MoveWindow(v, FatSect(c))
             w == Answer(u, u.win.buf[c])
  <2>1. Steady(v, u) /\ u.win.sect = FatSect(c)
    BY MoveWindowKeeps
  <2>2. GetFat(v, c) = w
    BY <1>1, <2>1 DEF GetFat, Then, Steady
  <2> HIDE DEF u
  <2>3. /\ Good(w) /\ Elsewhere(u, w) /\ SameLinks(u, w) /\ w.res = "ok" /\ w.win = u.win
        /\ w.val = u.win.buf[c]
    BY <2>1, AnswerIs DEF Steady
  <2> HIDE DEF w
  <2>4. w.val = Link(v, c)
    BY <1>1, <2>1, <2>3 DEF Steady, SameLinks, Link
  <2>5. Steady(v, w)
    BY <2>1, <2>3 DEF Steady, SameLinks, Elsewhere
  <2> QED
    BY <1>1, <2>1, <2>2, <2>3, <2>4, <2>5
<1>2. CASE c \notin Clusters
  <2>1. GetFat(v, c) = Answer(v, 1)
    BY <1>2 DEF GetFat
  <2> QED
    BY <1>2, <2>1, AnswerIs DEF Steady
<1> QED
  BY <1>1, <1>2

\* One entry is changed, and no other.
LEMMA PutFatSets ==
  ASSUME NEW v, Good(v), v.res = "ok", NEW c \in Clusters, NEW x \in Nat
  PROVE  LET w == PutFat(v, c, x)
         IN  /\ Good(w) /\ Elsewhere(v, w) /\ w.res = "ok" /\ w.val = v.val
             /\ \A d \in Clusters : Link(w, d) = IF d = c THEN x ELSE Link(v, d)
<1> DEFINE u == MoveWindow(v, FatSect(c))
           buf == [u.win.buf EXCEPT ![c] = x]
           w == Put(u, buf)
<1>1. Steady(v, u) /\ u.win.sect = FatSect(c) /\ u.val = v.val
  BY MoveWindowKeeps
<1>2. PutFat(v, c, x) = w
  BY <1>1 DEF PutFat, Steady
<1> HIDE DEF u
<1>3. IsTable(FatSect(c), u.win.buf) /\ DOMAIN u.win = {"sect", "buf", "dirty"}
  BY <1>1 DEF Steady, Good
<1>4. /\ IsTable(FatSect(c), buf)
      /\ \A d \in Clusters : FatSect(d) = FatSect(c) => buf[d] = IF d = c THEN x ELSE u.win.buf[d]
  BY <1>3 DEF IsTable
<1> HIDE DEF buf
<1>5. /\ DOMAIN w = Fields /\ w.disk = u.disk /\ w.bad = u.bad /\ Elsewhere(u, w) /\ w.res = u.res
      /\ w.val = u.val /\ w.win = [[u.win EXCEPT !.buf = buf] EXCEPT !.dirty = TRUE]
  BY <1>1 DEF Steady, Good, Fields, Put, Elsewhere
<1>6. /\ DOMAIN w.win = {"sect", "buf", "dirty"} /\ w.win.sect = FatSect(c) /\ w.win.buf = buf
      /\ w.win.dirty = TRUE
  BY <1>1, <1>3, <1>5
<1> HIDE DEF w
<1>7. \A d \in Clusters : IsTable(FatSect(d), w.disk[FatSect(d)])
  BY <1>1, <1>5 DEF Steady, Good
<1>8. \A d \in Clusters : w.win.sect = FatSect(d) => IsTable(FatSect(d), w.win.buf)
  BY <1>4, <1>6
<1>9. Good(w)
  BY <1>1, <1>5, <1>6, <1>7, <1>8 DEF Good, Steady, Elsewhere
<1>10. \A d \in Clusters : Link(w, d) = IF d = c THEN x ELSE Link(u, d)
  BY <1>1, <1>4, <1>5, <1>6 DEF Link
<1> QED
  BY <1>1, <1>2, <1>5, <1>9, <1>10 DEF Steady, Elsewhere, SameLinks

\* The window is on a sector of data or of a directory.
OnData(v) == \E c : v.win.sect = ClustSect(c)

LEMMA PutKeeps ==
  ASSUME NEW v, Good(v), OnData(v), NEW x
  PROVE  LET w == Put(v, x)
         IN  /\ Good(w) /\ Elsewhere(v, w) /\ SameLinks(v, w) /\ w.res = v.res /\ w.val = v.val
             /\ w.win.sect = v.win.sect
<1> DEFINE w == Put(v, x)
<1>1. /\ DOMAIN w = Fields /\ w.disk = v.disk /\ w.bad = v.bad /\ Elsewhere(v, w) /\ w.res = v.res
      /\ w.val = v.val /\ w.win = [[v.win EXCEPT !.buf = x] EXCEPT !.dirty = TRUE]
  BY DEF Good, Fields, Put, Elsewhere
<1>2. DOMAIN v.win = {"sect", "buf", "dirty"}
  BY DEF Good
<1>3. DOMAIN w.win = {"sect", "buf", "dirty"} /\ w.win.sect = v.win.sect /\ w.win.dirty = TRUE
  BY <1>1, <1>2
<1> HIDE DEF w
<1>4. \A c \in Clusters : w.win.sect # FatSect(c)
  BY <1>3, SectorKinds DEF OnData
<1>5. Good(w)
  BY <1>1, <1>3, <1>4 DEF Good, Elsewhere
<1>6. SameLinks(v, w)
  BY <1>1, <1>3, <1>4 DEF SameLinks, Link
<1> QED
  BY <1>1, <1>3, <1>5, <1>6 DEF w
-----------------------------------------------------------------------------
(* The number of free clusters.                                            *)

FreeIn(v) == {c \in Clusters : Link(v, c) = 0}

\* A mounted volume whose count is right.
Mounted(v) == Good(v) /\ v.fs.mounted /\ v.fs.free = Cardinality(FreeIn(v))

LEMMA FatNumbers ==
  /\ LastCluster \in Nat /\ LastCluster > 2 /\ EOC \in Nat /\ EOC # 0 /\ EOC \notin Clusters
  /\ Clusters \subseteq Nat /\ 0 \notin Clusters /\ 1 \notin Clusters /\ 2 \in Clusters
  /\ \A c \in Clusters : c + 1 \in Clusters \/ c = LastCluster
BY FatFsAssumption DEF Clusters, EOC

LEMMA FreeFinite == ASSUME NEW v PROVE IsFiniteSet(FreeIn(v)) /\ Cardinality(FreeIn(v)) \in Nat
<1>1. IsFiniteSet(Clusters)
  BY FatNumbers, FS_Interval DEF Clusters
<1>2. FreeIn(v) \subseteq Clusters
  BY DEF FreeIn
<1>3. IsFiniteSet(FreeIn(v))
  BY <1>1, <1>2, FS_Subset
<1> QED
  BY <1>3, FS_CardinalityType

LEMMA SameCount ==
  ASSUME NEW v, NEW w, Mounted(v), Good(w), SameLinks(v, w), w.fs.mounted, w.fs.free = v.fs.free
  PROVE  Mounted(w)
<1>1. FreeIn(v) = FreeIn(w)
  BY DEF SameLinks, FreeIn
<1> QED
  BY <1>1 DEF Mounted

LEMMA SteadyMounted ==
  ASSUME NEW v, NEW w, Mounted(v), Good(w), SameLinks(v, w), Elsewhere(v, w)
  PROVE  Mounted(w)
BY SameCount DEF Mounted, Elsewhere

\* One entry changes between free and taken.
LEMMA OneTaken ==
  ASSUME NEW v, NEW w, NEW c \in Clusters, Link(v, c) = 0, Link(w, c) # 0,
         \A d \in Clusters : d # c => (Link(w, d) = 0 <=> Link(v, d) = 0)
  PROVE  Cardinality(FreeIn(w)) = Cardinality(FreeIn(v)) - 1
<1>1. FreeIn(w) = FreeIn(v) \ {c} /\ c \in FreeIn(v)
  BY DEF FreeIn
<1> QED
  BY <1>1, FreeFinite, FS_RemoveElement

LEMMA CountFreeIs ==
  ASSUME NEW v, Good(v), v.fs.free \in Nat, NEW more
  PROVE  LET w == CountFree(v, more)
         IN  /\ Good(w) /\ SameLinks(v, w) /\ w.fs.mounted = v.fs.mounted /\ w.fs.free = v.fs.free + more
             /\ w.res = v.res /\ w.val = v.val /\ w.fp = v.fp /\ w.find = v.find /\ w.win = v.win
<1> DEFINE w == CountFree(v, more)
<1>1. v.fs.free # Unknown
  BY DEF Unknown
<1>2. DOMAIN v.fs = {"mounted", "free", "last", "fsi"}
  BY DEF Good
<1>3. /\ DOMAIN w = Fields /\ w.disk = v.disk /\ w.bad = v.bad /\ w.win = v.win /\ w.res = v.res
      /\ w.val = v.val /\ w.fp = v.fp /\ w.find = v.find
  BY <1>1 DEF CountFree, Good, Fields
<1>4. DOMAIN w.fs = DOMAIN v.fs /\ w.fs.mounted = v.fs.mounted /\ w.fs.free = v.fs.free + more
  BY <1>1, <1>2 DEF CountFree, Good, Fields
<1> HIDE DEF w
<1>5. Good(w)
  BY <1>2, <1>3, <1>4 DEF Good
<1>6. SameLinks(v, w)
  BY <1>3 DEF SameLinks, Link
<1> QED
  BY <1>3, <1>4, <1>5, <1>6 DEF w
-----------------------------------------------------------------------------
(* Loops.  What holds of a loop is shown once for the ten loops of the   *)
(* module, which are told apart by a name: a lemma about any operator F    *)
(* could not be used.                                                      *)

Turn(loop, n, x) ==
  IF      loop = "free"  THEN FreeLink(x)
  ELSE IF loop = "probe" THEN Probe(x)
  ELSE IF loop = "find"  THEN FindStep(x, n)
  ELSE IF loop = "alloc" THEN AllocStep(x)
  ELSE IF loop = "list"  THEN ListStep(x)
  ELSE IF loop = "read"  THEN ReadTurn(x, n)
  ELSE IF loop = "write" THEN WriteTurn(x, n)
  ELSE IF loop = "scan"  THEN ScanStep(x)
  ELSE IF loop = "hop"   THEN Hop(n, x)
  ELSE SeekTurn(x, n)

\* A search for a free cluster, from the volume v0 on.
Probing(v0, x) ==
  /\ SameLinks(v0, x) /\ x.res = "ok" /\ x.at \in 1..LastCluster
  /\ x.val # 0 => x.val \in Clusters /\ Link(x, x.val) = 0

\* n is a name, or the volume before the loop.
Inv(loop, n, x) ==
  /\ Mounted(x)
  /\ loop = "probe" => Probing(n, x)
  /\ loop = "find" => (x.res = "ok" /\ x.at = 0 => OnData(x))

Keeps(loop, n) == \A x : Inv(loop, n, x) => Inv(loop, n, Turn(loop, n, x))

Runs(loop, n, v, k, g) == g = [i \in 0..k |-> IF i = 0 THEN v ELSE Turn(loop, n, g[i - 1])]

LEMMA SmallestNat ==
  ASSUME NEW T, T \subseteq Nat, T # {}
  PROVE  \E x \in T : \A y \in T : x <= y
<1> DEFINE R == OpToRel(<, Nat)
<1>1. IsWellFoundedOn(R, Nat)
  BY NatLessThanWellFounded
<1>2. R = {ss \in Nat \X Nat : ss[1] < ss[2]}
  BY DEF OpToRel
<1> HIDE DEF R
<1>3. PICK x \in T : \A y \in T : ~(<<y, x>> \in R)
  BY <1>1, WFMin, Zenon
<1>4. ASSUME NEW y \in T PROVE x <= y
  <2>1. x \in Nat /\ y \in Nat /\ ~(<<y, x>> \in R)
    BY <1>3
  <2> QED
    BY <1>2, <2>1
<1> QED
  BY <1>4

\* Induction: what 0 has, and passes on, all the numbers up to k have.
LEMMA Upwards ==
  ASSUME NEW k \in Nat, NEW T, 0 \in T, \A i \in 0..k - 1 : i \in T => i + 1 \in T
  PROVE  \A i \in 0..k : i \in T
<1> SUFFICES ASSUME {i \in 0..k : i \notin T} # {} PROVE FALSE
  OBVIOUS
<1> DEFINE U == {i \in 0..k : i \notin T}
<1>1. U \subseteq Nat /\ U # {}
  OBVIOUS
<1> HIDE DEF U
<1>2. PICK i \in U : \A j \in U : i <= j
  BY <1>1, SmallestNat
<1>3. i \in 0..k /\ i \notin T /\ i # 0
  BY <1>2 DEF U
<1>4. i - 1 \in 0..k - 1 /\ i - 1 \in 0..k /\ (i - 1) + 1 = i
  BY <1>3
<1>5. i - 1 \in T
  <2> SUFFICES ASSUME i - 1 \notin T PROVE FALSE
    OBVIOUS
  <2>1. i - 1 \in U
    BY <1>4 DEF U
  <2> QED
    BY <1>2, <1>3, <2>1
<1> QED
  BY <1>3, <1>4, <1>5

LEMMA RunExists ==
  ASSUME NEW loop, NEW n, NEW v, NEW k \in Nat
  PROVE  \E g : Runs(loop, n, v, k, g)
<1> DEFINE T == {i \in Nat : \E g : Runs(loop, n, v, i, g)}
<1>1. 0 \in T
  <2> DEFINE g == [i \in 0..0 |-> v]
  <2>1. g = [i \in 0..0 |-> IF i = 0 THEN v ELSE Turn(loop, n, g[i - 1])]
    OBVIOUS
  <2> QED
    BY <2>1 DEF Runs
<1>2. ASSUME NEW i \in 0..k - 1, i \in T PROVE i + 1 \in T
  <2>1. PICK g : Runs(loop, n, v, i, g)
    BY <1>2
  <2> DEFINE h == [j \in 0..i + 1 |-> IF j <= i THEN g[j] ELSE Turn(loop, n, g[i])]
  <2>2. \A j \in 0..i : g[j] = IF j = 0 THEN v ELSE Turn(loop, n, g[j - 1])
    BY <2>1 DEF Runs
  <2>3. \A j \in 0..i : j \in 0..i + 1 /\ h[j] = g[j]
    BY <1>2
  <2>4. i + 1 \in 0..i + 1 /\ ~(i + 1 <= i) /\ i \in 0..i /\ (i + 1) - 1 = i /\ i + 1 # 0
    BY <1>2
  <2>5. h[i + 1] = Turn(loop, n, h[(i + 1) - 1])
    BY <2>3, <2>4
  <2>6. ASSUME NEW j \in 0..i + 1 PROVE h[j] = IF j = 0 THEN v ELSE Turn(loop, n, h[j - 1])
    <3>1. CASE j = i + 1
      BY <2>4, <2>5, <3>1
    <3>2. CASE j = 0
      BY <1>2, <2>2, <2>3, <3>2
    <3>3. CASE j # i + 1 /\ j # 0
      <4>1. j \in 0..i /\ j - 1 \in 0..i
        BY <1>2, <3>3
      <4> QED
        BY <2>2, <2>3, <3>3, <4>1
    <3> QED
      BY <3>1, <3>2, <3>3
  <2>7. Runs(loop, n, v, i + 1, h)
    <3>1. h = [j \in 0..i + 1 |-> h[j]]
      OBVIOUS
    <3> HIDE DEF h
    <3> QED
      BY <2>6, <3>1 DEF Runs
  <2>8. i + 1 \in Nat
    BY <1>2
  <2> HIDE DEF h
  <2> QED
    BY <2>7, <2>8
<1> HIDE DEF T
<1>3. \A i \in 0..k : i \in T
  BY <1>1, <1>2, Upwards
<1>4. k \in T
  BY <1>3
<1> QED
  BY <1>4 DEF T

LEMMA RunKeeps ==
  ASSUME NEW loop, NEW n, NEW v, NEW k \in Nat, NEW g, Runs(loop, n, v, k, g),
         Inv(loop, n, v), Keeps(loop, n)
  PROVE  Inv(loop, n, g[k])
<1> DEFINE T == {i \in 0..k : Inv(loop, n, g[i])}
<1>1. \A i \in 0..k : g[i] = IF i = 0 THEN v ELSE Turn(loop, n, g[i - 1])
  BY DEF Runs
<1>2. 0 \in T
  BY <1>1
<1>3. ASSUME NEW i \in 0..k - 1, i \in T PROVE i + 1 \in T
  <2>1. i + 1 \in 0..k /\ i + 1 # 0 /\ (i + 1) - 1 = i
    OBVIOUS
  <2>2. g[i + 1] = Turn(loop, n, g[i])
    BY <1>1, <2>1
  <2> QED
    BY <1>3, <2>1, <2>2 DEF Keeps
<1> HIDE DEF T
<1>4. k \in T
  <2>1. \A i \in 0..k : i \in T
    BY <1>2, <1>3, Upwards
  <2> QED
    BY <2>1
<1> QED
  BY <1>4 DEF T
-----------------------------------------------------------------------------
(* Chains.                                                                 *)

LEMMA FreeLinkKeeps == ASSUME NEW v, Mounted(v) PROVE Mounted(FreeLink(v))
<1>1. CASE v.res # "ok" \/ v.val \notin Clusters
  BY <1>1 DEF FreeLink
<1>2. CASE v.res = "ok" /\ v.val \in Clusters
  <2> DEFINE g == GetFat(v, v.val)
             p == PutFat(g, v.val, 0)
             w == CountFree(p, 1)
  <2>1. Steady(v, g) /\ g.val = Link(v, v.val)
    BY <1>2, GetFatKeeps DEF Mounted
  <2>2. Mounted(g)
    BY <2>1, SteadyMounted DEF Steady
  <2>3. FreeLink(v) = IF g.val = 0 THEN Answer(g, EOC)
                      ELSE IF g.val = 1 THEN Fail(g, "int")
                      ELSE Then(p, LAMBDA x: Answer(CountFree(x, 1), g.val))
    BY <1>2, <2>1 DEF FreeLink, Then, Steady
  <2> HIDE DEF g
  <2>4. CASE g.val = 0
    BY <2>2, <2>3, <2>4, AnswerIs, SteadyMounted DEF Mounted
  <2>5. CASE g.val = 1
    BY <2>2, <2>3, <2>5, FailIs, SteadyMounted DEF Mounted
  <2>6. CASE g.val # 0 /\ g.val # 1
    <3>1. /\ Good(p) /\ Elsewhere(g, p) /\ p.res = "ok"
          /\ \A d \in Clusters : Link(p, d) = IF d = v.val THEN 0 ELSE Link(g, d)
      BY <1>2, <2>1, PutFatSets DEF Steady
    <3>2. FreeLink(v) = Answer(w, g.val)
      BY <2>3, <2>6, <3>1 DEF Then
    <3> HIDE DEF p
    <3>3. Link(g, v.val) # 0
      BY <1>2, <2>1, <2>6 DEF Steady, SameLinks
    <3>4. Cardinality(FreeIn(g)) = Cardinality(FreeIn(p)) - 1
      BY <1>2, <3>1, <3>3, OneTaken
    <3>5. p.fs = g.fs /\ p.fs.free \in Nat /\ p.fs.free + 1 = Cardinality(FreeIn(p))
      BY <2>2, <3>1, <3>4, FreeFinite DEF Mounted, Elsewhere
    <3>6. Good(w) /\ SameLinks(p, w) /\ w.fs.mounted /\ w.fs.free = Cardinality(FreeIn(p))
      BY <2>2, <3>1, <3>5, CountFreeIs DEF Mounted
    <3>7. FreeIn(w) = FreeIn(p)
      BY <3>6 DEF FreeIn, SameLinks
    <3>8. Mounted(w)
      BY <3>6, <3>7 DEF Mounted
    <3> HIDE DEF w
    <3> QED
      BY <3>2, <3>8, AnswerIs, SteadyMounted DEF Mounted
  <2> QED
    BY <2>4, <2>5, <2>6
<1> QED
  BY <1>1, <1>2

LEMMA RemoveChainKeeps == ASSUME NEW v, Mounted(v), NEW c PROVE Mounted(RemoveChain(v, c))
<1>1. CASE c \notin Clusters
  BY <1>1, FailIs, SteadyMounted DEF RemoveChain, Mounted
<1>2. CASE c \in Clusters
  <2> DEFINE a == Answer(v, c)
             P(h) == h = [i \in 0..LastCluster |-> IF i = 0 THEN a ELSE FreeLink(h[i - 1])]
             h == CHOOSE x : P(x)
  <2>1. RemoveChain(v, c) = h[LastCluster]
    BY <1>2 DEF RemoveChain, Turns
  <2>2. Mounted(a)
    BY AnswerIs, SteadyMounted DEF Mounted
  <2> HIDE DEF a
  <2>3. PICK g : Runs("free", "", a, LastCluster, g)
    BY RunExists, FatNumbers
  <2>4. P(g)
    BY <2>3 DEF Runs, Turn
  <2> HIDE DEF P
  <2>5. P(h)
    BY <2>4, Zenon
  <2> HIDE DEF h
  <2>6. Runs("free", "", a, LastCluster, h)
    BY <2>5 DEF Runs, Turn, P
  <2>7. Keeps("free", "")
    BY FreeLinkKeeps DEF Keeps, Inv, Turn
  <2> QED
    BY <2>1, <2>2, <2>6, <2>7, RunKeeps, FatNumbers DEF Inv
<1> QED
  BY <1>1, <1>2

\* An operator that leaves the card, the window and the count alone.
Beside(v, w) ==
  /\ DOMAIN w = Fields /\ w.disk = v.disk /\ w.win = v.win /\ w.bad = v.bad /\ w.fs = v.fs
  /\ "open" \in DOMAIN w.find /\ DOMAIN w.fp = Names /\ \A n \in Names : IsFile(w.fp[n])
LEMMA Aside ==
  ASSUME NEW v, Good(v), NEW w, Beside(v, w)
  PROVE  Good(w) /\ SameLinks(v, w) /\ (Mounted(v) => Mounted(w)) /\ (OnData(v) => OnData(w))
<1>1. Good(w)
  BY DEF Good, Beside
<1>2. SameLinks(v, w)
  BY DEF SameLinks, Link, Beside
<1>3. OnData(v) => OnData(w)
  BY DEF OnData, Beside
<1>4. Mounted(v) => Mounted(w)
  BY <1>1, <1>2, SameCount DEF Beside, Mounted
<1> QED
  BY <1>1, <1>2, <1>3, <1>4

\* The search finds a free cluster, or none.
LEMMA SearchFinds ==
  ASSUME NEW v, Mounted(v), v.res = "ok", NEW scl \in 1..LastCluster
  PROVE  LET f == Search(v, scl)
         IN  /\ Mounted(f) /\ SameLinks(v, f) /\ f.res = "ok"
             /\ f.val # 0 => f.val \in Clusters /\ Link(f, f.val) = 0
<1> DEFINE a == From(v, scl)
           P(h) == h = [i \in 0..FatEntries |-> IF i = 0 THEN a ELSE Probe(h[i - 1])]
           h == CHOOSE x : P(x)
<1>1. Search(v, scl) = h[FatEntries]
  BY DEF Search, Turns
<1>2. Inv("probe", v, a)
  <2>1. Beside(v, a) /\ a.res = "ok" /\ a.at = scl /\ a.val = 0
    BY DEF Mounted, Good, Fields, From, Beside
  <2> HIDE DEF a
  <2>2. Mounted(a) /\ SameLinks(v, a)
    BY <2>1, Aside DEF Mounted
  <2> QED
    BY <2>1, <2>2 DEF Inv, Probing
<1> HIDE DEF a
<1>3. FatEntries \in Nat
  BY FatNumbers DEF FatEntries
<1>4. PICK g : Runs("probe", v, a, FatEntries, g)
  BY <1>3, RunExists
<1>5. P(g)
  BY <1>4 DEF Runs, Turn
<1> HIDE DEF P
<1>6. P(h)
  BY <1>5, Zenon
<1> HIDE DEF h
<1>7. Runs("probe", v, a, FatEntries, h)
  BY <1>6 DEF Runs, Turn, P
<1>8. Keeps("probe", v)
  <2> SUFFICES ASSUME NEW x, Mounted(x), Probing(v, x) PROVE Mounted(Probe(x)) /\ Probing(v, Probe(x))
    BY DEF Keeps, Inv, Turn
  <2>1. CASE x.val # 0
    BY <2>1 DEF Probe
  <2>2. CASE x.val = 0
    <3> DEFINE c == IF x.at = LastCluster THEN 2 ELSE x.at + 1
               g1 == GetFat(x, c)
               w == [g1 EXCEPT !.at = c, !.val = IF @ = 0 THEN c ELSE 0]
    <3>1. c \in Clusters /\ c # 0 /\ c \in 1..LastCluster
      BY FatNumbers DEF Probing, Clusters
    <3> HIDE DEF c
    <3>2. Steady(x, g1) /\ g1.val = Link(x, c)
      BY <3>1, GetFatKeeps DEF Mounted, Probing
    <3>3. Probe(x) = w
      BY <2>2, <3>2 DEF Probe, Then, Steady, Probing, c
    <3> HIDE DEF g1
    <3>4. Beside(g1, w) /\ w.res = g1.res /\ w.at = c /\ w.val = IF g1.val = 0 THEN c ELSE 0
      BY <3>2 DEF Steady, Good, Fields, Beside
    <3> HIDE DEF w
    <3>5. Mounted(g1)
      BY <3>2, SteadyMounted DEF Steady
    <3>6. Mounted(w) /\ SameLinks(g1, w)
      BY <3>4, <3>5, Aside DEF Mounted
    <3>7. SameLinks(x, w) /\ SameLinks(v, w)
      BY <3>2, <3>6 DEF Steady, SameLinks, Probing
    <3>8. w.val # 0 => w.val \in Clusters /\ Link(w, w.val) = 0
      BY <3>1, <3>2, <3>4, <3>7 DEF SameLinks
    <3>9. w.res = "ok" /\ w.at \in 1..LastCluster
      BY <3>1, <3>2, <3>4 DEF Steady
    <3>10. Probing(v, w)
      BY <3>7, <3>8, <3>9 DEF Probing
    <3> QED
      BY <3>3, <3>6, <3>10
  <2> QED
    BY <2>1, <2>2
<1> QED
  BY <1>1, <1>2, <1>3, <1>7, <1>8, RunKeeps DEF Inv, Probing

LEMMA LastIs ==
  ASSUME NEW v, Good(v), NEW x
  PROVE  LET w == [v EXCEPT !.fs.last = x]
         IN  /\ Good(w) /\ SameLinks(v, w) /\ w.fs.mounted = v.fs.mounted /\ w.fs.free = v.fs.free
             /\ w.res = v.res /\ w.val = v.val /\ w.fp = v.fp /\ w.find = v.find /\ w.win = v.win
<1> DEFINE w == [v EXCEPT !.fs.last = x]
<1>1. /\ DOMAIN w = Fields /\ w.disk = v.disk /\ w.bad = v.bad /\ w.win = v.win /\ w.res = v.res
      /\ w.val = v.val /\ w.fp = v.fp /\ w.find = v.find /\ w.fs = [v.fs EXCEPT !.last = x]
  BY DEF Good, Fields
<1>2. DOMAIN w.fs = DOMAIN v.fs /\ w.fs.mounted = v.fs.mounted /\ w.fs.free = v.fs.free
  BY <1>1 DEF Good
<1> HIDE DEF w
<1>3. Good(w)
  BY <1>1, <1>2 DEF Good
<1>4. SameLinks(v, w)
  BY <1>1 DEF SameLinks, Link
<1> QED
  BY <1>1, <1>2, <1>3, <1>4 DEF w

LEMMA AllocateKeeps ==
  ASSUME NEW v, Mounted(v), v.res = "ok", NEW scl \in 1..LastCluster,
         NEW c, c = 0 \/ (c \in Clusters /\ Link(v, c) # 0)
  PROVE  Mounted(Allocate(v, c, scl))
<1> DEFINE f == Search(v, scl)
           new == f.val
           e == PutFat(f, new, EOC)
           p == IF c = 0 THEN e ELSE PutFat(e, c, new)
           l == [p EXCEPT !.fs.last = new]
           w == CountFree(l, -1)
<1>1. /\ Mounted(f) /\ SameLinks(v, f) /\ f.res = "ok"
      /\ new # 0 => new \in Clusters /\ Link(f, new) = 0
  BY SearchFinds
<1>2. CASE new = 0
  BY <1>1, <1>2 DEF Allocate, Then
<1>3. CASE new # 0
  <2> HIDE DEF f
  <2>1. new \in Clusters /\ Link(f, new) = 0 /\ new \in Nat /\ Good(f)
    BY <1>1, <1>3, FatNumbers DEF Mounted
  <2> HIDE DEF new
  <2>2. /\ Good(e) /\ Elsewhere(f, e) /\ e.res = "ok"
        /\ \A d \in Clusters : Link(e, d) = IF d = new THEN EOC ELSE Link(f, d)
    BY <1>1, <2>1, FatNumbers, PutFatSets
  <2> HIDE DEF e
  <2>3. /\ Good(p) /\ Elsewhere(f, p) /\ p.res = "ok"
        /\ Link(p, new) # 0 /\ \A d \in Clusters : d # new => (Link(p, d) = 0 <=> Link(f, d) = 0)
    <3>1. CASE c = 0
      BY <2>1, <2>2, <3>1, FatNumbers
    <3>2. CASE c # 0
      <4>1. c \in Clusters /\ Link(f, c) # 0 /\ c # new
        BY <1>1, <2>1, <3>2 DEF SameLinks
      <4>2. p = PutFat(e, c, new)
        BY <3>2
      <4> HIDE DEF p
      <4>3. /\ Good(p) /\ Elsewhere(e, p) /\ p.res = "ok"
            /\ \A d \in Clusters : Link(p, d) = IF d = c THEN new ELSE Link(e, d)
        <5>1. Good(e) /\ e.res = "ok" /\ c \in Clusters /\ new \in Nat
          BY <2>1, <2>2, <4>1
        <5>2. LET q == PutFat(e, c, new)
              IN  /\ Good(q) /\ Elsewhere(e, q) /\ q.res = "ok"
                  /\ \A d \in Clusters : Link(q, d) = IF d = c THEN new ELSE Link(e, d)
          BY <5>1, PutFatSets
        <5> QED
          BY <5>2, <4>2
      <4>4. Elsewhere(f, p)
        BY <2>2, <4>3 DEF Elsewhere
      <4>5. Link(p, new) # 0
        BY <2>1, <2>2, <4>1, <4>3, FatNumbers
      <4>6. ASSUME NEW d \in Clusters, d # new PROVE Link(p, d) = 0 <=> Link(f, d) = 0
        BY <2>1, <2>2, <4>1, <4>3, <4>6, FatNumbers
      <4> QED
        BY <4>3, <4>4, <4>5, <4>6
    <3> QED
      BY <3>1, <3>2
  <2>4. Allocate(v, c, scl) = Answer(w, new)
    BY <1>1, <1>3, <2>2, <2>3 DEF Allocate, Then, f, new, e
  <2> HIDE DEF p
  <2>5. Cardinality(FreeIn(p)) = Cardinality(FreeIn(f)) - 1
    BY <2>1, <2>3, OneTaken
  <2>6. p.fs = f.fs /\ p.fs.mounted /\ p.fs.free = Cardinality(FreeIn(f)) /\ p.fs.free \in Nat
    BY <1>1, <2>3, FreeFinite DEF Mounted, Elsewhere
  <2>7. Good(l) /\ SameLinks(p, l) /\ l.fs.mounted /\ l.fs.free = p.fs.free
    BY <2>3, <2>6, LastIs
  <2> HIDE DEF l
  <2>8. Good(w) /\ SameLinks(l, w) /\ w.fs.mounted /\ w.fs.free = p.fs.free + (-1)
    BY <2>6, <2>7, CountFreeIs
  <2> HIDE DEF w
  <2>9. FreeIn(w) = FreeIn(p)
    BY <2>7, <2>8 DEF FreeIn, SameLinks
  <2>10. Mounted(w)
    BY <2>5, <2>6, <2>8, <2>9, FreeFinite DEF Mounted
  <2> QED
    BY <2>4, <2>10, AnswerIs, SteadyMounted DEF Mounted
<1> QED
  BY <1>2, <1>3

LEMMA CreateChainKeeps ==
  ASSUME NEW v, Mounted(v), v.res = "ok", NEW c PROVE Mounted(CreateChain(v, c))
<1>1. CASE c = 0
  <2> DEFINE scl == IF v.fs.last \in Clusters THEN v.fs.last ELSE 1
  <2>1. scl \in 1..LastCluster
    BY FatNumbers DEF Clusters
  <2>2. CreateChain(v, c) = Allocate(v, 0, scl)
    BY <1>1 DEF CreateChain
  <2> HIDE DEF scl
  <2> QED
    BY <2>1, <2>2, AllocateKeeps
<1>2. CASE c # 0
  <2> DEFINE g == GetFat(v, c)
  <2>1. /\ Steady(v, g)
        /\ IF c \in Clusters THEN g.val = Link(v, c) /\ g.win.sect = FatSect(c) ELSE g.val = 1
    BY GetFatKeeps DEF Mounted
  <2>2. CreateChain(v, c) = IF g.val < 2 THEN Fail(g, "int")
                            ELSE IF g.val \in Clusters THEN g ELSE Allocate(g, c, c)
    BY <1>2, <2>1 DEF CreateChain, Then, Steady
  <2> HIDE DEF g
  <2>3. Mounted(g)
    BY <2>1, SteadyMounted DEF Steady
  <2>4. Mounted(Fail(g, "int"))
    BY <2>3, FailIs, SteadyMounted DEF Mounted
  <2>5. ASSUME ~(g.val < 2) PROVE Mounted(Allocate(g, c, c))
    <3>1. c \in Clusters /\ Link(g, c) = g.val /\ g.val # 0
      BY <2>1, <2>5 DEF Steady, SameLinks
    <3>2. c \in 1..LastCluster /\ g.res = "ok"
      BY <2>1, <3>1 DEF Clusters, Steady
    <3> QED
      BY <2>3, <3>1, <3>2, AllocateKeeps
  <2>6. CASE g.val < 2
    BY <2>2, <2>4, <2>6
  <2>7. CASE ~(g.val < 2)
    BY <2>2, <2>3, <2>5, <2>7
  <2> QED
    BY <2>6, <2>7
<1> QED
  BY <1>1, <1>2
-----------------------------------------------------------------------------
(* The directory.                                                          *)

\* A clean window goes to a sector that is not of the FAT.
Replaces(v, w) ==
  /\ DOMAIN w = Fields /\ w.disk = v.disk /\ w.bad = v.bad /\ w.fp = v.fp /\ w.find = v.find
  /\ DOMAIN w.win = {"sect", "buf", "dirty"} /\ w.win.dirty \in BOOLEAN
  /\ \A c : w.win.sect # FatSect(c)
  /\ DOMAIN w.fs = {"mounted", "free", "last", "fsi"}
  /\ w.fs.mounted = v.fs.mounted /\ w.fs.free = v.fs.free
LEMMA Replaced ==
  ASSUME NEW v, Good(v), ~v.win.dirty, NEW w, Replaces(v, w)
  PROVE  Good(w) /\ SameLinks(v, w) /\ (Mounted(v) => Mounted(w))
<1>1. Good(w)
  BY DEF Good, Replaces
<1>2. \A c \in Clusters : Link(v, c) = v.disk[FatSect(c)][c]
  BY DEF Link, Good
<1>3. SameLinks(v, w)
  BY <1>2 DEF SameLinks, Link, Replaces
<1> QED
  BY <1>1, <1>3, SameCount DEF Replaces, Mounted

LEMMA SyncFsKeeps ==
  ASSUME NEW v, Mounted(v), v.res = "ok"
  PROVE  Mounted(SyncFs(v))
<1> DEFINE w == SyncWindow(v)
           x == [free |-> w.fs.free, last |-> w.fs.last]
           u == DiskWrite(w, Fsi, x)
           z == [u EXCEPT !.win = [sect |-> Fsi, buf |-> x, dirty |-> FALSE], !.fs.fsi = "clean",
                          !.res = "ok"]
<1>1. Steady(v, w) /\ ~w.win.dirty /\ Good(w) /\ w.res = "ok" /\ Mounted(w)
  BY SyncWindowKeeps, SteadyMounted DEF Mounted, Steady
<1>2. SyncFs(v) = IF w.fs.fsi # "due" THEN w ELSE z
  BY <1>1 DEF SyncFs, Then
<1> HIDE DEF w
<1>3. Steady(w, u) /\ u.win = w.win /\ Mounted(u) /\ Good(u)
  <2>1. Harmless(w, Fsi, x)
    BY SectorKinds DEF Harmless
  <2> HIDE DEF x
  <2>2. Steady(w, u) /\ u.win = w.win
    BY <1>1, <2>1, WritesGood
  <2> QED
    BY <1>1, <2>2, SteadyMounted DEF Steady
<1> HIDE DEF u, x
<1>4. Replaces(u, z)
  BY <1>3, SectorKinds DEF Replaces, Good, Fields
<1> HIDE DEF z
<1>5. Mounted(z)
  BY <1>1, <1>3, <1>4, Replaced
<1> QED
  BY <1>1, <1>2, <1>5

LEMMA ClearClusterKeeps ==
  ASSUME NEW v, Mounted(v), v.res = "ok", NEW c
  PROVE  LET w == ClearCluster(v, c) IN Mounted(w) /\ w.res = "ok"
<1> DEFINE w == SyncWindow(v)
           z == [w EXCEPT !.win = [sect |-> ClustSect(c), buf |-> DirOf(Unused), dirty |-> TRUE]]
           y == SyncWindow(z)
<1>1. Steady(v, w) /\ ~w.win.dirty /\ Good(w) /\ w.res = "ok" /\ Mounted(w)
  BY SyncWindowKeeps, SteadyMounted DEF Mounted, Steady
<1>2. ClearCluster(v, c) = y
  BY <1>1 DEF ClearCluster, Then
<1> HIDE DEF w
<1>3. Replaces(w, z) /\ z.res = "ok"
  BY <1>1, SectorKinds DEF Replaces, Good, Fields
<1> HIDE DEF z
<1>4. Mounted(z)
  BY <1>1, <1>3, Replaced
<1>5. Steady(z, y)
  BY <1>3, <1>4, SyncWindowKeeps DEF Mounted
<1> HIDE DEF y
<1> QED
  BY <1>2, <1>4, <1>5, SteadyMounted DEF Steady

\* The window comes to a sector.
LEMMA Moved ==
  ASSUME NEW v, Mounted(v), v.res = "ok", NEW s
  PROVE  LET w == MoveWindow(v, s) IN
         /\ Mounted(w) /\ w.res = "ok" /\ w.win.sect = s /\ w.val = v.val /\ Elsewhere(v, w)
<1>1. LET w == MoveWindow(v, s) IN Steady(v, w) /\ w.win.sect = s /\ w.val = v.val
  BY MoveWindowKeeps DEF Mounted
<1> QED
  BY <1>1, SteadyMounted DEF Steady

LEMMA GotFat ==
  ASSUME NEW v, Mounted(v), v.res = "ok", NEW c
  PROVE  LET w == GetFat(v, c) IN Mounted(w) /\ w.res = "ok" /\ Elsewhere(v, w)
<1>1. Steady(v, GetFat(v, c))
  BY GetFatKeeps DEF Mounted
<1> QED
  BY <1>1, SteadyMounted DEF Steady

LEMMA Failed ==
  ASSUME NEW v, Mounted(v), NEW why
  PROVE  LET w == Fail(v, why) IN Mounted(w) /\ w.res = why /\ (OnData(v) => OnData(w))
<1>1. /\ Good(Fail(v, why)) /\ SameLinks(v, Fail(v, why)) /\ Elsewhere(v, Fail(v, why))
      /\ Fail(v, why).res = why /\ Fail(v, why).win = v.win
  BY FailIs DEF Mounted
<1> QED
  BY <1>1, SteadyMounted DEF OnData

LEMMA Answered ==
  ASSUME NEW v, Mounted(v), NEW x
  PROVE  LET w == Answer(v, x) IN Mounted(w) /\ w.res = v.res /\ w.val = x /\ Elsewhere(v, w)
<1>1. /\ Good(Answer(v, x)) /\ SameLinks(v, Answer(v, x)) /\ Elsewhere(v, Answer(v, x))
      /\ Answer(v, x).res = v.res /\ Answer(v, x).val = x
  BY AnswerIs DEF Mounted
<1> QED
  BY <1>1, SteadyMounted

LEMMA WritesEntry ==
  ASSUME NEW v, Mounted(v), OnData(v), NEW x
  PROVE  LET w == Put(v, x) IN Mounted(w) /\ OnData(w) /\ w.res = v.res /\ w.val = v.val
<1>1. LET w == Put(v, x)
      IN  /\ Good(w) /\ Elsewhere(v, w) /\ SameLinks(v, w) /\ w.res = v.res /\ w.val = v.val
          /\ w.win.sect = v.win.sect
  BY PutKeeps DEF Mounted
<1> QED
  BY <1>1, SteadyMounted DEF OnData

\* To a sector of a directory.
LEMMA MovedToData ==
  ASSUME NEW v, Mounted(v), v.res = "ok", NEW c
  PROVE  LET w == MoveWindow(v, ClustSect(c)) IN
         Mounted(w) /\ OnData(w) /\ w.res = "ok" /\ w.val = v.val /\ Elsewhere(v, w)
BY Moved DEF OnData

\* The walk of a directory ends with the window on the entry found.
Entered(v) == Mounted(v) /\ (v.res = "ok" => OnData(v))

LEMMA FindStepKeeps ==
  ASSUME NEW n, NEW v, Inv("find", n, v) PROVE Inv("find", n, FindStep(v, n))
<1> DEFINE w == MoveWindow(v, ClustSect(v.at))
           x == [w EXCEPT !.val = w.at, !.at = 0]
           g == GetFat(w, w.at)
           y == [g EXCEPT !.at = g.val]
<1>1. CASE v.res # "ok" \/ v.at = 0
  BY <1>1 DEF FindStep
<1>2. CASE v.res = "ok" /\ v.at # 0
  <2>1. Mounted(w) /\ OnData(w) /\ w.res = "ok" /\ Good(w)
    BY <1>2, MovedToData DEF Inv, Mounted
  <2>2. FindStep(v, n) = IF EntryAt(w).st = "unused" THEN Fail(w, "nofile")
                         ELSE IF EntryAt(w).st = "used" /\ EntryAt(w).name = n THEN x
                         ELSE Then(g, LAMBDA h: IF h.val < 2 THEN Fail(h, "int")
                                                ELSE IF h.val \notin Clusters THEN Fail(h, "nofile")
                                                ELSE [h EXCEPT !.at = h.val])
    BY <1>2, <2>1 DEF FindStep, Then
  <2> HIDE DEF w
  <2>3. Mounted(g) /\ g.res = "ok" /\ Good(g)
    BY <2>1, GotFat DEF Mounted
  <2>4. FindStep(v, n) \in {Fail(w, "nofile"), x, Fail(g, "int"), Fail(g, "nofile")}
        \/ (g.val \in Clusters /\ FindStep(v, n) = y)
    BY <2>2, <2>3 DEF Then
  <2> HIDE DEF g
  <2>5. CASE FindStep(v, n) = x
    <3>1. Beside(w, x)
      BY <2>1 DEF Beside, Good, Fields
    <3> HIDE DEF x
    <3> QED
      BY <2>1, <2>5, <3>1, Aside DEF Inv
  <2>6. CASE g.val \in Clusters /\ FindStep(v, n) = y
    <3>1. Beside(g, y) /\ y.at # 0
      BY <2>3, <2>6, FatNumbers DEF Beside, Good, Fields
    <3> HIDE DEF y
    <3> QED
      BY <2>3, <2>6, <3>1, Aside DEF Inv
  <2>7. CASE FindStep(v, n) \in {Fail(w, "nofile"), Fail(g, "int"), Fail(g, "nofile")}
    BY <2>1, <2>3, <2>7, Failed DEF Inv
  <2> QED
    BY <2>4, <2>5, <2>6, <2>7
<1> QED
  BY <1>1, <1>2

LEMMA Started ==
  ASSUME NEW v, Mounted(v) PROVE Mounted(AtRoot(v)) /\ AtRoot(v).at # 0 /\ AtRoot(v).res = v.res
<1>1. Beside(v, AtRoot(v)) /\ AtRoot(v).at = Root /\ AtRoot(v).res = v.res
  BY DEF Beside, Mounted, Good, Fields, AtRoot
<1> QED
  BY <1>1, Aside DEF Mounted, Root

LEMMA FindKeeps ==
  ASSUME NEW v, Mounted(v), NEW n PROVE Entered(Find(v, n))
<1> DEFINE a == AtRoot(v)
           P(h) == h = [i \in 0..LastCluster |-> IF i = 0 THEN a ELSE FindStep(h[i - 1], n)]
           h == CHOOSE x : P(x)
           w == h[LastCluster]
<1>1. Find(v, n) = IF w.res = "ok" /\ w.at # 0 THEN Fail(w, "endless") ELSE w
  BY DEF Find, Walk, Turns
<1>2. Inv("find", n, a)
  BY Started DEF Inv
<1> HIDE DEF a
<1>3. PICK g : Runs("find", n, a, LastCluster, g)
  BY RunExists, FatNumbers
<1>4. P(g)
  BY <1>3 DEF Runs, Turn
<1> HIDE DEF P
<1>5. P(h)
  BY <1>4, Zenon
<1> HIDE DEF h
<1>6. Runs("find", n, a, LastCluster, h)
  BY <1>5 DEF Runs, Turn, P
<1>7. Keeps("find", n)
  BY FindStepKeeps DEF Keeps, Turn
<1>8. Inv("find", n, w)
  BY <1>2, <1>6, <1>7, RunKeeps, FatNumbers
<1> HIDE DEF w
<1> QED
  BY <1>1, <1>8, Failed DEF Inv, Entered

LEMMA StretchKeeps ==
  ASSUME NEW v, Mounted(v), v.res = "ok" PROVE Mounted(Stretch(v))
<1> DEFINE a == CreateChain(v, v.at)
           z == ClearCluster(a, a.val)
           w == [z EXCEPT !.at = a.val]
<1>1. Mounted(a)
  BY CreateChainKeeps
<1>2. Stretch(v) = IF a.res # "ok" THEN a ELSE IF a.val = 0 THEN Fail(a, "denied")
                   ELSE Then(z, LAMBDA y: [y EXCEPT !.at = a.val])
  BY DEF Stretch, Then
<1> HIDE DEF a
<1>3. CASE a.res # "ok"
  BY <1>1, <1>2, <1>3
<1>4. CASE a.res = "ok" /\ a.val = 0
  BY <1>1, <1>2, <1>4, Failed
<1>5. CASE a.res = "ok" /\ a.val # 0
  <2>1. Mounted(z) /\ z.res = "ok"
    BY <1>1, <1>5, ClearClusterKeeps
  <2>2. Stretch(v) = w
    BY <1>2, <1>5, <2>1 DEF Then
  <2> HIDE DEF z
  <2>3. Beside(z, w)
    BY <2>1 DEF Beside, Mounted, Good, Fields
  <2> HIDE DEF w
  <2> QED
    BY <2>1, <2>2, <2>3, Aside DEF Mounted
<1> QED
  BY <1>3, <1>4, <1>5

LEMMA AllocStepKeeps ==
  ASSUME NEW v, Mounted(v) PROVE Mounted(AllocStep(v))
<1> DEFINE w == MoveWindow(v, ClustSect(v.at))
           x == [w EXCEPT !.val = w.at, !.at = 0]
           g == GetFat(w, w.at)
           y == [g EXCEPT !.at = g.val]
<1>1. CASE v.res # "ok" \/ v.at = 0
  BY <1>1 DEF AllocStep
<1>2. CASE v.res = "ok" /\ v.at # 0
  <2>1. Mounted(w) /\ w.res = "ok" /\ Good(w)
    BY <1>2, MovedToData DEF Mounted
  <2>2. AllocStep(v) = IF EntryAt(w).st # "used" THEN x
                       ELSE Then(g, LAMBDA h: IF h.val < 2 THEN Fail(h, "int")
                                              ELSE IF h.val \in Clusters THEN [h EXCEPT !.at = h.val]
                                              ELSE Stretch(h))
    BY <1>2, <2>1 DEF AllocStep, Then
  <2> HIDE DEF w
  <2>3. Mounted(g) /\ g.res = "ok" /\ Good(g)
    BY <2>1, GotFat DEF Mounted
  <2>4. AllocStep(v) \in {x, Fail(g, "int"), y, Stretch(g)}
    BY <2>2, <2>3 DEF Then
  <2> HIDE DEF g
  <2>5. Beside(w, x)
    BY <2>1 DEF Beside, Good, Fields
  <2>6. Beside(g, y)
    BY <2>3 DEF Beside, Good, Fields
  <2> HIDE DEF x, y
  <2> QED
    BY <2>1, <2>3, <2>4, <2>5, <2>6, Aside, Failed, StretchKeeps
<1> QED
  BY <1>1, <1>2

LEMMA RegisterKeeps ==
  ASSUME NEW v, Mounted(v), NEW n PROVE Entered(Register(v, n))
<1> DEFINE a == AtRoot(v)
           P(h) == h = [i \in 0..LastCluster |-> IF i = 0 THEN a ELSE AllocStep(h[i - 1])]
           h == CHOOSE x : P(x)
           w == h[LastCluster]
           u == IF w.res = "ok" /\ w.at # 0 THEN Fail(w, "endless") ELSE w
           m == MoveWindow(u, ClustSect(u.val))
           e == DirOf(Entry(n, FALSE, FALSE, 0, 0))
<1>1. Walk(AllocStep, v) = u
  BY DEF Walk, Turns
<1>2. Register(v, n) = IF u.res = "ok" THEN Then(m, LAMBDA x: Put(x, e)) ELSE u
  BY <1>1 DEF Register, Then
<1>3. Inv("alloc", "", a)
  BY Started DEF Inv
<1> HIDE DEF a
<1>4. PICK g : Runs("alloc", "", a, LastCluster, g)
  BY RunExists, FatNumbers
<1>5. P(g)
  BY <1>4 DEF Runs, Turn
<1> HIDE DEF P
<1>6. P(h)
  BY <1>5, Zenon
<1> HIDE DEF h
<1>7. Runs("alloc", "", a, LastCluster, h)
  BY <1>6 DEF Runs, Turn, P
<1>8. Keeps("alloc", "")
  BY AllocStepKeeps DEF Keeps, Turn, Inv
<1>9. Mounted(w)
  BY <1>3, <1>7, <1>8, RunKeeps, FatNumbers DEF Inv
<1> HIDE DEF w
<1>10. Mounted(u)
  BY <1>9, Failed
<1> HIDE DEF u
<1>11. CASE u.res = "ok"
  <2>1. Mounted(m) /\ OnData(m) /\ m.res = "ok"
    BY <1>10, <1>11, MovedToData
  <2>2. Register(v, n) = Put(m, e)
    BY <1>2, <1>11, <2>1 DEF Then
  <2> QED
    BY <2>1, <2>2, WritesEntry DEF Entered
<1>12. CASE u.res # "ok"
  BY <1>2, <1>10, <1>12 DEF Entered
<1> QED
  BY <1>11, <1>12

LEMMA RemoveEntryKeeps ==
  ASSUME NEW v, Mounted(v), v.res = "ok", NEW c
  PROVE  Mounted(RemoveEntry(v, c)) /\ RemoveEntry(v, c).res = "ok"
<1> DEFINE m == MoveWindow(v, ClustSect(c))
<1>1. Mounted(m) /\ OnData(m) /\ m.res = "ok"
  BY MovedToData
<1>2. RemoveEntry(v, c) = Put(m, DirOf(Deleted))
  BY <1>1 DEF RemoveEntry, Then
<1> QED
  BY <1>1, <1>2, WritesEntry
-----------------------------------------------------------------------------
(* The volume comes up.                                                    *)

\* Before the first call: the count is on the card.
Fresh(v) ==
  Good(v) /\ ~v.fs.mounted /\ v.win = NoWindow /\ v.disk[Fsi].free = Cardinality(FreeIn(v))
Ready(v) == Fresh(v) \/ Mounted(v)

LEMMA FindVolumeKeeps ==
  ASSUME NEW v, Ready(v), v.res = "ok"
  PROVE  LET w == FindVolume(v)
         IN  Mounted(w) /\ w.res = "ok" /\ w.fp = v.fp /\ w.find = v.find
<1>1. CASE Mounted(v)
  BY <1>1 DEF FindVolume, Mounted
<1>2. CASE Fresh(v)
  <2> DEFINE t == Tick(v)
             u == [t EXCEPT !.win = NoWindow]
             m == MoveWindow(u, Fsi)
             f == [mounted |-> TRUE, free |-> m.data.free, last |-> m.data.last, fsi |-> "clean"]
             w == [m EXCEPT !.res = "ok", !.fs = f]
  <2>1. /\ ~Hit(v) /\ Good(t) /\ Elsewhere(v, t) /\ t.res = "ok" /\ t.win = NoWindow
        /\ t.disk = v.disk
    BY <1>2, TickIs DEF Fresh
  <2>2. CardUp(v) = u
    BY <2>1 DEF CardUp
  <2> HIDE DEF t
  <2>3. /\ Replaces(t, u) /\ u.win = NoWindow /\ u.res = "ok" /\ u.fp = v.fp /\ u.find = v.find
        /\ u.disk = v.disk
    BY <2>1, SectorKinds DEF Replaces, Good, Fields, NoWindow, Elsewhere
  <2> HIDE DEF u
  <2>4. Good(u) /\ SameLinks(t, u)
    BY <2>1, <2>3, Replaced DEF NoWindow
  <2>5. Fsi # Nowhere
    BY DEF Fsi, Nowhere
  <2>6. Steady(u, m) /\ m.data = v.disk[Fsi]
    <3> DEFINE d == DiskRead(u, Fsi)
    <3>1. SyncWindow(u) = u
      BY <2>3 DEF SyncWindow, NoWindow
    <3>2. /\ Steady(u, d) /\ d.win = u.win /\ d.val = u.val /\ d.disk = u.disk
          /\ d.data = v.disk[Fsi]
      BY <2>3, <2>4, DiskReads
    <3>3. m = [d EXCEPT !.win = [sect |-> Fsi, buf |-> d.data, dirty |-> FALSE]]
      <4>1. u.win.sect # Fsi /\ d.res = "ok"
        BY <2>3, <2>5, <3>2 DEF NoWindow, Steady
      <4> QED
        BY <2>3, <3>1, <4>1 DEF MoveWindow, Then
    <3>4. Steady(u, m)
      BY <2>3, <2>4, MoveWindowKeeps
    <3> HIDE DEF d, m
    <3>5. m.data = d.data
      BY <3>2, <3>3 DEF Steady, Good, Fields
    <3> QED
      BY <3>2, <3>4, <3>5
  <2>7. FindVolume(v) = w
    BY <1>2, <2>2, <2>3, <2>6 DEF FindVolume, Then, Fresh, Steady
  <2> HIDE DEF m
  <2>8. /\ DOMAIN w = Fields /\ w.disk = m.disk /\ w.win = m.win /\ w.bad = m.bad /\ w.fs = f
        /\ w.find = m.find /\ w.fp = m.fp /\ w.res = "ok"
    BY <2>6 DEF Steady, Good, Fields
  <2> HIDE DEF w
  <2>9. Good(w)
    BY <2>6, <2>8 DEF Good, Steady
  <2>10. SameLinks(m, w)
    BY <2>8 DEF SameLinks, Link
  <2>11. SameLinks(v, w)
    BY <2>1, <2>4, <2>6, <2>10, <2>3, <1>2 DEF SameLinks, Steady, Link, Fresh
  <2>12. FreeIn(v) = FreeIn(w)
    BY <2>11 DEF SameLinks, FreeIn
  <2>13. w.fs.mounted /\ w.fs.free = Cardinality(FreeIn(w))
    BY <1>2, <2>6, <2>8, <2>12 DEF Fresh
  <2> QED
    BY <2>3, <2>6, <2>7, <2>8, <2>9, <2>13 DEF Mounted, Steady, Elsewhere
<1> QED
  BY <1>1, <1>2 DEF Ready

LEMMA LookupKeeps ==
  ASSUME NEW v, Ready(v), v.res = "ok" \/ Mounted(v), NEW n PROVE Entered(Lookup(v, n))
<1>1. CASE v.res = "ok"
  <2>1. Lookup(v, n) = Find(FindVolume(v), n)
    BY <1>1, FindVolumeKeeps DEF Lookup, Then
  <2> QED
    BY <1>1, <2>1, FindVolumeKeeps, FindKeeps
<1>2. CASE v.res # "ok"
  <2>1. Mounted(v) /\ Lookup(v, n) = v
    BY <1>2 DEF Lookup, FindVolume, Mounted, Then
  <2> QED
    BY <1>2, <2>1 DEF Entered
<1> QED
  BY <1>1, <1>2
-----------------------------------------------------------------------------
(* Opening.                                                                *)

LEMMA ClearKeeps ==
  ASSUME NEW v, Mounted(v), OnData(v), v.res = "ok", NEW n PROVE Entered(Clear(v, n))
<1> DEFINE old == EntryAt(v).clust
           w == Put(v, DirOf(Entry(n, FALSE, FALSE, 0, 0)))
           r == RemoveChain(w, old)
           l == [r EXCEPT !.fs.last = old - 1]
           m == MoveWindow(l, v.win.sect)
<1>1. Mounted(w) /\ OnData(w) /\ w.res = "ok"
  BY WritesEntry
<1>2. Clear(v, n) = IF old = 0 THEN w ELSE IF r.res = "ok" THEN m ELSE r
  BY DEF Clear, Then
<1> HIDE DEF old, w
<1>3. Mounted(r)
  BY <1>1, RemoveChainKeeps
<1> HIDE DEF r
<1>4. CASE r.res = "ok"
  <2>1. Mounted(l) /\ l.res = "ok"
    <3>1. /\ Good(l) /\ SameLinks(r, l) /\ l.fs.mounted = r.fs.mounted /\ l.fs.free = r.fs.free
          /\ l.res = r.res
      BY <1>3, LastIs DEF Mounted
    <3> HIDE DEF l
    <3> QED
      BY <1>3, <1>4, <3>1, SameCount DEF Mounted
  <2> HIDE DEF l
  <2>2. Mounted(m) /\ m.res = "ok" /\ m.win.sect = v.win.sect
    BY <2>1, Moved
  <2> QED
    BY <1>1, <1>2, <1>4, <2>2 DEF Entered, OnData
<1>5. CASE r.res # "ok"
  BY <1>1, <1>2, <1>3, <1>5 DEF Entered
<1> QED
  BY <1>4, <1>5

LEMMA CreateKeeps ==
  ASSUME NEW v, Entered(v), NEW n, NEW how PROVE Entered(Create(v, n, how))
<1>1. CASE v.res = "nofile"
  <2> DEFINE a == [v EXCEPT !.res = "ok"]
             r == Register(a, n)
  <2>1. Beside(v, a)
    BY DEF Entered, Mounted, Good, Fields, Beside
  <2>2. Create(v, n, how) = IF r.res = "ok" THEN Clear(r, n) ELSE r
    BY <1>1 DEF Create, Then
  <2> HIDE DEF a
  <2>3. Entered(r)
    BY <2>1, Aside, RegisterKeeps DEF Entered, Mounted
  <2> HIDE DEF r
  <2> QED
    BY <2>2, <2>3, ClearKeeps DEF Entered
<1>2. CASE v.res = "ok"
  <2>1. Create(v, n, how) \in {Fail(v, "denied"), Fail(v, "exist"), Clear(v, n)}
    BY <1>2 DEF Create, Then
  <2> QED
    BY <1>2, <2>1, Failed, ClearKeeps DEF Entered
<1>3. CASE v.res # "nofile" /\ v.res # "ok"
  BY <1>3 DEF Create, Then
<1> QED
  BY <1>1, <1>2, <1>3

LEMMA FOpenKeeps ==
  ASSUME NEW v, Ready(v), v.res = "ok" \/ Mounted(v), NEW n, NEW mode
  PROVE  Mounted(FOpen(v, n, mode))
<1> DEFINE found == Lookup(v, n)
           made == IF mode.how = "existing" THEN OpenOld(found, mode)
                   ELSE IF found.res \in {"ok", "nofile"} THEN Create(found, n, mode.how) ELSE found
           file == [open |-> TRUE, rd |-> mode.rd, wr |-> mode.wr, slot |-> made.win.sect,
                    sclust |-> EntryAt(made).clust, clust |-> 0, size |-> EntryAt(made).size, ptr |-> 0,
                    dsect |-> 0, buf |-> [i \in 1..Units |-> 0], dirty |-> FALSE,
                    written |-> mode.how # "existing", err |-> "ok"]
           w == [made EXCEPT !.fp[n] = file]
<1>1. Entered(found)
  BY LookupKeeps
<1>2. Entered(OpenOld(found, mode))
  <2>1. OpenOld(found, mode) \in {found, Fail(found, "nofile"), Fail(found, "denied")}
    BY DEF OpenOld, Then
  <2> QED
    BY <1>1, <2>1, Failed DEF Entered
<1>3. FOpen(v, n, mode) = IF made.res = "ok" THEN w ELSE made
  BY DEF FOpen, Then
<1> HIDE DEF found
<1>4. Entered(made)
  BY <1>1, <1>2, CreateKeeps
<1> HIDE DEF made
<1>5. CASE made.res = "ok"
  <2>1. IsFile(file)
    BY <1>4, <1>5 DEF IsFile, Entered, OnData
  <2> HIDE DEF file
  <2>2. Beside(made, w)
    BY <1>4, <2>1 DEF Entered, Mounted, Good, Fields, Beside
  <2> HIDE DEF w
  <2> QED
    BY <1>3, <1>4, <1>5, <2>2, Aside DEF Entered, Mounted
<1>6. CASE made.res # "ok"
  BY <1>3, <1>4, <1>6 DEF Entered
<1> QED
  BY <1>5, <1>6
-----------------------------------------------------------------------------
(* Reading and writing files.                                              *)

\* A write of data, and a read.
LEMMA StoredData ==
  ASSUME NEW v, Mounted(v), v.res = "ok", NEW c, NEW x
  PROVE  LET w == DiskWrite(v, ClustSect(c), x) IN Mounted(w) /\ w.res = "ok"
<1>1. Harmless(v, ClustSect(c), x)
  BY SectorKinds DEF Harmless
<1>2. Steady(v, DiskWrite(v, ClustSect(c), x))
  BY <1>1, WritesGood DEF Mounted
<1> QED
  BY <1>2, SteadyMounted DEF Steady

LEMMA FetchedData ==
  ASSUME NEW v, Mounted(v), v.res = "ok", NEW c
  PROVE  LET w == DiskRead(v, ClustSect(c)) IN Mounted(w) /\ w.res = "ok"
<1>1. Steady(v, DiskRead(v, ClustSect(c)))
  BY DiskReads DEF Mounted
<1> QED
  BY <1>1, SteadyMounted DEF Steady

LEMMA MountedBeside ==
  ASSUME NEW v, Mounted(v), NEW w, Beside(v, w) PROVE Mounted(w)
BY Aside DEF Mounted

LEMMA FlushBufKeeps ==
  ASSUME NEW v, Mounted(v), v.res = "ok", NEW n
  PROVE  Mounted(FlushBuf(v, n)) /\ FlushBuf(v, n).res = "ok"
<1> DEFINE u == DiskWrite(v, ClustSect(v.fp[n].dsect), DataOf(v.fp[n].buf))
           w == [u EXCEPT !.fp[n].dirty = FALSE]
<1>1. Mounted(u) /\ u.res = "ok"
  BY StoredData
<1>2. FlushBuf(v, n) \in {v, w}
  BY <1>1 DEF FlushBuf, Then
<1> HIDE DEF u
<1>3. Beside(u, w) /\ w.res = "ok"
  BY <1>1 DEF Mounted, Good, Fields, Beside, IsFile
<1> HIDE DEF w
<1> QED
  BY <1>1, <1>2, <1>3, MountedBeside

LEMMA FillBufKeeps ==
  ASSUME NEW v, Mounted(v), v.res = "ok", NEW n, NEW c
  PROVE  Mounted(FillBuf(v, n, c)) /\ FillBuf(v, n, c).res = "ok"
<1> DEFINE u == DiskRead(v, ClustSect(c))
           w == [u EXCEPT !.fp[n].buf = UnitsOf(u.data)]
<1>1. Mounted(u) /\ u.res = "ok"
  BY FetchedData
<1>2. FillBuf(v, n, c) = w
  BY <1>1 DEF FillBuf, Then
<1> HIDE DEF u
<1>3. Beside(u, w) /\ w.res = "ok"
  BY <1>1 DEF Mounted, Good, Fields, Beside, IsFile
<1> HIDE DEF w
<1> QED
  BY <1>1, <1>2, <1>3, MountedBeside

LEMMA ReadPartKeeps == ASSUME NEW v, Mounted(v), NEW n PROVE Mounted(ReadPart(v, n))
<1>1. Beside(v, ReadPart(v, n))
  BY DEF ReadPart, Mounted, Good, Fields, Beside, IsFile
<1> QED
  BY <1>1, MountedBeside

LEMMA ReadWholeKeeps ==
  ASSUME NEW v, Mounted(v), v.res = "ok", NEW n PROVE Mounted(ReadWhole(v, n))
<1> DEFINE f == v.fp[n]
           u == DiskRead(v, ClustSect(f.clust))
           y == IF f.dirty /\ f.dsect = f.clust THEN f.buf ELSE UnitsOf(u.data)
           w == [u EXCEPT !.out = @ \o y, !.fp[n].ptr = @ + Units, !.left = @ - Units]
<1>1. Mounted(u) /\ u.res = "ok"
  BY FetchedData
<1>2. ReadWhole(v, n) = w
  BY <1>1 DEF ReadWhole, Then
<1> HIDE DEF u, y
<1>3. Beside(u, w)
  BY <1>1 DEF Mounted, Good, Fields, Beside, IsFile
<1> HIDE DEF w
<1> QED
  BY <1>1, <1>2, <1>3, MountedBeside

LEMMA ReadNextKeeps ==
  ASSUME NEW v, Mounted(v), v.res = "ok", NEW n PROVE Mounted(ReadNext(v, n))
<1> DEFINE g == IF v.fp[n].ptr = 0 THEN Answer(v, v.fp[n].sclust) ELSE GetFat(v, v.fp[n].clust)
           h == [g EXCEPT !.fp[n].clust = g.val]
<1>1. Mounted(g) /\ g.res = "ok"
  BY Answered, GotFat
<1>2. ReadNext(v, n) \in {Fail(g, "int"), h, Fail(h, "int")}
  BY <1>1 DEF ReadNext, Then
<1> HIDE DEF g
<1>3. Beside(g, h)
  BY <1>1 DEF Mounted, Good, Fields, Beside, IsFile
<1> HIDE DEF h
<1>4. Mounted(h)
  BY <1>1, <1>3, MountedBeside
<1> QED
  BY <1>1, <1>2, <1>4, Failed

LEMMA ReadBufferedKeeps ==
  ASSUME NEW v, Mounted(v), v.res = "ok", NEW n PROVE Mounted(ReadBuffered(v, n))
<1> DEFINE c == v.fp[n].clust
           fl == FlushBuf(v, n)
           u == IF v.fp[n].dsect = c THEN v ELSE FillBuf(fl, n, c)
           w == [u EXCEPT !.fp[n].dsect = c]
<1>1. Mounted(fl) /\ fl.res = "ok"
  BY FlushBufKeeps
<1>2. Mounted(u) /\ u.res = "ok"
  BY <1>1, FillBufKeeps
<1>3. ReadBuffered(v, n) = ReadPart(w, n)
  BY <1>1, <1>2 DEF ReadBuffered, Then
<1> HIDE DEF u, c
<1>4. Beside(u, w)
  BY <1>2 DEF Mounted, Good, Fields, Beside, IsFile
<1> HIDE DEF w
<1> QED
  BY <1>2, <1>3, <1>4, MountedBeside, ReadPartKeeps

LEMMA ReadTurnKeeps == ASSUME NEW v, Mounted(v), NEW n PROVE Mounted(ReadTurn(v, n))
<1> DEFINE w == ReadNext(v, n)
<1>1. CASE v.res # "ok"
  BY <1>1 DEF ReadTurn
<1>2. CASE v.res = "ok"
  <2>1. Mounted(w)
    BY <1>2, ReadNextKeeps
  <2>2. \/ ReadTurn(v, n) \in {v, ReadPart(v, n)}
        \/ w.res # "ok" /\ ReadTurn(v, n) = w
        \/ w.res = "ok" /\ ReadTurn(v, n) \in {ReadWhole(w, n), ReadBuffered(w, n)}
    BY DEF ReadTurn, Then
  <2> HIDE DEF w
  <2> QED
    BY <2>1, <2>2, ReadPartKeeps, ReadWholeKeeps, ReadBufferedKeeps
<1> QED
  BY <1>1, <1>2

LEMMA WritePartKeeps == ASSUME NEW v, Mounted(v), NEW n PROVE Mounted(WritePart(v, n))
<1> DEFINE f == v.fp[n]
           at == Within(f)
           cnt == Lower(Units - at, Len(v.in))
           b == [i \in 1..Units |-> IF i \in at + 1..at + cnt THEN v.in[i - at] ELSE f.buf[i]]
           rest == SubSeq(v.in, cnt + 1, Len(v.in))
           w == [v EXCEPT !.fp[n].buf = b, !.fp[n].dirty = TRUE, !.fp[n].ptr = f.ptr + cnt, !.in = rest]
<1>1. WritePart(v, n) = w
  BY DEF WritePart
<1> HIDE DEF b, rest, cnt
<1>2. Beside(v, w)
  BY DEF Mounted, Good, Fields, Beside, IsFile
<1>3. Beside(v, WritePart(v, n))
  BY <1>1, <1>2
<1> QED
  BY <1>3, MountedBeside

LEMMA WriteWholeKeeps ==
  ASSUME NEW v, Mounted(v), v.res = "ok", NEW n PROVE Mounted(WriteWhole(v, n))
<1> DEFINE f == v.fp[n]
           y == SubSeq(v.in, 1, Units)
           cached == f.dsect = f.clust
           u == DiskWrite(v, ClustSect(f.clust), DataOf(y))
           w == [u EXCEPT !.fp[n].buf = IF cached THEN y ELSE @, !.fp[n].dirty = @ /\ ~cached,
                          !.fp[n].ptr = @ + Units, !.in = SubSeq(@, Units + 1, Len(@))]
<1>1. Mounted(u) /\ u.res = "ok"
  BY StoredData
<1>2. WriteWhole(v, n) = w
  BY <1>1 DEF WriteWhole, Then
<1> HIDE DEF u, y, cached
<1>3. Beside(u, w)
  BY <1>1 DEF Mounted, Good, Fields, Beside, IsFile
<1> HIDE DEF w
<1> QED
  BY <1>1, <1>2, <1>3, MountedBeside

LEMMA WriteBufferedKeeps ==
  ASSUME NEW v, Mounted(v), v.res = "ok", NEW n PROVE Mounted(WriteBuffered(v, n))
<1> DEFINE c == v.fp[n].clust
           u == IF v.fp[n].dsect # c /\ v.fp[n].ptr < v.fp[n].size THEN FillBuf(v, n, c) ELSE v
           w == [u EXCEPT !.fp[n].dsect = c]
<1>1. Mounted(u) /\ u.res = "ok"
  BY FillBufKeeps
<1>2. WriteBuffered(v, n) = WritePart(w, n)
  BY <1>1 DEF WriteBuffered, Then
<1> HIDE DEF u, c
<1>3. Beside(u, w)
  BY <1>1 DEF Mounted, Good, Fields, Beside, IsFile
<1> HIDE DEF w
<1> QED
  BY <1>1, <1>2, <1>3, MountedBeside, WritePartKeeps

LEMMA WriteTurnKeeps == ASSUME NEW v, Mounted(v), NEW n PROVE Mounted(WriteTurn(v, n))
<1> DEFINE g == WriteNext(v, n)
           e == [g EXCEPT !.in = <<>>]
           h == [g EXCEPT !.fp[n].clust = g.val, !.fp[n].sclust = IF @ = 0 THEN g.val ELSE @]
           w == FlushBuf(h, n)
<1>1. CASE v.res # "ok"
  BY <1>1 DEF WriteTurn
<1>2. CASE v.res = "ok"
  <2>1. Mounted(g)
    BY <1>2, CreateChainKeeps, Answered DEF WriteNext
  <2>2. \/ WriteTurn(v, n) \in {v, WritePart(v, n)}
        \/ g.res # "ok" /\ WriteTurn(v, n) = g
        \/ g.res = "ok" /\ WriteTurn(v, n) = e
        \/ g.res = "ok" /\ w.res # "ok" /\ WriteTurn(v, n) = w
        \/ g.res = "ok" /\ w.res = "ok" /\ WriteTurn(v, n) \in {WriteWhole(w, n), WriteBuffered(w, n)}
    BY DEF WriteTurn, Then
  <2> HIDE DEF g
  <2>3. Beside(g, e) /\ Beside(g, h) /\ h.res = g.res
    BY <2>1 DEF Mounted, Good, Fields, Beside, IsFile
  <2> HIDE DEF e, h
  <2>4. Mounted(e) /\ Mounted(h)
    BY <2>1, <2>3, MountedBeside
  <2>5. g.res = "ok" => Mounted(w) /\ w.res = "ok"
    BY <2>3, <2>4, FlushBufKeeps
  <2> HIDE DEF w
  <2> QED
    BY <2>1, <2>2, <2>4, <2>5, WritePartKeeps, WriteWholeKeeps, WriteBufferedKeeps
<1> QED
  BY <1>1, <1>2

LEMMA AbortKeeps == ASSUME NEW v, Mounted(v), NEW n PROVE Mounted(Abort(v, n))
<1> DEFINE w == [v EXCEPT !.fp[n].err = v.res]
<1>1. Abort(v, n) \in {v, w}
  BY DEF Abort
<1>2. Beside(v, w)
  BY DEF Mounted, Good, Fields, Beside, IsFile
<1> HIDE DEF w
<1> QED
  BY <1>1, <1>2, MountedBeside

LEMMA FReadKeeps ==
  ASSUME NEW v, Mounted(v), NEW n, NEW cnt \in Nat PROVE Mounted(FRead(v, n, cnt))
<1> DEFINE a == [v EXCEPT !.left = Lower(cnt, v.fp[n].size - v.fp[n].ptr)]
           P(h) == h = [i \in 0..cnt |-> IF i = 0 THEN a ELSE ReadTurn(h[i - 1], n)]
           h == CHOOSE x : P(x)
<1>1. FRead(v, n, cnt) \in {Fail(v, v.fp[n].err), Fail(v, "denied"), Abort(h[cnt], n)}
  BY DEF FRead, Checked, Turns
<1>2. Mounted(a)
  <2>1. Beside(v, a)
    BY DEF Mounted, Good, Fields, Beside
  <2> QED
    BY <2>1, MountedBeside
<1> HIDE DEF a
<1>3. PICK g : Runs("read", n, a, cnt, g)
  BY RunExists
<1>4. P(g)
  BY <1>3 DEF Runs, Turn
<1> HIDE DEF P
<1>5. P(h)
  BY <1>4, Zenon
<1> HIDE DEF h
<1>6. Runs("read", n, a, cnt, h)
  BY <1>5 DEF Runs, Turn, P
<1>7. Keeps("read", n)
  BY ReadTurnKeeps DEF Keeps, Inv, Turn
<1>8. Mounted(h[cnt])
  BY <1>2, <1>6, <1>7, RunKeeps DEF Inv
<1> QED
  BY <1>1, <1>8, Failed, AbortKeeps

LEMMA FWriteKeeps ==
  ASSUME NEW v, Mounted(v), NEW n, NEW u, Len(u) \in Nat PROVE Mounted(FWrite(v, n, u))
<1> DEFINE a == [v EXCEPT !.in = u]
           P(h) == h = [i \in 0..Len(u) |-> IF i = 0 THEN a ELSE WriteTurn(h[i - 1], n)]
           h == CHOOSE x : P(x)
           y == h[Len(u)]
           z == [y EXCEPT !.fp[n].size = IF y.fp[n].ptr > @ THEN y.fp[n].ptr ELSE @,
                          !.fp[n].written = TRUE]
<1>1. FWrite(v, n, u) \in {Fail(v, v.fp[n].err), Fail(v, "denied"), Abort(y, n), Abort(z, n)}
  BY DEF FWrite, Checked, Turns, Then
<1>2. Mounted(a)
  <2>1. Beside(v, a)
    BY DEF Mounted, Good, Fields, Beside
  <2> QED
    BY <2>1, MountedBeside
<1> HIDE DEF a
<1>3. PICK g : Runs("write", n, a, Len(u), g)
  BY RunExists
<1>4. P(g)
  BY <1>3 DEF Runs, Turn
<1> HIDE DEF P
<1>5. P(h)
  BY <1>4, Zenon
<1> HIDE DEF h
<1>6. Runs("write", n, a, Len(u), h)
  BY <1>5 DEF Runs, Turn, P
<1>7. Keeps("write", n)
  BY WriteTurnKeeps DEF Keeps, Inv, Turn
<1>8. Mounted(y)
  BY <1>2, <1>6, <1>7, RunKeeps DEF Inv
<1> HIDE DEF y
<1>9. Mounted(z)
  <2>1. Beside(y, z)
    BY <1>8 DEF Mounted, Good, Fields, Beside, IsFile
  <2> HIDE DEF z
  <2> QED
    BY <1>8, <2>1, MountedBeside
<1> HIDE DEF z
<1> QED
  BY <1>1, <1>8, <1>9, Failed, AbortKeeps

LEMMA SeekTurnKeeps == ASSUME NEW v, Mounted(v), NEW n PROVE Mounted(SeekTurn(v, n))
<1> DEFINE g == IF v.fp[n].wr THEN CreateChain(v, v.val) ELSE GetFat(v, v.val)
           x == [g EXCEPT !.left = Units, !.val = v.val]
           y == [g EXCEPT !.fp[n].clust = g.val, !.fp[n].ptr = @ + Units, !.left = @ - Units]
<1>1. CASE v.res # "ok"
  BY <1>1 DEF SeekTurn
<1>2. CASE v.res = "ok"
  <2>1. Mounted(g)
    BY <1>2, CreateChainKeeps, GotFat
  <2>2. SeekTurn(v, n) \in {v, g, x, Fail(g, "int"), y}
    BY DEF SeekTurn, Then
  <2> HIDE DEF g
  <2>3. Beside(g, x) /\ Beside(g, y)
    BY <2>1 DEF Mounted, Good, Fields, Beside, IsFile
  <2> HIDE DEF x, y
  <2> QED
    BY <1>2, <2>1, <2>2, <2>3, MountedBeside, Failed
<1> QED
  BY <1>1, <1>2

LEMMA SeekStartKeeps ==
  ASSUME NEW v, Mounted(v), v.res = "ok", NEW n, NEW ofs PROVE Mounted(SeekStart(v, n, ofs))
<1> DEFINE f == v.fp[n]
           here == ((f.ptr - 1) \div Units) * Units
           x == [v EXCEPT !.fp[n].ptr = here, !.left = ofs - here, !.val = f.clust]
           w == [v EXCEPT !.fp[n].ptr = 0, !.left = ofs]
           g == IF f.sclust = 0 THEN CreateChain(w, 0) ELSE Answer(w, f.sclust)
           y == [g EXCEPT !.fp[n].sclust = g.val, !.fp[n].clust = g.val]
<1>1. SeekStart(v, n, ofs) \in {x, g, y}
  BY DEF SeekStart, Then
<1> HIDE DEF here
<1>2. Beside(v, x) /\ Beside(v, w) /\ w.res = "ok"
  BY DEF Mounted, Good, Fields, Beside, IsFile
<1> HIDE DEF x, w
<1>3. Mounted(x) /\ Mounted(w)
  BY <1>2, MountedBeside
<1>4. Mounted(g)
  BY <1>2, <1>3, CreateChainKeeps, Answered
<1> HIDE DEF g
<1>5. Beside(g, y)
  BY <1>4 DEF Mounted, Good, Fields, Beside, IsFile
<1> HIDE DEF y
<1> QED
  BY <1>1, <1>3, <1>4, <1>5, MountedBeside

LEMMA SeekLandKeeps ==
  ASSUME NEW v, Mounted(v), v.res = "ok", NEW n PROVE Mounted(SeekLand(v, n))
<1> DEFINE w == [v EXCEPT !.fp[n].ptr = @ + v.left]
           x == FlushBuf(w, n)
           y == FillBuf(x, n, w.val)
           z == [y EXCEPT !.fp[n].dsect = w.val]
<1>1. Beside(v, w) /\ w.res = "ok"
  BY DEF Mounted, Good, Fields, Beside, IsFile
<1>2. \/ SeekLand(v, n) \in {v, w, z}
      \/ x.res # "ok" /\ SeekLand(v, n) = x
      \/ x.res = "ok" /\ y.res # "ok" /\ SeekLand(v, n) = y
  BY DEF SeekLand, Then
<1> HIDE DEF w
<1>3. Mounted(w)
  BY <1>1, MountedBeside
<1>4. Mounted(x) /\ x.res = "ok"
  BY <1>1, <1>3, FlushBufKeeps
<1> HIDE DEF x
<1>5. Mounted(y) /\ y.res = "ok"
  BY <1>4, FillBufKeeps
<1> HIDE DEF y
<1>6. Beside(y, z)
  BY <1>5 DEF Mounted, Good, Fields, Beside, IsFile
<1> HIDE DEF z
<1> QED
  BY <1>2, <1>3, <1>4, <1>5, <1>6, MountedBeside

LEMMA GrownKeeps == ASSUME NEW v, Mounted(v), NEW n PROVE Mounted(Grown(v, n))
<1> DEFINE w == [v EXCEPT !.fp[n].size = v.fp[n].ptr, !.fp[n].written = TRUE]
<1>1. Grown(v, n) \in {v, w}
  BY DEF Grown
<1>2. Beside(v, w)
  BY DEF Mounted, Good, Fields, Beside, IsFile
<1> HIDE DEF w
<1> QED
  BY <1>1, <1>2, MountedBeside

LEMMA FLseekKeeps ==
  ASSUME NEW v, Mounted(v), v.res = "ok", NEW n, NEW to \in Nat PROVE Mounted(FLseek(v, n, to))
<1> DEFINE f == v.fp[n]
           ofs == IF to > f.size /\ ~f.wr THEN f.size ELSE to
           a == SeekStart(v, n, ofs)
           P(h) == h = [i \in 0..to |-> IF i = 0 THEN a ELSE SeekTurn(h[i - 1], n)]
           h == CHOOSE x : P(x)
           s == h[to]
           l == IF s.res = "ok" THEN SeekLand(s, n) ELSE s
           r == IF l.res = "ok" THEN Grown(l, n) ELSE l
           z == [v EXCEPT !.fp[n].ptr = 0]
<1>1. FLseek(v, n, to) \in {Fail(v, v.fp[n].err), z, Abort(r, n)}
  BY DEF FLseek, Checked, Turns, Then
<1>2. Mounted(a)
  BY SeekStartKeeps
<1> HIDE DEF a
<1>3. PICK g : Runs("seek", n, a, to, g)
  BY RunExists
<1>4. P(g)
  BY <1>3 DEF Runs, Turn
<1> HIDE DEF P
<1>5. P(h)
  BY <1>4, Zenon
<1> HIDE DEF h
<1>6. Runs("seek", n, a, to, h)
  BY <1>5 DEF Runs, Turn, P
<1>7. Keeps("seek", n)
  BY SeekTurnKeeps DEF Keeps, Inv, Turn
<1>8. Mounted(s)
  BY <1>2, <1>6, <1>7, RunKeeps DEF Inv
<1> HIDE DEF s
<1>9. Mounted(l)
  BY <1>8, SeekLandKeeps
<1> HIDE DEF l
<1>10. Mounted(r)
  BY <1>9, GrownKeeps
<1> HIDE DEF r
<1>11. Beside(v, z)
  BY DEF Mounted, Good, Fields, Beside, IsFile
<1> HIDE DEF z
<1> QED
  BY <1>1, <1>10, <1>11, MountedBeside, Failed, AbortKeeps

LEMMA FlushBufOpen ==
  ASSUME NEW v, Mounted(v), v.res = "ok", NEW n \in Names, v.fp[n].open
  PROVE  FlushBuf(v, n).fp[n].open
<1> DEFINE u == DiskWrite(v, ClustSect(v.fp[n].dsect), DataOf(v.fp[n].buf))
           w == [u EXCEPT !.fp[n].dirty = FALSE]
<1>1. Mounted(u) /\ u.res = "ok" /\ u.fp[n].open
  <2>1. Harmless(v, ClustSect(v.fp[n].dsect), DataOf(v.fp[n].buf))
    BY SectorKinds DEF Harmless
  <2>2. Steady(v, u)
    BY <2>1, WritesGood DEF Mounted
  <2> QED
    BY <2>2, SteadyMounted DEF Steady, Elsewhere
<1>2. FlushBuf(v, n) \in {v, w}
  BY <1>1 DEF FlushBuf, Then
<1> HIDE DEF u
<1>3. w.fp[n].open
  BY <1>1 DEF Mounted, Good, Fields, IsFile
<1> QED
  BY <1>2, <1>3

LEMMA FSyncKeeps ==
  ASSUME NEW v, Mounted(v), v.res = "ok", NEW n \in Names, v.fp[n].open
  PROVE  Mounted(FSync(v, n))
<1> DEFINE a == FlushBuf(v, n)
           m == MoveWindow(a, a.fp[n].slot)
           k == [m EXCEPT !.fp[n].written = FALSE]
           x == DirOf([EntryAt(m) EXCEPT !.clust = m.fp[n].sclust, !.size = m.fp[n].size])
           y == DirOf([EntryAt(m) EXCEPT !.clust = k.fp[n].sclust, !.size = k.fp[n].size])
           p == Put(k, x)
<1>1. Mounted(a) /\ a.res = "ok" /\ \E c : a.fp[n].slot = ClustSect(c)
  <2>1. Mounted(a) /\ a.res = "ok" /\ a.fp[n].open
    BY FlushBufKeeps, FlushBufOpen
  <2>2. IsFile(a.fp[n])
    BY <2>1 DEF Mounted, Good
  <2> QED
    BY <2>1, <2>2 DEF IsFile
<1>2. Mounted(m) /\ OnData(m) /\ m.res = "ok"
  BY <1>1, MovedToData
<1>3. FSync(v, n) \in {v, SyncFs(p)}
  BY <1>1, <1>2 DEF FSync, Then
<1> HIDE DEF m, x
<1>4. Beside(m, k) /\ k.res = "ok"
  BY <1>2 DEF Mounted, Good, Fields, Beside, IsFile
<1> HIDE DEF k
<1>5. Mounted(p) /\ p.res = "ok"
  BY <1>2, <1>4, Aside, WritesEntry DEF Mounted
<1> QED
  BY <1>3, <1>5, SyncFsKeeps

\* A cluster that is taken stays so.
LEMMA TakenStays ==
  ASSUME NEW v, Mounted(v), v.res = "ok", NEW c \in Clusters, Link(v, c) # 0, NEW x \in Nat, x # 0
  PROVE  Mounted(PutFat(v, c, x)) /\ PutFat(v, c, x).res = "ok"
<1> DEFINE w == PutFat(v, c, x)
<1>1. /\ Good(w) /\ Elsewhere(v, w) /\ w.res = "ok"
      /\ \A d \in Clusters : Link(w, d) = IF d = c THEN x ELSE Link(v, d)
  BY PutFatSets DEF Mounted
<1> HIDE DEF w
<1>2. FreeIn(v) = FreeIn(w)
  BY <1>1 DEF FreeIn
<1>3. Mounted(w)
  BY <1>1, <1>2 DEF Mounted, Elsewhere
<1> QED
  BY <1>1, <1>3 DEF w

LEMMA FTruncateKeeps ==
  ASSUME NEW v, Mounted(v), v.res = "ok", NEW n PROVE Mounted(FTruncate(v, n))
<1> DEFINE f == v.fp[n]
           x == [v EXCEPT !.fp[n].size = f.ptr, !.fp[n].written = TRUE]
           r == RemoveChain(x, f.sclust)
           q == [r EXCEPT !.fp[n].sclust = 0]
           g == GetFat(x, f.clust)
           p == PutFat(g, f.clust, EOC)
           t == IF g.val = 1 THEN Fail(g, "int") ELSE IF g.val \notin Clusters THEN g
                ELSE IF p.res = "ok" THEN RemoveChain(p, g.val) ELSE p
           k == IF f.ptr = 0 THEN q ELSE t
           l == IF k.res = "ok" THEN FlushBuf(k, n) ELSE k
<1>1. Beside(v, x) /\ x.res = "ok"
  BY DEF Mounted, Good, Fields, Beside, IsFile
<1> HIDE DEF x
<1>2. Mounted(x) /\ Mounted(r)
  BY <1>1, MountedBeside, RemoveChainKeeps
<1>3. Mounted(q)
  <2> HIDE DEF r
  <2>1. Beside(r, q)
    BY <1>2 DEF Mounted, Good, Fields, Beside, IsFile
  <2> QED
    BY <1>2, <2>1, MountedBeside
<1>4. Mounted(g) /\ g.res = "ok"
  BY <1>1, <1>2, GotFat
<1>5. Mounted(t)
  <2>1. CASE g.val \in Clusters
    <3>1. f.clust \in Clusters /\ Link(g, f.clust) # 0
      <4>1. /\ Steady(x, g)
            /\ IF f.clust \in Clusters THEN g.val = Link(x, f.clust) ELSE g.val = 1
        BY <1>1, <1>2, GetFatKeeps DEF Mounted
      <4> QED
        BY <2>1, <4>1, FatNumbers DEF Steady, SameLinks
    <3> HIDE DEF g
    <3>2. Mounted(p)
      BY <1>4, <3>1, FatNumbers, TakenStays
    <3> HIDE DEF p
    <3> QED
      BY <1>4, <3>2, Failed, RemoveChainKeeps
  <2>2. CASE g.val \notin Clusters
    <3> HIDE DEF g
    <3> QED
      BY <1>4, <2>2, Failed
  <2> QED
    BY <2>1, <2>2
<1>6. FTruncate(v, n) \in {Fail(v, v.fp[n].err), Fail(v, "denied"), v, Abort(l, n)}
  <2>1. f.err # "ok" => FTruncate(v, n) = Fail(v, f.err)
    BY DEF FTruncate, Checked
  <2>2. f.err = "ok" /\ ~f.wr => FTruncate(v, n) = Fail(v, "denied")
    BY DEF FTruncate, Checked
  <2>3. f.err = "ok" /\ f.wr /\ f.size <= f.ptr => FTruncate(v, n) = v
    BY DEF FTruncate, Checked
  <2>4. CASE f.err = "ok" /\ f.wr /\ ~(f.size <= f.ptr)
    <3>1. CASE f.ptr = 0
      BY <1>1, <2>4, <3>1 DEF FTruncate, Checked, Then, x
    <3>2. CASE f.ptr # 0
      BY <1>4, <2>4, <3>2 DEF FTruncate, Checked, Then, x
    <3> QED
      BY <3>1, <3>2
  <2> QED
    BY <2>1, <2>2, <2>3, <2>4
<1> HIDE DEF q, t
<1>7. Mounted(k)
  BY <1>3, <1>5
<1> HIDE DEF k
<1>8. Mounted(l)
  BY <1>7, FlushBufKeeps
<1> HIDE DEF l
<1> QED
  BY <1>6, <1>8, Failed, AbortKeeps
-----------------------------------------------------------------------------
(* Names.                                                                  *)

LEMMA FUnlinkKeeps ==
  ASSUME NEW v, Ready(v), v.res = "ok", NEW n PROVE Mounted(FUnlink(v, n))
<1> DEFINE w == Lookup(v, n)
           e == EntryAt(w)
           d == IF e.dir THEN MoveWindow(w, ClustSect(e.clust)) ELSE w
           x == RemoveEntry(d, w.val)
           y == IF e.clust = 0 THEN x ELSE RemoveChain(x, e.clust)
<1>1. Entered(w)
  BY LookupKeeps
<1> HIDE DEF w
<1>2. CASE w.res = "ok"
  <2>1. Mounted(d) /\ d.res = "ok"
    BY <1>1, <1>2, MovedToData DEF Entered
  <2>2. Mounted(x) /\ x.res = "ok"
    BY <2>1, RemoveEntryKeeps
  <2>3. \/ FUnlink(v, n) \in {Fail(w, "denied"), Fail(w, "int")}
        \/ y.res = "ok" /\ FUnlink(v, n) = SyncFs(y)
        \/ y.res # "ok" /\ FUnlink(v, n) = y
    BY <1>2, <2>1, <2>2 DEF FUnlink, Then, w
  <2> HIDE DEF d, x
  <2>4. Mounted(y)
    BY <2>2, RemoveChainKeeps
  <2> HIDE DEF y
  <2> QED
    BY <1>1, <2>3, <2>4, Failed, SyncFsKeeps DEF Entered
<1>3. CASE w.res # "ok"
  BY <1>1, <1>3 DEF FUnlink, Then, Entered, w
<1> QED
  BY <1>2, <1>3

LEMMA Resumed ==
  ASSUME NEW v, Mounted(v), NEW why
  PROVE  LET w == [v EXCEPT !.res = why] IN Mounted(w) /\ w.res = why /\ (OnData(v) => OnData(w))
BY Failed DEF Fail

LEMMA FMkdirKeeps ==
  ASSUME NEW v, Ready(v), v.res = "ok", NEW n PROVE Mounted(FMkdir(v, n))
<1> DEFINE found == Lookup(v, n)
           a == [found EXCEPT !.res = "ok"]
           new == CreateChain(a, 0)
           c == new.val
           z == IF new.res = "ok" THEN ClearCluster(new, c) ELSE new
           made == IF z.res = "ok" THEN Register(z, n) ELSE z
           b == [made EXCEPT !.res = "ok"]
           r == RemoveChain(b, c)
           back == [r EXCEPT !.res = made.res]
           p == Put(made, DirOf(Entry(n, TRUE, FALSE, c, 0)))
<1>1. Entered(found)
  BY LookupKeeps
<1>2. \/ FMkdir(v, n) \in {Fail(found, "exist"), found, Fail(new, "denied"), new, back}
      \/ made.res = "ok" /\ FMkdir(v, n) = SyncFs(p)
  BY DEF FMkdir, Then
<1> HIDE DEF found
<1>3. Mounted(a) /\ a.res = "ok"
  BY <1>1, Resumed DEF Entered
<1> HIDE DEF a
<1>4. Mounted(new)
  BY <1>3, CreateChainKeeps
<1> HIDE DEF new, c
<1>5. Mounted(z)
  BY <1>4, ClearClusterKeeps
<1> HIDE DEF z
<1>6. Mounted(made) /\ (made.res = "ok" => OnData(made))
  BY <1>5, RegisterKeeps DEF Entered
<1> HIDE DEF made
<1>7. Mounted(b) /\ Mounted(r)
  BY <1>6, Resumed, RemoveChainKeeps
<1> HIDE DEF r
<1>8. Mounted(back)
  BY <1>7, Resumed
<1> HIDE DEF back
<1>9. made.res = "ok" => Mounted(p) /\ p.res = "ok"
  BY <1>6, WritesEntry
<1> HIDE DEF p
<1> QED
  BY <1>1, <1>2, <1>4, <1>8, <1>9, Failed, SyncFsKeeps DEF Entered

LEMMA FChmodKeeps ==
  ASSUME NEW v, Ready(v), v.res = "ok", NEW n, NEW ro PROVE Mounted(FChmod(v, n, ro))
<1> DEFINE w == Lookup(v, n)
           p == Put(w, DirOf([EntryAt(w) EXCEPT !.ro = ro]))
<1>1. Entered(w)
  BY LookupKeeps
<1>2. FChmod(v, n, ro) = IF w.res = "ok" THEN SyncFs(p) ELSE w
  BY DEF FChmod, Then
<1> HIDE DEF w
<1>3. w.res = "ok" => Mounted(p) /\ p.res = "ok"
  BY <1>1, WritesEntry DEF Entered
<1> QED
  BY <1>1, <1>2, <1>3, SyncFsKeeps DEF Entered

LEMMA FRenameKeeps ==
  ASSUME NEW v, Ready(v), v.res = "ok", NEW n, NEW to PROVE Mounted(FRename(v, n, to))
<1> DEFINE w == Lookup(v, n)
           target == Find(w, to)
           a == [target EXCEPT !.res = "ok"]
           r == Register(a, to)
           p == Put(r, DirOf([EntryAt(w) EXCEPT !.name = to]))
           x == RemoveEntry(p, w.val)
<1>1. Entered(w)
  BY LookupKeeps
<1>2. \/ FRename(v, n, to) \in {w, Fail(target, "exist"), target}
      \/ r.res # "ok" /\ FRename(v, n, to) = r
      \/ r.res = "ok" /\ x.res # "ok" /\ FRename(v, n, to) = x
      \/ r.res = "ok" /\ x.res = "ok" /\ FRename(v, n, to) = SyncFs(x)
  BY DEF FRename, Then
<1> HIDE DEF w
<1>3. Entered(target)
  BY <1>1, FindKeeps DEF Entered
<1> HIDE DEF target
<1>4. Mounted(a) /\ a.res = "ok"
  BY <1>3, Resumed DEF Entered
<1> HIDE DEF a
<1>5. Entered(r)
  BY <1>4, RegisterKeeps
<1> HIDE DEF r
<1>6. r.res = "ok" => Mounted(p) /\ p.res = "ok"
  BY <1>5, WritesEntry DEF Entered
<1> HIDE DEF p
<1>7. r.res = "ok" => Mounted(x) /\ x.res = "ok"
  BY <1>6, RemoveEntryKeeps
<1> HIDE DEF x
<1> QED
  BY <1>1, <1>2, <1>3, <1>5, <1>7, Failed, SyncFsKeeps DEF Entered

LEMMA DirNextKeeps ==
  ASSUME NEW v, Mounted(v), v.res = "ok" PROVE Mounted(DirNext(v))
<1> DEFINE g == GetFat(v, v.find.at)
           w == [g EXCEPT !.find.at = IF g.val \in Clusters THEN g.val ELSE 0]
<1>1. Mounted(g) /\ g.res = "ok"
  BY GotFat
<1>2. DirNext(v) \in {Fail(g, "int"), w}
  BY <1>1 DEF DirNext, Then
<1> HIDE DEF g
<1>3. Beside(g, w)
  BY <1>1 DEF Mounted, Good, Fields, Beside
<1> HIDE DEF w
<1> QED
  BY <1>1, <1>2, <1>3, MountedBeside, Failed

LEMMA ListStepKeeps == ASSUME NEW v, Mounted(v) PROVE Mounted(ListStep(v))
<1> DEFINE m == MoveWindow(v, ClustSect(v.find.at))
           w == [m EXCEPT !.find.at = 0]
           g == DirNext(m)
           x == [g EXCEPT !.out = <<EntryAt(m).name>>]
<1>1. CASE v.res # "ok"
  BY <1>1 DEF ListStep
<1>2. CASE v.res = "ok"
  <2>1. Mounted(m) /\ m.res = "ok"
    BY <1>2, MovedToData
  <2>2. ListStep(v) \in {v, w, g, x}
    BY <2>1 DEF ListStep, Then
  <2> HIDE DEF m
  <2>3. Mounted(g)
    BY <2>1, DirNextKeeps
  <2> HIDE DEF g
  <2>4. Beside(m, w) /\ Beside(g, x)
    BY <2>1, <2>3 DEF Mounted, Good, Fields, Beside
  <2> HIDE DEF w, x
  <2> QED
    BY <2>1, <2>2, <2>3, <2>4, MountedBeside
<1> QED
  BY <1>1, <1>2

LEMMA FReaddirKeeps == ASSUME NEW v, Mounted(v) PROVE Mounted(FReaddir(v))
<1> DEFINE P(h) == h = [i \in 0..LastCluster |-> IF i = 0 THEN v ELSE ListStep(h[i - 1])]
           h == CHOOSE x : P(x)
           w == h[LastCluster]
           u == IF w.res = "ok" /\ w.find.at # 0 /\ w.out = <<>> THEN Fail(w, "endless") ELSE w
<1>1. FReaddir(v) = u
  BY DEF FReaddir, Turns
<1>2. PICK g : Runs("list", "", v, LastCluster, g)
  BY RunExists, FatNumbers
<1>3. P(g)
  BY <1>2 DEF Runs, Turn
<1> HIDE DEF P
<1>4. P(h)
  BY <1>3, Zenon
<1> HIDE DEF h
<1>5. Runs("list", "", v, LastCluster, h)
  BY <1>4 DEF Runs, Turn, P
<1>6. Keeps("list", "")
  BY ListStepKeeps DEF Keeps, Turn, Inv
<1>7. Mounted(w)
  <2>1. Inv("list", "", v)
    BY DEF Inv
  <2> QED
    BY <1>5, <1>6, <2>1, RunKeeps, FatNumbers DEF Inv
<1> HIDE DEF w
<1> QED
  BY <1>1, <1>7, Failed

LEMMA FOpendirKeeps ==
  ASSUME NEW v, Ready(v), v.res = "ok" PROVE Mounted(FOpendir(v))
<1> DEFINE w == FindVolume(v)
           x == [w EXCEPT !.find.at = Root]
<1>1. Mounted(w) /\ w.res = "ok"
  BY FindVolumeKeeps
<1>2. FOpendir(v) = x
  BY <1>1 DEF FOpendir, Then
<1> HIDE DEF w
<1>3. Beside(w, x)
  BY <1>1 DEF Mounted, Good, Fields, Beside
<1> QED
  BY <1>1, <1>2, <1>3, MountedBeside

LEMMA FGetfreeKeeps ==
  ASSUME NEW v, Ready(v), v.res = "ok" PROVE Mounted(FGetfree(v))
<1> DEFINE w == FindVolume(v)
<1>1. Mounted(w) /\ w.res = "ok"
  BY FindVolumeKeeps
<1>2. w.fs.free # Unknown
  BY <1>1, FreeFinite DEF Mounted, Unknown
<1>3. FGetfree(v) = Answer(w, w.fs.free)
  BY <1>1, <1>2 DEF FGetfree, Then
<1> QED
  BY <1>1, <1>3, Answered
-----------------------------------------------------------------------------
(* The calls of the driver.                                                *)

V == Volume(NoFault)
Shut == ~find.open /\ \A n \in Names : ~fp[n].open

\* Until a call to the card fails or the power goes, the volume is either as it was formatted,
\* with nothing open, or mounted with its count right.
Counting == faults = 0 /\ cuts = 0 => (Fresh(V) /\ Shut) \/ Mounted(V)
CountingInv == faults \in Nat /\ cuts \in Nat /\ Counting

\* How a call that leaves w goes: it ends, or the power does.
Goes(bad, w) ==
  /\ faults' = faults + IF bad = NoFault THEN 0 ELSE 1
  /\ (\E changed : Leaves(w, changed)) \/ (\E d, s : Dark(d, s))

LEMMA VolumeIs ==
  /\ V.disk = disk /\ V.win = win /\ V.fs = fs /\ V.fp = fp /\ V.find = find /\ V.res = "ok"
  /\ DOMAIN V = Fields
BY DEF V, Volume, Record, Fields

\* From the end of a call to the start of the next.
Carries(w, x) ==
  /\ DOMAIN x = Fields /\ x.disk = w.disk /\ x.win = w.win /\ x.fs = w.fs /\ x.fp = w.fp
  /\ "open" \in DOMAIN x.find /\ x.bad = NoFault
LEMMA Carried == ASSUME NEW w, Mounted(w), NEW x, Carries(w, x) PROVE Mounted(x)
<1>1. DOMAIN x.bad = {"at", "kept"} /\ x.bad.at = 0
  BY DEF Carries, NoFault
<1>2. Good(w)
  BY DEF Mounted
<1>3. Good(x)
  BY <1>1, <1>2 DEF Good, Carries
<1>4. SameLinks(w, x)
  BY DEF SameLinks, Link, Carries
<1> QED
  BY <1>3, <1>4, SameCount DEF Mounted, Carries

\* It is enough that the call keeps the count when nothing goes wrong.
Untroubled == faults = 0 /\ cuts = 0
LEMMA GoesKeeps ==
  ASSUME CountingInv, NEW bad, NEW w, Goes(bad, w), bad = NoFault /\ Untroubled => Mounted(w)
  PROVE  CountingInv'
<1>1. CASE bad = NoFault /\ \E changed : Leaves(w, changed)
  <2>1. PICK changed : Leaves(w, changed)
    BY <1>1
  <2>2. faults' = faults /\ cuts' = cuts
    BY <1>1, <2>1 DEF Goes, Leaves, CountingInv
  <2>3. /\ V'.disk = w.disk /\ V'.win = w.win /\ V'.fs = w.fs /\ V'.fp = w.fp
        /\ V'.find = [w.find EXCEPT !.stay = @ \ changed] /\ DOMAIN V' = Fields /\ V'.bad = NoFault
    BY <2>1 DEF V, Volume, Record, Fields, Leaves
  <2>4. Mounted(w) => Carries(w, V')
    BY <2>3 DEF Carries, Mounted, Good
  <2>5. Untroubled => Mounted(V')
    BY <1>1, <2>4, Carried
  <2>6. Counting'
    BY <2>2, <2>5 DEF Counting, Untroubled
  <2> QED
    BY <2>2, <2>6 DEF CountingInv
<1>2. CASE bad # NoFault \/ \E d, s : Dark(d, s)
  <2>1. /\ \A changed : Leaves(w, changed) => cuts' = cuts
        /\ \A d, s : Dark(d, s) => cuts' = cuts + 1
    BY DEF Leaves, Dark
  <2>2. cuts' \in {cuts, cuts + 1} /\ (bad = NoFault => cuts' = cuts + 1)
    BY <1>2, <2>1 DEF Goes
  <2>3. faults' = faults + IF bad = NoFault THEN 0 ELSE 1
    BY DEF Goes
  <2>4. faults' \in Nat /\ cuts' \in Nat /\ ~(faults' = 0 /\ cuts' = 0)
    BY <2>2, <2>3 DEF CountingInv
  <2> QED
    BY <2>4 DEF CountingInv, Counting
<1> QED
  BY <1>1, <1>2 DEF Goes

\* What a call may rely on then.
LEMMA MayRely ==
  ASSUME CountingInv, Untroubled
  PROVE  /\ Ready(V) /\ V.res = "ok"
         /\ \A n \in Names : Open(n) => Mounted(V) /\ V.fp[n].open
         /\ find.open => Mounted(V)
BY VolumeIs DEF CountingInv, Counting, Untroubled, Ready, Shut, Open

LEMMA DataLen == ASSUME NEW cnt \in Nat PROVE Len(Data(cnt)) \in Nat
BY DEF Data

LEMMA CreateFileCounts ==
  ASSUME CountingInv, NEW n \in Names, NEW mode, CreateFile(n, mode) PROVE CountingInv'
<1>1. PICK bad \in Faults : Goes(bad, FOpen(Volume(bad), n, mode))
  BY DEF CreateFile, Call, Goes
<1>2. ASSUME Untroubled PROVE Mounted(FOpen(V, n, mode))
  BY <1>2, MayRely, FOpenKeeps
<1> QED
  BY <1>1, <1>2, GoesKeeps DEF V

LEMMA WriteCounts ==
  ASSUME CountingInv, NEW n \in Names, NEW cnt \in Nat, Write(n, cnt) PROVE CountingInv'
<1>1. PICK bad \in Faults : Goes(bad, FWrite(Volume(bad), n, Data(cnt)))
  BY DEF Write, Call, Goes
<1>2. ASSUME Untroubled PROVE Mounted(FWrite(V, n, Data(cnt)))
  BY <1>2, MayRely, DataLen, FWriteKeeps DEF Write
<1> QED
  BY <1>1, <1>2, GoesKeeps DEF V

LEMMA WriteSeekCounts ==
  ASSUME CountingInv, NEW n \in Names, NEW to \in Nat, NEW cnt \in Nat, WriteSeek(n, to, cnt)
  PROVE  CountingInv'
<1>1. PICK bad \in Faults : Goes(bad, FWrite([FLseek(Volume(bad), n, to) EXCEPT !.res = "ok"], n, Data(cnt)))
  BY DEF WriteSeek, Call, Goes
<1>2. ASSUME Untroubled PROVE Mounted(FWrite([FLseek(V, n, to) EXCEPT !.res = "ok"], n, Data(cnt)))
  BY <1>2, MayRely, DataLen, FLseekKeeps, Resumed, FWriteKeeps DEF WriteSeek
<1> QED
  BY <1>1, <1>2, GoesKeeps DEF V

LEMMA ReadCounts ==
  ASSUME CountingInv, NEW n \in Names, NEW cnt \in Nat, Read(n, cnt) PROVE CountingInv'
<1>1. PICK bad \in Faults : Goes(bad, FRead(Volume(bad), n, cnt))
  BY DEF Read, Call, Goes
<1>2. ASSUME Untroubled PROVE Mounted(FRead(V, n, cnt))
  BY <1>2, MayRely, FReadKeeps DEF Read
<1> QED
  BY <1>1, <1>2, GoesKeeps DEF V

LEMMA ReadSeekCounts ==
  ASSUME CountingInv, NEW n \in Names, NEW to \in Nat, NEW cnt \in Nat, ReadSeek(n, to, cnt)
  PROVE  CountingInv'
<1>1. PICK bad \in Faults : Goes(bad, FRead([FLseek(Volume(bad), n, to) EXCEPT !.res = "ok"], n, cnt))
  BY DEF ReadSeek, Call, Goes
<1>2. ASSUME Untroubled PROVE Mounted(FRead([FLseek(V, n, to) EXCEPT !.res = "ok"], n, cnt))
  BY <1>2, MayRely, FLseekKeeps, Resumed, FReadKeeps DEF ReadSeek
<1> QED
  BY <1>1, <1>2, GoesKeeps DEF V

LEMMA SetPointerCounts ==
  ASSUME CountingInv, NEW n \in Names, NEW to \in Nat, SetPointer(n, to) PROVE CountingInv'
<1>1. PICK bad \in Faults : Goes(bad, FLseek(Volume(bad), n, to))
  BY DEF SetPointer, Call, Goes
<1>2. ASSUME Untroubled PROVE Mounted(FLseek(V, n, to))
  BY <1>2, MayRely, FLseekKeeps DEF SetPointer
<1> QED
  BY <1>1, <1>2, GoesKeeps DEF V

LEMMA FlushCounts ==
  ASSUME CountingInv, NEW n \in Names, Flush(n) PROVE CountingInv'
<1>1. PICK bad \in Faults : Goes(bad, FSync(Volume(bad), n))
  BY DEF Flush, Call, Goes
<1>2. ASSUME Untroubled PROVE Mounted(FSync(V, n))
  BY <1>2, MayRely, FSyncKeeps DEF Flush
<1> QED
  BY <1>1, <1>2, GoesKeeps DEF V

LEMMA Closes ==
  ASSUME NEW v, Mounted(v), NEW n PROVE Mounted([v EXCEPT !.fp[n] = NoFile])
<1> DEFINE w == [v EXCEPT !.fp[n] = NoFile]
<1>1. IsFile(NoFile)
  BY DEF IsFile, NoFile
<1>2. Beside(v, w)
  BY <1>1 DEF Mounted, Good, Fields, Beside
<1> QED
  BY <1>2, MountedBeside

LEMMA CloseCounts ==
  ASSUME CountingInv, NEW n \in Names, Close(n) PROVE CountingInv'
<1>1. PICK bad \in Faults : Goes(bad, [FSync(Volume(bad), n) EXCEPT !.fp[n] = NoFile])
  BY DEF Close, Call, Goes
<1>2. ASSUME Untroubled PROVE Mounted([FSync(V, n) EXCEPT !.fp[n] = NoFile])
  BY <1>2, MayRely, FSyncKeeps, Closes DEF Close
<1> QED
  BY <1>1, <1>2, GoesKeeps DEF V

LEMMA SetEndCounts ==
  ASSUME CountingInv, NEW n \in Names, SetEnd(n) PROVE CountingInv'
<1>1. PICK bad \in Faults : Goes(bad, FTruncate(Volume(bad), n))
  BY DEF SetEnd, Call, Goes
<1>2. ASSUME Untroubled PROVE Mounted(FTruncate(V, n))
  BY <1>2, MayRely, FTruncateKeeps DEF SetEnd
<1> QED
  BY <1>1, <1>2, GoesKeeps DEF V

LEMMA DeleteFileCounts ==
  ASSUME CountingInv, NEW n \in Names, DeleteFile(n) PROVE CountingInv'
<1>1. PICK bad \in Faults : Goes(bad, FUnlink(Volume(bad), n))
  BY DEF DeleteFile, Call, Goes
<1>2. ASSUME Untroubled PROVE Mounted(FUnlink(V, n))
  BY <1>2, MayRely, FUnlinkKeeps
<1> QED
  BY <1>1, <1>2, GoesKeeps DEF V

LEMMA CreateDirectoryCounts ==
  ASSUME CountingInv, NEW n \in Names, CreateDirectory(n) PROVE CountingInv'
<1>1. PICK bad \in Faults : Goes(bad, FMkdir(Volume(bad), n))
  BY DEF CreateDirectory, Call, Goes
<1>2. ASSUME Untroubled PROVE Mounted(FMkdir(V, n))
  BY <1>2, MayRely, FMkdirKeeps
<1> QED
  BY <1>1, <1>2, GoesKeeps DEF V

LEMMA SetFileAttributesCounts ==
  ASSUME CountingInv, NEW n \in Names, NEW ro, SetFileAttributes(n, ro) PROVE CountingInv'
<1>1. PICK bad \in Faults : Goes(bad, FChmod(Volume(bad), n, ro))
  BY DEF SetFileAttributes, Call, Goes
<1>2. ASSUME Untroubled PROVE Mounted(FChmod(V, n, ro))
  BY <1>2, MayRely, FChmodKeeps
<1> QED
  BY <1>1, <1>2, GoesKeeps DEF V

LEMMA MoveFileCounts ==
  ASSUME CountingInv, NEW n \in Names, NEW to, MoveFile(n, to) PROVE CountingInv'
<1>1. PICK bad \in Faults : Goes(bad, FRename(Volume(bad), n, to))
  BY DEF MoveFile, Call, Goes
<1>2. ASSUME Untroubled PROVE Mounted(FRename(V, n, to))
  BY <1>2, MayRely, FRenameKeeps
<1> QED
  BY <1>1, <1>2, GoesKeeps DEF V

LEMMA GetFileAttributesCounts ==
  ASSUME CountingInv, NEW n \in Names, GetFileAttributes(n) PROVE CountingInv'
<1>1. PICK bad \in Faults : Goes(bad, FStat(Volume(bad), n))
  BY DEF GetFileAttributes, Call, Goes
<1>2. ASSUME Untroubled PROVE Mounted(FStat(V, n))
  BY <1>2, MayRely, LookupKeeps DEF FStat, Entered
<1> QED
  BY <1>1, <1>2, GoesKeeps DEF V

LEMMA GetDiskFreeSpaceCounts ==
  ASSUME CountingInv, GetDiskFreeSpace PROVE CountingInv'
<1>1. PICK bad \in Faults : Goes(bad, FGetfree(Volume(bad)))
  BY DEF GetDiskFreeSpace, Call, Goes
<1>2. ASSUME Untroubled PROVE Mounted(FGetfree(V))
  BY <1>2, MayRely, FGetfreeKeeps
<1> QED
  BY <1>1, <1>2, GoesKeeps DEF V

LEMMA FreshBeside == ASSUME NEW v, Fresh(v), NEW w, Beside(v, w) PROVE Fresh(w)
<1>1. Good(w) /\ SameLinks(v, w)
  BY Aside DEF Fresh
<1>2. FreeIn(v) = FreeIn(w)
  BY <1>1 DEF SameLinks, FreeIn
<1> QED
  BY <1>1, <1>2 DEF Fresh, Beside

LEMMA ListedKeeps == ASSUME NEW v, Mounted(v) PROVE Mounted(Listed(v))
<1>1. Beside(v, Listed(v))
  BY DEF Listed, NoFind, Mounted, Good, Fields, Beside
<1> QED
  BY <1>1, MountedBeside

LEMMA FirstKeeps == ASSUME NEW v, Ready(v), v.res = "ok", NEW pat PROVE Mounted(FirstOf(v, pat))
<1> DEFINE a == [v EXCEPT !.find = Asked(pat)]
           w == FOpendir(a)
           r == IF w.res = "ok" THEN FReaddir(w) ELSE w
           x == Listed(r)
           z == [x EXCEPT !.find = NoFind]
<1>1. FirstOf(v, pat) \in {x, z}
  BY DEF FirstOf, Then
<1>2. Beside(v, a) /\ a.res = "ok"
  BY DEF Ready, Fresh, Mounted, Good, Fields, Beside, Asked
<1> HIDE DEF a
<1>3. Ready(a)
  BY <1>2, FreshBeside, MountedBeside DEF Ready
<1>4. Mounted(w)
  BY <1>2, <1>3, FOpendirKeeps
<1> HIDE DEF w
<1>5. Mounted(r)
  BY <1>4, FReaddirKeeps
<1> HIDE DEF r
<1>6. Mounted(x)
  BY <1>5, ListedKeeps
<1> HIDE DEF x
<1>7. Beside(x, z)
  BY <1>6 DEF Mounted, Good, Fields, Beside, NoFind
<1> HIDE DEF z
<1> QED
  BY <1>1, <1>6, <1>7, MountedBeside

LEMMA FindFirstFileCounts ==
  ASSUME CountingInv, NEW pat, FindFirstFile(pat) PROVE CountingInv'
<1>1. PICK bad \in Faults : Goes(bad, FirstOf(Volume(bad), pat))
  BY DEF FindFirstFile, Call, Goes
<1>2. ASSUME Untroubled PROVE Mounted(FirstOf(V, pat))
  BY <1>2, MayRely, FirstKeeps
<1> QED
  BY <1>1, <1>2, GoesKeeps DEF V

LEMMA FindNextCounts == ASSUME CountingInv, FindNext PROVE CountingInv'
<1>1. PICK bad \in Faults : Goes(bad, Listed(FReaddir(Volume(bad))))
  BY DEF FindNext, Call, Goes
<1>2. ASSUME Untroubled PROVE Mounted(Listed(FReaddir(V)))
  BY <1>2, MayRely, FReaddirKeeps, ListedKeeps DEF FindNext
<1> QED
  BY <1>1, <1>2, GoesKeeps DEF V

LEMMA FindCloseCounts == ASSUME CountingInv, FindClose PROVE CountingInv'
<1> DEFINE Closed1(v) == [v EXCEPT !.find = NoFind]
<1>1. PICK bad \in Faults : Goes(bad, Closed1(Volume(bad)))
  BY DEF FindClose, Call, Goes
<1>2. ASSUME Untroubled PROVE Mounted(Closed1(V))
  <2>1. Mounted(V)
    BY <1>2, MayRely DEF FindClose
  <2>2. Beside(V, Closed1(V))
    BY <2>1 DEF Mounted, Good, Fields, Beside, NoFind
  <2> QED
    BY <2>1, <2>2, MountedBeside
<1> QED
  BY <1>1, <1>2, GoesKeeps DEF V

LEMMA PowerCutCounts == ASSUME CountingInv, PowerCut PROVE CountingInv'
<1>1. faults' = faults /\ cuts' = cuts + 1
  BY DEF PowerCut, Dark
<1> QED
  BY <1>1 DEF CountingInv, Counting
-----------------------------------------------------------------------------
(* The card at the start.                                                  *)

Blank(owner, m) ==
  Record(Formatted(owner, m), NoWindow, Unmounted, [n \in Names |-> NoFile], NoFind, NoFault)

LEMMA FitsOnCard ==
  ASSUME NEW m \in {0, OldLen} PROVE ClustersFor(m) \in Nat /\ ClustersFor(m) + 2 <= LastCluster
BY StorageAssumption, FatFsAssumption DEF ClustersFor, FatEntries

LEMMA BlankIsFresh == ASSUME NEW owner, NEW m \in {0, OldLen} PROVE Fresh(Blank(owner, m))
<1> DEFINE v == Blank(owner, m)
           d == Formatted(owner, m)
           cnt == ClustersFor(m)
           fat(c) == IF c = Root THEN EOC ELSE IF c - 2 < cnt THEN c + 1
                     ELSE IF c - 2 = cnt THEN EOC ELSE 0
<1>1. /\ DOMAIN v = Fields /\ v.disk = d /\ v.win = NoWindow /\ v.fs = Unmounted
      /\ v.fp = [n \in Names |-> NoFile] /\ v.find = NoFind /\ v.bad = NoFault
  BY DEF Blank, Record, Fields
<1> HIDE DEF v
<1>2. cnt \in Nat /\ cnt + 2 <= LastCluster
  BY FitsOnCard
<1>3. DOMAIN d = Sectors
  BY DEF Formatted, Sectors
<1>4. d[Fsi].free = FatEntries - 1 - cnt
  BY DEF Formatted, Sectors
<1>5. \A c \in Clusters : d[FatSect(c)] = [x \in {y \in Clusters : FatSect(y) = FatSect(c)} |-> fat(x)]
  <2> TAKE c \in Clusters
  <2>1. FatSect(c) # Fsi /\ FatSect(c)[1] = "fat"
    BY DEF FatSect, Fsi
  <2> QED
    BY <2>1 DEF Formatted
<1> HIDE DEF d, cnt
<1>6. \A c \in Clusters : fat(c) \in Nat /\ (fat(c) = 0 <=> c > cnt + 2)
  BY <1>2, FatNumbers DEF Root, Clusters
<1> HIDE DEF fat
<1>7. \A c \in Clusters : IsTable(FatSect(c), d[FatSect(c)]) /\ d[FatSect(c)][c] = fat(c)
  <2> TAKE c \in Clusters
  <2> DEFINE t == d[FatSect(c)]
  <2>1. DOMAIN t = {y \in Clusters : FatSect(y) = FatSect(c)} /\ \A x \in DOMAIN t : t[x] = fat(x)
    BY <1>5
  <2> HIDE DEF t
  <2>2. \A x \in DOMAIN t : t[x] \in Nat
    BY <1>6, <2>1
  <2>3. t[c] = fat(c)
    BY <2>1
  <2> QED
    BY <2>1, <2>2, <2>3 DEF IsTable, t
<1>8. Good(v)
  <2>1. \A c : v.win.sect # FatSect(c)
    BY <1>1, SectorKinds DEF NoWindow
  <2> QED
    BY <1>1, <1>3, <1>7, <2>1 DEF Good, NoWindow, Unmounted, NoFile, NoFind, NoFault, IsFile
<1>9. \A c \in Clusters : Link(v, c) = fat(c)
  BY <1>1, <1>7, SectorKinds DEF Link, NoWindow
<1>10. FreeIn(v) = (cnt + 3)..LastCluster
  BY <1>2, <1>6, <1>9, FatNumbers DEF FreeIn, Clusters
<1>11. Cardinality(FreeIn(v)) = LastCluster - cnt - 2
  BY <1>2, <1>10, FatNumbers, FS_Interval
<1>12. v.disk[Fsi].free = LastCluster - cnt - 2
  BY <1>1, <1>2, <1>4, FatNumbers DEF FatEntries
<1>13. Fresh(v)
  BY <1>1, <1>8, <1>11, <1>12 DEF Fresh, Unmounted
<1> QED
  BY <1>13 DEF v

LEMMA StartCounts == ASSUME Init PROVE CountingInv
<1>1. PICK owner \in Names, start \in Starts :
        LET m == IF start = "empty" THEN 0 ELSE OldLen
            v == Begin(owner, m, start = "open")
        IN  disk = v.disk /\ win = v.win /\ fs = v.fs /\ fp = v.fp /\ find = NoFind
  BY DEF Init
<1> DEFINE m == IF start = "empty" THEN 0 ELSE OldLen
           v0 == Blank(owner, m)
           mode1 == [rd |-> TRUE, wr |-> TRUE, how |-> "existing"]
           mode2 == [rd |-> TRUE, wr |-> TRUE, how |-> "always"]
           v1 == FOpen(v0, owner, mode1)
           v2 == FOpen(v1, CHOOSE n \in Names : n # owner, mode2)
           v == IF start = "open" THEN v2 ELSE v0
<1>2. Begin(owner, m, start = "open") = v
  BY DEF Begin, Blank
<1>3. Fresh(v0) /\ v0.res = "ok" /\ v0.fp = [n \in Names |-> NoFile] /\ v0.find = NoFind
  <2>1. m \in {0, OldLen}
    OBVIOUS
  <2> QED
    BY <2>1, BlankIsFresh DEF Blank, Record
<1> HIDE DEF v0, mode1, mode2
<1>4. Mounted(v1)
  BY <1>3, FOpenKeeps DEF Ready
<1> HIDE DEF v1
<1>5. Mounted(v2)
  BY <1>4, FOpenKeeps DEF Ready
<1> HIDE DEF v2
<1>6. disk = v.disk /\ win = v.win /\ fs = v.fs /\ fp = v.fp /\ find = NoFind
  BY <1>1, <1>2
<1>7. faults = 0 /\ cuts = 0
  BY DEF Init
<1>8. CASE start = "open"
  <2>1. Carries(v2, V)
    BY <1>6, <1>8, VolumeIs DEF Carries, V, Volume, Record, NoFind
  <2> QED
    BY <1>5, <1>7, <2>1, Carried DEF CountingInv, Counting
<1>9. CASE start # "open"
  <2>1. V = v0
    BY <1>6, <1>9 DEF V, Volume, Record, Blank, v0
  <2>2. Shut
    BY <1>3, <1>6, <1>9 DEF Shut, NoFind, NoFile
  <2> QED
    BY <1>3, <1>7, <2>1, <2>2 DEF CountingInv, Counting
<1> QED
  BY <1>8, <1>9
-----------------------------------------------------------------------------

LEMMA StepCounts == ASSUME CountingInv, [Next]_vars PROVE CountingInv'
<1>1. CASE UNCHANGED vars
  BY <1>1 DEF vars, CountingInv, Counting, Fresh, Shut, V, Volume
<1>2. CASE Next
  <2>1. Lengths \subseteq Nat /\ Offsets \subseteq Nat
    BY StorageAssumption
  <2> QED
    BY <1>2, <2>1, CreateFileCounts, WriteCounts, ReadCounts, WriteSeekCounts, ReadSeekCounts,
       SetPointerCounts, FlushCounts, CloseCounts, SetEndCounts, DeleteFileCounts,
       CreateDirectoryCounts, GetFileAttributesCounts, SetFileAttributesCounts, MoveFileCounts,
       FindFirstFileCounts, FindNextCounts, FindCloseCounts, GetDiskFreeSpaceCounts, PowerCutCounts
       DEF Next
<1> QED
  BY <1>1, <1>2

\* The count of free clusters, which Explorer shows and the driver never checks, is right after
\* any sequence of calls, until a call to the card fails or the power goes: every allocation and
\* release counts, and the window, wherever it is, shows the FAT as it is.
THEOREM CountFollows == Spec => []FreeCountRight
<1>1. CountingInv => FreeCountRight
  <2> SUFFICES ASSUME CountingInv, fs.mounted, faults = 0, cuts = 0 PROVE fs.free = Free(Seen)
    BY DEF FreeCountRight
  <2>1. Mounted(V)
    BY VolumeIs DEF CountingInv, Counting, Fresh
  <2>2. \A c \in Clusters : FatOf(Seen, c) = Link(V, c)
    BY <2>1, VolumeIs, SectorKinds DEF Mounted, Good, Seen, FatOf, Link
  <2>3. {c \in Clusters : FatOf(Seen, c) = 0} = FreeIn(V)
    BY <2>2 DEF FreeIn
  <2> QED
    BY <2>1, <2>3, VolumeIs DEF Mounted, Free
<1> QED
  BY <1>1, StartCounts, StepCounts, PTL DEF Spec

-----------------------------------------------------------------------------
(* Chains as sets.  A chain is what can be reached from a cluster, the      *)
(* least set that has it and that no link leaves.                          *)

Follows(d, S) == \A s \in S : FatOf(d, s) \in Clusters => FatOf(d, s) \in S
Reach(d, h) ==
  {c \in Clusters : \A S \in SUBSET Clusters : (h \in Clusters => h \in S) /\ Follows(d, S) => c \in S}
Tab(d) == Reach(d, Root)

\* Two clusters never have the same link.
NoJoins(d) ==
  \A b, c \in Clusters : FatOf(d, b) = FatOf(d, c) /\ FatOf(d, b) \in Clusters => b = c
\* No link leads to a free cluster.
NoGaps(d) == \A c \in Clusters : FatOf(d, c) \in Clusters => FatOf(d, FatOf(d, c)) # 0
\* A cluster that is taken and that no other leads to.
Leads(d, h) == h \in Clusters /\ FatOf(d, h) # 0 /\ \A c \in Clusters : FatOf(d, c) # h

SameFat(d, e) == \A c \in Clusters : FatOf(e, c) = FatOf(d, c)
\* One link is set.
Sets(d, e, c, x) == \A b \in Clusters : FatOf(e, b) = IF b = c THEN x ELSE FatOf(d, b)

LEMMA ReachIn == ASSUME NEW d, NEW h PROVE Reach(d, h) \subseteq Clusters
BY DEF Reach

LEMMA ReachHas == ASSUME NEW d, NEW h \in Clusters PROVE h \in Reach(d, h)
BY DEF Reach

LEMMA ReachLeast ==
  ASSUME NEW d, NEW h, NEW S, S \subseteq Clusters, h \in Clusters => h \in S, Follows(d, S)
  PROVE  Reach(d, h) \subseteq S
BY DEF Reach

LEMMA ReachFollows == ASSUME NEW d, NEW h PROVE Follows(d, Reach(d, h))
BY DEF Reach, Follows

LEMMA ReachNone == ASSUME NEW d, NEW h, h \notin Clusters PROVE Reach(d, h) = {}
<1>1. Follows(d, {})
  BY DEF Follows
<1> QED
  BY <1>1, ReachLeast

\* A cluster of a chain but the first follows another.
LEMMA ReachFrom ==
  ASSUME NEW d, NEW h, NEW c \in Reach(d, h), c # h
  PROVE  \E b \in Reach(d, h) : FatOf(d, b) = c
<1> SUFFICES ASSUME \A b \in Reach(d, h) : FatOf(d, b) # c PROVE FALSE
  OBVIOUS
<1> DEFINE S == Reach(d, h) \ {c}
<1>1. S \subseteq Clusters
  BY ReachIn
<1>2. h \in Clusters => h \in S
  BY ReachHas
<1>3. Follows(d, S)
  BY ReachFollows DEF Follows
<1> HIDE DEF S
<1>4. c \in S
  BY <1>1, <1>2, <1>3, ReachLeast
<1> QED
  BY <1>4 DEF S

LEMMA ReachWithin ==
  ASSUME NEW d, NEW h, NEW c \in Reach(d, h) PROVE Reach(d, c) \subseteq Reach(d, h)
BY ReachIn, ReachFollows, ReachLeast

\* What is left of a chain when its first cluster is passed.
LEMMA ReachNext ==
  ASSUME NEW d, NEW h \in Clusters PROVE Reach(d, h) \subseteq {h} \cup Reach(d, FatOf(d, h))
<1> DEFINE k == FatOf(d, h)
           S == {h} \cup Reach(d, k)
<1>1. S \subseteq Clusters
  BY ReachIn
<1>2. Follows(d, S)
  BY ReachFollows, ReachHas DEF Follows
<1> HIDE DEF S
<1>3. h \in S
  BY DEF S
<1>4. Reach(d, h) \subseteq S
  BY <1>1, <1>2, <1>3, ReachLeast
<1> QED
  BY <1>4 DEF S

\* Chains that no other leads into have no cluster in common.
LEMMA ReachApart ==
  ASSUME NEW d, NoJoins(d), NEW h, NEW k, Leads(d, h), Leads(d, k), h # k
  PROVE  Reach(d, h) \cap Reach(d, k) = {}
<1> DEFINE S == Reach(d, h) \ Reach(d, k)
<1>1. h \notin Reach(d, k)
  BY ReachFrom, ReachIn DEF Leads
<1>2. h \in S
  BY <1>1, ReachHas DEF Leads
<1>3. ASSUME NEW s \in S, FatOf(d, s) \in Clusters PROVE FatOf(d, s) \in S
  <2>1. FatOf(d, s) \in Reach(d, h)
    BY <1>3, ReachFollows DEF Follows
  <2>2. ASSUME FatOf(d, s) \in Reach(d, k) PROVE FALSE
    <3>1. FatOf(d, s) # k
      BY ReachIn DEF Leads
    <3>2. PICK b \in Reach(d, k) : FatOf(d, b) = FatOf(d, s)
      BY <2>2, <3>1, ReachFrom
    <3>3. b \in Clusters /\ s \in Clusters
      BY ReachIn
    <3> QED
      BY <1>3, <3>2, <3>3 DEF NoJoins
  <2> QED
    BY <2>1, <2>2
<1>4. S \subseteq Clusters
  BY ReachIn
<1>5. Follows(d, S)
  BY <1>3 DEF Follows
<1> HIDE DEF S
<1>6. Reach(d, h) \subseteq S
  BY <1>2, <1>4, <1>5, ReachLeast
<1> QED
  BY <1>6 DEF S

LEMMA ReachTaken ==
  ASSUME NEW d, NoGaps(d), NEW h, FatOf(d, h) # 0, NEW c \in Reach(d, h)
  PROVE  FatOf(d, c) # 0
<1>1. CASE c = h
  BY <1>1
<1>2. CASE c # h
  BY <1>2, ReachFrom, ReachIn DEF NoGaps
<1> QED
  BY <1>1, <1>2

LEMMA ReachSame ==
  ASSUME NEW d, NEW e, SameFat(d, e), NEW h
  PROVE  Reach(e, h) = Reach(d, h) /\ (Leads(d, h) <=> Leads(e, h))
<1>1. \A S \in SUBSET Clusters : Follows(d, S) <=> Follows(e, S)
  BY DEF SameFat, Follows
<1>2. Reach(e, h) = Reach(d, h)
  BY <1>1 DEF Reach
<1> QED
  BY <1>2 DEF SameFat, Leads

\* A chain does not change with the link of a cluster outside it.
LEMMA ReachOutside ==
  ASSUME NEW d, NEW e, NEW c, NEW x, Sets(d, e, c, x), NEW h, c \notin Reach(d, h)
  PROVE  Reach(e, h) = Reach(d, h)
<1>1. Follows(e, Reach(d, h))
  BY ReachFollows, ReachIn DEF Follows, Sets
<1>2. Reach(e, h) \subseteq Reach(d, h)
  BY <1>1, ReachIn, ReachHas, ReachLeast
<1>3. Follows(d, Reach(e, h))
  BY <1>2, ReachFollows, ReachIn DEF Follows, Sets
<1>4. Reach(d, h) \subseteq Reach(e, h)
  BY <1>3, ReachIn, ReachHas, ReachLeast
<1> QED
  BY <1>2, <1>4

\* A link that is cut off: the chain is as long as the cluster it is cut at.
LEMMA ReachCut ==
  ASSUME NEW d, NEW e, NEW c, NEW x, Sets(d, e, c, x), x \notin Clusters, NEW h
  PROVE  Reach(e, h) \subseteq Reach(d, h) /\ (c \in Reach(d, h) => c \in Reach(e, h))
<1>1. Follows(e, Reach(d, h))
  BY ReachFollows, ReachIn DEF Follows, Sets
<1>2. Reach(e, h) \subseteq Reach(d, h)
  BY <1>1, ReachIn, ReachHas, ReachLeast
<1>3. ASSUME c \notin Reach(e, h) PROVE c \notin Reach(d, h)
  <2>1. Follows(d, Reach(e, h))
    BY <1>3, ReachFollows, ReachIn DEF Follows, Sets
  <2>2. Reach(d, h) \subseteq Reach(e, h)
    BY <2>1, ReachIn, ReachHas, ReachLeast
  <2> QED
    BY <1>3, <2>2
<1> QED
  BY <1>2, <1>3

\* A link where there was none: chains only grow.
LEMMA ReachGrows ==
  ASSUME NEW d, NEW e, NEW c, NEW x, Sets(d, e, c, x), FatOf(d, c) \notin Clusters, NEW h
  PROVE  Reach(d, h) \subseteq Reach(e, h)
<1>1. Follows(d, Reach(e, h))
  BY ReachFollows, ReachIn DEF Follows, Sets
<1> QED
  BY <1>1, ReachIn, ReachHas, ReachLeast

LEMMA ReachLonger ==
  ASSUME NEW d, NEW e, NEW c, NEW x \in Clusters, Sets(d, e, c, x), FatOf(d, c) \notin Clusters,
         FatOf(d, x) \notin Clusters, x # c, NEW h, c \in Reach(d, h)
  PROVE  Reach(e, h) = Reach(d, h) \cup {x}
<1> DEFINE S == Reach(d, h) \cup {x}
<1>1. Reach(d, h) \subseteq Reach(e, h)
  BY ReachGrows
<1>2. x \in Reach(e, h)
  BY <1>1, ReachFollows, ReachIn DEF Follows, Sets
<1>3. S \subseteq Clusters
  BY ReachIn
<1>4. Follows(e, S)
  BY <1>3, ReachFollows DEF Follows, Sets
<1>5. h \in Clusters => h \in S
  BY ReachHas
<1> HIDE DEF S
<1>6. Reach(e, h) \subseteq S
  BY <1>3, <1>4, <1>5, ReachLeast
<1> QED
  BY <1>1, <1>2, <1>6 DEF S

-----------------------------------------------------------------------------
(* A card that is sound: its FAT, and the entries of its table.            *)

FatOK(d) ==
  /\ \A c \in Clusters : DOMAIN d[FatSect(c)] = {x \in Clusters : FatSect(x) = FatSect(c)}
  /\ \A c \in Clusters : FatOf(d, c) \in {0, EOC} \cup Clusters
  /\ NoGaps(d) /\ NoJoins(d) /\ Leads(d, Root)

EntryIn(d, t) == d[ClustSect(t)].e
IsDir(d, t) == d[ClustSect(t)].is = "dir"
UsedIn(d, t) == t \in Tab(d) /\ IsDir(d, t) /\ EntryIn(d, t).st = "used"
\* An entry of the table has clusters; those of the names in X do not count.
Claims(d, t, X) == UsedIn(d, t) /\ EntryIn(d, t).name \notin X /\ EntryIn(d, t).clust # 0

IsUsed(e) ==
  /\ DOMAIN e = {"st", "name", "dir", "ro", "clust", "size"} /\ e.st = "used"
  /\ e.clust \in {0} \cup Clusters /\ e.size \in Int
IsEntry(e) == e \in {Unused, Deleted} \/ IsUsed(e)

\* Outside the table, a sector that looks like a directory's is an empty one.
Entries(d) ==
  \A c \in Clusters : IsDir(d, c) =>
    IsEntry(EntryIn(d, c)) /\ (c \notin Tab(d) => EntryIn(d, c) = Unused)
\* An entry that never was used is the last.
UnusedLast(d) ==
  \A t \in Tab(d) : IsDir(d, t) /\ EntryIn(d, t).st = "unused" => FatOf(d, t) \notin Clusters
OneName(d) ==
  \A t, u \in Clusters : UsedIn(d, t) /\ UsedIn(d, u) /\ EntryIn(d, t).name = EntryIn(d, u).name => t = u
\* An entry has a chain of its own.
OwnChain(d, X) ==
  /\ \A t \in Clusters : Claims(d, t, X) => Leads(d, EntryIn(d, t).clust) /\ EntryIn(d, t).clust # Root
  /\ \A t, u \in Clusters :
       Claims(d, t, X) /\ Claims(d, u, X) /\ EntryIn(d, t).clust = EntryIn(d, u).clust => t = u
DirOK(d, X) == Entries(d) /\ UnusedLast(d) /\ OneName(d) /\ OwnChain(d, X)

Sane(d, X) == DOMAIN d = Sectors /\ FatOK(d) /\ DirOK(d, X)

SameData(d, e) == \A c \in Clusters : e[ClustSect(c)] = d[ClustSect(c)]
SameEntries(d, e) ==
  \A t \in Clusters : /\ UsedIn(e, t) <=> UsedIn(d, t)
                      /\ UsedIn(d, t) => EntryIn(e, t) = EntryIn(d, t)

\* What d is later, as e: the table is as long or longer, and so are the chains but those in gone.
Keeping(d, e, gone) ==
  /\ Tab(d) \subseteq Tab(e)
  /\ \A h : Leads(d, h) /\ h \notin gone => Leads(e, h) /\ Reach(d, h) \subseteq Reach(e, h)
  /\ \A t \in Tab(d) : Reach(d, t) \subseteq Reach(e, t)

\* No entry has the chain.
Unclaimed(d, h, X) == \A t \in Clusters : Claims(d, t, X) => EntryIn(d, t).clust # h

LEMMA ClustersDiffer ==
  /\ \A c, d : ClustSect(c) = ClustSect(d) => c = d
  /\ Root \in Clusters /\ EOC \notin Clusters /\ 0 \notin Clusters /\ EOC # 0 /\ 1 \notin Clusters
  /\ \A c \in Clusters : c \in Nat /\ ~(c < 2)
  /\ EOC # 1 /\ ~(EOC < 2)
<1>1. \A c, d : ClustSect(c) = ClustSect(d) => c = d
  BY DEF ClustSect
<1> QED
  BY <1>1, FatNumbers, FatFsAssumption DEF Root, EOC, Clusters

LEMMA KeepingSelf == ASSUME NEW d, NEW gone PROVE Keeping(d, d, gone)
BY DEF Keeping

LEMMA KeepingOn ==
  ASSUME NEW d, NEW e, NEW f, NEW A, NEW B, Keeping(d, e, A), Keeping(e, f, B),
         NEW C, A \subseteq C, \A h : Leads(d, h) /\ h \notin C => h \notin B
  PROVE  Keeping(d, f, C)
<1>1. Tab(d) \subseteq Tab(f)
  BY DEF Keeping
<1>2. ASSUME NEW h, Leads(d, h), h \notin C PROVE Leads(f, h) /\ Reach(d, h) \subseteq Reach(f, h)
  <2>1. Leads(e, h) /\ Reach(d, h) \subseteq Reach(e, h) /\ h \notin B
    BY <1>2 DEF Keeping
  <2>2. Leads(f, h) /\ Reach(e, h) \subseteq Reach(f, h)
    BY <2>1 DEF Keeping
  <2> QED
    BY <2>1, <2>2
<1>3. ASSUME NEW t \in Tab(d) PROVE Reach(d, t) \subseteq Reach(f, t)
  BY DEF Keeping
<1> QED
  BY <1>1, <1>2, <1>3 DEF Keeping

LEMMA SaneParts ==
  ASSUME NEW d, NEW X, Sane(d, X)
  PROVE  /\ NoGaps(d) /\ NoJoins(d) /\ Leads(d, Root) /\ Root \in Tab(d) /\ Tab(d) \subseteq Clusters
         /\ \A c \in Tab(d) : FatOf(d, c) # 0
         /\ \A h : Leads(d, h) /\ h # Root => Reach(d, h) \cap Tab(d) = {} /\ h \notin Tab(d)
         /\ \A h, k : Leads(d, h) /\ Leads(d, k) /\ h # k => Reach(d, h) \cap Reach(d, k) = {}
<1>1. NoGaps(d) /\ NoJoins(d) /\ Leads(d, Root) /\ Root \in Clusters
  BY ClustersDiffer DEF Sane, FatOK
<1>2. Root \in Tab(d) /\ Tab(d) \subseteq Clusters
  BY <1>1, ReachHas, ReachIn DEF Tab
<1>3. \A c \in Tab(d) : FatOf(d, c) # 0
  BY <1>1, ReachTaken DEF Tab, Leads
<1>4. \A h, k : Leads(d, h) /\ Leads(d, k) /\ h # k => Reach(d, h) \cap Reach(d, k) = {}
  BY <1>1, ReachApart
<1>5. \A h : Leads(d, h) /\ h # Root => Reach(d, h) \cap Tab(d) = {} /\ h \notin Tab(d)
  BY <1>1, <1>4, ReachHas DEF Tab, Leads
<1> QED
  BY <1>1, <1>2, <1>3, <1>4, <1>5

\* The table and what it holds are the same, and the chains of its entries still are.
LEMMA DirStays ==
  ASSUME NEW d, NEW X, DirOK(d, X), NEW e, SameData(d, e), Tab(e) = Tab(d),
         \A t \in Tab(d) : FatOf(e, t) \in Clusters => FatOf(d, t) \in Clusters,
         \A t \in Clusters : Claims(d, t, X) => Leads(e, EntryIn(d, t).clust)
  PROVE  DirOK(e, X) /\ SameEntries(d, e)
<1>1. \A t \in Clusters : /\ IsDir(e, t) <=> IsDir(d, t)
                          /\ EntryIn(e, t) = EntryIn(d, t)
                          /\ UsedIn(e, t) <=> UsedIn(d, t)
                          /\ Claims(e, t, X) <=> Claims(d, t, X)
  BY DEF SameData, IsDir, EntryIn, UsedIn, Claims
<1>2. Entries(e)
  BY <1>1 DEF Entries, DirOK
<1>3. UnusedLast(e)
  BY <1>1, ReachIn DEF UnusedLast, DirOK, Tab
<1>4. OneName(e)
  BY <1>1 DEF OneName, DirOK
<1>5. OwnChain(e, X)
  BY <1>1 DEF OwnChain, DirOK
<1> QED
  BY <1>1, <1>2, <1>3, <1>4, <1>5 DEF DirOK, SameEntries

\* Another FAT sector, and nothing else.
Refat(d, e, c, x) ==
  /\ DOMAIN e = Sectors /\ SameData(d, e) /\ Sets(d, e, c, x)
  /\ \A b \in Clusters : DOMAIN e[FatSect(b)] = DOMAIN d[FatSect(b)]

\* A free cluster is taken, a chain by itself.
LEMMA TakeKeeps ==
  ASSUME NEW d, NEW X, Sane(d, X), NEW c \in Clusters, FatOf(d, c) = 0, NEW e, Refat(d, e, c, EOC)
  PROVE  /\ Sane(e, X) /\ Tab(e) = Tab(d) /\ SameEntries(d, e) /\ Keeping(d, e, {})
         /\ Leads(e, c) /\ c # Root /\ Unclaimed(e, c, X) /\ c \notin Tab(e)
<1>1. Sets(d, e, c, EOC) /\ EOC \notin Clusters /\ EOC # 0 /\ 0 \notin Clusters
  BY ClustersDiffer DEF Refat
<1>2. c \notin Tab(d) /\ c # Root
  BY SaneParts
<1>3. Tab(e) = Tab(d)
  BY <1>1, <1>2, ReachOutside DEF Tab
<1>4. NoGaps(e) /\ NoJoins(e)
  BY <1>1 DEF Sets, NoGaps, NoJoins, Sane, FatOK
<1>5. \A h : Leads(d, h) => Leads(e, h)
  BY <1>1 DEF Sets, Leads
<1>6. Leads(e, c)
  BY <1>1 DEF Sets, Leads, Sane, FatOK, NoGaps
<1>7. FatOK(e)
  BY <1>1, <1>4, <1>5 DEF FatOK, Sane, Refat, Sets
<1>8. DirOK(e, X) /\ SameEntries(d, e)
  <2>1. \A t \in Tab(d) : FatOf(e, t) \in Clusters => FatOf(d, t) \in Clusters
    BY <1>1, SaneParts DEF Sets
  <2>2. \A t \in Clusters : Claims(d, t, X) => Leads(e, EntryIn(d, t).clust)
    BY <1>5 DEF Sane, DirOK, OwnChain
  <2> QED
    BY <1>3, <2>1, <2>2, DirStays DEF Sane, Refat
<1>9. Keeping(d, e, {})
  <2>1. \A h : Reach(d, h) \subseteq Reach(e, h)
    BY <1>1, ReachGrows
  <2> QED
    BY <1>3, <1>5, <2>1 DEF Keeping
<1>10. Unclaimed(e, c, X)
  <2>1. \A t \in Clusters : Claims(d, t, X) => EntryIn(d, t).clust # c
    BY DEF Sane, DirOK, OwnChain, Leads
  <2> QED
    BY <1>8, <2>1 DEF Unclaimed, Claims, SameEntries
<1> QED
  BY <1>2, <1>3, <1>6, <1>7, <1>8, <1>9, <1>10 DEF Sane, Refat

\* A chain that nobody has is put at the end of another.
LEMMA JoinKeeps ==
  ASSUME NEW d, NEW X, Sane(d, X), NEW c \in Clusters, FatOf(d, c) = EOC,
         NEW new, Leads(d, new), new # Root, new # c, FatOf(d, new) = EOC, Unclaimed(d, new, X),
         c \in Tab(d) /\ IsDir(d, c) => EntryIn(d, c).st # "unused",
         NEW e, Refat(d, e, c, new)
  PROVE  /\ Sane(e, X) /\ SameEntries(d, e) /\ Keeping(d, e, {new})
         /\ Tab(e) = Tab(d) \cup (IF c \in Tab(d) THEN {new} ELSE {})
         /\ \A h : c \in Reach(d, h) => new \in Reach(e, h)
<1>1. Sets(d, e, c, new) /\ EOC \notin Clusters /\ EOC # 0 /\ 0 \notin Clusters /\ new \in Clusters
  BY ClustersDiffer DEF Refat, Leads
<1>2. Tab(e) = Tab(d) \cup (IF c \in Tab(d) THEN {new} ELSE {})
  BY <1>1, ReachOutside, ReachLonger DEF Tab
<1>3. NoGaps(e) /\ NoJoins(e)
  BY <1>1 DEF Sets, NoGaps, NoJoins, Sane, FatOK, Leads
<1>4. \A h : Leads(d, h) /\ h # new => Leads(e, h)
  BY <1>1 DEF Sets, Leads
<1>5. FatOK(e)
  BY <1>1, <1>3, <1>4 DEF FatOK, Sane, Refat, Sets
<1>6. \A t \in Clusters : /\ IsDir(e, t) <=> IsDir(d, t)
                          /\ EntryIn(e, t) = EntryIn(d, t)
  BY DEF Refat, SameData, IsDir, EntryIn
<1>7. new \notin Tab(d)
  BY SaneParts
<1>8. IsDir(d, new) => EntryIn(d, new) = Unused
  BY <1>1, <1>7 DEF Sane, DirOK, Entries
<1>9. SameEntries(d, e)
  BY <1>2, <1>6, <1>7, <1>8 DEF SameEntries, UsedIn, Unused
<1>10. \A t \in Clusters : Claims(e, t, X) <=> Claims(d, t, X)
  BY <1>6, <1>9 DEF Claims, SameEntries
<1>11. DirOK(e, X)
  <2>1. Entries(e)
    BY <1>2, <1>6 DEF Entries, Sane, DirOK
  <2>2. UnusedLast(e)
    <3> SUFFICES ASSUME NEW t \in Tab(e), IsDir(e, t), EntryIn(e, t).st = "unused"
                 PROVE  FatOf(e, t) \notin Clusters
      BY DEF UnusedLast
    <3>1. t \in Clusters
      BY ReachIn DEF Tab
    <3>2. CASE t = new
      BY <1>1, <3>2 DEF Sets
    <3>3. CASE t # new
      <4>1. t \in Tab(d) /\ IsDir(d, t) /\ EntryIn(d, t).st = "unused"
        BY <1>2, <1>6, <3>1, <3>3
      <4>2. t # c /\ FatOf(d, t) \notin Clusters
        BY <4>1 DEF Sane, DirOK, UnusedLast
      <4> QED
        BY <1>1, <3>1, <4>2 DEF Sets
    <3> QED
      BY <3>2, <3>3
  <2>3. OneName(e)
    BY <1>6, <1>9 DEF OneName, Sane, DirOK, SameEntries
  <2>4. OwnChain(e, X)
    BY <1>4, <1>6, <1>10 DEF OwnChain, Sane, DirOK, Unclaimed
  <2> QED
    BY <2>1, <2>2, <2>3, <2>4 DEF DirOK
<1>12. \A h : Reach(d, h) \subseteq Reach(e, h)
  BY <1>1, ReachGrows
<1>13. Keeping(d, e, {new})
  BY <1>2, <1>4, <1>12 DEF Keeping
<1>14. \A h : c \in Reach(d, h) => new \in Reach(e, h)
  BY <1>1, ReachLonger
<1> QED
  BY <1>2, <1>5, <1>9, <1>11, <1>13, <1>14 DEF Sane, Refat

\* A chain that is not the table is cut, and the rest of it is a chain by itself.
LEMMA TrimKeeps ==
  ASSUME NEW d, NEW X, Sane(d, X), NEW h, Leads(d, h), h # Root, NEW c \in Reach(d, h),
         FatOf(d, c) \in Clusters, NEW e, Refat(d, e, c, EOC)
  PROVE  LET rest == FatOf(d, c)
         IN  /\ Sane(e, X) /\ Tab(e) = Tab(d) /\ SameEntries(d, e) /\ Keeping(d, e, {h})
             /\ Leads(e, h) /\ c \in Reach(e, h)
             /\ Leads(e, rest) /\ rest # Root /\ Unclaimed(e, rest, X) /\ ~Leads(d, rest)
<1> DEFINE rest == FatOf(d, c)
<1>1. Sets(d, e, c, EOC) /\ EOC \notin Clusters /\ EOC # 0 /\ 0 \notin Clusters /\ c \in Clusters
  BY ClustersDiffer, ReachIn DEF Refat
<1>2. c \notin Tab(d)
  BY SaneParts
<1>3. Tab(e) = Tab(d)
  BY <1>1, <1>2, ReachOutside DEF Tab
<1>4. NoGaps(e) /\ NoJoins(e)
  BY <1>1 DEF Sets, NoGaps, NoJoins, Sane, FatOK
<1>5. \A k : Leads(d, k) => Leads(e, k)
  BY <1>1 DEF Sets, Leads
<1>6. Leads(e, rest) /\ ~Leads(d, rest) /\ rest # Root
  BY <1>1 DEF Sets, Leads, Sane, FatOK, NoGaps, NoJoins
<1>7. FatOK(e)
  BY <1>1, <1>4, <1>5 DEF FatOK, Sane, Refat, Sets
<1>8. DirOK(e, X) /\ SameEntries(d, e)
  <2>1. \A t \in Tab(d) : FatOf(e, t) \in Clusters => FatOf(d, t) \in Clusters
    BY <1>1, SaneParts DEF Sets
  <2>2. \A t \in Clusters : Claims(d, t, X) => Leads(e, EntryIn(d, t).clust)
    BY <1>5 DEF Sane, DirOK, OwnChain
  <2> QED
    BY <1>3, <2>1, <2>2, DirStays DEF Sane, Refat
<1>9. Keeping(d, e, {h})
  <2>1. \A k : Leads(d, k) /\ k # h => Reach(e, k) = Reach(d, k)
    BY <1>1, SaneParts, ReachOutside
  <2>2. \A t \in Tab(d) : c \notin Reach(d, t)
    BY <1>2, ReachWithin DEF Tab
  <2>3. \A t \in Tab(d) : Reach(e, t) = Reach(d, t)
    BY <1>1, <2>2, ReachOutside
  <2> QED
    BY <1>3, <1>5, <2>1, <2>3 DEF Keeping
<1>10. Unclaimed(e, rest, X)
  <2>1. \A t \in Clusters : Claims(d, t, X) => EntryIn(d, t).clust # rest
    BY <1>6 DEF Sane, DirOK, OwnChain
  <2> QED
    BY <1>8, <2>1 DEF Unclaimed, Claims, SameEntries
<1>11. c \in Reach(e, h)
  BY <1>1, ReachCut
<1> QED
  BY <1>3, <1>5, <1>6, <1>7, <1>8, <1>9, <1>10, <1>11 DEF Sane, Refat

\* The first cluster of a chain that nobody has is freed.
LEMMA ReleaseKeeps ==
  ASSUME NEW d, NEW X, Sane(d, X), NEW h, Leads(d, h), h # Root, Unclaimed(d, h, X),
         NEW e, Refat(d, e, h, 0)
  PROVE  LET rest == FatOf(d, h)
         IN  /\ Sane(e, X) /\ Tab(e) = Tab(d) /\ SameEntries(d, e) /\ Keeping(d, e, {h})
             /\ rest \in Clusters => /\ Leads(e, rest) /\ rest # Root /\ Unclaimed(e, rest, X)
                                     /\ ~Leads(d, rest)
<1> DEFINE rest == FatOf(d, h)
<1>1. Sets(d, e, h, 0) /\ EOC \notin Clusters /\ EOC # 0 /\ 0 \notin Clusters /\ h \in Clusters
  BY ClustersDiffer DEF Refat, Leads
<1>2. h \notin Tab(d)
  BY SaneParts
<1>3. Tab(e) = Tab(d)
  BY <1>1, <1>2, ReachOutside DEF Tab
<1>4. NoGaps(e) /\ NoJoins(e)
  BY <1>1 DEF Sets, NoGaps, NoJoins, Sane, FatOK, Leads
<1>5. \A k : Leads(d, k) /\ k # h => Leads(e, k)
  BY <1>1 DEF Sets, Leads
<1>6. rest \in Clusters => Leads(e, rest) /\ ~Leads(d, rest) /\ rest # Root
  BY <1>1 DEF Sets, Leads, Sane, FatOK, NoGaps, NoJoins
<1>7. FatOK(e)
  BY <1>1, <1>4, <1>5 DEF FatOK, Sane, Refat, Sets
<1>8. DirOK(e, X) /\ SameEntries(d, e)
  <2>1. \A t \in Tab(d) : FatOf(e, t) \in Clusters => FatOf(d, t) \in Clusters
    BY <1>1, SaneParts DEF Sets
  <2>2. \A t \in Clusters : Claims(d, t, X) => Leads(e, EntryIn(d, t).clust)
    BY <1>5 DEF Sane, DirOK, OwnChain, Unclaimed
  <2> QED
    BY <1>3, <2>1, <2>2, DirStays DEF Sane, Refat
<1>9. Keeping(d, e, {h})
  <2>1. h \in Reach(d, h)
    BY <1>1, ReachHas
  <2>2. \A k : Leads(d, k) /\ k # h => Reach(e, k) = Reach(d, k)
    BY <1>1, <2>1, SaneParts, ReachOutside
  <2>3. \A t \in Tab(d) : h \notin Reach(d, t)
    BY <1>2, ReachWithin DEF Tab
  <2>4. \A t \in Tab(d) : Reach(e, t) = Reach(d, t)
    BY <1>1, <2>3, ReachOutside
  <2> QED
    BY <1>3, <1>5, <2>2, <2>4 DEF Keeping
<1>10. rest \in Clusters => Unclaimed(e, rest, X)
  <2>1. rest \in Clusters => \A t \in Clusters : Claims(d, t, X) => EntryIn(d, t).clust # rest
    BY <1>6 DEF Sane, DirOK, OwnChain
  <2> QED
    BY <1>8, <2>1 DEF Unclaimed, Claims, SameEntries
<1> QED
  BY <1>3, <1>6, <1>7, <1>8, <1>9, <1>10 DEF Sane, Refat

\* Another sector of data, and nothing else.
Redata(d, e, c) ==
  /\ DOMAIN e = Sectors
  /\ \A b \in Clusters : e[FatSect(b)] = d[FatSect(b)] /\ (b # c => e[ClustSect(b)] = d[ClustSect(b)])

\* An entry that can be put at c: no other has its name or its chain.
Fits(d, c, x, X) ==
  /\ \A u \in Clusters : UsedIn(d, u) /\ u # c => EntryIn(d, u).name # x.name
  /\ x.name \notin X /\ x.clust # 0 =>
       /\ Leads(d, x.clust) /\ x.clust # Root
       /\ \A u \in Clusters : Claims(d, u, X) /\ u # c => EntryIn(d, u).clust # x.clust

\* What a sector may become.
MayHold(d, c, y, X) ==
  y.is = "dir" =>
    /\ IsEntry(y.e)
    /\ c \notin Tab(d) => y.e = Unused
    /\ c \in Tab(d) /\ y.e.st = "unused" => FatOf(d, c) \notin Clusters
    /\ c \in Tab(d) /\ y.e.st = "used" => Fits(d, c, y.e, X)

LEMMA SameKeeps ==
  ASSUME NEW d, NEW e, SameFat(d, e)
  PROVE  Tab(e) = Tab(d) /\ \A gone : Keeping(d, e, gone)
BY ReachSame DEF Tab, Keeping

LEMMA RedataFat ==
  ASSUME NEW d, NEW e, NEW c, Redata(d, e, c)
  PROVE  SameFat(d, e) /\ (\A X : Sane(d, X) => FatOK(e))
<1>1. SameFat(d, e) /\ \A b \in Clusters : DOMAIN e[FatSect(b)] = DOMAIN d[FatSect(b)]
  BY DEF Redata, SameFat, FatOf
<1>2. Leads(d, Root) => Leads(e, Root)
  BY <1>1, ReachSame
<1> QED
  BY <1>1, <1>2 DEF Sane, FatOK, SameFat, NoGaps, NoJoins

LEMMA SectorKeeps ==
  ASSUME NEW d, NEW X, Sane(d, X), NEW c \in Clusters, NEW e, Redata(d, e, c),
         MayHold(d, c, e[ClustSect(c)], X)
  PROVE  /\ Sane(e, X) /\ SameFat(d, e) /\ Tab(e) = Tab(d) /\ \A gone : Keeping(d, e, gone)
         /\ \A u \in Clusters : u # c => /\ UsedIn(e, u) <=> UsedIn(d, u)
                                         /\ EntryIn(e, u) = EntryIn(d, u)
<1>1. SameFat(d, e) /\ FatOK(e)
  BY RedataFat
<1>2. Tab(e) = Tab(d) /\ \A gone : Keeping(d, e, gone)
  BY <1>1, SameKeeps
<1>3. \A h : Leads(d, h) <=> Leads(e, h)
  BY <1>1, ReachSame
<1>4. \A u \in Clusters : u # c => /\ IsDir(e, u) <=> IsDir(d, u)
                                   /\ EntryIn(e, u) = EntryIn(d, u)
                                   /\ UsedIn(e, u) <=> UsedIn(d, u)
                                   /\ Claims(e, u, X) <=> Claims(d, u, X)
  BY <1>2 DEF Redata, IsDir, EntryIn, UsedIn, Claims
<1>5. IsDir(e, c) =>
        /\ IsEntry(EntryIn(e, c))
        /\ c \notin Tab(d) => EntryIn(e, c) = Unused
        /\ c \in Tab(d) /\ EntryIn(e, c).st = "unused" => FatOf(d, c) \notin Clusters
        /\ c \in Tab(d) /\ EntryIn(e, c).st = "used" => Fits(d, c, EntryIn(e, c), X)
  BY DEF MayHold, IsDir, EntryIn
<1>6. Entries(e)
  BY <1>2, <1>4, <1>5 DEF Entries, Sane, DirOK
<1>7. UnusedLast(e)
  BY <1>1, <1>2, <1>4, <1>5, ReachIn DEF UnusedLast, Sane, DirOK, SameFat, Tab
<1>8. UsedIn(e, c) => Fits(d, c, EntryIn(e, c), X)
  BY <1>2, <1>5 DEF UsedIn
<1>9. OneName(e)
  BY <1>4, <1>8 DEF OneName, Sane, DirOK, Fits
<1>10. OwnChain(e, X)
  <2>1. Claims(e, c, X) =>
          /\ Leads(d, EntryIn(e, c).clust) /\ EntryIn(e, c).clust # Root
          /\ \A u \in Clusters : Claims(d, u, X) /\ u # c => EntryIn(d, u).clust # EntryIn(e, c).clust
    BY <1>8 DEF Claims, Fits
  <2>2. OwnChain(d, X)
    BY DEF Sane, DirOK
  <2>3. ASSUME NEW t \in Clusters, Claims(e, t, X)
        PROVE  Leads(e, EntryIn(e, t).clust) /\ EntryIn(e, t).clust # Root
    BY <1>3, <1>4, <2>1, <2>2, <2>3 DEF OwnChain
  <2>4. ASSUME NEW t \in Clusters, NEW u \in Clusters, Claims(e, t, X), Claims(e, u, X),
               EntryIn(e, t).clust = EntryIn(e, u).clust
        PROVE  t = u
    BY <1>4, <2>1, <2>2, <2>4 DEF OwnChain
  <2> QED
    BY <2>3, <2>4 DEF OwnChain
<1> QED
  BY <1>1, <1>2, <1>4, <1>6, <1>7, <1>9, <1>10 DEF Sane, DirOK, Redata

\* Data is written outside the table, or a cluster is cleared that has no entry in use.
LEMMA DataKeeps ==
  ASSUME NEW d, NEW X, Sane(d, X), NEW c \in Clusters, NEW e, Redata(d, e, c),
         \/ c \notin Tab(d) /\ e[ClustSect(c)].is # "dir"
         \/ /\ e[ClustSect(c)] = DirOf(Unused) /\ ~UsedIn(d, c)
            /\ c \in Tab(d) => FatOf(d, c) \notin Clusters
  PROVE  /\ Sane(e, X) /\ SameFat(d, e) /\ Tab(e) = Tab(d) /\ \A gone : Keeping(d, e, gone)
         /\ SameEntries(d, e)
<1>1. MayHold(d, c, e[ClustSect(c)], X)
  BY DEF MayHold, DirOf, Unused, IsEntry
<1>2. ~UsedIn(d, c)
  BY DEF UsedIn
<1>3. Tab(e) = Tab(d)
  BY <1>1, SectorKeeps
<1>4. ~UsedIn(e, c)
  BY <1>3 DEF UsedIn, IsDir, EntryIn, DirOf, Unused
<1> QED
  BY <1>1, <1>2, <1>4, SectorKeeps DEF SameEntries

\* FSINFO is not looked at.
LEMMA FsiKeeps ==
  ASSUME NEW d, NEW X, Sane(d, X), NEW e, DOMAIN e = Sectors, SameData(d, e),
         \A b \in Clusters : e[FatSect(b)] = d[FatSect(b)]
  PROVE  Sane(e, X) /\ SameFat(d, e) /\ Tab(e) = Tab(d) /\ SameEntries(d, e)
         /\ \A gone : Keeping(d, e, gone)
<1>1. Redata(d, e, Root)
  BY DEF Redata, SameData
<1>2. SameFat(d, e) /\ FatOK(e)
  BY <1>1, RedataFat
<1>3. Tab(e) = Tab(d) /\ \A gone : Keeping(d, e, gone)
  BY <1>2, SameKeeps
<1>4. \A h : Leads(d, h) <=> Leads(e, h)
  BY <1>2, ReachSame
<1>5. DirOK(e, X) /\ SameEntries(d, e)
  <2>1. \A t \in Tab(d) : FatOf(e, t) \in Clusters => FatOf(d, t) \in Clusters
    BY <1>2, ReachIn DEF SameFat, Tab
  <2>2. \A t \in Clusters : Claims(d, t, X) => Leads(e, EntryIn(d, t).clust)
    BY <1>4 DEF Sane, DirOK, OwnChain
  <2> QED
    BY <1>3, <2>1, <2>2, DirStays DEF Sane
<1> QED
  BY <1>2, <1>3, <1>5 DEF Sane

\* More names may not count, and a name counts again whose entry has a chain of its own.
LEMMA LessCounts ==
  ASSUME NEW d, NEW X, NEW Y, Sane(d, X), X \subseteq Y PROVE Sane(d, Y)
<1>1. \A t : Claims(d, t, Y) => Claims(d, t, X)
  BY DEF Claims
<1>2. OwnChain(d, X)
  BY DEF Sane, DirOK
<1>3. OwnChain(d, Y)
  BY <1>1, <1>2 DEF OwnChain
<1> QED
  BY <1>3 DEF Sane, DirOK

LEMMA CountsAgain ==
  ASSUME NEW d, NEW X, NEW Y, Sane(d, X),
         \A t \in Clusters : Claims(d, t, Y) /\ ~Claims(d, t, X) =>
           /\ Leads(d, EntryIn(d, t).clust) /\ EntryIn(d, t).clust # Root
           /\ \A u \in Clusters : Claims(d, u, Y) /\ EntryIn(d, u).clust = EntryIn(d, t).clust => u = t
  PROVE  Sane(d, Y)
<1>1. OwnChain(d, X)
  BY DEF Sane, DirOK
<1>2. OwnChain(d, Y)
  BY <1>1 DEF OwnChain
<1> QED
  BY <1>2 DEF Sane, DirOK

LEMMA SameEntriesOn ==
  ASSUME NEW d, NEW e, NEW f, SameEntries(d, e), SameEntries(e, f) PROVE SameEntries(d, f)
BY DEF SameEntries

LEMMA SameEntriesSame == ASSUME NEW d PROVE SameEntries(d, d)
BY DEF SameEntries

LEMMA SameUnclaimed ==
  ASSUME NEW d, NEW e, NEW X, SameEntries(d, e), NEW h, Unclaimed(d, h, X) PROVE Unclaimed(e, h, X)
BY DEF SameEntries, Unclaimed, Claims

-----------------------------------------------------------------------------
(* A call under way.  The card as a call sees it is the window over it; it *)
(* is sound, and so are the card itself and every card that the call has   *)
(* left on its way, where the names in X do not count.                     *)

Over(d, s, x) == [d EXCEPT ![s] = x]
View(v) == IF v.win.dirty THEN Over(v.disk, v.win.sect, v.win.buf) ELSE v.disk
Shown(d) == {FatSect(c) : c \in Clusters} \cup {ClustSect(c) : c \in Tab(d)}

FileFields ==
  {"open", "rd", "wr", "slot", "sclust", "clust", "size", "ptr", "dsect", "buf", "dirty", "written", "err"}
IsObject(f) == "open" \in DOMAIN f /\ f.open \in BOOLEAN /\ (f.open => DOMAIN f = FileFields)
IsIo(s) == \E S : s \in Seq(S)
IsCard(d) == d = [s \in DOMAIN d |-> d[s]]
AreCards(s) == IsIo(s) /\ \A i \in 1..Len(s) : IsCard(s[i])
Shape(v) ==
  /\ DOMAIN v = Fields /\ IsCard(v.disk)
  /\ DOMAIN v.bad = {"at", "kept"} /\ v.bad.at \in Int
  /\ DOMAIN v.fs = {"mounted", "free", "last", "fsi"} /\ v.fs.mounted \in BOOLEAN
  /\ DOMAIN v.fp = Names /\ \A n \in Names : IsObject(v.fp[n])
  /\ DOMAIN v.find = {"open", "pat", "at", "seen", "stay"}
  /\ DOMAIN v.win = {"sect", "buf", "dirty"} /\ v.win.dirty \in BOOLEAN
  /\ AreCards(v.io)

Cards(v, X) ==
  /\ Sane(v.disk, X) /\ Sane(View(v), X) /\ Tab(v.disk) \subseteq Tab(View(v))
  /\ \A i \in 1..Len(v.io) : Sane(v.io[i], X)
Clean(v) ==
  /\ v.win.dirty => v.win.sect \in Sectors
  /\ v.win.sect \in Shown(View(v)) => v.win.buf = View(v)[v.win.sect]
Base(v, X) == Shape(v) /\ Cards(v, X) /\ Clean(v)

\* What moves sectors about, whether it fails or not.
Moves(v, w, X) == Base(w, X) /\ Elsewhere(v, w) /\ View(w) = View(v)

LEMMA OverIs ==
  ASSUME NEW d, NEW s, NEW x
  PROVE  /\ DOMAIN Over(d, s, x) = DOMAIN d /\ (\A y : Over(Over(d, s, x), s, y) = Over(d, s, y))
         /\ IsCard(Over(d, s, x)) /\ (IsCard(d) => Over(d, s, d[s]) = d)
         /\ \A r \in DOMAIN d : Over(d, s, x)[r] = IF r = s THEN x ELSE d[r]
BY DEF Over, IsCard

LEMMA IoMore ==
  ASSUME NEW s, IsIo(s), NEW x
  PROVE  /\ IsIo(Append(s, x)) /\ Len(s) \in Nat /\ Len(Append(s, x)) = Len(s) + 1
         /\ \A i \in 1..Len(s) + 1 : Append(s, x)[i] = IF i <= Len(s) THEN s[i] ELSE x
<1>1. PICK S : s \in Seq(S)
  BY DEF IsIo
<1> DEFINE T == S \cup {x}
<1>2. s \in Seq(T) /\ x \in T
  BY <1>1
<1> HIDE DEF T
<1>3. Append(s, x) \in Seq(T)
  BY <1>2
<1> QED
  BY <1>2, <1>3 DEF IsIo

LEMMA ShapeTick ==
  ASSUME NEW v, Shape(v)
  PROVE  LET t == Tick(v)
         IN  /\ Shape(t) /\ Elsewhere(v, t) /\ t.win = v.win /\ t.disk = v.disk /\ t.io = v.io
             /\ t.res = v.res /\ t.val = v.val /\ t.bad.kept = v.bad.kept
BY DEF Shape, Fields, Tick, Elsewhere

LEMMA ShapeStored ==
  ASSUME NEW v, Shape(v), NEW s, NEW x
  PROVE  LET w == Stored(v, s, x)
         IN  /\ Shape(w) /\ Elsewhere(v, w) /\ w.win = v.win /\ w.disk = Over(v.disk, s, x)
             /\ w.io = Append(v.io, w.disk) /\ w.res = v.res /\ w.val = v.val
<1> DEFINE d == Over(v.disk, s, x)
           w == Stored(v, s, x)
<1>1. /\ DOMAIN w = Fields /\ w.disk = d /\ w.io = Append(v.io, d) /\ w.bad = v.bad /\ Elsewhere(v, w)
      /\ w.win = v.win /\ w.res = v.res /\ w.val = v.val
  BY DEF Shape, Fields, Stored, Elsewhere, Over
<1> HIDE DEF w, d
<1>4. IsCard(w.disk)
  BY <1>1, OverIs DEF d
<1>2. AreCards(w.io)
  BY <1>1, <1>4, IoMore DEF Shape, AreCards
<1>3. Shape(w)
  BY <1>1, <1>2, <1>4 DEF Shape, Elsewhere
<1> QED
  BY <1>1, <1>3 DEF w, d

LEMMA ShapeFail ==
  ASSUME NEW v, Shape(v), NEW why
  PROVE  LET w == Fail(v, why)
         IN  /\ Shape(w) /\ Elsewhere(v, w) /\ w.win = v.win /\ w.disk = v.disk /\ w.io = v.io
             /\ w.res = why /\ w.val = v.val
BY DEF Shape, Fields, Fail, Elsewhere

LEMMA DiskWriteIs ==
  ASSUME NEW v, Shape(v), v.res = "ok", NEW s, NEW x
  PROVE  LET w == DiskWrite(v, s, x)
         IN  /\ Shape(w) /\ Elsewhere(v, w) /\ w.win = v.win /\ w.val = v.val /\ w.res \in {"ok", "disk"}
             /\ \/ w.disk = Over(v.disk, s, x) /\ w.io = Append(v.io, w.disk)
                \/ w.disk = v.disk /\ w.io = v.io /\ w.res # "ok"
<1> DEFINE t == Tick(v)
           u == Stored(t, s, x)
<1>1. /\ Shape(t) /\ Elsewhere(v, t) /\ t.win = v.win /\ t.disk = v.disk /\ t.io = v.io
      /\ t.res = v.res /\ t.val = v.val
  BY ShapeTick
<1>2. DiskWrite(v, s, x) \in {u, Fail(u, "disk"), Fail(t, "disk")}
  BY DEF DiskWrite
<1> HIDE DEF t
<1>3. /\ Shape(u) /\ Elsewhere(t, u) /\ u.win = t.win /\ u.disk = Over(t.disk, s, x)
      /\ u.io = Append(t.io, u.disk) /\ u.res = t.res /\ u.val = t.val
  BY <1>1, ShapeStored
<1> HIDE DEF u
<1>4. CASE DiskWrite(v, s, x) = u
  BY <1>1, <1>3, <1>4 DEF Elsewhere
<1> DEFINE a == Fail(u, "disk")
           b == Fail(t, "disk")
<1>5. /\ Shape(a) /\ Elsewhere(u, a) /\ a.win = u.win /\ a.disk = u.disk /\ a.io = u.io
      /\ a.res = "disk" /\ a.val = u.val
  BY <1>3, ShapeFail
<1>6. /\ Shape(b) /\ Elsewhere(t, b) /\ b.win = t.win /\ b.disk = t.disk /\ b.io = t.io
      /\ b.res = "disk" /\ b.val = t.val
  BY <1>1, ShapeFail
<1> HIDE DEF a, b
<1>7. CASE DiskWrite(v, s, x) = a
  BY <1>1, <1>3, <1>5, <1>7 DEF Elsewhere
<1>8. CASE DiskWrite(v, s, x) = b
  BY <1>1, <1>6, <1>8 DEF Elsewhere
<1> QED
  BY <1>2, <1>4, <1>7, <1>8 DEF a, b

LEMMA DiskReadIs ==
  ASSUME NEW v, Shape(v), v.res = "ok", NEW s
  PROVE  LET w == DiskRead(v, s)
         IN  /\ Shape(w) /\ Elsewhere(v, w) /\ w.win = v.win /\ w.val = v.val /\ w.res \in {"ok", "disk"}
             /\ w.disk = v.disk /\ w.io = v.io /\ (w.res = "ok" => w.data = v.disk[s])
<1> DEFINE t == Tick(v)
           u == [t EXCEPT !.data = v.disk[s]]
           b == Fail(t, "disk")
<1>1. /\ Shape(t) /\ Elsewhere(v, t) /\ t.win = v.win /\ t.disk = v.disk /\ t.io = v.io
      /\ t.res = v.res /\ t.val = v.val
  BY ShapeTick
<1>2. DiskRead(v, s) \in {u, b}
  BY DEF DiskRead
<1> HIDE DEF t
<1>3. /\ Shape(u) /\ Elsewhere(t, u) /\ u.win = t.win /\ u.disk = t.disk /\ u.io = t.io
      /\ u.res = "ok" /\ u.val = t.val /\ u.data = v.disk[s]
  BY <1>1 DEF Shape, Fields, Elsewhere
<1>4. /\ Shape(b) /\ Elsewhere(t, b) /\ b.win = t.win /\ b.disk = t.disk /\ b.io = t.io
      /\ b.res = "disk" /\ b.val = t.val
  BY <1>1, ShapeFail
<1> HIDE DEF u, b
<1> QED
  BY <1>1, <1>2, <1>3, <1>4 DEF Elsewhere

\* The same card, the same window.
LEMMA BaseSame ==
  ASSUME NEW v, NEW X, Base(v, X), NEW w, Shape(w), w.win = v.win, w.disk = v.disk, w.io = v.io
  PROVE  Base(w, X) /\ View(w) = View(v)
BY DEF Base, Cards, Clean, View

LEMMA SyncWindowMoves ==
  ASSUME NEW v, NEW X, Base(v, X), v.res = "ok"
  PROVE  LET w == SyncWindow(v)
         IN  /\ Moves(v, w, X) /\ w.win.sect = v.win.sect /\ w.win.buf = v.win.buf /\ w.val = v.val
             /\ w.res \in {"ok", "disk"} /\ (w.res = "ok" => ~w.win.dirty)
<1>1. CASE ~v.win.dirty
  BY <1>1 DEF SyncWindow, Moves, Elsewhere
<1>2. CASE v.win.dirty
  <2> DEFINE u == DiskWrite(v, v.win.sect, v.win.buf)
             z == [u EXCEPT !.win.dirty = FALSE]
  <2>1. /\ Shape(u) /\ Elsewhere(v, u) /\ u.win = v.win /\ u.val = v.val /\ u.res \in {"ok", "disk"}
        /\ \/ u.disk = View(v) /\ u.io = Append(v.io, u.disk)
           \/ u.disk = v.disk /\ u.io = v.io /\ u.res # "ok"
    BY <1>2, DiskWriteIs DEF Base, View
  <2>2. SyncWindow(v) = IF u.res = "ok" THEN z ELSE u
    BY <1>2 DEF SyncWindow, Then
  <2> HIDE DEF u
  <2>3. View(u) = View(v)
    BY <1>2, <2>1, OverIs DEF View
  <2>4. \A i \in 1..Len(u.io) : Sane(u.io[i], X)
    <3>1. CASE u.io = v.io
      BY <3>1 DEF Base, Cards
    <3>2. CASE u.io = Append(v.io, View(v))
      <4>1. IsIo(v.io)
        BY DEF Base, Shape, AreCards
      <4>2. /\ Len(v.io) \in Nat /\ Len(u.io) = Len(v.io) + 1
            /\ \A i \in 1..Len(v.io) + 1 : u.io[i] = IF i <= Len(v.io) THEN v.io[i] ELSE View(v)
        BY <3>2, <4>1, IoMore
      <4>3. ASSUME NEW i \in 1..Len(u.io) PROVE Sane(u.io[i], X)
        <5>1. CASE i <= Len(v.io)
          <6>1. i \in 1..Len(v.io) /\ u.io[i] = v.io[i]
            BY <4>2, <5>1
          <6> QED
            BY <6>1 DEF Base, Cards
        <5>2. CASE ~(i <= Len(v.io))
          <6>1. u.io[i] = View(v)
            BY <4>2, <5>2
          <6> QED
            BY <6>1 DEF Base, Cards
        <5> QED
          BY <5>1, <5>2
      <4> QED
        BY <4>3
    <3> QED
      BY <2>1, <3>1, <3>2
  <2>5. Cards(u, X)
    BY <2>1, <2>3, <2>4 DEF Cards, Base
  <2>6. Base(u, X)
    BY <2>1, <2>3, <2>5 DEF Base, Clean
  <2>7. CASE u.res # "ok"
    BY <2>1, <2>2, <2>3, <2>6, <2>7 DEF Moves
  <2>8. CASE u.res = "ok"
    <3>1. /\ DOMAIN z = Fields /\ z.win = [u.win EXCEPT !.dirty = FALSE] /\ z.disk = u.disk /\ z.io = u.io
          /\ z.bad = u.bad /\ Elsewhere(u, z) /\ z.val = u.val /\ z.res = u.res
      BY <2>1 DEF Shape, Fields, Elsewhere
    <3>2. /\ DOMAIN z.win = {"sect", "buf", "dirty"} /\ z.win.dirty = FALSE /\ z.win.sect = v.win.sect
          /\ z.win.buf = v.win.buf
      BY <2>1, <3>1 DEF Shape
    <3> HIDE DEF z
    <3>3. Shape(z)
      BY <2>1, <3>1, <3>2 DEF Shape, Elsewhere
    <3>4. View(z) = View(v)
      BY <2>1, <2>8, <3>1, <3>2 DEF View
    <3>5. Cards(z, X)
      BY <2>1, <2>5, <2>8, <3>1, <3>4 DEF Cards, Base
    <3>6. Base(z, X)
      BY <3>2, <3>3, <3>4, <3>5 DEF Base, Clean
    <3>7. Elsewhere(v, z)
      BY <2>1, <3>1 DEF Elsewhere
    <3> QED
      BY <2>1, <2>2, <2>8, <3>1, <3>2, <3>4, <3>6, <3>7 DEF Moves
  <2> QED
    BY <2>7, <2>8
<1> QED
  BY <1>1, <1>2 DEF Base, Shape

LEMMA MoveWindowMoves ==
  ASSUME NEW v, NEW X, Base(v, X), v.res = "ok", NEW s
  PROVE  LET w == MoveWindow(v, s)
         IN  /\ Moves(v, w, X) /\ w.val = v.val /\ w.res \in {"ok", "disk"}
             /\ w.win.sect = IF w.res = "ok" THEN s ELSE v.win.sect
             /\ ~v.win.dirty => ~w.win.dirty
<1>1. CASE v.win.sect = s
  BY <1>1 DEF MoveWindow, Moves, Elsewhere
<1>2. CASE v.win.sect # s
  <2> DEFINE u == SyncWindow(v)
             t == DiskRead(u, s)
             w == [t EXCEPT !.win = [sect |-> s, buf |-> t.data, dirty |-> FALSE]]
  <2>1. /\ Moves(v, u, X) /\ u.win.sect = v.win.sect /\ u.val = v.val /\ u.res \in {"ok", "disk"}
        /\ u.res = "ok" => ~u.win.dirty
    BY SyncWindowMoves
  <2>2. MoveWindow(v, s) = IF u.res # "ok" THEN u ELSE IF t.res # "ok" THEN t ELSE w
    BY <1>2 DEF MoveWindow, Then
  <2>3. ~v.win.dirty => u = v
    BY DEF SyncWindow
  <2> HIDE DEF u
  <2>4. CASE u.res # "ok"
    BY <2>1, <2>2, <2>3, <2>4
  <2>5. CASE u.res = "ok"
    <3>1. /\ Shape(t) /\ Elsewhere(u, t) /\ t.win = u.win /\ t.val = u.val /\ t.res \in {"ok", "disk"}
          /\ t.disk = u.disk /\ t.io = u.io /\ (t.res = "ok" => t.data = u.disk[s])
      BY <2>1, <2>5, DiskReadIs DEF Moves, Base
    <3> HIDE DEF t
    <3>2. Base(t, X) /\ View(t) = View(v) /\ View(t) = u.disk
      BY <2>1, <2>5, <3>1, BaseSame DEF Moves, View
    <3>3. Elsewhere(v, t)
      BY <2>1, <3>1 DEF Elsewhere, Moves
    <3>4. CASE t.res # "ok"
      BY <2>1, <2>2, <2>5, <3>1, <3>2, <3>3, <3>4 DEF Moves
    <3>5. CASE t.res = "ok"
      <4>1. /\ DOMAIN w = Fields /\ w.win = [sect |-> s, buf |-> t.data, dirty |-> FALSE]
            /\ w.disk = t.disk /\ w.io = t.io /\ w.bad = t.bad /\ Elsewhere(t, w) /\ w.val = t.val
            /\ w.res = t.res
        BY <3>1 DEF Shape, Fields, Elsewhere
      <4> HIDE DEF w
      <4>2. Shape(w)
        BY <3>1, <4>1 DEF Shape, Elsewhere
      <4>3. View(w) = View(v)
        BY <3>1, <3>2, <4>1 DEF View
      <4>4. Cards(w, X)
        BY <3>2, <4>1, <4>3 DEF Cards, Base
      <4>5. w.win.sect = s /\ ~w.win.dirty /\ w.win.buf = t.data
        BY <4>1
      <4>8. View(w)[s] = t.data
        BY <3>1, <3>2, <3>5, <4>3
      <4>7. Base(w, X)
        BY <4>2, <4>4, <4>5, <4>8 DEF Base, Clean
      <4>6. Elsewhere(v, w)
        BY <3>3, <4>1 DEF Elsewhere
      <4> QED
        BY <2>1, <2>2, <2>5, <3>1, <3>5, <4>1, <4>3, <4>6, <4>7 DEF Moves
    <3> QED
      BY <3>4, <3>5
  <2> QED
    BY <2>4, <2>5
<1> QED
  BY <1>1, <1>2

LEMMA BaseParts ==
  ASSUME NEW v, NEW X, Base(v, X)
  PROVE  /\ Sane(View(v), X) /\ Shape(v) /\ DOMAIN View(v) = Sectors
         /\ \A c \in Clusters : v.win.sect = FatSect(c) => v.win.buf = View(v)[FatSect(c)]
         /\ \A c \in Tab(View(v)) : v.win.sect = ClustSect(c) => v.win.buf = View(v)[ClustSect(c)]
BY DEF Base, Cards, Sane, Clean, Shown

LEMMA BaseAnswer ==
  ASSUME NEW v, NEW X, Base(v, X), NEW x
  PROVE  LET w == Answer(v, x)
         IN  Moves(v, w, X) /\ w.res = v.res /\ w.win = v.win /\ w.val = x
<1> DEFINE w == Answer(v, x)
<1>1. /\ Shape(w) /\ w.win = v.win /\ w.disk = v.disk /\ w.io = v.io /\ Elsewhere(v, w)
      /\ w.res = v.res /\ w.val = x
  BY DEF Base, Shape, Fields, Answer, Elsewhere
<1> HIDE DEF w
<1>2. Moves(v, w, X)
  BY <1>1, BaseSame DEF Moves
<1> QED
  BY <1>1, <1>2 DEF w

LEMMA BaseFail ==
  ASSUME NEW v, NEW X, Base(v, X), NEW why
  PROVE  LET w == Fail(v, why)
         IN  Moves(v, w, X) /\ w.res = why /\ w.win = v.win /\ w.val = v.val
<1> DEFINE w == Fail(v, why)
<1>1. /\ Shape(w) /\ w.win = v.win /\ w.disk = v.disk /\ w.io = v.io /\ Elsewhere(v, w)
      /\ w.res = why /\ w.val = v.val
  BY ShapeFail DEF Base
<1> HIDE DEF w
<1>2. Moves(v, w, X)
  BY <1>1, BaseSame DEF Moves
<1> QED
  BY <1>1, <1>2 DEF w

LEMMA MovesOn ==
  ASSUME NEW u, NEW v, NEW w, NEW X, Moves(u, v, X), Moves(v, w, X) PROVE Moves(u, w, X)
BY DEF Moves, Elsewhere

LEMMA MovesSelf == ASSUME NEW v, NEW X, Base(v, X) PROVE Moves(v, v, X)
BY DEF Moves, Elsewhere

LEMMA GetFatMoves ==
  ASSUME NEW v, NEW X, Base(v, X), v.res = "ok", NEW c
  PROVE  LET w == GetFat(v, c)
         IN  /\ Moves(v, w, X) /\ w.res \in {"ok", "disk"}
             /\ c \notin Clusters => w.res = "ok" /\ w.val = 1
             /\ c \in Clusters /\ w.res = "ok" =>
                  /\ w.val = FatOf(View(v), c) /\ w.win.sect = FatSect(c)
                  /\ w.val \in {0, EOC} \cup Clusters
<1>1. CASE c \in Clusters
  <2> DEFINE u == MoveWindow(v, FatSect(c))
             w == Answer(u, u.win.buf[c])
  <2>1. Moves(v, u, X) /\ u.res \in {"ok", "disk"} /\ (u.res = "ok" => u.win.sect = FatSect(c))
    BY MoveWindowMoves
  <2>2. GetFat(v, c) = IF u.res = "ok" THEN w ELSE u
    BY <1>1 DEF GetFat, Then
  <2> HIDE DEF u
  <2>3. Moves(u, w, X) /\ w.res = u.res /\ w.win = u.win /\ w.val = u.win.buf[c]
    BY <2>1, BaseAnswer DEF Moves
  <2> HIDE DEF w
  <2>4. Moves(v, w, X)
    BY <2>1, <2>3, MovesOn
  <2>5. CASE u.res = "ok"
    <3>1. u.win.buf = View(u)[FatSect(c)] /\ View(u) = View(v)
      BY <1>1, <2>1, <2>5, BaseParts DEF Moves
    <3>2. w.val = FatOf(View(v), c)
      BY <2>3, <3>1 DEF FatOf
    <3>3. FatOf(View(v), c) \in {0, EOC} \cup Clusters
      BY <1>1, BaseParts DEF Sane, FatOK
    <3> QED
      BY <1>1, <2>1, <2>2, <2>3, <2>4, <2>5, <3>2, <3>3
  <2>6. CASE u.res # "ok"
    BY <1>1, <2>1, <2>2, <2>6
  <2> QED
    BY <2>5, <2>6
<1>2. CASE c \notin Clusters
  <2>1. GetFat(v, c) = Answer(v, 1)
    BY <1>2 DEF GetFat
  <2> QED
    BY <1>2, <2>1, BaseAnswer
<1> QED
  BY <1>1, <1>2

\* What the window holds is changed.
LEMMA PutIs ==
  ASSUME NEW v, NEW X, Base(v, X), v.win.sect \in Sectors, NEW x
  PROVE  LET w == Put(v, x)
         IN  /\ Elsewhere(v, w) /\ w.res = v.res /\ w.val = v.val
             /\ w.win.sect = v.win.sect /\ w.win.dirty
             /\ View(w) = Over(View(v), v.win.sect, x) /\ w.disk = v.disk
             /\ \A Y : Sane(View(w), Y) /\ Tab(View(v)) \subseteq Tab(View(w)) /\ X \subseteq Y => Base(w, Y)
<1> DEFINE w == Put(v, x)
<1>1. /\ DOMAIN w = Fields /\ w.disk = v.disk /\ w.io = v.io /\ w.bad = v.bad /\ Elsewhere(v, w)
      /\ w.res = v.res /\ w.val = v.val /\ w.win = [[v.win EXCEPT !.buf = x] EXCEPT !.dirty = TRUE]
  BY DEF Base, Shape, Fields, Put, Elsewhere
<1>2. DOMAIN v.win = {"sect", "buf", "dirty"}
  BY DEF Base, Shape
<1>3. DOMAIN w.win = {"sect", "buf", "dirty"} /\ w.win.sect = v.win.sect /\ w.win.buf = x /\ w.win.dirty = TRUE
  BY <1>1, <1>2
<1> HIDE DEF w
<1>4. Shape(w)
  BY <1>1, <1>3 DEF Shape, Base, Elsewhere
<1>5. View(w) = Over(v.disk, v.win.sect, x)
  BY <1>1, <1>3 DEF View
<1>6. View(w) = Over(View(v), v.win.sect, x)
  BY <1>5, OverIs DEF View
<1>7. View(w)[w.win.sect] = x
  BY <1>3, <1>6, BaseParts, OverIs
<1>8. ASSUME NEW Y, Sane(View(w), Y), Tab(View(v)) \subseteq Tab(View(w)), X \subseteq Y PROVE Base(w, Y)
  <2>1. Clean(w)
    BY <1>3, <1>7 DEF Clean
  <2>2. Sane(w.disk, Y) /\ \A i \in 1..Len(w.io) : Sane(w.io[i], Y)
    BY <1>1, <1>8, LessCounts DEF Base, Cards
  <2>3. Cards(w, Y)
    BY <1>1, <1>8, <2>2 DEF Cards, Base
  <2> QED
    BY <1>4, <2>1, <2>3 DEF Base
<1> QED
  BY <1>1, <1>3, <1>6, <1>8 DEF w

\* The window is on the sector of the FAT: one link is set.
LEMMA PutFatHere ==
  ASSUME NEW v, NEW X, Base(v, X), v.res = "ok", NEW c \in Clusters, v.win.sect = FatSect(c), NEW x
  PROVE  LET w == PutFat(v, c, x)
         IN  /\ Elsewhere(v, w) /\ w.res = "ok" /\ w.val = v.val /\ w.win.sect = FatSect(c)
             /\ Refat(View(v), View(w), c, x) /\ w.disk = v.disk
             /\ Sane(View(w), X) /\ Tab(View(v)) \subseteq Tab(View(w)) => Base(w, X)
<1> DEFINE buf == [v.win.buf EXCEPT ![c] = x]
           w == Put(v, buf)
           d == View(v)
           e == View(w)
<1>1. PutFat(v, c, x) = w
  BY DEF PutFat, MoveWindow
<1>2. FatSect(c) \in Sectors
  BY SectorKinds
<1>3. /\ Elsewhere(v, w) /\ w.res = "ok" /\ w.val = v.val /\ w.win.sect = FatSect(c)
      /\ e = Over(d, FatSect(c), buf) /\ w.disk = v.disk
      /\ Sane(View(w), X) /\ Tab(View(v)) \subseteq Tab(View(w)) => Base(w, X)
  BY <1>2, PutIs
<1>4. v.win.buf = d[FatSect(c)] /\ DOMAIN d = Sectors
  BY BaseParts
<1>5. DOMAIN d[FatSect(c)] = {b \in Clusters : FatSect(b) = FatSect(c)}
  BY BaseParts DEF Sane, FatOK
<1> HIDE DEF w, d
<1>6. DOMAIN e = Sectors /\ \A r \in Sectors : e[r] = IF r = FatSect(c) THEN buf ELSE d[r]
  BY <1>3, <1>4, OverIs
<1> HIDE DEF e
<1>7. \A b \in Clusters : FatSect(b) \in Sectors /\ ClustSect(b) \in Sectors /\ ClustSect(b) # FatSect(c)
  BY SectorKinds DEF Sectors
<1>8. SameData(d, e)
  BY <1>6, <1>7 DEF SameData
<1>9. \A b \in Clusters : DOMAIN e[FatSect(b)] = DOMAIN d[FatSect(b)]
  BY <1>4, <1>6, <1>7
<1>10. ASSUME NEW b \in Clusters PROVE FatOf(e, b) = IF b = c THEN x ELSE FatOf(d, b)
  <2>1. CASE FatSect(b) = FatSect(c)
    <3>1. b \in DOMAIN v.win.buf
      BY <1>4, <1>5, <2>1
    <3>2. buf[b] = IF b = c THEN x ELSE v.win.buf[b]
      BY <3>1
    <3> QED
      BY <1>4, <1>6, <1>7, <2>1, <3>2 DEF FatOf
  <2>2. CASE FatSect(b) # FatSect(c)
    BY <1>6, <1>7, <2>2 DEF FatOf
  <2> QED
    BY <2>1, <2>2
<1>11. Refat(d, e, c, x)
  BY <1>6, <1>8, <1>9, <1>10 DEF Refat, Sets
<1> QED
  BY <1>1, <1>3, <1>11 DEF d, e, w

\* A link is set, wherever the window was; if it cannot move, nothing changes.
LEMMA PutFatThere ==
  ASSUME NEW v, NEW X, Base(v, X), v.res = "ok", NEW b \in Clusters, v.win.sect = FatSect(b),
         NEW c \in Clusters, NEW x
  PROVE  LET w == PutFat(v, c, x)
         IN  /\ Elsewhere(v, w) /\ w.val = v.val /\ w.res \in {"ok", "disk"}
             /\ w.res # "ok" => Base(w, X) /\ View(w) = View(v)
             /\ w.res = "ok" =>
                  /\ Refat(View(v), View(w), c, x)
                  /\ Sane(View(w), X) /\ Tab(View(v)) \subseteq Tab(View(w)) => Base(w, X)
<1> DEFINE u == MoveWindow(v, FatSect(c))
           p == PutFat(u, c, x)
           w == PutFat(v, c, x)
<1>1. /\ Moves(v, u, X) /\ u.val = v.val /\ u.res \in {"ok", "disk"}
      /\ u.win.sect = IF u.res = "ok" THEN FatSect(c) ELSE FatSect(b)
  BY MoveWindowMoves
<1>2. CASE u.res = "ok"
  <2>1. p = w
    BY <1>1, <1>2 DEF PutFat, MoveWindow
  <2> HIDE DEF u
  <2>2. /\ Elsewhere(u, p) /\ p.res = "ok" /\ p.val = u.val
        /\ Refat(View(u), View(p), c, x)
        /\ Sane(View(p), X) /\ Tab(View(u)) \subseteq Tab(View(p)) => Base(p, X)
    BY <1>1, <1>2, PutFatHere DEF Moves
  <2> HIDE DEF p, w
  <2>3. Elsewhere(v, p)
    BY <1>1, <2>2 DEF Moves, Elsewhere
  <2> QED
    BY <1>1, <2>1, <2>2, <2>3 DEF Moves, w
<1>3. CASE u.res # "ok"
  <2> DEFINE z == Put(u, u.win.buf)
  <2>1. w = z
    BY <1>3 DEF PutFat
  <2> HIDE DEF u, w
  <2>2. u.win.sect = FatSect(b) /\ u.win.sect \in Sectors /\ Base(u, X) /\ View(u) = View(v)
    BY <1>1, <1>3, SectorKinds DEF Moves
  <2>3. /\ Elsewhere(u, z) /\ z.res = u.res /\ z.val = u.val
        /\ View(z) = Over(View(u), u.win.sect, u.win.buf)
        /\ Sane(View(z), X) /\ Tab(View(u)) \subseteq Tab(View(z)) => Base(z, X)
    BY <2>2, PutIs
  <2> HIDE DEF z
  <2>4. View(z) = View(u)
    <3>1. u.win.buf = View(u)[u.win.sect]
      BY <2>2, BaseParts
    <3>2. IsCard(View(u))
      BY <2>2, OverIs DEF View, Base, Shape
    <3> QED
      BY <2>3, <3>1, <3>2, OverIs
  <2>5. Base(z, X)
    BY <2>2, <2>3, <2>4, BaseParts
  <2>6. Elsewhere(v, z)
    BY <1>1, <2>3 DEF Elsewhere, Moves
  <2> QED
    BY <1>1, <1>3, <2>1, <2>2, <2>3, <2>4, <2>5, <2>6 DEF w
<1> QED
  BY <1>2, <1>3

-----------------------------------------------------------------------------
(* The operators on chains.                                                *)

Frame(v, w) ==
  /\ w.fp = v.fp /\ w.find = v.find /\ w.left = v.left /\ w.in = v.in /\ w.out = v.out
  /\ w.fs.mounted = v.fs.mounted
Links(v, w, X, gone) ==
  /\ Base(w, X) /\ Frame(v, w)
  /\ SameEntries(View(v), View(w)) /\ Keeping(View(v), View(w), gone)
Results == {"ok", "disk", "int"}

LEMMA FrameOn == ASSUME NEW u, NEW v, NEW w, Frame(u, v), Frame(v, w) PROVE Frame(u, w)
BY DEF Frame

LEMMA MovesLinks ==
  ASSUME NEW v, NEW w, NEW X, Moves(v, w, X), NEW gone
  PROVE  Links(v, w, X, gone) /\ Tab(View(w)) = Tab(View(v))
BY KeepingSelf, SameEntriesSame DEF Links, Moves, Elsewhere, Frame

LEMMA LinksMoves ==
  ASSUME NEW u, NEW v, NEW w, NEW X, NEW gone, Links(u, v, X, gone), Moves(v, w, X)
  PROVE  Links(u, w, X, gone) /\ Tab(View(w)) = Tab(View(v))
BY DEF Links, Moves, Elsewhere, Frame

LEMMA CountFreeBase ==
  ASSUME NEW v, NEW X, Base(v, X), NEW more
  PROVE  LET w == CountFree(v, more)
         IN  /\ Base(w, X) /\ Frame(v, w) /\ View(w) = View(v)
             /\ w.res = v.res /\ w.val = v.val /\ w.win = v.win
<1> DEFINE w == CountFree(v, more)
<1>1. /\ Shape(w) /\ w.win = v.win /\ w.disk = v.disk /\ w.io = v.io /\ Frame(v, w)
      /\ w.res = v.res /\ w.val = v.val
  <2>1. CASE v.fs.free = Unknown
    BY <2>1 DEF CountFree, Frame, Base
  <2>2. CASE v.fs.free # Unknown
    <3> DEFINE a == [v EXCEPT !.fs.free = @ + more]
               b == [a EXCEPT !.fs.fsi = IF @ = "off" THEN "off" ELSE "due"]
    <3>1. w = b
      BY <2>2 DEF CountFree
    <3>2. /\ Shape(a) /\ a.win = v.win /\ a.disk = v.disk /\ a.io = v.io /\ Frame(v, a)
          /\ a.res = v.res /\ a.val = v.val
      BY DEF Base, Shape, Fields, Frame
    <3> HIDE DEF a
    <3>3. /\ Shape(b) /\ b.win = a.win /\ b.disk = a.disk /\ b.io = a.io /\ Frame(a, b)
          /\ b.res = a.res /\ b.val = a.val
      BY <3>2 DEF Shape, Fields, Frame
    <3> HIDE DEF b, w
    <3> QED
      BY <3>1, <3>2, <3>3, FrameOn
  <2> QED
    BY <2>1, <2>2
<1> HIDE DEF w
<1>2. Base(w, X) /\ View(w) = View(v)
  BY <1>1, BaseSame
<1> QED
  BY <1>1, <1>2 DEF w

\* A chain h that nobody has is freed up to x.val.
Freeing(v, h, X, x) ==
  /\ Links(v, x, X, {h}) /\ Tab(View(x)) = Tab(View(v)) /\ x.res \in Results
  /\ x.res = "ok" /\ x.val \in Clusters =>
       /\ Leads(View(x), x.val) /\ x.val # Root /\ Unclaimed(View(x), x.val, X)
       /\ x.val = h \/ ~Leads(View(v), x.val)

LEMMA FreeLinkFrees ==
  ASSUME NEW v, NEW h, NEW X, NEW x, Freeing(v, h, X, x) PROVE Freeing(v, h, X, FreeLink(x))
<1>1. CASE x.res # "ok" \/ x.val \notin Clusters
  BY <1>1 DEF FreeLink
<1>2. CASE x.res = "ok" /\ x.val \in Clusters
  <2> DEFINE g == GetFat(x, x.val)
             p == PutFat(g, x.val, 0)
             q == CountFree(p, 1)
             w == Answer(q, g.val)
             d == View(v)
             e == View(g)
  <2>1. /\ Moves(x, g, X) /\ g.res \in {"ok", "disk"}
        /\ g.res = "ok" => /\ g.val = FatOf(View(x), x.val) /\ g.win.sect = FatSect(x.val)
                           /\ g.val \in {0, EOC} \cup Clusters
    BY <1>2, GetFatMoves DEF Freeing, Links
  <2>2. Leads(View(x), x.val) /\ x.val # Root /\ Unclaimed(View(x), x.val, X)
    BY <1>2 DEF Freeing
  <2>3. FreeLink(x) = IF g.res # "ok" THEN g ELSE IF g.val = 0 THEN Answer(g, EOC)
                      ELSE IF g.val = 1 THEN Fail(g, "int")
                      ELSE Then(p, LAMBDA y: Answer(CountFree(y, 1), g.val))
    BY <1>2 DEF FreeLink, Then
  <2> HIDE DEF g
  <2>4. CASE g.res # "ok"
    <3>1. Links(v, g, X, {h}) /\ Tab(View(g)) = Tab(View(v))
      BY <2>1, LinksMoves DEF Freeing
    <3>2. FreeLink(x) = g
      BY <2>3, <2>4
    <3> QED
      BY <2>1, <2>4, <3>1, <3>2 DEF Freeing, Results
  <2>5. CASE g.res = "ok"
    <3>1. g.val # 0 /\ g.val # 1
      BY <2>1, <2>2, <2>5, ClustersDiffer DEF Leads
    <3>2. /\ Elsewhere(g, p) /\ p.res = "ok" /\ p.val = g.val
          /\ Refat(View(g), View(p), x.val, 0)
          /\ Sane(View(p), X) /\ Tab(View(g)) \subseteq Tab(View(p)) => Base(p, X)
      BY <1>2, <2>1, <2>5, PutFatHere DEF Moves
    <3>3. FreeLink(x) = w
      BY <2>3, <2>5, <3>1, <3>2 DEF Then
    <3> HIDE DEF p
    <3>4. Sane(View(g), X) /\ View(g) = View(x)
      BY <2>1, BaseParts DEF Moves
    <3>5. /\ Sane(View(p), X) /\ Tab(View(p)) = Tab(View(g)) /\ SameEntries(View(g), View(p))
          /\ Keeping(View(g), View(p), {x.val})
          /\ g.val \in Clusters => /\ Leads(View(p), g.val) /\ g.val # Root /\ Unclaimed(View(p), g.val, X)
                                   /\ ~Leads(View(g), g.val)
      BY <2>1, <2>2, <2>5, <3>2, <3>4, ReleaseKeeps
    <3>6. Base(p, X)
      BY <3>2, <3>5
    <3>7. /\ Base(q, X) /\ Frame(p, q) /\ View(q) = View(p) /\ q.res = p.res
      BY <3>6, CountFreeBase
    <3> HIDE DEF q
    <3>8. Moves(q, w, X) /\ w.res = q.res /\ w.val = g.val
      BY <3>7, BaseAnswer
    <3> HIDE DEF w
    <3>9. Frame(v, w)
      BY <2>1, <3>2, <3>7, <3>8 DEF Freeing, Links, Frame, Moves, Elsewhere
    <3>10. SameEntries(View(v), View(w))
      BY <3>4, <3>5, <3>7, <3>8, SameEntriesOn DEF Freeing, Links, Moves
    <3>11. Keeping(View(v), View(w), {h})
      <4>1. Keeping(View(v), View(g), {h}) /\ Keeping(View(g), View(w), {x.val})
        BY <3>4, <3>5, <3>7, <3>8 DEF Freeing, Links, Moves
      <4>2. x.val = h \/ ~Leads(View(v), x.val)
        BY <1>2 DEF Freeing
      <4> QED
        BY <4>1, <4>2, KeepingOn
    <3>12. g.val \in Clusters => g.val = h \/ ~Leads(View(v), g.val)
      BY <3>4, <3>5 DEF Freeing, Links, Keeping
    <3>13. Links(v, w, X, {h}) /\ Tab(View(w)) = Tab(View(v))
      BY <3>4, <3>5, <3>7, <3>8, <3>9, <3>10, <3>11 DEF Links, Freeing, Moves
    <3>14. w.res = "ok" /\ View(w) = View(p)
      BY <3>2, <3>7, <3>8 DEF Moves
    <3> QED
      BY <3>3, <3>5, <3>8, <3>12, <3>13, <3>14 DEF Freeing, Results
  <2> QED
    BY <2>4, <2>5
<1> QED
  BY <1>1, <1>2

LEMMA RemoveChainFrees ==
  ASSUME NEW v, NEW X, Base(v, X), v.res = "ok", NEW c,
         c \in Clusters => Leads(View(v), c) /\ c # Root /\ Unclaimed(View(v), c, X)
  PROVE  LET w == RemoveChain(v, c)
         IN  /\ Links(v, w, X, {c}) /\ Tab(View(w)) = Tab(View(v)) /\ w.res \in Results
             /\ c \notin Clusters => View(w) = View(v) /\ w.res = "int"
<1>1. CASE c \notin Clusters
  <2>1. RemoveChain(v, c) = Fail(v, "int")
    BY <1>1 DEF RemoveChain
  <2> QED
    BY <1>1, <2>1, BaseFail, MovesLinks DEF Results, Moves
<1>2. CASE c \in Clusters
  <2> DEFINE a == Answer(v, c)
             P(h) == h = [i \in 0..LastCluster |-> IF i = 0 THEN a ELSE FreeLink(h[i - 1])]
             h == CHOOSE x : P(x)
  <2>1. RemoveChain(v, c) = h[LastCluster]
    BY <1>2 DEF RemoveChain, Turns
  <2>2. Moves(v, a, X) /\ a.res = "ok" /\ a.val = c
    BY BaseAnswer
  <2> HIDE DEF a
  <2>3. Freeing(v, c, X, a)
    BY <1>2, <2>2, MovesLinks DEF Freeing, Results, Moves
  <2>L1. PICK g : Runs("free", "", a, LastCluster, g)
    BY RunExists, FatNumbers
  <2>L2. P(g)
    BY <2>L1 DEF Runs, Turn
  <2> HIDE DEF P
  <2>L3. P(h)
    BY <2>L2, Zenon
  <2> HIDE DEF h
  <2>L4. \A i \in 0..LastCluster : h[i] = IF i = 0 THEN a ELSE FreeLink(h[i - 1])
    BY <2>L3 DEF P
  <2> DEFINE T == {i \in 0..LastCluster : Freeing(v, c, X, h[i])}
  <2>L5. 0 \in T
    <3>1. h[0] = a /\ 0 \in 0..LastCluster
      BY <2>L4, FatNumbers
    <3>2. Freeing(v, c, X, h[0])
      BY <2>3, <3>1
    <3> QED
      BY <3>1, <3>2
  <2>L6. ASSUME NEW i \in 0..LastCluster - 1, i \in T PROVE i + 1 \in T
    <3>1. i + 1 \in 0..LastCluster /\ h[i + 1] = FreeLink(h[i])
      <4>1. i + 1 \in 0..LastCluster /\ i + 1 # 0 /\ (i + 1) - 1 = i
        BY FatNumbers
      <4> QED
        BY <2>L4, <4>1
    <3>2. Freeing(v, c, X, h[i])
      BY <2>L6
    <3>3. Freeing(v, c, X, FreeLink(h[i]))
      BY <3>2, FreeLinkFrees
    <3> QED
      BY <3>1, <3>3
  <2> HIDE DEF T
  <2>L7. Freeing(v, c, X, h[LastCluster])
    <3>1. LastCluster \in T
      BY <2>L5, <2>L6, Upwards, FatNumbers
    <3> QED
      BY <3>1 DEF T
  <2> QED
    BY <1>2, <2>1, <2>L7 DEF Freeing
<1> QED
  BY <1>1, <1>2

\* A search from the volume v on has come to x.
Looking(v, X, x) ==
  /\ Base(x, X) /\ Frame(v, x) /\ View(x) = View(v) /\ x.res \in Results
  /\ x.res = "ok" =>
       /\ x.at \in 1..LastCluster
       /\ x.val # 0 => x.val \in Clusters /\ FatOf(View(v), x.val) = 0 /\ x.win.sect = FatSect(x.val)

LEMMA ProbeLooks ==
  ASSUME NEW v, NEW X, NEW x, Looking(v, X, x) PROVE Looking(v, X, Probe(x))
<1>1. CASE x.res # "ok" \/ x.val # 0
  BY <1>1 DEF Probe
<1>2. CASE x.res = "ok" /\ x.val = 0
  <2> DEFINE c == IF x.at = LastCluster THEN 2 ELSE x.at + 1
             g == GetFat(x, c)
             w == [g EXCEPT !.at = c, !.val = IF @ = 0 THEN c ELSE 0]
  <2>1. c \in Clusters /\ c \in 1..LastCluster
    BY <1>2, FatNumbers DEF Looking, Clusters
  <2>2. Probe(x) = IF g.res = "ok" THEN w ELSE g
    BY <1>2 DEF Probe, Then
  <2> HIDE DEF c
  <2>3. /\ Moves(x, g, X) /\ g.res \in {"ok", "disk"}
        /\ g.res = "ok" => g.val = FatOf(View(x), c) /\ g.win.sect = FatSect(c)
    BY <1>2, <2>1, GetFatMoves DEF Looking
  <2> HIDE DEF g
  <2>4. CASE g.res # "ok"
    BY <2>2, <2>3, <2>4 DEF Looking, Moves, Elsewhere, Frame, Results
  <2>5. CASE g.res = "ok"
    <3>1. /\ Shape(w) /\ w.win = g.win /\ w.disk = g.disk /\ w.io = g.io /\ Frame(g, w)
          /\ w.res = "ok" /\ w.at = c /\ w.val = IF g.val = 0 THEN c ELSE 0
      BY <2>3, <2>5 DEF Moves, Base, Shape, Fields, Frame
    <3> HIDE DEF w
    <3>2. Base(w, X) /\ View(w) = View(g)
      BY <2>3, <3>1, BaseSame DEF Moves
    <3>3. Frame(v, w)
      BY <2>3, <3>1 DEF Looking, Moves, Elsewhere, Frame
    <3> QED
      BY <2>1, <2>2, <2>3, <2>5, <3>1, <3>2, <3>3 DEF Looking, Moves, Results
  <2> QED
    BY <2>4, <2>5
<1> QED
  BY <1>1, <1>2

LEMMA SearchLooks ==
  ASSUME NEW v, NEW X, Base(v, X), v.res = "ok", NEW scl \in Clusters \cup {1}
  PROVE  Looking(v, X, Search(v, scl))
<1> DEFINE a == From(v, scl)
           P(h) == h = [i \in 0..FatEntries |-> IF i = 0 THEN a ELSE Probe(h[i - 1])]
           h == CHOOSE x : P(x)
<1>1. Search(v, scl) = h[FatEntries]
  BY DEF Search, Turns
<1>2. FatEntries \in Nat
  BY FatNumbers DEF FatEntries
<1>3. /\ Shape(a) /\ a.win = v.win /\ a.disk = v.disk /\ a.io = v.io /\ Frame(v, a)
      /\ a.res = "ok" /\ a.at = scl /\ a.val = 0
  BY DEF From, Base, Shape, Fields, Frame
<1> HIDE DEF a
<1>4. Base(a, X) /\ View(a) = View(v)
  BY <1>3, BaseSame
<1>5. scl \in 1..LastCluster
  BY FatNumbers DEF Clusters
<1>6. Looking(v, X, a)
  BY <1>3, <1>4, <1>5 DEF Looking, Results
<1>L1. PICK g : Runs("probe", "", a, FatEntries, g)
  BY RunExists, <1>2
<1>L2. P(g)
  BY <1>L1 DEF Runs, Turn
<1> HIDE DEF P
<1>L3. P(h)
  BY <1>L2, Zenon
<1> HIDE DEF h
<1>L4. \A i \in 0..FatEntries : h[i] = IF i = 0 THEN a ELSE Probe(h[i - 1])
  BY <1>L3 DEF P
<1> DEFINE T == {i \in 0..FatEntries : Looking(v, X, h[i])}
<1>L5. 0 \in T
  <2>1. h[0] = a /\ 0 \in 0..FatEntries
    BY <1>L4, <1>2
  <2>2. Looking(v, X, h[0])
    BY <1>6, <2>1
  <2> QED
    BY <2>1, <2>2
<1>L6. ASSUME NEW i \in 0..FatEntries - 1, i \in T PROVE i + 1 \in T
  <2>1. i + 1 \in 0..FatEntries /\ h[i + 1] = Probe(h[i])
    <3>1. i + 1 \in 0..FatEntries /\ i + 1 # 0 /\ (i + 1) - 1 = i
      BY <1>2
    <3> QED
      BY <1>L4, <3>1
  <2>2. Looking(v, X, h[i])
    BY <1>L6
  <2>3. Looking(v, X, Probe(h[i]))
    BY <2>2, ProbeLooks
  <2> QED
    BY <2>1, <2>3
<1> HIDE DEF T
<1>L7. Looking(v, X, h[FatEntries])
  <2>1. FatEntries \in T
    BY <1>L5, <1>L6, Upwards, <1>2
  <2> QED
    BY <2>1 DEF T
<1> QED
  BY <1>1, <1>L7

\* Nothing is freed, and the table grows by free clusters.
Grows(d, e) ==
  \A c \in Clusters : /\ FatOf(d, c) # 0 => FatOf(e, c) # 0
                      /\ c \in Tab(e) /\ c \notin Tab(d) => FatOf(d, c) = 0

LEMMA GrowsSelf == ASSUME NEW d PROVE Grows(d, d)
BY DEF Grows

LEMMA GrowsOn == ASSUME NEW d, NEW e, NEW f, Grows(d, e), Grows(e, f) PROVE Grows(d, f)
BY DEF Grows

\* A chain is begun with c = 0, or the one that c is in goes on.
Created(v, w, X, c) ==
  /\ Links(v, w, X, {}) /\ w.res \in Results /\ Grows(View(v), View(w)) /\ SameData(View(v), View(w))
  /\ w.res # "ok" \/ w.val = 0 => Tab(View(w)) = Tab(View(v))
  /\ w.res = "ok" /\ w.val # 0 =>
       /\ w.val \in Clusters
       /\ Tab(View(w)) \subseteq Tab(View(v)) \cup (IF c \in Tab(View(v)) THEN {w.val} ELSE {})
       /\ \A h : c \in Reach(View(v), h) => w.val \in Reach(View(w), h)
       /\ FatOf(View(v), c) \notin Clusters \/ c = 0 =>
            FatOf(View(v), w.val) = 0 /\ FatOf(View(w), w.val) = EOC
       /\ c = 0 => Leads(View(w), w.val) /\ w.val # Root /\ Unclaimed(View(w), w.val, X)

\* A link can be put on c.
Linkable(d, c) == c \in Tab(d) /\ IsDir(d, c) => EntryIn(d, c).st # "unused"

LEMMA AllocateCreates ==
  ASSUME NEW v, NEW X, Base(v, X), v.res = "ok", NEW scl \in Clusters \cup {1},
         NEW c, c = 0 \/ (c \in Clusters /\ FatOf(View(v), c) = EOC /\ Linkable(View(v), c))
  PROVE  Created(v, Allocate(v, c, scl), X, c)
<1> DEFINE f == Search(v, scl)
           new == f.val
           a == PutFat(f, new, EOC)
           b == PutFat(a, c, new)
           l == IF c = 0 THEN a ELSE b
           z == [l EXCEPT !.fs.last = new]
           q == CountFree(z, -1)
           w == Answer(q, new)
           A == Allocate(v, c, scl)
<1>1. Looking(v, X, f)
  BY SearchLooks
<1>2. A = IF f.res # "ok" \/ f.val = 0 THEN f
          ELSE IF a.res # "ok" THEN a ELSE IF l.res # "ok" THEN l ELSE w
  BY DEF Allocate, Then
<1> HIDE DEF f
<1>3. Sane(View(v), X) /\ View(f) = View(v) /\ Base(f, X) /\ Frame(v, f) /\ f.res \in Results
  BY <1>1, BaseParts DEF Looking
<1>4. CASE f.res # "ok" \/ f.val = 0
  <2>1. Links(v, f, X, {})
    BY <1>3, KeepingSelf, SameEntriesSame DEF Links
  <2> QED
    BY <1>2, <1>3, <1>4, <2>1, GrowsSelf DEF Created, SameData
<1>5. CASE f.res = "ok" /\ f.val # 0
  <2>1. new \in Clusters /\ FatOf(View(v), new) = 0 /\ f.win.sect = FatSect(new)
    BY <1>1, <1>5 DEF Looking
  <2>2. /\ Elsewhere(f, a) /\ a.res = "ok" /\ a.win.sect = FatSect(new)
        /\ Refat(View(f), View(a), new, EOC)
        /\ Sane(View(a), X) /\ Tab(View(f)) \subseteq Tab(View(a)) => Base(a, X)
    BY <1>3, <1>5, <2>1, PutFatHere
  <2> HIDE DEF a, new
  <2>3. /\ Sane(View(a), X) /\ Tab(View(a)) = Tab(View(v)) /\ SameEntries(View(v), View(a))
        /\ Keeping(View(v), View(a), {}) /\ Leads(View(a), new) /\ new # Root
        /\ Unclaimed(View(a), new, X) /\ new \notin Tab(View(a))
    BY <1>3, <2>1, <2>2, TakeKeeps
  <2>4. Base(a, X)
    BY <1>3, <2>2, <2>3
  <2>5. \A x \in Clusters : FatOf(View(a), x) = IF x = new THEN EOC ELSE FatOf(View(v), x)
    BY <1>3, <2>2 DEF Refat, Sets
  <2>6. Links(v, a, X, {})
    BY <1>3, <2>2, <2>3, <2>4 DEF Links, Frame, Elsewhere
  <2>7. Grows(View(v), View(a)) /\ SameData(View(v), View(a))
    BY <1>3, <2>2, <2>3, <2>5, ClustersDiffer DEF Grows, Refat
  <2> DEFINE Linked(x) ==
               /\ Links(v, x, X, {}) /\ Grows(View(v), View(x)) /\ SameData(View(v), View(x))
               /\ Tab(View(x)) \subseteq Tab(View(v)) \cup (IF c \in Tab(View(v)) THEN {new} ELSE {})
               /\ \A h : c \in Reach(View(v), h) => new \in Reach(View(x), h)
               /\ FatOf(View(x), new) = EOC
               /\ c = 0 => Leads(View(x), new) /\ new # Root /\ Unclaimed(View(x), new, X)
  <2>8. /\ l.res \in Results
        /\ l.res # "ok" => /\ Links(v, l, X, {}) /\ Grows(View(v), View(l)) /\ SameData(View(v), View(l))
                           /\ Tab(View(l)) = Tab(View(v))
        /\ l.res = "ok" => Linked(l)
    <3>1. CASE c = 0
      <4>1. l = a
        BY <3>1
      <4>2. \A h : c \notin Reach(View(v), h)
        BY <3>1, ReachIn, ClustersDiffer
      <4> QED
        BY <2>1, <2>2, <2>3, <2>5, <2>6, <2>7, <4>1, <4>2 DEF Results
    <3>2. CASE c # 0
      <4>1. l = b /\ c \in Clusters /\ FatOf(View(v), c) = EOC /\ c # new
        BY <2>1, <3>2, ClustersDiffer
      <4>2. /\ Elsewhere(a, b) /\ b.val = a.val /\ b.res \in {"ok", "disk"}
            /\ b.res # "ok" => Base(b, X) /\ View(b) = View(a)
            /\ b.res = "ok" =>
                 /\ Refat(View(a), View(b), c, new)
                 /\ Sane(View(b), X) /\ Tab(View(a)) \subseteq Tab(View(b)) => Base(b, X)
        BY <2>1, <2>2, <2>4, <4>1, PutFatThere
      <4> HIDE DEF b
      <4>3. CASE b.res # "ok"
        <5>1. Moves(a, b, X)
          BY <4>2, <4>3 DEF Moves
        <5>2. Links(v, b, X, {})
          BY <2>6, <5>1, LinksMoves
        <5> QED
          BY <2>3, <2>7, <4>1, <4>2, <4>3, <5>2 DEF Results
      <4>4. CASE b.res = "ok"
        <5>1. FatOf(View(a), c) = EOC /\ FatOf(View(a), new) = EOC
          BY <2>1, <2>5, <4>1
        <5>2. c \in Tab(View(a)) /\ IsDir(View(a), c) => EntryIn(View(a), c).st # "unused"
          <6>1. View(a)[ClustSect(c)] = View(v)[ClustSect(c)]
            BY <1>3, <2>2, <4>1 DEF Refat, SameData
          <6> QED
            BY <2>3, <3>2, <6>1 DEF Linkable, IsDir, EntryIn
        <5>3. /\ Sane(View(b), X) /\ SameEntries(View(a), View(b)) /\ Keeping(View(a), View(b), {new})
              /\ Tab(View(b)) = Tab(View(a)) \cup (IF c \in Tab(View(a)) THEN {new} ELSE {})
              /\ \A h : c \in Reach(View(a), h) => new \in Reach(View(b), h)
          BY <2>3, <4>1, <4>2, <4>4, <5>1, <5>2, JoinKeeps
        <5>4. Base(b, X)
          BY <4>2, <4>4, <5>3
        <5>5. SameEntries(View(v), View(b))
          BY <2>3, <5>3, SameEntriesOn
        <5>6. ~Leads(View(v), new)
          BY <2>1 DEF Leads
        <5>7. Keeping(View(v), View(b), {})
          BY <2>3, <5>3, <5>6, KeepingOn
        <5>8. Links(v, b, X, {})
          BY <2>6, <4>2, <5>4, <5>5, <5>7 DEF Links, Frame, Elsewhere
        <5>9. \A x \in Clusters : FatOf(View(b), x) = IF x = c THEN new ELSE FatOf(View(a), x)
          BY <4>2, <4>4 DEF Refat, Sets
        <5>10. Grows(View(v), View(b))
          BY <2>1, <2>3, <2>5, <5>3, <5>9, ClustersDiffer DEF Grows
        <5>13. SameData(View(v), View(b))
          BY <2>7, <4>2, <4>4 DEF Refat, SameData
        <5>11. FatOf(View(b), new) = EOC
          BY <2>1, <4>1, <5>1, <5>9
        <5>12. \A h : c \in Reach(View(v), h) => new \in Reach(View(b), h)
          <6>1. ASSUME NEW h, c \in Reach(View(v), h) PROVE c \in Reach(View(a), h)
            <7>1. Sets(View(v), View(a), new, EOC)
              BY <1>3, <2>2 DEF Refat
            <7> QED
              BY <2>1, <6>1, <7>1, ReachGrows, ClustersDiffer
          <6> QED
            BY <5>3, <6>1
        <5> QED
          BY <2>3, <3>2, <4>1, <4>2, <5>3, <5>8, <5>10, <5>11, <5>12, <5>13 DEF Results
      <4> QED
        BY <4>3, <4>4
    <3> QED
      BY <3>1, <3>2
  <2> HIDE DEF l
  <2>9. CASE l.res # "ok"
    <3>1. A = l
      BY <1>2, <1>5, <2>2, <2>9
    <3> QED
      BY <2>8, <2>9, <3>1 DEF Created
  <2>10. CASE l.res = "ok"
    <3>1. A = w
      BY <1>2, <1>5, <2>2, <2>10 DEF new
    <3>2. Links(v, l, X, {}) /\ Base(l, X)
      BY <2>8, <2>10 DEF Links
    <3>3. /\ Shape(z) /\ z.win = l.win /\ z.disk = l.disk /\ z.io = l.io /\ Frame(l, z) /\ z.res = "ok"
      BY <2>10, <3>2 DEF Base, Shape, Fields, Frame
    <3> HIDE DEF z
    <3>4. Base(z, X) /\ View(z) = View(l)
      BY <3>2, <3>3, BaseSame
    <3>5. Base(q, X) /\ Frame(z, q) /\ View(q) = View(z) /\ q.res = z.res
      BY <3>4, CountFreeBase
    <3> HIDE DEF q
    <3>6. Moves(q, w, X) /\ w.res = q.res /\ w.val = new
      BY <3>5, BaseAnswer
    <3> HIDE DEF w
    <3>7. Base(w, X) /\ View(w) = View(l) /\ w.res = "ok"
      BY <3>3, <3>4, <3>5, <3>6 DEF Moves
    <3>8. Frame(v, w)
      BY <3>2, <3>3, <3>5, <3>6 DEF Links, Moves, Elsewhere, Frame
    <3>9. Links(v, w, X, {})
      BY <3>2, <3>7, <3>8 DEF Links
    <3>10. w.val # 0
      BY <2>1, <3>6, ClustersDiffer
    <3> QED
      BY <2>1, <2>8, <2>10, <3>1, <3>6, <3>7, <3>9, <3>10 DEF Created, Results
  <2> QED
    BY <2>9, <2>10
<1> QED
  BY <1>3, <1>4, <1>5

LEMMA CreateChainCreates ==
  ASSUME NEW v, NEW X, Base(v, X), v.res = "ok", NEW c, Linkable(View(v), c)
  PROVE  Created(v, CreateChain(v, c), X, c)
<1>1. CASE c = 0
  <2> DEFINE scl == IF v.fs.last \in Clusters THEN v.fs.last ELSE 1
  <2>1. CreateChain(v, c) = Allocate(v, 0, scl) /\ scl \in Clusters \cup {1}
    BY <1>1 DEF CreateChain
  <2> HIDE DEF scl
  <2> QED
    BY <1>1, <2>1, AllocateCreates
<1>2. CASE c # 0
  <2> DEFINE g == GetFat(v, c)
             w == Allocate(g, c, c)
             A == CreateChain(v, c)
  <2>1. /\ Moves(v, g, X) /\ g.res \in {"ok", "disk"}
        /\ c \notin Clusters => g.res = "ok" /\ g.val = 1
        /\ c \in Clusters /\ g.res = "ok" => g.val = FatOf(View(v), c) /\ g.val \in {0, EOC} \cup Clusters
    BY GetFatMoves
  <2>2. A = IF g.res # "ok" THEN g ELSE IF g.val < 2 THEN Fail(g, "int")
            ELSE IF g.val \in Clusters THEN g ELSE w
    BY <1>2 DEF CreateChain, Then
  <2> HIDE DEF g
  <2>3. ASSUME NEW x, Moves(v, x, X), x.res \in Results,
               x.res = "ok" => x.val # 0 /\ x.val \in Clusters /\ x.val = FatOf(View(v), c) /\ c \in Clusters
        PROVE  Created(v, x, X, c)
    <3>1. Links(v, x, X, {}) /\ View(x) = View(v)
      BY <2>3, MovesLinks DEF Moves
    <3>2. x.res = "ok" => \A h : c \in Reach(View(v), h) => x.val \in Reach(View(x), h)
      BY <2>3, <3>1, ReachFollows DEF Follows
    <3> QED
      BY <1>2, <2>3, <3>1, <3>2, GrowsSelf DEF Created, SameData
  <2>4. CASE g.res # "ok"
    BY <2>1, <2>2, <2>3, <2>4 DEF Results
  <2>5. CASE g.res = "ok" /\ g.val < 2
    <3>1. A = Fail(g, "int")
      BY <2>2, <2>5
    <3>2. Moves(v, A, X) /\ A.res = "int"
      BY <2>1, <3>1, BaseFail, MovesOn DEF Moves
    <3> QED
      BY <2>3, <3>2 DEF Results
  <2>6. CASE g.res = "ok" /\ g.val \in Clusters
    <3>1. A = g /\ c \in Clusters /\ g.val # 0
      BY <2>1, <2>2, <2>6, ClustersDiffer
    <3> QED
      BY <2>1, <2>3, <2>6, <3>1 DEF Results
  <2>7. CASE g.res = "ok" /\ ~(g.val < 2) /\ g.val \notin Clusters
    <3>1. A = w
      BY <2>2, <2>7
    <3>2. c \in Clusters /\ g.val = EOC
      BY <2>1, <2>7
    <3>3. Base(g, X) /\ View(g) = View(v)
      BY <2>1 DEF Moves
    <3>4. Created(g, w, X, c)
      BY <2>1, <2>7, <3>2, <3>3, AllocateCreates
    <3> HIDE DEF w
    <3>5. Frame(v, w)
      BY <2>1, <3>4 DEF Created, Links, Frame, Moves, Elsewhere
    <3> QED
      BY <3>1, <3>3, <3>4, <3>5 DEF Created, Links
  <2> QED
    BY <2>4, <2>5, <2>6, <2>7
<1> QED
  BY <1>1, <1>2

-----------------------------------------------------------------------------
(* The operators on the table.                                             *)

NotTorn(d) == \A c \in Tab(d) : IsDir(d, c)
NoName(d, n) == \A t \in Clusters : UsedIn(d, t) => EntryIn(d, t).name # n
\* The window is on the entry of n.
At(v, t, n) ==
  /\ t \in Clusters /\ v.win.sect = ClustSect(t)
  /\ UsedIn(View(v), t) /\ EntryIn(View(v), t).name = n

LEMMA EntryShown ==
  ASSUME NEW v, NEW X, Base(v, X), NEW t \in Tab(View(v)), v.win.sect = ClustSect(t)
  PROVE  v.win.buf = View(v)[ClustSect(t)] /\ EntryAt(v) = EntryIn(View(v), t)
BY BaseParts DEF EntryAt, EntryIn

\* A record that differs in what is not the card.
LEMMA BesideBase ==
  ASSUME NEW v, NEW X, Base(v, X), NEW w, Shape(w), w.win = v.win, w.disk = v.disk, w.io = v.io,
         Frame(v, w)
  PROVE  Base(w, X) /\ View(w) = View(v) /\ \A gone : Links(v, w, X, gone)
BY BaseSame, KeepingSelf, SameEntriesSame DEF Links

\* A search for n in the table has come to x.
Sought(v, n, X, x) ==
  /\ Base(x, X) /\ Frame(v, x) /\ View(x) = View(v) /\ x.res \in Results \cup {"nofile"}
  /\ x.res = "ok" /\ x.at # 0 =>
       /\ x.at \in Tab(View(v))
       /\ \A t \in Clusters : UsedIn(View(v), t) /\ EntryIn(View(v), t).name = n =>
                                t \in Reach(View(v), x.at)
  /\ x.res = "ok" /\ x.at = 0 => At(x, x.val, n)
  /\ x.res = "nofile" => NoName(View(v), n)

LEMMA FindStepSeeks ==
  ASSUME NEW v, NEW n, NEW X, NotTorn(View(v)), NEW x, Sought(v, n, X, x)
  PROVE  Sought(v, n, X, FindStep(x, n))
<1>1. CASE x.res # "ok" \/ x.at = 0
  BY <1>1 DEF FindStep
<1>2. CASE x.res = "ok" /\ x.at # 0
  <2> DEFINE d == View(v)
             t == x.at
             w == MoveWindow(x, ClustSect(t))
             e == EntryAt(w)
             found == [w EXCEPT !.val = w.at, !.at = 0]
             g == GetFat(w, w.at)
             next == [g EXCEPT !.at = g.val]
             A == FindStep(x, n)
  <2>1. /\ t \in Tab(d) /\ t \in Clusters /\ View(x) = d /\ Base(x, X) /\ Sane(d, X)
        /\ \A u \in Clusters : UsedIn(d, u) /\ EntryIn(d, u).name = n => u \in Reach(d, t)
    BY <1>2, ReachIn, BaseParts DEF Sought, Tab
  <2>2. /\ Moves(x, w, X) /\ w.res \in {"ok", "disk"} /\ (w.res = "ok" => w.win.sect = ClustSect(t))
    BY <1>2, <2>1, MoveWindowMoves
  <2>3. A = IF w.res # "ok" THEN w
            ELSE IF e.st = "unused" THEN Fail(w, "nofile")
            ELSE IF e.st = "used" /\ e.name = n THEN found
            ELSE IF g.res # "ok" THEN g
            ELSE IF g.val < 2 THEN Fail(g, "int")
            ELSE IF g.val \notin Clusters THEN Fail(g, "nofile") ELSE next
    BY <1>2 DEF FindStep, Then
  <2>4. w.at = t
    BY <2>2 DEF Moves, Elsewhere
  <2> HIDE DEF w
  <2>5. CASE w.res # "ok"
    BY <2>1, <2>2, <2>3, <2>5 DEF Sought, Moves, Elsewhere, Frame, Results
  <2>6. CASE w.res = "ok"
    <3>1. Base(w, X) /\ View(w) = d /\ Frame(v, w) /\ e = EntryIn(d, t) /\ IsDir(d, t)
      BY <2>1, <2>2, <2>6, EntryShown DEF Moves, Sought, Frame, Elsewhere, NotTorn
    <3>2. Reach(d, t) \subseteq {t} \cup Reach(d, FatOf(d, t))
      BY <2>1, ReachNext
    <3> HIDE DEF e
    <3>3. ASSUME NEW y, Moves(w, y, X), y.res = "nofile", FatOf(d, t) \notin Clusters,
                 ~(e.st = "used" /\ e.name = n)
          PROVE  Sought(v, n, X, y)
      <4>1. NoName(d, n)
        BY <2>1, <3>1, <3>2, <3>3, ReachNone DEF NoName, UsedIn
      <4> QED
        BY <3>1, <3>3, <4>1 DEF Sought, Moves, Elsewhere, Frame
    <3>4. CASE e.st = "unused"
      <4>1. A = Fail(w, "nofile")
        BY <2>3, <2>6, <3>4
      <4>2. Moves(w, A, X) /\ A.res = "nofile"
        BY <3>1, <4>1, BaseFail
      <4>3. FatOf(d, t) \notin Clusters
        BY <2>1, <3>1, <3>4 DEF Sane, DirOK, UnusedLast
      <4> QED
        BY <3>3, <3>4, <4>2, <4>3
    <3>5. CASE e.st = "used" /\ e.name = n
      <4>1. A = found
        BY <2>3, <2>6, <3>5
      <4>2. /\ Shape(found) /\ found.win = w.win /\ found.disk = w.disk /\ found.io = w.io
            /\ Frame(w, found) /\ found.res = "ok" /\ found.at = 0 /\ found.val = t
        BY <2>4, <2>6, <3>1 DEF Base, Shape, Fields, Frame
      <4> HIDE DEF found
      <4>3. Base(found, X) /\ View(found) = d
        BY <3>1, <4>2, BaseSame
      <4>4. At(found, t, n)
        BY <2>1, <2>2, <2>6, <3>1, <3>5, <4>2, <4>3 DEF At, UsedIn
      <4>5. Frame(v, found)
        BY <3>1, <4>2, FrameOn
      <4> QED
        BY <4>1, <4>2, <4>3, <4>4, <4>5 DEF Sought, Results
    <3>6. CASE ~(e.st = "unused") /\ ~(e.st = "used" /\ e.name = n)
      <4>1. /\ Moves(w, g, X) /\ g.res \in {"ok", "disk"}
            /\ g.res = "ok" => g.val = FatOf(d, t)
        BY <2>1, <2>4, <2>6, <3>1, GetFatMoves
      <4> HIDE DEF g
      <4>2. ASSUME NEW y, Moves(w, y, X), y.res \in {"disk", "int"} PROVE Sought(v, n, X, y)
        BY <3>1, <4>2 DEF Sought, Moves, Elsewhere, Frame, Results
      <4>3. CASE g.res # "ok"
        BY <2>3, <2>6, <3>6, <4>1, <4>2, <4>3
      <4>4. CASE g.res = "ok" /\ g.val < 2
        <5>1. A = Fail(g, "int")
          BY <2>3, <2>6, <3>6, <4>4
        <5>2. Moves(g, A, X) /\ A.res = "int"
          BY <4>1, <5>1, BaseFail DEF Moves
        <5> QED
          BY <4>1, <4>2, <5>2, MovesOn
      <4>5. CASE g.res = "ok" /\ ~(g.val < 2) /\ g.val \notin Clusters
        <5>1. A = Fail(g, "nofile")
          BY <2>3, <2>6, <3>6, <4>5
        <5>2. Moves(g, A, X) /\ A.res = "nofile"
          BY <4>1, <5>1, BaseFail DEF Moves
        <5> QED
          BY <3>3, <3>6, <4>1, <4>5, <5>2, MovesOn
      <4>6. CASE g.res = "ok" /\ ~(g.val < 2) /\ g.val \in Clusters
        <5>1. A = next
          BY <2>3, <2>6, <3>6, <4>6
        <5>2. /\ Shape(next) /\ next.win = g.win /\ next.disk = g.disk /\ next.io = g.io
              /\ Frame(g, next) /\ next.res = "ok" /\ next.at = FatOf(d, t)
          BY <4>1, <4>6 DEF Moves, Base, Shape, Fields, Frame
        <5> HIDE DEF next
        <5>3. Base(next, X) /\ View(next) = d
          BY <3>1, <4>1, <5>2, BaseSame DEF Moves
        <5>4. Frame(v, next)
          BY <3>1, <4>1, <5>2 DEF Moves, Elsewhere, Frame
        <5>5. next.at \in Tab(d) /\ next.at # 0
          BY <2>1, <4>1, <4>6, <5>2, ReachFollows, ClustersDiffer DEF Tab, Follows
        <5>6. \A u \in Clusters : UsedIn(d, u) /\ EntryIn(d, u).name = n => u \in Reach(d, next.at)
          BY <2>1, <3>1, <3>2, <3>6, <5>2 DEF UsedIn
        <5> QED
          BY <5>1, <5>2, <5>3, <5>4, <5>5, <5>6 DEF Sought, Results
      <4> QED
        BY <4>3, <4>4, <4>5, <4>6
    <3> QED
      BY <3>4, <3>5, <3>6
  <2> QED
    BY <2>5, <2>6
<1> QED
  BY <1>1, <1>2

Results4 == Results \cup {"nofile", "endless"}
LEMMA FindSeeks ==
  ASSUME NEW v, NEW n, NEW X, Base(v, X), v.res = "ok", NotTorn(View(v))
  PROVE  LET w == Find(v, n)
         IN  /\ Base(w, X) /\ Frame(v, w) /\ View(w) = View(v) /\ w.res \in Results4
             /\ w.res = "ok" => At(w, w.val, n)
             /\ w.res = "nofile" => NoName(View(v), n)
<1> DEFINE a == AtRoot(v)
           P(h) == h = [i \in 0..LastCluster |-> IF i = 0 THEN a ELSE FindStep(h[i - 1], n)]
           h == CHOOSE x : P(x)
           w == h[LastCluster]
<1>1. Find(v, n) = IF w.res = "ok" /\ w.at # 0 THEN Fail(w, "endless") ELSE w
  BY DEF Find, Walk, Turns
<1>2. /\ Shape(a) /\ a.win = v.win /\ a.disk = v.disk /\ a.io = v.io /\ Frame(v, a)
      /\ a.res = "ok" /\ a.at = Root
  BY DEF AtRoot, Base, Shape, Fields, Frame
<1> HIDE DEF a
<1>3. Base(a, X) /\ View(a) = View(v)
  BY <1>2, BaseSame
<1>4. Root \in Tab(View(v)) /\ Root # 0
  BY BaseParts, SaneParts, ClustersDiffer
<1>5. Sought(v, n, X, a)
  BY <1>2, <1>3, <1>4 DEF Sought, Results, UsedIn, Tab
<1>L1. PICK g : Runs("find", n, a, LastCluster, g)
  BY RunExists, FatNumbers
<1>L2. P(g)
  BY <1>L1 DEF Runs, Turn
<1> HIDE DEF P
<1>L3. P(h)
  BY <1>L2, Zenon
<1> HIDE DEF h
<1>L4. \A i \in 0..LastCluster : h[i] = IF i = 0 THEN a ELSE FindStep(h[i - 1], n)
  BY <1>L3 DEF P
<1> DEFINE T == {i \in 0..LastCluster : Sought(v, n, X, h[i])}
<1>L5. 0 \in T
  <2>1. h[0] = a /\ 0 \in 0..LastCluster
    BY <1>L4, FatNumbers
  <2>2. Sought(v, n, X, h[0])
    BY <1>5, <2>1
  <2> QED
    BY <2>1, <2>2
<1>L6. ASSUME NEW i \in 0..LastCluster - 1, i \in T PROVE i + 1 \in T
  <2>1. i + 1 \in 0..LastCluster /\ h[i + 1] = FindStep(h[i], n)
    <3>1. i + 1 \in 0..LastCluster /\ i + 1 # 0 /\ (i + 1) - 1 = i
      BY FatNumbers
    <3> QED
      BY <1>L4, <3>1
  <2>2. Sought(v, n, X, h[i])
    BY <1>L6
  <2>3. Sought(v, n, X, FindStep(h[i], n))
    BY <2>2, FindStepSeeks
  <2> QED
    BY <2>1, <2>3
<1> HIDE DEF T
<1>L7. Sought(v, n, X, h[LastCluster])
  <2>1. LastCluster \in T
    BY <1>L5, <1>L6, Upwards, FatNumbers
  <2> QED
    BY <2>1 DEF T
<1>6. Sought(v, n, X, w)
  BY <1>L7
<1> HIDE DEF w
<1>7. CASE w.res = "ok" /\ w.at # 0
  <2>1. Find(v, n) = Fail(w, "endless")
    BY <1>1, <1>7
  <2>2. Moves(w, Fail(w, "endless"), X) /\ Fail(w, "endless").res = "endless"
    BY <1>6, BaseFail DEF Sought
  <2> QED
    BY <1>6, <2>1, <2>2 DEF Sought, Moves, Elsewhere, Frame, Results4
<1>8. CASE ~(w.res = "ok" /\ w.at # 0)
  BY <1>1, <1>6, <1>8 DEF Sought, Results4
<1> QED
  BY <1>7, <1>8

\* The entries of the names that are not in Y are the same.
AlikeBut(d, e, Y) ==
  \A t \in Clusters :
    /\ UsedIn(d, t) /\ EntryIn(d, t).name \notin Y =>
         /\ UsedIn(e, t) /\ EntryIn(e, t).name = EntryIn(d, t).name
         /\ EntryIn(e, t).clust = EntryIn(d, t).clust
    /\ UsedIn(e, t) /\ EntryIn(e, t).name \notin Y =>
         /\ UsedIn(d, t) /\ EntryIn(e, t).name = EntryIn(d, t).name
         /\ EntryIn(e, t).clust = EntryIn(d, t).clust
Edits(v, w, X, Y, gone) ==
  /\ Base(w, X) /\ Frame(v, w)
  /\ AlikeBut(View(v), View(w), Y) /\ Keeping(View(v), View(w), gone)

LEMMA SameAlike == ASSUME NEW d, NEW e, SameEntries(d, e), NEW Y PROVE AlikeBut(d, e, Y)
BY DEF SameEntries, AlikeBut

LEMMA LinksEdits ==
  ASSUME NEW v, NEW w, NEW X, NEW gone, Links(v, w, X, gone), NEW Y PROVE Edits(v, w, X, Y, gone)
BY SameAlike DEF Links, Edits

LEMMA AlikeOn ==
  ASSUME NEW d, NEW e, NEW f, NEW Y, AlikeBut(d, e, Y), AlikeBut(e, f, Y) PROVE AlikeBut(d, f, Y)
BY DEF AlikeBut

LEMMA EditsOn ==
  ASSUME NEW u, NEW v, NEW w, NEW X, NEW X2, NEW Y, NEW A, NEW B, Edits(u, v, X, Y, A),
         Edits(v, w, X2, Y, B), NEW C, A \subseteq C, \A h : Leads(View(u), h) /\ h \notin C => h \notin B
  PROVE  Edits(u, w, X2, Y, C)
BY AlikeOn, KeepingOn, FrameOn DEF Edits

\* The entry of n is written at t.
LEMMA AlikeOne ==
  ASSUME NEW d, NEW e, NEW t \in Clusters, NEW Y,
         \A u \in Clusters : u # t => /\ UsedIn(e, u) <=> UsedIn(d, u)
                                      /\ EntryIn(e, u) = EntryIn(d, u),
         UsedIn(d, t) => EntryIn(d, t).name \in Y, UsedIn(e, t) => EntryIn(e, t).name \in Y
  PROVE  AlikeBut(d, e, Y)
BY DEF AlikeBut

LEMMA OverData ==
  ASSUME NEW d, DOMAIN d = Sectors, NEW c \in Clusters, NEW x
  PROVE  LET e == Over(d, ClustSect(c), x)
         IN  Redata(d, e, c) /\ e[ClustSect(c)] = x
<1> DEFINE e == Over(d, ClustSect(c), x)
<1>1. \A b \in Clusters : /\ FatSect(b) \in Sectors /\ ClustSect(b) \in Sectors
                          /\ ClustSect(c) # FatSect(b)
  BY SectorKinds DEF Sectors
<1>2. DOMAIN e = Sectors /\ \A r \in Sectors : e[r] = IF r = ClustSect(c) THEN x ELSE d[r]
  BY OverIs
<1> HIDE DEF e
<1>3. \A b \in Clusters : b # c => ClustSect(b) # ClustSect(c)
  BY ClustersDiffer
<1> QED
  BY <1>1, <1>2, <1>3 DEF Redata, e

LEMMA PutData ==
  ASSUME NEW v, NEW X, Base(v, X), NEW c \in Clusters, v.win.sect = ClustSect(c), NEW x
  PROVE  LET w == Put(v, x)
         IN  /\ Frame(v, w) /\ w.at = v.at /\ w.res = v.res /\ w.val = v.val /\ w.win.sect = ClustSect(c)
             /\ Redata(View(v), View(w), c) /\ View(w)[ClustSect(c)] = x /\ w.disk = v.disk
             /\ \A Y : Sane(View(w), Y) /\ Tab(View(v)) \subseteq Tab(View(w)) /\ X \subseteq Y => Base(w, Y)
<1> DEFINE w == Put(v, x)
<1>1. v.win.sect \in Sectors
  BY DEF Sectors
<1>2. /\ Elsewhere(v, w) /\ w.res = v.res /\ w.val = v.val /\ w.win.sect = v.win.sect
      /\ View(w) = Over(View(v), v.win.sect, x) /\ w.disk = v.disk
      /\ \A Y : Sane(View(w), Y) /\ Tab(View(v)) \subseteq Tab(View(w)) /\ X \subseteq Y => Base(w, Y)
  BY <1>1, PutIs
<1> HIDE DEF w
<1>3. Redata(View(v), View(w), c) /\ View(w)[ClustSect(c)] = x
  BY <1>2, OverData, BaseParts
<1> QED
  BY <1>2, <1>3 DEF w, Elsewhere, Frame

LEMMA ClearClusterClears ==
  ASSUME NEW v, NEW X, Base(v, X), v.res = "ok", NEW c \in Clusters, ~UsedIn(View(v), c),
         c \in Tab(View(v)) => FatOf(View(v), c) \notin Clusters
  PROVE  LET w == ClearCluster(v, c)
         IN  /\ Links(v, w, X, {}) /\ Tab(View(w)) = Tab(View(v)) /\ w.res \in {"ok", "disk"}
             /\ SameFat(View(v), View(w))
             /\ w.res = "ok" => IsDir(View(w), c)
                                /\ \A b \in Clusters : IsDir(View(v), b) => IsDir(View(w), b)
<1> DEFINE u == SyncWindow(v)
           z == [u EXCEPT !.win = [sect |-> ClustSect(c), buf |-> DirOf(Unused), dirty |-> TRUE]]
           w == SyncWindow(z)
           A == ClearCluster(v, c)
<1>1. A = IF u.res = "ok" THEN w ELSE u
  BY DEF ClearCluster, Then
<1>2. Moves(v, u, X) /\ u.res \in {"ok", "disk"} /\ (u.res = "ok" => ~u.win.dirty)
  BY SyncWindowMoves
<1> HIDE DEF u
<1>3. CASE u.res # "ok"
  BY <1>1, <1>2, <1>3, MovesLinks DEF SameFat, Moves
<1>4. CASE u.res = "ok"
  <2> DEFINE d == View(v)
             e == View(z)
  <2>1. /\ DOMAIN z = Fields /\ z.disk = u.disk /\ z.io = u.io /\ z.bad = u.bad /\ Elsewhere(u, z)
        /\ z.res = "ok" /\ z.win = [sect |-> ClustSect(c), buf |-> DirOf(Unused), dirty |-> TRUE]
    BY <1>2, <1>4 DEF Moves, Base, Shape, Fields, Elsewhere
  <2> HIDE DEF z
  <2>2. z.win.sect = ClustSect(c) /\ z.win.dirty = TRUE /\ z.win.buf = DirOf(Unused)
        /\ DOMAIN z.win = {"sect", "buf", "dirty"}
    BY <2>1
  <2>3. Shape(z)
    BY <1>2, <2>1, <2>2 DEF Moves, Base, Shape, Elsewhere
  <2>4. u.disk = d /\ Sane(d, X)
    BY <1>2, <1>4, BaseParts DEF View, Moves
  <2>5. e = Over(d, ClustSect(c), DirOf(Unused))
    BY <2>1, <2>2, <2>4 DEF View
  <2>6. Redata(d, e, c) /\ e[ClustSect(c)] = DirOf(Unused)
    BY <2>4, <2>5, OverData DEF Sane
  <2> HIDE DEF e, d
  <2>7. /\ Sane(e, X) /\ SameFat(d, e) /\ Tab(e) = Tab(d) /\ Keeping(d, e, {}) /\ SameEntries(d, e)
    BY <2>4, <2>6, DataKeeps DEF d
  <2>8. Base(z, X)
    <3>1. Cards(z, X)
      BY <1>2, <2>1, <2>4, <2>7 DEF Cards, Base, Moves, e
    <3>2. ClustSect(c) \in Sectors
      BY DEF Sectors
    <3> QED
      BY <2>2, <2>3, <2>6, <3>1, <3>2 DEF Base, Clean, e
  <2>9. Moves(z, w, X) /\ w.res \in {"ok", "disk"}
    BY <2>1, <2>8, SyncWindowMoves
  <2> HIDE DEF w
  <2>10. View(w) = e /\ Frame(v, w) /\ Base(w, X)
    BY <1>2, <2>1, <2>9 DEF Moves, Elsewhere, Frame, e
  <2>11. IsDir(e, c) /\ \A b \in Clusters : IsDir(d, b) => IsDir(e, b)
    BY <2>6 DEF IsDir, Redata, DirOf
  <2> QED
    BY <1>1, <1>4, <2>7, <2>9, <2>10, <2>11 DEF Links, d
<1> QED
  BY <1>3, <1>4

LEMMA StretchGrows ==
  ASSUME NEW v, NEW X, Base(v, X), v.res = "ok", NotTorn(View(v)), v.at \in Tab(View(v)),
         FatOf(View(v), v.at) \notin Clusters, EntryIn(View(v), v.at).st = "used"
  PROVE  LET w == Stretch(v)
         IN  /\ Links(v, w, X, {}) /\ Grows(View(v), View(w)) /\ w.res \in Results \cup {"denied"}
             /\ w.res = "ok" => NotTorn(View(w)) /\ w.at \in Tab(View(w))
<1> DEFINE c == v.at
           a == CreateChain(v, c)
           z == ClearCluster(a, a.val)
           y == [z EXCEPT !.at = a.val]
           A == Stretch(v)
<1>1. Created(v, a, X, c)
  BY CreateChainCreates DEF Linkable
<1>2. A = IF a.res # "ok" THEN a ELSE IF a.val = 0 THEN Fail(a, "denied")
          ELSE IF z.res = "ok" THEN y ELSE z
  BY DEF Stretch, Then
<1> HIDE DEF a
<1>3. Links(v, a, X, {}) /\ Grows(View(v), View(a)) /\ a.res \in Results
  BY <1>1 DEF Created
<1>4. CASE a.res # "ok"
  BY <1>2, <1>3, <1>4
<1>5. CASE a.res = "ok" /\ a.val = 0
  <2>1. A = Fail(a, "denied")
    BY <1>2, <1>5
  <2>2. Moves(a, A, X) /\ A.res = "denied"
    BY <1>3, <2>1, BaseFail DEF Links
  <2> HIDE DEF A
  <2>3. Links(v, A, X, {}) /\ View(A) = View(a)
    BY <1>3, <2>2, LinksMoves DEF Moves
  <2> QED
    BY <1>3, <2>2, <2>3 DEF A
<1>6. CASE a.res = "ok" /\ a.val # 0
  <2> DEFINE new == a.val
  <2>1. /\ new \in Clusters /\ Tab(View(a)) \subseteq Tab(View(v)) \cup {new} /\ new \in Tab(View(a))
        /\ FatOf(View(v), new) = 0 /\ FatOf(View(a), new) = EOC /\ SameData(View(v), View(a))
    BY <1>1, <1>6 DEF Created, Tab
  <2>2. ~UsedIn(View(a), new)
    <3>1. new \notin Tab(View(v))
      BY <2>1, BaseParts, SaneParts
    <3> QED
      BY <1>3, <2>1, <3>1 DEF Links, SameEntries, UsedIn
  <2>3. Base(a, X)
    BY <1>3 DEF Links
  <2>4. /\ Links(a, z, X, {}) /\ Tab(View(z)) = Tab(View(a)) /\ z.res \in {"ok", "disk"}
        /\ SameFat(View(a), View(z))
        /\ z.res = "ok" => IsDir(View(z), new)
                           /\ \A b \in Clusters : IsDir(View(a), b) => IsDir(View(z), b)
    BY <1>6, <2>1, <2>2, <2>3, ClustersDiffer, ClearClusterClears
  <2> HIDE DEF z
  <2>5. Links(v, z, X, {}) /\ Grows(View(v), View(z))
    <3>1. Keeping(View(v), View(z), {})
      BY <1>3, <2>4, KeepingOn DEF Links
    <3>2. SameEntries(View(v), View(z))
      BY <1>3, <2>4, SameEntriesOn DEF Links
    <3>3. Links(v, z, X, {})
      BY <1>3, <2>4, <3>1, <3>2, FrameOn DEF Links
    <3> QED
      BY <1>3, <2>4, <3>3 DEF Grows, SameFat
  <2>6. CASE z.res # "ok"
    BY <1>2, <1>6, <2>4, <2>5, <2>6 DEF Results
  <2>7. CASE z.res = "ok"
    <3>1. A = y
      BY <1>2, <1>6, <2>7
    <3>2. /\ Shape(y) /\ y.win = z.win /\ y.disk = z.disk /\ y.io = z.io /\ Frame(z, y)
          /\ y.res = "ok" /\ y.at = new
      BY <2>4, <2>7 DEF Links, Base, Shape, Fields, Frame
    <3> HIDE DEF y
    <3>3. Base(y, X) /\ View(y) = View(z)
      BY <2>4, <3>2, BesideBase DEF Links
    <3>4. Links(v, y, X, {})
      BY <2>5, <3>2, <3>3, FrameOn DEF Links
    <3>5. NotTorn(View(z))
      <4>1. ASSUME NEW b \in Tab(View(z)) PROVE IsDir(View(z), b)
        <5>1. b = new \/ b \in Tab(View(v))
          BY <2>1, <2>4
        <5>2. b \in Clusters
          BY ReachIn DEF Tab
        <5>3. b \in Tab(View(v)) => IsDir(View(a), b)
          BY <2>1, <5>2 DEF NotTorn, IsDir, SameData
        <5> QED
          BY <2>4, <2>7, <5>1, <5>2, <5>3
      <4> QED
        BY <4>1 DEF NotTorn
    <3> QED
      BY <2>1, <2>4, <2>5, <3>1, <3>2, <3>3, <3>4, <3>5 DEF Results
  <2> QED
    BY <2>6, <2>7
<1> QED
  BY <1>4, <1>5, <1>6

\* A place for an entry: the search has come to x.
Placing(v, X, x) ==
  /\ Links(v, x, X, {}) /\ Grows(View(v), View(x)) /\ x.res \in Results \cup {"denied"}
  /\ x.res = "ok" =>
       /\ NotTorn(View(x))
       /\ x.at # 0 => x.at \in Tab(View(x))
       /\ x.at = 0 => x.val \in Tab(View(x)) /\ ~UsedIn(View(x), x.val)

LEMMA AllocStepPlaces ==
  ASSUME NEW v, NEW X, NEW x, Placing(v, X, x) PROVE Placing(v, X, AllocStep(x))
<1>1. CASE x.res # "ok" \/ x.at = 0
  BY <1>1 DEF AllocStep
<1>2. CASE x.res = "ok" /\ x.at # 0
  <2> DEFINE d == View(x)
             t == x.at
             w == MoveWindow(x, ClustSect(t))
             e == EntryAt(w)
             found == [w EXCEPT !.val = w.at, !.at = 0]
             g == GetFat(w, w.at)
             next == [g EXCEPT !.at = g.val]
             z == Stretch(g)
             A == AllocStep(x)
  <2>1. t \in Tab(d) /\ t \in Clusters /\ Base(x, X) /\ NotTorn(d)
    BY <1>2, ReachIn DEF Placing, Links, Tab
  <2>2. /\ Moves(x, w, X) /\ w.res \in {"ok", "disk"} /\ (w.res = "ok" => w.win.sect = ClustSect(t))
    BY <1>2, <2>1, MoveWindowMoves
  <2>3. A = IF w.res # "ok" THEN w
            ELSE IF e.st # "used" THEN found
            ELSE IF g.res # "ok" THEN g
            ELSE IF g.val < 2 THEN Fail(g, "int")
            ELSE IF g.val \in Clusters THEN next ELSE z
    BY <1>2 DEF AllocStep, Then
  <2>4. w.at = t /\ View(w) = d
    BY <2>2 DEF Moves, Elsewhere
  <2> HIDE DEF w
  <2>5. ASSUME NEW y, Moves(x, y, X), y.res \in {"disk", "int"} PROVE Placing(v, X, y)
    <3>1. Links(v, y, X, {}) /\ View(y) = View(x)
      BY <2>5, LinksMoves DEF Placing, Moves
    <3> QED
      BY <2>5, <3>1 DEF Placing, Results
  <2>6. CASE w.res # "ok"
    BY <2>2, <2>3, <2>5, <2>6
  <2>7. CASE w.res = "ok"
    <3>1. Base(w, X) /\ e = EntryIn(d, t) /\ IsDir(d, t)
      BY <2>1, <2>2, <2>4, <2>7, EntryShown DEF Moves, NotTorn
    <3> HIDE DEF e
    <3>2. CASE e.st # "used"
      <4>1. A = found
        BY <2>3, <2>7, <3>2
      <4>2. /\ Shape(found) /\ found.win = w.win /\ found.disk = w.disk /\ found.io = w.io
            /\ Frame(w, found) /\ found.res = "ok" /\ found.at = 0 /\ found.val = t
        BY <2>4, <2>7, <3>1 DEF Base, Shape, Fields, Frame
      <4> HIDE DEF found
      <4>3. Base(found, X) /\ View(found) = d
        BY <2>4, <3>1, <4>2, BaseSame
      <4>4. Links(v, found, X, {})
        BY <2>2, <4>2, <4>3 DEF Placing, Links, Moves, Elsewhere, Frame
      <4>5. ~UsedIn(d, t)
        BY <3>1, <3>2 DEF UsedIn
      <4> QED
        BY <1>2, <2>1, <4>1, <4>2, <4>3, <4>4, <4>5 DEF Placing, Results
    <3>3. CASE e.st = "used"
      <4>1. /\ Moves(w, g, X) /\ g.res \in {"ok", "disk"}
            /\ g.res = "ok" => g.val = FatOf(d, t) /\ g.val \in {0, EOC} \cup Clusters
        BY <2>1, <2>4, <2>7, <3>1, GetFatMoves
      <4>2. Moves(x, g, X) /\ View(g) = d /\ g.at = t
        BY <2>2, <2>4, <4>1, MovesOn DEF Moves, Elsewhere
      <4> HIDE DEF g
      <4>3. CASE g.res # "ok"
        BY <2>3, <2>5, <2>7, <3>3, <4>1, <4>2, <4>3
      <4>4. CASE g.res = "ok" /\ g.val < 2
        <5>1. A = Fail(g, "int")
          BY <2>3, <2>7, <3>3, <4>4
        <5>2. Moves(g, A, X) /\ A.res = "int"
          BY <4>2, <5>1, BaseFail DEF Moves
        <5> QED
          BY <2>5, <4>2, <5>2, MovesOn
      <4>5. CASE g.res = "ok" /\ ~(g.val < 2) /\ g.val \in Clusters
        <5>1. A = next
          BY <2>3, <2>7, <3>3, <4>5
        <5>2. /\ Shape(next) /\ next.win = g.win /\ next.disk = g.disk /\ next.io = g.io
              /\ Frame(g, next) /\ next.res = "ok" /\ next.at = FatOf(d, t)
          BY <4>1, <4>5 DEF Moves, Base, Shape, Fields, Frame
        <5> HIDE DEF next
        <5>3. Base(next, X) /\ View(next) = d
          BY <4>1, <4>2, <5>2, BaseSame DEF Moves
        <5>4. Links(v, next, X, {})
          BY <4>2, <5>2, <5>3 DEF Placing, Links, Moves, Elsewhere, Frame
        <5>5. next.at \in Tab(d) /\ next.at # 0
          BY <2>1, <4>1, <4>5, <5>2, ReachFollows, ClustersDiffer DEF Tab, Follows
        <5> QED
          BY <1>2, <2>1, <5>1, <5>2, <5>3, <5>4, <5>5 DEF Placing, Results
      <4>6. CASE g.res = "ok" /\ ~(g.val < 2) /\ g.val \notin Clusters
        <5>1. A = z
          BY <2>3, <2>7, <3>3, <4>6
        <5>2. /\ Links(g, z, X, {}) /\ Grows(View(g), View(z)) /\ z.res \in Results \cup {"denied"}
              /\ z.res = "ok" => NotTorn(View(z)) /\ z.at \in Tab(View(z))
          BY <2>1, <3>1, <3>3, <4>1, <4>2, <4>6, StretchGrows DEF Moves
        <5> HIDE DEF z
        <5>3. SameEntries(View(v), View(z)) /\ Keeping(View(v), View(z), {}) /\ Grows(View(v), View(z))
          BY <4>2, <5>2, SameEntriesOn, KeepingOn, GrowsOn DEF Placing, Links
        <5>4. Links(v, z, X, {})
          BY <4>2, <5>2, <5>3 DEF Placing, Links, Moves, Elsewhere, Frame
        <5>5. z.res = "ok" => z.at # 0
          BY <5>2, ReachIn, ClustersDiffer DEF Tab
        <5> QED
          BY <5>1, <5>2, <5>3, <5>4, <5>5 DEF Placing
      <4> QED
        BY <4>3, <4>4, <4>5, <4>6
    <3> QED
      BY <3>2, <3>3
  <2> QED
    BY <2>6, <2>7
<1> QED
  BY <1>1, <1>2

LEMMA PlaceFound ==
  ASSUME NEW v, NEW X, Base(v, X), v.res = "ok", NotTorn(View(v))
  PROVE  LET w == Walk(AllocStep, v)
         IN  /\ Links(v, w, X, {}) /\ Grows(View(v), View(w))
             /\ w.res \in Results \cup {"denied", "endless"}
             /\ w.res = "ok" => /\ NotTorn(View(w))
                                /\ w.val \in Tab(View(w)) /\ ~UsedIn(View(w), w.val)
<1> DEFINE a == AtRoot(v)
           P(h) == h = [i \in 0..LastCluster |-> IF i = 0 THEN a ELSE AllocStep(h[i - 1])]
           h == CHOOSE x : P(x)
           w == h[LastCluster]
           A == Walk(AllocStep, v)
<1>1. A = IF w.res = "ok" /\ w.at # 0 THEN Fail(w, "endless") ELSE w
  BY DEF Walk, Turns
<1>2. /\ Shape(a) /\ a.win = v.win /\ a.disk = v.disk /\ a.io = v.io /\ Frame(v, a)
      /\ a.res = "ok" /\ a.at = Root
  BY DEF AtRoot, Base, Shape, Fields, Frame
<1> HIDE DEF a
<1>3. View(a) = View(v) /\ Links(v, a, X, {})
  BY <1>2, BesideBase
<1>4. Root \in Tab(View(v)) /\ Root # 0
  BY BaseParts, SaneParts, ClustersDiffer
<1>5. Placing(v, X, a)
  BY <1>2, <1>3, <1>4, GrowsSelf DEF Placing, Results
<1>L1. PICK g : Runs("alloc", "", a, LastCluster, g)
  BY RunExists, FatNumbers
<1>L2. P(g)
  BY <1>L1 DEF Runs, Turn
<1> HIDE DEF P
<1>L3. P(h)
  BY <1>L2, Zenon
<1> HIDE DEF h
<1>L4. \A i \in 0..LastCluster : h[i] = IF i = 0 THEN a ELSE AllocStep(h[i - 1])
  BY <1>L3 DEF P
<1> DEFINE T == {i \in 0..LastCluster : Placing(v, X, h[i])}
<1>L5. 0 \in T
  <2>1. h[0] = a /\ 0 \in 0..LastCluster
    BY <1>L4, FatNumbers
  <2>2. Placing(v, X, h[0])
    BY <1>5, <2>1
  <2> QED
    BY <2>1, <2>2
<1>L6. ASSUME NEW i \in 0..LastCluster - 1, i \in T PROVE i + 1 \in T
  <2>1. i + 1 \in 0..LastCluster /\ h[i + 1] = AllocStep(h[i])
    <3>1. i + 1 \in 0..LastCluster /\ i + 1 # 0 /\ (i + 1) - 1 = i
      BY FatNumbers
    <3> QED
      BY <1>L4, <3>1
  <2>2. Placing(v, X, h[i])
    BY <1>L6
  <2>3. Placing(v, X, AllocStep(h[i]))
    BY <2>2, AllocStepPlaces
  <2> QED
    BY <2>1, <2>3
<1> HIDE DEF T
<1>L7. Placing(v, X, h[LastCluster])
  <2>1. LastCluster \in T
    BY <1>L5, <1>L6, Upwards, FatNumbers
  <2> QED
    BY <2>1 DEF T
<1>6. Placing(v, X, w)
  BY <1>L7
<1> HIDE DEF w
<1>7. CASE w.res = "ok" /\ w.at # 0
  <2>1. A = Fail(w, "endless")
    BY <1>1, <1>7
  <2>2. Moves(w, A, X) /\ A.res = "endless"
    BY <1>6, <2>1, BaseFail DEF Placing, Links
  <2> HIDE DEF A
  <2>3. Links(v, A, X, {}) /\ View(A) = View(w)
    BY <1>6, <2>2, LinksMoves DEF Placing, Moves
  <2> QED
    BY <1>6, <2>2, <2>3 DEF Placing, A
<1>8. CASE ~(w.res = "ok" /\ w.at # 0)
  BY <1>1, <1>6, <1>8 DEF Placing
<1> QED
  BY <1>7, <1>8

\* An entry x is written at t, where the window is.
EntrySet(v, w, t, x, Y) ==
  /\ Base(w, Y) /\ Frame(v, w) /\ w.at = v.at /\ w.res = v.res /\ w.val = v.val
  /\ w.win.sect = ClustSect(t) /\ w.disk = v.disk
  /\ SameFat(View(v), View(w)) /\ Tab(View(w)) = Tab(View(v))
  /\ IsDir(View(w), t) /\ EntryIn(View(w), t) = x
  /\ \A u \in Clusters : u # t => /\ UsedIn(View(w), u) <=> UsedIn(View(v), u)
                                  /\ EntryIn(View(w), u) = EntryIn(View(v), u)
  /\ NotTorn(View(v)) => NotTorn(View(w))
  /\ \A gone : Keeping(View(v), View(w), gone)
  /\ Grows(View(v), View(w))
  /\ \A N : (UsedIn(View(v), t) => EntryIn(View(v), t).name \in N)
            /\ (x.st = "used" => x.name \in N) => AlikeBut(View(v), View(w), N)

LEMMA EntryPut ==
  ASSUME NEW v, NEW X, NEW Y, Base(v, X), X \subseteq Y, NEW t \in Tab(View(v)),
         v.win.sect = ClustSect(t), NEW x, IsEntry(x), x.st # "unused",
         x.st = "used" => Fits(View(v), t, x, Y)
  PROVE  EntrySet(v, Put(v, DirOf(x)), t, x, Y)
<1> DEFINE w == Put(v, DirOf(x))
           d == View(v)
           e == View(w)
<1>1. t \in Clusters
  BY ReachIn DEF Tab
<1>2. Sane(d, Y)
  BY BaseParts, LessCounts
<1>3. /\ Frame(v, w) /\ w.at = v.at /\ w.res = v.res /\ w.val = v.val /\ w.win.sect = ClustSect(t)
      /\ Redata(d, e, t) /\ e[ClustSect(t)] = DirOf(x) /\ w.disk = v.disk
      /\ Sane(e, Y) /\ Tab(d) \subseteq Tab(e) => Base(w, Y)
  BY <1>1, PutData
<1> HIDE DEF w
<1>4. MayHold(d, t, e[ClustSect(t)], Y)
  BY <1>3 DEF MayHold, DirOf
<1>5. /\ Sane(e, Y) /\ SameFat(d, e) /\ Tab(e) = Tab(d) /\ \A gone : Keeping(d, e, gone)
      /\ \A u \in Clusters : u # t => /\ UsedIn(e, u) <=> UsedIn(d, u)
                                      /\ EntryIn(e, u) = EntryIn(d, u)
  BY <1>1, <1>2, <1>3, <1>4, SectorKeeps
<1>6. Base(w, Y)
  BY <1>3, <1>5
<1>7. IsDir(e, t) /\ EntryIn(e, t) = x
  BY <1>3 DEF IsDir, EntryIn, DirOf
<1>8. NotTorn(d) => NotTorn(e)
  BY <1>3, <1>5, <1>7, ReachIn DEF NotTorn, IsDir, Redata, Tab
<1>9. Grows(d, e)
  BY <1>5 DEF Grows, SameFat
<1>10. ASSUME NEW N, UsedIn(d, t) => EntryIn(d, t).name \in N, x.st = "used" => x.name \in N
       PROVE  AlikeBut(d, e, N)
  <2>1. UsedIn(e, t) => EntryIn(e, t).name \in N
    BY <1>7, <1>10 DEF UsedIn
  <2> QED
    BY <1>1, <1>5, <1>10, <2>1, AlikeOne
<1> QED
  BY <1>3, <1>5, <1>6, <1>7, <1>8, <1>9, <1>10 DEF w, EntrySet

LEMMA BlankEntry ==
  ASSUME NEW n, NEW x, x = Entry(n, FALSE, FALSE, 0, 0)
  PROVE  IsUsed(x) /\ IsEntry(x) /\ x.st = "used" /\ x.name = n /\ x.clust = 0
BY DEF Entry, IsUsed, IsEntry

LEMMA RegisterRegisters ==
  ASSUME NEW v, NEW X, Base(v, X), v.res = "ok", NotTorn(View(v)), NEW n, NoName(View(v), n)
  PROVE  LET w == Register(v, n)
         IN  /\ Edits(v, w, X, {n}, {}) /\ Grows(View(v), View(w))
             /\ w.res \in Results \cup {"denied", "endless"}
             /\ w.res # "ok" => Links(v, w, X, {})
             /\ w.res = "ok" =>
                  /\ NotTorn(View(w))
                  /\ \E t : At(w, t, n) /\ EntryIn(View(w), t) = Entry(n, FALSE, FALSE, 0, 0)
<1> DEFINE a == Walk(AllocStep, v)
           m == MoveWindow(a, ClustSect(a.val))
           x == Entry(n, FALSE, FALSE, 0, 0)
           p == Put(m, DirOf(x))
           A == Register(v, n)
           t == a.val
<1>1. A = IF a.res # "ok" THEN a ELSE IF m.res = "ok" THEN p ELSE m
  BY DEF Register, Then
<1>2. /\ Links(v, a, X, {}) /\ Grows(View(v), View(a)) /\ a.res \in Results \cup {"denied", "endless"}
      /\ a.res = "ok" => NotTorn(View(a)) /\ t \in Tab(View(a)) /\ ~UsedIn(View(a), t)
  BY PlaceFound
<1> HIDE DEF a
<1>3. CASE a.res # "ok"
  BY <1>1, <1>2, <1>3, LinksEdits
<1>4. CASE a.res = "ok"
  <2>1. Moves(a, m, X) /\ m.res \in {"ok", "disk"} /\ (m.res = "ok" => m.win.sect = ClustSect(t))
    BY <1>2, <1>4, MoveWindowMoves DEF Links
  <2> HIDE DEF m, t
  <2>2. Links(v, m, X, {}) /\ View(m) = View(a) /\ Base(m, X)
    BY <1>2, <2>1, LinksMoves DEF Moves
  <2>3. CASE m.res # "ok"
    <3>1. Edits(v, m, X, {n}, {})
      BY <2>2, LinksEdits
    <3> QED
      BY <1>1, <1>2, <1>4, <2>1, <2>2, <2>3, <3>1 DEF Results
  <2>4. CASE m.res = "ok"
    <3>1. NoName(View(m), n)
      BY <2>2 DEF NoName, Links, SameEntries
    <3>2. IsEntry(x) /\ x.st = "used" /\ x.name = n /\ x.clust = 0
      BY BlankEntry
    <3>3. Fits(View(m), t, x, X)
      BY <3>1, <3>2 DEF Fits, NoName
    <3> HIDE DEF x
    <3>9. t \in Tab(View(m)) /\ ~UsedIn(View(m), t) /\ X \subseteq X /\ x.st # "unused"
      BY <1>2, <1>4, <2>2, <3>2
    <3>13. EntrySet(m, p, t, x, X)
      BY <2>1, <2>2, <2>4, <3>2, <3>3, <3>9, EntryPut
    <3>10. \A N : (UsedIn(View(m), t) => EntryIn(View(m), t).name \in N)
                  /\ (x.st = "used" => x.name \in N) => AlikeBut(View(m), View(p), N)
      BY <2>1, <2>2, <2>4, <3>2, <3>3, <3>9, <3>13 DEF EntrySet
    <3>4. /\ Base(p, X) /\ Frame(m, p) /\ p.res = m.res /\ p.win.sect = ClustSect(t)
          /\ Tab(View(p)) = Tab(View(m)) /\ IsDir(View(p), t) /\ EntryIn(View(p), t) = x
          /\ NotTorn(View(m)) => NotTorn(View(p))
          /\ Grows(View(m), View(p))
      BY <2>1, <2>2, <2>4, <3>2, <3>3, <3>9, <3>13 DEF EntrySet
    <3>12. \A gone : Keeping(View(m), View(p), gone)
      BY <2>1, <2>2, <2>4, <3>2, <3>3, <3>9, <3>13 DEF EntrySet
    <3>11. AlikeBut(View(m), View(p), {n})
      BY <3>2, <3>9, <3>10
    <3> HIDE DEF p
    <3>5. Edits(m, p, X, {n}, {}) /\ Edits(v, m, X, {n}, {})
      BY <2>2, <3>4, <3>11, <3>12, LinksEdits DEF Edits
    <3>6. Edits(v, p, X, {n}, {})
      BY <3>5, EditsOn
    <3>7. At(p, t, n)
      BY <1>2, <1>4, <2>2, <3>2, <3>4, ReachIn DEF At, UsedIn, Tab
    <3>8. Grows(View(v), View(p))
      BY <1>2, <2>2, <3>4, GrowsOn
    <3> QED
      BY <1>1, <1>2, <1>4, <2>2, <2>4, <3>4, <3>6, <3>7, <3>8 DEF Results, x
  <2> QED
    BY <2>3, <2>4
<1> QED
  BY <1>3, <1>4

LEMMA RemoveEntryRemoves ==
  ASSUME NEW v, NEW X, Base(v, X), v.res = "ok", NEW t \in Tab(View(v)),
         NEW N, UsedIn(View(v), t) => EntryIn(View(v), t).name \in N
  PROVE  LET w == RemoveEntry(v, t)
         IN  /\ Edits(v, w, X, N, {}) /\ w.res \in {"ok", "disk"} /\ Tab(View(w)) = Tab(View(v))
             /\ SameFat(View(v), View(w))
             /\ w.res # "ok" => Moves(v, w, X)
             /\ w.res = "ok" =>
                  /\ ~UsedIn(View(w), t)
                  /\ \A u \in Clusters : u # t => /\ UsedIn(View(w), u) <=> UsedIn(View(v), u)
                                                  /\ EntryIn(View(w), u) = EntryIn(View(v), u)
<1> DEFINE m == MoveWindow(v, ClustSect(t))
           x == Deleted
           p == Put(m, DirOf(x))
           A == RemoveEntry(v, t)
<1>1. A = IF m.res = "ok" THEN p ELSE m
  BY DEF RemoveEntry, Then
<1>2. Moves(v, m, X) /\ m.res \in {"ok", "disk"} /\ (m.res = "ok" => m.win.sect = ClustSect(t))
  BY MoveWindowMoves
<1> HIDE DEF m
<1>3. Base(m, X) /\ View(m) = View(v)
  BY <1>2 DEF Moves
<1>4. CASE m.res # "ok"
  <2>1. Edits(v, m, X, N, {}) /\ Tab(View(m)) = Tab(View(v))
    BY <1>2, MovesLinks, LinksEdits
  <2> QED
    BY <1>1, <1>2, <1>3, <1>4, <2>1 DEF SameFat
<1>5. CASE m.res = "ok"
  <2>1. IsEntry(x) /\ x.st = "deleted"
    BY DEF IsEntry, Deleted
  <2> HIDE DEF x
  <2>2. t \in Tab(View(m)) /\ X \subseteq X /\ x.st # "unused" /\ x.st # "used"
    BY <1>3, <2>1
  <2>11. EntrySet(m, p, t, x, X)
    BY <1>2, <1>3, <1>5, <2>1, <2>2, EntryPut
  <2>3. \A O : (UsedIn(View(m), t) => EntryIn(View(m), t).name \in O)
               /\ (x.st = "used" => x.name \in O) => AlikeBut(View(m), View(p), O)
    BY <1>2, <1>3, <1>5, <2>1, <2>2, <2>11 DEF EntrySet
  <2>4. /\ Base(p, X) /\ Frame(m, p) /\ p.res = m.res
        /\ Tab(View(p)) = Tab(View(m)) /\ EntryIn(View(p), t) = x /\ SameFat(View(m), View(p))
    BY <1>2, <1>3, <1>5, <2>1, <2>2, <2>11 DEF EntrySet
  <2>5. \A gone : Keeping(View(m), View(p), gone)
    BY <1>2, <1>3, <1>5, <2>1, <2>2, <2>11 DEF EntrySet
  <2>6. \A u \in Clusters : u # t => /\ UsedIn(View(p), u) <=> UsedIn(View(m), u)
                                     /\ EntryIn(View(p), u) = EntryIn(View(m), u)
    BY <2>11 DEF EntrySet
  <2> HIDE DEF p
  <2>7. AlikeBut(View(v), View(p), N)
    BY <1>3, <2>2, <2>3
  <2>8. Frame(v, p)
    BY <1>2, <2>4 DEF Frame, Moves, Elsewhere
  <2>9. Edits(v, p, X, N, {})
    BY <1>3, <2>4, <2>5, <2>7, <2>8 DEF Edits
  <2>10. ~UsedIn(View(p), t)
    BY <2>2, <2>4 DEF UsedIn
  <2> QED
    BY <1>1, <1>3, <1>5, <2>4, <2>6, <2>9, <2>10
<1> QED
  BY <1>2, <1>4, <1>5

LEMMA OverFsi ==
  ASSUME NEW d, NEW X, Sane(d, X), NEW x
  PROVE  LET e == Over(d, Fsi, x)
         IN  /\ Sane(e, X) /\ SameFat(d, e) /\ Tab(e) = Tab(d) /\ SameEntries(d, e)
             /\ \A gone : Keeping(d, e, gone)
<1> DEFINE e == Over(d, Fsi, x)
<1>1. DOMAIN e = Sectors /\ \A r \in Sectors : r # Fsi => e[r] = d[r]
  BY OverIs DEF Sane
<1> HIDE DEF e
<1>2. \A b \in Clusters : /\ FatSect(b) \in Sectors /\ ClustSect(b) \in Sectors
                          /\ FatSect(b) # Fsi /\ ClustSect(b) # Fsi
  BY SectorKinds DEF Sectors
<1>3. SameData(d, e) /\ \A b \in Clusters : e[FatSect(b)] = d[FatSect(b)]
  BY <1>1, <1>2 DEF SameData
<1> QED
  BY <1>1, <1>3, FsiKeeps DEF e

\* A volume record with another window, which is not dirty, over the same card.
LEMMA WindowElsewhere ==
  ASSUME NEW v, NEW X, Base(v, X), ~v.win.dirty, NEW w, DOMAIN w = Fields, w.disk = v.disk, w.io = v.io,
         w.bad = v.bad, w.fp = v.fp, w.find = v.find,
         DOMAIN w.fs = {"mounted", "free", "last", "fsi"}, w.fs.mounted \in BOOLEAN,
         DOMAIN w.win = {"sect", "buf", "dirty"}, w.win.dirty = FALSE, w.win.sect \in {Fsi, Nowhere}
  PROVE  Base(w, X) /\ View(w) = View(v)
<1>1. Shape(w)
  BY DEF Base, Shape
<1>2. View(w) = View(v)
  BY DEF View
<1>3. w.win.sect \notin Shown(View(w))
  BY SectorKinds DEF Shown
<1> QED
  BY <1>1, <1>2, <1>3 DEF Base, Cards, Clean

LEMMA SyncFsSyncs ==
  ASSUME NEW v, NEW X, Base(v, X), v.res = "ok"
  PROVE  LET w == SyncFs(v)
         IN  /\ Links(v, w, X, {}) /\ w.res \in {"ok", "disk"} /\ Tab(View(w)) = Tab(View(v))
             /\ SameFat(View(v), View(w))
             /\ w.res = "ok" => ~w.win.dirty
             /\ \A Z : Sane(View(v), Z) => Sane(View(w), Z)
<1> DEFINE u == SyncWindow(v)
           x == [free |-> u.fs.free, last |-> u.fs.last]
           y == DiskWrite(u, Fsi, x)
           z == [y EXCEPT !.win = [sect |-> Fsi, buf |-> x, dirty |-> FALSE], !.fs.fsi = "clean",
                          !.res = "ok"]
           A == SyncFs(v)
<1>1. A = IF u.res # "ok" THEN u ELSE IF u.fs.fsi # "due" THEN u ELSE z
  BY DEF SyncFs, Then
<1>2. Moves(v, u, X) /\ u.res \in {"ok", "disk"} /\ (u.res = "ok" => ~u.win.dirty)
  BY SyncWindowMoves
<1> HIDE DEF u
<1>3. Base(u, X) /\ View(u) = View(v) /\ Links(v, u, X, {})
  BY <1>2, MovesLinks DEF Moves
<1>4. CASE A = u
  BY <1>2, <1>3, <1>4 DEF SameFat
<1>5. CASE u.res = "ok" /\ A = z
  <2>1. u.disk = View(v) /\ Sane(View(v), X) /\ Shape(u) /\ ~u.win.dirty
    BY <1>2, <1>3, <1>5, BaseParts DEF View
  <2> HIDE DEF x
  <2>2. /\ Shape(y) /\ Elsewhere(u, y) /\ y.win = u.win
        /\ \/ y.disk = Over(u.disk, Fsi, x) /\ y.io = Append(u.io, y.disk)
           \/ y.disk = u.disk /\ y.io = u.io
    BY <1>5, <2>1, DiskWriteIs
  <2> HIDE DEF y
  <2>3. /\ Sane(y.disk, X) /\ SameFat(View(v), y.disk) /\ Tab(y.disk) = Tab(View(v))
        /\ SameEntries(View(v), y.disk) /\ Keeping(View(v), y.disk, {})
        /\ \A Z : Sane(View(v), Z) => Sane(y.disk, Z)
    BY <2>1, <2>2, OverFsi, KeepingSelf, SameEntriesSame DEF SameFat
  <2>4. \A i \in 1..Len(y.io) : Sane(y.io[i], X)
    <3>1. CASE y.io = u.io
      BY <1>3, <3>1 DEF Base, Cards
    <3>2. CASE y.io = Append(u.io, y.disk)
      <4>1. /\ Len(u.io) \in Nat /\ Len(y.io) = Len(u.io) + 1
            /\ \A i \in 1..Len(u.io) + 1 : y.io[i] = IF i <= Len(u.io) THEN u.io[i] ELSE y.disk
        BY <2>1, <3>2, IoMore DEF Shape, AreCards
      <4>2. ASSUME NEW i \in 1..Len(y.io) PROVE Sane(y.io[i], X)
        <5>1. CASE i <= Len(u.io)
          <6>1. i \in 1..Len(u.io) /\ y.io[i] = u.io[i]
            BY <4>1, <5>1
          <6> QED
            BY <1>3, <6>1 DEF Base, Cards
        <5>2. CASE ~(i <= Len(u.io))
          BY <2>3, <4>1, <5>2
        <5> QED
          BY <5>1, <5>2
      <4> QED
        BY <4>2
    <3> QED
      BY <2>2, <3>1, <3>2
  <2>5. Base(y, X) /\ View(y) = y.disk
    <3>1. View(y) = y.disk
      BY <2>1, <2>2 DEF View
    <3>2. Cards(y, X)
      BY <2>3, <2>4, <3>1 DEF Cards
    <3>3. Clean(y)
      <4>1. Shown(y.disk) = Shown(View(u))
        BY <1>3, <2>3 DEF Shown
      <4>2. y.win.sect \in Shown(y.disk) => y.disk[y.win.sect] = u.disk[y.win.sect]
        <5>1. y.win.sect \in Shown(y.disk) => y.win.sect # Fsi /\ y.win.sect \in Sectors
          BY SectorKinds, ReachIn DEF Shown, Sectors, Tab
        <5> QED
          BY <2>1, <2>2, <5>1, OverIs DEF Sane
      <4> QED
        BY <1>3, <2>1, <2>2, <3>1, <4>1, <4>2 DEF Clean, Base, View
    <3> QED
      BY <2>2, <3>1, <3>2, <3>3 DEF Base
  <2>6. /\ DOMAIN z = Fields /\ z.disk = y.disk /\ z.io = y.io /\ z.bad = y.bad
        /\ z.win = [sect |-> Fsi, buf |-> x, dirty |-> FALSE] /\ z.res = "ok"
        /\ DOMAIN z.fs = {"mounted", "free", "last", "fsi"} /\ Frame(y, z)
    BY <2>2 DEF Shape, Fields, Frame
  <2> HIDE DEF z
  <2>7. DOMAIN z.win = {"sect", "buf", "dirty"} /\ z.win.dirty = FALSE /\ z.win.sect = Fsi
    BY <2>6
  <2>8. z.fs.mounted \in BOOLEAN /\ z.fp = y.fp /\ z.find = y.find /\ ~y.win.dirty
    BY <2>1, <2>2, <2>6 DEF Frame, Shape
  <2>9. Base(z, X) /\ View(z) = View(y)
    BY <2>5, <2>6, <2>7, <2>8, WindowElsewhere
  <2>10. Frame(v, z)
    BY <1>3, <2>2, <2>6 DEF Links, Frame, Elsewhere
  <2> QED
    BY <1>5, <2>3, <2>5, <2>6, <2>7, <2>9, <2>10 DEF Links
<1> QED
  BY <1>1, <1>2, <1>4, <1>5

-----------------------------------------------------------------------------
(* The volume is brought up when it is first asked for; until then nothing  *)
(* is open and the window is as the card.                                  *)

Up(v) == v.fs.mounted \/ (~v.win.dirty /\ ~v.find.open /\ \A n \in Names : ~v.fp[n].open)
Same5(v, w) == w.fp = v.fp /\ w.find = v.find /\ w.left = v.left /\ w.in = v.in /\ w.out = v.out

Calm(v) == v.fs.mounted \/ ~v.win.dirty

LEMMA FindVolumeBrings ==
  ASSUME NEW v, NEW X, Base(v, X), Calm(v)
  PROVE  LET w == FindVolume(v)
         IN  /\ Base(w, X) /\ View(w) = View(v) /\ Same5(v, w) /\ Calm(w)
             /\ w.res \in {v.res, "ok", "notready"} /\ (w.res = "ok" => w.fs.mounted /\ v.res = "ok")
             /\ v.fs.mounted => w = v
<1>1. CASE v.fs.mounted
  BY <1>1 DEF FindVolume, Same5, Base, Shape
<1>2. CASE ~v.fs.mounted
  <2> DEFINE k == Tick(v)
             c == [k EXCEPT !.win = NoWindow]
             f == Fail(k, "notready")
             u == CardUp(v)
             m == MoveWindow(u, Fsi)
             s == IF m.res = "ok"
                  THEN [mounted |-> TRUE, free |-> m.data.free, last |-> m.data.last, fsi |-> "clean"]
                  ELSE [Unmounted EXCEPT !.mounted = TRUE]
             z == [m EXCEPT !.res = "ok", !.fs = s]
             A == FindVolume(v)
  <2>1. A = IF u.res = "ok" THEN z ELSE u
    BY <1>2 DEF FindVolume, Then
  <2>2. u \in {f, c} /\ ~v.win.dirty
    BY <1>2 DEF CardUp, Calm
  <2>3. /\ Shape(k) /\ Elsewhere(v, k) /\ k.win = v.win /\ k.disk = v.disk /\ k.io = v.io
        /\ k.res = v.res /\ k.val = v.val
    BY ShapeTick DEF Base
  <2> HIDE DEF k
  <2>4. Base(k, X) /\ View(k) = View(v)
    BY <2>3, BaseSame
  <2>5. Base(f, X) /\ View(f) = View(v) /\ Same5(v, f) /\ Calm(f) /\ f.res = "notready"
    <3>1. Moves(k, f, X) /\ f.res = "notready" /\ f.win = k.win
      BY <2>4, BaseFail
    <3> HIDE DEF f
    <3> QED
      BY <1>2, <2>3, <2>4, <3>1 DEF Moves, Elsewhere, Same5, Calm
  <2>6. /\ Base(c, X) /\ View(c) = View(v) /\ Same5(v, c) /\ Calm(c) /\ c.res = v.res
        /\ c.win.dirty = FALSE /\ c.win.sect = Nowhere
    <3>1. /\ DOMAIN c = Fields /\ c.disk = k.disk /\ c.io = k.io /\ c.bad = k.bad /\ Elsewhere(k, c)
          /\ c.win = NoWindow /\ c.res = k.res
      BY <2>3 DEF Shape, Fields, Elsewhere
    <3> HIDE DEF c
    <3>2. DOMAIN c.win = {"sect", "buf", "dirty"} /\ c.win.dirty = FALSE /\ c.win.sect = Nowhere
      BY <3>1 DEF NoWindow
    <3>3. /\ ~k.win.dirty /\ c.fp = k.fp /\ c.find = k.find
          /\ DOMAIN c.fs = {"mounted", "free", "last", "fsi"} /\ c.fs.mounted \in BOOLEAN
      BY <2>2, <2>3, <3>1 DEF Shape, Elsewhere
    <3>4. Base(c, X) /\ View(c) = View(k)
      BY <2>4, <3>1, <3>2, <3>3, WindowElsewhere
    <3> QED
      BY <1>2, <2>3, <2>4, <3>1, <3>2, <3>4 DEF Elsewhere, Same5, Calm
  <2> HIDE DEF f, c, u
  <2>7. CASE u.res # "ok"
    BY <1>2, <2>1, <2>2, <2>5, <2>6, <2>7
  <2>8. CASE u.res = "ok"
    <3>1. Base(u, X) /\ View(u) = View(v) /\ Same5(v, u) /\ v.res = "ok" /\ ~u.win.dirty
          /\ u.win.sect = Nowhere
      BY <2>2, <2>5, <2>6, <2>8
    <3>2. Moves(u, m, X) /\ ~m.win.dirty /\ m.win.sect \in {Fsi, Nowhere}
      BY <2>8, <3>1, MoveWindowMoves
    <3> HIDE DEF m
    <3>3. DOMAIN s = {"mounted", "free", "last", "fsi"} /\ s.mounted = TRUE
      BY DEF Unmounted
    <3> HIDE DEF s
    <3>4. /\ DOMAIN z = Fields /\ z.disk = m.disk /\ z.io = m.io /\ z.bad = m.bad /\ z.win = m.win
          /\ z.fs = s /\ z.res = "ok" /\ Same5(m, z)
      BY <3>2 DEF Moves, Base, Shape, Fields, Same5
    <3> HIDE DEF z
    <3>5. DOMAIN m.win = {"sect", "buf", "dirty"} /\ m.win.dirty \in BOOLEAN /\ Base(m, X)
      BY <3>2 DEF Moves, Base, Shape
    <3>6. Base(z, X) /\ View(z) = View(m)
      BY <3>2, <3>3, <3>4, <3>5, WindowElsewhere, ZenonT(60) DEF Same5
    <3>7. Same5(v, z) /\ Calm(z) /\ z.fs.mounted
      BY <3>1, <3>2, <3>3, <3>4 DEF Same5, Calm, Moves, Elsewhere
    <3> QED
      BY <1>2, <2>1, <2>8, <3>1, <3>2, <3>4, <3>6, <3>7 DEF Moves
  <2> QED
    BY <2>7, <2>8
<1> QED
  BY <1>1, <1>2 DEF Base, Shape

LEMMA FindVolumeMounts ==
  ASSUME NEW v, NEW X, Base(v, X), Up(v)
  PROVE  LET w == FindVolume(v)
         IN  /\ Base(w, X) /\ View(w) = View(v) /\ Same5(v, w) /\ Up(w)
             /\ w.res \in {v.res, "ok", "notready"} /\ (w.res = "ok" => w.fs.mounted /\ v.res = "ok")
             /\ v.fs.mounted => w = v
<1> DEFINE w == FindVolume(v)
<1>1. Calm(v)
  BY DEF Calm, Up
<1>2. /\ Base(w, X) /\ View(w) = View(v) /\ Same5(v, w) /\ Calm(w)
      /\ w.res \in {v.res, "ok", "notready"} /\ (w.res = "ok" => w.fs.mounted /\ v.res = "ok")
      /\ v.fs.mounted => w = v
  BY <1>1, FindVolumeBrings
<1> HIDE DEF w
<1>3. Up(w)
  BY <1>2 DEF Calm, Up, Same5
<1> QED
  BY <1>2, <1>3 DEF w

LEMMA LookupSeeks ==
  ASSUME NEW v, NEW n, NEW X, Base(v, X), Up(v), NotTorn(View(v)),
         v.res = "nofile" => v.fs.mounted /\ NoName(View(v), n)
  PROVE  LET w == Lookup(v, n)
         IN  /\ Base(w, X) /\ View(w) = View(v) /\ Same5(v, w) /\ Up(w)
             /\ w.res \in {v.res, "notready"} \cup Results4
             /\ w.res = "ok" => w.fs.mounted /\ At(w, w.val, n)
             /\ w.res = "nofile" => NoName(View(v), n) /\ w.fs.mounted
<1> DEFINE u == FindVolume(v)
           f == Find(u, n)
           A == Lookup(v, n)
<1>1. A = IF u.res = "ok" THEN f ELSE u
  BY DEF Lookup, Then
<1>2. /\ Base(u, X) /\ View(u) = View(v) /\ Same5(v, u) /\ Up(u)
      /\ u.res \in {v.res, "ok", "notready"} /\ (u.res = "ok" => u.fs.mounted /\ v.res = "ok")
      /\ v.fs.mounted => u = v
  BY FindVolumeMounts
<1> HIDE DEF u
<1>3. CASE u.res # "ok"
  BY <1>1, <1>2, <1>3
<1>4. CASE u.res = "ok"
  <2>1. /\ Base(f, X) /\ Frame(u, f) /\ View(f) = View(u) /\ f.res \in Results4
        /\ f.res = "ok" => At(f, f.val, n)
        /\ f.res = "nofile" => NoName(View(u), n)
    BY <1>2, <1>4, FindSeeks
  <2> HIDE DEF f
  <2> QED
    BY <1>1, <1>2, <1>4, <2>1 DEF Frame, Same5, Up
<1> QED
  BY <1>3, <1>4
=============================================================================
