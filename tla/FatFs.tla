-------------------------------- MODULE FatFs --------------------------------
(***************************************************************************)
(* FatFs, as the SD card driver builds it: the operators that work on a    *)
(* FAT32 volume through one window, a buffer that holds a sector of the    *)
(* FAT, of a directory or of FSINFO, and writes it back when it moves.     *)
(*                                                                         *)
(* An operator takes a volume record v and returns the record that the     *)
(* function of the same name leaves: v.disk is the card, v.win the window, *)
(* v.fs the allocation state, v.fp the file objects.  The rest passes      *)
(* between the calls of one operation: v.res is the result, v.val a value, *)
(* v.in the units left to write, v.left those left to read or to seek,     *)
(* v.out those read, v.find the search that is open, v.io the card after   *)
(* each write, and v.bad the call to the card that fails.                  *)
(*                                                                         *)
(* Abstracted: a cluster is one sector of Units units, a directory sector  *)
(* holds one entry, a name is one entry, the root is the only directory    *)
(* with entries, and there is one FAT.                                     *)
(***************************************************************************)
EXTENDS Integers, Sequences, SequencesExt

CONSTANTS LastCluster,  \* n_fatent - 1
          FatPer,       \* entries in a sector of the FAT
          Units         \* SS(fs), units of data in a sector

ASSUME FatFsAssumption ==
  LastCluster \in Nat /\ LastCluster > 2 /\ FatPer \in Nat \ {0} /\ Units \in Nat \ {0}

Clusters == 2..LastCluster
EOC == LastCluster + 1  \* 0x0FFFFFFF, the end of a chain
Root == 2               \* dirbase
Unknown == -1           \* 0xFFFFFFFF in free_clust

FatSect(c) == <<"fat", c \div FatPer>>
ClustSect(c) == <<"data", c>>
Fsi == <<"fsi", 0>>
Nowhere == <<"none", 0>>

Unused == [st |-> "unused"]
Deleted == [st |-> "deleted"]
Entry(n, isDir, ro, c, size) ==
  [st |-> "used", name |-> n, dir |-> isDir, ro |-> ro, clust |-> c, size |-> size]
DirOf(e) == [is |-> "dir", e |-> e]
DataOf(u) == [is |-> "data", u |-> u]

AnyUnit == -1  \* of a sector that was a directory's
UnitsOf(x) == IF x.is = "data" THEN x.u ELSE [i \in 1..Units |-> AnyUnit]

NoWindow == [sect |-> Nowhere, buf |-> Nowhere, dirty |-> FALSE]
Unmounted == [mounted |-> FALSE, free |-> Unknown, last |-> 0, fsi |-> "off"]
NoFile == [open |-> FALSE]

Then(v, F(_)) == IF v.res = "ok" THEN F(v) ELSE v
Answer(v, x) == [v EXCEPT !.val = x]
Fail(v, why) == [v EXCEPT !.res = why]
Lower(x, y) == IF x < y THEN x ELSE y

\* A loop, which stops to change v before it has made n turns.
Turns(n, F(_), v) == LET turn[i \in 0..n] == IF i = 0 THEN v ELSE F(turn[i - 1]) IN turn[n]

-----------------------------------------------------------------------------
(* The card.  A call that fails has stored its sector or has not; a read   *)
(* that fails has not touched the buffer.                                  *)

Hit(v) == v.bad.at = 1
Tick(v) == [v EXCEPT !.bad.at = @ - 1]
Stored(v, s, x) == LET d == [v.disk EXCEPT ![s] = x] IN [v EXCEPT !.disk = d, !.io = Append(@, d)]

DiskWrite(v, s, x) ==
  IF ~Hit(v) THEN Stored(Tick(v), s, x)
  ELSE Fail(IF v.bad.kept THEN Stored(Tick(v), s, x) ELSE Tick(v), "disk")

DiskRead(v, s) ==
  IF Hit(v) THEN Fail(Tick(v), "disk") ELSE [Tick(v) EXCEPT !.data = v.disk[s]]

-----------------------------------------------------------------------------
(* The window. *)

SyncWindow(v) ==
  IF ~v.win.dirty THEN v
  ELSE Then(DiskWrite(v, v.win.sect, v.win.buf), LAMBDA w: [w EXCEPT !.win.dirty = FALSE])

MoveWindow(v, s) ==
  IF v.win.sect = s THEN v
  ELSE Then(Then(SyncWindow(v), LAMBDA w: DiskRead(w, s)),
            LAMBDA w: [w EXCEPT !.win = [sect |-> s, buf |-> w.data, dirty |-> FALSE]])

Put(v, x) == [v EXCEPT !.win.buf = x, !.win.dirty = TRUE]

\* sync_fs: what writing FSINFO returns is not looked at.
SyncFs(v) ==
  Then(SyncWindow(v), LAMBDA w:
    IF w.fs.fsi # "due" THEN w
    ELSE LET x == [free |-> w.fs.free, last |-> w.fs.last]
         IN  [DiskWrite(w, Fsi, x) EXCEPT
                !.win = [sect |-> Fsi, buf |-> x, dirty |-> FALSE], !.fs.fsi = "clean",
                !.res = "ok"])

CountFree(v, more) ==
  IF v.fs.free = Unknown THEN v
  ELSE [v EXCEPT !.fs.free = @ + more, !.fs.fsi = IF @ = "off" THEN "off" ELSE "due"]

-----------------------------------------------------------------------------
(* The FAT. *)

GetFat(v, c) ==
  IF c \notin Clusters THEN Answer(v, 1)
  ELSE Then(MoveWindow(v, FatSect(c)), LAMBDA w: Answer(w, w.win.buf[c]))

\* The window is marked dirty also when it could not move.
PutFat(v, c, x) ==
  IF c \notin Clusters THEN Fail(v, "int")
  ELSE LET w == MoveWindow(v, FatSect(c))
       IN  Put(w, IF w.res = "ok" THEN [w.win.buf EXCEPT ![c] = x] ELSE w.win.buf)

\* One turn of remove_chain; v.val is the cluster it has come to.
FreeLinkUncounted(v) ==
  IF v.res # "ok" \/ v.val \notin Clusters THEN v
  ELSE Then(GetFat(v, v.val), LAMBDA g:
         IF g.val = 0 THEN Answer(g, EOC)
         ELSE Then(PutFat(g, v.val, 0), LAMBDA w: Answer(w, g.val)))
FreeLink(v) ==
  IF v.res # "ok" \/ v.val \notin Clusters THEN v
  ELSE Then(GetFat(v, v.val), LAMBDA g:
         IF g.val = 0 THEN Answer(g, EOC)
         ELSE IF g.val = 1 THEN Fail(g, "int")
         ELSE Then(PutFat(g, v.val, 0), LAMBDA w: Answer(CountFree(w, 1), g.val)))

RemoveChain(v, c) ==
  IF c \notin Clusters THEN Fail(v, "int")
  ELSE Turns(LastCluster, FreeLink, Answer(v, c))

\* Cyclic from the cluster after scl, scl itself the last; scl is 1 on a fresh volume.
\* v.at is the cluster looked at.
FatEntries == LastCluster - 1
Probe(v) ==
  IF v.res # "ok" \/ v.val # 0 THEN v
  ELSE LET c == IF v.at = LastCluster THEN 2 ELSE v.at + 1
       IN  Then(GetFat(v, c), LAMBDA g: [g EXCEPT !.at = c, !.val = IF @ = 0 THEN c ELSE 0])
From(v, scl) == [v EXCEPT !.val = 0, !.at = scl]
Search(v, scl) == Turns(FatEntries, Probe, From(v, scl))

AllocateLinkFirst(v, c, scl) ==
  Then(Search(v, scl), LAMBDA f:
    IF f.val = 0 THEN f
    ELSE LET new == f.val
             linked == IF c = 0 THEN f ELSE PutFat(f, c, new)
             ended == Then(linked, LAMBDA w: PutFat(w, new, EOC))
         IN  Then(ended, LAMBDA w: Answer(CountFree([w EXCEPT !.fs.last = new], -1), new)))
\* create_chain: v.val is the new cluster, or the one that follows, or 0 on a full volume.
Allocate(v, c, scl) ==
  Then(Search(v, scl), LAMBDA f:
    IF f.val = 0 THEN f
    ELSE LET new == f.val
             ended == PutFat(f, new, EOC)
             linked == Then(ended, LAMBDA w: IF c = 0 THEN w ELSE PutFat(w, c, new))
         IN  Then(linked, LAMBDA w: Answer(CountFree([w EXCEPT !.fs.last = new], -1), new)))

CreateChain(v, c) ==
  IF c = 0 THEN Allocate(v, 0, IF v.fs.last \in Clusters THEN v.fs.last ELSE 1)
  ELSE Then(GetFat(v, c), LAMBDA g:
         IF g.val < 2 THEN Fail(g, "int") ELSE IF g.val \in Clusters THEN g ELSE Allocate(g, c, c))

-----------------------------------------------------------------------------
(* The root directory, a chain of clusters with an entry each.  v.val is   *)
(* the cluster of the entry, and v.at the one that the walk has come to; a *)
(* walk round a ring of clusters does not end.                             *)

EntryAt(v) == v.win.buf.e
AtRoot(v) == [v EXCEPT !.at = Root]
Walk(F(_), v) ==
  LET w == Turns(LastCluster, F, AtRoot(v))
  IN  IF w.res = "ok" /\ w.at # 0 THEN Fail(w, "endless") ELSE w

\* dir_find with dir_next: 0 while the walk goes on.
FindStep(v, n) ==
  IF v.res # "ok" \/ v.at = 0 THEN v
  ELSE Then(MoveWindow(v, ClustSect(v.at)), LAMBDA w:
         IF EntryAt(w).st = "unused" THEN Fail(w, "nofile")
         ELSE IF EntryAt(w).st = "used" /\ EntryAt(w).name = n
         THEN [w EXCEPT !.val = w.at, !.at = 0]
         ELSE Then(GetFat(w, w.at), LAMBDA g:
                IF g.val < 2 THEN Fail(g, "int")
                ELSE IF g.val \notin Clusters THEN Fail(g, "nofile")
                ELSE [g EXCEPT !.at = g.val]))
Find(v, n) == Walk(LAMBDA w: FindStep(w, n), v)

\* dir_read and dir_next of a search: v.find.at is the next entry, 0 at the end, and v.out
\* the name found.
DirNext(v) ==
  Then(GetFat(v, v.find.at), LAMBDA g:
    IF g.val < 2 THEN Fail(g, "int")
    ELSE [g EXCEPT !.find.at = IF g.val \in Clusters THEN g.val ELSE 0])
ListStep(v) ==
  IF v.res # "ok" \/ v.find.at = 0 \/ v.out # <<>> THEN v
  ELSE Then(MoveWindow(v, ClustSect(v.find.at)), LAMBDA w:
         IF EntryAt(w).st = "unused" THEN [w EXCEPT !.find.at = 0]
         ELSE LET e == EntryAt(w)
                  mine == e.st = "used" /\ e.name \in v.find.pat
              IN  Then(DirNext(w), LAMBDA g: IF mine THEN [g EXCEPT !.out = <<e.name>>] ELSE g))

\* f_readdir; S_First and S_Next call it until a name fits.
\* Mutant: the entry after the one found is passed as well.
FReaddirTwice(v) ==
  LET w == Turns(LastCluster, ListStep, v)
  IN  IF w.res = "ok" /\ w.out # <<>> /\ w.find.at # 0 THEN DirNext(w) ELSE w
FReaddir(v) ==
  LET w == Turns(LastCluster, ListStep, v)
  IN  IF w.res = "ok" /\ w.find.at # 0 /\ w.out = <<>> THEN Fail(w, "endless") ELSE w

\* A cluster is cleared through the window.
ClearCluster(v, c) ==
  Then(SyncWindow(v), LAMBDA w:
    SyncWindow([w EXCEPT !.win = [sect |-> ClustSect(c), buf |-> DirOf(Unused), dirty |-> TRUE]]))

\* dir_alloc: the chain is stretched by a cluster, which is cleared.
Stretch(v) ==
  Then(CreateChain(v, v.at), LAMBDA a:
    IF a.val = 0 THEN Fail(a, "denied")
    ELSE Then(ClearCluster(a, a.val), LAMBDA z: [z EXCEPT !.at = a.val]))
AllocStep(v) ==
  IF v.res # "ok" \/ v.at = 0 THEN v
  ELSE Then(MoveWindow(v, ClustSect(v.at)), LAMBDA w:
         IF EntryAt(w).st # "used" THEN [w EXCEPT !.val = w.at, !.at = 0]
         ELSE Then(GetFat(w, w.at), LAMBDA g:
                IF g.val < 2 THEN Fail(g, "int")
                ELSE IF g.val \in Clusters THEN [g EXCEPT !.at = g.val]
                ELSE Stretch(g)))
Register(v, n) ==
  Then(Walk(AllocStep, v), LAMBDA w:
    Then(MoveWindow(w, ClustSect(w.val)), LAMBDA m: Put(m, DirOf(Entry(n, FALSE, FALSE, 0, 0)))))

RemoveEntry(v, c) == Then(MoveWindow(v, ClustSect(c)), LAMBDA w: Put(w, DirOf(Deleted)))

CardUp(v) == IF Hit(v) THEN Fail(Tick(v), "notready") ELSE [Tick(v) EXCEPT !.win = NoWindow]
\* find_volume: the card is brought up and FSINFO is believed; without it there is no count.
FindVolume(v) ==
  IF v.fs.mounted THEN v
  ELSE Then(CardUp(v), LAMBDA u:
         LET w == MoveWindow(u, Fsi)
         IN  [w EXCEPT !.res = "ok",
                !.fs = IF w.res = "ok"
                       THEN [mounted |-> TRUE, free |-> w.data.free, last |-> w.data.last,
                             fsi |-> "clean"]
                       ELSE [Unmounted EXCEPT !.mounted = TRUE]])

Lookup(v, n) == Then(FindVolume(v), LAMBDA w: Find(w, n))

-----------------------------------------------------------------------------
(* Files.  mode has rd, wr and how: "existing", "new" or "always".         *)

Clear(v, n) ==
  LET old == EntryAt(v).clust
      home == v.win.sect
      w == Put(v, DirOf(Entry(n, FALSE, FALSE, 0, 0)))
  IN  IF old = 0 THEN w
      ELSE Then(RemoveChain(w, old), LAMBDA r:
             MoveWindow([r EXCEPT !.fs.last = old - 1], home))

Create(v, n, how) ==
  IF v.res = "nofile" THEN Then(Register([v EXCEPT !.res = "ok"], n), LAMBDA w: Clear(w, n))
  ELSE Then(v, LAMBDA w:
         IF EntryAt(w).ro \/ EntryAt(w).dir THEN Fail(w, "denied")
         ELSE IF how = "new" THEN Fail(w, "exist") ELSE Clear(w, n))

OpenOld(v, mode) ==
  Then(v, LAMBDA w: IF EntryAt(w).dir THEN Fail(w, "nofile")
                    ELSE IF mode.wr /\ EntryAt(w).ro THEN Fail(w, "denied") ELSE w)

FOpen(v, n, mode) ==
  LET found == Lookup(v, n)
      made == IF mode.how = "existing" THEN OpenOld(found, mode)
              ELSE IF found.res \in {"ok", "nofile"} THEN Create(found, n, mode.how) ELSE found
  IN  Then(made, LAMBDA w:
        [w EXCEPT !.fp[n] =
           [open |-> TRUE, rd |-> mode.rd, wr |-> mode.wr, slot |-> w.win.sect,
            sclust |-> EntryAt(w).clust, clust |-> 0, size |-> EntryAt(w).size, ptr |-> 0,
            dsect |-> 0, buf |-> [i \in 1..Units |-> 0], dirty |-> FALSE,
            written |-> mode.how # "existing", err |-> "ok"]])

\* The prologue of the functions on a file object; what is refused changes nothing.
Checked(v, n, needs, F(_)) ==
  IF v.fp[n].err # "ok" THEN Fail(v, v.fp[n].err)
  ELSE IF ~needs THEN Fail(v, "denied")
  ELSE F(v)
\* ABORT: the error sticks to the file object.
Abort(v, n) == IF v.res = "ok" THEN v ELSE [v EXCEPT !.fp[n].err = v.res]

Within(f) == f.ptr % Units
FlushBuf(v, n) ==
  IF ~v.fp[n].dirty THEN v
  ELSE Then(DiskWrite(v, ClustSect(v.fp[n].dsect), DataOf(v.fp[n].buf)),
            LAMBDA w: [w EXCEPT !.fp[n].dirty = FALSE])
FillBuf(v, n, c) ==
  Then(DiskRead(v, ClustSect(c)), LAMBDA w: [w EXCEPT !.fp[n].buf = UnitsOf(w.data)])
AtBoundary(v, n) == Within(v.fp[n]) = 0

\* f_read, one turn of its loop: v.left units are wanted.
ReadPart(v, n) ==
  LET f == v.fp[n]
      cnt == Lower(Units - Within(f), v.left)
  IN  [v EXCEPT !.out = @ \o SubSeq(f.buf, Within(f) + 1, Within(f) + cnt),
                !.fp[n].ptr = @ + cnt, !.left = @ - cnt]
\* Mutant: whole clusters are read past the buffer.
ReadWholePast(v, n) ==
  Then(DiskRead(v, ClustSect(v.fp[n].clust)), LAMBDA w:
    [w EXCEPT !.out = @ \o UnitsOf(w.data), !.fp[n].ptr = @ + Units, !.left = @ - Units])
ReadWhole(v, n) ==
  LET f == v.fp[n] IN
  Then(DiskRead(v, ClustSect(f.clust)), LAMBDA w:
    [w EXCEPT !.out = @ \o IF f.dirty /\ f.dsect = f.clust THEN f.buf ELSE UnitsOf(w.data),
              !.fp[n].ptr = @ + Units, !.left = @ - Units])
ReadNext(v, n) ==
  LET f == v.fp[n]
      next == IF f.ptr = 0 THEN Answer(v, f.sclust) ELSE GetFat(v, f.clust)
  IN  Then(next, LAMBDA g:
        IF g.val < 2 THEN Fail(g, "int")
        ELSE LET h == [g EXCEPT !.fp[n].clust = g.val]
             IN  IF g.val \notin Clusters THEN Fail(h, "int") ELSE h)
ReadBuffered(v, n) ==
  LET c == v.fp[n].clust
      filled == IF v.fp[n].dsect = c THEN v
                ELSE Then(FlushBuf(v, n), LAMBDA w: FillBuf(w, n, c))
  IN  Then(filled, LAMBDA w: ReadPart([w EXCEPT !.fp[n].dsect = c], n))
ReadTurn(v, n) ==
  IF v.res # "ok" \/ v.left = 0 THEN v
  ELSE IF ~AtBoundary(v, n) THEN ReadPart(v, n)
  ELSE Then(ReadNext(v, n), LAMBDA w:
         IF w.left >= Units THEN ReadWhole(w, n) ELSE ReadBuffered(w, n))
FRead(v, n, cnt) ==
  Checked(v, n, v.fp[n].rd, LAMBDA w:
    Abort(Turns(cnt, LAMBDA x: ReadTurn(x, n),
                [w EXCEPT !.left = Lower(cnt, w.fp[n].size - w.fp[n].ptr)]), n))

\* f_write, one turn of its loop: v.in is what is left to write; a full volume ends it.
WritePart(v, n) ==
  LET f == v.fp[n]
      at == Within(f)
      cnt == Lower(Units - at, Len(v.in))
  IN  [v EXCEPT !.fp[n].buf = [i \in 1..Units |-> IF i \in at + 1..at + cnt THEN v.in[i - at]
                                                  ELSE f.buf[i]],
                !.fp[n].dirty = TRUE, !.fp[n].ptr = @ + cnt, !.in = SubSeq(@, cnt + 1, Len(@))]
WriteWhole(v, n) ==
  LET f == v.fp[n]
      u == SubSeq(v.in, 1, Units)
      cached == f.dsect = f.clust
  IN  Then(DiskWrite(v, ClustSect(f.clust), DataOf(u)), LAMBDA w:
        [w EXCEPT !.fp[n].buf = IF cached THEN u ELSE @, !.fp[n].dirty = @ /\ ~cached,
                  !.fp[n].ptr = @ + Units, !.in = SubSeq(@, Units + 1, Len(@))])
WriteNext(v, n) ==
  LET f == v.fp[n] IN
  IF f.ptr > 0 THEN CreateChain(v, f.clust)
  ELSE IF f.sclust = 0 THEN CreateChain(v, 0) ELSE Answer(v, f.sclust)
WriteBuffered(v, n) ==
  LET f == v.fp[n]
      old == f.dsect # f.clust /\ f.ptr < f.size
  IN  Then(IF old THEN FillBuf(v, n, f.clust) ELSE v,
           LAMBDA w: WritePart([w EXCEPT !.fp[n].dsect = f.clust], n))
WriteTurn(v, n) ==
  IF v.res # "ok" \/ v.in = <<>> THEN v
  ELSE IF ~AtBoundary(v, n) THEN WritePart(v, n)
  ELSE Then(WriteNext(v, n), LAMBDA g:
         IF g.val = 0 THEN [g EXCEPT !.in = <<>>]
         ELSE Then(FlushBuf([g EXCEPT !.fp[n].clust = g.val,
                                      !.fp[n].sclust = IF @ = 0 THEN g.val ELSE @], n), LAMBDA w:
                IF Len(w.in) >= Units THEN WriteWhole(w, n) ELSE WriteBuffered(w, n)))
FWrite(v, n, u) ==
  Checked(v, n, v.fp[n].wr, LAMBDA w:
    Abort(Then(Turns(Len(u), LAMBDA x: WriteTurn(x, n), [w EXCEPT !.in = u]), LAMBDA x:
            [x EXCEPT !.fp[n].size = IF x.fp[n].ptr > @ THEN x.fp[n].ptr ELSE @,
                      !.fp[n].written = TRUE]), n))

\* f_lseek: v.left is what is left to go, v.val the cluster reached.
SeekTurn(v, n) ==
  IF v.res # "ok" \/ v.val = 0 \/ v.left <= Units THEN v
  ELSE Then(IF v.fp[n].wr THEN CreateChain(v, v.val) ELSE GetFat(v, v.val), LAMBDA g:
         IF g.val = 0 /\ v.fp[n].wr THEN [g EXCEPT !.left = Units, !.val = v.val]
         ELSE IF g.val \notin Clusters THEN Fail(g, "int")
         ELSE [g EXCEPT !.fp[n].clust = g.val, !.fp[n].ptr = @ + Units, !.left = @ - Units])
SeekStart(v, n, ofs) ==
  LET f == v.fp[n]
      here == ((f.ptr - 1) \div Units) * Units
  IN  IF f.ptr > 0 /\ ofs - 1 >= here
      THEN [v EXCEPT !.fp[n].ptr = here, !.left = ofs - here, !.val = f.clust]
      ELSE LET w == [v EXCEPT !.fp[n].ptr = 0, !.left = ofs]
           IN  Then(IF f.sclust = 0 THEN CreateChain(w, 0) ELSE Answer(w, f.sclust), LAMBDA g:
                 [g EXCEPT !.fp[n].sclust = g.val, !.fp[n].clust = g.val])
SeekLand(v, n) ==
  IF v.val = 0 THEN v
  ELSE LET w == [v EXCEPT !.fp[n].ptr = @ + v.left]
           f == w.fp[n]
       IN  IF AtBoundary(w, n) \/ f.dsect = w.val THEN w
           ELSE Then(Then(FlushBuf(w, n), LAMBDA x: FillBuf(x, n, w.val)),
                     LAMBDA x: [x EXCEPT !.fp[n].dsect = w.val])
Grown(v, n) ==
  IF v.fp[n].ptr <= v.fp[n].size THEN v
  ELSE [v EXCEPT !.fp[n].size = v.fp[n].ptr, !.fp[n].written = TRUE]
FLseek(v, n, to) ==
  Checked(v, n, TRUE, LAMBDA w:
    LET f == w.fp[n]
        ofs == IF to > f.size /\ ~f.wr THEN f.size ELSE to
    IN  IF ofs = 0 THEN [w EXCEPT !.fp[n].ptr = 0]
        ELSE Abort(Then(Then(Turns(to, LAMBDA x: SeekTurn(x, n), SeekStart(w, n, ofs)),
                             LAMBDA x: SeekLand(x, n)),
                        LAMBDA x: Grown(x, n)), n))

FSyncEntryOnly(v, n) ==
  IF ~v.fp[n].written THEN v
  ELSE Then(MoveWindow(v, v.fp[n].slot), LAMBDA w:
         SyncFs(Put([w EXCEPT !.fp[n].written = FALSE],
                    DirOf([EntryAt(w) EXCEPT !.clust = w.fp[n].sclust,
                                             !.size = w.fp[n].size]))))
\* f_sync: the entry counts as written before the volume has been synchronised.
FSync(v, n) ==
  IF ~v.fp[n].written THEN v
  ELSE Then(Then(FlushBuf(v, n), LAMBDA w: MoveWindow(w, w.fp[n].slot)), LAMBDA w:
         SyncFs(Put([w EXCEPT !.fp[n].written = FALSE],
                    DirOf([EntryAt(w) EXCEPT !.clust = w.fp[n].sclust,
                                             !.size = w.fp[n].size]))))

FTruncate(v, n) ==
  Checked(v, n, v.fp[n].wr, LAMBDA w:
    LET f == w.fp[n]
        x == [w EXCEPT !.fp[n].size = f.ptr, !.fp[n].written = TRUE]
        cut == IF f.ptr = 0 THEN [RemoveChain(x, f.sclust) EXCEPT !.fp[n].sclust = 0]
               ELSE Then(GetFat(x, f.clust), LAMBDA g:
                      IF g.val = 1 THEN Fail(g, "int")
                      ELSE IF g.val \notin Clusters THEN g
                      ELSE Then(PutFat(g, f.clust, EOC), LAMBDA y: RemoveChain(y, g.val)))
    IN  IF f.size <= f.ptr THEN w
        ELSE Abort(Then(cut, LAMBDA y: FlushBuf(y, n)), n))

-----------------------------------------------------------------------------
(* Names.  A directory of the model is empty, so that it can be removed.   *)

FUnlink(v, n) ==
  Then(Lookup(v, n), LAMBDA w:
    LET e == EntryAt(w) IN
    IF e.ro THEN Fail(w, "denied")
    ELSE IF e.dir /\ e.clust < 2 THEN Fail(w, "int")
    ELSE Then(IF e.dir THEN MoveWindow(w, ClustSect(e.clust)) ELSE w, LAMBDA d:
           Then(Then(RemoveEntry(d, w.val),
                     LAMBDA x: IF e.clust = 0 THEN x ELSE RemoveChain(x, e.clust)),
                LAMBDA x: SyncFs(x))))

\* The new table goes through the window, and a failure gives its cluster back.
FMkdir(v, n) ==
  LET found == Lookup(v, n)
      new == CreateChain([found EXCEPT !.res = "ok"], 0)
      c == new.val
      made == Then(Then(new, LAMBDA w: ClearCluster(w, c)), LAMBDA w: Register(w, n))
  IN  IF found.res = "ok" THEN Fail(found, "exist")
      ELSE IF found.res # "nofile" THEN found
      ELSE IF new.res = "ok" /\ c = 0 THEN Fail(new, "denied")
      ELSE IF new.res # "ok" THEN new
      ELSE IF made.res # "ok" THEN [RemoveChain([made EXCEPT !.res = "ok"], c) EXCEPT !.res = made.res]
      ELSE SyncFs(Put(made, DirOf(Entry(n, TRUE, FALSE, c, 0))))

FChmod(v, n, ro) ==
  Then(Lookup(v, n), LAMBDA w: SyncFs(Put(w, DirOf([EntryAt(w) EXCEPT !.ro = ro]))))

FRename(v, n, to) ==
  Then(Lookup(v, n), LAMBDA w:
    LET e == EntryAt(w)
        target == Find(w, to)
    IN  IF target.res = "ok" THEN Fail(target, "exist")
        ELSE IF target.res # "nofile" THEN target
        ELSE Then(Register([target EXCEPT !.res = "ok"], to), LAMBDA r:
               Then(RemoveEntry(Put(r, DirOf([e EXCEPT !.name = to])), w.val), LAMBDA x: SyncFs(x))))

FOpendir(v) == Then(FindVolume(v), LAMBDA w: [w EXCEPT !.find.at = Root])

FStat(v, n) == Lookup(v, n)

\* f_getfree: without a count the whole FAT is read; a scan cut short is kept as the count.
ScanStep(v) ==
  IF v.res # "ok" THEN v
  ELSE LET c == v.at + 1
       IN  Then(MoveWindow(v, FatSect(c)), LAMBDA w:
             [w EXCEPT !.at = c, !.left = @ + IF w.win.buf[c] = 0 THEN 1 ELSE 0])
FGetfree(v) ==
  Then(FindVolume(v), LAMBDA w:
    IF w.fs.free # Unknown THEN Answer(w, w.fs.free)
    ELSE LET x == Turns(FatEntries, ScanStep, [w EXCEPT !.left = 0, !.at = 1])
         IN  [x EXCEPT !.val = x.left, !.fs.free = x.left,
                       !.fs.fsi = IF @ = "off" THEN "off" ELSE "due"])
=============================================================================
