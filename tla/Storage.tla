------------------------------- MODULE Storage -------------------------------
(***************************************************************************)
(* External Storage: the file system driver that Windows CE calls for the  *)
(* SD card (sdcard.c), over FatFs and the card driver.  A critical section *)
(* makes every call one step, so the hazards are in what one call leaves   *)
(* for the next, in a call to the card that fails, and in the power going  *)
(* between two writes to the card.                                         *)
(*                                                                         *)
(* Nothing keeps a file from being opened twice, or removed, renamed or    *)
(* created anew while it is open (there is no _FS_LOCK); the callers of    *)
(* the model do not do so.                                                 *)
(***************************************************************************)
EXTENDS FatFs

CONSTANTS Names,     \* names of files and directories
          Lengths,   \* units that a call reads or writes
          Offsets,   \* where SetFilePointer goes
          Starts,    \* how the card may be at the start
          OldLen,    \* units in the file that it may hold
          MaxOps, MaxTrouble, MaxCalls  \* bounds: calls, faults and power cuts, calls to the card

ClustersFor(m) == (m + Units - 1) \div Units

\* The file fits on the card, and there are names for those that are open at the start.
ASSUME StorageAssumption ==
  /\ Lengths \subseteq Nat \ {0} /\ Offsets \subseteq Nat /\ Starts \subseteq {"empty", "file", "open"}
  /\ {OldLen, MaxOps, MaxTrouble, MaxCalls} \subseteq Nat
  /\ ClustersFor(OldLen) < FatEntries
  /\ "open" \in Starts => \A n \in Names : Names # {n}

VARIABLES
  disk,    \* the card
  win,     \* the window: fs->win, fs->winsect, fs->wflag
  fs,      \* g_fs: fs_type, free_clust, last_clust, fsi_flag
  fp,      \* the open files
  find,    \* the search that is open: pat is the set of names it asks for, at the entry it
           \* comes to next; history: the names seen, and those that were there all along
  want,    \* history: what each name should hold now
  safe,    \* history: what it should hold if the power went now
  cut,     \* history: a file was truncated to nothing and not flushed since
  twin,    \* history: a rename was cut short
  misread, \* history: a call answered something else than want
  ops, faults, cuts  \* history: counters of the bounds

vars == <<disk, win, fs, fp, find, want, safe, cut, twin, misread, ops, faults, cuts>>

Unsure == [k |-> "unsure"]
Gone   == [k |-> "gone"]
Folder == [k |-> "dir"]
Holds(u) == [k |-> "file", u |-> u]

-----------------------------------------------------------------------------
(* What is on a card.                                                      *)

FatOf(d, c) == d[FatSect(c)][c]
\* The clusters of a chain in order; it ends at a free cluster too.
Hop(d, s) ==
  IF s.at \notin Clusters \/ FatOf(d, s.at) = 0 THEN s
  ELSE [at |-> FatOf(d, s.at), seq |-> Append(s.seq, s.at)]
Chain(d, c) == Turns(FatEntries, LAMBDA s: Hop(d, s), [at |-> c, seq |-> <<>>]).seq
Whole(d, c) == c = 0 \/ (Chain(d, c) # <<>> /\ FatOf(d, Last(Chain(d, c))) = EOC)

Table(d) == Chain(d, Root)
\* A table was stretched and not cleared: the power went, or the window could not be written.
Torn(d) == \E c \in Range(Table(d)) : d[ClustSect(c)].is # "dir"
\* The entries in use, up to the first that never was.
Slots(d) ==
  LET e(c) == d[ClustSect(c)].e
      live == {i \in DOMAIN Table(d) : \A j \in 1..i : e(Table(d)[j]).st # "unused"}
  IN  {e(Table(d)[i]) : i \in live} \ {Deleted}
Content(d, e) ==
  LET ch == Chain(d, e.clust)
      data == FoldLeft(LAMBDA s, c: s \o UnitsOf(d[ClustSect(c)]), <<>>, ch)
  IN  IF e.size > Len(data) THEN data ELSE SubSeq(data, 1, e.size)
OnCard(d, n) ==
  LET mine == {e \in Slots(d) : e.name = n} IN
  IF mine = {} THEN Gone
  ELSE LET e == CHOOSE x \in mine : TRUE IN IF e.dir THEN Folder ELSE Holds(Content(d, e))

SameUnits(u, w) == Len(u) = Len(w) /\ \A i \in 1..Len(u) : u[i] = w[i] \/ w[i] = AnyUnit
Same(x, y) == x.k = y.k /\ (x.k = "file" => SameUnits(x.u, y.u))

\* The card as a call sees it, the window over it.
Seen == IF win.dirty THEN [disk EXCEPT ![win.sect] = win.buf] ELSE disk
Free(d) == Cardinality({c \in Clusters : FatOf(d, c) = 0})

-----------------------------------------------------------------------------

FileLen(m) == [i \in 1..m |-> 1]
Formatted(owner, m) ==
  LET cnt == ClustersFor(m)
      fat(c) == IF c = Root THEN EOC ELSE IF c - 2 < cnt THEN c + 1
                ELSE IF c - 2 = cnt THEN EOC ELSE 0
      unit(i) == IF i <= m THEN 1 ELSE 0
  IN  [s \in {FatSect(c) : c \in Clusters} \cup {ClustSect(c) : c \in Clusters} \cup {Fsi} |->
        IF s = Fsi THEN [free |-> FatEntries - 1 - cnt, last |-> cnt + 2]
        ELSE IF s[1] = "fat"
        THEN [c \in {x \in Clusters : FatSect(x) = s} |-> fat(c)]
        ELSE IF s = ClustSect(Root)
        THEN DirOf(IF m = 0 THEN Unused ELSE Entry(owner, FALSE, FALSE, 3, m))
        ELSE DataOf([i \in 1..Units |-> unit((s[2] - 3) * Units + i)])]

NoFault == [at |-> 0, kept |-> FALSE]
NoFind == [open |-> FALSE, pat |-> {}, at |-> 0, seen |-> {}, stay |-> {}]
Record(d, w, f, p, s, bad) ==
  [disk |-> d, win |-> w, fs |-> f, fp |-> p, find |-> s, bad |-> bad, io |-> <<>>, res |-> "ok",
   val |-> 0, data |-> 0, at |-> 0, left |-> 0, in |-> <<>>, out |-> <<>>]
Volume(bad) == Record(disk, win, fs, fp, find, bad)

\* With "open" the file is open, and so is the one that was last created.
Begin(owner, m, opened) ==
  LET v0 == Record(Formatted(owner, m), NoWindow, Unmounted, [n \in Names |-> NoFile], NoFind,
                   NoFault)
      v1 == FOpen(v0, owner, [rd |-> TRUE, wr |-> TRUE, how |-> "existing"])
      other == CHOOSE n \in Names : n # owner
  IN  IF opened THEN FOpen(v1, other, [rd |-> TRUE, wr |-> TRUE, how |-> "always"]) ELSE v0

Init ==
  \E owner \in Names, start \in Starts :
    LET m == IF start = "empty" THEN 0 ELSE OldLen
        v == Begin(owner, m, start = "open")
        old(n) == IF n = owner /\ m > 0 THEN Holds(FileLen(m)) ELSE Gone
        new(n) == start = "open" /\ n # owner
    IN
    /\ disk = v.disk /\ win = v.win /\ fs = v.fs /\ fp = v.fp /\ find = NoFind
    /\ safe = [n \in Names |-> IF new(n) THEN Unsure ELSE old(n)]
    /\ want = [n \in Names |-> IF new(n) THEN Holds(<<>>) ELSE old(n)]
    /\ cut = [n \in Names |-> FALSE]
    /\ twin = FALSE
    /\ misread = FALSE
    /\ ops = 0 /\ faults = 0 /\ cuts = 0

\* A call to the card that fails, or none.
CanFail == faults + cuts < MaxTrouble
Faults == {NoFault} \cup IF CanFail THEN [at : 1..MaxCalls, kept : BOOLEAN] ELSE {}
Happened(bad, v) == bad.at > 0 /\ v.bad.at <= 0

\* The power has gone, and the card is left as d.
Dark(d, s) ==
  /\ disk' = d
  /\ win' = NoWindow
  /\ fs' = Unmounted
  /\ fp' = [n \in Names |-> NoFile]
  /\ find' = NoFind
  /\ safe' = s
  /\ want' = s
  /\ cuts' = cuts + 1

\* What a call leaves; a search misses the names that it has changed.
Leaves(v, changed) ==
  /\ disk' = v.disk
  /\ win' = v.win
  /\ fs' = v.fs
  /\ fp' = v.fp
  /\ find' = [v.find EXCEPT !.stay = @ \ changed]
  /\ UNCHANGED cuts

\* A file was shortened and its buffer, which is for a cluster it gave back, could not be
\* written: a flush would write it into whatever file has the cluster by then.
Stray(n) == fp[n].open /\ fp[n].dirty /\ FatOf(Seen, fp[n].dsect) = 0

Now == [n \in Names |-> [want |-> want[n], safe |-> safe[n]]]
Both(x) == [want |-> x, safe |-> x]
Pending(x) == [want |-> x, safe |-> Unsure]

\* A call F under the lock.  It may change what the names in touched hold, and cutting are
\* those it may leave with an entry that points at clusters it has freed.  Known says what
\* the names hold when it succeeds, Right whether its answer is right.
Sound == ~twin /\ ~Torn(disk) /\ ~Torn(Seen) /\ \A n \in Names : (cut[n] => fp[n].open) /\ ~Stray(n)
Call(F(_), touched, cutting, Known(_), Right(_)) ==
  /\ ops < MaxOps /\ Sound
  /\ ops' = ops + 1
  /\ \E bad \in Faults :
       LET v == F(Volume(bad))
           spoilt(n) == v.res \in {"disk", "int"} /\ n \in touched
           after == [n \in Names |-> IF spoilt(n) THEN Both(Unsure)
                                     ELSE IF v.res = "ok" THEN Known(v)[n] ELSE Now[n]]
       IN
       /\ bad # NoFault => Happened(bad, v)
       /\ faults' = faults + IF bad = NoFault THEN 0 ELSE 1
       /\ \/ /\ Leaves(v, {n \in touched : ~fp[n].open})
             /\ want' = [n \in Names |-> after[n].want]
             /\ safe' = [n \in Names |-> after[n].safe]
             /\ cut' = [n \in Names |-> (cut[n] /\ ~(n \in touched /\ after[n].safe # Unsure))
                                        \/ (n \in cutting /\ v.res \in {"ok", "disk", "int"})]
             /\ twin' = (Cardinality(touched) > 1 /\ \E n \in touched : spoilt(n))
             /\ misread' = (misread \/ v.res = "endless" \/ (bad = NoFault /\ ~Right(v)))
          \/ /\ CanFail /\ bad = NoFault
             /\ \E i \in 1..Len(v.io) - 1 :
                  Dark(v.io[i], [n \in Names |-> IF n \in touched THEN Unsure ELSE safe[n]])
             /\ cut' = [n \in Names |-> cut[n] \/ n \in cutting]
             /\ twin' = (Cardinality(touched) > 1)
             /\ UNCHANGED misread

PowerCut ==
  /\ CanFail
  /\ Dark(disk, safe)
  /\ UNCHANGED <<cut, twin, misread, ops, faults>>

-----------------------------------------------------------------------------
(* The calls.                                                              *)

Closed(n) == ~fp[n].open
Open(n) == fp[n].open
Nothing(v) == Now
Only(n, x) == [Now EXCEPT ![n] = x]
Is(n, k) == want[n].k = k
Size(n) == Len(want[n].u)

\* Does the answer to a call that looks for n fit what n is?
Found(n, v) == /\ Is(n, "gone") => v.res = "nofile"
               /\ want[n].k \in {"file", "dir"} => v.res # "nofile"

\* V_CreateFile: OPEN_ALWAYS opens as OPEN_EXISTING does, TRUNCATE_EXISTING as CREATE_ALWAYS.
Modes == [rd : {TRUE}, wr : BOOLEAN, how : {"existing"}]
         \cup [rd : {TRUE}, wr : {TRUE}, how : {"always", "new"}]
CreateFile(n, mode) ==
  /\ Closed(n)
  /\ IF mode.how = "existing"
     THEN Call(LAMBDA v: FOpen(v, n, mode), {}, {}, Nothing,
               LAMBDA v: /\ Is(n, "file") => v.res # "nofile" /\ (v.res = "ok" => v.fp[n].size = Size(n))
                         /\ want[n].k \in {"gone", "dir"} => v.res = "nofile")
     ELSE Call(LAMBDA v: FOpen(v, n, mode), {n}, {}, LAMBDA v: Only(n, Pending(Holds(<<>>))),
               LAMBDA v: /\ mode.how = "new" /\ Is(n, "file") => v.res \in {"exist", "denied"}
                         /\ Is(n, "dir") => v.res = "denied"
                         /\ v.res = "ok" => v.fp[n].size = 0)

\* What a write of units u at position at leaves.
Written(n, at, u) ==
  LET old == want[n].u
      len == IF at + Len(u) > Len(old) THEN at + Len(u) ELSE Len(old)
  IN  Holds([i \in 1..len |-> IF i \in at + 1..at + Len(u) THEN u[i - at]
                              ELSE IF i <= Len(old) THEN old[i] ELSE AnyUnit])
Sure(n, x) == IF Is(n, "file") THEN x ELSE Pending(Unsure)
Data(cnt) == [i \in 1..cnt |-> ops + 2]

\* F_Write: fewer units are written on a full volume.
Write(n, cnt) ==
  /\ Open(n)
  /\ Call(LAMBDA v: FWrite(v, n, Data(cnt)), {n}, {},
          LAMBDA v: Only(n, Sure(n, Pending(Written(n, fp[n].ptr,
                                                    Data(v.fp[n].ptr - fp[n].ptr))))),
          LAMBDA v: TRUE)

\* F_WriteSeek: the result of the seek is not looked at.
WriteSeek(n, to, cnt) ==
  /\ Open(n)
  /\ Call(LAMBDA v: FWrite([FLseek(v, n, to) EXCEPT !.res = "ok"], n, Data(cnt)), {n}, {},
          LAMBDA v: Only(n, Sure(n, LET cnt2 == v.fp[n].ptr - to IN
                      Pending(IF cnt2 < 0 THEN Unsure ELSE Written(n, to, Data(cnt2))))),
          LAMBDA v: TRUE)

\* What a read of cnt units at a position must give.
Reads(n, at, cnt, v) ==
  v.res = "ok" /\ Is(n, "file") =>
    SameUnits(v.out, SubSeq(want[n].u, at + 1, Lower(at + cnt, Size(n))))
Read(n, cnt) ==
  /\ Open(n)
  /\ Call(LAMBDA v: FRead(v, n, cnt), {}, {}, Nothing, LAMBDA v: Reads(n, fp[n].ptr, cnt, v))
ReadSeek(n, to, cnt) ==
  /\ Open(n) /\ (fp[n].wr => to <= fp[n].size)
  /\ Call(LAMBDA v: FRead([FLseek(v, n, to) EXCEPT !.res = "ok"], n, cnt), {}, {}, Nothing,
          LAMBDA v: Reads(n, to, cnt, v))

\* F_SetPointer: past the end of a file open for writing, the seek lengthens it.
SetPointer(n, to) ==
  /\ Open(n)
  /\ Call(LAMBDA v: FLseek(v, n, to), {n}, {},
          LAMBDA v: Only(n, IF v.fp[n].size = fp[n].size THEN Now[n]
                            ELSE Sure(n, Pending(Written(n, v.fp[n].size, <<>>)))),
          LAMBDA v: TRUE)

Kept(n) == IF Is(n, "unsure") THEN Now[n] ELSE Both(want[n])
Flush(n) ==
  /\ Open(n)
  /\ Call(LAMBDA v: FSync(v, n), {n}, {}, LAMBDA v: Only(n, Kept(n)), LAMBDA v: TRUE)
\* F_Close frees the file object whatever f_close says.
Close(n) ==
  /\ Open(n)
  /\ Call(LAMBDA v: [FSync(v, n) EXCEPT !.fp[n] = NoFile], {n}, {},
          LAMBDA v: Only(n, Kept(n)), LAMBDA v: TRUE)

SetEnd(n) ==
  /\ Open(n)
  /\ Call(LAMBDA v: FTruncate(v, n), {n}, IF fp[n].ptr = 0 /\ fp[n].size > 0 THEN {n} ELSE {},
          LAMBDA v: Only(n, IF fp[n].size <= fp[n].ptr THEN Now[n]
                            ELSE Sure(n, Pending(Holds(SubSeq(want[n].u, 1, fp[n].ptr))))),
          LAMBDA v: TRUE)

\* V_DeleteFile and V_RemoveDirectory are the same.
DeleteFile(n) ==
  /\ Closed(n)
  /\ Call(LAMBDA v: FUnlink(v, n), {n}, {}, LAMBDA v: Only(n, Both(Gone)), LAMBDA v: Found(n, v))
CreateDirectory(n) ==
  /\ Closed(n)
  /\ Call(LAMBDA v: FMkdir(v, n), {n}, {}, LAMBDA v: Only(n, Both(Folder)),
          LAMBDA v: want[n].k \in {"file", "dir"} => v.res = "exist")
SetFileAttributes(n, ro) ==
  Call(LAMBDA v: FChmod(v, n, ro), {}, {}, Nothing, LAMBDA v: Found(n, v))
MoveFile(n, to) ==
  /\ Closed(n) /\ Closed(to) /\ n # to
  /\ Call(LAMBDA v: FRename(v, n, to), {n, to}, {},
          LAMBDA v: [Now EXCEPT ![to] = Now[n], ![n] = Both(Gone)], LAMBDA v: Found(n, v))
GetFileAttributes(n) ==
  Call(LAMBDA v: FStat(v, n), {}, {}, Nothing, LAMBDA v: Found(n, v))

\* S_Next, after an error too, answers that there are no more files, and an application
\* that is told so closes its search.
Listed(v) ==
  IF v.res = "ok" THEN [v EXCEPT !.find.seen = @ \cup Range(v.out)]
  ELSE [v EXCEPT !.find = NoFind]
Existing == {n \in Names : want[n].k \in {"file", "dir"}}
Asked(pat) == [open |-> TRUE, pat |-> pat, at |-> 0, seen |-> {}, stay |-> Existing \cap pat]
FirstOf(v, pat) ==
  LET w == FOpendir([v EXCEPT !.find = Asked(pat)])
      x == Listed(Then(w, LAMBDA y: FReaddir(y)))
  IN  IF x.out = <<>> THEN [x EXCEPT !.find = NoFind] ELSE x
FindFirstFile(pat) ==
  /\ ~find.open
  /\ Call(LAMBDA v: FirstOf(v, pat), {}, {}, Nothing,
          LAMBDA v: Existing \cap pat # {} => v.out # <<>>)
FindNext ==
  /\ find.open
  /\ Call(LAMBDA v: Listed(FReaddir(v)), {}, {}, Nothing, LAMBDA v: TRUE)
FindClose ==
  /\ find.open
  /\ Call(LAMBDA v: [v EXCEPT !.find = NoFind], {}, {}, Nothing, LAMBDA v: TRUE)

GetDiskFreeSpace ==
  Call(LAMBDA v: FGetfree(v), {}, {}, Nothing, LAMBDA v: TRUE)

Next ==
  \/ \E n \in Names :
       \/ \E mode \in Modes : CreateFile(n, mode)
       \/ \E cnt \in Lengths : Write(n, cnt) \/ Read(n, cnt)
       \/ \E cnt \in Lengths, to \in Offsets : WriteSeek(n, to, cnt) \/ ReadSeek(n, to, cnt)
       \/ \E to \in Offsets : SetPointer(n, to)
       \/ Flush(n) \/ Close(n) \/ SetEnd(n)
       \/ DeleteFile(n) \/ CreateDirectory(n) \/ GetFileAttributes(n)
       \/ \E ro \in BOOLEAN : SetFileAttributes(n, ro)
       \/ \E to \in Names : MoveFile(n, to)
  \/ \E pat \in {Names} \cup {{n} : n \in Names} : FindFirstFile(pat)
  \/ FindNext \/ FindClose \/ GetDiskFreeSpace
  \/ PowerCut

Spec == Init /\ [][Next]_vars

-----------------------------------------------------------------------------
\* Two names never share a cluster of the card, nor is a cluster of theirs free, at any
\* moment the power might go: the window writes the FAT and the directory in the order in
\* which they were changed, a chain is linked only to a cluster that is taken, and an
\* entry goes before its clusters do.  Truncating to nothing is the exception (cut).
ChainsApart ==
  Sound =>
    LET used == {e \in Slots(disk) : e.clust # 0}
        claims(e) == Range(Chain(disk, e.clust))
    IN  /\ \A e \in used : cut[e.name] \/ Whole(disk, e.clust)
        /\ \A e \in used : cut[e.name] \/ claims(e) \cap Range(Table(disk)) = {}
        /\ \A e, f \in used : e # f /\ ~cut[e.name] /\ ~cut[f.name] => claims(e) \cap claims(f) = {}

\* A flush, a close, a removal or a renaming that reported success is on the card, and stays
\* there whatever happens to other files and whenever the power goes.
SyncedSurvives ==
  Sound => \A n \in Names : safe[n] = Unsure \/ Same(OnCard(disk, n), safe[n])

\* What is read, looked up or sized is what was last written, through the sector buffer of
\* the file, the window and the writes that pass both, and no call goes round a chain for
\* ever.
ReadsBack == ~misread

\* A search lists every name it asks for that was there all along, whatever is created,
\* removed and renamed while it goes on: it has seen those whose entries it has passed.
Passed(c) ==
  find.at = 0 \/ \E i, j \in 1..Len(Table(Seen)) : i < j /\ Table(Seen)[i] = c
                                                        /\ Table(Seen)[j] = find.at
EntryOf(n) ==
  {c \in Range(Table(Seen)) : LET e == Seen[ClustSect(c)].e IN e.st = "used" /\ e.name = n}
ListsAll ==
  find.open /\ Sound =>
    \A n \in find.stay \ find.seen : \A c \in EntryOf(n) : ~Passed(c)

\* The count of free clusters, which Explorer shows and the driver never checks, follows
\* every allocation and release, until a call to the card fails or the power goes.
FreeCountRight ==
  fs.mounted /\ faults = 0 /\ cuts = 0 => fs.free = Free(Seen)
=============================================================================
