------------------------------- MODULE SysLog -------------------------------
(***************************************************************************)
(* The system log: a ring of lines in a shared section of its own.  Any    *)
(* program or driver appends a line (SysLogW of syslog.c): an interlocked  *)
(* increment claims its number, then the text is copied into the cell.     *)
(* The viewer (dcwlog.c) polls the number and copies the lines it shows.   *)
(* Writers and viewer cut each other between any two parts of a copy.      *)
(* Numbers are plain; 2^32 lines are not reached.                          *)
(***************************************************************************)
EXTENDS Integers, Sequences

CONSTANTS LogWriters,   \* the threads that log
          LINES,        \* SYSLOG_LINES
          NVIS,         \* rows of the viewer's window
          MaxLines      \* bound: lines written in one behaviour

ASSUME SysLogAssumption == LINES \in Nat \ {0} /\ NVIS \in Nat \ {0} /\ MaxLines \in Nat

VARIABLES lineHead, line,   \* SysLogShared: head, and a cell in two parts
          logAt, lIdx,      \* a writer: the parts it still has to copy, its number
          viewAt, lHead,    \* the viewer: the row and part it copies, head as of the frame
          lLastHead, nScroll,
          shown,            \* the frame that it builds
          done, mixed,      \* history: the lines that are complete, those that were
          before            \* in a cell with another writer, and those that were
                            \* complete when the viewer began its last frame

shared  == <<lineHead, line>>
writers == <<logAt, lIdx>>
viewer  == <<viewAt, lHead, lLastHead, nScroll, shown>>
logHistory == <<done, mixed, before>>
logVars == <<shared, writers, viewer, logHistory>>

Parts == 1..2
Rows  == 1..NVIS
Blank == [p \in Parts |-> <<>>]  \* a line of the model is its writer and its number
CellOf(n) == n % LINES

LogInit ==
  /\ lineHead = 0 /\ line = [c \in 0..LINES - 1 |-> Blank]
  /\ logAt = [w \in LogWriters |-> 0] /\ lIdx = [w \in LogWriters |-> -1]
  /\ viewAt = <<>> /\ lHead = 0 /\ lLastHead = -1 /\ nScroll = 0
  /\ shown = [r \in Rows |-> Blank] /\ done = {} /\ mixed = {} /\ before = {}
-----------------------------------------------------------------------------
\* A writer that was slow is still in the cell when it comes round again.  The same number
\* twice is no excuse.
Meets(w) ==
  LET inside == {lIdx[v] : v \in {v \in LogWriters \ {w} :
                                    logAt[v] # 0 /\ CellOf(lIdx[v]) = CellOf(lIdx'[w])}}
  IN mixed' = mixed \cup IF inside = {} \/ lIdx'[w] \in inside THEN {} ELSE inside \cup {lIdx'[w]}

\* Mutant: a plain increment, which one of another writer can undo.
ClaimPlain(w) ==
  /\ logAt[w] = 0 /\ lineHead < MaxLines
  /\ lIdx' = [lIdx EXCEPT ![w] = lineHead]
  /\ lineHead' = IF \E v \in LogWriters : logAt[v] # 0 THEN lineHead ELSE lineHead + 1
  /\ logAt' = [logAt EXCEPT ![w] = 1] /\ Meets(w)
  /\ UNCHANGED <<line, viewer, done, before>>
\* InterlockedIncrement
Claim(w) ==
  /\ logAt[w] = 0 /\ lineHead < MaxLines
  /\ lIdx' = [lIdx EXCEPT ![w] = lineHead] /\ lineHead' = lineHead + 1
  /\ logAt' = [logAt EXCEPT ![w] = 1] /\ Meets(w)
  /\ UNCHANGED <<line, viewer, done, before>>

CopyPart(w) ==
  /\ logAt[w] \in Parts
  /\ line' = [line EXCEPT ![CellOf(lIdx[w])][logAt[w]] = <<w, lIdx[w]>>]
  /\ IF logAt[w] = 2
       THEN logAt' = [logAt EXCEPT ![w] = 0] /\ done' = done \cup {lIdx[w]}
       ELSE logAt' = [logAt EXCEPT ![w] = @ + 1] /\ UNCHANGED done
  /\ UNCHANGED <<lineHead, lIdx, viewer, mixed, before>>
-----------------------------------------------------------------------------
\* The number of the line in a row.
LineAt(r, h, scroll) == h - NVIS - scroll + r - 1
InRing(n, h) == n >= 0 /\ h - n <= LINES

Clamped(scroll, h) ==
  IF scroll > h - NVIS THEN (IF h > NVIS THEN h - NVIS ELSE 0) ELSE scroll

\* One turn of the loop: head, the keys, and whether a frame is due.  A row that has no
\* line stays empty.
ViewPoll ==
  /\ viewAt = <<>>
  /\ \E scroll \in {nScroll, nScroll + 1, nScroll - 1, 0} \cap Nat :
       /\ lLastHead' = lineHead
       /\ IF scroll # nScroll \/ (lineHead # lLastHead /\ scroll = 0)
            THEN /\ lHead' = lineHead /\ nScroll' = Clamped(scroll, lineHead)
                 /\ viewAt' = <<1, 1>> /\ shown' = [r \in Rows |-> Blank] /\ before' = done
            ELSE UNCHANGED <<lHead, nScroll, viewAt, shown, before>>
  /\ UNCHANGED <<shared, writers, done, mixed>>

\* One part of a DCWinText, straight from the cell.
ViewPart ==
  /\ viewAt # <<>>
  /\ LET r == viewAt[1]
         p == viewAt[2]
         n == LineAt(r, lHead, nScroll)
     IN /\ shown' = IF InRing(n, lHead) THEN [shown EXCEPT ![r][p] = line[CellOf(n)][p]] ELSE shown
        /\ viewAt' = IF p = 1 THEN <<r, 2>> ELSE IF r < NVIS THEN <<r + 1, 1>> ELSE <<>>
  /\ UNCHANGED <<shared, writers, lHead, lLastHead, nScroll, logHistory>>

LogNext == (\E w \in LogWriters : Claim(w) \/ CopyPart(w)) \/ ViewPoll \/ ViewPart

LogSpec == LogInit /\ [][LogNext]_logVars
-----------------------------------------------------------------------------
\* A row of a finished frame (dcwlog.c) holds its line, whole and as it was written, if
\* that line was complete when the viewer looked, no writer was so slow that its cell came
\* round again, and the cell has not been claimed since.
ShownAsWritten ==
  viewAt = <<>> =>
    \A r \in Rows :
      LET n == LineAt(r, lHead, nScroll)
      IN n \in before \ mixed /\ lineHead - n <= LINES
           => \E w \in LogWriters : shown[r] = [p \in Parts |-> <<w, n>>]
=============================================================================
