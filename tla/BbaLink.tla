------------------------------- MODULE BbaLink -------------------------------
(***************************************************************************)
(* The Broadband Adapter: an RTL8139 behind the GAPS bridge, which sends   *)
(* from four descriptors and receives into a ring, and the two drivers     *)
(* that poll it: bba_hw.c, the backend of the link adapter, where a        *)
(* critical section keeps the thread that transmits and the worker apart,  *)
(* and the stand-alone bba.c, where nothing does.                          *)
(*                                                                         *)
(* The chip is external: it is modelled as far as the drivers rely on it.  *)
(* A frame is copied in two parts, because other masters of the G2 bus and *)
(* the chip itself run between the bursts of a copy.                       *)
(***************************************************************************)
EXTENDS Integers, Sequences

CONSTANTS TxN,        \* TX_N, descriptors
          RingLen,    \* RX_BUF_LEN, bytes
          RxWrap,     \* width of s_dwCurrx
          FrameSizes, \* the sizes in a header, with the checksum of 4 bytes
          TxIds       \* numbers of the frames to be sent, used in turn

ASSUME BbaLinkAssumption ==
  /\ TxN \in Nat \ {0} /\ RingLen \in Nat \ {0} /\ RxWrap \in Nat \ {0}
  /\ RingLen % 4 = 0 /\ RxWrap % RingLen = 0
  /\ FrameSizes \subseteq Nat \ {0} /\ TxIds \in Nat \ {0}

Threads == {"worker", "caller"}  \* NetWorker or BbaRxThread, and who else sends
NoThread == "nobody"
NoFrame == 0
NoHeader == [st |-> "none"]
FreeTx == [host |-> TRUE, a |-> NoFrame, b |-> NoFrame]  \* what it still holds is never read

VARIABLES
  drv,      \* [name, up]: which driver, and whether it has brought the chip up
  cs,       \* the owner of s_g2cs
  bpc,      \* where each thread is
  bjob,     \* what it has in hand: a header, or a descriptor
  curtx,    \* s_dwCurtx
  currx,    \* s_dwCurrx
  tsd,      \* per descriptor: does the host own it, and the parts of its frame
  chipTx,   \* the descriptor that the chip sends next, and the part it has read
  rxOn,     \* the receiver is on and accepts frames
  cbr,      \* where the chip writes
  capr,     \* where the chip believes that the driver reads, less 16
  ring,     \* the frames in the ring
  due,      \* history: the frames handed to the chip and not sent yet
  nextId,   \* history: the number of the next frame
  lapped,   \* history: a descriptor was filled that the chip still owned
  overlap   \* history: two calls were in the driver at once

bbaVars == <<drv, cs, bpc, bjob, curtx, currx, tsd, chipTx, rxOn, cbr, capr, ring, due,
             nextId, lapped, overlap>>
bbaTx  == <<curtx, tsd, chipTx, due, nextId, lapped>>
bbaRx  == <<currx, rxOn, cbr, capr, ring>>

Locked == drv.name = "bba_hw"
Idle(t) == bpc[t] = "idle"

\* What a frame takes in the ring: its size and a header of 4 bytes, in dwords.
Room(size) == ((size + 4 + 3) \div 4) * 4
Wrapped(pos) == pos % RingLen
\* The register holds the position less 16.
TailOf(pos) == Wrapped(pos - 16)
ReadPos == Wrapped(capr + 16)

BbaInit ==
  /\ drv \in [name : {"bba_hw", "bba"}, up : {FALSE}]
  /\ cs = NoThread /\ bpc = [t \in Threads |-> "idle"] /\ bjob = [t \in Threads |-> NoHeader]
  /\ curtx = 0 /\ currx = 0
  /\ tsd = [d \in 0..TxN-1 |-> FreeTx]
  /\ chipTx = [d |-> 0, a |-> NoFrame]
  /\ rxOn = FALSE /\ cbr = 0 /\ capr = TailOf(0) /\ ring = <<>>
  /\ due = <<>> /\ nextId = 1 /\ lapped = FALSE /\ overlap = FALSE

To(t, where) == bpc' = [bpc EXCEPT ![t] = where]
-----------------------------------------------------------------------------
(* Bring-up                                                                *)

\* RtlReset: the chip gives all descriptors back, forgets the ring and starts at 0.
RtlReset ==
  /\ tsd' = [d \in 0..TxN-1 |-> FreeTx]
  /\ chipTx' = [d |-> 0, a |-> NoFrame] /\ due' = <<>>
  /\ rxOn' = FALSE /\ cbr' = 0 /\ capr' = TailOf(0) /\ ring' = <<>>

\* RtlStart up to the receive configuration that makes the chip accept frames.  The
\* store of the tail is a step of its own.
RtlStart == curtx' = 0 /\ currx' = 0 /\ rxOn' = TRUE

\* GapsInit, RtlReset, RtlStart, before there is a second thread.
BbaBringup ==
  /\ ~drv.up /\ drv' = [drv EXCEPT !.up = TRUE]
  /\ RtlStart /\ capr' = TailOf(0)
  /\ UNCHANGED <<cs, bpc, bjob, tsd, chipTx, cbr, ring, due, nextId, lapped, overlap>>
-----------------------------------------------------------------------------
(* Entering and leaving the driver                                         *)

Busy(t) == \E u \in Threads \ {t} : ~Idle(u)

\* Mutant: the backend without its critical section.
EnterFree(t) == drv.up /\ Idle(t) /\ UNCHANGED <<cs, overlap>>
\* BbaTx and BbaRxPoll of the backend take the critical section; the calls of the
\* stand-alone driver just run, and where two of them overlap the model ends.
Enter(t) ==
  /\ drv.up /\ Idle(t)
  /\ IF Locked THEN cs = NoThread /\ cs' = t ELSE UNCHANGED cs
  /\ overlap' = (overlap \/ Busy(t))

\* Mutant: the critical section is kept.
LeaveHeld(t) == To(t, "idle") /\ bjob' = [bjob EXCEPT ![t] = NoHeader] /\ UNCHANGED cs
Leave(t) ==
  /\ To(t, "idle") /\ bjob' = [bjob EXCEPT ![t] = NoHeader]
  /\ cs' = IF cs = t THEN NoThread ELSE cs
-----------------------------------------------------------------------------
(* Tx                                                                      *)

Owned(d) == tsd[d].host

TxBegin(t) ==
  /\ Enter(t) /\ To(t, "txcopy")
  /\ bjob' = [bjob EXCEPT ![t] = [d |-> curtx, id |-> nextId]]
  /\ nextId' = (nextId % TxIds) + 1
  /\ tsd' = [tsd EXCEPT ![curtx].a = nextId]
  /\ lapped' = (lapped \/ ~Owned(curtx))
  /\ UNCHANGED <<drv, curtx, chipTx, due, bbaRx>>

TxCopy(t) ==
  /\ bpc[t] = "txcopy" /\ To(t, "txgo")
  /\ tsd' = [tsd EXCEPT ![bjob[t].d].b = bjob[t].id]
  /\ UNCHANGED <<drv, cs, bjob, curtx, chipTx, due, nextId, lapped, bbaRx, overlap>>

NextTx(d) == (d + 1) % TxN

\* The store of the length hands the frame to the chip.
TxGo(t) ==
  /\ bpc[t] = "txgo" /\ Leave(t)
  /\ tsd' = [tsd EXCEPT ![bjob[t].d].host = FALSE]
  /\ due' = IF lapped THEN <<>> ELSE Append(due, bjob[t].id)
  /\ curtx' = NextTx(curtx)
  /\ UNCHANGED <<drv, chipTx, nextId, lapped, bbaRx, overlap>>
-----------------------------------------------------------------------------
(* Rx                                                                      *)

\* What can be read at a position: the header of the frame there, or whatever the
\* bytes in the middle of one look like.
HeadersAt(pos) ==
  IF \E i \in DOMAIN ring : ring[i].pos = pos
    THEN {[st |-> ring[i].st, size |-> ring[i].size, pos |-> pos] :
            i \in {j \in DOMAIN ring : ring[j].pos = pos}}
    ELSE [st : {"good", "bad", "early"}, size : FrameSizes, pos : {pos}]

Empty == ReadPos = cbr

\* A poll that finds nothing, or a frame whose reception has only begun, changes nothing.
RxLook(t) ==
  /\ Enter(t) /\ ~Empty
  /\ \E h \in HeadersAt(Wrapped(currx)) :
       /\ h.st # "early"
       /\ To(t, IF h.st = "bad" THEN "rxreset" ELSE "rxcopy")
       /\ bjob' = [bjob EXCEPT ![t] = h]
  /\ UNCHANGED <<drv, bbaTx, bbaRx>>

\* Mutant: the header is forgotten.
NextRxNoHeader(pos, size) == ((pos + size + 3) \div 4) * 4 % RxWrap
NextRx(pos, size) == ((pos + size + 4 + 3) \div 4) * 4 % RxWrap

\* The frame is copied, and the position advances.
RxTake(t) ==
  /\ bpc[t] = "rxcopy" /\ To(t, "rxtail")
  /\ currx' = NextRx(currx, bjob[t].size)
  /\ UNCHANGED <<drv, cs, bjob, bbaTx, rxOn, cbr, capr, ring, overlap>>

\* The chip takes back what lies before the position in its register.
Remaining(rp) ==
  IF \E i \in DOMAIN ring : ring[i].pos = rp
    THEN SubSeq(ring, CHOOSE i \in DOMAIN ring : ring[i].pos = rp, Len(ring))
    ELSE IF rp = cbr THEN <<>> ELSE ring

RxTail(t) ==
  /\ bpc[t] = "rxtail" /\ Leave(t)
  /\ capr' = TailOf(currx)
  /\ ring' = Remaining(Wrapped(currx))
  /\ UNCHANGED <<drv, bbaTx, currx, rxOn, cbr, overlap>>

\* A header that makes no sense: the chip is reset and set up again.
RxReset(t) ==
  /\ bpc[t] = "rxreset" /\ To(t, "rxstart") /\ RtlReset
  /\ UNCHANGED <<drv, cs, bjob, curtx, currx, nextId, lapped, overlap>>
RxRestart(t) ==
  /\ bpc[t] = "rxstart" /\ To(t, "rxtail") /\ RtlStart
  /\ UNCHANGED <<drv, cs, bjob, tsd, chipTx, due, nextId, lapped, cbr, capr, ring, overlap>>
-----------------------------------------------------------------------------
(* The chip                                                                *)

Sending == tsd[chipTx.d]

\* It sends the descriptors in turn, and reads a frame in two parts.
ChipTxRead ==
  /\ ~Sending.host /\ chipTx.a = NoFrame
  /\ chipTx' = [chipTx EXCEPT !.a = Sending.a]
  /\ UNCHANGED <<drv, cs, bpc, bjob, curtx, tsd, due, nextId, lapped, bbaRx, overlap>>
ChipTxDone ==
  /\ ~Sending.host /\ chipTx.a # NoFrame
  /\ tsd' = [tsd EXCEPT ![chipTx.d] = FreeTx]
  /\ chipTx' = [d |-> (chipTx.d + 1) % TxN, a |-> NoFrame]
  /\ due' = IF due = <<>> THEN due ELSE Tail(due)
  /\ UNCHANGED <<drv, cs, bpc, bjob, curtx, nextId, lapped, bbaRx, overlap>>

\* A frame arrives if there is room for it: the ring is never quite full, for a full
\* one would look empty.
Fits(size) == ((cbr - ReadPos) % RingLen) + Room(size) < RingLen
Receiving == ring # <<>> /\ ring[Len(ring)].st = "early"
ChipRxBegin(size) ==
  /\ rxOn /\ ~Receiving /\ Fits(size)
  /\ ring' = Append(ring, [pos |-> cbr, size |-> size, st |-> "early"])
  /\ cbr' = Wrapped(cbr + Room(size))
  /\ UNCHANGED <<drv, cs, bpc, bjob, bbaTx, currx, rxOn, capr, overlap>>
ChipRxEnd ==
  /\ Receiving
  /\ \E st \in {"good", "bad"} : ring' = [ring EXCEPT ![Len(ring)].st = st]
  /\ UNCHANGED <<drv, cs, bpc, bjob, bbaTx, currx, rxOn, cbr, capr, overlap>>
-----------------------------------------------------------------------------
\* The backend receives in its worker only, the stand-alone driver in any call.
Receives(t) == t = "worker" \/ ~Locked

BbaThread(t) ==
  \/ TxBegin(t) \/ TxCopy(t) \/ TxGo(t)
  \/ Receives(t) /\ RxLook(t)
  \/ RxTake(t) \/ RxTail(t) \/ RxReset(t) \/ RxRestart(t)
BbaChip ==
  ChipTxRead \/ ChipTxDone \/ (\E size \in FrameSizes : ChipRxBegin(size)) \/ ChipRxEnd
\* Where two calls of the stand-alone driver overlap nothing is promised.
Before(A) == ~overlap /\ A
BbaRuns == Before((\E t \in Threads : BbaThread(t)) \/ BbaChip)

BbaGoesOn(t) ==
  TxCopy(t) \/ TxGo(t) \/ RxTake(t) \/ RxTail(t) \/ RxReset(t) \/ RxRestart(t)

\* The worker polls for ever, a call in the driver goes on, and a frame that has begun to
\* arrive is received to its end.
BbaFairness ==
  /\ SF_bbaVars(Before(RxLook("worker")))
  /\ \A t \in Threads : WF_bbaVars(Before(BbaGoesOn(t)))
  /\ WF_bbaVars(Before(ChipRxEnd))
-----------------------------------------------------------------------------
(* What the drivers have to guarantee                                      *)

\* A frame leaves the adapter whole, and in the order of the calls, unless a descriptor
\* was reused too early or, in the stand-alone driver, two calls overlapped (BbaTx).
BbaSendsWhole ==
  (~Sending.host /\ chipTx.a # NoFrame /\ ~lapped /\ ~overlap) =>
    /\ due # <<>>
    /\ chipTx.a = Head(due) /\ Sending.b = Head(due)

\* Between two polls driver and chip agree where the next frame starts, across the end
\* of the ring, and after a reset: otherwise nothing is ever received again (BbaRxPoll).
InRx == \E t \in Threads : bpc[t] \in {"rxtail", "rxstart"}
BbaInStep ==
  (drv.up /\ ~overlap /\ ~InRx) =>
    /\ Wrapped(currx) = ReadPos
    /\ ReadPos = IF ring = <<>> THEN cbr ELSE Head(ring).pos
=============================================================================
