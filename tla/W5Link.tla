-------------------------------- MODULE W5Link --------------------------------
(***************************************************************************)
(* The W5500 backend (w5500.c) over the SPI driver (dcspi.c): the probe,   *)
(* which takes a serial port away from the debug console and has to give   *)
(* it back, and frames sent and received through the buffers of the chip,  *)
(* one SPI transaction at a time.                                          *)
(*                                                                         *)
(* A transaction is one step, because W5Write and W5Read hold the lock     *)
(* s_w5cs for its length; a transmission or a poll is several of them.     *)
(* The chip is external.  A buffer position counts frames in the units of  *)
(* Lens, and is kept modulo W5Wrap as the 16-bit registers are.            *)
(***************************************************************************)
EXTENDS Integers, Sequences

CONSTANTS W5Wrap,  \* width of the position registers
          W5Buf,   \* size of a buffer of the chip, in units
          Lens,    \* lengths of frames, in units
          W5Ids    \* numbers of the frames to be sent, used in turn

ASSUME W5LinkAssumption ==
  /\ W5Wrap \in Nat \ {0} /\ W5Buf \in Nat \ {0} /\ W5Wrap % W5Buf = 0 /\ W5Buf < W5Wrap
  /\ Lens \subseteq Nat \ {0} /\ W5Ids \in Nat \ {0}

W5Threads == {"netWorker", "app"}  \* both send, the worker polls
NoW5Frame == 0

\* What a probe may change: who drives the pins of the SCIF, and its RTS line.
Console == [pins |-> "uart", rts |-> "modem"]
NotSaved == [pins |-> "none", rts |-> "none"]

VARIABLES
  bus,     \* s_nBus: "none", "sci", "scif"
  probe,   \* what W5500Probe and W5500Init do next
  retail,  \* the board has the port pin PA7 for the chip select
  scif,    \* the SCIF as the debug console needs it, or not
  saved,   \* what ScifSaveConsole saved
  sci,     \* the SCI: "off", "half" or "on"
  wpc,     \* where each thread is
  wjob,    \* the locals of W5500Tx and W5500RxPoll
  txmem,   \* transmit buffer: per cell the frame it belongs to
  txrd,    \* where the chip sends next
  txwr,    \* Sn_TX_WR
  sending, \* Sn_CR holds SEND and the chip has not accepted it
  rxq,     \* frames in the receive buffer
  rxwr,    \* where the chip writes
  rxrd,    \* Sn_RX_RD
  rxfree,  \* where the chip believes that the driver reads: RX_RD at the last RECV
  w5due,   \* history: what was handed to the chip and not sent, per unit its frame
  w5Id,    \* history: number of the next frame
  clash,   \* history: two transmissions overlapped, or one gave up
  lost     \* history: a RECV has overwritten a SEND since the chip last sent

spi    == <<bus, probe, retail, scif, saved, sci>>
w5tx   == <<txmem, txrd, txwr, sending, w5due, w5Id, clash, lost>>
w5rx   == <<rxq, rxwr, rxrd, rxfree>>
w5Vars == <<spi, wpc, wjob, w5tx, w5rx>>

Pos(n) == n % W5Wrap
Cell(n) == n % W5Buf
NoJob == [rd |-> 0, rsr |-> 0, len |-> 0, id |-> NoW5Frame]

W5Init ==
  /\ bus = "none" /\ retail \in BOOLEAN
  /\ probe \in {<<>>, <<"sci">>, <<"scif">>, <<"sci", "scif">>}  \* W5500Bus = 0, 1, 2, 3
  /\ scif = Console /\ saved = NotSaved /\ sci = "off"
  /\ wpc = [t \in W5Threads |-> "idle"] /\ wjob = [t \in W5Threads |-> NoJob]
  /\ txmem = [c \in 0..W5Buf-1 |-> NoW5Frame] /\ txrd = 0 /\ txwr = 0 /\ sending = FALSE
  /\ rxq = <<>> /\ rxwr = 0 /\ rxrd = 0 /\ rxfree = 0
  /\ w5due = <<>> /\ w5Id = 1 /\ clash = FALSE /\ lost = FALSE
-----------------------------------------------------------------------------
(* Probe                                                                   *)

\* ScifInitRaw: the console's registers are saved and the port becomes a bus.
ScifInit ==
  /\ saved' = scif
  /\ scif' = [pins |-> "spi", rts |-> "gpio"]
  /\ UNCHANGED sci

\* SciInitRaw wakes the SCI and takes a chip select, on boards without PA7 the RTS line
\* of the SCIF.  It fails if the transmitter does not get ready.
SciInit(ok) ==
  /\ sci' = IF ok THEN "on" ELSE "half"
  /\ scif' = IF retail THEN scif ELSE [scif EXCEPT !.rts = "gpio"]
  /\ UNCHANGED saved

\* ScifRestoreConsole.
Restored == IF saved = NotSaved THEN scif ELSE saved

\* Mutant: the console is not restored.
ShutdownKeeps(b) ==
  /\ b = "sci" => sci' = "off" /\ UNCHANGED <<scif, saved>>
  /\ b = "scif" => UNCHANGED <<scif, saved, sci>>
SpiShutdown(b) ==
  /\ b = "sci" => sci' = "off" /\ UNCHANGED <<scif, saved>>
  /\ b = "scif" => /\ scif' = Restored
                   /\ saved' = NotSaved /\ UNCHANGED sci

\* W5Try on the next bus: the bus comes up or not, and the version register of the chip
\* is read.
W5Probe ==
  /\ bus = "none" /\ probe # <<>> /\ Head(probe) \in {"sci", "scif"}
  /\ \E ok \in BOOLEAN : IF Head(probe) = "sci" THEN SciInit(ok) ELSE ok /\ ScifInit
  /\ IF Head(probe) = "sci" /\ sci' = "half"
       THEN probe' = Tail(probe) /\ bus' = bus
       ELSE probe' = <<"version">> \o Tail(probe) /\ bus' = Head(probe)
  /\ UNCHANGED <<retail, wpc, wjob, w5tx, w5rx>>
W5Version ==
  /\ probe # <<>> /\ Head(probe) = "version"
  /\ \/ probe' = <<"init">> /\ UNCHANGED <<bus, scif, saved, sci>>
     \/ SpiShutdown(bus) /\ bus' = "none" /\ probe' = Tail(probe)
  /\ UNCHANGED <<retail, wpc, wjob, w5tx, w5rx>>

\* W5500Init: a chip that does not leave reset, or does not open the raw socket, is not
\* used, but keeps its bus.
W5Bringup ==
  /\ probe = <<"init">>
  /\ \/ probe' = <<"up">>
     \/ probe' = <<>>
  /\ UNCHANGED <<bus, retail, scif, saved, sci, wpc, wjob, w5tx, w5rx>>
W5Up == probe = <<"up">>
-----------------------------------------------------------------------------
(* W5500Tx                                                                 *)

Goto(t, where) == wpc' = [wpc EXCEPT ![t] = where]
Sends == {"wr", "data", "ptr", "send", "wait"}
OtherSends(t) == \E u \in W5Threads \ {t} : wpc[u] \in Sends
TxFree == W5Buf - ((txwr - txrd) % W5Wrap)

\* The free size is read until it suffices.
W5TxRoom(t, len) ==
  /\ W5Up /\ wpc[t] = "idle" /\ TxFree >= len
  /\ Goto(t, "wr")
  /\ wjob' = [wjob EXCEPT ![t] = [NoJob EXCEPT !.len = len, !.id = w5Id]]
  /\ w5Id' = (w5Id % W5Ids) + 1
  /\ clash' = OtherSends(t)
  /\ UNCHANGED <<spi, txmem, txrd, txwr, sending, w5due, lost, w5rx>>
W5TxWr(t) ==
  /\ wpc[t] = "wr" /\ Goto(t, "data")
  /\ wjob' = [wjob EXCEPT ![t].rd = txwr]
  /\ UNCHANGED <<spi, w5tx, w5rx>>

\* The cells of a frame that starts at a position.
CellsOf(pos, len) == {Cell(pos + i) : i \in 0..len-1}
W5TxData(t) ==
  /\ wpc[t] = "data" /\ Goto(t, "ptr")
  /\ txmem' = [c \in 0..W5Buf-1 |->
                 IF c \in CellsOf(wjob[t].rd, wjob[t].len) THEN wjob[t].id ELSE txmem[c]]
  /\ UNCHANGED <<spi, wjob, txrd, txwr, sending, w5due, w5Id, clash, lost, w5rx>>

NextWr(wr, len) == Pos(wr + len)
W5TxPtr(t) ==
  /\ wpc[t] = "ptr" /\ Goto(t, "send")
  /\ txwr' = NextWr(wjob[t].rd, wjob[t].len)
  /\ UNCHANGED <<spi, wjob, txmem, txrd, sending, w5due, w5Id, clash, lost, w5rx>>

\* A frame, unit for unit.
Units(job) == [i \in 1..job.len |-> job.id]
W5TxSend(t) ==
  /\ wpc[t] = "send" /\ Goto(t, "wait")
  /\ sending' = TRUE
  /\ w5due' = w5due \o Units(wjob[t])
  /\ UNCHANGED <<spi, wjob, txmem, txrd, txwr, w5Id, clash, lost, w5rx>>

\* Sn_CR is clear, or the thread stops waiting.  That it is clear does not mean that
\* the SEND was accepted: a RECV may have overwritten it.
W5TxDone(t) ==
  /\ wpc[t] = "wait" /\ Goto(t, "idle")
  /\ clash' = (clash \/ sending)
  /\ wjob' = [wjob EXCEPT ![t] = NoJob]
  /\ UNCHANGED <<spi, txmem, txrd, txwr, sending, w5due, w5Id, lost, w5rx>>
-----------------------------------------------------------------------------
(* W5500RxPoll                                                             *)

Rsr == (rxwr - rxfree) % W5Wrap
Worker == "netWorker"

Waiting(rsr) == rsr > 0
W5RxSize ==
  /\ W5Up /\ wpc[Worker] = "idle" /\ Waiting(Rsr)
  /\ Goto(Worker, "rxhead")
  /\ wjob' = [wjob EXCEPT ![Worker] = [NoJob EXCEPT !.rsr = Rsr, !.rd = rxrd]]
  /\ UNCHANGED <<spi, w5tx, w5rx>>

\* What the length read at a position is: that of the frame there, or the bytes of
\* some frame.
LensAt(pos) ==
  IF \E i \in DOMAIN rxq : rxq[i].pos = pos
    THEN {rxq[i].len : i \in {j \in DOMAIN rxq : rxq[j].pos = pos}}
    ELSE Lens
\* Over a slow bus a length may be read wrongly, and then looks impossible.  It is read
\* again, and if that fails too all that had been received is given up.
W5RxHead ==
  /\ wpc[Worker] = "rxhead" /\ Goto(Worker, "rxptr")
  /\ LET rsr == wjob[Worker].rsr
     IN \E len \in {l \in LensAt(wjob[Worker].rd) : l <= rsr} \cup {rsr} :
          wjob' = [wjob EXCEPT ![Worker].len = len]
  /\ UNCHANGED <<spi, w5tx, w5rx>>

NextRd(rd, len) == Pos(rd + len)
W5RxPtr ==
  /\ wpc[Worker] = "rxptr" /\ Goto(Worker, "rxrecv")
  /\ rxrd' = NextRd(wjob[Worker].rd, wjob[Worker].len)
  /\ UNCHANGED <<spi, wjob, w5tx, rxq, rxwr, rxfree>>

\* RECV goes to the register that may still hold the SEND of another thread, which is
\* then never carried out.  The chip takes back what lies before the position at once: it
\* needs less time for that than the next transaction.
Left(rd) ==
  IF \E i \in DOMAIN rxq : rxq[i].pos = rd
    THEN SubSeq(rxq, CHOOSE i \in DOMAIN rxq : rxq[i].pos = rd, Len(rxq))
    ELSE IF rd = rxwr THEN <<>> ELSE rxq
W5RxRecv ==
  /\ wpc[Worker] = "rxrecv" /\ Goto(Worker, "idle")
  /\ rxfree' = rxrd /\ rxq' = Left(rxrd)
  /\ wjob' = [wjob EXCEPT ![Worker] = NoJob]
  /\ sending' = FALSE /\ lost' = (lost \/ sending)
  /\ UNCHANGED <<spi, txmem, txrd, txwr, w5due, w5Id, clash, rxwr, rxrd>>
-----------------------------------------------------------------------------
(* The chip                                                                *)

\* What it sends: all that lies between its position and the driver's.
Outgoing == [i \in 1..((txwr - txrd) % W5Wrap) |-> txmem[Cell(txrd + i - 1)]]
W5ChipSend ==
  /\ sending /\ sending' = FALSE
  /\ txrd' = txwr /\ txmem' = [c \in 0..W5Buf-1 |-> NoW5Frame]  \* never read again
  /\ w5due' = <<>> /\ lost' = FALSE
  /\ UNCHANGED <<spi, wpc, wjob, txwr, w5Id, clash, w5rx>>
W5ChipReceive(len) ==
  /\ W5Up /\ Rsr + len <= W5Buf
  /\ rxq' = Append(rxq, [pos |-> rxwr, len |-> len]) /\ rxwr' = Pos(rxwr + len)
  /\ UNCHANGED <<spi, wpc, wjob, w5tx, rxrd, rxfree>>
-----------------------------------------------------------------------------
W5TxGoesOn(t) == W5TxWr(t) \/ W5TxData(t) \/ W5TxPtr(t) \/ W5TxSend(t) \/ W5TxDone(t)
W5Thread(t) == (\E len \in Lens : W5TxRoom(t, len)) \/ W5TxGoesOn(t)
W5Poll == W5RxSize \/ W5RxHead \/ W5RxPtr \/ W5RxRecv
W5Chip == W5ChipSend \/ (\E len \in Lens : W5ChipReceive(len))
W5Start == W5Probe \/ W5Version \/ W5Bringup
\* Where two transmissions overlap, or one gives up, nothing is promised.
Alone(A) == ~clash /\ A
W5Runs == Alone((\E t \in W5Threads : W5Thread(t)) \/ W5Poll \/ W5Chip)

\* The worker polls for ever, and a transmission goes on or gives up.
W5Fairness ==
  /\ SF_w5Vars(Alone(W5RxSize))
  /\ WF_w5Vars(Alone(W5RxHead \/ W5RxPtr \/ W5RxRecv))
  /\ \A t \in W5Threads : WF_w5Vars(Alone(W5TxGoesOn(t)))
-----------------------------------------------------------------------------
(* What the backend has to guarantee                                       *)

\* Unless the chip is on the SCIF, the debug console keeps its serial port through all
\* probes; on boards with PA7 the RTS line as well (W5500Probe, ScifRestoreConsole).
ConsoleBack ==
  bus # "scif" => /\ scif.pins = "uart"
                  /\ retail => scif = Console

\* As long as no two transmissions overlap and none gives up, what leaves the chip is
\* what the drivers handed over since it last sent: every frame whole, once and in order.
\* It is the one frame of the thread that waits for it, unless the poll's RECV has
\* overwritten a SEND the chip had not accepted: W5500Tx has then reported success, and the
\* frame goes out in one piece with the next (w5500.c:331 and :379 share Sn_CR).
W5SendsWhole ==
  (sending /\ ~clash) =>
    /\ Outgoing = w5due
    /\ lost \/ \E t \in W5Threads : wpc[t] = "wait" /\ Outgoing = Units(wjob[t])

\* The driver's position is that of the next frame, also across the wrap of the
\* registers, next to transmissions, and after received frames were given up
\* (W5500RxPoll).
W5InStep ==
  /\ rxfree = IF rxq = <<>> THEN rxwr ELSE Head(rxq).pos
  /\ wpc[Worker] # "rxrecv" => rxrd = rxfree
=============================================================================
