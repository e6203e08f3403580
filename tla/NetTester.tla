------------------------------ MODULE NetTester ------------------------------
(***************************************************************************)
(* The network tester (dcwnet.c) on the RAS exports of the link adapter    *)
(* (ras.c): one turn of its loop takes a click, advances the dial, drains  *)
(* the download and looks whether to close.  With an Ethernet adapter      *)
(* ras.c answers by itself, with one flag for all programs; without one it *)
(* forwards to the modem driver, which has one port.                       *)
(*                                                                         *)
(* The reply of the server is a sequence of units, HDR of header and BODY  *)
(* of body; the last unit of the header ends it, the first carries the     *)
(* Content-Length.  Time is counted in turns of the loop without progress. *)
(***************************************************************************)
EXTENDS Integers, Sequences

CONSTANTS HDR, BODY,        \* units of a whole reply; a header is shorter than DL_MAX (4 MB)
          DL_INIT, DL_MAX,  \* first and largest size of the buffer
          CHUNK,            \* most units of one recv
          STALL,            \* turns until a timeout (15 s, and 45 s for a dial)
          MaxDials, MaxGets, MaxNoMem   \* bounds

ASSUME NetTesterAssumption ==
  /\ HDR \in Nat \ {0} /\ BODY \in Nat /\ CHUNK \in Nat \ {0} /\ STALL \in Nat
  /\ DL_INIT \in Nat \ {0} /\ DL_MAX \in Nat /\ DL_INIT <= DL_MAX /\ HDR <= DL_MAX
  /\ MaxDials \in Nat /\ MaxGets \in Nat /\ MaxNoMem \in Nat

VARIABLES
  useDial, dialed,    \* ras.c: g_nUseDial, s_bDialed
  modem,              \* the port of the modem driver
  g_nConn, g_hConn,   \* the program's connection; a handle is 1, none is 0
  waited,             \* turns since g_dwDialStart
  g_nDl, sockets,     \* the download; the sockets the program has open
  length,             \* the Content-Length the server gives, 0 for none
  came,               \* how much of its reply has been received
  ram, cap,           \* g_pbDlBuf with g_dwDlStored, and g_dwDlCap
  raw, hdrDone, bodyOff, total,
  quiet,              \* turns since g_dwDlLastData
  verdict,            \* what DownloadFinish says
  turn,               \* where the loop is
  dials, gets, noMem, \* counters for the bounds
  short,              \* history: has an allocation failed since Get
  orphan              \* history: the handle of a call was overwritten

ras      == <<useDial, dialed, modem>>
conn     == <<g_nConn, g_hConn, waited>>
server   == <<length, came>>
file     == <<ram, cap, raw, hdrDone, bodyOff, total>>
download == <<g_nDl, sockets, server, file, quiet, verdict>>
netHistory == <<short, orphan>>
netVars  == <<ras, conn, download, turn, dials, gets, noMem, netHistory>>

Header == [i \in 1..HDR |-> <<"header", i>>]
Body   == [i \in 1..BODY |-> <<"body", i>>]
WholeReply  == Header \o Body

NetInit ==
  /\ useDial \in BOOLEAN /\ dialed = FALSE /\ modem = "free"
  /\ g_nConn = "idle" /\ g_hConn = 0 /\ waited = 0
  /\ g_nDl = "idle" /\ sockets = {} /\ length = 0 /\ came = 0
  /\ ram = <<>> /\ cap = 0 /\ raw = 0 /\ hdrDone = FALSE /\ bodyOff = 0 /\ total = 0
  /\ quiet = 0 /\ verdict = "none" /\ turn = "input"
  /\ dials = 0 /\ gets = 0 /\ noMem = 0
  /\ short = FALSE /\ orphan = FALSE
-----------------------------------------------------------------------------
(* RAS (ras.c), and the modem driver behind it                             *)

\* With a modem a dial that finds the port in use fails.
AfdRasDial(ok) ==
  /\ ok = (~useDial \/ modem = "free")
  /\ IF useDial THEN modem' = IF ok THEN "dialing" ELSE modem
                ELSE UNCHANGED modem
  /\ dialed' = (dialed \/ ~useDial)
  /\ UNCHANGED useDial

AfdRasHangUp ==
  /\ IF useDial THEN modem' = "free" /\ UNCHANGED dialed
                ELSE dialed' = FALSE /\ UNCHANGED modem
  /\ UNCHANGED useDial

ConnectStatus ==
  IF useDial THEN modem ELSE IF dialed THEN "up" ELSE "free"

\* The call gets through or not; a connection drops.
ModemStep ==
  /\ \/ modem = "dialing" /\ modem' \in {"up", "error"}
     \/ modem = "up" /\ modem' = "error"
  /\ UNCHANGED <<useDial, dialed, conn, download, turn, dials, gets, noMem, netHistory>>

\* Another program dials or hangs up; it sees the same flag.
OtherProgram ==
  /\ ~useDial /\ dialed' \in BOOLEAN
  /\ UNCHANGED <<useDial, modem, conn, download, turn, dials, gets, noMem, netHistory>>
-----------------------------------------------------------------------------
(* The connection                                                          *)

DoDial ==
  /\ g_nConn \notin {"dialing", "up"} /\ dials < MaxDials /\ dials' = dials + 1
  /\ orphan' = (orphan \/ (useDial /\ modem # "free"))
  /\ \E ok \in BOOLEAN :
       /\ AfdRasDial(ok)
       /\ IF ok THEN g_nConn' = "dialing" /\ g_hConn' = 1 /\ waited' = 0
                ELSE g_nConn' = "failed" /\ g_hConn' = 0 /\ UNCHANGED waited
  /\ UNCHANGED <<download, gets, noMem, short>>

\* Mutant: a failed call is forgotten.
PollDialForget ==
  IF g_nConn # "dialing" THEN UNCHANGED conn
  ELSE \/ ConnectStatus = "up" /\ g_nConn' = "up" /\ UNCHANGED <<g_hConn, waited>>
       \/ ConnectStatus = "error" /\ g_nConn' = "failed" /\ g_hConn' = 0 /\ UNCHANGED waited
       \/ /\ ConnectStatus \notin {"up", "error"} /\ UNCHANGED g_hConn
          /\ \/ g_nConn' = "failed" /\ UNCHANGED waited
             \/ waited < STALL /\ waited' = waited + 1 /\ UNCHANGED g_nConn
PollDial ==
  IF g_nConn # "dialing" THEN UNCHANGED conn
  ELSE /\ UNCHANGED g_hConn
       /\ \/ ConnectStatus = "up" /\ g_nConn' = "up" /\ UNCHANGED waited
          \/ ConnectStatus = "error" /\ g_nConn' = "failed" /\ UNCHANGED waited
          \/ /\ ConnectStatus \notin {"up", "error"}
             /\ \/ g_nConn' = "failed" /\ UNCHANGED waited
                \/ waited < STALL /\ waited' = waited + 1 /\ UNCHANGED g_nConn

DoHangup ==
  /\ IF g_hConn # 0 THEN AfdRasHangUp ELSE UNCHANGED ras
  /\ g_hConn' = 0 /\ g_nConn' = "idle" /\ UNCHANGED waited
-----------------------------------------------------------------------------
(* The download                                                            *)

\* DownloadFree.  The counters of a former download are what DL_ACTIVE guards.
Freed ==
  /\ ram' = <<>> /\ cap' = 0 /\ raw' = 0 /\ hdrDone' = FALSE /\ bodyOff' = 0 /\ total' = 0

\* The address is not found, or there is no socket or no connection; or the request goes
\* out.
DoDownloadStart ==
  /\ g_nDl # "active" /\ gets < MaxGets /\ gets' = gets + 1
  /\ Freed /\ came' = 0 /\ short' = FALSE /\ quiet' = 0 /\ verdict' = "none"
  /\ \/ g_nDl' = "fail" /\ sockets' = sockets \ {"get"} /\ UNCHANGED length
     \/ g_nDl' = "active" /\ sockets' = sockets \cup {"get"} /\ length' \in {0, BODY}
  /\ UNCHANGED <<ras, conn, dials, noMem, orphan>>

\* The buffer for need units: doubled until it is large enough, and at most DL_MAX.
BufSizes == {c \in 1..DL_MAX : c = DL_MAX \/ \E n \in 0..DL_MAX : c = DL_INIT * 2^n}
NewCap(need) ==
  LET enough == {c \in BufSizes : c >= need}
  IN CHOOSE c \in enough : \A d \in enough : c <= d

Least(a, b) == IF a < b THEN a ELSE b

\* What goes into the buffer of size c.
Stored(data, c) == ram \o SubSeq(data, 1, Least(Len(data), IF c > Len(ram) THEN c - Len(ram) ELSE 0))

EndOf(stored) == {i \in DOMAIN stored : stored[i] = <<"header", HDR>>}
ParseHeaders(stored) ==
  IF hdrDone \/ EndOf(stored) = {} THEN UNCHANGED <<hdrDone, bodyOff, total>>
  ELSE /\ hdrDone' = TRUE /\ bodyOff' \in EndOf(stored)
       /\ total' = IF \E i \in 1..bodyOff' : stored[i] = <<"header", 1>> THEN length ELSE total

\* Mutant: what does not fit is not counted.
AppendStored(data) ==
  LET need == Least(Len(ram) + Len(data), DL_MAX)
  IN /\ cap' = (IF need > cap THEN NewCap(need) ELSE cap)
     /\ UNCHANGED <<noMem, short>>
     /\ ram' = Stored(data, cap') /\ raw' = raw + Len(ram') - Len(ram) /\ ParseHeaders(ram')
\* DownloadAppend: a buffer that cannot grow keeps its size, and takes what fits.
DownloadAppend(data) ==
  LET need == Least(Len(ram) + Len(data), DL_MAX)
  IN /\ raw' = raw + Len(data)
     /\ \/ cap' = (IF need > cap THEN NewCap(need) ELSE cap) /\ UNCHANGED <<noMem, short>>
        \/ /\ need > cap /\ noMem < MaxNoMem /\ noMem' = noMem + 1 /\ short' = TRUE
           /\ UNCHANGED cap
     /\ ram' = Stored(data, cap') /\ ParseHeaders(ram')

BodyOf(n, off) == IF n >= off THEN n - off ELSE 0

DownloadFinish ==
  /\ g_nDl' = "done" /\ sockets' = sockets \ {"get"}
  /\ verdict' = IF total' = 0 THEN "unknown"
                ELSE IF BodyOf(raw', bodyOff') = total' THEN "complete" ELSE "incomplete"

\* recv returns data: the loop ends when all is there, goes on, or yields to the UI.
RecvData ==
  /\ turn = "download" /\ g_nDl = "active"
  /\ \E n \in 1..Least(CHUNK, Len(WholeReply) - came) :
       DownloadAppend(SubSeq(WholeReply, came + 1, came + n)) /\ came' = came + n
  /\ quiet' = 0
  /\ IF total' # 0 /\ BodyOf(raw', bodyOff') >= total'
       THEN DownloadFinish /\ turn' = "close"
       ELSE turn' \in {"download", "close"} /\ UNCHANGED <<g_nDl, sockets, verdict>>
  /\ UNCHANGED <<ras, conn, length, dials, gets, orphan>>

\* The server has closed the connection, or it was reset, after any part of the reply.
RecvClose ==
  /\ turn = "download" /\ g_nDl = "active"
  /\ turn' = "close" /\ UNCHANGED file /\ DownloadFinish
  /\ UNCHANGED <<ras, conn, server, quiet, dials, gets, noMem, netHistory>>

RecvError ==
  /\ turn = "download" /\ g_nDl = "active"
  /\ turn' = "close" /\ g_nDl' = "fail" /\ sockets' = sockets \ {"get"}
  /\ UNCHANGED <<ras, conn, server, file, quiet, verdict, dials, gets, noMem, netHistory>>

\* Mutant: the time of the last data is the time of the last poll.
NoDataAgain ==
  /\ turn = "download" /\ g_nDl = "active"
  /\ turn' = "close" /\ quiet' = 0
  /\ UNCHANGED <<ras, conn, server, file, verdict, g_nDl, sockets, dials, gets, noMem, netHistory>>
\* WSAEWOULDBLOCK, and the stall timeout.
NoData ==
  /\ turn = "download" /\ g_nDl = "active"
  /\ turn' = "close"
  /\ \/ g_nDl' = "fail" /\ sockets' = sockets \ {"get"} /\ UNCHANGED quiet
     \/ quiet < STALL /\ quiet' = quiet + 1 /\ UNCHANGED <<g_nDl, sockets>>
  /\ UNCHANGED <<ras, conn, server, file, verdict, dials, gets, noMem, netHistory>>

NoDownload ==
  /\ turn = "download" /\ g_nDl # "active" /\ turn' = "close"
  /\ UNCHANGED <<ras, conn, download, dials, gets, noMem, netHistory>>
-----------------------------------------------------------------------------
(* The loop                                                                *)

\* A click, or none.
Click ==
  /\ turn = "input" /\ turn' = "dial"
  /\ \/ DoDial
     \/ DoHangup /\ UNCHANGED <<download, dials, gets, noMem, netHistory>>
     \/ DoDownloadStart
     \/ UNCHANGED <<ras, conn, download, dials, gets, noMem, netHistory>>

\* The Test button: the name is resolved, and there is a socket.  (The name is not found,
\* or there is no socket, is a click that does nothing.)
DoTest ==
  /\ turn = "input" /\ turn' = "connect" /\ sockets' = sockets \cup {"test"}
  /\ UNCHANGED <<ras, conn, g_nDl, server, file, quiet, verdict, dials, gets, noMem, netHistory>>

\* TryConnect, which waits up to six seconds and may fail; then the reply, as long again.
TryConnect ==
  /\ turn = "connect"
  /\ \/ turn' = "reply" /\ UNCHANGED sockets
     \/ turn' = "dial" /\ sockets' = sockets \ {"test"}
  /\ UNCHANGED <<ras, conn, g_nDl, server, file, quiet, verdict, dials, gets, noMem, netHistory>>

TestReply ==
  /\ turn = "reply" /\ turn' = "dial" /\ sockets' = sockets \ {"test"}
  /\ UNCHANGED <<ras, conn, g_nDl, server, file, quiet, verdict, dials, gets, noMem, netHistory>>

AdvanceDial ==
  /\ turn = "dial" /\ turn' = "download" /\ PollDial
  /\ UNCHANGED <<ras, download, dials, gets, noMem, netHistory>>

Stay ==
  /\ turn = "close" /\ turn' = "input"
  /\ UNCHANGED <<ras, conn, download, dials, gets, noMem, netHistory>>

\* After the loop: DownloadFree and RasHangUp.
Quit ==
  /\ turn = "close" /\ turn' = "gone" /\ Freed /\ sockets' = sockets \ {"get"}
  /\ IF g_hConn # 0 THEN AfdRasHangUp ELSE UNCHANGED ras
  /\ UNCHANGED <<conn, g_nDl, server, quiet, verdict, dials, gets, noMem, netHistory>>

Loop ==
  \/ Click \/ DoTest \/ TryConnect \/ TestReply \/ AdvanceDial
  \/ RecvData \/ RecvClose \/ RecvError \/ NoData \/ NoDownload \/ Stay \/ Quit

NetNext == Loop \/ ModemStep \/ OtherProgram

NetSpec == NetInit /\ [][NetNext]_netVars /\ WF_netVars(Loop)
-----------------------------------------------------------------------------
\* What the tester says of a download that has ended (DownloadFinish) is so: complete
\* when every unit has come, incomplete when not, whatever the chunks, the growth of the
\* buffer and its limit; and the RAM holds the first of what was sent ("buffered first",
\* dcwnet.c:557).  Unless an allocation failed: a later one that succeeds leaves a hole.
DownloadFaithful ==
  ~short =>
    /\ verdict = "complete" => came = Len(WholeReply)
    /\ verdict = "incomplete" => came < Len(WholeReply)
    /\ verdict = "unknown" => length = 0 \/ came < HDR
    /\ ram = SubSeq(WholeReply, 1, Len(ram))

\* A tester that is gone, or has neither a download nor a test, holds no socket, and one
\* that is gone holds no memory and has hung up its call; unless it dialled again after a
\* call that failed, which overwrites the handle.
LeavesNothing ==
  /\ "get" \in sockets => g_nDl = "active"
  /\ "test" \in sockets => turn \in {"connect", "reply"}
  /\ turn = "gone" => sockets = {} /\ cap = 0 /\ (useDial /\ ~orphan => modem = "free")

\* A dial and a download end, by themselves or by their timeouts.
Settles ==
  /\ g_nConn = "dialing" ~> g_nConn # "dialing" \/ turn = "gone"
  /\ g_nDl = "active" ~> g_nDl # "active" \/ turn = "gone"
=============================================================================
