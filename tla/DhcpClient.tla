----------------------------- MODULE DhcpClient -----------------------------
(***************************************************************************)
(* How the link adapter (netif.c) gets an address: the ladder of adapters  *)
(* that InterfaceInitialize tries, the worker thread it starts, and the    *)
(* DHCP client that the worker runs, against servers on a segment where    *)
(* frames are lost, duplicated and reordered, and where the broadcasts to  *)
(* other machines are heard as well.                                       *)
(*                                                                         *)
(* The client matches neither the transaction nor the hardware address of  *)
(* a reply, so they are not in the messages; to is not in the code.  The   *)
(* mask, the gateway and the DNS servers come with the address.            *)
(***************************************************************************)
EXTENDS Integers, FiniteSets

CONSTANTS Servers,  \* DHCP servers on the segment
          Ours,     \* addresses they may offer to this machine
          Theirs,   \* addresses of the other machines
          NoAddr,   \* 0.0.0.0
          MaxCalls, \* microstk calls InterfaceInitialize twice
          MaxNet    \* bound of the frames in flight

ASSUME DhcpClientAssumption == 
  NoAddr \notin Ours \cup Theirs /\ MaxCalls \in Nat /\ MaxNet \in Nat \ {0}

VARIABLES
  link,     \* s_pLink, "none" before the first call; "dial" is g_nUseDial
  calls,    \* calls of InterfaceInitialize
  live,     \* s_pIfn, by the number of the call that made it
  workers,  \* threads that run NetWorker
  filled,   \* microstk has filled in the callbacks of s_pIfn
  state,    \* s_nDhcpState: 0 discover, 1 requested, 2 bound
  off,      \* s_dwOffIP and s_dwOffSrv
  my,       \* s_dwMyIP
  haveIP,   \* s_bHaveIP
  ifc,      \* what microstk was configured with
  net       \* frames in flight

adapter == <<link, calls, live, workers>>
client  == <<state, off, my, haveIP, ifc>>
dhcpVars    == <<adapter, filled, client, net>>

Nic == {"w5500", "bba"}

Discover   == [type |-> "discover", ip |-> NoAddr, srv |-> NoAddr, to |-> "server"]
Request(o) == [type |-> "request", ip |-> o.ip, srv |-> o.srv, to |-> "server"]
Reply(type, ip, s, to) == [type |-> type, ip |-> ip, srv |-> s, to |-> to]

DhcpInit ==
  /\ link = "none" /\ calls = 0 /\ live = 0 /\ workers = 0 /\ filled = FALSE
  /\ state = 0 /\ off = [ip |-> NoAddr, srv |-> NoAddr] /\ my = NoAddr /\ haveIP = FALSE
  /\ ifc = [up |-> FALSE, ip |-> NoAddr] /\ net = {}
\* Whenever something happens on the segment, any of the frames in flight may be lost,
\* also the one that is delivered; or it stays, and is delivered again.
Flight(sent) == {f \in {kept \cup sent : kept \in SUBSET net} : Cardinality(f) <= MaxNet}
-----------------------------------------------------------------------------
(* InterfaceInitialize                                                     *)

\* The first link of the ladder that is there.
Found(present) ==
  CHOOSE l \in {"w5500", "bba", "dial", "null"} :
    \/ l = "w5500" /\ l \in present
    \/ l = "bba" /\ l \in present /\ "w5500" \notin present
    \/ l = "dial" /\ present = {"dial"}
    \/ l = "null" /\ present = {}

\* An adapter that does not come up is replaced by the null link.
BringUp(l) == IF l \in Nic THEN {l, "null"} ELSE {l}

\* The first interface is the live one, and if it has a real link it gets the worker.
FreshIfnet ==
  /\ live' = IF live = 0 THEN calls' ELSE live
  /\ workers' = IF live = 0 /\ link' \in Nic THEN workers + 1 ELSE workers

InterfaceInitialize ==
  /\ calls < MaxCalls /\ calls' = calls + 1
  /\ IF link = "none"
       THEN \E present \in SUBSET {"w5500", "bba", "dial"} : link' \in BringUp(Found(present))
       ELSE UNCHANGED link
  /\ \/ link' # "dial" /\ FreshIfnet
     \/ UNCHANGED <<live, workers>>   \* delegated to mpppdial.dll, or out of memory
  /\ UNCHANGED <<filled, client, net>>

\* After the call microstk fills in the callbacks, among them
\* ifn_IPInterfaceConfigure.
BackFill ==
  /\ live # 0 /\ ~filled /\ filled' = TRUE
  /\ UNCHANGED <<adapter, client, net>>
-----------------------------------------------------------------------------
(* The worker                                                              *)

\* Mutant: a request is not repeated.
DhcpStepOnce(s, o) == IF s = 0 THEN {Discover} ELSE {}
\* The frame DhcpStep sends in a state.
DhcpStep(s, o) == IF s = 0 THEN {Discover} ELSE IF s = 1 THEN {Request(o)} ELSE {}

\* Mutant: the address is noted before it is known whether one is in use.
OnLeaseEarly(ip) ==
  /\ my' = ip
  /\ IF haveIP THEN state' = 2 /\ UNCHANGED <<haveIP, ifc>>
     ELSE IF filled THEN haveIP' = TRUE /\ ifc' = [up |-> TRUE, ip |-> ip] /\ state' = 2
     ELSE UNCHANGED <<haveIP, ifc, state>>
\* NetifOnLease, and the state DhcpRx sets by its result: as long as microstk is not
\* ready the worker goes on requesting.
OnLease(ip) ==
  IF haveIP THEN state' = 2 /\ UNCHANGED <<my, haveIP, ifc>>
  ELSE /\ my' = ip
       /\ IF filled THEN haveIP' = TRUE /\ ifc' = [up |-> TRUE, ip |-> ip] /\ state' = 2
                    ELSE UNCHANGED <<haveIP, ifc, state>>

\* Any reply is noted.  Once requested, any reply is taken for the lease.
DhcpRx(m) ==
  /\ m \in net /\ m.to # "server" /\ workers > 0
  /\ off' = [ip |-> m.ip, srv |-> m.srv]
  /\ \/ /\ m.type = "offer" /\ state = 0
        /\ state' = 1 /\ net' \in Flight(DhcpStep(1, off'))
        /\ UNCHANGED <<my, haveIP, ifc>>
     \/ /\ m.type = "ack" \/ state = 1
        /\ OnLease(m.ip) /\ net' \in Flight({})
     \/ /\ m.type # "ack" /\ state # 1 /\ ~(m.type = "offer" /\ state = 0)
        /\ net' \in Flight({}) /\ UNCHANGED <<state, my, haveIP, ifc>>
  /\ UNCHANGED <<adapter, filled>>

\* 1.5 seconds after the last one.
Timer ==
  /\ workers > 0 /\ ~haveIP
  /\ net' \in Flight(DhcpStep(state, off))
  /\ UNCHANGED <<adapter, filled, client>>
-----------------------------------------------------------------------------
(* The segment                                                             *)

\* A server offers an address, and grants or refuses a request made to it.
Answers(s, m) ==
  IF m.type = "discover" THEN {Reply("offer", ip, s, "us") : ip \in Ours}
  ELSE IF m.srv = s THEN {Reply("ack", m.ip, s, "us"), Reply("nak", NoAddr, s, "us")}
  ELSE {}

Serve(s, m) ==
  /\ m \in net /\ m.to = "server"
  /\ \E a \in Answers(s, m) : net' \in Flight({a})
  /\ UNCHANGED <<adapter, filled, client>>

\* A server answers another machine, to the broadcast address.
Overhear(s) ==
  /\ \/ \E type \in {"offer", "ack"}, ip \in Theirs : net' \in Flight({Reply(type, ip, s, "other")})
     \/ net' \in Flight({Reply("nak", NoAddr, s, "other")})
  /\ UNCHANGED <<adapter, filled, client>>

DhcpNext ==
  \/ InterfaceInitialize \/ BackFill \/ Timer
  \/ (\E m \in net : DhcpRx(m) \/ \E s \in Servers : Serve(s, m))
  \/ \E s \in Servers : Overhear(s)

\* The worker loops for ever, and a frame that is sent again and again is not lost
\* every time.
DhcpFairness ==
  /\ WF_dhcpVars(Timer)
  /\ SF_dhcpVars(\E m \in net, s \in Servers : Serve(s, m))
  /\ SF_dhcpVars(\E m \in net : m.to = "us" /\ DhcpRx(m))

DhcpSpec == DhcpInit /\ [][DhcpNext]_dhcpVars /\ DhcpFairness
-----------------------------------------------------------------------------
\* The client answers ARP for the address microstk uses, also after replies that
\* come late or are meant for others.
ArpAnswersForIt == ifc.up => my = ifc.ip /\ haveIP /\ state = 2

\* On a lossy segment, and whenever microstk gets ready, the interface comes up.
ComesUp == workers > 0 /\ filled ~> ifc.up
=============================================================================
