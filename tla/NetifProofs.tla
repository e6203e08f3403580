----------------------------- MODULE NetifProofs -----------------------------
(***************************************************************************)
(* The link adapter's tables: for any number of servers, addresses and     *)
(* programs that dial, the address that ARP answers for (DhcpClient) and   *)
(* the list of name servers (DnsList); for a cache of any size and any     *)
(* number of hosts and senders, the ARP cache and the address translation  *)
(* (LinkTables).                                                           *)
(***************************************************************************)
EXTENDS DhcpClient, DnsList, LinkTables, SequenceTheorems, TLAPS

Frames ==
  [type : {"discover", "request", "offer", "ack", "nak"}, ip : Ours \cup Theirs \cup {NoAddr},
   srv : Servers \cup {NoAddr}, to : {"server", "us", "other"}]

\* The types of the variables of DhcpClient.
DhcpTypeOK ==
  /\ link \in {"none", "w5500", "bba", "dial", "null"}
  /\ calls \in 0..MaxCalls /\ live \in 0..calls /\ workers \in 0..1 /\ filled \in BOOLEAN
  /\ (live = 0 => workers = 0)
  /\ state \in 0..2 /\ off \in [ip : Ours \cup Theirs \cup {NoAddr}, srv : Servers \cup {NoAddr}]
  /\ my \in Ours \cup Theirs \cup {NoAddr} /\ haveIP \in BOOLEAN
  /\ ifc \in [up : BOOLEAN, ip : Ours \cup Theirs \cup {NoAddr}]
  /\ net \subseteq Frames

-----------------------------------------------------------------------------
(* The DHCP client. *)

LEMMA FlightTypes ==
  ASSUME NEW sent \in SUBSET Frames, DhcpTypeOK, NEW f \in Flight(sent)
  PROVE  f \subseteq Frames
BY DEF Flight, DhcpTypeOK

LEMMA FoundTypes ==
  ASSUME NEW present \in SUBSET {"w5500", "bba", "dial"}
  PROVE  Found(present) \in {"w5500", "bba", "dial", "null"}
<1> DEFINE Fits(l) == \/ l = "w5500" /\ l \in present
                      \/ l = "bba" /\ l \in present /\ "w5500" \notin present
                      \/ l = "dial" /\ present = {"dial"}
                      \/ l = "null" /\ present = {}
<1>1. \E l \in {"w5500", "bba", "dial", "null"} : Fits(l)
  <2>1. present = {} \/ present = {"dial"} \/ "w5500" \in present \/ "bba" \in present
    OBVIOUS
  <2> QED
    BY <2>1
<1>2. Found(present) = CHOOSE l \in {"w5500", "bba", "dial", "null"} : Fits(l)
  BY DEF Found
<1> HIDE DEF Fits
<1> QED
  BY <1>1, <1>2

LEMMA DhcpInitTypes == DhcpInit => DhcpTypeOK
<1> SUFFICES ASSUME DhcpInit PROVE DhcpTypeOK
  OBVIOUS
<1>1. calls \in 0..MaxCalls /\ live \in 0..calls /\ workers \in 0..1 /\ state \in 0..2
  BY DhcpClientAssumption DEF DhcpInit
<1>2. /\ off \in [ip : Ours \cup Theirs \cup {NoAddr}, srv : Servers \cup {NoAddr}]
      /\ ifc \in [up : BOOLEAN, ip : Ours \cup Theirs \cup {NoAddr}]
  BY DEF DhcpInit
<1> QED
  BY <1>1, <1>2 DEF DhcpInit, DhcpTypeOK

LEMMA DhcpStepTypes == DhcpTypeOK /\ [DhcpNext]_dhcpVars => DhcpTypeOK'
<1> SUFFICES ASSUME DhcpTypeOK, [DhcpNext]_dhcpVars PROVE DhcpTypeOK'
  OBVIOUS
<1> USE DhcpClientAssumption
<1>1. CASE InterfaceInitialize
  <2>1. link' \in {"none", "w5500", "bba", "dial", "null"}
    <3>1. CASE link = "none"
      <4>1. PICK present \in SUBSET {"w5500", "bba", "dial"} : link' \in BringUp(Found(present))
        BY <1>1, <3>1 DEF InterfaceInitialize
      <4>2. link' = Found(present) \/ link' = "null"
        BY <4>1 DEF BringUp
      <4> QED
        BY <4>2, FoundTypes
    <3>2. CASE link # "none"
      BY <1>1, <3>2 DEF InterfaceInitialize, DhcpTypeOK
    <3> QED
      BY <3>1, <3>2
  <2>2. calls' = calls + 1 /\ calls < MaxCalls /\ UNCHANGED <<filled, client, net>>
        /\ (FreshIfnet \/ UNCHANGED <<live, workers>>)
    BY <1>1 DEF InterfaceInitialize
  <2>3. calls' \in 0..MaxCalls /\ live' \in 0..calls' /\ workers' \in 0..1
        /\ (live' = 0 => workers' = 0)
    BY <2>2 DEF FreshIfnet, DhcpTypeOK
  <2> QED
    BY <2>1, <2>2, <2>3 DEF DhcpTypeOK, client
<1>2. CASE BackFill
  BY <1>2 DEF BackFill, DhcpTypeOK, adapter, client
<1>3. CASE Timer
  <2>1. DhcpStep(state, off) \in SUBSET Frames
    BY DEF DhcpStep, Discover, Request, Frames, DhcpTypeOK
  <2>2. net' \subseteq Frames
    BY <1>3, <2>1, FlightTypes DEF Timer
  <2> QED
    BY <1>3, <2>2 DEF Timer, DhcpTypeOK, adapter, client
<1>4. ASSUME NEW m \in net, DhcpRx(m) PROVE DhcpTypeOK'
  <2>1. m \in Frames
    BY DEF DhcpTypeOK
  <2>2. off' \in [ip : Ours \cup Theirs \cup {NoAddr}, srv : Servers \cup {NoAddr}]
    BY <1>4, <2>1 DEF DhcpRx, Frames
  <2>3. DhcpStep(1, off') \in SUBSET Frames
    BY <2>2 DEF DhcpStep, Request, Frames
  <2>4. net' \subseteq Frames
    BY <1>4, <2>3, FlightTypes DEF DhcpRx
  <2>5. /\ state' \in 0..2 /\ my' \in Ours \cup Theirs \cup {NoAddr} /\ haveIP' \in BOOLEAN
        /\ ifc' \in [up : BOOLEAN, ip : Ours \cup Theirs \cup {NoAddr}]
    <3>1. CASE OnLease(m.ip)
      <4>1. m.ip \in Ours \cup Theirs \cup {NoAddr}
        BY <2>1 DEF Frames
      <4>2. state' = state \/ state' = 2
        BY <3>1 DEF OnLease
      <4>3. my' = my \/ my' = m.ip
        BY <3>1 DEF OnLease
      <4>4. /\ haveIP' = haveIP \/ haveIP' = TRUE
            /\ ifc' = ifc \/ ifc' = [up |-> TRUE, ip |-> m.ip]
        BY <3>1 DEF OnLease
      <4>5. [up |-> TRUE, ip |-> m.ip] \in [up : BOOLEAN, ip : Ours \cup Theirs \cup {NoAddr}]
        BY <4>1
      <4>6. state' \in 0..2
        BY <4>2 DEF DhcpTypeOK
      <4>7. my' \in Ours \cup Theirs \cup {NoAddr}
        BY <4>1, <4>3 DEF DhcpTypeOK
      <4>8. haveIP' \in BOOLEAN
        BY <4>4, Zenon DEF DhcpTypeOK
      <4>9. ifc' \in [up : BOOLEAN, ip : Ours \cup Theirs \cup {NoAddr}]
        BY <4>5, <4>4, Zenon DEF DhcpTypeOK
      <4> QED
        BY <4>6, <4>7, <4>8, <4>9, Zenon
    <3>2. CASE my' = my /\ haveIP' = haveIP /\ ifc' = ifc /\ state' \in {1, state}
      BY <3>2 DEF DhcpTypeOK
    <3>3. OnLease(m.ip) \/ (my' = my /\ haveIP' = haveIP /\ ifc' = ifc /\ state' \in {1, state})
      BY <1>4 DEF DhcpRx
    <3> QED
      BY <3>1, <3>2, <3>3
  <2> QED
    BY <1>4, <2>2, <2>4, <2>5 DEF DhcpRx, DhcpTypeOK, adapter
<1>5. ASSUME NEW m \in net, NEW s \in Servers, Serve(s, m) PROVE DhcpTypeOK'
  <2>1. m \in Frames
    BY DEF DhcpTypeOK
  <2>2. Answers(s, m) \subseteq Frames
    BY <2>1 DEF Answers, Reply, Frames
  <2>3. PICK a \in Answers(s, m) : net' \in Flight({a})
    BY <1>5 DEF Serve
  <2>4. {a} \in SUBSET Frames
    BY <2>2
  <2>5. net' \subseteq Frames
    BY <2>3, <2>4, FlightTypes
  <2> QED
    BY <1>5, <2>5 DEF Serve, DhcpTypeOK, adapter, client
<1>6. ASSUME NEW s \in Servers, Overhear(s) PROVE DhcpTypeOK'
  <2>1. \E a \in Frames : net' \in Flight({a})
    <3>1. CASE \E type \in {"offer", "ack"}, addr \in Theirs :
                 net' \in Flight({Reply(type, addr, s, "other")})
      <4>1. PICK type \in {"offer", "ack"}, addr \in Theirs :
                 net' \in Flight({Reply(type, addr, s, "other")})
        BY <3>1
      <4>2. Reply(type, addr, s, "other") \in Frames
        BY DEF Reply, Frames
      <4> QED
        BY <4>1, <4>2
    <3>2. CASE net' \in Flight({Reply("nak", NoAddr, s, "other")})
      <4>1. Reply("nak", NoAddr, s, "other") \in Frames
        BY DEF Reply, Frames
      <4> QED
        BY <3>2, <4>1
    <3> QED
      BY <1>6, <3>1, <3>2 DEF Overhear
  <2>2. PICK a \in Frames : net' \in Flight({a})
    BY <2>1
  <2>3. {a} \in SUBSET Frames
    OBVIOUS
  <2>4. net' \subseteq Frames
    BY <2>2, <2>3, FlightTypes
  <2> QED
    BY <1>6, <2>4 DEF Overhear, DhcpTypeOK, adapter, client
<1>7. CASE UNCHANGED dhcpVars
  BY <1>7 DEF dhcpVars, DhcpTypeOK, adapter, client
<1> QED
  BY <1>1, <1>2, <1>3, <1>4, <1>5, <1>6, <1>7 DEF DhcpNext

\* The variables of the client keep their types, and never does more than one worker run
\* (InterfaceInitialize, which microstk calls twice).
THEOREM DhcpTypes == DhcpSpec => []DhcpTypeOK
BY DhcpInitTypes, DhcpStepTypes, PTL DEF DhcpSpec

\* The client answers ARP for the address microstk uses (NetifOnLease, DhcpRx), whatever
\* replies come, in whatever order.
THEOREM ArpForTheAddressInUse == DhcpSpec => []ArpAnswersForIt
<1>1. DhcpInit => ArpAnswersForIt
  BY DEF DhcpInit, ArpAnswersForIt
<1>2. ArpAnswersForIt /\ DhcpTypeOK /\ [DhcpNext]_dhcpVars => ArpAnswersForIt'
  <2> SUFFICES ASSUME ArpAnswersForIt, DhcpTypeOK, [DhcpNext]_dhcpVars PROVE ArpAnswersForIt'
    OBVIOUS
  <2>1. ASSUME NEW m \in net, DhcpRx(m) PROVE ArpAnswersForIt'
    <3>1. CASE OnLease(m.ip)
      BY <3>1 DEF OnLease, ArpAnswersForIt, DhcpTypeOK
    <3>2. CASE UNCHANGED <<my, haveIP, ifc>> /\ (state' = state \/ state = 0)
      BY <3>2 DEF ArpAnswersForIt
    <3> QED
      BY <2>1, <3>1, <3>2 DEF DhcpRx
  <2>2. CASE UNCHANGED client
    BY <2>2 DEF client, ArpAnswersForIt
  <2> QED
    BY <2>1, <2>2
    DEF DhcpNext, InterfaceInitialize, BackFill, Timer, Serve, Overhear, dhcpVars
<1> QED
  BY <1>1, <1>2, DhcpTypes, PTL DEF DhcpSpec

-----------------------------------------------------------------------------
(* The list of name servers. *)

Cell == Addr \cup {0}
Places == {"idle", "fallback", "copy", "check", "clamp", "start", "shift", "head", "inc", "put"}

\* The types of the variables of DnsList, also where calls have overlapped.
DnsTypeOK ==
  /\ dns \in [1..CAP -> Cell] /\ n \in Nat /\ reg \in Seq(Cell)
  /\ entry \in UserDns \cup {<<>>}
  /\ pc \in [Threads -> Places] /\ op \in [Threads -> {"write", "commit"}]
  /\ user \in [Threads -> UserDns \cup {<<>>}] /\ src \in [Threads -> DnsLists \cup {<<>>}]
  /\ j \in [Threads -> Nat] /\ kept \in [Threads -> Nat]
  /\ alone \in [Threads -> BOOLEAN]
  /\ \A t \in Threads :
       /\ pc[t] = "copy" => src[t] \in DnsLists /\ j[t] \in 1..Len(src[t]) + 1
       /\ op[t] = "commit" => pc[t] \in {"idle", "copy"}

LEMMA ListFacts ==
  ASSUME NEW l \in DnsLists
  PROVE  /\ Len(l) \in 1..CAP /\ l # <<>> /\ DOMAIN l = 1..Len(l)
         /\ \A cell \in 1..Len(l) : l[cell] \in Addr /\ l[cell] # Revival
<1>1. l \in Seq(Addr) /\ Len(l) \in 1..CAP /\ \A cell \in DOMAIN l : l[cell] # Revival
  BY DnsListAssumption
<1>2. DOMAIN l = 1..Len(l) /\ \A cell \in 1..Len(l) : l[cell] \in Addr
  BY <1>1
<1>3. Len(l) # 0
  BY <1>1, DnsListAssumption
<1>4. l # <<>>
  BY <1>3
<1> QED
  BY <1>1, <1>2, <1>4

LEMMA CapNat == CAP \in Nat /\ CAP > 1
BY DnsListAssumption

\* What RegSetValueExW is given: the cells up to the number of servers.
LEMMA Registered ==
  ASSUME DnsTypeOK, NEW m \in 0..CAP
  PROVE  /\ SubSeq(dns, 1, m) \in Seq(Cell) /\ Len(SubSeq(dns, 1, m)) = m
         /\ \A cell \in 1..m : SubSeq(dns, 1, m)[cell] = dns[cell]
<1>1. m \in Int /\ 1 \in Int /\ \A cell \in 1..m : dns[cell] \in Cell
  BY CapNat DEF DnsTypeOK
<1>2. /\ SubSeq(dns, 1, m) \in Seq(Cell)
      /\ Len(SubSeq(dns, 1, m)) = (IF 1 <= m THEN m - 1 + 1 ELSE 0)
      /\ \A cell \in 1..m - 1 + 1 : SubSeq(dns, 1, m)[cell] = dns[1 + cell - 1]
  BY <1>1, SubSeqProperties
<1> QED
  BY <1>1, <1>2, CapNat

LEMMA DnsInitTypes == DnsInit => DnsTypeOK
<1> SUFFICES ASSUME DnsInit PROVE DnsTypeOK
  OBVIOUS
<1>1. /\ dns \in [1..CAP -> Cell] /\ n \in Nat /\ reg \in Seq(Cell)
      /\ entry \in UserDns \cup {<<>>}
  BY DEF DnsInit, Cell
<1>2. /\ pc \in [Threads -> Places] /\ op \in [Threads -> {"write", "commit"}]
      /\ user \in [Threads -> UserDns \cup {<<>>}] /\ src \in [Threads -> DnsLists \cup {<<>>}]
      /\ j \in [Threads -> Nat] /\ kept \in [Threads -> Nat]
      /\ alone \in [Threads -> BOOLEAN]
  BY DEF DnsInit, Places
<1>3. \A t \in Threads : pc[t] = "idle" /\ op[t] = "write"
  BY DEF DnsInit
<1> QED
  BY <1>1, <1>2, <1>3 DEF DnsTypeOK

\* A store of a cell keeps the array's type, and leaves it alone past its end.
LEMMA StoreTypes ==
  ASSUME DnsTypeOK, NEW cell \in Nat \ {0}, NEW a, cell <= CAP => a \in Cell, Store(cell, a)
  PROVE  dns' \in [1..CAP -> Cell]
<1>1. CASE cell <= CAP
  BY <1>1, CapNat DEF Store, DnsTypeOK
<1>2. CASE ~(cell <= CAP)
  BY <1>2 DEF Store, DnsTypeOK
<1> QED
  BY <1>1, <1>2

\* The end of a call keeps the types of the thread's variables.
LEMMA EndTypes ==
  ASSUME DnsTypeOK, NEW t \in Threads, EndCall(t)
  PROVE  /\ pc' \in [Threads -> Places] /\ op' \in [Threads -> {"write", "commit"}]
         /\ user' \in [Threads -> UserDns \cup {<<>>}]
         /\ src' \in [Threads -> DnsLists \cup {<<>>}]
         /\ j' \in [Threads -> Nat] /\ kept' \in [Threads -> Nat]
         /\ \A u \in Threads :
              /\ pc'[u] = "copy" => src'[u] \in DnsLists /\ j'[u] \in 1..Len(src'[u]) + 1
              /\ op'[u] = "commit" => pc'[u] \in {"idle", "copy"}
<1>1. /\ pc' = [pc EXCEPT ![t] = "idle"] /\ op' = [op EXCEPT ![t] = "write"]
      /\ user' = [user EXCEPT ![t] = <<>>] /\ src' = [src EXCEPT ![t] = <<>>]
      /\ j' = [j EXCEPT ![t] = 0] /\ kept' = [kept EXCEPT ![t] = 0]
  BY DEF EndCall, Goto
<1>2. /\ pc' \in [Threads -> Places] /\ op' \in [Threads -> {"write", "commit"}]
      /\ user' \in [Threads -> UserDns \cup {<<>>}]
  BY <1>1 DEF DnsTypeOK, Places
<1>3. /\ src' \in [Threads -> DnsLists \cup {<<>>}]
      /\ j' \in [Threads -> Nat] /\ kept' \in [Threads -> Nat]
  BY <1>1 DEF DnsTypeOK
<1>4. \A u \in Threads :
        /\ pc'[u] = "copy" => src'[u] \in DnsLists /\ j'[u] \in 1..Len(src'[u]) + 1
        /\ op'[u] = "commit" => pc'[u] \in {"idle", "copy"}
  <2> SUFFICES ASSUME NEW u \in Threads
               PROVE  /\ pc'[u] = "copy" => src'[u] \in DnsLists /\ j'[u] \in 1..Len(src'[u]) + 1
                      /\ op'[u] = "commit" => pc'[u] \in {"idle", "copy"}
    OBVIOUS
  <2>1. CASE u = t
    BY <1>1, <2>1 DEF DnsTypeOK
  <2>2. CASE u # t
    BY <1>1, <2>2 DEF DnsTypeOK
  <2> QED
    BY <2>1, <2>2
<1> QED
  BY <1>2, <1>3, <1>4

LEMMA DnsStepTypes == DnsTypeOK /\ [DnsNext]_dnsVars => DnsTypeOK'
<1> SUFFICES ASSUME DnsTypeOK, [DnsNext]_dnsVars PROVE DnsTypeOK'
  OBVIOUS
<1> USE CapNat
<1>1. CASE SetEntry
  BY <1>1 DEF SetEntry, DnsTypeOK, list, local
<1>2. ASSUME NEW l \in DhcpDns, Commit(l) PROVE DnsTypeOK'
  <2>1. l \in DnsLists /\ Len(l) \in 1..CAP
    BY ListFacts DEF DnsLists
  <2>2. Worker \in Threads
    BY DEF Threads
  <2> QED
    BY <1>2, <2>1, <2>2 DEF Commit, Goto, BeginCall, DnsTypeOK, Places, list
<1>3. ASSUME NEW t \in Threads, Step(t) PROVE DnsTypeOK'
  <2>1. CASE ReadRasDns(t)
    <3>1. entry # <<>> => entry \in DnsLists /\ Len(entry) \in 1..CAP
      BY ListFacts DEF DnsTypeOK, DnsLists
    <3>2. entry \in DnsLists \cup {<<>>}
      BY <3>1
    <3> QED
      BY <2>1, <3>1, <3>2 DEF ReadRasDns, Goto, BeginCall, DnsTypeOK, Places, list
  <2>2. CASE Fallback(t)
    <3>1. LastResort \in DnsLists /\ Len(LastResort) \in 1..CAP
      BY ListFacts DEF DnsLists
    <3> QED
      BY <2>2, <3>1 DEF Fallback, Goto, DnsTypeOK, Places, list
  <2>3. CASE Copy(t)
    <3>1. src[t] \in DnsLists /\ j[t] \in 1..Len(src[t]) + 1 /\ Len(src[t]) \in 1..CAP
      BY <2>3, ListFacts DEF Copy, DnsTypeOK
    <3>2. CASE j[t] <= Len(src[t])
      <4>1. dns' \in [1..CAP -> Cell]
        <5>1. j[t] \in Nat \ {0} /\ Store(j[t], src[t][j[t]])
          BY <2>3, <3>1, <3>2 DEF Copy
        <5>2. src[t][j[t]] \in Cell
          BY <3>1, <3>2, ListFacts DEF Cell
        <5> QED
          BY <5>1, <5>2, StoreTypes
      <4>2. /\ j' = [j EXCEPT ![t] = @ + 1] /\ j[t] + 1 \in 1..Len(src[t]) + 1
            /\ UNCHANGED <<n, reg, entry, pc, op, user, src, kept, alone>>
        BY <2>3, <3>1, <3>2 DEF Copy
      <4>3. j' \in [Threads -> Nat]
        BY <3>1, <4>2 DEF DnsTypeOK
      <4>4. \A u \in Threads :
              /\ pc[u] = "copy" => src[u] \in DnsLists /\ j'[u] \in 1..Len(src[u]) + 1
              /\ op[u] = "commit" => pc[u] \in {"idle", "copy"}
        BY <3>1, <4>2 DEF DnsTypeOK
      <4> QED
        BY <4>1, <4>2, <4>3, <4>4 DEF DnsTypeOK
    <3>3. CASE ~(j[t] <= Len(src[t]))
      <4>1. n' \in Nat
        BY <2>3, <3>1, <3>3 DEF Copy, Count
      <4>2. CASE op[t] = "commit"
        <5>1. EndCall(t) /\ UNCHANGED <<dns, reg, entry, alone>>
          BY <2>3, <3>3, <4>2 DEF Copy
        <5> QED
          BY <4>1, <5>1, EndTypes DEF DnsTypeOK
      <4>3. CASE op[t] # "commit"
        BY <2>3, <3>3, <4>1, <4>3 DEF Copy, Goto, DnsTypeOK, Places, local
      <4> QED
        BY <4>2, <4>3
    <3> QED
      BY <3>2, <3>3
  <2>4. CASE Check(t)
    BY <2>4 DEF Check, Goto, DnsTypeOK, Places, list, local
  <2>5. CASE CutShort(t)
    <3>1. n' \in Nat
      BY <2>5 DEF CutShort, CutTo, DnsTypeOK
    <3> QED
      BY <2>5, <3>1 DEF CutShort, Goto, DnsTypeOK, Places
  <2>6. CASE Start(t)
    BY <2>6 DEF Start, Goto, DnsTypeOK, Places, list
  <2>7. CASE Shift(t)
    <3>1. CASE j[t] > 0
      <4>1. dns' \in [1..CAP -> Cell]
        BY <2>7, <3>1, StoreTypes DEF Shift, DnsTypeOK
      <4>2. /\ pc[t] = "shift" /\ j' = [j EXCEPT ![t] = @ - 1] /\ j[t] - 1 \in Nat
            /\ UNCHANGED <<n, reg, entry, pc, op, user, src, kept, alone>>
        BY <2>7, <3>1 DEF Shift, DnsTypeOK
      <4>3. j' \in [Threads -> Nat]
        BY <4>2 DEF DnsTypeOK
      <4>4. \A u \in Threads :
              /\ pc[u] = "copy" => src[u] \in DnsLists /\ j'[u] \in 1..Len(src[u]) + 1
              /\ op[u] = "commit" => pc[u] \in {"idle", "copy"}
        BY <4>2 DEF DnsTypeOK
      <4> QED
        BY <4>1, <4>2, <4>3, <4>4 DEF DnsTypeOK
    <3>2. CASE ~(j[t] > 0)
      BY <2>7, <3>2 DEF Shift, Goto, DnsTypeOK, Places
    <3> QED
      BY <3>1, <3>2
  <2>8. CASE Head1(t)
    <3>1. dns' \in [1..CAP -> Cell]
      BY <2>8, StoreTypes DEF Head1, Cell, Addr
    <3> QED
      BY <2>8, <3>1 DEF Head1, Goto, DnsTypeOK, Places, local
  <2>9. CASE Increment(t)
    BY <2>9 DEF Increment, Goto, DnsTypeOK, Places, local
  <2>10. CASE WriteReg(t)
    <3>1. reg' \in Seq(Cell)
      <4>1. (IF n < CAP THEN n ELSE CAP) \in 0..CAP
        BY DEF DnsTypeOK
      <4> QED
        BY <2>10, <4>1, Registered DEF WriteReg
    <3> QED
      BY <2>10, <3>1 DEF WriteReg, EndCall, Goto, DnsTypeOK, Places, list
  <2> QED
    BY <1>3, <2>1, <2>2, <2>3, <2>4, <2>5, <2>6, <2>7, <2>8, <2>9, <2>10 DEF Step
<1>4. CASE UNCHANGED dnsVars
  BY <1>4 DEF dnsVars, DnsTypeOK, list, local
<1> QED
  BY <1>1, <1>2, <1>3, <1>4 DEF DnsNext

\* The variables of the list keep their types, however calls overlap.
THEOREM DnsTypes == DnsSpec => []DnsTypeOK
BY DnsInitTypes, DnsStepTypes, PTL DEF DnsSpec
-----------------------------------------------------------------------------
(* What the list is while no two calls have overlapped: one thread at most *)
(* is inside, and what the cells hold follows from the line it is at.      *)

NoRevival(lo, hi) == \A cell \in lo..hi : dns[cell] # Revival

OnlyOne == \A a, b \in Threads : pc[a] # "idle" /\ pc[b] # "idle" => a = b

\* The revival server is nowhere but at the head, in the list and in the registry.
HeadOnly ==
  /\ ~spill /\ n <= CAP /\ NoRevival(2, n)
  /\ \A cell \in DOMAIN reg : cell > 1 => reg[cell] # Revival

\* Where thread t is, against what it has done to the list.
Progress(t) ==
  /\ pc[t] = "copy"  => NoRevival(1, j[t] - 1)
  /\ pc[t] = "clamp" => dns[1] # Revival
  /\ pc[t] \in {"start", "shift", "head", "inc"} => kept[t] = n /\ n <= CAP - 1
  /\ pc[t] = "start" => NoRevival(1, n)
  /\ pc[t] = "shift" => j[t] <= n /\ NoRevival(1, n) /\ (j[t] < n => dns[n + 1] # Revival)
  /\ pc[t] \in {"head", "inc"} => NoRevival(2, n + 1)

OneAtATime == OnlyOne /\ HeadOnly /\ \A t \in Threads : Progress(t)

\* If all the others are idle, it is enough to follow t.
LEMMA FollowOne ==
  ASSUME NEW t \in Threads, \A o \in Threads \ {t} : pc'[o] = "idle",
         HeadOnly', Progress(t)'
  PROVE  OneAtATime'
<1>1. OnlyOne'
  BY DEF OnlyOne
<1>2. \A o \in Threads : Progress(o)'
  <2> SUFFICES ASSUME NEW o \in Threads, o # t PROVE Progress(o)'
    OBVIOUS
  <2> QED
    BY DEF Progress
<1> QED
  BY <1>1, <1>2 DEF OneAtATime

\* A thread that is inside has left the others idle, and moves no other.
LEMMA OthersIdle ==
  ASSUME DnsTypeOK, OnlyOne, NEW t \in Threads, pc[t] # "idle",
         NEW at, pc' = [pc EXCEPT ![t] = at] \/ UNCHANGED pc
  PROVE  \A o \in Threads \ {t} : pc'[o] = "idle"
BY DEF DnsTypeOK, OnlyOne

LEMMA DnsInitSerial == DnsInit => OneAtATime
<1> SUFFICES ASSUME DnsInit PROVE OneAtATime
  OBVIOUS
<1>1. OnlyOne
  BY DEF DnsInit, OnlyOne
<1>2. HeadOnly
  BY CapNat DEF DnsInit, HeadOnly, NoRevival
<1>3. \A t \in Threads : Progress(t)
  BY DEF DnsInit, Progress
<1> QED
  BY <1>1, <1>2, <1>3 DEF OneAtATime

\* A call begins while no other runs, or calls overlap from then on.
LEMMA BeginSerial ==
  ASSUME DnsTypeOK, ~overlap => OneAtATime, ~overlap', NEW t \in Threads, BeginCall(t),
         pc[t] = "idle", NEW at \in {"copy", "fallback"}, Goto(t, at), j' = [j EXCEPT ![t] = 1],
         UNCHANGED <<dns, n, reg, spill>>
  PROVE  OneAtATime'
<1>1. ~overlap /\ \A o \in Threads \ {t} : pc[o] = "idle"
  BY DEF BeginCall, Others
<1>2. pc' = [pc EXCEPT ![t] = at] /\ pc'[t] = at /\ j'[t] = 1
  BY DEF Goto, DnsTypeOK
<1>3. \A o \in Threads \ {t} : pc'[o] = "idle"
  BY <1>1, <1>2 DEF DnsTypeOK
<1>4. HeadOnly'
  BY <1>1 DEF OneAtATime, HeadOnly, NoRevival
<1>5. Progress(t)'
  BY <1>2 DEF Progress, NoRevival
<1> QED
  BY <1>3, <1>4, <1>5, FollowOne

\* Every later line of a call that no other overlaps.
LEMMA StepSerial ==
  ASSUME DnsTypeOK, OneAtATime, NEW t \in Threads, pc[t] # "idle", Step(t)
  PROVE  OneAtATime'
<1> USE CapNat
<1>1. HeadOnly /\ Progress(t) /\ OnlyOne
  BY DEF OneAtATime
<1>2. \A o \in Threads \ {t} : pc'[o] = "idle"
  <2>1. \E at : pc' = [pc EXCEPT ![t] = at] \/ UNCHANGED pc
    BY DEF Step, ReadRasDns, Fallback, Copy, Check, CutShort, Start, Shift, Head1, Increment, WriteReg,
           EndCall, Goto, local
  <2> QED
    BY <1>1, <2>1, OthersIdle
<1> SUFFICES HeadOnly' /\ Progress(t)'
  BY <1>2, FollowOne
<1>3. CASE Fallback(t)
  <2>1. pc'[t] \in {"copy", "check"} /\ j'[t] = 1 /\ UNCHANGED <<dns, n, reg, spill>>
    BY <1>3 DEF Fallback, Goto, DnsTypeOK, list
  <2> QED
    BY <1>1, <2>1 DEF HeadOnly, Progress, NoRevival
<1>4. CASE Copy(t)
  <2>1. /\ src[t] \in DnsLists /\ j[t] \in 1..Len(src[t]) + 1 /\ Len(src[t]) \in 1..CAP
        /\ \A cell \in 1..Len(src[t]) : src[t][cell] # Revival
    BY <1>4, ListFacts DEF Copy, DnsTypeOK
  <2>2. NoRevival(1, j[t] - 1)
    BY <1>1, <1>4 DEF Progress, Copy
  <2>3. CASE j[t] <= Len(src[t])
    <3>1. /\ dns' = [dns EXCEPT ![j[t]] = src[t][j[t]]] /\ j'[t] = j[t] + 1 /\ pc'[t] = "copy"
          /\ UNCHANGED <<n, reg, spill>>
      BY <1>4, <2>1, <2>3 DEF Copy, Store, DnsTypeOK
    <3>2. \A cell \in 1..CAP : dns'[cell] = IF cell = j[t] THEN src[t][cell] ELSE dns[cell]
      BY <3>1 DEF DnsTypeOK
    <3>3. HeadOnly'
      BY <1>1, <2>1, <2>3, <3>1, <3>2 DEF HeadOnly, NoRevival, DnsTypeOK
    <3>4. Progress(t)'
      BY <2>1, <2>2, <2>3, <3>1, <3>2 DEF Progress, NoRevival
    <3> QED
      BY <3>3, <3>4
  <2>4. CASE ~(j[t] <= Len(src[t]))
    <3>1. n' = Len(src[t]) /\ pc'[t] \in {"idle", "check"} /\ UNCHANGED <<dns, reg, spill>>
      BY <1>4, <2>4 DEF Copy, Count, EndCall, Goto, DnsTypeOK
    <3>2. NoRevival(1, n')
      BY <2>1, <2>2, <2>4, <3>1
    <3> QED
      BY <1>1, <2>1, <3>1, <3>2 DEF HeadOnly, Progress, NoRevival
  <2> QED
    BY <2>3, <2>4
<1>5. CASE Check(t)
  <2>1. /\ pc'[t] = "put" \/ (pc'[t] = "clamp" /\ dns[1] # Revival)
        /\ UNCHANGED <<dns, n, reg, spill>>
    BY <1>5 DEF Check, WantsRevival, Goto, DnsTypeOK, list
  <2> QED
    BY <1>1, <2>1 DEF HeadOnly, Progress, NoRevival
<1>6. CASE CutShort(t)
  <2>1. /\ n' = (IF n > CAP - 1 THEN CAP - 1 ELSE n) /\ kept'[t] = n' /\ pc'[t] = "start"
        /\ UNCHANGED <<dns, reg, spill>> /\ dns[1] # Revival
    BY <1>1, <1>6 DEF CutShort, CutTo, Goto, DnsTypeOK, Progress
  <2>2. n' \in Nat /\ n' <= n /\ n' <= CAP - 1
    <3>1. n \in Nat /\ n' = (IF n > CAP - 1 THEN CAP - 1 ELSE n)
      BY <2>1 DEF DnsTypeOK
    <3>2. CAP \in Nat /\ CAP > 1
      BY CapNat
    <3> QED
      BY <3>1, <3>2
  <2>3. /\ \A cell \in 2..n' : cell \in 2..n
        /\ \A cell \in 1..n' : cell \in 1..n /\ (cell = 1 \/ cell \in 2..n)
    BY <2>2 DEF DnsTypeOK
  <2>4. HeadOnly' /\ NoRevival(1, n')
    BY <1>1, <2>1, <2>2, <2>3 DEF HeadOnly, NoRevival
  <2>5. Progress(t)'
    BY <2>1, <2>2, <2>4 DEF Progress, NoRevival
  <2> QED
    BY <2>4, <2>5
<1>7. CASE Start(t)
  <2>1. kept[t] = n /\ n <= CAP - 1 /\ NoRevival(1, n)
    BY <1>1, <1>7 DEF Start, Progress
  <2>2. j'[t] = n /\ kept'[t] = n /\ pc'[t] = "shift" /\ UNCHANGED <<dns, n, reg, spill>>
    BY <1>7, <2>1 DEF Start, Goto, DnsTypeOK, list
  <2> QED
    BY <1>1, <2>1, <2>2 DEF HeadOnly, Progress, NoRevival, DnsTypeOK
<1>8. CASE Shift(t)
  <2>1. /\ kept[t] = n /\ n <= CAP - 1 /\ j[t] <= n /\ NoRevival(1, n)
        /\ j[t] < n => dns[n + 1] # Revival
    BY <1>1, <1>8 DEF Shift, Progress
  <2>2. n \in Nat /\ j[t] \in Nat
    BY DEF DnsTypeOK
  <2>3. CASE j[t] > 0
    <3>1. /\ dns' = [dns EXCEPT ![j[t] + 1] = dns[j[t]]] /\ j'[t] = j[t] - 1 /\ pc'[t] = "shift"
          /\ UNCHANGED <<n, reg, kept, spill>>
      BY <1>8, <2>1, <2>2, <2>3 DEF Shift, Store, DnsTypeOK
    <3>2. \A cell \in 1..CAP : dns'[cell] = IF cell = j[t] + 1 THEN dns[j[t]] ELSE dns[cell]
      BY <3>1 DEF DnsTypeOK
    <3>3. dns[j[t]] # Revival
      BY <2>1, <2>2, <2>3 DEF NoRevival
    <3>4. \A cell \in 1..n : dns'[cell] # Revival
      BY <2>1, <2>2, <3>2, <3>3 DEF NoRevival
    <3>5. dns'[n + 1] # Revival
      BY <2>1, <2>2, <3>2, <3>3
    <3> QED
      BY <1>1, <2>1, <2>2, <2>3, <3>1, <3>4, <3>5 DEF HeadOnly, Progress, NoRevival
  <2>4. CASE ~(j[t] > 0)
    <3>1. pc'[t] = "head" /\ UNCHANGED <<dns, n, reg, kept, spill>>
      BY <1>8, <2>4 DEF Shift, Goto, DnsTypeOK
    <3>2. NoRevival(2, n + 1)
      BY <2>1, <2>2, <2>4 DEF NoRevival
    <3> QED
      BY <1>1, <2>1, <3>1, <3>2 DEF HeadOnly, Progress, NoRevival
  <2> QED
    BY <2>3, <2>4
<1>9. CASE Head1(t)
  <2>1. kept[t] = n /\ n <= CAP - 1 /\ NoRevival(2, n + 1) /\ n \in Nat
    BY <1>1, <1>9 DEF Head1, Progress, DnsTypeOK
  <2>2. /\ dns' = [dns EXCEPT ![1] = Revival] /\ pc'[t] = "inc"
        /\ UNCHANGED <<n, reg, kept, spill>>
    BY <1>9 DEF Head1, Store, Goto, DnsTypeOK, local
  <2>3. \A cell \in 2..n + 1 : dns'[cell] = dns[cell]
    BY <2>1, <2>2 DEF DnsTypeOK
  <2> QED
    BY <1>1, <2>1, <2>2, <2>3 DEF HeadOnly, Progress, NoRevival
<1>10. CASE Increment(t)
  <2>1. kept[t] = n /\ n <= CAP - 1 /\ NoRevival(2, n + 1) /\ n \in Nat
    BY <1>1, <1>10 DEF Increment, Progress, DnsTypeOK
  <2>2. n' = n + 1 /\ pc'[t] = "put" /\ UNCHANGED <<dns, reg, spill>>
    BY <1>10, <2>1 DEF Increment, Goto, DnsTypeOK
  <2> QED
    BY <1>1, <2>1, <2>2 DEF HeadOnly, Progress, NoRevival
<1>11. CASE WriteReg(t)
  <2>1. pc'[t] = "idle" /\ reg' = SubSeq(dns, 1, n) /\ UNCHANGED <<dns, n, spill>> /\ n \in 0..CAP
    BY <1>1, <1>11 DEF WriteReg, EndCall, Goto, list, HeadOnly, DnsTypeOK
  <2>2. Len(reg') = n /\ reg' \in Seq(Cell) /\ \A cell \in 1..n : reg'[cell] = dns[cell]
    BY <2>1, Registered
  <2>3. \A cell \in DOMAIN reg' : cell > 1 => reg'[cell] # Revival
    BY <1>1, <2>1, <2>2 DEF HeadOnly, NoRevival
  <2> QED
    BY <1>1, <2>1, <2>3 DEF HeadOnly, Progress, NoRevival
<1> QED
  BY <1>3, <1>4, <1>5, <1>6, <1>7, <1>8, <1>9, <1>10, <1>11 DEF Step, ReadRasDns

LEMMA DnsStepSerial ==
  DnsTypeOK /\ (~overlap => OneAtATime) /\ [DnsNext]_dnsVars => (~overlap' => OneAtATime')
<1> SUFFICES ASSUME DnsTypeOK, ~overlap => OneAtATime, [DnsNext]_dnsVars, ~overlap'
             PROVE  OneAtATime'
  OBVIOUS
<1>1. CASE SetEntry \/ UNCHANGED dnsVars
  <2>1. UNCHANGED <<dns, n, reg, pc, j, kept, overlap, spill>>
    BY <1>1 DEF SetEntry, dnsVars, list, local
  <2> QED
    BY <2>1 DEF OneAtATime, OnlyOne, HeadOnly, Progress, NoRevival
<1>2. ASSUME NEW l \in DhcpDns, Commit(l) PROVE OneAtATime'
  <2>1. Worker \in Threads
    BY DEF Threads
  <2>2. Goto(Worker, "copy") /\ BeginCall(Worker) /\ pc[Worker] = "idle"
        /\ j' = [j EXCEPT ![Worker] = 1] /\ UNCHANGED <<dns, n, reg, spill>>
    BY <1>2 DEF Commit, list
  <2> QED
    BY <2>1, <2>2, BeginSerial
<1>3. ASSUME NEW t \in Threads, Step(t) PROVE OneAtATime'
  <2>1. CASE ReadRasDns(t)
    <3>1. PICK at \in {"copy", "fallback"} : Goto(t, at)
      BY <2>1 DEF ReadRasDns
    <3>2. BeginCall(t) /\ pc[t] = "idle" /\ j' = [j EXCEPT ![t] = 1] /\ UNCHANGED <<dns, n, reg, spill>>
      BY <2>1 DEF ReadRasDns, list
    <3> QED
      BY <3>1, <3>2, BeginSerial
  <2>2. CASE ~ReadRasDns(t)
    <3>1. pc[t] # "idle" /\ UNCHANGED overlap
      BY <1>3, <2>2 DEF Step, Fallback, Copy, Check, CutShort, Start, Shift, Head1, Increment, WriteReg
    <3> QED
      BY <1>3, <3>1, StepSerial
  <2> QED
    BY <2>1, <2>2
<1> QED
  BY <1>1, <1>2, <1>3 DEF DnsNext

\* However often programs dial and leases come: as long as no two calls overlap, nothing
\* is stored past the array, and the registry lists the revival server once.
THEOREM DnsNeverAppends == DnsSpec => []NeverAppends
<1>1. DnsTypeOK /\ (~overlap => OneAtATime) => NeverAppends
  <2> SUFFICES ASSUME DnsTypeOK, ~overlap, OneAtATime PROVE NeverAppends
    BY DEF NeverAppends
  <2>1. HeadOnly
    BY DEF OneAtATime
  <2>2. \A cell \in DOMAIN reg : cell \in Nat /\ (reg[cell] = Revival => cell <= 1) /\ cell >= 1
    BY <2>1 DEF HeadOnly, DnsTypeOK
  <2>3. \A cell, k \in DOMAIN reg : reg[cell] = Revival /\ reg[k] = Revival => cell = k
    BY <2>2
  <2> QED
    BY <2>1, <2>3 DEF HeadOnly, NeverAppends
<1> QED
  BY <1>1, DnsInitSerial, DnsStepSerial, DnsTypes, PTL DEF DnsSpec

-----------------------------------------------------------------------------
(* A call that no other overlaps, whatever the list was when it began.     *)

InUse(l) == n = Len(l) /\ n <= CAP /\ \A cell \in 1..n : dns[cell] = l[cell]

\* Where thread t is, against what it has done for its caller.
Served(t) ==
  /\ \A o \in Threads \ {t} : pc[o] = "idle"
  /\ pc[t] = "fallback" => user[t] = <<>>
  /\ pc[t] = "copy" /\ op[t] = "write" =>
       /\ \A cell \in 1..j[t] - 1 : dns[cell] = src[t][cell]
       /\ user[t] # <<>> => src[t] = user[t]
  /\ pc[t] \in {"check", "put"} => n > 0 /\ (user[t] # <<>> => InUse(user[t]))
  /\ pc[t] \in {"clamp", "start", "shift", "head", "inc"} => user[t] = <<>> /\ n > 0
  /\ pc[t] \in {"start", "shift", "head", "inc"} => kept[t] = n
  /\ pc[t] = "inc" \/ (pc[t] = "put" /\ user[t] = <<>>) => dns[1] = Revival

AloneServed == \A t \in Threads : alone[t] /\ pc[t] # "idle" => Served(t)

\* A call that begins alone has done nothing yet; one that it overlaps is alone no more.
LEMMA ServedBegin ==
  ASSUME DnsTypeOK, NEW t \in Threads, BeginCall(t), NEW at \in {"copy", "fallback"},
         pc[t] = "idle", Goto(t, at), UNCHANGED dns,
         j' = [j EXCEPT ![t] = 1], at = "fallback" => user'[t] = <<>>,
         at = "copy" /\ op'[t] = "write" /\ user'[t] # <<>> => src'[t] = user'[t]
  PROVE  AloneServed'
<1>1. pc' = [pc EXCEPT ![t] = at] /\ pc'[t] = at /\ j'[t] = 1
  BY DEF Goto, DnsTypeOK
<1>2. SUFFICES ASSUME NEW o \in Threads, alone'[o] PROVE Served(o)'
  BY DEF AloneServed
<1>3. o = t /\ \A u \in Threads \ {t} : pc[u] = "idle"
  BY <1>2 DEF BeginCall, Others
<1>4. \A u \in Threads \ {t} : pc'[u] = "idle"
  BY <1>1, <1>3 DEF DnsTypeOK
<1> QED
  BY <1>1, <1>3, <1>4 DEF Served

LEMMA ServedStep ==
  ASSUME DnsTypeOK, Revival # 0, NEW t \in Threads, Served(t), pc[t] # "idle", Step(t),
         \A o \in Threads \ {t} : pc'[o] = "idle", pc'[t] # "idle", ~spill
  PROVE  Served(t)'
<1> USE CapNat
<1>1. n \in Nat /\ user[t] \in UserDns \cup {<<>>} /\ op[t] \in {"write", "commit"}
  BY DEF DnsTypeOK
<1>2. CASE Fallback(t)
  <2>1. /\ pc'[t] \in {"copy", "check"} /\ (pc'[t] = "check" => n > 0) /\ j'[t] = 1
        /\ user'[t] = <<>> /\ UNCHANGED <<dns, n>>
    BY <1>1, <1>2 DEF Fallback, Served, Goto, DnsTypeOK, list
  <2> QED
    BY <2>1 DEF Served
<1>3. CASE Copy(t)
  <2>1. /\ src[t] \in DnsLists /\ j[t] \in 1..Len(src[t]) + 1 /\ Len(src[t]) \in 1..CAP
    BY <1>3, ListFacts DEF Copy, DnsTypeOK
  <2>2. CASE j[t] <= Len(src[t])
    <3>1. /\ dns' = [dns EXCEPT ![j[t]] = src[t][j[t]]] /\ j'[t] = j[t] + 1 /\ pc'[t] = "copy"
          /\ UNCHANGED <<n, op, user, src>>
      BY <1>3, <2>1, <2>2 DEF Copy, Store, DnsTypeOK
    <3>2. \A cell \in 1..CAP : dns'[cell] = IF cell = j[t] THEN src[t][cell] ELSE dns[cell]
      BY <3>1 DEF DnsTypeOK
    <3>3. op[t] = "write" => \A cell \in 1..j'[t] - 1 : dns'[cell] = src[t][cell]
      BY <1>3, <2>1, <2>2, <3>1, <3>2 DEF Served, Copy
    <3> QED
      BY <1>3, <3>1, <3>3 DEF Served, Copy
  <2>3. CASE ~(j[t] <= Len(src[t]))
    <3>1. op[t] = "write"
      BY <1>1, <1>3, <2>3 DEF Copy, EndCall, Goto, DnsTypeOK
    <3>2. n' = Len(src[t]) /\ pc'[t] = "check" /\ UNCHANGED <<dns, user>>
      BY <1>3, <2>3, <3>1 DEF Copy, Count, Goto, DnsTypeOK, local
    <3>3. user[t] # <<>> => InUse(user[t])'
      BY <1>3, <2>1, <2>3, <3>1, <3>2 DEF Served, Copy, InUse
    <3> QED
      BY <2>1, <3>2, <3>3 DEF Served
  <2> QED
    BY <2>2, <2>3
<1>4. CASE Check(t)
  <2>1. /\ n > 0 /\ (user[t] # <<>> => InUse(user[t]))
        /\ UNCHANGED <<dns, n, user>>
        /\ pc'[t] = IF user[t] = <<>> /\ dns[1] # Revival THEN "clamp" ELSE "put"
    BY <1>4 DEF Check, WantsRevival, Goto, DnsTypeOK, list, local, Served
  <2> QED
    BY <2>1 DEF Served, InUse
<1>5. CASE CutShort(t)
  <2>1. /\ n > 0 /\ user[t] = <<>> /\ n' > 0 /\ kept'[t] = n' /\ pc'[t] = "start"
        /\ UNCHANGED user
    BY <1>1, <1>5 DEF CutShort, CutTo, Goto, DnsTypeOK, Served
  <2> QED
    BY <2>1 DEF Served
<1>6. CASE Start(t)
  <2>1. pc'[t] = "shift" /\ UNCHANGED <<n, user, kept>> /\ pc[t] = "start"
    BY <1>6 DEF Start, Goto, DnsTypeOK, list
  <2> QED
    BY <2>1 DEF Served
<1>7. CASE Shift(t)
  <2>1. pc'[t] \in {"shift", "head"} /\ UNCHANGED <<n, user, kept>> /\ pc[t] = "shift"
    BY <1>7 DEF Shift, Goto, DnsTypeOK
  <2> QED
    BY <2>1 DEF Served
<1>8. CASE Head1(t)
  <2>1. pc'[t] = "inc" /\ dns'[1] = Revival /\ UNCHANGED <<n, user, kept>> /\ pc[t] = "head"
    BY <1>8 DEF Head1, Store, Goto, DnsTypeOK, local
  <2> QED
    BY <2>1 DEF Served
<1>9. CASE Increment(t)
  <2>1. pc'[t] = "put" /\ n' = n + 1 /\ user[t] = <<>> /\ dns[1] = Revival /\ UNCHANGED <<dns, user>>
    BY <1>9 DEF Increment, Goto, DnsTypeOK, local, Served
  <2> QED
    BY <1>1, <2>1 DEF Served
<1>10. CASE WriteReg(t)
  BY <1>10 DEF WriteReg, EndCall, Goto, DnsTypeOK
<1> QED
  BY <1>2, <1>3, <1>4, <1>5, <1>6, <1>7, <1>8, <1>9, <1>10 DEF Step, ReadRasDns

LEMMA DnsStepServed ==
  Revival # 0 /\ DnsTypeOK /\ AloneServed /\ [DnsNext]_dnsVars => AloneServed'
<1> SUFFICES ASSUME Revival # 0, DnsTypeOK, AloneServed, [DnsNext]_dnsVars PROVE AloneServed'
  OBVIOUS
<1>1. CASE SetEntry \/ UNCHANGED dnsVars
  <2>1. UNCHANGED <<dns, n, pc, op, user, src, j, kept, alone>>
    BY <1>1 DEF SetEntry, dnsVars, list, local
  <2> QED
    BY <2>1 DEF AloneServed, Served, InUse
<1>2. ASSUME NEW l \in DhcpDns, Commit(l) PROVE AloneServed'
  <2>1. Worker \in Threads
    BY DEF Threads
  <2>2. /\ Goto(Worker, "copy") /\ BeginCall(Worker) /\ pc[Worker] = "idle"
        /\ j' = [j EXCEPT ![Worker] = 1] /\ UNCHANGED dns
    BY <1>2 DEF Commit, list
  <2>3. op'[Worker] = "commit"
    BY <1>2, <2>1 DEF Commit, DnsTypeOK
  <2> QED
    BY <2>1, <2>2, <2>3, ServedBegin
<1>3. ASSUME NEW t \in Threads, Step(t), ~spill PROVE AloneServed'
  <2>1. CASE ReadRasDns(t)
    <3>1. /\ Goto(t, IF entry # <<>> THEN "copy" ELSE "fallback") /\ BeginCall(t) /\ pc[t] = "idle"
          /\ j' = [j EXCEPT ![t] = 1] /\ UNCHANGED dns
      BY <2>1 DEF ReadRasDns, list
    <3>2. user'[t] = entry /\ src'[t] = entry
      BY <2>1 DEF ReadRasDns, DnsTypeOK
    <3>3. CASE entry # <<>>
      <4>1. Goto(t, "copy")
        BY <3>1, <3>3
      <4> QED
        BY <3>1, <3>2, <4>1, ServedBegin
    <3>4. CASE entry = <<>>
      <4>1. Goto(t, "fallback")
        BY <3>1, <3>4
      <4> QED
        BY <3>1, <3>2, <3>4, <4>1, ServedBegin
    <3> QED
      BY <3>3, <3>4
  <2>2. CASE ~ReadRasDns(t)
    <3>1. pc[t] # "idle" /\ UNCHANGED alone
      BY <1>3, <2>2 DEF Step, Fallback, Copy, Check, CutShort, Start, Shift, Head1, Increment, WriteReg
    <3>2. PICK at : pc' = [pc EXCEPT ![t] = at] \/ UNCHANGED pc
      BY <1>3, <2>2 DEF Step, Fallback, Copy, Check, CutShort, Start, Shift, Head1, Increment, WriteReg,
                        EndCall, Goto, local
    <3>3. \A o \in Threads \ {t} : pc'[o] = pc[o]
      BY <3>2 DEF DnsTypeOK
    <3>4. SUFFICES ASSUME NEW o \in Threads, alone[o], pc'[o] # "idle" PROVE Served(o)'
      BY <3>1 DEF AloneServed
    <3>5. o = t
      <4> SUFFICES ASSUME o # t PROVE FALSE
        OBVIOUS
      <4>1. Served(o)
        BY <3>3, <3>4 DEF AloneServed
      <4> QED
        BY <3>1, <4>1 DEF Served
    <3>6. Served(t) /\ \A u \in Threads \ {t} : pc'[u] = "idle"
      BY <3>1, <3>3, <3>4, <3>5 DEF AloneServed, Served
    <3> QED
      BY <1>3, <3>1, <3>4, <3>5, <3>6, ServedStep
  <2> QED
    BY <2>1, <2>2
<1> QED
  BY <1>1, <1>2, <1>3 DEF DnsNext

\* A dial that overlaps no other call leaves in the registry exactly the servers of the
\* phone book, or the revival server first, whatever the list held when it began.
\* This needs a revival server to be configured.
THEOREM DnsDialTakesEntry ==
  ASSUME Revival # 0
  PROVE  DnsSpec => DialTakesEntry
<1> DEFINE Taken(t) ==
             pc[t] = "put" /\ pc'[t] = "idle" /\ alone[t] =>
               IF user[t] # <<>> THEN reg' = user[t] ELSE Len(reg') > 0 /\ reg'[1] = Revival
<1>1. DnsInit => AloneServed
  BY DEF DnsInit, AloneServed
<1>2. DnsTypeOK /\ AloneServed /\ [DnsNext]_dnsVars => [\A t \in Threads : Taken(t)]_dnsVars
  <2> SUFFICES ASSUME DnsTypeOK, AloneServed, [DnsNext]_dnsVars, NEW t \in Threads,
                      pc[t] = "put", pc'[t] = "idle", alone[t], ~UNCHANGED dnsVars
               PROVE  IF user[t] # <<>> THEN reg' = user[t] ELSE Len(reg') > 0 /\ reg'[1] = Revival
    OBVIOUS
  <2>1. WriteReg(t)
    <3>1. ASSUME NEW o \in Threads, Step(o), o # t PROVE FALSE
      <4>1. \E at : pc' = [pc EXCEPT ![o] = at] \/ UNCHANGED pc
        BY <3>1 DEF Step, ReadRasDns, Fallback, Copy, Check, CutShort, Start, Shift, Head1, Increment,
                    WriteReg, EndCall, Goto, local
      <4> QED
        BY <3>1, <4>1 DEF DnsTypeOK
    <3>2. ASSUME NEW l \in DhcpDns, Commit(l) PROVE FALSE
      BY <3>2 DEF Commit, Goto, DnsTypeOK
    <3>3. ~SetEntry
      BY DEF SetEntry
    <3>4. Step(t)
      BY <3>1, <3>2, <3>3 DEF DnsNext
    <3> QED
      BY <3>4 DEF Step, ReadRasDns, Fallback, Copy, Check, CutShort, Start, Shift, Head1, Increment
  <2>2. Served(t)
    BY DEF AloneServed
  <2>3. n > 0 /\ n \in Nat
    BY <2>2 DEF Served, DnsTypeOK
  <2>4. PICK m \in 1..CAP : m = (IF n < CAP THEN n ELSE CAP) /\ reg' = SubSeq(dns, 1, m)
    BY <2>1, <2>3, CapNat DEF WriteReg
  <2>5. Len(reg') = m /\ reg' \in Seq(Cell) /\ \A cell \in 1..m : reg'[cell] = dns[cell]
    BY <2>4, Registered
  <2>6. CASE user[t] # <<>>
    <3>1. n = Len(user[t]) /\ n <= CAP /\ \A cell \in 1..n : dns[cell] = user[t][cell]
      BY <2>2, <2>6 DEF Served, InUse
    <3>2. user[t] \in Seq(Addr)
      BY <2>6, DnsListAssumption DEF DnsTypeOK, DnsLists
    <3>3. m = n
      BY <2>3, <2>4, <3>1, CapNat
    <3>4. user[t] \in Seq(Cell) /\ Len(reg') = Len(user[t])
          /\ \A cell \in 1..Len(reg') : reg'[cell] = user[t][cell]
      BY <2>5, <3>1, <3>2, <3>3 DEF Cell
    <3>5. reg' = user[t]
      BY <2>5, <3>4, SeqEqual
    <3> QED
      BY <2>6, <3>5
  <2>7. CASE user[t] = <<>>
    BY <2>2, <2>5, <2>7 DEF Served
  <2> QED
    BY <2>6, <2>7
<1>3. [][\A t \in Threads : Taken(t)]_dnsVars => DialTakesEntry
  BY DEF DialTakesEntry
<1>4. DnsTypeOK /\ AloneServed /\ [DnsNext]_dnsVars => AloneServed'
  BY DnsStepServed
<1> HIDE DEF Taken
<1> QED
  BY <1>1, <1>2, <1>3, <1>4, DnsTypes, PTL DEF DnsSpec

-----------------------------------------------------------------------------
(* The ARP cache and the address translation: a host has one slot, a       *)
(* datagram goes to its next hop until a host is evicted, and only a       *)
(* source that was dialled is restored.                                    *)

Inserting == {"ip", "mac1", "mac2", "used"}

\* No slot but the one in hand holds the host whose packet is being entered.
Unclaimed ==
  /\ rx \in Inserting => \A r \in Slots : used[r] /\ ip[r] = from => r = slot
  /\ rx \in Inserting \ {"ip"} => ip[slot] = from

\* The hardware addresses in the cache, and what the worker and the senders have in
\* hand, as long as no host is evicted.
TableFull == \A s \in Slots : used[s] => mac[s] = MacOf(ip[s])
WorkerHas == /\ rx = "mac2" => mac[slot][1] = from
             /\ rx = "used" => mac[slot] = MacOf(from)
Has(t) ==
  /\ tx[t] \in {"copy1", "copy2"} => used[i[t]] /\ ip[i[t]] = hop[t]
  /\ tx[t] = "copy2" => got[t][1] = hop[t]
  /\ tx[t] = "hit" => got[t] = MacOf(hop[t])
SenderHas == \A t \in Senders : Has(t)
Settled == ~evicted => TableFull /\ WorkerHas /\ SenderHas

\* The source to restore is stored before the target that lets the worker use it.
Translation ==
  /\ \A t \in Senders : tx[t] \in {"orig", "target"} => dst[t] \in dialled
  /\ \A t \in Senders : tx[t] = "target" => natOrig \in dialled
  /\ natTarget = Master => natOrig \in dialled
  /\ rx = "restore" => natTarget = Master

Searching == OneSlotPerHost /\ Unclaimed
Routed == \A t \in Senders : tx[t] = "miss" \/ tx[t] = "lookup" => hop[t] \in Hosts

Inv == TypeOK /\ Searching /\ Translation /\ Routed /\ Settled

Pair == (Hosts \cup {NoIp}) \X (Hosts \cup {NoIp})
-----------------------------------------------------------------------------
LEMMA InitTypes == Init => TypeOK
<1> SUFFICES ASSUME Init PROVE TypeOK
  OBVIOUS
<1>1. 0 \in Slots
  BY LinkTablesAssumption DEF Slots
<1>2. Nobody \in (Hosts \cup {NoIp}) \X (Hosts \cup {NoIp})
  BY DEF Nobody
<1>3. /\ ip \in [Slots -> Hosts \cup {NoIp}] /\ used \in [Slots -> BOOLEAN]
      /\ mac \in [Slots -> (Hosts \cup {NoIp}) \X (Hosts \cup {NoIp})]
  BY <1>2 DEF Init
<1>4. /\ dst \in [Senders -> Ips] /\ hop \in [Senders -> Hosts \cup {NoIp}]
      /\ i \in [Senders -> Slots]
      /\ got \in [Senders -> (Hosts \cup {NoIp}) \X (Hosts \cup {NoIp})]
  BY <1>1, <1>2 DEF Init, Ips
<1>5. tx \in [Senders -> {"idle", "orig", "target", "route", "lookup", "copy1", "copy2", "hit", "miss"}]
  BY DEF Init
<1> QED
  BY <1>1, <1>3, <1>4, <1>5, LinkTablesAssumption DEF Init, TypeOK, Ips

LEMMA WorkerTypes ==
  ASSUME TypeOK, (\E h \in Hosts : RxArp(h)) \/ ArpInsert \/ RxMaster \/ Restore
  PROVE  TypeOK'
<1>1. ASSUME NEW h \in Hosts, RxArp(h) PROVE TypeOK'
  BY <1>1 DEF TypeOK, RxArp, table, nat, transmit, hist
<1>2. CASE InsertIp
  <2>1. from \in Hosts \cup {NoIp} /\ slot \in Slots
    BY DEF TypeOK
  <2>2. ip' \in [Slots -> Hosts \cup {NoIp}] /\ evicted' \in BOOLEAN
    BY <1>2, <2>1 DEF InsertIp, TypeOK
  <2> QED
    BY <1>2, <2>2 DEF TypeOK, InsertIp, nat, transmit
<1>3. ASSUME NEW part \in {1, 2}, NEW at, NEW next \in {"mac2", "used"}, InsertMac(part, at, next)
      PROVE  TypeOK'
  <2>1. from \in Hosts \cup {NoIp} /\ slot \in Slots
    BY DEF TypeOK
  <2>2. mac[slot] \in (Hosts \cup {NoIp}) \X (Hosts \cup {NoIp})
    BY <2>1 DEF TypeOK
  <2>3. [mac[slot] EXCEPT ![part] = from] \in (Hosts \cup {NoIp}) \X (Hosts \cup {NoIp})
    BY <2>1, <2>2
  <2>4. mac' = [mac EXCEPT ![slot] = [mac[slot] EXCEPT ![part] = from]]
    BY <1>3 DEF InsertMac
  <2>5. mac' \in [Slots -> (Hosts \cup {NoIp}) \X (Hosts \cup {NoIp})]
    BY <2>3, <2>4 DEF TypeOK
  <2> QED
    BY <1>3, <2>5 DEF TypeOK, InsertMac, nat, transmit, hist
<1>4. CASE InsertUsed
  <2>1. used' \in [Slots -> BOOLEAN]
    BY <1>4 DEF InsertUsed, TypeOK
  <2> QED
    BY <1>4, <2>1 DEF TypeOK, InsertUsed, nat, transmit, hist
<1>5. CASE RxMaster
  BY <1>5 DEF TypeOK, RxMaster, table, nat, transmit, hist, Ips
<1>6. CASE Restore
  BY <1>6 DEF TypeOK, Restore, table, nat, transmit, hist, Ips
<1> QED
  BY <1>1, <1>2, <1>3, <1>4, <1>5, <1>6 DEF ArpInsert

LEMMA SenderTypes ==
  ASSUME TypeOK, Translation, Routed, NEW t \in Senders,
         Send(t) \/ \E d \in Hosts \cup Dead \cup {Master} : Transmit(t, d)
  PROVE  TypeOK'
<1> USE DEF table, worker, nat, hist
<1>1. ASSUME NEW d \in Hosts \cup Dead \cup {Master}, Transmit(t, d) PROVE TypeOK'
  <2>1. dst' \in [Senders -> Ips] /\ dialled' \subseteq Dead
    BY <1>1 DEF Transmit, TypeOK, Ips
  <2> QED
    BY <1>1, <2>1 DEF Transmit, TypeOK
<1>2. CASE Redirect(t)
  <2>1. CASE tx[t] = "orig"
    <3>1. dst[t] \in Dead
      BY <2>1 DEF TypeOK, Translation
    <3> QED
      BY <1>2, <2>1, <3>1 DEF Redirect, RedirectDest, TypeOK
  <2>2. CASE tx[t] = "target"
    <3>1. dst' \in [Senders -> Ips]
      BY <1>2, <2>2 DEF Redirect, RedirectDest, TypeOK, Ips
    <3> QED
      BY <1>2, <2>2, <3>1 DEF Redirect, RedirectDest, TypeOK
  <2> QED
    BY <1>2, <2>1, <2>2 DEF Redirect, RedirectDest
<1>3. CASE Route(t)
  <2>1. 0 \in Slots /\ Gateway \in Hosts
    BY LinkTablesAssumption DEF Slots
  <2>2. hop' \in [Senders -> Hosts \cup {NoIp}] /\ i' \in [Senders -> Slots]
    BY <1>3, <2>1 DEF Route, TypeOK
  <2> QED
    BY <1>3, <2>2 DEF Route, TypeOK
<1>4. CASE Lookup(t)
  <2>1. i' \in [Senders -> Slots]
    <3>1. i[t] \in Slots /\ ARP_N \in Nat
      BY LinkTablesAssumption DEF TypeOK
    <3>2. i[t] < ARP_N - 1 => i[t] + 1 \in Slots
      BY <3>1 DEF Slots
    <3>3. i' = i \/ (i[t] < ARP_N - 1 /\ i' = [i EXCEPT ![t] = i[t] + 1])
      BY <1>4 DEF Lookup
    <3> QED
      BY <3>2, <3>3 DEF TypeOK
  <2>2. tx' \in [Senders -> {"idle", "orig", "target", "route", "lookup", "copy1", "copy2", "hit", "miss"}]
    BY <1>4 DEF Lookup, TypeOK
  <2> QED
    BY <1>4, <2>1, <2>2 DEF Lookup, TypeOK
<1>5. ASSUME NEW part \in {1, 2}, NEW at, NEW next \in {"copy2", "hit"}, CopyPart(t, part, at, next)
      PROVE  TypeOK'
  <2>1. got[t] \in Pair /\ i[t] \in Slots /\ mac[i[t]] \in Pair
    BY DEF TypeOK, Pair
  <2>2. mac[i[t]][part] \in Hosts \cup {NoIp}
    BY <2>1 DEF Pair
  <2>3. [got[t] EXCEPT ![part] = mac[i[t]][part]] \in Pair
    BY <2>1, <2>2 DEF Pair
  <2>4. got' = [got EXCEPT ![t] = [got[t] EXCEPT ![part] = mac[i[t]][part]]]
    BY <1>5 DEF CopyPart
  <2>5. got' \in [Senders -> Pair]
    BY <2>3, <2>4 DEF TypeOK, Pair
  <2>6. tx' \in [Senders -> {"idle", "orig", "target", "route", "lookup", "copy1", "copy2", "hit", "miss"}]
    BY <1>5 DEF CopyPart, TypeOK
  <2> QED
    BY <1>5, <2>5, <2>6 DEF CopyPart, TypeOK, Pair
<1>6. ASSUME Done(t)
      PROVE  /\ tx' \in [Senders -> {"idle", "orig", "target", "route", "lookup", "copy1", "copy2", "hit", "miss"}]
             /\ dst' \in [Senders -> Ips] /\ hop' \in [Senders -> Hosts \cup {NoIp}]
             /\ i' \in [Senders -> Slots] /\ got' \in [Senders -> Pair]
  <2>1. 0 \in Slots /\ Nobody \in Pair
    BY LinkTablesAssumption DEF Slots, Pair, Nobody
  <2> QED
    BY <1>6, <2>1 DEF Done, TypeOK, Pair, Ips
<1>7. CASE Hit(t)
  BY <1>6, <1>7 DEF Hit, TypeOK, Pair
<1>8. CASE Miss(t)
  <2>1. asked' \subseteq Hosts
    BY <1>8 DEF Miss, TypeOK, Routed
  <2> QED
    BY <1>6, <1>8, <2>1 DEF Miss, TypeOK, Pair
<1> QED
  BY <1>1, <1>2, <1>3, <1>4, <1>5, <1>7, <1>8 DEF Send, CopyMac

\* A host keeps to one slot: ArpInsert looks for it before it takes a free one.
LEMMA SearchingKept ==
  ASSUME TypeOK, Searching, [Next]_vars
  PROVE  Searching'
<1> USE DEF Searching, OneSlotPerHost, Unclaimed, Inserting
<1>t. /\ slot \in Slots /\ ip \in [Slots -> Hosts \cup {NoIp}] /\ used \in [Slots -> BOOLEAN]
  BY DEF TypeOK
<1>1. ASSUME NEW h \in Hosts, RxArp(h) PROVE Searching'
  <2>1. /\ ip' = ip /\ used' = used /\ rx' = "ip" /\ from' = h
    BY <1>1 DEF RxArp, table
  <2>2. PICK s \in Slots : SlotFor(h, s) /\ slot' = s
    BY <1>1 DEF RxArp
  <2>3. CASE \A r \in Slots : ~(used[r] /\ ip[r] = h)
    BY <2>1, <2>3
  <2>4. CASE used[s] /\ ip[s] = h
    <3>1. \A r \in Slots : used[r] /\ ip[r] = h => r = s
      BY <2>4
    <3> QED
      BY <2>1, <2>2, <3>1
  <2> QED
    BY <2>2, <2>3, <2>4 DEF SlotFor
<1>2. CASE InsertIp
  <2>1. /\ rx = "ip" /\ rx' = "mac1" /\ ip' = [ip EXCEPT ![slot] = from]
        /\ used' = used /\ from' = from /\ slot' = slot
    BY <1>2 DEF InsertIp
  <2>2. \A r \in Slots : ip'[r] = IF r = slot THEN from ELSE ip[r]
    BY <1>t, <2>1
  <2>3. \A r \in Slots : used[r] /\ ip[r] = from => r = slot
    BY <2>1
  <2> QED
    BY <1>t, <2>1, <2>2, <2>3
<1>3. CASE InsertMac(1, "mac1", "mac2") \/ InsertMac(2, "mac2", "used")
  BY <1>3 DEF InsertMac
<1>4. CASE InsertUsed
  <2>1. /\ rx = "used" /\ rx' = "idle" /\ used' = [used EXCEPT ![slot] = TRUE] /\ ip' = ip
    BY <1>4 DEF InsertUsed
  <2>2. \A r \in Slots : used'[r] <=> r = slot \/ used[r]
    BY <1>t, <2>1
  <2>3. ip[slot] = from /\ \A r \in Slots : used[r] /\ ip[r] = from => r = slot
    BY <2>1
  <2> QED
    BY <2>1, <2>2, <2>3
<1>5. CASE RxMaster \/ Restore
  BY <1>5 DEF RxMaster, Restore, table
<1>6. CASE UNCHANGED <<table, worker>>
  BY <1>6 DEF table, worker
<1>7. CASE \E t \in Senders : Send(t) \/ \E d \in Hosts \cup Dead \cup {Master} : Transmit(t, d)
  <2>1. UNCHANGED <<table, worker>>
    BY <1>7 DEF Send, Redirect, Route, Lookup, CopyMac, CopyPart, Hit, Miss, Transmit
  <2> QED
    BY <1>6, <2>1
<1> QED
  BY <1>1, <1>2, <1>3, <1>4, <1>5, <1>6, <1>7 DEF Next, ArpInsert, vars

\* The stores of RedirectDest come in the order that RxFrame relies on.
LEMMA TranslationKept ==
  ASSUME TypeOK, Translation, [Next]_vars
  PROVE  Translation'
<1> USE DEF Translation
<1>1. CASE (\E h \in Hosts : RxArp(h)) \/ ArpInsert
  BY <1>1 DEF RxArp, ArpInsert, InsertIp, InsertMac, InsertUsed, nat, transmit, hist
<1>2. CASE RxMaster
  BY <1>2 DEF RxMaster, nat, transmit, hist
<1>3. CASE Restore
  BY <1>3 DEF Restore, nat, transmit, hist
<1>4. ASSUME NEW t \in Senders, NEW d \in Hosts \cup Dead \cup {Master}, Transmit(t, d)
      PROVE  Translation'
  <2>1. /\ \A u \in Senders \ {t} : tx'[u] = tx[u] /\ dst'[u] = dst[u]
        /\ tx'[t] = "orig" => d \in Dead
        /\ tx'[t] # "target" /\ dst'[t] = d
        /\ dialled' = dialled \cup ({d} \cap Dead)
        /\ UNCHANGED <<nat, worker>>
    BY <1>4 DEF Transmit, TypeOK
  <2> QED
    BY <2>1 DEF nat, worker
<1>5. ASSUME NEW t \in Senders, Redirect(t) PROVE Translation'
  <2>1. CASE tx[t] = "orig"
    <3>1. /\ \A u \in Senders \ {t} : tx'[u] = tx[u] /\ dst'[u] = dst[u]
          /\ dst'[t] = dst[t] /\ natOrig' = dst[t] /\ natTarget' = natTarget
          /\ UNCHANGED <<worker, dialled>>
      BY <1>5, <2>1 DEF Redirect, RedirectDest, hist, TypeOK
    <3> QED
      BY <2>1, <3>1 DEF worker
  <2>2. CASE tx[t] = "target"
    <3>1. /\ \A u \in Senders \ {t} : tx'[u] = tx[u] /\ dst'[u] = dst[u]
          /\ tx'[t] = "route" /\ natOrig' = natOrig /\ natTarget' = Master
          /\ UNCHANGED <<worker, dialled>>
      BY <1>5, <2>2 DEF Redirect, RedirectDest, hist, TypeOK
    <3> QED
      BY <2>2, <3>1 DEF worker
  <2> QED
    BY <1>5, <2>1, <2>2 DEF Redirect, RedirectDest
<1>6. ASSUME NEW t \in Senders, Route(t) \/ Lookup(t) \/ CopyMac(t) \/ Hit(t) \/ Miss(t)
      PROVE  Translation'
  <2>1. /\ \A u \in Senders \ {t} : tx'[u] = tx[u] /\ dst'[u] = dst[u]
        /\ tx'[t] \notin {"orig", "target"}
        /\ UNCHANGED <<worker, nat, dialled>>
    BY <1>6 DEF Route, Lookup, CopyMac, CopyPart, Hit, Miss, Done, hist, TypeOK
  <2> QED
    BY <2>1 DEF worker, nat
<1>7. CASE UNCHANGED vars
  BY <1>7 DEF vars, worker, nat, transmit, hist
<1> QED
  BY <1>1, <1>2, <1>3, <1>4, <1>5, <1>6, <1>7 DEF Next, Send

LEMMA RoutedKept ==
  ASSUME TypeOK, Routed, [Next]_vars
  PROVE  Routed'
<1> USE DEF Routed
<1>1. CASE (\E h \in Hosts : RxArp(h)) \/ ArpInsert \/ RxMaster \/ Restore \/ UNCHANGED vars
  BY <1>1 DEF RxArp, ArpInsert, InsertIp, InsertMac, InsertUsed, RxMaster, Restore, transmit, vars
<1>2. ASSUME NEW t \in Senders, Route(t) PROVE Routed'
  <2>1. /\ \A u \in Senders \ {t} : tx'[u] = tx[u] /\ hop'[u] = hop[u]
        /\ hop'[t] = IF dst[t] \in Hosts THEN dst[t] ELSE Gateway
    BY <1>2 DEF Route, TypeOK
  <2> QED
    BY <2>1, LinkTablesAssumption
<1>3. ASSUME NEW t \in Senders, Lookup(t) PROVE Routed'
  <2>1. /\ \A u \in Senders \ {t} : tx'[u] = tx[u]
        /\ hop' = hop /\ tx[t] = "lookup"
    BY <1>3 DEF Lookup, TypeOK
  <2> QED
    BY <2>1
<1>4. ASSUME NEW t \in Senders,
             \/ Redirect(t) \/ CopyMac(t) \/ Hit(t) \/ Miss(t)
             \/ \E d \in Hosts \cup Dead \cup {Master} : Transmit(t, d)
      PROVE  Routed'
  <2>1. /\ \A u \in Senders \ {t} : tx'[u] = tx[u] /\ hop'[u] = hop[u]
        /\ tx'[t] \notin {"lookup", "miss"}
    BY <1>4 DEF Redirect, RedirectDest, CopyMac, CopyPart, Hit, Miss, Done, Transmit, TypeOK
  <2> QED
    BY <2>1
<1> QED
  BY <1>1, <1>2, <1>3, <1>4 DEF Next, Send

LEMMA WorkerSettles ==
  ASSUME TypeOK, Unclaimed, Settled,
         (\E h \in Hosts : RxArp(h)) \/ ArpInsert \/ RxMaster \/ Restore
  PROVE  Settled'
<1>t. /\ slot \in Slots /\ ip \in [Slots -> Hosts \cup {NoIp}] /\ used \in [Slots -> BOOLEAN]
      /\ mac \in [Slots -> Pair] /\ from \in Hosts \cup {NoIp} /\ i \in [Senders -> Slots]
  BY DEF TypeOK, Pair
<1> SUFFICES ASSUME ~evicted' PROVE (TableFull /\ WorkerHas /\ SenderHas)'
  BY DEF Settled
<1>e. TableFull /\ WorkerHas /\ SenderHas
  BY DEF Settled, RxArp, ArpInsert, InsertIp, InsertMac, InsertUsed, RxMaster, Restore, hist
<1>1. CASE (\E h \in Hosts : RxArp(h)) \/ RxMaster \/ Restore
  <2>1. UNCHANGED <<table, transmit>> /\ rx' \notin {"mac2", "used"}
    BY <1>1 DEF RxArp, RxMaster, Restore
  <2> QED
    BY <1>e, <2>1 DEF table, transmit, TableFull, WorkerHas, SenderHas, Has
<1>2. CASE InsertIp
  <2>1. /\ rx' = "mac1" /\ ip' = [ip EXCEPT ![slot] = from] /\ (used[slot] => ip[slot] = from)
        /\ UNCHANGED <<mac, used, transmit>>
    BY <1>2 DEF InsertIp
  <2>2. \A s \in Slots : used[s] => ip'[s] = ip[s]
    BY <1>t, <2>1
  <2>3. TableFull'
    BY <1>e, <2>1, <2>2 DEF TableFull
  <2>4. SenderHas'
    BY <1>t, <1>e, <2>1, <2>2 DEF SenderHas, Has, transmit
  <2> QED
    BY <2>1, <2>3, <2>4 DEF WorkerHas
<1>3. ASSUME NEW part \in {1, 2}, NEW at \in {"mac1", "mac2"}, NEW next, InsertMac(part, at, next),
             part = 1 => next = "mac2", part = 2 => at = "mac2"
      PROVE  (TableFull /\ WorkerHas /\ SenderHas)'
  <2>1. /\ mac' = [mac EXCEPT ![slot] = [mac[slot] EXCEPT ![part] = from]] /\ rx = at /\ rx' = next
        /\ UNCHANGED <<ip, used, from, slot, transmit>>
    BY <1>3 DEF InsertMac
  <2>2. ip[slot] = from
    BY <1>3, <2>1 DEF Unclaimed, Inserting
  <2>3. mac[slot] = <<mac[slot][1], mac[slot][2]>>
    BY <1>t DEF Pair
  <2>4. mac'[slot] = IF part = 1 THEN <<from, mac[slot][2]>> ELSE <<mac[slot][1], from>>
    <3>1. mac'[slot] = [mac[slot] EXCEPT ![part] = from]
      BY <1>t, <2>1
    <3>2. ASSUME NEW a \in Hosts \cup {NoIp}, NEW b \in Hosts \cup {NoIp}
          PROVE  /\ [<<a, b>> EXCEPT ![1] = from] = <<from, b>>
                 /\ [<<a, b>> EXCEPT ![2] = from] = <<a, from>>
      OBVIOUS
    <3>3. mac[slot][1] \in Hosts \cup {NoIp} /\ mac[slot][2] \in Hosts \cup {NoIp}
      BY <1>t DEF Pair
    <3> QED
      BY <2>3, <3>1, <3>2, <3>3
  <2>5. \A s \in Slots \ {slot} : mac'[s] = mac[s]
    BY <1>t, <2>1
  <2>6. used[slot] => mac'[slot] = MacOf(from)
    BY <1>t, <1>e, <2>2, <2>4 DEF TableFull, MacOf
  <2>7. TableFull'
    BY <1>e, <2>1, <2>2, <2>5, <2>6 DEF TableFull
  <2>8. WorkerHas'
    <3>1. CASE part = 1
      BY <1>3, <2>1, <2>4, <3>1 DEF WorkerHas
    <3>2. CASE part = 2
      <4>1. mac[slot][1] = from
        BY <1>3, <1>e, <2>1, <3>2 DEF WorkerHas
      <4>2. mac'[slot] = <<from, from>>
        BY <2>4, <3>2, <4>1
      <4> QED
        BY <2>1, <4>2 DEF WorkerHas, MacOf
    <3> QED
      BY <3>1, <3>2
  <2>9. SenderHas'
    BY <1>e, <2>1 DEF SenderHas, Has, transmit
  <2> QED
    BY <2>7, <2>8, <2>9
<1>4. CASE InsertUsed
  <2>1. /\ rx = "used" /\ rx' = "idle" /\ used' = [used EXCEPT ![slot] = TRUE]
        /\ UNCHANGED <<ip, mac, from, slot, transmit>>
    BY <1>4 DEF InsertUsed
  <2>2. ip[slot] = from /\ mac[slot] = MacOf(from)
    BY <1>e, <2>1 DEF Unclaimed, Inserting, WorkerHas
  <2>3. \A s \in Slots : used'[s] <=> s = slot \/ used[s]
    BY <1>t, <2>1
  <2>4. TableFull'
    BY <1>e, <2>1, <2>2, <2>3 DEF TableFull
  <2>5. SenderHas'
    BY <1>t, <1>e, <2>1, <2>3 DEF SenderHas, Has, transmit
  <2> QED
    BY <2>1, <2>4, <2>5 DEF WorkerHas
<1> QED
  BY <1>1, <1>2, <1>3, <1>4 DEF ArpInsert

LEMMA SenderSettles ==
  ASSUME TypeOK, Settled, NEW t \in Senders,
         Send(t) \/ \E d \in Hosts \cup Dead \cup {Master} : Transmit(t, d)
  PROVE  Settled'
<1>t. /\ i \in [Senders -> Slots] /\ got \in [Senders -> Pair] /\ mac \in [Slots -> Pair]
      /\ hop \in [Senders -> Hosts \cup {NoIp}]
      /\ tx \in [Senders -> {"idle", "orig", "target", "route", "lookup", "copy1", "copy2", "hit", "miss"}]
  BY DEF TypeOK, Pair
<1> SUFFICES ASSUME ~evicted' PROVE (TableFull /\ WorkerHas /\ SenderHas)'
  BY DEF Settled
<1>w. UNCHANGED <<table, worker, evicted>>
  BY DEF Send, Redirect, Route, Lookup, CopyMac, CopyPart, Hit, Miss, Transmit, hist
<1>e. TableFull /\ WorkerHas /\ SenderHas
  BY <1>w DEF Settled
<1>o. \A u \in Senders \ {t} : tx'[u] = tx[u] /\ hop'[u] = hop[u] /\ i'[u] = i[u] /\ got'[u] = got[u]
  BY <1>t DEF Send, Redirect, RedirectDest, Route, Lookup, CopyMac, CopyPart, Hit, Miss, Done, Transmit
<1>s. SUFFICES Has(t)'
  BY <1>w, <1>e, <1>o DEF table, worker, TableFull, WorkerHas, SenderHas, Has
<1>1. CASE \/ Redirect(t) \/ Route(t) \/ Hit(t) \/ Miss(t)
           \/ \E d \in Hosts \cup Dead \cup {Master} : Transmit(t, d)
  <2>1. tx'[t] \notin {"copy1", "copy2", "hit"}
    BY <1>t, <1>1 DEF Redirect, RedirectDest, Route, Hit, Miss, Done, Transmit
  <2> QED
    BY <2>1 DEF Has
<1>2. CASE Lookup(t)
  <2>1. CASE used[i[t]] /\ ip[i[t]] = hop[t]
    BY <1>t, <1>2, <2>1 DEF Lookup, table, Has
  <2>2. CASE ~(used[i[t]] /\ ip[i[t]] = hop[t])
    <3>1. tx'[t] \in {"lookup", "miss"}
      BY <1>t, <1>2, <2>2 DEF Lookup
    <3> QED
      BY <3>1 DEF Has
  <2> QED
    BY <2>1, <2>2
<1>3. ASSUME NEW part \in {1, 2}, NEW at \in {"copy1", "copy2"}, NEW next, CopyPart(t, part, at, next),
             part = 1 => next = "copy2", part = 2 => at = "copy2" /\ next = "hit"
      PROVE  Has(t)'
  <2>1. /\ tx[t] = at /\ tx'[t] = next /\ hop' = hop /\ i' = i /\ ip' = ip /\ used' = used
        /\ got' = [got EXCEPT ![t] = [got[t] EXCEPT ![part] = mac[i[t]][part]]]
    BY <1>t, <1>3 DEF CopyPart, table
  <2>2. used[i[t]] /\ ip[i[t]] = hop[t]
    BY <1>3, <1>e, <2>1 DEF SenderHas, Has
  <2>3. mac[i[t]] = <<hop[t], hop[t]>>
    BY <1>t, <1>e, <2>2 DEF TableFull, MacOf
  <2>4. mac[i[t]][part] = hop[t]
    BY <2>3
  <2>5. got'[t] = [got[t] EXCEPT ![part] = hop[t]]
    BY <1>t, <2>1, <2>4
  <2>6. got[t] = <<got[t][1], got[t][2]>> /\ got[t][1] \in Hosts \cup {NoIp} /\ got[t][2] \in Hosts \cup {NoIp}
    BY <1>t DEF Pair
  <2>7. ASSUME NEW a \in Hosts \cup {NoIp}, NEW b \in Hosts \cup {NoIp}, NEW c
        PROVE  /\ [<<a, b>> EXCEPT ![1] = c] = <<c, b>>
               /\ [<<a, b>> EXCEPT ![2] = c] = <<a, c>>
    OBVIOUS
  <2>8. CASE part = 1
    <3>1. got'[t] = <<hop[t], got[t][2]>>
      BY <2>5, <2>6, <2>7, <2>8
    <3> QED
      BY <1>3, <2>1, <2>2, <2>8, <3>1 DEF Has
  <2>9. CASE part = 2
    <3>1. got'[t] = <<got[t][1], hop[t]>>
      BY <2>5, <2>6, <2>7, <2>9
    <3>2. got[t][1] = hop[t]
      BY <1>3, <1>e, <2>1, <2>9 DEF SenderHas, Has
    <3>3. got'[t] = MacOf(hop[t])
      BY <3>1, <3>2 DEF MacOf
    <3> QED
      BY <1>3, <2>1, <2>9, <3>3 DEF Has, MacOf
  <2> QED
    BY <2>8, <2>9
<1> QED
  BY <1>1, <1>2, <1>3 DEF Send, CopyMac

-----------------------------------------------------------------------------
LEMMA InvHolds == Spec => []Inv
<1>1. Init => Inv
  <2> SUFFICES ASSUME Init PROVE Inv
    OBVIOUS
  <2>1. TypeOK
    BY InitTypes
  <2>2. Searching /\ Routed
    BY DEF Init, Searching, OneSlotPerHost, Unclaimed, Inserting, Routed
  <2>3. Translation
    BY LinkTablesAssumption DEF Init, Translation
  <2>4. Settled
    BY DEF Init, Settled, TableFull, WorkerHas, SenderHas, Has
  <2> QED
    BY <2>1, <2>2, <2>3, <2>4 DEF Inv
<1>2. ASSUME Inv, [Next]_vars PROVE Inv'
  <2>1. TypeOK'
    <3>1. CASE UNCHANGED vars
      BY <1>2, <3>1 DEF Inv, TypeOK, vars, table, worker, nat, transmit, hist
    <3> QED
      BY <1>2, <3>1, WorkerTypes, SenderTypes DEF Inv, Next
  <2>2. Settled'
    <3>1. CASE UNCHANGED vars
      BY <1>2, <3>1 DEF Inv, Settled, TableFull, WorkerHas, SenderHas, Has, vars, table, worker, transmit, hist
    <3> QED
      BY <1>2, <3>1, WorkerSettles, SenderSettles DEF Inv, Searching, Next
  <2> QED
    BY <1>2, <2>1, <2>2, SearchingKept, TranslationKept, RoutedKept DEF Inv
<1> QED
  BY <1>1, <1>2, PTL DEF Spec

\* Every slot, state and address stays in its range, the slot a lookup reads too.
THEOREM LinkTablesTypes == Spec => []TypeOK
  BY InvHolds, PTL DEF Inv

\* A host never gets a second slot (ArpInsert searches before it takes a free one).
THEOREM OneSlot == Spec => []OneSlotPerHost
  BY InvHolds, PTL DEF Inv, Searching

\* Until a host is evicted, what OurTransmit sends goes to its next hop, though
\* ArpInsert and ArpLookup take no lock: a slot is filled before it is marked used.
THEOREM DatagramsToNextHop == Spec => []SentToNextHop
<1>1. Inv => SentToNextHop
  BY DEF Inv, Settled, SenderHas, Has, SentToNextHop
<1> QED
  BY <1>1, InvHolds, PTL

\* RxFrame restores only a source that some game has dialled.
THEOREM RepliesRestored == Spec => ReplyFromDialled
<1>1. ASSUME Inv, [Next]_vars PROVE [rx = "restore" /\ rx' = "idle" => origin' \in dialled]_vars
  <2> SUFFICES ASSUME Next, rx = "restore", rx' = "idle" PROVE origin' \in dialled
    BY <1>1
  <2>1. natOrig \in dialled
    BY <1>1 DEF Inv, Translation
  <2>2. Restore
    BY DEF Next, RxArp, ArpInsert, InsertIp, InsertMac, InsertUsed, RxMaster, Send, Redirect,
           Route, Lookup, CopyMac, CopyPart, Hit, Miss, Transmit, worker
  <2> QED
    BY <2>1, <2>2 DEF Restore
<1> QED
  BY <1>1, InvHolds, PTL DEF Spec, ReplyFromDialled
=============================================================================
