----------------------------- MODULE LinkTables -----------------------------
(***************************************************************************)
(* The two tables of the link adapter (netif.c) that the receive thread    *)
(* and the senders share without a lock: the ARP cache, which the worker   *)
(* fills while OurTransmit looks up next hops on microstk's threads, and   *)
(* the entry of the reverse address translation, which OurTransmit sets    *)
(* when a game dials a dead master server and RxFrame reads.               *)
(*                                                                         *)
(* Each store of the shared tables is an action, with a hardware address   *)
(* of two parts.  A slot's used flag and address are read together: the    *)
(* address of a used slot changes only when a host is evicted.             *)
(***************************************************************************)
EXTENDS Integers, FiniteSets

CONSTANTS ARP_N,    \* slots of s_arp
          Hosts,    \* addresses on the link
          Gateway,  \* s_dwGw
          Dead,     \* the hardcoded master servers that are gone
          Master,   \* s_dwRevivalMaster
          NoIp,     \* 0.0.0.0
          Senders   \* threads on which microstk transmits

Slots == 0..ARP_N - 1

ASSUME LinkTablesAssumption ==
  /\ ARP_N \in Nat \ {0} /\ Gateway \in Hosts /\ NoIp \notin Hosts \cup Dead \cup {Master}
  /\ Master \notin Hosts \cup Dead /\ Dead \cap Hosts = {}

VARIABLES
  ip, mac, used,     \* s_arp, with the host of each part of the hardware address
  rx, from, slot,    \* the worker: where it is, the sender of the ARP packet, nSlot
  origin,            \* the source of the datagram handed up last
  natOrig, natTarget,  \* s_dwNatOrig, s_dwNatTarget
  tx, dst, hop, i, got,  \* each sender: where it is, the destination, the next hop,
                     \* the slot looked at, abMac
  asked,             \* ARP requests on the wire
  evicted,           \* history: a host lost its slot to another
  dialled            \* history: the dead master servers that were sent to

table    == <<ip, mac, used>>
worker   == <<rx, from, slot, origin>>
nat      == <<natOrig, natTarget>>
transmit == <<tx, dst, hop, i, got>>
hist     == <<evicted, dialled>>
vars     == <<table, worker, nat, transmit, asked, hist>>

Nobody == <<NoIp, NoIp>>
MacOf(h) == <<h, h>>

\* The lease is there, and NetifOnLease has asked for the gateway.
Init ==
  /\ ip = [s \in Slots |-> NoIp] /\ mac = [s \in Slots |-> Nobody] /\ used = [s \in Slots |-> FALSE]
  /\ rx = "idle" /\ from = NoIp /\ slot = 0 /\ origin = NoIp
  /\ natOrig = NoIp /\ natTarget = NoIp
  /\ tx = [t \in Senders |-> "idle"] /\ dst = [t \in Senders |-> NoIp]
  /\ hop = [t \in Senders |-> NoIp] /\ i = [t \in Senders |-> 0] /\ got = [t \in Senders |-> Nobody]
  /\ asked = {Gateway} /\ evicted = FALSE /\ dialled = {}
-----------------------------------------------------------------------------
(* The worker: RxFrame                                                     *)

\* The slot ArpInsert takes: that of the host, or the last that is free, or slot 0.
SlotFor(h, s) ==
  \/ used[s] /\ ip[s] = h /\ \A r \in Slots : r < s => ~(used[r] /\ ip[r] = h)
  \/ /\ \A r \in Slots : ~(used[r] /\ ip[r] = h)
     /\ \/ ~used[s] /\ \A r \in Slots : r > s => used[r]
        \/ s = 0 /\ \A r \in Slots : used[r]

\* An ARP packet of h, asked for or not.
RxArp(h) ==
  /\ rx = "idle" /\ rx' = "ip" /\ from' = h /\ asked' = asked \ {h}
  /\ \E s \in Slots : SlotFor(h, s) /\ slot' = s
  /\ UNCHANGED <<table, origin, nat, transmit, hist>>

\* Mutant: the slot is in use before it is filled.
InsertIpUsed ==
  /\ rx = "ip" /\ rx' = "mac1"
  /\ ip' = [ip EXCEPT ![slot] = from] /\ used' = [used EXCEPT ![slot] = TRUE]
  /\ evicted' = (evicted \/ (used[slot] /\ ip[slot] # from))
  /\ UNCHANGED <<mac, from, slot, origin, nat, transmit, asked, dialled>>
InsertIp ==
  /\ rx = "ip" /\ rx' = "mac1"
  /\ ip' = [ip EXCEPT ![slot] = from]
  /\ evicted' = (evicted \/ (used[slot] /\ ip[slot] # from))
  /\ UNCHANGED <<mac, used, from, slot, origin, nat, transmit, asked, dialled>>

InsertMac(part, at, next) ==
  /\ rx = at /\ rx' = next
  /\ mac' = [mac EXCEPT ![slot][part] = from]
  /\ UNCHANGED <<ip, used, from, slot, origin, nat, transmit, asked, hist>>

InsertUsed ==
  /\ rx = "used" /\ rx' = "idle" /\ used' = [used EXCEPT ![slot] = TRUE]
  /\ UNCHANGED <<ip, mac, from, slot, origin, nat, transmit, asked, hist>>

ArpInsert ==
  InsertIp \/ InsertMac(1, "mac1", "mac2") \/ InsertMac(2, "mac2", "used") \/ InsertUsed

\* A datagram from the revival master: its source is put back, if a game has dialled.
RxMaster ==
  /\ rx = "idle"
  /\ IF natTarget = Master THEN rx' = "restore" /\ UNCHANGED origin
                           ELSE origin' = Master /\ UNCHANGED rx
  /\ UNCHANGED <<table, from, slot, nat, transmit, asked, hist>>

Restore ==
  /\ rx = "restore" /\ rx' = "idle" /\ origin' = natOrig
  /\ UNCHANGED <<table, from, slot, nat, transmit, asked, hist>>
-----------------------------------------------------------------------------
(* The senders: OurTransmit                                                *)

\* A datagram for a host of the link, for one beyond it, or for a dead master server.
Transmit(t, d) ==
  /\ tx[t] = "idle"
  /\ tx' = [tx EXCEPT ![t] = IF d \in Dead THEN "orig" ELSE "route"]
  /\ dst' = [dst EXCEPT ![t] = d]
  /\ dialled' = dialled \cup ({d} \cap Dead)
  /\ UNCHANGED <<table, worker, nat, hop, i, got, asked, evicted>>

\* Mutant: the target is stored first.
RedirectSwapped(t) ==
  \/ /\ tx[t] = "orig" /\ tx' = [tx EXCEPT ![t] = "target"]
     /\ natTarget' = Master /\ UNCHANGED <<natOrig, dst>>
  \/ /\ tx[t] = "target" /\ tx' = [tx EXCEPT ![t] = "route"]
     /\ natOrig' = dst[t] /\ dst' = [dst EXCEPT ![t] = Master] /\ UNCHANGED natTarget
RedirectDest(t) ==
  \/ /\ tx[t] = "orig" /\ tx' = [tx EXCEPT ![t] = "target"]
     /\ natOrig' = dst[t] /\ UNCHANGED <<natTarget, dst>>
  \/ /\ tx[t] = "target" /\ tx' = [tx EXCEPT ![t] = "route"]
     /\ natTarget' = Master /\ dst' = [dst EXCEPT ![t] = Master] /\ UNCHANGED natOrig

Redirect(t) ==
  RedirectDest(t) /\ UNCHANGED <<table, worker, hop, i, got, asked, hist>>

\* Off the link everything goes to the gateway.
Route(t) ==
  /\ tx[t] = "route" /\ tx' = [tx EXCEPT ![t] = "lookup"]
  /\ hop' = [hop EXCEPT ![t] = IF dst[t] \in Hosts THEN dst[t] ELSE Gateway]
  /\ i' = [i EXCEPT ![t] = 0]
  /\ UNCHANGED <<table, worker, nat, dst, got, asked, hist>>

\* ArpLookup, one slot
Lookup(t) ==
  /\ tx[t] = "lookup"
  /\ IF used[i[t]] /\ ip[i[t]] = hop[t] THEN tx' = [tx EXCEPT ![t] = "copy1"] /\ UNCHANGED i
     ELSE IF i[t] < ARP_N - 1 THEN i' = [i EXCEPT ![t] = @ + 1] /\ UNCHANGED tx
     ELSE tx' = [tx EXCEPT ![t] = "miss"] /\ UNCHANGED i
  /\ UNCHANGED <<table, worker, nat, dst, hop, got, asked, hist>>

CopyPart(t, part, at, next) ==
  /\ tx[t] = at /\ tx' = [tx EXCEPT ![t] = next]
  /\ got' = [got EXCEPT ![t][part] = mac[i[t]][part]]
  /\ UNCHANGED <<table, worker, nat, dst, hop, i, asked, hist>>

CopyMac(t) == CopyPart(t, 1, "copy1", "copy2") \/ CopyPart(t, 2, "copy2", "hit")

\* The datagram is done with, sent or dropped, and the locals are gone.
Done(t) ==
  /\ tx' = [tx EXCEPT ![t] = "idle"] /\ dst' = [dst EXCEPT ![t] = NoIp]
  /\ hop' = [hop EXCEPT ![t] = NoIp] /\ i' = [i EXCEPT ![t] = 0]
  /\ got' = [got EXCEPT ![t] = Nobody]

\* EthSend to the hardware address in got.
Hit(t) ==
  /\ tx[t] = "hit" /\ Done(t)
  /\ UNCHANGED <<table, worker, nat, asked, hist>>

\* Mutant: the next hop is not asked for.
MissSilently(t) ==
  /\ tx[t] = "miss" /\ Done(t)
  /\ UNCHANGED <<table, worker, nat, asked, hist>>
\* The datagram is dropped, and ArpRequest asks for its next hop.
Miss(t) ==
  /\ tx[t] = "miss" /\ Done(t)
  /\ asked' = asked \cup {hop[t]}
  /\ UNCHANGED <<table, worker, nat, hist>>

Send(t) == Redirect(t) \/ Route(t) \/ Lookup(t) \/ CopyMac(t) \/ Hit(t) \/ Miss(t)

Next ==
  \/ (\E h \in Hosts : RxArp(h)) \/ ArpInsert \/ RxMaster \/ Restore
  \/ \E t \in Senders : Send(t) \/ \E d \in Hosts \cup Dead \cup {Master} : Transmit(t, d)

\* The threads run, and a host that is asked again and again gets an answer through.
Fairness ==
  /\ WF_vars(ArpInsert \/ Restore) /\ \A t \in Senders : WF_vars(Send(t))
  /\ \A h \in Hosts : SF_vars(h \in asked /\ RxArp(h))

Spec == Init /\ [][Next]_vars /\ Fairness
-----------------------------------------------------------------------------
Ips == Hosts \cup Dead \cup {Master, NoIp}

TypeOK ==
  /\ ip \in [Slots -> Hosts \cup {NoIp}] /\ used \in [Slots -> BOOLEAN]
  /\ mac \in [Slots -> (Hosts \cup {NoIp}) \X (Hosts \cup {NoIp})]
  /\ rx \in {"idle", "ip", "mac1", "mac2", "used", "restore"}
  /\ from \in Hosts \cup {NoIp} /\ slot \in Slots /\ origin \in Ips
  /\ natOrig \in Dead \cup {NoIp} /\ natTarget \in {NoIp, Master}
  /\ tx \in [Senders -> {"idle", "orig", "target", "route", "lookup", "copy1", "copy2", "hit", "miss"}]
  /\ dst \in [Senders -> Ips] /\ hop \in [Senders -> Hosts \cup {NoIp}] /\ i \in [Senders -> Slots]
  /\ got \in [Senders -> (Hosts \cup {NoIp}) \X (Hosts \cup {NoIp})]
  /\ asked \subseteq Hosts /\ evicted \in BOOLEAN /\ dialled \subseteq Dead

\* A host has one slot, also while another takes a slot over.
OneSlotPerHost ==
  \A s, r \in Slots : used[s] /\ used[r] /\ ip[s] = ip[r] => s = r

\* However lookups and inserts interleave, a datagram goes to the hardware address
\* of its next hop; until the cache is full and hosts are evicted, for then the
\* address and the hardware address of slot 0 change under the reader.
SentToNextHop ==
  ~evicted => \A t \in Senders : tx[t] = "hit" => got[t] = MacOf(hop[t])

\* What comes from the revival master is handed up with the source that a game has
\* dialled, never with one from before the translation was set up.
ReplyFromDialled ==
  [][rx = "restore" /\ rx' = "idle" => origin' \in dialled]_vars

\* "drop this one; ARP for next time": a next hop that is in use is missed finitely
\* often, unless hosts are evicted.
ResolvedInTheEnd ==
  []~evicted => \A h \in Hosts : <>[](\A t \in Senders : tx[t] = "miss" => hop[t] # h)
=============================================================================
