------------------------------ MODULE DnsList ------------------------------
(***************************************************************************)
(* The list of name servers of the link adapter (netif.c): s_adwOffDns and *)
(* s_nOffDnsN, which the worker fills from DHCP replies, and which         *)
(* WriteDnsServers rewrites in place and puts into the registry.  It runs  *)
(* on the worker when the lease comes, and on the thread of whichever      *)
(* program dials (AfdRasDial of ras.c), and nothing keeps the two apart.   *)
(*                                                                         *)
(* A call is modelled store by store.  Only the last part, which builds    *)
(* the value and writes it, is one action: splitting it changes only what  *)
(* overlapping calls write, and nothing is claimed of that.                *)
(***************************************************************************)
EXTENDS Integers, Sequences, FiniteSets

CONSTANTS CAP,        \* cells of s_adwOffDns
          Revival,    \* s_dwRevivalDns, 0 for none
          UserDns,    \* lists a phone book entry can hold
          DhcpDns,    \* lists a DHCP reply can carry
          LastResort, \* what the flash memory has, or else the public servers
          Worker, Dialers

Threads == {Worker} \cup Dialers
DnsLists == UserDns \cup DhcpDns \cup {LastResort}
Addr    == {Revival} \cup UNION {{l[i] : i \in DOMAIN l} : l \in DnsLists}

ASSUME DnsListAssumption ==
  /\ CAP \in Nat /\ CAP > 1 /\ Worker \notin Dialers
  /\ \A l \in DnsLists : l \in Seq(Addr) /\ Len(l) \in 1..CAP /\ \A i \in DOMAIN l : l[i] # Revival

VARIABLES
  dns, n,      \* s_adwOffDns (0 in a fresh cell), s_nOffDnsN
  entry,       \* the servers of the first phone book entry that has any
  reg,         \* DnsServers in the registry
  leased,      \* the worker has come to NetifOnLease
  pc, op,      \* where each thread is, and in which function
  user, src,   \* adwRasDns, and the list being copied
  j, kept,     \* loop index, and n as the compiler may keep it in a register
  alone,       \* history: no other thread was inside during this call
  overlap,     \* history: two threads were ever inside at once
  spill        \* history: a store went past the array; nothing is said after that

list   == <<dns, n>>
local  == <<op, user, src, j, kept>>
dnsVars == <<list, entry, reg, leased, pc, local, alone, overlap, spill>>

DnsInit ==
  /\ dns = [i \in 1..CAP |-> 0] /\ n = 0 /\ entry = <<>> /\ reg = <<>> /\ leased = FALSE
  /\ pc = [t \in Threads |-> "idle"] /\ op = [t \in Threads |-> "write"]
  /\ user = [t \in Threads |-> <<>>] /\ src = [t \in Threads |-> <<>>]
  /\ j = [t \in Threads |-> 0] /\ kept = [t \in Threads |-> 0]
  /\ alone = [t \in Threads |-> FALSE] /\ overlap = FALSE /\ spill = FALSE

Goto(t, at) == pc' = [pc EXCEPT ![t] = at]
\* The end of a call, with its locals.
EndCall(t) ==
  /\ Goto(t, "idle") /\ op' = [op EXCEPT ![t] = "write"]
  /\ user' = [user EXCEPT ![t] = <<>>] /\ src' = [src EXCEPT ![t] = <<>>]
  /\ j' = [j EXCEPT ![t] = 0] /\ kept' = [kept EXCEPT ![t] = 0]
Others(t)   == {o \in Threads \ {t} : pc[o] # "idle"}

BeginCall(t) ==
  /\ overlap' = (overlap \/ Others(t) # {})
  /\ alone' = [o \in Threads |-> o = t /\ Others(t) = {}]

\* A store into cell i.
Store(i, a) ==
  IF i <= CAP THEN dns' = [dns EXCEPT ![i] = a] /\ UNCHANGED spill
              ELSE spill' = TRUE /\ UNCHANGED dns
-----------------------------------------------------------------------------
(* The phone book (AfdRasSetEntryProperties, AfdRasDeleteEntry)            *)

SetEntry ==
  /\ entry' \in UserDns \cup {<<>>}
  /\ UNCHANGED <<list, reg, leased, pc, local, alone, overlap, spill>>

\* DhcpRx commits the servers of a reply, but only if it carries any.
Commit(l) ==
  /\ pc[Worker] = "idle" /\ Goto(Worker, "copy") /\ BeginCall(Worker)
  /\ op' = [op EXCEPT ![Worker] = "commit"]
  /\ src' = [src EXCEPT ![Worker] = l] /\ j' = [j EXCEPT ![Worker] = 1]
  /\ UNCHANGED <<list, entry, reg, leased, user, kept, spill>>
-----------------------------------------------------------------------------
(* WriteDnsServers, called by NetifOnLease once and by NetifApplyDns       *)

\* ReadRasDns
ReadRasDns(t) ==
  /\ pc[t] = "idle" /\ (t = Worker => ~leased) /\ leased' = (leased \/ t = Worker)
  /\ Goto(t, IF entry # <<>> THEN "copy" ELSE "fallback") /\ BeginCall(t)
  /\ op' = [op EXCEPT ![t] = "write"] /\ user' = [user EXCEPT ![t] = entry]
  /\ src' = [src EXCEPT ![t] = entry] /\ j' = [j EXCEPT ![t] = 1]
  /\ UNCHANGED <<list, entry, reg, kept, spill>>

Fallback(t) ==
  /\ pc[t] = "fallback"
  /\ Goto(t, IF n <= 0 THEN "copy" ELSE "check")
  /\ src' = [src EXCEPT ![t] = LastResort] /\ j' = [j EXCEPT ![t] = 1]
  /\ UNCHANGED <<list, entry, reg, leased, op, user, kept, alone, overlap, spill>>

\* Mutant: the number of a longer list stays.
CountMax(t) == n' = IF n < Len(src[t]) THEN Len(src[t]) ELSE n
Count(t) == n' = Len(src[t])

Copy(t) ==
  /\ pc[t] = "copy"
  /\ IF j[t] <= Len(src[t])
       THEN /\ Store(j[t], src[t][j[t]]) /\ j' = [j EXCEPT ![t] = @ + 1]
            /\ UNCHANGED <<n, pc, op, user, src, kept>>
       ELSE /\ Count(t)
            /\ IF op[t] = "commit" THEN EndCall(t) ELSE Goto(t, "check") /\ UNCHANGED local
            /\ UNCHANGED <<dns, spill>>
  /\ UNCHANGED <<entry, reg, leased, alone, overlap>>

\* Mutant: the revival server is put in front whether it is there or not.
WantsAlways(t) == Revival # 0 /\ user[t] = <<>>
WantsRevival(t) == Revival # 0 /\ user[t] = <<>> /\ dns[1] # Revival

Check(t) ==
  /\ pc[t] = "check" /\ Goto(t, IF WantsRevival(t) THEN "clamp" ELSE "put")
  /\ UNCHANGED <<list, entry, reg, leased, local, alone, overlap, spill>>

CutTo(m) == IF m > CAP - 1 THEN CAP - 1 ELSE m

CutShort(t) ==
  /\ pc[t] = "clamp" /\ Goto(t, "start")
  /\ n' = CutTo(n) /\ kept' = [kept EXCEPT ![t] = n']
  /\ UNCHANGED <<dns, entry, reg, leased, op, user, src, j, alone, overlap, spill>>

Start(t) ==
  /\ pc[t] = "start" /\ Goto(t, "shift")
  /\ \E m \in {n, kept[t]} : j' = [j EXCEPT ![t] = m]
  /\ UNCHANGED <<list, entry, reg, leased, op, user, src, kept, alone, overlap, spill>>

Shift(t) ==
  /\ pc[t] = "shift"
  /\ IF j[t] > 0 THEN Store(j[t] + 1, dns[j[t]]) /\ j' = [j EXCEPT ![t] = @ - 1] /\ UNCHANGED pc
                 ELSE Goto(t, "head") /\ UNCHANGED <<dns, j, spill>>
  /\ UNCHANGED <<n, entry, reg, leased, op, user, src, kept, alone, overlap>>

Head1(t) ==
  /\ pc[t] = "head" /\ Goto(t, "inc") /\ Store(1, Revival)
  /\ UNCHANGED <<n, entry, reg, leased, local, alone, overlap>>

Increment(t) ==
  /\ pc[t] = "inc" /\ Goto(t, "put")
  /\ n' \in {n + 1, kept[t] + 1}
  /\ UNCHANGED <<dns, entry, reg, leased, local, alone, overlap, spill>>

\* RegSetValueExW.  If the number is past the array, so is what the code writes: the
\* excess is left out.
WriteReg(t) ==
  /\ pc[t] = "put" /\ EndCall(t)
  /\ reg' = SubSeq(dns, 1, IF n < CAP THEN n ELSE CAP)
  /\ UNCHANGED <<list, entry, leased, alone, overlap, spill>>

Step(t) ==
  \/ ReadRasDns(t) \/ Fallback(t) \/ Copy(t) \/ Check(t) \/ CutShort(t) \/ Start(t) \/ Shift(t) \/ Head1(t)
  \/ Increment(t) \/ WriteReg(t)

DnsNext == ~spill /\ (SetEntry \/ (\E l \in DhcpDns : Commit(l)) \/ \E t \in Threads : Step(t))

DnsSpec == DnsInit /\ [][DnsNext]_dnsVars
-----------------------------------------------------------------------------
\* netif.c:804-806 "Safe to call repeatedly (WriteDnsServers overwrites, never
\* appends)": as long as no two calls overlap, nothing is stored past the array, the
\* number of servers fits and the revival server is listed once, however often
\* programs dial and leases come.
NeverAppends ==
  ~overlap => /\ ~spill /\ n <= CAP
              /\ \A i, k \in DOMAIN reg : reg[i] = Revival /\ reg[k] = Revival => i = k

\* A dial that overlaps no other call makes exactly the servers of the phone book
\* the ones in use, or puts the revival server first; whatever earlier calls
\* that overlapped have left behind.
DialTakesEntry ==
  [][\A t \in Threads :
       pc[t] = "put" /\ pc'[t] = "idle" /\ alone[t] =>
         IF user[t] # <<>> THEN reg' = user[t] ELSE Len(reg') > 0 /\ reg'[1] = Revival]_dnsVars
=============================================================================
