--------------------------------- MODULE Boot ---------------------------------
(***************************************************************************)
(* The boot chooser (dcwboot.c) and the chainloader (trampoline.src): the  *)
(* menu launches the desktop, or reads the image with the browser into     *)
(* scattered pages, builds lists of their physical addresses, and jumps to *)
(* a copy of the trampoline, which copies the pages over the running       *)
(* kernel and enters the new one.                                          *)
(*                                                                         *)
(* A physical page is a number; the image goes to DST and up.  Of the RAM  *)
(* which the allocator hands out, a part may lie in the destination: the   *)
(* image is longer than the running one, behind which RAM begins.          *)
(***************************************************************************)
EXTENDS Integers, Sequences

CONSTANTS DST, RAM,        \* the first page of the destination; the pages of RAM
          ENTRIES,         \* addresses in one list (1024)
          CHAIN_MAXPFNPG,  \* most lists
          MaxPages,        \* bound: pages an image can have
          MaxShells        \* bound: desktops launched

ASSUME BootAssumption ==
  /\ DST \in Nat /\ RAM \subseteq Nat /\ ENTRIES \in Nat \ {0}
  /\ CHAIN_MAXPFNPG \in Nat \ {0} /\ MaxPages \in Nat \ {0} /\ MaxShells \in Nat

VARIABLES
  bootAt,     \* where the program is
  s_nSel,     \* the selected line of the menu
  shells,     \* desktops launched
  nPages,     \* of the image, from its header
  held,       \* what BootIeImage has open or allocated
  place,      \* the physical page of each page allocated
  mem,        \* what each physical page holds
  idx         \* the next page to list or to copy

bootVars == <<bootAt, s_nSel, shells, nPages, held, place, mem, idx>>

Other   == <<"other">>
Pages  == RAM \cup DST..DST + MaxPages - 1
Payload == {<<"page", j>> : j \in 0..nPages - 1}
Lists   == {<<"list", k>> : k \in 0..(nPages + ENTRIES - 1) \div ENTRIES - 1}

BootInit ==
  /\ bootAt = "menu" /\ s_nSel = 0 /\ shells = 0 /\ nPages = 0 /\ held = {}
  /\ place = <<>> /\ mem = [f \in Pages |-> Other] /\ idx = 0
-----------------------------------------------------------------------------
(* The menu                                                                *)

MoveSel ==
  /\ bootAt = "menu" /\ s_nSel' = 1 - s_nSel
  /\ UNCHANGED <<bootAt, shells, nPages, held, place, mem, idx>>

\* Enter or A.  The keys still queued are taken after the desktop was launched, too.
Choose ==
  /\ bootAt = "menu" /\ UNCHANGED <<s_nSel, nPages, place, mem, idx>>
  /\ IF s_nSel = 0 THEN shells < MaxShells /\ shells' = shells + 1 /\ UNCHANGED <<bootAt, held>>
     ELSE \/ UNCHANGED <<bootAt, shells, held>>
          \/ bootAt' = "header" /\ held' = {<<"file">>} /\ UNCHANGED shells

MenuEnds ==
  /\ bootAt = "menu" /\ shells > 0 /\ bootAt' = "gone"
  /\ UNCHANGED <<s_nSel, shells, nPages, held, place, mem, idx>>
-----------------------------------------------------------------------------
(* BootIeImage                                                             *)

\* A header that cannot be read or is none, or an image with too many pages.
ReadHeader ==
  /\ bootAt = "header"
  /\ \/ bootAt' = "fail" /\ UNCHANGED nPages
     \/ /\ nPages' \in 1..MaxPages
        /\ bootAt' = IF (nPages' + ENTRIES - 1) \div ENTRIES > CHAIN_MAXPFNPG THEN "fail" ELSE "alloc"
  /\ UNCHANGED <<s_nSel, shells, held, place, mem, idx>>

\* Payload, scratch list and trampoline; they are looked at when all were asked for.
Allocate ==
  /\ bootAt = "alloc"
  /\ \E got \in SUBSET {<<"payload">>, <<"pfnTmp">>, <<"tramp">>} :
       /\ held' = held \cup got
       /\ IF got = {<<"payload">>, <<"pfnTmp">>, <<"tramp">>}
            THEN /\ bootAt' = "read"
                 /\ place' \in [Payload \cup {<<"tramp">>} -> RAM]
                 /\ \A p, q \in DOMAIN place' : place'[p] = place'[q] => p = q
            ELSE bootAt' = "fail" /\ UNCHANGED place
  /\ UNCHANGED <<s_nSel, shells, nPages, mem, idx>>

HeldBy(f) == {p \in DOMAIN place : place[p] = f}

\* The payload is read, the file closed, the trampoline copied, the pages' addresses asked.
ReadPayload ==
  /\ bootAt = "read"
  /\ \/ bootAt' = "fail" /\ UNCHANGED <<held, mem, idx>>
     \/ /\ held' = held \ {<<"file">>} /\ idx' = 0 /\ bootAt' \in {"lists", "fail"}
        /\ mem' = [f \in Pages |-> IF HeldBy(f) = {} THEN mem[f] ELSE CHOOSE p \in HeldBy(f) : TRUE]
  /\ UNCHANGED <<s_nSel, shells, nPages, place>>

Addresses(k) ==
  LET left == nPages - k * ENTRIES
  IN [e \in 1..(IF left > ENTRIES THEN ENTRIES ELSE left) |-> place[<<"page", k * ENTRIES + e - 1>>]]

\* Mutant: every list starts with the first page.
BuildListFirst ==
  /\ bootAt = "lists" /\ idx < nPages
  /\ LET k == idx \div ENTRIES
     IN \/ bootAt' = "fail" /\ held' \in {held, held \cup {<<"list", k>>}} /\ UNCHANGED <<place, mem, idx>>
        \/ \E f \in RAM \ {place[p] : p \in DOMAIN place} :
             /\ held' = held \cup {<<"list", k>>} /\ idx' = idx + Len(Addresses(k))
             /\ place' = [p \in DOMAIN place \cup {<<"list", k>>} |-> IF p = <<"list", k>> THEN f ELSE place[p]]
             /\ mem' = [mem EXCEPT ![f] = <<"addresses", [e \in DOMAIN Addresses(k) |-> place[<<"page", e - 1>>]]>>]
             /\ UNCHANGED bootAt
  /\ UNCHANGED <<s_nSel, shells, nPages>>
\* One list: no memory for it, no physical address for it, or filled.
BuildList ==
  /\ bootAt = "lists" /\ idx < nPages
  /\ LET k == idx \div ENTRIES
     IN \/ bootAt' = "fail" /\ held' \in {held, held \cup {<<"list", k>>}} /\ UNCHANGED <<place, mem, idx>>
        \/ \E f \in RAM \ {place[p] : p \in DOMAIN place} :
             /\ held' = held \cup {<<"list", k>>} /\ idx' = idx + Len(Addresses(k))
             /\ place' = [p \in DOMAIN place \cup {<<"list", k>>} |-> IF p = <<"list", k>> THEN f ELSE place[p]]
             /\ mem' = [mem EXCEPT ![f] = <<"addresses", Addresses(k)>>]
             /\ UNCHANGED bootAt
  /\ UNCHANGED <<s_nSel, shells, nPages>>

\* The address of the trampoline, and the jump to it.
Jump ==
  /\ bootAt = "lists" /\ idx = nPages /\ idx' = 0 /\ bootAt' \in {"fail", "copy"}
  /\ UNCHANGED <<s_nSel, shells, nPages, held, place, mem>>

\* fail: whatever was got is given back.
Fail ==
  /\ bootAt = "fail" /\ bootAt' = "menu"
  /\ held' = held \ ({<<"file">>, <<"payload">>, <<"pfnTmp">>, <<"tramp">>}
                       \cup {<<"list", k>> : k \in 0..CHAIN_MAXPFNPG - 1})
  /\ place' = <<>> /\ mem' = [f \in Pages |-> Other] /\ nPages' = 0 /\ idx' = 0
  /\ UNCHANGED <<s_nSel, shells>>
-----------------------------------------------------------------------------
(* Chainload                                                               *)

\* What stands where the address of the next page is looked for; an overwritten list leads anywhere.
Source ==
  LET list == mem[place[<<"list", idx \div ENTRIES>>]]
  IN IF list[1] = "addresses" THEN mem[list[2][(idx % ENTRIES) + 1]] ELSE Other

\* One page.  An overwritten trampoline does not get here.
CopyPage ==
  /\ bootAt = "copy" /\ idx < nPages /\ mem[place[<<"tramp">>]] = <<"tramp">>
  /\ mem' = [mem EXCEPT ![DST + idx] = Source] /\ idx' = idx + 1
  /\ UNCHANGED <<bootAt, s_nSel, shells, nPages, held, place>>

Enter ==
  /\ bootAt = "copy" /\ idx = nPages /\ mem[place[<<"tramp">>]] = <<"tramp">>
  /\ bootAt' = "entered" /\ UNCHANGED <<s_nSel, shells, nPages, held, place, mem, idx>>

BootNext ==
  MoveSel \/ Choose \/ MenuEnds \/ ReadHeader \/ Allocate \/ ReadPayload \/ BuildList \/ Jump \/ Fail
  \/ CopyPage \/ Enter

BootSpec == BootInit /\ [][BootNext]_bootVars
-----------------------------------------------------------------------------
\* Where the payload and the lists may be although the image is copied over them: where
\* the page was read, and the list used up, by the time it is overwritten.
Harmless(p) ==
  LET j == place[p] - DST
      last == IF p[1] = "page" THEN p[2] ELSE (p[2] + 1) * ENTRIES - 1
  IN j \in 0..nPages - 1 => j >= IF last < nPages THEN last ELSE nPages - 1

\* Back in the menu nothing of an image that could not be started is held
\* (dcwboot.c:282); and a kernel that is entered is there whole, every page in its place,
\* unless a page or a list lay where it was overwritten before its use.
BootsWholeOrNot ==
  /\ bootAt = "menu" => held = {}
  /\ bootAt = "entered" /\ (\A p \in Payload \cup Lists : Harmless(p))
       => \A j \in 0..nPages - 1 : mem[DST + j] = <<"page", j>>
=============================================================================
