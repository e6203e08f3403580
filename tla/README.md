# Verification of wince-dc

wince-dc is a desktop shell, a set of windowed applications, a network link layer
and a few device drivers for Windows CE 2.12 on the Dreamcast. This directory holds
TLA+ models of the parts of it where several programs, threads or devices meet, the
TLC runs that check them, and TLAPS proofs of what matters most. Paths below are
relative to `src/`.

## 1. The system

### The machine and its schedule

One SH-4 processor, no swap, one process per program. `dcshell` raises itself to
`THREAD_PRIORITY_ABOVE_NORMAL` (`shell/dcshell.c`, `WinMain`) and the applications
stay at normal priority. So an application runs only while the shell blocks: in the
wait for the vertical blank at the end of each iteration of its loop, in `Sleep(1)`,
and while it waits for a full-screen program. A stretch of the shell without a
blocking call is atomic for the applications, while the shell can cut an application
between any two of its instructions. The modules use this as a rule for the grain of
their actions. `FrameLock` has the constant `Preempt` to drop it, because a lock
should not depend on it.

### Components

| component | state | operations | interacts with | what makes it correct |
|---|---|---|---|---|
| DCWin frame exchange (`dcwlib.c`, `dcshell.c`) | `gen`, `cmd`, `cmdCount` of a slot; the client's build list; `s_aSnap` | `DCWinBeginFrame..EndFrame`, `SnapWindows`, `RenderWindow` | client and shell share the slot without a lock | only whole frames are shown; the last one is shown in the end |
| DCWin key ring | `in`, `inHead`, `inTail` | `OnKey`, VK_APPS forward, `DCWinPollKey` | shell writes, client reads | order, no duplicate, the newest keys survive |
| DCWin slots and the shell's routing | `inUse`, `ownerPid`, `wantClose`, `ptrX`, the rectangle; `s_nFocus`, `s_abWinMax`, `s_abWinMin`, `s_abWasInUse` | open, close, crash, reap, focus, minimize, maximize, move, resize, pointer, keys | apps claim slots by themselves; the shell polls | a running app owns its slot; keys and close requests reach whom they were meant for; ghosts are reaped; a window stays in reach and is drawn in its size |
| DCWin mailboxes | `execPath`, `execSeq`; `DcCrash` | `DCWinExec`, `DCWinCrashFilter`, the polls of `WinMain` | any app writes, the shell reads | a message is whole and served at most once; the latest is served |
| Desktop shortcuts | `s_aDesk`, `s_anDeskUser`, `s_aDeskPos`, `s_nDeskSel`, the context menu, the drag, the VMU record | add, remove, move, arrange, save, load | pointer, keys and menus all hold indices into one array | each acts on the icon it was opened on; a power cycle loses nothing |
| Input layer (`dcinput.c`) | pads, key snapshot, queue of 32 keys, pointer position, latches | poll, edge detection, repeat, acquire and release | three Maple devices, the shell loop, full-screen programs | one press, one event; nothing fires late |
| Blue screen | `s_bBsod`, the crash report | raise, dismiss | reaper, input | dismissed by one press, which does nothing else |
| Display dialog, wallpaper | dialog focus, drop-down list, saved choice | open, choose, apply | keys and pointer of the shell | modal; what is saved is what is shown |
| Graphics layer (`dcgfx.c`) | surfaces, texture caches, quad lists | present, launch (give the display away and take it back) | full-screen programs | no use of a lost surface |
| VMU storage (`vmustore.c`) | two files | load, save | shell | a failed save does not destroy the old record |
| Explorer, Task manager, Calculator, Clock, Memory tester | their own lists and phases | keys, pointer | DCWin | sequential programs |
| Network tester (`dcwnet.c`) | dial, connect and download states, buffer | one step per frame | RAS, Winsock | a dial and a download end, are reported as they were and leave nothing open |
| Audio player (`dcwplay.c`) | decoder, sound ring, position | play, pause, seek, refill | DirectSound | the frames of the track are heard in order |
| System log (`syslog.c`, `dcwlog.c`) | ring of lines in a shared section | `SysLogW`, viewer | several processes | a line read is a line written |
| Boot chooser (`dcwboot.c`, `dcboot.c`, `trampoline.src`) | chosen image | load, jump | shell | a kernel that is entered is whole; a failed start leaves nothing |
| Browser (`iexplore.cpp`, `iehost.cpp`, `ieproto.cpp`) | COM objects, sockets | navigate | OS control | lifetime of the objects |
| Link adapter (`netif.c`) | link, ARP cache, DHCP state, DNS list, redirect and NAT entry | init ladder, transmit, receive worker, link setup | RAS, backends, TCP/IP stack | lease valid, answers matched, table entries whole |
| RAS exports (`ras.c`) | connection state, phone book | dial, status, hang up | applications, link adapter | states seen in order |
| RTL8139 backend (`bba_hw.c`), W5500 backend (`w5500.c`), SPI (`dcspi.c`) | rings, chip registers, bus state | init, send, receive | link adapter, chips | frames leave whole; driver and chip agree on the ring; the console gets its port back |
| Stand-alone BBA driver (`bba.c`) | the same chip | ioctl, thread | NDIS-free test program | as above |
| SD card (`diskio.c`, `sdblk.c`, `sdcard.c`) | card type, mount state, open files | block read and write, file system calls | FatFs | what was reported as stored is there |
| FatFs (`ff.c`) | table, directory, one window, one buffer per file | open, read, write, seek, sync, truncate, unlink, rename, search | block layer | chains are apart at every moment; the free count is right |
| lwIP | | | | third-party |

### What is hard to test here

* The shared section has no lock at all: slots are claimed, frames exchanged,
  requests posted and crash reports filled in by plain loads and stores.
* The shell learns of a change only by polling once in an iteration, and while it
  waits for a full-screen program it does not poll at all. Its own tables are
  indexed by slot and outlive the application in it.
* The desktop keeps an icon by its index in three places, and the array shifts.
* Input is latched by one part and consumed by another, sometimes much later.
* The network code answers from two threads and with retries on timers.
* The drivers run rings whose other end is a chip.

`PROJECT.json` lists every hazard with its line, and the properties that cover it.

## 2. The modules

| module | models | kind |
|---|---|---|
| `FrameBoard` | what the frame exchange promises | abstract specification |
| `FrameLock` | the sequence lock, access by access; it implements `FrameBoard` | specification |
| `KeyRing` | one window's key ring | specification |
| `WinSlots`, `MCWinSlots`, `WinSlotsProofs` | slots and routing | specification, symmetry set for TLC, proofs |
| `WinGeometry` | moving, resizing and maximizing a window | specification |
| `WinResize` | how a program learns the size of its window | specification |
| `Mailbox` | exec request and crash report | specification |
| `DeskIcons` | desktop shortcuts, menus, drag, VMU record | specification |
| `InputPath`, `InputPathProofs` | device polls, key queue, latches, blue screen, hand-off to full-screen programs | specification, proofs |
| `SysLog` | the log and its viewer | specification |
| `NetTester` | the network tester on RAS | specification |
| `Player` | the audio player | specification |
| `Boot` | boot chooser and trampoline | specification |
| `ProgramsProofs` | theorems about `FrameLock`, `KeyRing`, `Mailbox`, `NetTester` and `Player` | proofs |
| `DesktopProofs` | theorems about `DeskIcons`, `WinGeometry`, `SysLog` and `Boot` | proofs |
| `DhcpClient` | link ladder, worker and DHCP client, against servers on a lossy segment | specification |
| `DnsList` | the list of name servers, store by store | specification |
| `LinkTables` | ARP cache and address translation, store by store | specification |
| `NetifProofs` | theorems about `DhcpClient`, `DnsList` and `LinkTables` | proofs |
| `BbaLink`, `W5Link` | the two adapters with their chips | specifications |
| `LinkBackends`, `LinkBackendsProofs` | the adapters, tried one after the other | composition, proofs |
| `FatFs` | FAT32, sector by sector, as operators | functions |
| `Storage`, `MCStorage` | the calls of the file system driver, faults and power cuts | specification, symmetry set for TLC |
| `StorageProofs` | the operators of `FatFs`, and the count of free clusters | proofs |
| `StorageOrderProofs` | the calls of `Storage`: chains and searches | proofs |
| `MCPrograms` | frames, keys, messages, size and network tester | composition for TLC |
| `MCDesktop` | shortcuts, geometry, log, player, boot chooser and name servers | composition for TLC |

Names of variables and actions are those of the code wherever there is one; `map` in
`PROJECT.json` gives the lines of every definition. A definition preceded by the
comment *Mutant* is a plausible bug in the definition that follows it. No
specification uses it; it shows that a property can fail.

`MCPrograms` and `MCDesktop` put machines that share no variable, and never wait for
each other, into one run. A behaviour chooses one of them (`part`) and leaves the
rest as they began, so the states are those of the machines taken one by one.

### FrameBoard and FrameLock

`win` is the slot, `cl` a client inside `DCWinOpen`, `DCWinEndFrame` or
`DCWinClose`, `sh` the locals of `SnapWindows` together with the snapshot of the
slot, `drawn` the frame in the scene. Each access of the slot is an action:
`LockFrame` (gen becomes odd), `CopyCmd`, `SetCount`, `UnlockFrame` for the client,
`SnapGen`, `SnapCount`, `SnapCopy`, `SnapCheck` for the shell, `SnapWake` for its
`Sleep(1)`. `Open` hands the slot to the next client and resets `gen`. The
refinement mapping takes `latched` to the part of the snapshot that counts.

Assumed: loads and stores of 32 bits are atomic and are not reordered (one
processor, and `gen` and the list are reached through a `volatile` pointer or across
calls). `ReuseAssumption` says that with `Preempt` there is only one client: a
snapshot that is cut by a close and a reopen could find the same `gen` again. The
priorities of the real system exclude that. The 2^32 wrap of `gen` is not modelled:
it takes two billion frames within one snapshot.

### KeyRing

`Push` is the shell's unchecked store at `inHead % DCWIN_MAXIN`; a poll is the three
steps `PollCheck`, `PollRead`, `PollAdvance`. The ring can be overrun, and the
module says exactly what is promised then: the last `MAXIN` keys are in the ring,
and the application makes as many polls as there were pushes. `overrun` is a history
variable. When it is set, the oldest unread cell holds the newest key, so that key
is returned twice.

### WinSlots

`pc[p]` takes an application through `DCWinOpen` (scan, clear, fill, publish), its
loop, and its end, by `Close` or by `Die` (a fault, or End Task). The shell's `sh`
goes through the parts of one loop iteration, `input`, `context`, `exec` and `tick`,
and through the two places where it waits for a program. Input events are actions
with the guard that decides which window they concern. Where a window lies is
abstracted, so any visible window can be under the cursor, and where the pointer is
in its window (`ptrX`, `ptrY`) is left out. `max` and `min` keep whose window set the
flag, and `was` who was in the slot at the shell's last poll. The code does not store
this; it is what the properties are about. `Buttons` bounds the slots whose windows the
user maximizes and minimizes: two flags on every slot are most of the states, and only
`ReusedSlotNormal` asks for them on both.

Two applications may claim the same slot at once, because `dcwlib.c:36` has no lock.
The model lets them, and lets them run on together. `shared` holds those still alive
to whom that has happened; nothing is promised to them, and everything to the others,
whatever the ones that share may do. (`WinSlots_claim` shows the claim itself.)

`InputForOwner` follows input by whom it was *meant* for, not by where it arrives.
`keys[s]` and `wantClose[s]` hold those owners. For a click it is the owner whose
window the shell has seen in that slot, and for a key or a close request by keyboard it
is the owner whose window the focus was put on (`aim`), however long ago. So a focus
that outlives its window, or a request left in a slot for the next user, violates it.
One case is excused and named: the shell learns of a closed window only at its next
`FixupFocus`, and a slot that was freed and taken again before that poll (`fell`) looks
unchanged to it. What the user sends in that gap goes to the new application. The gap
is as long as a program the shell is waiting for; the same gap is what
`WinSlots_reuse` shows with the flags, where a comment promises otherwise.

Assumed: process identifiers are not reused while a slot names them; `OpenProcess`
on a live process succeeds; a full-screen program returns (`LaunchDone` is fair).

### WinGeometry and WinResize

`WinGeometry` is the rectangle of one slot under the pointer: `PressWindow` is
`DragHitTest` for one window, `DragApply` moves or resizes, `ToggleMaximize` swaps
the rectangle with `s_awinRestore`. The window may close and the slot may be taken
by the next program at any moment, with the button still down; `Forget` is the poll
that clears the maximize flag, if it comes in time. Then a drag goes on over another
window, and the flag and the stored rectangle are those of a program that is gone.

`WindowInReach` says that the pointer can still take hold of the window. With the
pointer on the screen the left limit of a move only matters in that hand-over: the
drag of a wide window is carried on over a narrow one. At the limit nothing is left
of a window on the screen but its boxes, which is enough. Whether the pointer has
left the threshold of a click is left to choose. Assumed: programs open windows that
lie on the screen (`Opens`), and one pointing device is in use (a click reported by
the window system, `shell/dcshell.c:2113`, while the pad drags, is left out).
Minimizing is in `WinSlots`.

`WinResize` is the program's side. `dim` is the size in the slot, `lastSize` the one
that the library remembers, `client` the one that the program knows. Programs use
the two calls of the library in four ways (`Loops`): some redraw on the result of
`DCWinClientSize`, some on that of `DCWinResized` and read the size while they draw,
the system log and the player read first and ask afterwards, and Explorer does so
when the pointer is over it. `ResizeDrawn` holds for the first two. The others lose
a resize, which is the finding of `WinResize_log`; the player draws thirty times a
second anyway, and the log catches up with the next line or key.

### Mailbox

`WriteField` copies one part of the message, `LoadSeq` and `StoreSeq` are the two
halves of `seq++`, `Take` is the poll of `WinMain`. `overlap` records whether two
posts were ever in progress together.

### DeskIcons

Every action is one event of the shell's single-threaded loop: a move, press,
release, key, menu or context event. `RemoveShortcut`, `AddDesktopShortcut`, `Place`
and `Arranged` are the functions of the code, each with its save to the VMU.
`Reboot` loads `vmu` again. The `id` in an icon and in `ctx` tells icons apart and
is not in the code, which only knows indices. A drag keeps its icon by index alone:
a removal while the button is held makes the release move another icon. The model
shows this and no property forbids it, since nothing in the repository promises
otherwise. While a menu is open hover is off, so an icon that the pointer leaves
then stays selected, and the next A on the bare desktop launches it, against the
comment at `shell/dcshell.c:2005`: a known limitation, without a property. Assumed:
no window is under the cursor or focused, the Display dialog is closed, and a VMU is
there and accepts the save.

### InputPath

One iteration of `WinMain`'s loop is a walk of `sh` through `pump` (window
messages), `poll`, `mouse` and `pad` (`DInUpdate`), `watch` (the crash report), then
either `bsod` or `keys`, `pointer`, `context`, `click`, `exec`, and `wait` (the
vertical blank). A handler that starts a full-screen program goes to `app`.
`AppExit` is `DInReacquire` followed by `CheckFullscreenCrash`, and the loop goes on
at `back`. `q` is the 32-cell key queue and `activate`, `ctx` and `click` are the
one-shot latches. `old` marks a key or a latch that is from before the last hand-off
or blue screen.

A poll chooses freely which keys and buttons are down, and each device may fail to
answer, in which case its state stays. Whether a repeat is due, and whether the
settle window of the pad and the 400 ms of the blue screen are over, are choices
too. Left out: hotplug, the motion of the cursor, the hotkeys, START (one more
source of `activate`) and the raw edges kept for the browser. Assumed: all three
devices are present, and one poll fits the queue (`NMAP + NDPAD < QLEN`; the code
has 20 + 4 < 32).

Two known limitations show in the model and have no property, because the code has
nothing that could keep it: `DInReacquire` clears the snapshot that the next poll
compares with, so a key held across the hand-back is taken for a new press
(`shell/dcinput.h:23` says there is none), and if L trigger is released before A,
the A that made a context request presses the pointer as well (`shell/dcinput.c:556`
says it cannot).

### DhcpClient

`InterfaceInitialize` tries the links in order and starts the worker; it is called
twice, may find no memory, and hands over to the modem driver. `BackFill` is the
moment at which microstk has filled in its callbacks. The worker's loop is the two
actions `DhcpRx` (a frame from the link) and `Timer` (1.5 s without an address).
`Serve` and `Overhear` are the servers. They answer this machine and, by broadcast,
others. With every step any frame in flight may be lost, a delivered frame may stay,
and the set has no order (`Flight`).

The client checks neither the transaction nor the hardware address of a reply, and
in state 1 takes any reply for the lease. So the model leaves both out, and the
address that it ends up with may be one offered to another machine, one that was
offered twice and never acknowledged, or the 0.0.0.0 of a NAK (then it stays with
it: `s_bHaveIP` ends DHCP). That is a known limitation of the client; no property
claims more. What holds nevertheless: once the interface is up, ARP answers for the
address that microstk uses, for good. The mask, the gateway and the options come
with the address and are not modelled here. Expiry of the lease does not exist in
the code.

### DnsList

`Commit` is the part of `DhcpRx` that stores the servers of a reply, the other
actions are `WriteDnsServers`, one per store. The worker (`NetifOnLease`) and any
program that dials (`AfdRasDial`) run it, with nothing between them. `kept` is the
number as the compiler may keep it in a register across the loop, so a later read
finds either. `SetEntry` is the phone book: the servers of the first entry that has
any.

Calls that overlap can list the revival server twice, or leave a number or a store
past the array; there the model ends (`spill`), which is why its run does not check
for deadlock. `NeverAppends` says that nothing else can do this, and it is violated
without its premise. `DialTakesEntry` has a weaker premise, that this call is alone,
so it also says that damage by earlier calls does not last. One more limitation:
after an entry is deleted its servers stay in `s_adwOffDns` and are used as if DHCP
had sent them. Assumed: stores of 32 bits are whole and, on one processor, ordered;
memory for the registry value is there.

### LinkTables

`ip`, `mac` and `used` are `s_arp`. `RxArp` is the arrival of an ARP packet up to
the choice of a slot; `InsertIp`, `InsertMac` (two parts) and `InsertUsed` are the
stores of `ArpInsert`. A sender goes through `OurTransmit`: redirection (`orig`,
`target`), choice of the next hop (`route`), one slot of `ArpLookup` at a time, two
parts of the copy, and then it sends or asks. `RxMaster` and `Restore` are the two
accesses of `RxFrame` to the translation. The addresses of the game servers that are
gone are `Dead`.

A full cache gives slot 0 to the next new host, used flag and all. A sender in the
middle of that slot then sends to the wrong hardware address; `evicted` marks this,
and `SentToNextHop` and `ResolvedInTheEnd` end there. `RevivalMaster` is configured,
for otherwise there is no translation; the mask tells `Hosts` from the rest. The
used flag and the address of a slot are read in one step, which changes nothing as
long as no host is evicted.

Not modelled: `DnsFlatten`, the checksums, the hand-over of a datagram to microstk,
and the bytes of ARP packets.

### BbaLink, W5Link and LinkBackends

`BbaLink` is the RTL8139: descriptors `tsd` and the ring `ring` with the chip at the
other end (`ChipTxRead`, `ChipRxBegin`, ..), a frame in two parts, and the positions
`currx` of the driver and the chip, with the width `RxWrap` and the offset of 16
that `CAPR` has. `cs` is the critical section of `bba_hw.c`; the stand-alone `bba.c`
has none. `W5Link` is the W5500: the probe of the two serial ports with what it does
to the debug console, and the transmit and receive buffers, one SPI transaction per
action, because the lock covers just that. `LinkBackends` composes them as
`InterfaceInitialize` does: the probe of one goes before the probe of the other.

The chips are external, and modelled as far as the drivers rely on them. Where the
code keeps nothing apart the model stops and nothing is promised: descriptors reused
without a look at OWN (`lapped`), calls of `bba.c` that overlap, and transmissions
of two threads through the W5500, whose lock ends between two transactions
(`clash`).

`SEND` and `RECV` are stored in the same register, `Sn_CR` (`w5500.c:331`, `:370`,
`:379`), and the lock is free between the store of a `SEND` and its acceptance. A poll's
`RECV` in that gap overwrites the `SEND`. The wait of `W5500Tx` then sees an empty
register and reports success, although `w5500.c:336` says that a `SEND` that is not
accepted is a failure. `W5RxRecv` does this, `lost` remembers it, and `W5SendsWhole`
says what is left: the frames are all there, whole and in order, but the next `SEND`
makes the chip emit the unsent frame and its own in one piece. Without a loss, what
leaves is the one frame of the thread that waits. Lost `SEND`s that fill the buffer
leave no room for another frame, so nothing more is sent until a reset; no property
promises that a frame leaves in the end.

Also seen and not promised: a failing `W5500Init` keeps the bus, so that
a console on the SCIF stays off, and leaves the null link; a second
`ScifSaveConsole` overwrites what the first saved; `SciInit` that fails leaves the
SCI half on; the probe on a Naomi changes the RTS line of the SCIF. A length that is
torn but plausible would put the W5500 out of step: the model takes it that wrong
reads look impossible, and that the chip carries out a `RECV` before the next
transaction (so a `SEND` does not overwrite a `RECV`). A
buffer is smaller than the range of the positions (`W5Buf < W5Wrap`; the chip has
16 KB at most and 16 bits), or a full one would look empty. The Broadband
Adapter is followed from one state of the serial ports only, since it does not depend
on them.

### FatFs and Storage

`FatFs` has one operator for each function of `ff.c`, from `MoveWindow` and `PutFat`
to `FRename`. It takes a volume record to the volume record that the function
leaves, with every sector written in `io`, in order. `Storage` has one action for
each method that `sdcard.c` gives to the system; the critical section makes each one
step. An action may meet one failing call to the card, and then a write has or has
not reached it; `PowerCut` ends a call after any of its sectors and mounts again.
A loop of the code is a recursive function with as many turns as the card has
clusters, or the call has units (`Turns`); a walk that is not done by then has come
to a ring of clusters and would go on for ever, which `ReadsBack` excludes.

`want` is what each name should hold, `safe` what it must hold if the power went
now. Abstracted: a cluster is one sector of two units, a directory sector has one
entry, a name is one entry, the root is the only directory with entries, and there
is one FAT (a failing write of the second copy is ignored by the code). Assumed: a
file is open at most once, and is not removed, renamed or created anew while it is
open, for nothing in the driver checks it (`_FS_LOCK` is off); a read that fails
leaves the buffer alone.

Four known gaps end a behaviour (`Sound`), since nothing is promised after them: a
rename cut between its two entries leaves two names for one chain (`ff.c:4081`), a
truncation to nothing frees the clusters before the entry is written (`ff.c:3783`),
a table stretched by a cluster that was not cleared yet (`ff.c:1267`), and a
truncation that frees the cluster of the file's buffer and then cannot write that
buffer (`ff.c:3799`): the buffer stays due, and a later flush writes it into
whatever file has taken the cluster (`Stray`). The last needs a longer history than
the run has; it came out of the proof of `ChainsStayApart` (section 4), which shows
that chains and searches have no fifth. Further
limitations that no property claims away: `f_getfree` keeps a partial count after a
read error (`ff.c:3733`), `f_close` after a failing flush reports success
(`ff.c:3173`), the count in FSINFO is stale after a power cut, `OPEN_ALWAYS` does
not create and `TRUNCATE_EXISTING` does (`sdcard.c:208`), a disk error ends a search
like its last name does (`S_Next`: an application that is told so closes the search,
so where `f_readdir` would go on from after an error, `ff.c:1252`, is not followed),
the search is closed and the free space computed outside the lock, and a failing CMD58 leaves the card in byte addressing
(`sdblk.c:176`).

### SysLog

`Claim` is the interlocked increment, `CopyPart` one half of the text. `ViewPoll`
takes the head, the scroll position and the decision to draw, `ViewPart` copies half
a row. A line is claimed before it is filled and the viewer does not draw again when
it is complete, so half a line stays until the next line or key. A writer that is
slower than a lap of the ring spoils another's line (`mixed`). `ShownAsWritten`
claims the rest.

### NetTester

One turn of the loop is `Click`, `AdvanceDial`, the download and `Stay` or `Quit`;
`DoDial`, `PollDial`, `DoDownloadStart`, `DownloadAppend` and the rest are the
functions of the code, and `AfdRasDial` .. `ConnectStatus` those of `ras.c`, with
one flag for all programs on Ethernet and a port of the modem driver without. The
server sends any part of its reply, closes, resets or stays silent. Time is counted
in turns.

Limitations without a property: Dial after a failed call overwrites the handle
(`orphan`, `dcwnet.c:164`); a tester that quits hangs up for all programs; the state
"up" is never checked again; an allocation that fails followed by one that succeeds
leaves a hole (`short`, `dcwnet.c:515`); the result of `send` is not looked at; a
test keeps the loop for up to twelve seconds. Assumed: the header of a reply fits
the largest buffer (`HDR <= DL_MAX`, which is 4 MB).

### Player

A frame of the track is its number and an output is the pair of frames it is made of
with the phase, so order, loss and repetition are visible across the stream buffer
(`SBUF`), the MPEG frame (`PER`), the resampler (`step`) and the blocks of the ring
(`ALIGN`). `Card` is the sound chip, which plays the ring by itself. `HeardInOrder`
ends when the program is late by a ring, when the chip overtakes it (`lost`). A seek
is followed, not judged: `SeekFrac` leaves `g_nSrcEof`, `g_nRsPrimed` and the
decoded frames as they are, so old frames are heard after it, and after the end of
the track nothing is, until a Stop (`dcwplay.c:624`). A Stop leaves the old contents
in the ring, up to a second of them at the next Play. The last frame of a track is
never output. Volume, spectrum and seek bar are left out.

### Boot

`ReadHeader`, `Allocate`, `ReadPayload`, `BuildList` and `Jump` are the parts of
`BootIeImage`, each of which may fail (`Fail`); `CopyPage` and `Enter` are the
trampoline. Where a page lies is chosen freely, also inside the destination, because
the image is longer than the one that is running. `Harmless` is the exact condition
under which that does no damage: nothing in the code checks it. Not claimed: two
Returns in one frame launch two desktops (`dcwboot.c:354`), the loop goes on drawing
after `GfxShutdown`, and nothing is freed if the jump returns.

## 3. The runs

All on small instances; each ends within three minutes on two workers.

| run | bounds | shows |
|---|---|---|
| `MCPrograms` | frames: 2 commands (one too many drawn), 2 tries, 2 frames, 2 clients; keys: 3 in 2 cells, 5 pushes; mail: 2 writers, 2 parts, 2 posts each; size: 2 sizes, 2 resizes, the loops `report` and `ask`; tester: reply of 2 and 2 units into a buffer of 3, 2 dials, 1 failed allocation | a kept snapshot is whole and the last frame is shown in the end (`FrameBoard`); order of keys until an overrun, every push polled; a message whole unless posts overlap, the latest served; a window drawn in its size in the end; downloads and dials end, are reported as they were, and leave nothing open |
| `MCDesktop` | icons: 1 built in, 2 shortcuts, 3 places; geometry: a screen of 12 by 9, a wide and a narrow window, 2 presses; log: 3 lines, 2 rows, 2 writers, 5 lines written; player: 3 MPEG frames of 3, a ring of 3, 2 rates; boot: up to 5 pages, lists of 2, 7 pages of RAM; names: 3 cells, replies of 1 and 3 servers, an entry of 2, the worker and one dialler | the context menu acts on its own icon, a power cycle restores the desktop; a window stays in reach; log and track come out as they went in; a kernel entered is whole; the list of servers never grows, and a dial that is alone takes effect |
| `WinSlots` | 2 slots, 3 applications, flags used on slot 0 (`Buttons`) | ownership, keys and close requests: with one application more than slots every slot changes hands, or is shared |
| `WinSlots_live` | 1 slot, 2 applications | close requests answered, ghosts reaped |
| `WinSlots_claim` | 2 slots, 2 applications, no flags | **violated**: two claims of one slot |
| `WinSlots_reuse` | 2 slots, 2 applications, flags on both | **violated**: a reused slot keeps the flags of the window before |
| `WinResize_log` | 2 sizes, 2 resizes, the loops `both` and `hover` | **violated**: a resize is not reported |
| `InputPath` | 1 repeating key, 1 direction, 4 cells | a poll finds the queue empty; nothing from before a hand-off is carried out after it; the blue screen is dismissed by new input only, and goes away |
| `DhcpClient` | 1 server, 2 addresses for this machine and 1 for another, 3 frames in flight, 2 calls | ARP answers for the address in use; the interface comes up |
| `LinkTables` | 2 slots, 3 hosts, 2 dead servers, 1 sender | datagrams go to their next hop; replies get a source that was dialled; next hops are resolved |
| `LinkBackends` | 2 descriptors, a ring of 4 frames that wraps; a buffer of 2 units and positions modulo 4 | frames leave whole; driver and chip stay in step; the console gets its port back; what arrives is taken out |
| `Storage` | 2 names, clusters 2 to 6, files of up to 4 units, 3 operations, 1 fault or power cut | no cluster shared or freed under a file; what was synced stays; reads and searches give what was written; the free count follows |

Why the bounds suffice. Every hazard needs at most two of everything (two clients in
turn, a lap of the ring, two writers, two shortcuts with one removed before the
other, one file next to another), and one more is given where a third party could
interfere. In `Storage` the second operation is what finds the damage of the first,
and a third lets a file be open or created in between; lengths of 1 and 3 and
offsets of 0 and 3 make a write that stays in a sector, one that crosses into the
next cluster, and a file with a hole. What this leaves out is a longer history of
faults. In `MCDesktop` the ring of the player is shorter than the track, the log
shorter than what is written, and the screen just larger than two title bars. The
properties marked as proved below hold for every value of the constants anyway.

`CHECK_DEADLOCK FALSE` appears where the model stops because a counter reached its
bound (`MaxPush`, `MaxPost`, `MaxOps`, `MaxLines`), a program ends (`NetTester`,
`Player`, `Boot`), or nothing is promised after a known gap (`spill`, `clash`,
`overlap`, `Sound`). Symmetry is used in `WinSlots` and `Storage`, which have no
liveness property.

### Fairness

* The shell's loop never ends, so its steps are weakly fair. A `Tick` (once a
  second) and the end of the input phase are strongly fair because other steps of
  the same iteration can be taken in between.
* An application is scheduled again and again while the shell waits, but not all the
  time: its steps are strongly fair in `FrameLock` and `WinSlots`. Only steps that
  the application has to make are fair: finishing `DCWinEndFrame`, answering
  `DCWinShouldClose`, finishing a post. Opening, drawing or dying is not. In
  `WinResize` and `NetTester` the loop of the program is weakly fair: it is a loop
  without end around `Sleep`, and nothing disables its next step.
* In `InputPath` the loop, which includes the return of a full-screen program, is
  weakly fair (the shell waits `INFINITE` for a program, so one that hangs holds the
  shell for good). That the arm delay ends is strongly fair, because it is a timer.
  `BsodGoesAway` puts the rest in its premise: programs stop crashing and the user
  keeps pressing keys.
* In `DhcpClient` the timer is weakly fair, because the worker loops for ever. Of
  the segment it is only assumed that a frame sent over and over gets through in the
  end (strong fairness of an answer and of its delivery). In `LinkTables` the
  threads run (weak), and a host that is asked again and again answers (strong).
* In `LinkBackends` the worker polls again and again, although the lock may be held
  each time it is looked at (strong), a call that is in a driver goes on, and a
  frame that has begun to arrive arrives (weak). `InterfaceInitialize` goes on to
  its end.
* `Storage` and the parts of `MCDesktop` claim safety only.

## 4. The proofs

All are checked by TLAPS for arbitrary constants, under the `ASSUME`s of the
modules, which TLC also evaluates.

* **`WinSlotsProofs`**: `WinSlotsTypes`, `RunningAppOwnsSlot` and
  `InputReachesItsOwner`, for any number of slots and applications and with no
  assumption on when they open. Neither property is inductive. `Owns` adds, for an
  application that has never shared: no other has its slot (`Alone`); while it opens,
  the slot is free, and what it has cleared or filled so far is still so (`Opens`); and
  while it runs the slot is its own, input included (`Runs`). For input to come it
  needs `PollKnows`: unless the slot was freed since the last poll, what the shell
  holds of it, `was` and a focus on it, is the owner now there.
* **`InputPathProofs`**: `InputPathTypes`, `PollFindsQueueEmpty`,
  `NothingCrossesHandOff`, `OnlyNewInputDismisses`. The invariant adds where the
  queue may hold keys at all (`Drained`), that outside a program no key and no
  context request in it is old (`Current`), and that the two latches `DInReacquire`
  leaves alone are not set from before while the blue screen is up (`Screen`). The
  order in which a poll reads its table is a relation (`InOrder`), which keeps
  recursive operators out of the module.
* **`ProgramsProofs`**, about programs and what they share with the shell:
  * `FrameLockTypes`, `StableList`, `SnapshotsAreWhole`, `FrameLockImplementsBoard`.
    The published list alone is not inductive. `FrameInv` adds: while the client
    copies, the part copied so far agrees with its build list and `gen` is odd
    (`Writing`); `CopyIsPrefix`, that while `gen` has not moved since the shell read
    it, the shell holds a prefix of the published frame, and its count is that
    frame's; and that a kept snapshot consists of commands only (`KeptClean`). The
    proof covers both values of `Preempt`.
  * `KeyRingTypes`, `KeysInOrder`, `NewestKept`. The invariant ties `inHead` to the
    number of pushes and `inTail` to the number of polls, and says that the key in
    `key` between two steps of a poll is the one due.
  * `MailboxTakesAtMostPosts`: a number the shell has not seen stands for one post
    not yet taken (`Pending`), also when a late store sets the number back.
    `MailboxGivesWhole`: until two posts overlap, one writer at most is at work
    (`Alone`), the parts behind it are its own (`Partial`, `Settled`), and a message
    that nobody writes is whole or not asked for (`Sound`).
  * `TesterLeavesNothing`: a socket is open only in the state that closes it, and
    the port is held only by a handle that the program has, unless it lost one
    (`Holds`, `HungUp`). `TesterTellsTheTruth`: what is in memory is the reply up to
    the number of units received, cut at `DL_MAX`, and the verdict follows from that
    number (`Received`, `Judged`).
  * `TrackHeardInOrder`, from `PlayerInvariant`, in three layers. `Buffered`: the
    stream buffer and the decoded frames hold the next part of the file. `Synced`:
    unless the file has ended, the resampler stands where `nPlayed` outputs leave
    it, `cnt * step = ONE * (cur - 1) + phase`. `Order`: the slots that the chip has
    not played can be numbered, so that each holds silence, something from before,
    or the output of its number. The loop never fills a slot that is not played yet
    (`Device`), as long as the program is not late. The loops of the code are
    recursive functions in the model, and the lemma `LoopRuns` turns one into a
    sequence of states, along which `Upwards` counts.
* **`DesktopProofs`**, about four parts of the desktop:
  * `MenuKeepsItsIcon`, `ShortcutsComeBack`. The built-in icons come first, no two
    icons have the same identity (`WellFormed`), and the record on the VMU is the
    list of the others at every moment, since each change saves it.
  * `GeometryTypes`, `WindowStaysInReach`, for a screen, boxes and limits of any
    size (`GeometryAssumption`, which the constants of the code meet). That the
    pointer can take hold of a window follows from where it is: the left and the
    upper edge are within the limits of a move (`Placed`), and its right edge is at
    least `KEEP` into the screen, or at least its corner can be reached (`Held`). A
    resize clamps the size and not the place, so the invariant says besides that
    the offset of the drag is within the grip, and that the window is not so low
    that its corner could leave the screen downwards (`Resizing`), also after the
    slot changed hands. The rectangle to be restored has to be held as well.
  * `LogShownAsWritten`. Each number is claimed once, and whoever is still writing
    into the cell of a later number is mixed with it (`Claims`); the cell of a line
    that is neither mixed nor claimed again holds it as far as it is written
    (`Written`); and what the viewer has copied of such a line is what the cell
    still holds (`Viewed`).
  * `KernelBootsWholeOrNot`, for images, lists and memories of any size. Pages,
    lists and trampoline are all in different places (`Apart`); an image that is
    read has room for its lists (`Listable`), which hold the addresses of its pages
    (`Built`); while it is copied, and nothing that is still needed lies where it
    does harm, the pages copied are in place and those to come can be found
    (`Copied`). What a failed start holds is what it gives back (`GivenBack`).
* **`LinkBackendsProofs`**: `FramesSentWhole`, `PollersInStep`,
  `ConsoleGetsPortBack`, `BackendCallsApart`, for rings, buffers and frames of any
  size. The centre is `Laid`: the frames lie one behind the other from the reader's
  position on, modulo the length of the ring. Adding one at the end and dropping one
  at the front keep that (`LaidAppend`, `LaidDrop`), for both adapters. For the
  Broadband Adapter the driver's position is that of the first frame or, between
  its two stores, of the next (`Reader`), and the descriptors from the chip's on
  hold the frames that are due (`Handed`), the one being copied excepted (`Copied`).
  `Apart` is the critical section: in the backend whoever is in the driver owns it.
  For the W5500 a poll that is under way has read lengths that end where a frame
  ends (`Polling`). The two transmit positions are apart by what is due, frames of lost
  `SEND`s included (`Due`), the cells between them hold it unit for unit (`TxUnit`),
  and a frame being written lies beyond them (`Written`, `Ahead`), all in
  `W5Sending`. `SpiInv` says that what the probe saved of the console is what the
  console had.
* **`NetifProofs`**, about the tables of the link adapter:
  * `DhcpTypes`, `ArpForTheAddressInUse`, `DnsTypes`, `DnsNeverAppends`,
    `DnsDialTakesEntry`. For `DnsNeverAppends` the invariant says that until two
    calls overlap one thread at most is inside, that the revival server stands
    nowhere but at the head (`HeadOnly`), and for each line of the call which cells
    are already free of it and what the register copy of the number is
    (`Progress`). `DnsDialTakesEntry` needs a revival server to be configured, and
    holds after overlaps as well: `Served` follows a call that is alone from
    whatever the list was when it began.
  * `LinkTablesTypes`, `OneSlot`, `DatagramsToNextHop`, `RepliesRestored`. For
    `OneSlot` the invariant adds that no slot but the one in hand holds the host
    that is being entered (`Unclaimed`). For `DatagramsToNextHop`, until a host is
    evicted: each used slot has the hardware address of its host, the worker has
    stored what its place says, and a sender that copies has found its next hop in a
    slot in use, which stays so (`Settled`). For `RepliesRestored`: once the target
    is set, the source has been stored (`Translation`).
* **`StorageProofs`**: `CountFollows`, that the count of free clusters is that of the
  FAT after any sequence of calls, on a card of any size, until a call to the card
  fails or the power goes. The FAT is what the window and the card show together
  (`Link`). The invariant, `CountingInv`, says that a volume is as it was before the
  first call (`Fresh`) or mounted and counted (`Mounted`); both say what makes the
  window transparent (`Good`): a sector of the FAT is a table on the card and in the
  window, and the two agree unless the window is dirty. Each operator of `FatFs`
  then has a lemma. Those that move the window change no link (`Steady`), a release
  counts one link that has become 0 and an allocation one that was 0
  (`FreeLinkKeeps`, `AllocateKeeps`), and a loop keeps what each of its turns keeps
  (`RunKeeps`). A call that ends early, on a full card or at a wrong link, keeps the
  count too. The one assumption about the card is that the file it may hold at the
  start fits on it. The module also has the lemmas about chains that the next one
  rests on.
* **`StorageOrderProofs`**: `ChainsStayApart`, that two names on the card never share a
  cluster, and `SearchMissesNone`, that a search lists every name that was there all
  along; both for a card of any size, any number of files, any sequence of calls,
  failing calls to the card and power cuts between any two sectors written, up to
  the four known gaps (`Sound`). The argument:
  * `Chain` is a walk, a recursive function over its turns. The proof goes by the
    least set that has the first cluster and that no link leaves (`Reach`);
    `ChainOrdered` says that the walk lists that set, each cluster once, as long as no
    two links meet and none leads to a free cluster (`NoJoins`, `NoGaps`). A set may
    be compared before and after a store, with no induction: a link that is cut, set
    or added changes the sets that pass it, and no other (`ReachCut`, `ReachLonger`,
    `ReachSame`).
  * `Sane(d, X)` says what makes a card sound: its FAT, the entries of its table,
    and that names outside `X` lead to chains of their own, no two to one and none
    to that of the table. `X` are the names truncated to nothing whose entries are
    still due.
  * `Cards(v, X)` says so of a call under way: of the card as the call sees it, which
    is the card with the window over it (`View`), of the card without the window, and
    of every card on the way (`io`), since the power may go after each. The window
    holds one sector, so two cards in a row differ in one sector. That is where the
    order of writes of `ff.c` is used: a cluster is marked taken before anything is
    linked to it or an entry points at it, and an entry goes before its clusters are
    freed. Each operator of `FatFs` keeps this.
  * A call on names is `Turned`: the other names keep what they have, no chain is
    given to two, and the table at most grows. A call on an open file is `Done`: the
    other files keep theirs, and the clusters that its entry and the open file know
    are in no other file (`FileOK`, `Alone`). Both hold also when the call stops at a
    sector.
  * `OrderInv` is inductive: the volume, with its open files and the search, is in
    order wherever `Sound` says that the code can be relied on (`VolumeInOrder`,
    `Orderly`); the card by itself is sound except after a rename that was cut short
    (`CardInOrder`); and after a power cut nothing is promised of a name that is
    marked as cut (`CutMarked`). `OrderIsApart` and `OrderLists` go back from sets to
    the sequences of `ChainsApart` and `ListsAll`.

  The proof attempt is what found `Stray`: `f_truncate` frees the cluster of the
  file's buffer first and writes the buffer afterwards, so that a failure in between
  leaves the buffer due for a cluster that is free.

Where a proof has to count, it uses that a set of natural numbers has a smallest
element (`SmallestNat`); the induction theorems of the library take an operator,
which the provers cannot instantiate.

Only model-checked: liveness under fairness, which is out of the prover's reach
(`LastFrameShown`, `EveryPushIsPolled`, `CloseAnswered`, `GhostsReaped`,
`LatestServed`, `ResizeDrawn`, `Settles`, `BsodGoesAway`, `ComesUp`,
`ResolvedInTheEnd`, `Drains`), and two invariants of `Storage`: `SyncedSurvives` and
`ReadsBack`. They speak of the contents of files along a chain, `SyncedSurvives` on
every card that a call leaves on its way: a proof would need, beside the lemmas on
chains, what each operator of `FatFs` leaves in every cluster.

## 5. Where the code and its comments disagree

The runs marked *violated* are the disagreements; `findings` in `PROJECT.json`
quotes the lines. Each counterexample was followed in the source.

| run | what the code does |
|---|---|
| `WinSlots_claim` | two applications claim one slot: the scan of `DCWinOpen` and the claim are separate |
| `WinSlots_reuse` | the flags of a slot are reset only if the shell polls while the slot is free |
| `WinResize_log` | `DCWinResized` says no after a resize that `DCWinClientSize` has seen; `shell/dcwlib.h:42` says it reports every resize since the last frame |

Other behaviours that show in the models and have no run: two launch requests posted
between two polls are served as one (`Mailbox`), a drag can end on another icon and
hover is off under a menu (`DeskIcons`), keys held at a hand-back and the L trigger
chord (`InputPath`), replies meant for others (`DhcpClient`), overlapping rewrites
of the list (`DnsList`; `net/netif/netif.c:804` calls it safe to call repeatedly,
which it is one call at a time), eviction from the ARP cache (`LinkTables`), and
those listed under `LinkBackends`, `Storage`, `SysLog`, `NetTester`, `Player` and
`Boot` in section 2.

## 6. Not modelled

* Of the link adapter: `DnsFlatten`, the checksums and the bytes of packets, the
  hand-over of datagrams to microstk. They work on one packet in one thread; a test
  with a list of packets reaches them.
* Of the shell: the Display dialog, the wallpaper and all drawing. The dialog is
  modal and single-threaded, and its choice is saved as the shortcuts are. Failures
  of the VMU are ignored by the code, so nothing is promised about them.
* Of the input layer: hotplug, the motion of the cursor, hotkeys, the raw edges kept
  for the browser.
* Explorer, Task manager, Calculator, Clock and Memory tester: sequential programs
  with state of their own. What they do to others is in `WinSlots` (End Task is
  `Die`), `Storage` and `WinResize` (their redraw loops).
* The browser: COM objects whose other half is not in the repository decide the
  order of its calls.
* FatFs beyond FAT32 with short names: long names, code pages, formatting, FAT12 and
  FAT16. The bytes of the card protocol and their checksums, which are never
  checked.
* `flashrom.c` (sequential and read-only), the lwIP port (headers that no code
  uses), lwIP itself, the build scripts.

What would come next, in this order: proofs of `SyncedSurvives` and `ReadsBack`, on top
of `OrderInv`; the refinement of `Storage` to an abstract store of whole files;
`DnsFlatten` with a reference definition; and the Display dialog.
