------------------------------- MODULE KeyRing -------------------------------
(***************************************************************************)
(* The input ring of one DCWin window.  The shell pushes a key for the     *)
(* focused window (OnKey) or a context request for the window under the    *)
(* cursor (VK_APPS) without looking whether the ring is full; the client   *)
(* takes keys out with DCWinPollKey.  A push runs to its end before any    *)
(* client does, a poll can be cut by pushes between any two of its loads   *)
(* and stores.  inHead and inTail are DWORDs; their wrap-around is benign  *)
(* (DCWIN_MAXIN divides 2^32), so they are plain numbers here.             *)
(***************************************************************************)
EXTENDS Integers, Sequences

CONSTANTS Key,       \* virtual-key codes
          NoKey,     \* what memset leaves in a ring cell
          MAXIN,     \* DCWIN_MAXIN
          MaxPush    \* bound: keys pushed in one behaviour

ASSUME KeyRingAssumption ==
  MAXIN \in Nat \ {0} /\ MaxPush \in Nat /\ NoKey \notin Key

VARIABLES in, inHead, inTail,   \* the ring, in the shared slot
          pc, key,              \* DCWinPollKey: where it is, the key it read
          pushed, got,          \* history: keys pushed, keys handed to the app
          overrun               \* history: was the ring ever more than full?

ringVars == <<in, inHead, inTail, pc, key, pushed, got, overrun>>

RingInit ==
  /\ in = [c \in 0..MAXIN - 1 |-> NoKey] /\ inHead = 0 /\ inTail = 0
  /\ pc = "idle" /\ key = NoKey
  /\ pushed = <<>> /\ got = <<>> /\ overrun = FALSE

Cell(n) == n % MAXIN

\* OnKey's forward to the focused window, and the VK_APPS forward.
Push(k) ==
  /\ Len(pushed) < MaxPush
  /\ in' = [in EXCEPT ![Cell(inHead)] = k] /\ inHead' = inHead + 1
  /\ pushed' = Append(pushed, k)
  /\ overrun' = (overrun \/ inHead + 1 - inTail > MAXIN)
  /\ UNCHANGED <<inTail, pc, key, got>>

\* Mutant: the usual test of a ring that must never be full.
PollCheckModulo ==
  /\ pc = "idle" /\ Cell(inTail) # Cell(inHead)
  /\ pc' = "read"
  /\ UNCHANGED <<in, inHead, inTail, key, pushed, got, overrun>>
\* if (inTail == inHead) return 0
PollCheck ==
  /\ pc = "idle" /\ inTail # inHead
  /\ pc' = "read"
  /\ UNCHANGED <<in, inHead, inTail, key, pushed, got, overrun>>

\* Mutant: the newest key instead of the oldest.
PollReadNewest ==
  /\ pc = "read"
  /\ key' = in[Cell(inHead - 1)] /\ pc' = "advance"
  /\ UNCHANGED <<in, inHead, inTail, pushed, got, overrun>>
PollRead ==
  /\ pc = "read"
  /\ key' = in[Cell(inTail)] /\ pc' = "advance"
  /\ UNCHANGED <<in, inHead, inTail, pushed, got, overrun>>

PollAdvance ==
  /\ pc = "advance"
  /\ inTail' = inTail + 1 /\ got' = Append(got, key) /\ pc' = "idle"
  /\ UNCHANGED <<in, inHead, key, pushed, overrun>>

PollKey == PollCheck \/ PollRead \/ PollAdvance

RingNext == (\E k \in Key : Push(k)) \/ PollKey

\* Every client polls its keys in each turn of its loop.
RingSpec == RingInit /\ [][RingNext]_ringVars /\ WF_ringVars(PollKey)
-----------------------------------------------------------------------------
RingTypeOK ==
  /\ in \in [0..MAXIN - 1 -> Key \cup {NoKey}]
  /\ inHead \in Nat /\ inTail \in Nat
  /\ pc \in {"idle", "read", "advance"} /\ key \in Key \cup {NoKey}
  /\ pushed \in Seq(Key) /\ got \in Seq(Key) /\ overrun \in BOOLEAN

\* As long as the ring has never held more than MAXIN unread keys, the app gets
\* the keys in the order they were pressed, each once and none left out, however
\* pushes fall between the steps of a poll.
InOrderUntilOverrun ==
  ~overrun => /\ Len(got) <= Len(pushed)
              /\ \A i \in 1..Len(got) : got[i] = pushed[i]

\* Whatever is lost, the ring holds the last MAXIN keys pressed.
HoldsNewest ==
  \A n \in 0..Len(pushed) - 1 :
    n >= inHead - MAXIN => in[Cell(n)] = pushed[n + 1]

\* The app makes as many polls that return a key as there were pushes, even
\* across an overrun: none of them waits in the ring for good.
EveryPushIsPolled ==
  \A n \in 1..MaxPush : Len(pushed) >= n ~> Len(got) >= n
=============================================================================
