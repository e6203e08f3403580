------------------------------ MODULE Mailbox ------------------------------
(***************************************************************************)
(* The two one-message mailboxes of the shared section.  An app asks the   *)
(* shell to launch a program (DCWinExec: execPath, then execSeq++), and a  *)
(* faulting app reports itself (DCWinCrashFilter: the fields of DcCrash,   *)
(* then crash.seq++).  The shell looks at the sequence number once in each *)
(* iteration and takes the message if the number has changed.              *)
(*                                                                         *)
(* Any app may write, nothing serialises them, and seq++ is a load and a   *)
(* store.  The shell preempts the writers between any two steps; it copies *)
(* the message in one step, because no writer runs while it does.          *)
(***************************************************************************)
EXTENDS Integers, Sequences

CONSTANTS Writers,    \* the apps that use the mailbox
          NFIELDS,    \* in how many parts a message is written
          MaxPost     \* bound: posts of one app

ASSUME MailboxAssumption == NFIELDS \in Nat \ {0} /\ MaxPost \in Nat

VARIABLES box, seq,           \* the message and its number, in the section
          at, field, reg, n,  \* an app: where it is, the part it writes next,
                              \* the seq it loaded, how often it has posted
          last, taken,        \* the shell: s_dwLastExec or s_dwCrashSeq, and
                              \* what it has taken so far
          posts, newest,      \* history: how many posts there have been, the
          overlap             \* message of the latest, did two ever overlap?

writer  == <<at, field, reg, n>>
history == <<posts, newest, overlap>>
mailVars    == <<box, seq, writer, last, taken, history>>

Fields   == 1..NFIELDS
Messages == Writers \X (1..MaxPost)
NoMsg    == <<>>

MailInit ==
  /\ box = [f \in Fields |-> NoMsg] /\ seq = 0
  /\ at = [w \in Writers |-> "idle"] /\ field = [w \in Writers |-> 1]
  /\ reg = [w \in Writers |-> 0] /\ n = [w \in Writers |-> 0]
  /\ last = 0 /\ taken = <<>>
  /\ posts = 0 /\ newest = NoMsg /\ overlap = FALSE

Begin(w) ==
  /\ at[w] = "idle" /\ n[w] < MaxPost
  /\ at' = [at EXCEPT ![w] = "write"] /\ field' = [field EXCEPT ![w] = 1]
  /\ overlap' = (overlap \/ \E v \in Writers : at[v] # "idle")
  /\ UNCHANGED <<box, seq, reg, n, last, taken, posts, newest>>

\* Mutant: the number changes before the message is complete.
WriteFirst(w) ==
  /\ at[w] = "write"
  /\ box' = [box EXCEPT ![1] = <<w, n[w] + 1>>]
  /\ at' = [at EXCEPT ![w] = "load"]
  /\ UNCHANGED <<seq, field, reg, n, last, taken, history>>
\* One part of execPath, or one field of DcCrash.
WriteField(w) ==
  /\ at[w] = "write"
  /\ box' = [box EXCEPT ![field[w]] = <<w, n[w] + 1>>]
  /\ IF field[w] < NFIELDS
       THEN field' = [field EXCEPT ![w] = @ + 1] /\ UNCHANGED at
       ELSE at' = [at EXCEPT ![w] = "load"] /\ UNCHANGED field
  /\ UNCHANGED <<seq, reg, n, last, taken, history>>

LoadSeq(w) ==
  /\ at[w] = "load"
  /\ reg' = [reg EXCEPT ![w] = seq] /\ at' = [at EXCEPT ![w] = "store"]
  /\ UNCHANGED <<box, seq, field, n, last, taken, history>>

\* Mutant: the number toggles instead of growing.
StoreToggled(w) ==
  /\ at[w] = "store"
  /\ seq' = 1 - reg[w] /\ n' = [n EXCEPT ![w] = @ + 1] /\ posts' = posts + 1
  /\ newest' = <<w, n[w] + 1>> /\ at' = [at EXCEPT ![w] = "idle"]
  /\ UNCHANGED <<box, field, reg, last, taken, overlap>>
StoreSeq(w) ==
  /\ at[w] = "store"
  /\ seq' = reg[w] + 1 /\ n' = [n EXCEPT ![w] = @ + 1] /\ posts' = posts + 1
  /\ newest' = <<w, n[w] + 1>> /\ at' = [at EXCEPT ![w] = "idle"]
  /\ UNCHANGED <<box, field, reg, last, taken, overlap>>

\* The poll, with the copy of the message.
Take ==
  /\ seq # last
  /\ last' = seq /\ taken' = Append(taken, box)
  /\ UNCHANGED <<box, seq, writer, history>>

Post(w) == WriteField(w) \/ LoadSeq(w) \/ StoreSeq(w)

MailNext == (\E w \in Writers : Begin(w) \/ Post(w)) \/ Take

\* The shell polls in every iteration, and an app ends what it has begun.
MailFairness == WF_mailVars(Take) /\ \A w \in Writers : WF_mailVars(Post(w))

MailSpec == MailInit /\ [][MailNext]_mailVars

FairMailSpec == MailSpec /\ MailFairness
-----------------------------------------------------------------------------
MailTypeOK ==
  /\ box \in [Fields -> Messages \cup {NoMsg}] /\ seq \in Nat
  /\ at \in [Writers -> {"idle", "write", "load", "store"}]
  /\ field \in [Writers -> Fields] /\ reg \in [Writers -> Nat]
  /\ n \in [Writers -> 0..MaxPost]
  /\ last \in Nat /\ posts \in Nat
  /\ newest \in Messages \cup {NoMsg} /\ overlap \in BOOLEAN
  /\ taken \in Seq([Fields -> Messages \cup {NoMsg}])

\* The shell never takes a message more often than messages were posted: no
\* program is launched, and no blue screen raised, twice for one request,
\* although a late store can set the number back.
TakesAtMostPosts == Len(taken) <= posts

Whole(m) == [f \in Fields |-> m]

\* As long as no two apps post at the same time, what the shell takes is one
\* whole message, unless it takes it from under the hands of an app that writes.
WholeUnlessOverlap ==
  [][taken' # taken => \/ overlap \/ \E w \in Writers : at[w] = "write"
                       \/ \E m \in Messages : box = Whole(m)]_mailVars

Served(m) == \E i \in DOMAIN taken : taken[i] = Whole(m)

\* As long as no two apps post at the same time, the latest message is taken in
\* the end or another one comes after it: the mailbox never falls asleep.
LatestServed ==
  \A m \in Messages : newest = m ~> (Served(m) \/ newest # m \/ overlap)
=============================================================================
