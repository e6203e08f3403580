---------------------------- MODULE LinkBackends ----------------------------
(***************************************************************************)
(* The adapters composed: InterfaceInitialize probes the W5500, over one   *)
(* serial port after the other, then the Broadband Adapter, and brings up  *)
(* the first one that it finds; a failure there leaves the null link, and  *)
(* without any adapter the modem driver takes over (netif.c).  The stand-  *)
(* alone driver bba.c is a machine of its own.                             *)
(***************************************************************************)
EXTENDS BbaLink, W5Link

VARIABLE link  \* s_pLink: "probing", "w5500", "bba", "null", "modem"; or "standalone"

vars == <<link, bbaVars, w5Vars>>

Init ==
  /\ BbaInit /\ W5Init
  /\ link = IF Locked THEN "probing" ELSE "standalone"
  /\ ~Locked => retail /\ probe = <<>>

\* W5500Probe, and W5500Init if it was found: if that fails the other adapter is not
\* looked for.
ProbeW5500 ==
  /\ link = "probing" /\ W5Start
  /\ link' = CASE W5Up' -> "w5500"
               [] ~W5Up' /\ probe' = <<>> /\ bus' # "none" -> "null"
               [] OTHER -> "probing"
  /\ UNCHANGED bbaVars

\* BbaProbe and BbaInit.  The adapter does not depend on what the probes of the serial
\* ports left behind, so it is followed from one such state only.
ProbeBba ==
  /\ link = "probing" /\ probe = <<>>
  /\ \/ BbaBringup /\ link' = "bba" /\ retail /\ sci = "off"
     \/ link' \in {"null", "modem"} /\ UNCHANGED bbaVars
  /\ UNCHANGED w5Vars
Standalone == link = "standalone" /\ BbaBringup /\ UNCHANGED <<link, w5Vars>>

RunBba == link \in {"bba", "standalone"} /\ BbaRuns /\ UNCHANGED <<link, w5Vars>>
RunW5500 == link = "w5500" /\ W5Runs /\ UNCHANGED <<link, bbaVars>>

Next == ProbeW5500 \/ ProbeBba \/ Standalone \/ RunBba \/ RunW5500

\* InterfaceInitialize goes on to its end.
Spec ==
  /\ Init /\ [][Next]_vars
  /\ WF_vars(ProbeW5500 \/ ProbeBba) /\ BbaFairness /\ W5Fairness
-----------------------------------------------------------------------------
\* A frame leaves either adapter whole and in the order of the calls, unless a descriptor
\* was reused too early, or two transmissions overlapped where no lock keeps them apart
\* (BbaTx, W5500Tx).
SendsWhole == BbaSendsWhole /\ W5SendsWhole

\* Between two polls driver and chip agree where the next frame starts, across the end of
\* the ring, the wrap of a register and a reset: otherwise nothing is ever received again
\* (BbaRxPoll, W5500RxPoll).
InStep == BbaInStep /\ W5InStep

\* What was received is taken out of the adapter in the end, whatever else is transmitted
\* (NetWorker).
Drains ==
  []<>(/\ link = "bba" => ring = <<>> \/ bpc["worker"] = "rxtail"
       /\ link = "w5500" => clash \/ rxq = <<>> \/ wpc[Worker] = "rxrecv")
=============================================================================
