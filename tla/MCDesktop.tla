------------------------------ MODULE MCDesktop ------------------------------
(***************************************************************************)
(* What runs beside the exchange between programs and shell: the shell's   *)
(* shortcuts (DeskIcons) and the place of a window (WinGeometry), the      *)
(* system log (SysLog), the audio player (Player), the boot chooser (Boot) *)
(* and the name servers that programs put in use when they dial (DnsList). *)
(* They share no variable, so a behaviour follows one of them.             *)
(***************************************************************************)
EXTENDS DeskIcons, WinGeometry, SysLog, Player, Boot, DnsList

VARIABLE part     \* the one that is followed

\* The rectangles programs open with.
MCOpens == {[x |-> 1, y |-> 4, w |-> 6, h |-> 3], [x |-> 0, y |-> 4, w |-> 12, h |-> 4]}

\* An entry of the phone book lists two name servers; the longest list of DHCP fills the
\* array.
MCUserDns    == {<<1, 2>>}
MCDhcpDns    == {<<3>>, <<3, 4, 5>>}
MCLastResort == <<6>>

DesktopInit ==
  /\ part \in {"icons", "window", "log", "player", "boot", "names"}
  /\ IconsInit /\ GeometryInit /\ LogInit /\ PlayerInit /\ BootInit /\ DnsInit
  /\ part # "player" => isMp3 /\ step = ONE
  /\ part # "window" => rect = CHOOSE r \in Opens : TRUE

DesktopNext ==
  \/ /\ part = "icons" /\ IconsNext
     /\ UNCHANGED <<geometryVars, logVars, playerVars, bootVars, dnsVars, part>>
  \/ /\ part = "window" /\ GeometryNext
     /\ UNCHANGED <<iconVars, logVars, playerVars, bootVars, dnsVars, part>>
  \/ /\ part = "log" /\ LogNext
     /\ UNCHANGED <<iconVars, geometryVars, playerVars, bootVars, dnsVars, part>>
  \/ /\ part = "player" /\ PlayerNext
     /\ UNCHANGED <<iconVars, geometryVars, logVars, bootVars, dnsVars, part>>
  \/ /\ part = "boot" /\ BootNext
     /\ UNCHANGED <<iconVars, geometryVars, logVars, playerVars, dnsVars, part>>
  \/ /\ part = "names" /\ DnsNext
     /\ UNCHANGED <<iconVars, geometryVars, logVars, playerVars, bootVars, part>>

DesktopSpec ==
  DesktopInit
  /\ [][DesktopNext]_<<iconVars, geometryVars, logVars, playerVars, bootVars, dnsVars, part>>
=============================================================================
