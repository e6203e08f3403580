\* A gateway and two hosts for two slots, so that hosts are evicted; two dead servers.
CONSTANTS
  ARP_N = 2
  Hosts = {g, h1, h2}
  Gateway = g
  Dead = {d1, d2}
  Master = master
  NoIp = NoIp
  Senders = {t1}
SPECIFICATION Spec
INVARIANT SentToNextHop
PROPERTIES ReplyFromDialled ResolvedInTheEnd
