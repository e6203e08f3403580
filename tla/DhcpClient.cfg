\* One server with two addresses for this machine, and one other machine.
CONSTANTS
  Servers = {s1}
  Ours = {a, b}
  Theirs = {c}
  NoAddr = NoAddr
  MaxCalls = 2
  MaxNet = 3
SPECIFICATION DhcpSpec
INVARIANT ArpAnswersForIt
PROPERTY ComesUp
