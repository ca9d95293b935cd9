SPECIFICATION Spec
CONSTANTS
  near = near
  far = far
  h1 = h1
  h2 = h2
  Platforms = {near, far}
  HostsOf <- Nodes
  TwoFactor = {}
  Accepts <- Ways
  Limits = {0, 3}
  Faults = {"sftp", "spawn", "child", "scratch", "unheard", "rejected", "syntax", "list"}
  MaxFaults = 1
INVARIANTS
  OneLogProcess
PROPERTIES
  LostIsRepaired
  RecoveriesEnd
