CONSTANTS
  Slices = {s1, s2}
  Names = {c1, c2}
  VPN = VPN
  Threads = {t1, t2}
  MaxCalls = 2
  None = None
  CIDRInputs <- MC_CIDRInputs
  CIDRSizes <- MC_CIDRSizes
  Contexts <- MC_Contexts
  MaxPrefix <- MC_MaxPrefix
SPECIFICATION Spec
PROPERTIES AllCallsReturn AbstractSpec
