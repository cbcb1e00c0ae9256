CONSTANTS
  Slices = {s1}
  Names = {c1}
  VPN = VPN
  Threads = {t1, t2}
  MaxCalls = 1
  None = None
  CIDRInputs <- MC_CIDRInputs
  CIDRSizes <- MC_CIDRSizes
  MaxPrefix <- MC_MaxPrefix
SPECIFICATION Spec
PROPERTY AllCallsReturn
\* A goroutine blocked for ever on a.mu leaves no step enabled; the
\* liveness property, not the deadlock check, is what this run asks about.
CHECK_DEADLOCK FALSE
