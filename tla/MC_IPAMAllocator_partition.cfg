CONSTANTS
  Slices = {s1}
  Names = {c1, c2, c3}
  VPN = VPN
  CIDRInputs <- MC_CIDRInputs
  CIDRSizes <- MC_CIDRSizes
  Contexts <- MC_Contexts
  MaxPrefix <- MC_MaxPrefix
SPECIFICATION Spec
INVARIANT CIDRsPartitionSubnet
