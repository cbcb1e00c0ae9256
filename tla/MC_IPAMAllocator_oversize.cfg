CONSTANTS
  Slices = {s1}
  Names = {c1, c2, c3}
  VPN = VPN
  CIDRInputs <- MC_CIDRInputsAddr
  CIDRSizes <- MC_CIDRSizesOversize
  Contexts <- MC_Contexts
  MaxPrefix <- MC_MaxPrefixAddr
SPECIFICATION Spec
INVARIANT NoAddressDoublyBooked
