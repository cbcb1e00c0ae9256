CONSTANTS
  Slices = {s1}
  Names = {c1, c2, c3}
  VPN = VPN
  CIDRInputs <- MC_CIDRInputsAddr23
  CIDRSizes <- MC_CIDRSizesAddr
  Contexts <- MC_Contexts
  MaxPrefix <- MC_MaxPrefixAddr
SPECIFICATION Spec
INVARIANTS NoAddressDoublyBooked FreeSorted
PROPERTIES ReclaimFreesRoom
