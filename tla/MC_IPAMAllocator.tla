------------------------- MODULE MC_IPAMAllocator -------------------------
(* Instantiates IPAMAllocator for TLC.  Addresses are in units of /25      *)
(* (128 addresses).  The slice 10.20.0.0/22 holds eight units: the VPN /24 *)
(* takes two and leaves room for every mix of /23, /24 and /25 requests.   *)
EXTENDS IPAMAllocator

MC_MaxPrefix == 25

\* 10.20.0.0 in /25 units.
Base == (10 * 2^24 + 20 * 2^16) \div 2^7

\* "10.20.0.0/22", the non-canonical "10.20.1.0/22", "10.20.0.0/25" (too
\* small for the VPN /24) and "10.20.0.0/33" (rejected by ParseCIDR).
MC_CIDRInputs == {[ip |-> Base, bits |-> 22], [ip |-> Base + 2, bits |-> 22],
                  [ip |-> Base, bits |-> 25], [ip |-> Base, bits |-> 33]}

\* Larger than the slice, the whole slice, and the three sizes inside it.
MC_CIDRSizes == {21, 22, 23, 24, 25}

\* A live context (ctx is never read).
MC_Contexts == {"Background"}

\* Single-address units, for requests above /32: the slice "10.20.0.0/28"
\* (too small for the VPN /24, so the pool is left without it) and the
\* request sizes /30, /32 and the unvalidated /33.  In the split loop of a
\* fit with a nil mask the cursor passes 2^31, but NetContains never reads
\* it, as Contains never looks at it in the code.
MC_MaxPrefixAddr == 32
AddrBase == 10 * 2^24 + 20 * 2^16
MC_CIDRInputsAddr == {[ip |-> AddrBase, bits |-> 28]}
MC_CIDRSizesOversize == {30, 32, 33}

\* The same address scale with valid sizes only: "10.20.0.0/23" (the VPN /24
\* and one /24 left) and requests down to a single address.
MC_CIDRInputsAddr23 == {[ip |-> AddrBase, bits |-> 23]}
MC_CIDRSizesAddr == {24, 31, 32}
=============================================================================
