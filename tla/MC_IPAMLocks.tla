--------------------------- MODULE MC_IPAMLocks ---------------------------
(* Instantiates IPAMLocks for TLC: two goroutines making two calls each    *)
(* on two slices, initialised from 10.20.0.0/23 in units of /25.  The VPN *)
(* /24 leaves one /24 for the clusters, so calls contend for its blocks.  *)
EXTENDS IPAMLocks

MC_MaxPrefix == 25

\* 10.20.0.0 in /25 units.
Base == (10 * 2^24 + 20 * 2^16) \div 2^7

\* "10.20.0.0/23", "10.20.0.0/25" (too small for the VPN /24) and
\* "10.20.0.0/33" (rejected by ParseCIDR).
MC_CIDRInputs == {[ip |-> Base, bits |-> 23], [ip |-> Base, bits |-> 25],
                  [ip |-> Base, bits |-> 33]}

MC_CIDRSizes == {24, 25}

\* A live context.
MC_Contexts == {"Background"}

=============================================================================
