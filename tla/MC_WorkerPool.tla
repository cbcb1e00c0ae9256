--------------------------- MODULE MC_WorkerPool ---------------------------
(***************************************************************************)
(* Allocate of worker_slice_ipam.go as a pure operator: the call           *)
(* InitializePool makes on the fresh pool it has just registered (line    *)
(* 84), for slice subnets large enough for a /24.  In that file the call  *)
(* never gets past a.mu (run worker_deadlock); this run says what it      *)
(* would return once it did.                                               *)
(***************************************************************************)
EXTENDS Integers, Sequences

VARIABLES x  \* the slice subnet, in /25 units

W == INSTANCE WorkerSliceIPAM
       WITH Slices <- {}, Names <- {}, VPN <- "KubeSlice-VPN-Reserved-Subnet",
            CIDRInputs <- {}, CIDRSizes <- {}, MaxPrefix <- 25, Threads <- {},
            MaxCalls <- 0, None <- "None", pools <- x, amu <- x, pmu <- x,
            pc <- x, call <- x, stack <- x, res <- x, calls <- x

\* 10.20.0.0 in /25 units.
Base == (10 * 2^24 + 20 * 2^16) \div 2^7

\* "10.20.0.0/16", "10.20.0.0/22" and "10.20.0.0/24", as ParseCIDR returns them.
Init == x \in {[ip |-> Base, bits |-> b] : b \in {16, 22, 24}}
Spec == Init /\ [][UNCHANGED x]_x

\* "Reserve a /24 subnet for VPN usage within the slice" (line 81): on the
\* fresh pool InitializePool builds for a slice of /24 or larger, the
\* nested Allocate(..., 24) succeeds with a /24.  About first fit comparing
\* Mask.Size()'s second result with the requested prefix.
VPNReservationFits ==
  LET out == W!WAllocatePool([subnet |-> x, allocated |-> << >>, free |-> << x >>],
                             "KubeSlice-VPN-Reserved-Subnet", W!WVPNPrefix)
  IN /\ out.err = "ok"
     /\ out.pool.allocated["KubeSlice-VPN-Reserved-Subnet"].bits = W!WVPNPrefix
=============================================================================
