------------------------ MODULE MC_WorkerSliceIPAM ------------------------
(* Instantiates WorkerSliceIPAM for TLC, in /25 units as MC_IPAMAllocator: *)
(* the slice "10.20.0.0/22" or the invalid "10.20.0.0/33".                 *)
EXTENDS WorkerSliceIPAM

MC_MaxPrefix == 25

\* 10.20.0.0 in /25 units.
Base == (10 * 2^24 + 20 * 2^16) \div 2^7

MC_CIDRInputs == {[ip |-> Base, bits |-> 22], [ip |-> Base, bits |-> 33]}

MC_CIDRSizes == {24, 25}
=============================================================================
