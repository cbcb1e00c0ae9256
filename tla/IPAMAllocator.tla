--------------------------- MODULE IPAMAllocator ---------------------------
(***************************************************************************)
(* DynamicIPAMAllocator of src/service/service_ipam_allocation.go.         *)
(*                                                                         *)
(* The allocator is a map from slice name to sliceIPPool.  Every public    *)
(* operation holds the registry mutex a.mu for its whole duration (defer   *)
(* a.mu.Unlock()) and the pool mutex inside it, so the operations of one   *)
(* allocator are serialised and each is one atomic step here.             *)
(*                                                                         *)
(* A CIDR block is a record [ip, bits].  Addresses are counted in units of *)
(* 2^(32-MaxPrefix) IPv4 addresses: every address the code computes is a   *)
(* sum of block sizes of prefix <= MaxPrefix, so the low bits below the    *)
(* unit are always zero.  The 32-bit width is kept: incIP drops the carry  *)
(* out of the top byte, which is addition modulo AddrSpace.                *)
(***************************************************************************)
EXTENDS Integers, Sequences, SequencesExt, TLC

CONSTANTS
  Slices,      \* slice names
  Names,       \* cluster names callers pass to Allocate and Reclaim
  VPN,         \* the cluster name "VPN_Subnet" InitializePool reserves
  CIDRInputs,  \* sliceSubnetStr arguments of InitializePool, as [ip, bits]
  CIDRSizes,   \* requiredCIDRSize arguments of Allocate
  Contexts,    \* ctx arguments of Allocate and Reclaim (never read)
  MaxPrefix    \* finest prefix length modelled (one address unit)

VPNPrefix == 24          \* vpnSubnetRequiredSize
AddrSpace == 2^MaxPrefix \* the IPv4 address space, in units

\* A quarter of the address space: TLC's integers stop at 2^31 - 1, so the
\* width test below divides by it rather than forming 2^32.
Quarter == 2^(MaxPrefix - 2)

\* Requests above 32 are only meaningful at single-address units.
ASSUME /\ MaxPrefix \in VPNPrefix..32
       /\ CIDRSizes \subseteq (0..MaxPrefix) \cup {r \in 33..64 : MaxPrefix = 32}
       /\ \A c \in CIDRInputs : c.ip >= 0 /\ c.ip \div Quarter < 4
                                /\ c.bits \in (0..MaxPrefix) \cup {33}

VARIABLES
  pools,  \* a.pools: a function from the registered slice names to pools
  ret     \* the outcome of the last public call: [op, slice, ctx, err]

vars == <<pools, ret>>

-----------------------------------------------------------------------------
(* CIDR arithmetic                                                         *)

\* Number of units in a block of prefix length bits: 1 << uint(32 - bits),
\* which is 0 when bits > 32 (the uint conversion makes the shift huge).
BlockSize(bits) == IF bits > 32 THEN 0 ELSE 2^(MaxPrefix - bits)

\* net.CIDRMask(bits, 32) is nil for bits > 32; a block keeps the length it
\* was built with, and Mask.Size() reads 0 ones from a nil mask.
Ones(b) == IF b.bits > 32 THEN 0 ELSE b.bits

\* incIP: byte-wise add with carry; the carry out of byte 0 is lost, so the
\* sum wraps at AddrSpace = 4 * Quarter.
IncIP(ip, n) == IF (ip + n) \div Quarter < 4 THEN ip + n ELSE ip + n - 4 * Quarter

\* ip.Mask(net.CIDRMask(bits, 32)): clear the host bits.
MaskIP(ip, bits) == ip - (ip % BlockSize(bits))

\* (*net.IPNet).Contains compares the masked address with the masked
\* network number, so a block is read as the aligned block its mask names.
\* A nil mask contains nothing.
NetContains(net, ip) == net.bits <= 32 /\ MaskIP(ip, net.bits) = MaskIP(net.ip, net.bits)

\* net.ParseCIDR: a prefix above 32 is an error; the result is canonical.
ParseOK(cidr) == cidr.bits <= 32
ParseCIDR(cidr) == [ip |-> MaskIP(cidr.ip, cidr.bits), bits |-> cidr.bits]

\* compareIPNets(a, b) < 0: address first; at equal address the smaller
\* block (larger prefix length) first.
LessNet(a, b) == \/ a.ip < b.ip
                 \/ a.ip = b.ip /\ Ones(a) > Ones(b)

-----------------------------------------------------------------------------
(* allocateSubnetForPool                                                   *)

\* Index of the first free block at least as large as the request, 0 if none.
FirstFit(free, r) == SelectInSeq(free, LAMBDA b : Ones(b) <= r)

\* The loop "for i := r; i > B.bits+1; i--": advance the cursor by the size
\* of a /i and keep a /(i-1) there when B still contains the cursor.
\* Mutant: the loop stops one prefix early ("i > B.bits+2").
RECURSIVE SplitLoopShort(_, _, _)
SplitLoopShort(B, i, nextIP) ==
  IF i <= Ones(B) + 2 THEN << >>
  ELSE LET n == IncIP(nextIP, BlockSize(i)) IN
       (IF NetContains(B, n) THEN << [ip |-> n, bits |-> i - 1] >> ELSE << >>)
       \o SplitLoopShort(B, i - 1, n)

RECURSIVE SplitLoop(_, _, _)
SplitLoop(B, i, nextIP) ==
  IF i <= Ones(B) + 1 THEN << >>
  ELSE LET n == IncIP(nextIP, BlockSize(i)) IN
       (IF NetContains(B, n) THEN << [ip |-> n, bits |-> i - 1] >> ELSE << >>)
       \o SplitLoop(B, i - 1, n)

\* remainderNets when the first fit B is larger than the request r.
Remainders(B, r) ==
  LET n == IncIP(B.ip, BlockSize(r)) IN
  (IF NetContains(B, n) THEN << [ip |-> n, bits |-> r] >> ELSE << >>)
  \o SplitLoop(B, r, n)

\* Mutant: "after" starts at the fit itself, so the fit stays free.
NewFreeKeepFit(free, i, rem) == SubSeq(free, 1, i - 1) \o rem \o SubSeq(free, i, Len(free))
\* Mutant: the remainders are appended at the end of the free list.
NewFreeRemaindersLast(free, i, rem) == SubSeq(free, 1, i - 1) \o SubSeq(free, i + 1, Len(free)) \o rem

\* before ++ remainderCopy ++ after, with after starting past the fit.
NewFree(free, i, rem) == SubSeq(free, 1, i - 1) \o rem \o SubSeq(free, i + 1, Len(free))

\* The pool after carving a /r for cluster c out of the block at index i;
\* an exact fit is handed out with the fit's own mask.
Carve(p, c, r, i) ==
  LET B == p.free[i] IN
  [p EXCEPT !.free = NewFree(@, i, IF Ones(B) < r THEN Remainders(B, r) ELSE << >>),
            !.allocated = (c :> [ip |-> B.ip, bits |-> IF Ones(B) < r THEN r ELSE B.bits]) @@ @]

\* allocateSubnetForPool: the pool it leaves and the error it returns.
allocateSubnetForPool(p, c, r) ==
  CASE c \in DOMAIN p.allocated /\ Ones(p.allocated[c]) = r
         -> [pool |-> p, err |-> "ok"]
    [] c \in DOMAIN p.allocated
         -> [pool |-> p, err |-> "ReallocationUnsupported"]
    [] FirstFit(p.free, r) = 0
         -> [pool |-> p, err |-> "NoFreeBlock"]
    [] OTHER
         -> [pool |-> Carve(p, c, r, FirstFit(p.free, r)), err |-> "ok"]

-----------------------------------------------------------------------------
(* Reclaim's coalescing sweep                                              *)

\* tryMerge: same prefix, prefix >= 1 and b starts where a ends.  The
\* merged block keeps a's address (it is not masked).
TryMerge(a, b) == /\ Ones(a) = Ones(b)
                  /\ Ones(a) - 1 >= 0
                  /\ IncIP(a.ip, BlockSize(Ones(a))) = b.ip
\* Mutant: the merged mask is one bit longer instead of one bit shorter.
MergedLonger(a) == [ip |-> a.ip, bits |-> Ones(a) + 1]
Merged(a) == [ip |-> a.ip, bits |-> Ones(a) - 1]

\* Mutant: the block held in current after the loop is not appended.
RECURSIVE SweepDropLast(_, _, _)
SweepDropLast(current, rest, out) ==
  IF rest = << >> THEN out
  ELSE IF TryMerge(current, Head(rest))
       THEN SweepDropLast(Merged(current), Tail(rest), out)
       ELSE SweepDropLast(Head(rest), Tail(rest), Append(out, current))

\* The single pass: merge current with next while possible, else emit it.
RECURSIVE Sweep(_, _, _)
Sweep(current, rest, out) ==
  IF rest = << >> THEN Append(out, current)
  ELSE IF TryMerge(current, Head(rest))
       THEN Sweep(Merged(current), Tail(rest), out)
       ELSE Sweep(Head(rest), Tail(rest), Append(out, current))

MergeFree(free) == IF free = << >> THEN << >> ELSE Sweep(Head(free), Tail(free), << >>)

-----------------------------------------------------------------------------
(* Operations                                                              *)

\* InitializePool takes no ctx; its results carry NoCtx.
NoCtx == "none"
Result(op, s, ctx, err) == [op |-> op, slice |-> s, ctx |-> ctx, err |-> err]

\* InitializePool(sliceName, sliceSubnetStr).
InitializePool(s, cidr) ==
  \/ /\ s \in DOMAIN pools
     /\ ret' = Result("InitializePool", s, NoCtx, "ok")
     /\ UNCHANGED pools
  \/ /\ s \notin DOMAIN pools
     /\ ~ParseOK(cidr)
     /\ ret' = Result("InitializePool", s, NoCtx, "InvalidCIDR")
     /\ UNCHANGED pools
  \/ /\ s \notin DOMAIN pools
     /\ ParseOK(cidr)
     /\ LET net == ParseCIDR(cidr)
            res == allocateSubnetForPool([subnet |-> net, allocated |-> << >>,
                                          free |-> << net >>], VPN, VPNPrefix)
        IN /\ pools' = (s :> res.pool) @@ pools
           /\ ret' = Result("InitializePool", s, NoCtx,
                            IF res.err = "ok" THEN "ok" ELSE "VPNReservationFailed")

\* Allocate(ctx, sliceName, clusterName, requiredCIDRSize); ctx is never read.
Allocate(s, c, r, ctx) ==
  \/ /\ s \notin DOMAIN pools
     /\ ret' = Result("Allocate", s, ctx, "PoolNotInitialized")
     /\ UNCHANGED pools
  \/ /\ s \in DOMAIN pools
     /\ LET res == allocateSubnetForPool(pools[s], c, r) IN
        /\ pools' = [pools EXCEPT ![s] = res.pool]
        /\ ret' = Result("Allocate", s, ctx, res.err)

\* The pool after Reclaim removes cluster c's allocation: delete it from
\* the map, append its block, sort with compareIPNets, sweep.
ReclaimPool(p, c) ==
  [p EXCEPT !.allocated = [n \in DOMAIN p.allocated \ {c} |-> p.allocated[n]],
            !.free = MergeFree(SortSeq(Append(p.free, p.allocated[c]), LessNet))]

\* Reclaim(ctx, sliceName, clusterName): delete, append, sort, sweep; ctx
\* is never read.
Reclaim(s, c, ctx) ==
  \/ /\ s \notin DOMAIN pools
     /\ ret' = Result("Reclaim", s, ctx, "PoolNotInitialized")
     /\ UNCHANGED pools
  \/ /\ s \in DOMAIN pools
     /\ c \notin DOMAIN pools[s].allocated
     /\ ret' = Result("Reclaim", s, ctx, "NotAllocated")
     /\ UNCHANGED pools
  \/ /\ s \in DOMAIN pools
     /\ c \in DOMAIN pools[s].allocated
     /\ pools' = [pools EXCEPT ![s] = ReclaimPool(@, c)]
     /\ ret' = Result("Reclaim", s, ctx, "ok")

\* NewDynamicIPAMAllocator: an empty pools map, no call returned yet.
Init == /\ pools = << >>
        /\ ret = Result("None", CHOOSE s \in Slices : TRUE, NoCtx, "ok")

Next == \/ \E s \in Slices, cidr \in CIDRInputs : InitializePool(s, cidr)
        \/ \E s \in Slices, c \in Names, r \in CIDRSizes, x \in Contexts : Allocate(s, c, r, x)
        \/ \E s \in Slices, c \in Names, x \in Contexts : Reclaim(s, c, x)

Spec == Init /\ [][Next]_vars

-----------------------------------------------------------------------------
(* Properties                                                              *)

Net == [ip : 0..AddrSpace-1, bits : 0..MaxPrefix]

\* The places a pool keeps blocks: each allocation and each free-list slot.
Slots(p) == {<<"allocated", c>> : c \in DOMAIN p.allocated}
            \cup {<<"free", i>> : i \in 1..Len(p.free)}
BlockAt(p, o) == IF o[1] = "allocated" THEN p.allocated[o[2]] ELSE p.free[o[2]]

\* A block read as the address range [ip, ip + size) that incIP walks.
RangeLo(b) == b.ip
RangeHi(b) == b.ip + BlockSize(b.bits)
\* A block read as the CIDR its string names to a consumer (ParseCIDR).
CIDRLo(b) == MaskIP(b.ip, b.bits)
CIDRHi(b) == MaskIP(b.ip, b.bits) + BlockSize(b.bits)

TypeOK ==
  /\ DOMAIN pools \subseteq Slices
  /\ \A s \in DOMAIN pools :
       /\ pools[s].subnet \in Net
       /\ DOMAIN pools[s].allocated \subseteq Names \cup {VPN}
       /\ \A c \in DOMAIN pools[s].allocated : pools[s].allocated[c] \in Net
       /\ pools[s].free \in Seq(Net)
  /\ ret.slice \in Slices

\* No address of a slice is booked twice: the address ranges of the
\* allocations and free blocks lie inside the slice subnet and never
\* overlap.  About allocateSubnetForPool's split and splice of the free
\* list and Reclaim's sort-and-sweep, over any sequence of calls.
NoAddressDoublyBooked ==
  \A s \in DOMAIN pools :
    LET p == pools[s] IN
    /\ \A o \in Slots(p) : /\ RangeLo(p.subnet) <= RangeLo(BlockAt(p, o))
                           /\ RangeHi(BlockAt(p, o)) <= RangeHi(p.subnet)
    /\ \A o1, o2 \in Slots(p) :
         o1 # o2 => \/ RangeHi(BlockAt(p, o1)) <= RangeLo(BlockAt(p, o2))
                    \/ RangeHi(BlockAt(p, o2)) <= RangeLo(BlockAt(p, o1))

\* No address of a slice is lost: read as the ranges incIP walks, the
\* allocations and free blocks cover every address of the slice subnet.
\* About the split loop measuring the cursor against the masked fit while
\* the merged blocks it may be given keep an unmasked address.
AddressesConserved ==
  \A s \in DOMAIN pools :
    LET p == pools[s] IN
    \A a \in RangeLo(p.subnet)..RangeHi(p.subnet) - 1 :
      \E o \in Slots(p) : a \in RangeLo(BlockAt(p, o))..RangeHi(BlockAt(p, o)) - 1

\* The free list stays sorted by compareIPNets although Allocate splices
\* remainders in place of the fit without re-sorting (spec 4.2).
FreeSorted ==
  \A s \in DOMAIN pools :
    \A i \in 1..Len(pools[s].free) - 1 : LessNet(pools[s].free[i], pools[s].free[i + 1])

\* Reclaim-then-allocate round trip (spec 8): after Reclaim removes a
\* cluster's /p, the free list holds a block that a request for /p fits.
ReclaimFreesRoom ==
  [][\A s \in DOMAIN pools :
       \A c \in DOMAIN pools[s].allocated \ DOMAIN pools'[s].allocated :
         FirstFit(pools'[s].free, pools[s].allocated[c].bits) # 0]_pools

\* Partition (spec 3, invariants 1-3; spec 8): read as the CIDRs their
\* strings name, the allocations and free blocks cover the slice subnet
\* with no overlap and no gap.  About tryMerge keeping an unmasked address.
CIDRsPartitionSubnet ==
  \A s \in DOMAIN pools :
    LET p == pools[s] IN
    /\ \A o \in Slots(p) : /\ CIDRLo(p.subnet) <= CIDRLo(BlockAt(p, o))
                           /\ CIDRHi(BlockAt(p, o)) <= CIDRHi(p.subnet)
    /\ \A o1, o2 \in Slots(p) :
         o1 # o2 => \/ CIDRHi(BlockAt(p, o1)) <= CIDRLo(BlockAt(p, o2))
                    \/ CIDRHi(BlockAt(p, o2)) <= CIDRLo(BlockAt(p, o1))
    /\ \A a \in CIDRLo(p.subnet)..CIDRHi(p.subnet) - 1 :
         \E o \in Slots(p) : a \in CIDRLo(BlockAt(p, o))..CIDRHi(BlockAt(p, o)) - 1

\* Two free blocks that are the two aligned halves of one larger block.
Buddies(a, b) == /\ a.bits = b.bits
                 /\ a.bits >= 1
                 /\ a.ip % BlockSize(a.bits - 1) = 0
                 /\ b.ip = a.ip + BlockSize(a.bits)

\* "The free list must be fully coalesced on exit from Reclaim" (spec 3):
\* after a Reclaim (the only step that removes an allocation) no two
\* neighbouring free blocks are buddies.  About the
\* single forward pass of Reclaim's merge loop.
CoalescedAfterReclaim ==
  [][\A s \in DOMAIN pools :
       DOMAIN pools'[s].allocated \subseteq DOMAIN pools[s].allocated /\
       DOMAIN pools'[s].allocated # DOMAIN pools[s].allocated =>
         \A i \in 1..Len(pools'[s].free) - 1 :
           ~Buddies(pools'[s].free[i], pools'[s].free[i + 1])]_pools

\* "Test suites must not observe a successful InitializePool without a VPN
\* reservation" (spec 4.1): when InitializePool returns nil, the slice's
\* pool holds the VPN_Subnet allocation.  About registering the pool before
\* the reservation is attempted.
InitializePoolReservesVPN ==
  [][ret'.op = "InitializePool" /\ ret'.err = "ok" =>
       VPN \in DOMAIN pools'[ret'.slice].allocated]_vars

\* "VPN_Subnet is consumed by InitializePool; implementations should treat
\* the name as reserved" (spec 5, 9): once a pool holds the VPN
\* reservation, no call removes it.  About Allocate and Reclaim accepting
\* the reserved name as a cluster name.
VPNReservationKept ==
  [][\A s \in DOMAIN pools :
       VPN \in DOMAIN pools[s].allocated => VPN \in DOMAIN pools'[s].allocated]_pools

=============================================================================
