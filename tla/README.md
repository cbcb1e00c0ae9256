# TLA+ models of the KubeSlice dynamic IPAM allocator

This directory holds TLA+ models of the IPAM allocator in `src/service/`. It also
holds the TLC configurations that check them. `PROJECT.json` lists the components,
the runs, the mutants, the map from each definition to the Go lines it translates,
the findings and the hazards.

## 1. Inventory

### Source files

| File | What it is |
|---|---|
| `src/service/service_ipam_allocation.go` | The allocator the tests exercise: `DynamicIPAMAllocator`, `sliceIPPool`, `allocateSubnetForPool`, `compareIPs`, `compareIPNets`, `tryMerge`, `incIP`. |
| `src/service/worker_slice_ipam.go` | An earlier version of the same types in the same package. The two files cannot be compiled together. It differs in `InitializePool` (it calls `a.Allocate` while holding `a.mu`), in `Mask.Size()` (it uses the second result, always 32), in the free-list splice and in `tryMerge` (it masks, and checks that both halves lie in the parent). Its `compareIPNets` calls `a.IP.Compare` (line 244), a method `net.IP` does not have, so the file does not compile even on its own; `WLessNet` models the intended address order. |
| `src/service/service_ipam_allocation_test.go` | Unit tests of the first file. |
| `src/unnamed/part_000` | A testify mock of the `IPAMAllocator` interface. It keeps no state. |
| `src/service/PROPOSAL.md`, `spec.md` | The design. |

### Components, state and operations

* **Registry** (`DynamicIPAMAllocator`). State: `pools`, a map from slice name to
  pool, guarded by `a.mu`. It has three operations:
  * `InitializePool(slice, cidr)` returns nil if the slice exists. Otherwise it
    parses the CIDR and registers the pool. Only then does it reserve a /24 under
    the name `VPN_Subnet`.
  * `Allocate(ctx, slice, cluster, size)` routes to the pool and returns
    `PoolNotInitialized` if there is none.
  * `Reclaim(ctx, slice, cluster)` does the same.

  The `ctx` argument is never read.
* **Pool** (`sliceIPPool`). State: `SliceSubnet`, the `Allocated` map from cluster to
  CIDR, and the `FreeBlocks` list, guarded by `pool.mu`. It has two operations:
  * `allocateSubnetForPool` returns the existing block when the prefix matches. On a
    different prefix it fails with re-allocation unsupported. Otherwise it takes the
    first free block large enough. It carves the request off the block's low end and
    splices the power-of-two remainders in place of the block, without re-sorting.
  * Reclaim deletes the allocation, appends its block and sorts by `compareIPNets`.
    It then makes one forward pass that merges each block with the next through
    `tryMerge`.
* **Locks**. Every public operation takes `a.mu` and keeps it until it returns
  (`defer`). It takes `pool.mu` inside `a.mu`. So all operations of one allocator are
  serialised, even on different slices.

Components talk by direct calls. The registry calls into the pool while holding both
locks. Nothing is persisted, no messages are sent and no callbacks are made.

### What is hard

There is no concurrency inside one allocator, because `a.mu` serialises every call.
The hard part is **sequences of calls**. The free list is a data structure that every
Allocate and Reclaim reshapes. Its invariants are only kept if the split, the
splice, the sort and the one-pass merge agree on alignment and order:

* `tryMerge` does not check that the pair is aligned to its parent, and it keeps
  `a`'s unmasked address;
* `Contains` reads a block by its mask, but `incIP` walks it as an address range;
* the sweep never looks back at a block it has already emitted;
* `InitializePool` registers a pool before its VPN reservation can fail.

The older file adds a self-deadlock (a non-reentrant mutex taken twice). It also
leaves the first-fit block in the free list.

### Properties that make each component correct

* Pool: allocations and free blocks partition the slice, with canonical CIDRs and no
  address booked twice. The free list stays sorted. A reclaimed size can be
  allocated again. The free list is coalesced after Reclaim. The split tiles the
  block it splits.
* Registry: a successful `InitializePool` leaves a VPN reservation. Re-initialising
  is a no-op.
* Locks: no call blocks forever, and concurrent calls are linearisable.

## 2. Modules and runs

### `IPAMAllocator.tla`: registry and pools of `service_ipam_allocation.go`

* **State.** `pools` is a function from the registered slice names to records
  `[subnet, allocated, free]`. This matches `a.pools` and the `sliceIPPool` fields.
  `ret` records the last call's operation, slice and error. It is only used to state
  what `InitializePool` returned.
* **Data abstraction.** A CIDR is `[ip, bits]`. Addresses are counted in units of
  2^(32-MaxPrefix) addresses (a /25 here). Every address the code computes is a sum
  of block sizes, so nothing below a unit is lost. `IncIP` adds modulo 2^MaxPrefix,
  which is the 32-bit wrap of `incIP` (no reachable state of any run wraps; see the plan). `NetContains` is `IPNet.Contains`, which
  compares masked addresses. `ParseCIDR` masks the host bits and rejects prefixes
  above 32.
* **Nil masks.** `Allocate` does not validate the requested size. For a size above
  32, `net.CIDRMask` returns nil and `1 << uint(32 - size)` is 0. A block keeps the
  length it was built with. `Ones` is `Mask.Size()`, which reads 0 from a nil mask,
  and `NetContains` is false for a nil mask. This is only meaningful at
  single-address units (`MaxPrefix = 32`), which only the `ipam_oversize` run uses.
  TLC's integers stop at 2^31 - 1, so `IncIP` tests for the carry by dividing by a
  quarter of the address space rather than forming 2^32.
* **Actions.** There is one action per public method, each one atomic because of
  `a.mu`:
  * `InitializePool` has three disjuncts: exists, parse error, and create then
    reserve the VPN.
  * `Allocate` has two: no pool, and `allocateSubnetForPool`.

  `Allocate` and `Reclaim` also take a `ctx` drawn from the constant `Contexts`.
  `ret` records it, and nothing else reads it, just as in the code.
  * `Reclaim` has three: no pool, not allocated, and delete, append, `SortSeq` and
    `MergeFree`.

  `allocateSubnetForPool` is an operator returning the new pool and the error. It is
  also used by `InitializePool`. `Remainders` and `SplitLoop` translate the
  remainder loop. `NewFree` is the splice. `Sweep` is the merge loop.

`MC_IPAMAllocator.tla` instantiates the module. It uses one slice `s1`. The inputs to
`InitializePool` are four CIDR strings:

* `10.20.0.0/22`;
* the non-canonical `10.20.1.0/22`, which ParseCIDR canonicalises;
* `10.20.0.0/25`, which is too small for the VPN /24;
* `10.20.0.0/33`, which is invalid.

The request sizes are /21 (larger than the slice), /22, /23, /24 and /25. The
clusters are `c1`, `c2`, `c3` and, in the core run, the literal VPN name, since the
code lets callers use it.

A /22 in /25 units is eight units. That is enough for the VPN /24, several
allocations of each size, unaligned same-size neighbours and a cascading merge.
Without symmetry the core run has about 263,000 distinct states and takes about 40
seconds.

| Run | Cfg | Expect | Checks |
|---|---|---|---|
| `ipam_core` | `MC_IPAMAllocator.cfg` | pass | `TypeOK`; `NoAddressDoublyBooked` (the address ranges of allocations and free blocks lie in the slice and never overlap); `FreeSorted` (the free list stays sorted by `compareIPNets` although Allocate does not re-sort); `ReclaimFreesRoom` (after a Reclaim of a /p, a /p request finds a fit: the spec's round trip). |
| `ipam_addr` | `MC_IPAMAllocator_addr.cfg` | pass | `NoAddressDoublyBooked`, `FreeSorted` and `ReclaimFreesRoom` again, at single-address units (`MaxPrefix = 32`). The slice is `10.20.0.0/23`, the clusters are `c1`..`c3`, and the requests are /24, /31 and /32. A /32 carved from a /24 leaves a chain of eight remainders, /32 up to /25. About 16,000 distinct states. |
| `ipam_split` | `MC_IPAMSplit.cfg` | pass | `SplitTilesBlock`: for every canonical block /16../25 at the bottom, middle and top of the 32-bit space, and every request it fits, the carved block and the remainders are canonical, consecutive and end where the block ends. This compares the code's loop with the buddy decomposition. The cursor of the loop never passes the block's midpoint, so `incIP` does not wrap here either, even for blocks at the top. |
| `ipam_partition` | `MC_IPAMAllocator_partition.cfg` | violation | `CIDRsPartitionSubnet` (spec §3, §8): read as CIDRs, allocations and free blocks partition the slice. |
| `ipam_coalesce` | `MC_IPAMAllocator_coalesce.cfg` | violation | `CoalescedAfterReclaim` (spec §3): after Reclaim no two neighbouring free blocks are buddies. |
| `ipam_vpn_reservation` | `MC_IPAMAllocator_vpn.cfg` | violation | `InitializePoolReservesVPN` (spec §4.1): a nil return from `InitializePool` implies the VPN /24 is reserved. |
| `ipam_vpn_name` | `MC_IPAMAllocator_vpnname.cfg` | violation | `VPNReservationKept` (spec §5, §9, with `VPN_Subnet` among the cluster names): once a pool holds the VPN reservation, no call removes it. |
| `ipam_leak` | `MC_IPAMAllocator_leak.cfg` | violation | `AddressesConserved` (spec §3, no gap): read as the ranges `incIP` walks, the allocations and free blocks cover every address of the slice. |
| `ipam_oversize` | `MC_IPAMAllocator_oversize.cfg` | violation | `NoAddressDoublyBooked` at single-address units, for the slice `10.20.0.0/28` and requests /30, /32 and /33. |

### `IPAMLocks.tla`: goroutines calling the allocator concurrently

* **State.** The same `pools` and `ret`, plus `amu` and `pmu` (the holder of `a.mu`
  and of each pool's `pool.mu`, or `None`), `pc`, `call` and `calls` for each
  goroutine.
* **Actions.** Each call is cut where another goroutine can interleave:
  * `StartCall` picks the call;
  * `LockA` is `a.mu.Lock()`;
  * `Lookup` is the pools lookup, `InitializePool`'s parse and every early return;
  * `Register` is `a.pools[sliceName] = pool` (line 56);
  * `LockP` is `pool.mu.Lock()`;
  * `Body` is the work under both locks (lines 58-68, 84-88 and 106-135), reusing
    `IPAMAllocator`'s operators for the last two;
  * `UnlockP` and `UnlockA` are the deferred unlocks, in the order Go runs them.
* **Refinement.** `IPAM == INSTANCE IPAMAllocator WITH pools <- AbsPools`.
  `AbsPools` hides a pool between its registration and its VPN reservation. At
  that point the abstract `InitializePool` has not yet happened.
* **Fairness.** Each goroutine gets weak fairness of its steps: Go schedules a
  runnable goroutine and hands an unlocked mutex to a waiter. `StartCall` is not
  fair, because nothing obliges a caller to call.

`MC_IPAMLocks` uses two goroutines with two calls each, on two slices. Each slice is
initialised from a /23 (VPN /24 plus one /24 for the clusters). Every mix of the
three operations on either slice interleaves, including one goroutine creating a
pool while the other works on the pool already there. The run has about 359,000
distinct states and takes about 90 seconds. No symmetry is used, because the run
checks liveness.

| Run | Cfg | Expect | Checks |
|---|---|---|---|
| `ipam_locks` | `MC_IPAMLocks.cfg` | pass | `AllCallsReturn`; `AbstractSpec` (every interleaving implements `IPAMAllocator!Spec`). |

Mutants: an early return that does not release `a.mu` breaks `AllCallsReturn`. An
`a.mu.Lock` that
does not wait lets two `InitializePool` calls overlap and breaks `AbstractSpec`.

### `WorkerSliceIPAM.tla`: the earlier allocator in `worker_slice_ipam.go`

The file defines the same types as `service_ipam_allocation.go`, so the two cannot be
built together. The module models it at the lock level of `IPAMLocks`, with these
differences:

* `InitializePool` registers the pool and then calls the public `a.Allocate` while it
  still holds `a.mu`. `Register` pushes the `InitializePool` call on the
  goroutine's `stack` and starts the nested `Allocate` at its own `LockA`. `LockA`
  waits for `amu = None`, because `sync.Mutex` is not re-entrant.
* `UnlockA` returns to the suspended `InitializePool`, which maps the error. Its
  deferred unlock then runs on a mutex that is already unlocked. In Go that is a
  fatal runtime error, modelled as the `crashed` pc. If another goroutine holds the
  mutex by then, the unlock simply releases it.
* The pool code reads `_, bits := Mask.Size()`, the mask length, which is 32 for
  every IPv4 block (`MaskSizeBits`). First fit (`WFirstFit`) therefore accepts a
  block only for a request of /32 or above. A fit is then handed out whole, and the
  splice keeps it in the free list (`WAllocatePool`). `WTryMerge` masks and checks
  containment, but it too sees every block as a /32.

| Run | Cfg | Expect | Checks |
|---|---|---|---|
| `worker_deadlock` | `MC_WorkerSliceIPAM.cfg` | violation | `AllCallsReturn` under weak fairness. Two goroutines, one call each, on the slice `10.20.0.0/22` or an invalid CIDR. `CHECK_DEADLOCK FALSE`: the stuck state is what the liveness property reports. |
| `worker_vpn_fit` | `MC_WorkerPool.cfg` | violation | `VPNReservationFits`: the nested `Allocate(..., 24)` on the fresh pool `InitializePool` builds for a /16, /22 or /24 slice returns a /24. |

What they show:

* **Self-deadlock (code bug).** The first `InitializePool` with a valid CIDR never
  returns. It holds `a.mu`, so every other call blocks too. TLC's counterexample
  has six states and then stutters.
* **`Mask.Size()` misread (code bug).** Even without the deadlock, the VPN
  reservation fails with "no available subnet" for every slice. Any request below
  /32 fails the same way.

Because of these two bugs, the rest of the file's pool code (the kept fit, the
duplicate free blocks it would produce, and the merge) is reachable only by /32
requests on an allocator that has got past `InitializePool`. That never happens.
The code is translated in the module, but no run claims anything about it.

### What the `IPAMAllocator` runs show

* **Unaligned merge (code bug).** `tryMerge` merges `10.20.1.0/24` and
  `10.20.2.0/24`, which are not halves of one /23. It stores `10.20.1.0/23`, which
  as a CIDR is `10.20.0.0/23` and overlaps the VPN block. It takes four calls after
  `InitializePool`. A later /24 split of that block drops the upper remainder
  because `Contains` reads the block by its mask. Read as address ranges, the
  bookkeeping still never double-books (`NoAddressDoublyBooked` passes). The damage
  is in what the stored CIDRs mean.
* **Leaked addresses (code bug).** The same unaligned /23 shows a second effect,
  found by `ipam_leak`. Carving a /24 out of it drops `10.20.2.0/24`, so those
  addresses are in no allocation and no free block from then on. Five calls after
  `InitializePool` shrink the slice for good.
* **Unvalidated request size (spec divergence).** `Allocate(ctx, "s1", "c1", 33)`
  returns nil. It stores `c1` with a nil mask and puts a nil-mask block at the head
  of the free list. First fit reads that block as a /0, so the next request is
  carved from it. No remainders are emitted, because `Contains` on a nil mask is
  false. Then `Allocate(.., "c2", 30)` returns `10.20.0.0/30`, while
  `10.20.0.0/32`, `10.20.0.1/31` and `10.20.0.3/30` are still free; a third request
  is handed one of them. The spec (§4.2) requires `InvalidPrefix`.
  The caller of that successful `Allocate(.., "c1", 33)` may also retry it after a
  timeout. The retry reads `Mask.Size()` of the nil mask as 0, which is not 33, so
  it returns the re-allocation error instead of the existing block. No run of its
  own checks this.
* **One-pass sweep (spec divergence).** Reclaiming `10.20.3.0/25` next to free
  `10.20.2.0/24` and `10.20.3.128/25` leaves two free buddy /24s. A /23 request then
  fails, although 10.20.2.0/23 is free. The spec says this cannot happen with its
  split policy.
* **Half-initialised pool (spec divergence).** `InitializePool("s1",
  "10.20.0.0/25")` fails but registers the pool. The next call returns nil with no
  VPN reservation.
* **Reserved name not enforced (spec divergence).** `Reclaim(ctx, "s1", "VPN_Subnet")`
  right after `InitializePool` deletes the VPN reservation. Its /24 goes back to the
  free list for any cluster.
* **`ctx` ignored (spec divergence; read from the code, not a run).** `Allocate` and
  `Reclaim` never read `ctx`. So a call with an already cancelled context still
  carves or frees a block, where the spec (§4, §6) says it fails fast without
  mutating state. The model records `ctx` in `ret` and nothing reads it. A property
  about it would only restate that.

Each property of a passing run has a mutant in `PROJECT.json`: a plausible slip in
the mapped code that TLC catches.

* Keeping the fit in the free list, as `worker_slice_ipam.go` line 176 does,
  violates `NoAddressDoublyBooked`.
* Appending the remainders at the end violates `FreeSorted`.
* Dropping the sweep's final block violates `ReclaimFreesRoom`.
* A one-bit-longer merged mask violates `TypeOK`.
* Stopping the remainder loop one step early violates `SplitTilesBlock`.

### Fairness

The core model states only safety properties. The calls come from an external
controller, so nothing obliges any call to happen, and no fairness is assumed.
Liveness becomes meaningful only at the lock level (`IPAMLocks`), where a
caller that holds a lock is scheduled by the Go runtime.

## 3. Plan

Steps are ordered by importance. All of them are done.

1. **Done.** `IPAMAllocator`: registry and pool of `service_ipam_allocation.go`,
   with the core run and the three violation runs.
2. **Done.** `MC_IPAMSplit`: the remainder loop against the buddy tiling, on blocks
   at the bottom, middle and top of the address space.
3. **Done.** `IPAMLocks`: goroutines calling `InitializePool`, `Allocate` and `Reclaim`
   concurrently. Each call is split into its lock steps (`a.mu.Lock`, lookup,
   `pool.mu.Lock`, body, unlocks in `defer` order). Properties:
   * no deadlock, and every call returns under weak fairness;
   * a refinement mapping to `IPAMAllocator` (`INSTANCE IPAMAllocator WITH pools <-
     ...`), checked as a PROPERTY, which shows that each call's effect is one atomic
     step.
4. **Done.** `WorkerSliceIPAM`: `worker_slice_ipam.go` at lock level, with the
   self-deadlock (`worker_deadlock`) and the `Mask.Size()` misread
   (`worker_vpn_fit`).
5. **Done.** The remaining hazards: the reserved VPN name (`ipam_vpn_name`),
   requests above /32 with nil masks (`ipam_oversize`), and the leak after an
   unaligned merge (`ipam_leak`). Ignored cancellation is recorded from the code.

   A core cfg with the slice at the top of the address space was considered and
   left out, because `incIP` cannot wrap there. The cursor of the remainder loop
   advances by less than the fit's size in total. Every block lies inside the slice,
   since `NoAddressDoublyBooked` holds. So the cursor stays below the top of the
   space. `tryMerge` computes `a.ip + size` only for a successor `b` with a larger
   address. The same argument holds for `ipam_split`: its cursor never passes the
   block's midpoint. The wrap of `IncIP` is translated, but no run reaches it, and no
   hazard is listed for it.
6. **Done.** `ipam_addr` re-checks the core properties at single-address units.
   With a fourth request size there (/25 or /28), the run takes more than 30
   minutes. So the instance keeps three sizes: the VPN's /24 and the two finest.

## 4. Not modelled, and why

* The testify mock (`src/unnamed/part_000`) keeps no state.
* String formatting (`IPNet.String`, `fmt.Errorf` wording) is not modelled. Errors
  are modelled as kinds. The one formatting fact a property depends on is that
  `String()` prints the unmasked address with the mask length. That is why
  `CIDRsPartitionSubnet` reads a block as `MaskIP(ip)/bits`, as `ParseCIDR` would.
* IPv6. The IPv6 branches of `compareIPs` and `tryMerge` are not modelled, because
  `ParseCIDR` of the slice subnet and `CIDRMask(_, 32)` only ever produce IPv4
  blocks here.
* Prefixes finer than the unit (/26../32) are not modelled in the runs at /25
  units; they only rescale the unit. `ipam_oversize` uses single-address units on a
  slice in 10.0.0.0/8, whose addresses stay below 2^31.
* In a split loop whose fit has a nil mask, the cursor passes 2^31. Nothing reads
  it, because `Contains` on a nil mask is false without looking at the address. TLC
  evaluates the cursor lazily, so it is never formed.
* The split loop of `worker_slice_ipam.go` for requests above /32 is not modelled,
  so the file stays `partly` modelled. That loop appends `nextIP` and then
  overwrites it through `copy`, so remainders share a backing array. The splice
  `append(append(before, ...), after...)` writes into the array that `after` still
  reads whenever capacity allows. Its outcome depends on Go's slice growth classes.
  All of this code lies behind the `InitializePool` self-deadlock, and no caller
  can reach it.
