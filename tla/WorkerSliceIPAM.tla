-------------------------- MODULE WorkerSliceIPAM --------------------------
(***************************************************************************)
(* The earlier DynamicIPAMAllocator of src/service/worker_slice_ipam.go.   *)
(*                                                                         *)
(* Goroutines call InitializePool, Allocate and Reclaim; each call is cut  *)
(* at its lock operations as in IPAMLocks.  Unlike the later file,         *)
(* InitializePool reserves the VPN block by calling the public a.Allocate  *)
(* while it still holds a.mu: the nested call is pushed on the goroutine's *)
(* stack and starts with its own a.mu.Lock().                             *)
(*                                                                         *)
(* Addresses are in the units of IPAMAllocator.  The pool code of this    *)
(* file reads the second result of Mask.Size(), the mask's total length,  *)
(* which is 32 for every IPv4 block; a /32 is finer than one unit.        *)
(***************************************************************************)
EXTENDS Integers, Sequences, SequencesExt, TLC

CONSTANTS Slices, Names, VPN, CIDRInputs, CIDRSizes, MaxPrefix,
          Threads,   \* goroutines calling the allocator
          MaxCalls,  \* calls each goroutine makes
          None       \* a free mutex

\* Requests finer than one unit, and above 32 (net.CIDRMask returns nil),
\* are not modelled.
ASSUME CIDRSizes \subseteq 0..MaxPrefix

VARIABLES
  pools,  \* a.pools
  amu,    \* a.mu: the goroutine holding it, or None
  pmu,    \* pool.mu of each slice's pool: its holder, or None
  pc,     \* where each goroutine is in its innermost call
  call,   \* the innermost call each goroutine is making
  stack,  \* the calls suspended below it (InitializePool under a.Allocate)
  res,    \* the error the goroutine's last finished call returned
  calls   \* how many calls each goroutine has started

vars == <<pools, amu, pmu, pc, call, stack, res, calls>>

\* The CIDR helpers are those of the later file (incIP, Mask, Contains and
\* ParseCIDR are the same code).
A == INSTANCE IPAMAllocator WITH Contexts <- {}, ret <- res

\* The vpn reservation: vpnSubnetRequiredSize and the reserved name.
WVPNPrefix == 24

AnyName == CHOOSE c \in Names : TRUE
AnyCIDR == CHOOSE x \in CIDRInputs : TRUE
AnySize == CHOOSE r \in CIDRSizes : TRUE
Calls ==
  {[op |-> "InitializePool", s |-> s, c |-> AnyName, r |-> AnySize, cidr |-> x] :
     s \in Slices, x \in CIDRInputs}
  \cup {[op |-> "Allocate", s |-> s, c |-> c, r |-> r, cidr |-> AnyCIDR] :
          s \in Slices, c \in Names, r \in CIDRSizes}
  \cup {[op |-> "Reclaim", s |-> s, c |-> c, r |-> AnySize, cidr |-> AnyCIDR] :
          s \in Slices, c \in Names}

-----------------------------------------------------------------------------
(* The pool code of this file                                              *)

\* "_, bits := n.Mask.Size()": the second result is the mask's length in
\* bits, 32 for every IPv4 mask, not the prefix length.
MaskSizeBits(n) == 32

\* First fit: the first free block whose "freeBits <= requiredCIDRSize".
WFirstFit(free, r) == SelectInSeq(free, LAMBDA b : MaskSizeBits(b) <= r)

\* before := FreeBlocks[:i]; after := FreeBlocks[i:]: "after" starts at the
\* fit itself, and with no remainders nothing overwrites the shared array.
WSplice(free, i) == SubSeq(free, 1, i - 1) \o SubSeq(free, i, Len(free))

\* Allocate under pool.mu.  A fit has bestFitBits = 32 >= r, so the split
\* of lines 145-168 (which needs 32 < r) never runs: the allocation is the
\* whole block (lines 169-173), and before ++ after keeps it in the free
\* list.
WAllocatePool(p, c, r) ==
  LET i == WFirstFit(p.free, r) IN
  CASE c \in DOMAIN p.allocated /\ MaskSizeBits(p.allocated[c]) = r
         -> [pool |-> p, err |-> "ok"]
    [] c \in DOMAIN p.allocated
         -> [pool |-> p, err |-> "ReallocationUnsupported"]
    [] i = 0
         -> [pool |-> p, err |-> "NoFreeBlock"]
    [] OTHER
         -> [pool |-> [p EXCEPT !.allocated = (c :> p.free[i]) @@ @,
                                !.free = WSplice(@, i)],
             err |-> "ok"]

\* compareIPNets of this file: address first, then Mask.Size()'s bits.
WLessNet(a, b) == \/ a.ip < b.ip
                  \/ a.ip = b.ip /\ MaskSizeBits(a) < MaskSizeBits(b)

\* tryMerge of this file: same Mask.Size() bits, the block one bit shorter
\* at a's masked address must contain both, and b must start one block
\* after a.  When bits exceeds MaxPrefix the step 1 << (32 - bits) is less
\* than one unit, and no two unit addresses are that far apart.
WTryMerge(a, b) ==
  LET bits == MaskSizeBits(a)
      parent == [ip |-> A!MaskIP(a.ip, bits - 1), bits |-> bits - 1]
  IN /\ MaskSizeBits(a) = MaskSizeBits(b)
     /\ bits - 1 >= 0
     /\ bits <= MaxPrefix
     /\ A!NetContains(parent, a.ip) /\ A!NetContains(parent, b.ip)
     /\ A!IncIP(a.ip, A!BlockSize(bits)) = b.ip
WMerged(a) == [ip |-> A!MaskIP(a.ip, MaskSizeBits(a) - 1), bits |-> MaskSizeBits(a) - 1]

\* The single forward pass of Reclaim.
RECURSIVE WSweep(_, _, _)
WSweep(current, rest, out) ==
  IF rest = << >> THEN Append(out, current)
  ELSE IF WTryMerge(current, Head(rest))
       THEN WSweep(WMerged(current), Tail(rest), out)
       ELSE WSweep(Head(rest), Tail(rest), Append(out, current))

\* Reclaim under pool.mu: delete, append, sort, sweep.
WReclaimPool(p, c) ==
  LET sorted == SortSeq(Append(p.free, p.allocated[c]), WLessNet) IN
  [p EXCEPT !.allocated = [n \in DOMAIN p.allocated \ {c} |-> p.allocated[n]],
            !.free = WSweep(Head(sorted), Tail(sorted), << >>)]
-----------------------------------------------------------------------------
(* Steps of goroutine t                                                    *)

Goto(t, from, to) == pc[t] = from /\ pc' = [pc EXCEPT ![t] = to]

\* A goroutine starts one of its calls.
StartCall(t) ==
  /\ pc[t] = "idle"
  /\ calls[t] < MaxCalls
  /\ \E k \in Calls : call' = [call EXCEPT ![t] = k]
  /\ pc' = [pc EXCEPT ![t] = "lockA"]
  /\ calls' = [calls EXCEPT ![t] = @ + 1]
  /\ UNCHANGED <<pools, amu, pmu, stack, res>>

\* a.mu.Lock(): sync.Mutex is not re-entrant, so it blocks while any
\* goroutine, this one included, holds a.mu.
LockA(t) ==
  /\ amu = None
  /\ Goto(t, "lockA", "lookup")
  /\ amu' = t
  /\ UNCHANGED <<pools, pmu, call, stack, res, calls>>

\* The pools lookup, InitializePool's parse, and their early returns.
Lookup(t) ==
  LET k == call[t]
      Return(err) == /\ res' = [res EXCEPT ![t] = err]
                     /\ pc' = [pc EXCEPT ![t] = "unlockA"]
      Continue(to) == /\ pc' = [pc EXCEPT ![t] = to]
                      /\ UNCHANGED res
  IN
  /\ pc[t] = "lookup"
  /\ \/ k.op = "InitializePool" /\ k.s \in DOMAIN pools /\ Return("ok")
     \/ k.op = "InitializePool" /\ k.s \notin DOMAIN pools /\ ~A!ParseOK(k.cidr)
        /\ Return("InvalidCIDR")
     \/ k.op = "InitializePool" /\ k.s \notin DOMAIN pools /\ A!ParseOK(k.cidr)
        /\ Continue("register")
     \/ k.op # "InitializePool" /\ k.s \notin DOMAIN pools /\ Return("PoolNotInitialized")
     \/ k.op # "InitializePool" /\ k.s \in DOMAIN pools /\ Continue("lockP")
  /\ UNCHANGED <<pools, amu, pmu, call, stack, calls>>

\* a.pools[sliceName] = pool, then a.Allocate(ctx, sliceName,
\* "KubeSlice-VPN-Reserved-Subnet", 24) with a.mu still held.
Register(t) ==
  LET k == call[t]
      net == A!ParseCIDR(k.cidr)
  IN
  /\ Goto(t, "register", "lockA")
  /\ pools' = (k.s :> [subnet |-> net, allocated |-> << >>, free |-> << net >>]) @@ pools
  /\ stack' = [stack EXCEPT ![t] = << k >> \o @]
  /\ call' = [call EXCEPT ![t] = [k EXCEPT !.op = "Allocate", !.c = VPN, !.r = WVPNPrefix]]
  /\ UNCHANGED <<amu, pmu, res, calls>>

\* pool.mu.Lock().
LockP(t) ==
  /\ pmu[call[t].s] = None
  /\ Goto(t, "lockP", "body")
  /\ pmu' = [pmu EXCEPT ![call[t].s] = t]
  /\ UNCHANGED <<pools, amu, call, stack, res, calls>>

\* Allocate's or Reclaim's work under both locks.
Body(t) ==
  LET k == call[t]
      p == pools[k.s]
      alloc == WAllocatePool(p, k.c, k.r)
  IN
  /\ Goto(t, "body", "unlockP")
  /\ \/ /\ k.op = "Allocate"
        /\ pools' = [pools EXCEPT ![k.s] = alloc.pool]
        /\ res' = [res EXCEPT ![t] = alloc.err]
     \/ /\ k.op = "Reclaim" /\ k.c \notin DOMAIN p.allocated
        /\ res' = [res EXCEPT ![t] = "NotAllocated"]
        /\ UNCHANGED pools
     \/ /\ k.op = "Reclaim" /\ k.c \in DOMAIN p.allocated
        /\ pools' = [pools EXCEPT ![k.s] = WReclaimPool(p, k.c)]
        /\ res' = [res EXCEPT ![t] = "ok"]
  /\ UNCHANGED <<amu, pmu, call, stack, calls>>

\* defer pool.mu.Unlock().
UnlockP(t) ==
  /\ Goto(t, "unlockP", "unlockA")
  /\ pmu' = [pmu EXCEPT ![call[t].s] = None]
  /\ UNCHANGED <<pools, amu, call, stack, res, calls>>

\* defer a.mu.Unlock(), and the call returns: to the caller, or to the
\* suspended InitializePool, which maps the error and returns in turn.
\* Go's Unlock of an unlocked mutex is a fatal runtime error; a mutex held
\* by another goroutine is simply unlocked.
UnlockA(t) ==
  /\ pc[t] = "unlockA"
  /\ \/ /\ amu = None
        /\ pc' = [pc EXCEPT ![t] = "crashed"]
        /\ UNCHANGED <<amu, call, stack, res>>
     \/ /\ amu # None
        /\ amu' = None
        /\ stack[t] = << >>
        /\ pc' = [pc EXCEPT ![t] = "idle"]
        /\ UNCHANGED <<call, stack, res>>
     \/ /\ amu # None
        /\ amu' = None
        /\ stack[t] # << >>
        /\ call' = [call EXCEPT ![t] = Head(stack[t])]
        /\ stack' = [stack EXCEPT ![t] = Tail(@)]
        /\ res' = [res EXCEPT ![t] = IF @ = "ok" THEN "ok" ELSE "VPNReservationFailed"]
        /\ pc' = [pc EXCEPT ![t] = "unlockA"]
  /\ UNCHANGED <<pools, pmu, calls>>

Step(t) == LockA(t) \/ Lookup(t) \/ Register(t) \/ LockP(t) \/ Body(t)
           \/ UnlockP(t) \/ UnlockA(t)

\* Every goroutine has made all its calls: the callers stop.
Quiescent == /\ \A t \in Threads : pc[t] = "idle" /\ calls[t] = MaxCalls
             /\ UNCHANGED vars

\* NewDynamicIPAMAllocator, and goroutines that have not called it yet.
Init == /\ pools = << >>
        /\ amu = None
        /\ pmu = [s \in Slices |-> None]
        /\ pc = [t \in Threads |-> "idle"]
        /\ call = [t \in Threads |-> CHOOSE k \in Calls : TRUE]
        /\ stack = [t \in Threads |-> << >>]
        /\ res = [t \in Threads |-> "ok"]
        /\ calls = [t \in Threads |-> 0]

Next == \/ \E t \in Threads : StartCall(t) \/ Step(t)
        \/ Quiescent

\* As in IPAMLocks: the Go scheduler runs a runnable goroutine, and the
\* callers make finitely many calls.
Spec == Init /\ [][Next]_vars /\ \A t \in Threads : WF_vars(Step(t))

-----------------------------------------------------------------------------
(* Properties                                                              *)

\* Every call returns: InitializePool's nested a.Allocate must not wait on
\* the a.mu its own caller holds, and no other call may wait behind it.
AllCallsReturn == \A t \in Threads : pc[t] # "idle" ~> pc[t] = "idle"
=============================================================================
