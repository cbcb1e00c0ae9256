----------------------------- MODULE IPAMLocks -----------------------------
(***************************************************************************)
(* Goroutines calling the DynamicIPAMAllocator of                          *)
(* src/service/service_ipam_allocation.go concurrently.  Each call is cut  *)
(* at its lock operations: a.mu.Lock, the pools lookup, the registration  *)
(* of a new pool, pool.mu.Lock, the body under both locks, and the        *)
(* deferred unlocks in reverse order.  The body of a call under pool.mu   *)
(* is one step: it reads and writes only that pool.                       *)
(*                                                                         *)
(* The module shows that this lock protocol implements IPAMAllocator,     *)
(* where each call is one atomic step, and that every call returns.       *)
(***************************************************************************)
EXTENDS Integers, Sequences, TLC

CONSTANTS Slices, Names, VPN, CIDRInputs, CIDRSizes, Contexts, MaxPrefix,
          Threads,   \* goroutines calling the allocator
          MaxCalls,  \* calls each goroutine makes
          None       \* a free mutex

VARIABLES
  pools,  \* a.pools
  ret,    \* the outcome of the last call to reach its linearisation point
  amu,    \* a.mu: the goroutine holding it, or None
  pmu,    \* pool.mu of each slice's pool: its holder, or None
  pc,     \* where each goroutine is in its call
  call,   \* the call each goroutine is making
  calls   \* how many calls each goroutine has started

vars == <<pools, ret, amu, pmu, pc, call, calls>>

\* Pools hidden from the abstract view: registered by an InitializePool that
\* has not yet made its VPN reservation (it still holds a.mu).
Creating == {call[t].s : t \in {u \in Threads : call[u].op = "InitializePool"
                                               /\ pc[u] \in {"lockP", "body"}}}
AbsPools == [s \in DOMAIN pools \ Creating |-> pools[s]]

IPAM == INSTANCE IPAMAllocator WITH pools <- AbsPools

\* The calls the goroutines make, as one record shape; unused fields are fixed.
AnyName == CHOOSE c \in Names : TRUE
AnyCIDR == CHOOSE x \in CIDRInputs : TRUE
AnySize == CHOOSE r \in CIDRSizes : TRUE
Calls ==
  {[op |-> "InitializePool", s |-> s, c |-> AnyName, r |-> AnySize, cidr |-> x,
    ctx |-> IPAM!NoCtx] : s \in Slices, x \in CIDRInputs}
  \cup {[op |-> "Allocate", s |-> s, c |-> c, r |-> r, cidr |-> AnyCIDR, ctx |-> y] :
          s \in Slices, c \in Names, r \in CIDRSizes, y \in Contexts}
  \cup {[op |-> "Reclaim", s |-> s, c |-> c, r |-> AnySize, cidr |-> AnyCIDR, ctx |-> y] :
          s \in Slices, c \in Names, y \in Contexts}

-----------------------------------------------------------------------------
(* Steps of goroutine t                                                    *)

Goto(t, from, to) == pc[t] = from /\ pc' = [pc EXCEPT ![t] = to]

\* A goroutine starts one of its calls.
StartCall(t) ==
  /\ pc[t] = "idle"
  /\ calls[t] < MaxCalls
  /\ \E k \in Calls : call' = [call EXCEPT ![t] = k]
  /\ pc' = [pc EXCEPT ![t] = "lockA"]
  /\ calls' = [calls EXCEPT ![t] = @ + 1]
  /\ UNCHANGED <<pools, ret, amu, pmu>>

\* Mutant: the lock does not wait for its holder.
LockANoWait(t) ==
  /\ Goto(t, "lockA", "lookup")
  /\ amu' = t
  /\ UNCHANGED <<pools, ret, pmu, call, calls>>

\* a.mu.Lock(): blocks while another goroutine holds a.mu.
LockA(t) ==
  /\ amu = None
  /\ Goto(t, "lockA", "lookup")
  /\ amu' = t
  /\ UNCHANGED <<pools, ret, pmu, call, calls>>

\* Mutant: the PoolNotInitialized return does not release a.mu, as an
\* explicit Unlock missed on one path (instead of defer) would.
LookupReturnHoldingA(t) ==
  LET k == call[t] IN
  /\ pc[t] = "lookup"
  /\ \/ /\ k.op # "InitializePool" /\ k.s \notin DOMAIN pools
        /\ ret' = IPAM!Result(k.op, k.s, k.ctx, "PoolNotInitialized")
        /\ pc' = [pc EXCEPT ![t] = "idle"]
     \/ /\ k.op # "InitializePool" /\ k.s \in DOMAIN pools
        /\ pc' = [pc EXCEPT ![t] = "lockP"]
        /\ UNCHANGED ret
     \/ /\ k.op = "InitializePool" /\ k.s \notin DOMAIN pools /\ IPAM!ParseOK(k.cidr)
        /\ pc' = [pc EXCEPT ![t] = "register"]
        /\ UNCHANGED ret
  /\ UNCHANGED <<pools, amu, pmu, call, calls>>

\* pool, exists := a.pools[sliceName], and InitializePool's parse; the
\* early returns leave with only a.mu to release.
Lookup(t) ==
  LET k == call[t] IN
  /\ pc[t] = "lookup"
  /\ \/ /\ k.op = "InitializePool" /\ k.s \in DOMAIN pools
        /\ ret' = IPAM!Result(k.op, k.s, k.ctx, "ok")
        /\ pc' = [pc EXCEPT ![t] = "unlockA"]
     \/ /\ k.op = "InitializePool" /\ k.s \notin DOMAIN pools /\ ~IPAM!ParseOK(k.cidr)
        /\ ret' = IPAM!Result(k.op, k.s, k.ctx, "InvalidCIDR")
        /\ pc' = [pc EXCEPT ![t] = "unlockA"]
     \/ /\ k.op = "InitializePool" /\ k.s \notin DOMAIN pools /\ IPAM!ParseOK(k.cidr)
        /\ pc' = [pc EXCEPT ![t] = "register"]
        /\ UNCHANGED ret
     \/ /\ k.op # "InitializePool" /\ k.s \notin DOMAIN pools
        /\ ret' = IPAM!Result(k.op, k.s, k.ctx, "PoolNotInitialized")
        /\ pc' = [pc EXCEPT ![t] = "unlockA"]
     \/ /\ k.op # "InitializePool" /\ k.s \in DOMAIN pools
        /\ pc' = [pc EXCEPT ![t] = "lockP"]
        /\ UNCHANGED ret
  /\ UNCHANGED <<pools, amu, pmu, call, calls>>

\* a.pools[sliceName] = pool: the whole subnet free, nothing allocated.
Register(t) ==
  LET net == IPAM!ParseCIDR(call[t].cidr) IN
  /\ Goto(t, "register", "lockP")
  /\ pools' = (call[t].s :> [subnet |-> net, allocated |-> << >>, free |-> << net >>])
              @@ pools
  /\ UNCHANGED <<ret, amu, pmu, call, calls>>

\* pool.mu.Lock().
LockP(t) ==
  /\ pmu[call[t].s] = None
  /\ Goto(t, "lockP", "body")
  /\ pmu' = [pmu EXCEPT ![call[t].s] = t]
  /\ UNCHANGED <<pools, ret, amu, call, calls>>

\* The work under both locks: the VPN reservation, allocateSubnetForPool,
\* or Reclaim's delete-append-sort-sweep.
\* It stands for InitializePool lines 58-68, Allocate lines 84-88 and
\* Reclaim lines 106-135 of service_ipam_allocation.go; the last two are the
\* IPAMAllocator operators it reuses, mapped there.
Body(t) ==
  LET k == call[t]
      p == pools[k.s]
      res == IF k.op = "InitializePool"
             THEN IPAM!allocateSubnetForPool(p, VPN, IPAM!VPNPrefix)
             ELSE IPAM!allocateSubnetForPool(p, k.c, k.r)
  IN
  /\ Goto(t, "body", "unlockP")
  /\ \/ /\ k.op = "InitializePool"
        /\ pools' = [pools EXCEPT ![k.s] = res.pool]
        /\ ret' = IPAM!Result(k.op, k.s, k.ctx, IF res.err = "ok" THEN "ok" ELSE "VPNReservationFailed")
     \/ /\ k.op = "Allocate"
        /\ pools' = [pools EXCEPT ![k.s] = res.pool]
        /\ ret' = IPAM!Result(k.op, k.s, k.ctx, res.err)
     \/ /\ k.op = "Reclaim" /\ k.c \notin DOMAIN p.allocated
        /\ ret' = IPAM!Result(k.op, k.s, k.ctx, "NotAllocated")
        /\ UNCHANGED pools
     \/ /\ k.op = "Reclaim" /\ k.c \in DOMAIN p.allocated
        /\ pools' = [pools EXCEPT ![k.s] = IPAM!ReclaimPool(p, k.c)]
        /\ ret' = IPAM!Result(k.op, k.s, k.ctx, "ok")
  /\ UNCHANGED <<amu, pmu, call, calls>>

\* defer pool.mu.Unlock() runs first ...
UnlockP(t) ==
  /\ Goto(t, "unlockP", "unlockA")
  /\ pmu' = [pmu EXCEPT ![call[t].s] = None]
  /\ UNCHANGED <<pools, ret, amu, call, calls>>

\* ... then defer a.mu.Unlock(), and the call returns.
UnlockA(t) ==
  /\ Goto(t, "unlockA", "idle")
  /\ amu' = None
  /\ UNCHANGED <<pools, ret, pmu, call, calls>>

Step(t) == LockA(t) \/ Lookup(t) \/ Register(t) \/ LockP(t) \/ Body(t)
           \/ UnlockP(t) \/ UnlockA(t)

\* Every goroutine has made all its calls: the callers stop.
Quiescent == /\ \A t \in Threads : pc[t] = "idle" /\ calls[t] = MaxCalls
             /\ UNCHANGED vars

Init == /\ pools = << >>
        /\ ret = IPAM!Result("None", CHOOSE s \in Slices : TRUE, IPAM!NoCtx, "ok")
        /\ amu = None
        /\ pmu = [s \in Slices |-> None]
        /\ pc = [t \in Threads |-> "idle"]
        /\ call = [t \in Threads |-> CHOOSE k \in Calls : TRUE]
        /\ calls = [t \in Threads |-> 0]

Next == \/ \E t \in Threads : StartCall(t) \/ Step(t)
        \/ Quiescent

\* A goroutine that can take its next step is eventually scheduled; Go's
\* mutex hands a contended lock to a waiter, and callers make finitely
\* many calls, so weak fairness of each goroutine's steps suffices.
Spec == Init /\ [][Next]_vars /\ \A t \in Threads : WF_vars(Step(t))

-----------------------------------------------------------------------------
(* Properties                                                              *)

\* Every call returns: no goroutine blocks forever on a.mu or pool.mu.
AllCallsReturn == \A t \in Threads : pc[t] # "idle" ~> pc[t] = "idle"

\* Concurrent calls are linearisable: with pools mid-creation hidden, every
\* step of the lock-level system is a step of IPAMAllocator (or stutters).
AbstractSpec == IPAM!Spec
=============================================================================
