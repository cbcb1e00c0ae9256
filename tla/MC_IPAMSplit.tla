---------------------------- MODULE MC_IPAMSplit ----------------------------
(***************************************************************************)
(* The split of allocateSubnetForPool, checked over bounded inputs against *)
(* a reference: carving a /r off the low end of a free block B must leave  *)
(* remainders that, after the carved block, tile B exactly, in ascending   *)
(* order, each canonical (spec 4.2).  The inputs are every canonical block *)
(* of prefix MinBits..MaxPrefix at three places of the address space (the  *)
(* bottom, the middle and the top, where incIP's carry is dropped) and     *)
(* every request it fits.                                                  *)
(***************************************************************************)
EXTENDS Integers, Sequences

MaxPrefix == 25
MinBits == 16

VARIABLES blk, req

IPAM == INSTANCE IPAMAllocator
          WITH Slices <- {}, Names <- {}, VPN <- "VPN_Subnet", CIDRInputs <- {},
               CIDRSizes <- {}, Contexts <- {}, pools <- blk, ret <- req

Places(bits) == {0, IPAM!AddrSpace \div 2, IPAM!AddrSpace - IPAM!BlockSize(bits)}

Inputs == UNION {{<<[ip |-> a, bits |-> b], r>> : a \in Places(b), r \in b..MaxPrefix}
                  : b \in MinBits..MaxPrefix}

Init == \E x \in Inputs : blk = x[1] /\ req = x[2]
Next == UNCHANGED <<blk, req>>
Spec == Init /\ [][Next]_<<blk, req>>

\* The blocks the carve leaves: the allocation, then the remainders.
Pieces == << [ip |-> blk.ip, bits |-> req] >>
          \o (IF blk.bits < req THEN IPAM!Remainders(blk, req) ELSE << >>)

\* Carving a /req out of blk leaves pieces that are canonical, lie one after
\* the other with no gap or overlap, and end exactly where blk ends, so the
\* split neither leaks nor double-books an address and needs no re-sort.
SplitTilesBlock ==
  /\ \A k \in 1..Len(Pieces) : Pieces[k].ip % IPAM!BlockSize(Pieces[k].bits) = 0
  /\ \A k \in 1..Len(Pieces) - 1 :
       Pieces[k].ip + IPAM!BlockSize(Pieces[k].bits) = Pieces[k + 1].ip
  /\ Pieces[Len(Pieces)].ip + IPAM!BlockSize(Pieces[Len(Pieces)].bits)
       = blk.ip + IPAM!BlockSize(blk.bits)
=============================================================================
