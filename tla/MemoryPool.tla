------------------------------ MODULE MemoryPool ------------------------------
(***************************************************************************)
(* asMemoryPool (code/memory/asMemoryPool.h): blocks of one size on a free *)
(* list that is used as a stack and grows by half the initial number when  *)
(* it is empty.  A block that was destroyed stays readable: it belongs to  *)
(* the pool until the pool is gone.                                        *)
(***************************************************************************)
EXTENDS Naturals, Sequences

CONSTANT PoolSize   \* NUM

ASSUME PoolAssumption == PoolSize \in Nat /\ PoolSize >= 2

\* A pool: the free list from its head, and the number of blocks so far.
Pool == [free : Seq(Nat), total : Nat]

\* The new blocks are pushed one by one, the last becomes the head.
AllocateBlocks(p, n) ==
  [free |-> [i \in 1..n |-> p.total + n + 1 - i] \o p.free,
   total |-> p.total + n]

NewPool == AllocateBlocks([free |-> <<>>, total |-> 0], PoolSize)

Stocked(p) == IF p.free = <<>> THEN AllocateBlocks(p, PoolSize \div 2) ELSE p

\* Allocate takes the head of the list, Destroy puts a block back there.
Allocated(p) == Head(Stocked(p).free)
Allocate(p) == [Stocked(p) EXCEPT !.free = Tail(@)]
Destroy(p, b) == [p EXCEPT !.free = <<b>> \o @]

FreeBlocks(p) == {p.free[i] : i \in 1..Len(p.free)}
=============================================================================
