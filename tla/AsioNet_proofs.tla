---------------------------- MODULE AsioNet_proofs ----------------------------
(***************************************************************************)
(* Proofs about AsioNet and the memory pool under it, for any size of the  *)
(* pool, any limits, any number of connections and of calls.               *)
(***************************************************************************)
EXTENDS AsioNet, SequenceTheorems, FiniteSetTheorems, TLAPS

-----------------------------------------------------------------------------
(* The memory pool.                                                        *)

\* A free list without duplicates, of blocks that were allocated.
WellFormed(p) ==
  /\ p \in Pool
  /\ \A i, j \in 1..Len(p.free) : p.free[i] = p.free[j] => i = j
  /\ \A i \in 1..Len(p.free) : p.free[i] \in 1..p.total

\* New blocks are different from each other and from all that were there.
LEMMA AllocateBlocksSound ==
  ASSUME NEW p, WellFormed(p), NEW n \in Nat
  PROVE  LET q == AllocateBlocks(p, n)
         IN  /\ WellFormed(q)
             /\ q.total = p.total + n
             /\ Len(q.free) = n + Len(p.free)
             /\ \A i \in 1..n : q.free[i] > p.total
             /\ \A i \in 1..Len(p.free) : q.free[n + i] = p.free[i]
<1> DEFINE new == [i \in 1..n |-> p.total + n + 1 - i]
           q == AllocateBlocks(p, n)
<1>1. p.total \in Nat /\ p.free \in Seq(Nat) /\ Len(p.free) \in Nat
  BY LenProperties DEF WellFormed, Pool
<1>2. new \in Seq(Nat) /\ Len(new) = n
  <2>1. \A i \in 1..n : p.total + n + 1 - i \in Nat
    BY <1>1
  <2>2. new \in [1..n -> Nat]
    BY <2>1
  <2> QED
    BY <2>2, SeqDef, LenProperties
<1>3. q.free = new \o p.free /\ q.total = p.total + n
  BY DEF AllocateBlocks
<1>4. /\ q.free \in Seq(Nat)
      /\ Len(q.free) = n + Len(p.free)
      /\ \A i \in 1..n + Len(p.free) :
           q.free[i] = IF i <= n THEN new[i] ELSE p.free[i - n]
  BY <1>1, <1>2, <1>3, ConcatProperties
<1>5. \A i \in 1..n : q.free[i] = p.total + n + 1 - i
  <2>1. \A i \in 1..n : new[i] = p.total + n + 1 - i
    OBVIOUS
  <2> HIDE DEF new, q
  <2> TAKE i \in 1..n
  <2>2. i \in 1..n + Len(p.free) /\ i <= n
    BY <1>1
  <2> QED
    BY <1>4, <2>1, <2>2
<1> HIDE DEF new, q
<1>6. \A i \in 1..Len(p.free) : q.free[n + i] = p.free[i]
  <2> TAKE i \in 1..Len(p.free)
  <2>1. n + i \in 1..n + Len(p.free) /\ ~(n + i <= n) /\ n + i - n = i
    BY <1>1
  <2> QED
    BY <1>4, <2>1
<1>7. \A i \in 1..Len(q.free) : i > n => i - n \in 1..Len(p.free) /\ q.free[i] = p.free[i - n]
  BY <1>1, <1>4
<1>8. \A i \in 1..Len(q.free) :
        IF i <= n THEN q.free[i] = p.total + n + 1 - i
        ELSE q.free[i] \in 1..p.total
  <2> TAKE i \in 1..Len(q.free)
  <2>1. i \in Nat /\ i >= 1
    OBVIOUS
  <2>2. CASE i <= n
    BY <1>1, <1>5, <2>1, <2>2
  <2>3. CASE ~(i <= n)
    BY SMTT(30), <1>1, <1>7, <2>1, <2>3 DEF WellFormed
  <2> QED
    BY <2>2, <2>3
<1>9. \A i \in 1..Len(q.free) : q.free[i] \in 1..q.total
  <2> TAKE i \in 1..Len(q.free)
  <2>1. i \in Nat /\ i >= 1
    OBVIOUS
  <2>2. q.total = p.total + n
    BY <1>3
  <2>3. CASE i <= n
    BY <1>1, <1>8, <2>1, <2>2, <2>3
  <2>4. CASE ~(i <= n)
    <3>1. q.free[i] \in 1..p.total
      BY <1>8, <2>4
    <3> QED
      BY <1>1, <2>2, <3>1
  <2> QED
    BY <2>3, <2>4
<1>13. ASSUME NEW i \in 1..Len(q.free), NEW j \in 1..Len(q.free),
              q.free[i] = q.free[j]
       PROVE  i = j
  <2>1. i \in Nat /\ j \in Nat
    OBVIOUS
  <2>2. CASE i <= n /\ j <= n
    BY <1>1, <1>8, <1>13, <2>1, <2>2
  <2>3. CASE ~(i <= n) /\ ~(j <= n)
    <3>1. p.free[i - n] = p.free[j - n]
      BY <1>7, <1>13, <2>1, <2>3
    <3>2. i - n = j - n
      BY SMTT(30), <1>7, <2>1, <2>3, <3>1 DEF WellFormed
    <3> QED
      BY <2>1, <3>2
  <2>4. CASE (i <= n) # (j <= n)
    BY <1>1, <1>8, <1>13, <2>1, <2>4
  <2> QED
    BY <2>2, <2>3, <2>4
<1>10. q \in Pool
  BY <1>1, <1>3, <1>4 DEF q, Pool, AllocateBlocks
<1>11. WellFormed(q)
  BY <1>9, <1>10, <1>13 DEF WellFormed
<1>12. \A i \in 1..n : q.free[i] > p.total
  BY <1>1, <1>5
<1> QED
  BY <1>3, <1>4, <1>6, <1>11, <1>12 DEF q

\* Stocking an empty pool gives it at least one block.
LEMMA StockedSound ==
  ASSUME NEW p, WellFormed(p)
  PROVE  LET q == Stocked(p)
         IN  /\ WellFormed(q) /\ q.free # <<>>
             /\ q.total \in p.total..(p.total + (PoolSize \div 2))
             /\ \A b \in FreeBlocks(q) : b \in FreeBlocks(p) \/ b > p.total
<1> DEFINE h == PoolSize \div 2
           q == Stocked(p)
<1>1. h \in Nat /\ h >= 1 /\ p.total \in Nat
  BY PoolAssumption DEF WellFormed, Pool
<1>2. CASE p.free = <<>>
  <2>1. q = AllocateBlocks(p, h)
    BY <1>2 DEF Stocked
  <2>2. Len(p.free) = 0
    BY <1>2
  <2>3. /\ WellFormed(q) /\ q.total = p.total + h /\ Len(q.free) = h
        /\ \A i \in 1..h : q.free[i] > p.total
    BY <1>1, <2>1, <2>2, AllocateBlocksSound
  <2>4. q.free # <<>>
    BY <1>1, <2>3
  <2> QED
    BY <1>1, <2>3, <2>4 DEF FreeBlocks
<1>3. CASE p.free # <<>>
  <2>1. q = p
    BY <1>3 DEF Stocked
  <2> QED
    BY <1>1, <1>3, <2>1
<1> QED
  BY <1>2, <1>3

\* Allocate hands out a block that was free or is new, and it is free no more.
LEMMA AllocateSound ==
  ASSUME NEW p, WellFormed(p)
  PROVE  LET q == Allocate(p)
             b == Allocated(p)
         IN  /\ WellFormed(q)
             /\ b \in 1..q.total
             /\ b \notin FreeBlocks(q)
             /\ b \in FreeBlocks(p) \/ b > p.total
             /\ \A c \in FreeBlocks(q) : c \in FreeBlocks(p) \/ c > p.total
             /\ q.total \in p.total..(p.total + (PoolSize \div 2))
<1> DEFINE r == Stocked(p)
           q == Allocate(p)
           b == Allocated(p)
<1>1. /\ WellFormed(r) /\ r.free # <<>>
      /\ r.total \in p.total..(p.total + (PoolSize \div 2))
      /\ \A c \in FreeBlocks(r) : c \in FreeBlocks(p) \/ c > p.total
  BY StockedSound
<1>2. r.free \in Seq(Nat) /\ r.total \in Nat
  BY <1>1 DEF WellFormed, Pool
<1>3. /\ Len(r.free) \in Nat /\ Len(r.free) >= 1
      /\ Tail(r.free) \in Seq(Nat)
      /\ Len(Tail(r.free)) = Len(r.free) - 1
      /\ \A i \in 1..Len(Tail(r.free)) : Tail(r.free)[i] = r.free[i + 1]
  BY <1>1, <1>2, HeadTailProperties, EmptySeq, LenProperties
<1>4. q.free = Tail(r.free) /\ q.total = r.total /\ q \in Pool
  BY <1>1, <1>3 DEF Allocate, WellFormed, Pool
<1>5. b = r.free[1]
  BY <1>1, <1>2, <1>3 DEF Allocated
<1>6. \A i \in 1..Len(q.free) : i + 1 \in 1..Len(r.free) /\ q.free[i] = r.free[i + 1]
  BY <1>3, <1>4
<1>7. WellFormed(q)
  BY <1>1, <1>3, <1>4, <1>6 DEF WellFormed
<1>8. b \in 1..q.total /\ b \in FreeBlocks(r)
  BY <1>1, <1>3, <1>4, <1>5 DEF WellFormed, FreeBlocks
<1>9. b \notin FreeBlocks(q)
  <2> SUFFICES ASSUME NEW i \in 1..Len(q.free), q.free[i] = b PROVE FALSE
    BY DEF FreeBlocks
  <2>1. i + 1 \in 1..Len(r.free) /\ r.free[i + 1] = b /\ 1 \in 1..Len(r.free)
    BY <1>3, <1>6
  <2>2. i + 1 = 1
    BY <1>1, <1>5, <2>1 DEF WellFormed
  <2> QED
    BY <2>2
<1>10. \A c \in FreeBlocks(q) : c \in FreeBlocks(r)
  BY <1>6 DEF FreeBlocks
<1> QED
  BY <1>1, <1>4, <1>7, <1>8, <1>9, <1>10

\* A block that is in use can be given back.
LEMMA DestroySound ==
  ASSUME NEW p, WellFormed(p), NEW b \in 1..p.total, b \notin FreeBlocks(p)
  PROVE  LET q == Destroy(p, b)
         IN  /\ WellFormed(q) /\ q.total = p.total
             /\ FreeBlocks(q) = FreeBlocks(p) \cup {b}
<1> DEFINE q == Destroy(p, b)
<1>1. p.free \in Seq(Nat) /\ p.total \in Nat /\ Len(p.free) \in Nat /\ b \in Nat
  BY LenProperties DEF WellFormed, Pool
<1>2. <<b>> \in Seq(Nat) /\ Len(<<b>>) = 1 /\ <<b>>[1] = b
  BY <1>1
<1>3. q.free = <<b>> \o p.free /\ q.total = p.total
  BY DEF Destroy, WellFormed, Pool
<1>4. /\ q.free \in Seq(Nat) /\ Len(q.free) = 1 + Len(p.free)
      /\ \A i \in 1..1 + Len(p.free) :
           q.free[i] = IF i <= 1 THEN <<b>>[i] ELSE p.free[i - 1]
  BY <1>1, <1>2, <1>3, ConcatProperties
<1> HIDE DEF q
<1>5. q.free[1] = b /\ \A i \in 1..Len(p.free) : q.free[i + 1] = p.free[i]
  <2>1. 1 \in 1..1 + Len(p.free) /\ 1 <= 1
    BY <1>1
  <2>2. ASSUME NEW i \in 1..Len(p.free) PROVE q.free[i + 1] = p.free[i]
    <3> DEFINE k == i + 1
    <3>1. k \in 1..1 + Len(p.free) /\ ~(k <= 1) /\ k - 1 = i
      BY <1>1
    <3> HIDE DEF k
    <3>2. q.free[k] = IF k <= 1 THEN <<b>>[k] ELSE p.free[k - 1]
      BY <1>4, <3>1
    <3>3. q.free[k] = p.free[i]
      BY <3>1, <3>2
    <3> QED
      BY <3>3 DEF k
  <2> QED
    BY <1>2, <1>4, <2>1, <2>2
<1>6. \A i \in 1..Len(q.free) :
        i = 1 \/ (i - 1 \in 1..Len(p.free) /\ q.free[i] = p.free[i - 1])
  BY <1>1, <1>4
<1>7. q \in Pool
  BY <1>1, <1>3, <1>4 DEF q, Destroy, Pool, WellFormed
<1>8. \A i \in 1..Len(p.free) : p.free[i] # b
  BY DEF FreeBlocks
<1>9. ASSUME NEW i \in 1..Len(q.free), NEW j \in 1..Len(q.free),
             q.free[i] = q.free[j]
      PROVE  i = j
  <2>1. CASE i = 1 \/ j = 1
    BY <1>5, <1>6, <1>8, <1>9, <2>1
  <2>2. CASE i # 1 /\ j # 1
    <3>1. i - 1 = j - 1
      BY <1>6, <1>9, <2>2 DEF WellFormed
    <3> QED
      BY <3>1
  <2> QED
    BY <2>1, <2>2
<1>10. \A i \in 1..Len(q.free) : q.free[i] \in 1..q.total
  BY <1>1, <1>3, <1>5, <1>6 DEF WellFormed
<1>11. FreeBlocks(q) = FreeBlocks(p) \cup {b}
  <2>1. \A c \in FreeBlocks(q) : c \in FreeBlocks(p) \cup {b}
    <3> SUFFICES ASSUME NEW i \in 1..Len(q.free)
                 PROVE  q.free[i] \in FreeBlocks(p) \cup {b}
      BY DEF FreeBlocks
    <3>1. CASE i = 1
      BY <1>5, <3>1
    <3>2. CASE i # 1
      BY <1>6, <3>2 DEF FreeBlocks
    <3> QED
      BY <3>1, <3>2
  <2>2. b \in FreeBlocks(q)
    BY <1>1, <1>4, <1>5 DEF FreeBlocks
  <2>3. \A c \in FreeBlocks(p) : c \in FreeBlocks(q)
    <3> SUFFICES ASSUME NEW i \in 1..Len(p.free) PROVE p.free[i] \in FreeBlocks(q)
      BY DEF FreeBlocks
    <3>1. i + 1 \in 1..Len(q.free) /\ q.free[i + 1] = p.free[i]
      BY <1>1, <1>4, <1>5
    <3> QED
      BY <3>1 DEF FreeBlocks
  <2> QED
    BY <2>1, <2>2, <2>3
<1> QED
  BY <1>3, <1>7, <1>9, <1>10, <1>11 DEF WellFormed, q

\* As many blocks are free as the free list is long.
LEMMA FreeCount ==
  ASSUME NEW p, WellFormed(p)
  PROVE  Cardinality(FreeBlocks(p)) = Len(p.free)
<1> DEFINE n == Len(p.free)
           f == [i \in 1..n |-> p.free[i]]
<1>1. n \in Nat
  BY LenProperties DEF WellFormed, Pool
<1>2. IsFiniteSet(1..n) /\ Cardinality(1..n) = n
  BY <1>1, FS_Interval
<1>3. f \in [1..n -> FreeBlocks(p)]
  BY DEF FreeBlocks
<1>4. \A i, j \in 1..n : f[i] = f[j] => i = j
  BY DEF WellFormed
<1>5. \A b \in FreeBlocks(p) : \E i \in 1..n : f[i] = b
  BY DEF FreeBlocks
<1>6. f \in Bijection(1..n, FreeBlocks(p))
  BY <1>3, <1>4, <1>5 DEF Bijection, Injection, Surjection, IsInjective
<1>7. ExistsBijection(1..n, FreeBlocks(p))
  BY <1>6 DEF ExistsBijection
<1> QED
  BY <1>2, <1>7, FS_Bijection

\* The pool as its constructor leaves it.
LEMMA NewPoolSound ==
  WellFormed(NewPool) /\ NewPool.total = PoolSize
<1> DEFINE p == [free |-> <<>>, total |-> 0]
<1>1. p.free = <<>> /\ p.total = 0 /\ Len(p.free) = 0 /\ p \in Pool
  BY DEF Pool
<1>2. WellFormed(p)
  BY <1>1 DEF WellFormed
<1>3. NewPool = AllocateBlocks(p, PoolSize)
  BY DEF NewPool
<1> QED
  BY <1>1, <1>2, <1>3, AllocateBlocksSound, PoolAssumption

-----------------------------------------------------------------------------
(* The inductive invariant.                                                *)

Positions == 1..Len(queue)

\* A completed accept that gets a session or is tried again.
Accepted(i) == queue[i].op = "accept" /\ queue[i].r # "aborted"
Adds(i) == queue[i].op = "add"
Completed(i) == queue[i].op \in {"received", "written"}

\* The id that was allocated last has no session yet.
Awaited ==
  connect = "trying" \/ accepting # 0 \/ \E i \in Positions : Accepted(i)

\* What a handler in the queue carries.
HandlerInv ==
  \A i \in Positions :
    /\ queue[i].op \in {"accept", "close", "send", "sendAll"} => queue[i].b = 0
    /\ queue[i].op \in {"send", "sendAll"} => queue[i].d \in Messages
    /\ Adds(i) => queue[i].r = "ok"
    /\ Completed(i) =>
         /\ queue[i].s \in Ids /\ queue[i].b \in Blocks
         /\ block[queue[i].s] = queue[i].b /\ socket[queue[i].s] # "none"

\* At most one accept is under way, for the id allocated last; a client that
\* connects has neither accepts nor sessions.
AcceptInv ==
  /\ accepting # 0 => accepting = ids
  /\ \A i \in Positions : Accepted(i) =>
       /\ accepting = 0 /\ queue[i].s = ids /\ ids \in Ids
       /\ \A j \in Positions : Accepted(j) => i = j
  /\ connect # "no" =>
       accepting = 0 /\ \A i \in Positions : ~Accepted(i) /\ ~Adds(i)
  /\ connect = "trying" =>
       /\ ids = 1 /\ \A s \in Ids : socket[s] = "none"
       /\ \A i \in Positions : ~Completed(i)

\* Ids are used in their order.
FreshInv ==
  \A s \in Ids : s > ids \/ (s = ids /\ Awaited) => socket[s] = "none"

\* The pool grows with the ids: the blocks are enough.  No two sessions that
\* live share one, and m_id of a block names a session that was given it.
PoolInv ==
  /\ WellFormed(pool)
  /\ pool.total <= PoolSize + ids * (PoolSize \div 2)
  /\ Awaited => /\ ids >= 1
                /\ pool.total <= PoolSize + (ids - 1) * (PoolSize \div 2)
  /\ \A s \in Living :
       block[s] \in 1..pool.total /\ ~Free(block[s]) /\ owner[block[s]] = s
  /\ \A b \in Blocks :
       owner[b] # 0 => block[owner[b]] = b /\ socket[owner[b]] # "none"

\* A session lives from its accept; it is entered by the task that the accept
\* posted, which runs before the next accept can complete.
MemberInv ==
  /\ members \subseteq Living
  /\ \A i \in Positions : Adds(i) =>
       /\ queue[i].s \in Living \ members /\ block[queue[i].s] = queue[i].b
       /\ \A j \in Positions : Accepted(j) => i < j
       /\ \A j \in Positions : Adds(j) => i = j
  /\ \A s \in Living \ members : \E i \in Positions : Adds(i) /\ queue[i].s = s

\* A completion that meets its block with another session comes before the
\* task that enters this session.
StaleInv ==
  \A i \in Positions :
    Completed(i) /\ owner[queue[i].b] # queue[i].s =>
      /\ owner[queue[i].b] \notin members
      /\ \A j \in Positions : Adds(j) /\ queue[j].b = queue[i].b => i < j

RunInv ==
  /\ HandlerInv /\ AcceptInv /\ FreshInv /\ PoolInv /\ MemberInv /\ StaleInv

Running == thread = "run" /\ stop # "done"

\* The handlers of a network that was stopped are dropped.
Drained == thread = "run" /\ stop = "done" => queue = <<>>

IInv == TypeOK /\ SessionBound /\ (Running => RunInv) /\ Drained
-----------------------------------------------------------------------------
(* The queue of handlers.                                                  *)

\* The first k handlers are gone and those of p have joined.
Moves(k, p) ==
  /\ queue' \in Seq(Handler)
  /\ \A i \in Positions' :
       \/ i + k \in Positions /\ queue'[i] = queue[i + k]
       \/ \E j \in 1..Len(p) : i = Len(queue) - k + j /\ queue'[i] = p[j]
  /\ \A i \in Positions : i > k => i - k \in Positions' /\ queue'[i - k] = queue[i]
  /\ \A j \in 1..Len(p) :
       Len(queue) - k + j \in Positions' /\ queue'[Len(queue) - k + j] = p[j]

LEMMA Stays == ASSUME TypeOK, UNCHANGED queue PROVE Moves(0, <<>>)
BY LenProperties DEF TypeOK, Moves, Positions

\* A handler that is run goes, what it posts joins.
LEMMA ThenMoves ==
  ASSUME TypeOK, queue # <<>>, NEW p \in Seq(Handler), Then(p)
  PROVE  Moves(1, p) /\ 1 \in Positions /\ H = queue[1] /\ H \in Handler
<1> DEFINE n == Len(queue)
<1>1. /\ queue \in Seq(Handler) /\ n \in Nat /\ n >= 1
      /\ Tail(queue) \in Seq(Handler) /\ Len(Tail(queue)) = n - 1
      /\ \A i \in 1..n - 1 : Tail(queue)[i] = queue[i + 1]
  BY HeadTailProperties, LenProperties, EmptySeq DEF TypeOK
<1>2. Len(p) \in Nat
  BY LenProperties
<1>3. /\ queue' \in Seq(Handler) /\ Len(queue') = n - 1 + Len(p)
      /\ \A i \in 1..n - 1 + Len(p) :
           queue'[i] = IF i <= n - 1 THEN Tail(queue)[i] ELSE p[i - (n - 1)]
  BY <1>1, ConcatProperties DEF Then
<1> HIDE DEF n
<1>4. ASSUME NEW i \in Positions'
      PROVE  \/ i + 1 \in Positions /\ queue'[i] = queue[i + 1]
             \/ \E j \in 1..Len(p) : i = n - 1 + j /\ queue'[i] = p[j]
  <2>1. i \in 1..n - 1 + Len(p)
    BY <1>3 DEF Positions
  <2>2. CASE i <= n - 1
    <3>1. i \in 1..n - 1 /\ i + 1 \in 1..n
      BY <1>1, <2>1, <2>2
    <3> QED
      BY <1>1, <1>3, <2>1, <2>2, <3>1 DEF Positions, n
  <2>3. CASE ~(i <= n - 1)
    <3>1. i - (n - 1) \in 1..Len(p) /\ i = n - 1 + (i - (n - 1))
      BY <1>1, <1>2, <2>1, <2>3
    <3>2. queue'[i] = p[i - (n - 1)]
      BY <1>3, <2>1, <2>3
    <3> QED
      BY <3>1, <3>2
  <2> QED
    BY <2>2, <2>3
<1>5. ASSUME NEW i \in Positions, i > 1
      PROVE  i - 1 \in Positions' /\ queue'[i - 1] = queue[i]
  <2>1. i \in 1..n
    BY DEF Positions, n
  <2>2. i - 1 \in 1..n - 1 /\ i - 1 \in 1..n - 1 + Len(p) /\ i - 1 <= n - 1
        /\ (i - 1) + 1 = i
    BY <1>1, <1>2, <1>5, <2>1
  <2> QED
    BY <1>1, <1>3, <2>2 DEF Positions
<1>6. ASSUME NEW j \in 1..Len(p)
      PROVE  n - 1 + j \in Positions' /\ queue'[n - 1 + j] = p[j]
  <2>1. n - 1 + j \in 1..n - 1 + Len(p) /\ ~(n - 1 + j <= n - 1)
        /\ (n - 1 + j) - (n - 1) = j
    BY <1>1, <1>2
  <2> QED
    BY <1>3, <2>1 DEF Positions
<1>7. 1 \in Positions /\ H = queue[1] /\ H \in Handler
  <2>1. 1 \in 1..n
    BY <1>1
  <2> QED
    BY <1>1, <2>1, ElementOfSeq DEF H, Positions, n
<1> QED
  BY <1>3, <1>4, <1>5, <1>6, <1>7 DEF Moves, n

LEMMA AppendMoves ==
  ASSUME TypeOK, NEW h \in Handler, queue' = Append(queue, h)
  PROVE  Moves(0, <<h>>)
<1> DEFINE n == Len(queue)
<1>1. queue \in Seq(Handler) /\ n \in Nat
  BY LenProperties DEF TypeOK
<1>2. /\ queue' \in Seq(Handler) /\ Len(queue') = n + 1
      /\ \A i \in 1..n : queue'[i] = queue[i]
      /\ queue'[n + 1] = h
  BY <1>1, AppendProperties
<1>3. Len(<<h>>) = 1 /\ <<h>>[1] = h
  OBVIOUS
<1> HIDE DEF n
<1>4. \A i \in Positions' : (i + 0 \in Positions /\ queue'[i] = queue[i + 0])
                              \/ (i = n - 0 + 1 /\ queue'[i] = h)
  BY <1>1, <1>2 DEF Positions, n
<1>5. \A i \in Positions : i - 0 \in Positions' /\ queue'[i - 0] = queue[i]
  BY <1>1, <1>2 DEF Positions, n
<1>6. n - 0 + 1 \in Positions' /\ queue'[n - 0 + 1] = h
  BY <1>1, <1>2 DEF Positions
<1>7. \A j \in 1..Len(<<h>>) : j = 1
  BY <1>3
<1>8. 1 \in 1..Len(<<h>>)
  BY <1>3
<1> QED
  BY <1>2, <1>3, <1>4, <1>5, <1>6, <1>7, <1>8 DEF Moves, n

Ops == {"accept", "add", "received", "written", "close", "send", "sendAll"}
Results == {"ok", "error", "aborted"}

LEMMA HandlerTypes ==
  ASSUME TypeOK
  PROVE  /\ \A op \in Ops, s \in 0..MaxIds + 1, b \in {0} \cup Blocks,
               d \in 0..MaxCalls : Task(op, s, b, d) \in Handler
         /\ \A s \in 0..MaxIds + 1, r \in Results :
              [Task("accept", s, 0, 0) EXCEPT !.r = r]
                = [op |-> "accept", s |-> s, b |-> 0, d |-> 0, r |-> r]
         /\ \A s \in 0..MaxIds + 1, r \in Results :
              [Task("accept", s, 0, 0) EXCEPT !.r = r] \in Handler
         /\ \A op \in {"received", "written"}, s \in Ids, r \in Results :
              Completion(op, s, r) \in Handler
<1>1. 0 \in 0..MaxCalls /\ Ids \subseteq 0..MaxIds + 1
  BY AsioAssumption DEF Ids
<1>2. \A op \in Ops, s \in 0..MaxIds + 1, b \in {0} \cup Blocks, d \in 0..MaxCalls :
        Task(op, s, b, d) \in Handler
  BY DEF Handler, Task, Ops
<1>3. \A s \in 0..MaxIds + 1, r \in Results :
        [Task("accept", s, 0, 0) EXCEPT !.r = r]
          = [op |-> "accept", s |-> s, b |-> 0, d |-> 0, r |-> r]
  BY DEF Task
<1>4. \A s \in 0..MaxIds + 1, r \in Results :
        [Task("accept", s, 0, 0) EXCEPT !.r = r] \in Handler
  <2>1. \A s \in 0..MaxIds + 1, r \in Results :
          [op |-> "accept", s |-> s, b |-> 0, d |-> 0, r |-> r] \in Handler
    BY <1>1 DEF Handler, Results
  <2> HIDE DEF Results
  <2> TAKE s \in 0..MaxIds + 1, r \in Results
  <2>2. [Task("accept", s, 0, 0) EXCEPT !.r = r]
          = [op |-> "accept", s |-> s, b |-> 0, d |-> 0, r |-> r]
    BY <1>3
  <2> QED
    BY ONLY <2>1, <2>2
<1>5. \A op \in {"received", "written"}, s \in Ids, r \in Results :
        Completion(op, s, r) \in Handler
  <2>1. \A s \in Ids : block[s] \in {0} \cup Blocks
    BY DEF TypeOK
  <2> QED
    BY <1>1, <2>1 DEF Handler, Completion, Results
<1> QED
  BY <1>2, <1>3, <1>4, <1>5
-----------------------------------------------------------------------------
(* Types.                                                                  *)

LEMMA TypeCorrectInit == Init => TypeOK
<1> SUFFICES ASSUME Init PROVE TypeOK
  OBVIOUS
<1>1. <<>> \in Seq(Handler) /\ <<>> \in Seq(Messages)
  OBVIOUS
<1>2. NewPool \in Pool
  BY NewPoolSound DEF WellFormed
<1>3. /\ 0 \in 0..MaxIds + 1 /\ 1 \in 0..MaxIds + 1 /\ 0 \in 0..MaxIds
      /\ 0 \in 0..MaxCalls
  BY AsioAssumption
<1> QED
  BY <1>1, <1>2, <1>3 DEF Init, TypeOK

\* There is a block for the id that awaits its session.
LEMMA BlocksSuffice ==
  ASSUME TypeOK, PoolInv, Awaited, ids \in Ids
  PROVE  /\ Allocated(pool) \in Blocks
         /\ WellFormed(Allocate(pool))
         /\ Allocate(pool).total <= PoolSize + ids * (PoolSize \div 2)
<1> DEFINE h == PoolSize \div 2
           q == Allocate(pool)
           b == Allocated(pool)
<1>1. h \in Nat /\ MaxIds \in Nat /\ ids \in Nat /\ ids >= 1 /\ ids <= MaxIds
  BY PoolAssumption, AsioAssumption DEF Ids
<1>2. WellFormed(q) /\ b \in 1..q.total /\ q.total \in pool.total..(pool.total + h)
  BY AllocateSound DEF PoolInv
<1>3. pool.total <= PoolSize + (ids - 1) * h
  BY DEF PoolInv
<1>4. q.total \in Nat /\ pool.total \in Nat /\ PoolSize \in Nat
  BY <1>2, PoolAssumption DEF WellFormed, Pool, PoolInv
<1> HIDE DEF h, q, b
<1>5. (ids - 1) * h + h = ids * h
  BY <1>1
<1>6. ids * h <= MaxIds * h
  BY <1>1
<1>7. (ids - 1) * h \in Int /\ ids * h \in Int /\ MaxIds * h \in Int
  BY <1>1
<1>8. q.total <= PoolSize + ids * h
  <2> DEFINE x == (ids - 1) * h
             y == ids * h
  <2>1. x \in Int /\ y \in Int /\ x + h = y /\ pool.total <= PoolSize + x
    BY <1>3, <1>5, <1>7
  <2> HIDE DEF x, y
  <2>2. q.total <= PoolSize + y
    BY <1>1, <1>2, <1>4, <2>1
  <2> QED
    BY <2>2 DEF y
<1>9. b \in 1..PoolSize + MaxIds * h
  <2> DEFINE y == ids * h
             z == MaxIds * h
  <2>1. y \in Int /\ z \in Int /\ y <= z /\ q.total <= PoolSize + y
    BY <1>6, <1>7, <1>8
  <2> HIDE DEF y, z
  <2>2. b \in 1..PoolSize + z
    BY <1>2, <1>4, <2>1
  <2> QED
    BY <2>2 DEF z
<1> QED
  BY <1>2, <1>8, <1>9 DEF h, q, b, Blocks

LEMMA NewSessionTypes ==
  ASSUME TypeOK, PoolInv, Awaited, ids \in Ids, NewSession(ids)
  PROVE  /\ pool' \in Pool /\ block' \in [Ids -> {0} \cup Blocks]
         /\ owner' \in [Blocks -> 0..MaxIds] /\ pending' \in [Blocks -> BOOLEAN]
         /\ sendQueue' \in [Blocks -> Seq(Messages)]
         /\ socket' \in [Ids -> {"none", "open", "closed"}]
<1>1. Allocated(pool) \in Blocks /\ Allocate(pool) \in Pool
  BY BlocksSuffice DEF WellFormed
<1>2. ids \in 0..MaxIds /\ <<>> \in Seq(Messages)
  BY AsioAssumption DEF Ids
<1> QED
  BY <1>1, <1>2 DEF NewSession, TypeOK

\* The next accept gets an id.
LEMMA DoAcceptTypes ==
  ASSUME TypeOK, ids \in Ids, DoAccept
  PROVE  /\ accepting' \in 0..MaxIds + 1 /\ ids' \in 0..MaxIds + 1
         /\ thread' \in {"run", "undefined"}
<1>1. ids + 1 \in 0..MaxIds + 1
  BY AsioAssumption DEF Ids
<1> QED
  BY <1>1 DEF DoAccept, TypeOK

\* What closing a session does to the queue: the operations outstanding on it
\* complete as aborted.
Aborted(s) == [i \in 1..reads[s] |-> Completion("received", s, "aborted")] \o
              IF writing[s] = "no" THEN <<>>
              ELSE <<Completion("written", s, "aborted")>>

LEMMA AbortedTypes ==
  ASSUME TypeOK, NEW s \in Ids
  PROVE  /\ Aborted(s) \in Seq(Handler)
         /\ \A j \in 1..Len(Aborted(s)) :
              Aborted(s)[j] \in {Completion("received", s, "aborted"),
                                 Completion("written", s, "aborted")}
<1> DEFINE n == reads[s]
           r == [i \in 1..n |-> Completion("received", s, "aborted")]
           w == IF writing[s] = "no" THEN <<>>
                ELSE <<Completion("written", s, "aborted")>>
<1>1. n \in Nat
  BY DEF TypeOK
<1>2. /\ Completion("received", s, "aborted") \in Handler
      /\ Completion("written", s, "aborted") \in Handler
  BY HandlerTypes DEF Results
<1>3. r \in [1..n -> Handler]
  BY <1>2
<1>4. r \in Seq(Handler) /\ Len(r) = n
  BY <1>1, <1>3, SeqDef, LenProperties
<1>5. w \in Seq(Handler)
  BY <1>2
<1>6. \A j \in 1..Len(w) : w[j] = Completion("written", s, "aborted")
  <2>1. CASE writing[s] = "no"
    BY <2>1
  <2>2. CASE writing[s] # "no"
    <3>1. w = <<Completion("written", s, "aborted")>>
      BY <2>2
    <3>2. Len(w) = 1 /\ w[1] = Completion("written", s, "aborted")
      BY <3>1
    <3> QED
      BY <3>2
  <2> QED
    BY <2>1, <2>2
<1>7. \A j \in 1..n : r[j] = Completion("received", s, "aborted")
  OBVIOUS
<1>8. Len(w) \in Nat
  BY <1>5, LenProperties
<1>9. Aborted(s) = r \o w
  BY DEF Aborted
<1> HIDE DEF r, w, n
<1>10. /\ Aborted(s) \in Seq(Handler) /\ Len(Aborted(s)) = n + Len(w)
       /\ \A j \in 1..n + Len(w) :
            Aborted(s)[j] = IF j <= n THEN r[j] ELSE w[j - n]
  BY <1>4, <1>5, <1>9, ConcatProperties
<1>11. ASSUME NEW j \in 1..n + Len(w)
       PROVE  Aborted(s)[j] \in {Completion("received", s, "aborted"),
                                 Completion("written", s, "aborted")}
  <2>1. CASE j <= n
    <3>1. j \in 1..n
      BY <1>1, <2>1
    <3> QED
      BY <1>7, <1>10, <2>1, <3>1
  <2>2. CASE ~(j <= n)
    <3>1. j - n \in 1..Len(w)
      BY <1>1, <1>8, <2>2
    <3> QED
      BY <1>6, <1>10, <2>2, <3>1
  <2> QED
    BY <2>1, <2>2
<1> QED
  BY <1>10, <1>11

LEMMA CloseSessionTypes ==
  ASSUME TypeOK, queue # <<>>, NEW s, CloseSession(s),
         s \in members => block[s] \in Nat
  PROVE  /\ queue' \in Seq(Handler) /\ members' \subseteq Ids /\ pool' \in Pool
         /\ socket' \in [Ids -> {"none", "open", "closed"}]
         /\ reads' \in [Ids -> Nat] /\ writing' \in [Ids -> {"no", "begun", "part"}]
<1>1. CASE s \in members
  <2>1. s \in Ids
    BY <1>1 DEF TypeOK
  <2>2. Then(Aborted(s))
    BY <1>1 DEF CloseSession, Aborted
  <2>3. queue' \in Seq(Handler)
    BY <2>1, <2>2, AbortedTypes, ThenMoves DEF Moves
  <2>4. pool' \in Pool
    <3>1. pool' = Destroy(pool, block[s]) /\ block[s] \in Nat /\ pool \in Pool
      BY <1>1 DEF CloseSession, TypeOK
    <3>2. <<block[s]>> \in Seq(Nat) /\ pool.free \in Seq(Nat)
      BY <3>1 DEF Pool
    <3>3. <<block[s]>> \o pool.free \in Seq(Nat)
      BY <3>2, ConcatProperties
    <3> QED
      BY <3>1, <3>3 DEF Destroy, Pool
  <2> QED
    <3>1. /\ socket' = [socket EXCEPT ![s] = "closed"]
          /\ reads' = [reads EXCEPT ![s] = 0] /\ writing' = [writing EXCEPT ![s] = "no"]
          /\ members' = members \ {s}
      BY <1>1 DEF CloseSession
    <3> QED
      BY <2>1, <2>3, <2>4, <3>1 DEF TypeOK
<1>2. CASE s \notin members
  <2>1. Then(<<>>) /\ <<>> \in Seq(Handler)
    BY <1>2 DEF CloseSession
  <2>2. queue' \in Seq(Handler)
    BY <2>1, ThenMoves DEF Moves
  <2> QED
    BY <1>2, <2>2 DEF CloseSession, TypeOK
<1> QED
  BY <1>1, <1>2
\* No step breaks a type.
LEMMA TypeCorrectStep ==
  ASSUME TypeOK, Running => RunInv, [Next]_vars
  PROVE  TypeOK'
<1> DEFINE Same == UNCHANGED <<thread, stopVars, acceptVars, members, blockVars,
                               pending, sendQueue, ioVars, peer, userVars, wire>>
<1>0. CASE UNCHANGED vars
  BY <1>0 DEF TypeOK, vars, stopVars, acceptVars, blockVars, ioVars, userVars, Pool
<1>1. ASSUME NEW op, Run(op)
      PROVE  RunInv /\ Running /\ queue # <<>> /\ 1 \in Positions /\ H = queue[1]
             /\ H \in Handler /\ H.op = op
  <2>1. RunInv /\ Running /\ queue # <<>> /\ H.op = op
    BY <1>1 DEF Run, Running, H
  <2>2. <<>> \in Seq(Handler) /\ queue \in Seq(Handler)
    BY DEF TypeOK
  <2>3. Len(queue) \in Nat /\ Len(queue) >= 1
    BY <2>1, <2>2, LenProperties, EmptySeq
  <2>4. 1 \in 1..Len(queue)
    BY <2>3
  <2>5. H = queue[1] /\ H \in Handler
    BY <2>1, <2>2, <2>4, ElementOfSeq DEF H
  <2> QED
    BY <2>1, <2>4, <2>5 DEF Positions
<1>2. ASSUME NEW task \in Handler, Post(task) PROVE TypeOK'
  <2>1. queue' \in Seq(Handler)
    BY <1>2, AppendMoves DEF Post, Moves
  <2>2. calls' \in 0..MaxCalls
    BY <1>2, AsioAssumption DEF Post, TypeOK
  <2> QED
    BY <1>2, <2>1, <2>2 DEF Post, TypeOK, stopVars, acceptVars, blockVars, ioVars
<1>3. CASE \E s \in Ids : DoSendData(s) \/ DoCloseSession(s)
  <2>1. PICK s \in Ids : DoSendData(s) \/ DoCloseSession(s)
    BY <1>3
  <2>2. calls < MaxCalls => calls + 1 \in 0..MaxCalls
    BY AsioAssumption DEF TypeOK
  <2>3. s \in 0..MaxIds + 1 /\ 0 \in 0..MaxCalls
    BY AsioAssumption DEF Ids
  <2>4. CASE DoSendData(s)
    <3>1. Task("send", s, 0, calls + 1) \in Handler
      BY <2>2, <2>3, <2>4, HandlerTypes DEF DoSendData, Post, Ops
    <3> QED
      BY <1>2, <2>4, <3>1 DEF DoSendData
  <2>5. CASE DoCloseSession(s)
    <3>1. Task("close", s, 0, 0) \in Handler
      BY <2>3, HandlerTypes DEF Ops
    <3> QED
      BY <1>2, <2>5, <3>1 DEF DoCloseSession
  <2> QED
    BY <2>1, <2>4, <2>5
<1>4. CASE DoSendDataAll
  <2>1. calls < MaxCalls => calls + 1 \in 0..MaxCalls
    BY AsioAssumption DEF TypeOK
  <2>2. 0 \in 0..MaxIds + 1
    BY AsioAssumption
  <2>3. Task("sendAll", 0, 0, calls + 1) \in Handler
    BY <1>4, <2>1, <2>2, HandlerTypes DEF DoSendDataAll, Post, Ops
  <2> QED
    BY <1>2, <1>4, <2>3 DEF DoSendDataAll
<1>5. CASE TryStopNetwork
  <2>1. 0 \in 0..MaxIds + 1
    BY AsioAssumption
  <2>2. queue' \in Seq(Handler)
    <3>1. CASE accepting = 0
      BY <1>5, <3>1 DEF TryStopNetwork, TypeOK
    <3>2. CASE accepting # 0
      <4>1. [Task("accept", accepting, 0, 0) EXCEPT !.r = "aborted"] \in Handler
        BY HandlerTypes DEF TypeOK, Results
      <4> QED
        BY <1>5, <3>2, <4>1, AppendMoves DEF TryStopNetwork, Moves
    <3> QED
      BY <3>1, <3>2
  <2>3. acceptor' \in {"none", "open", "deleted"} /\ stop' = "cancel" /\ accepting' = 0
    BY <1>5 DEF TryStopNetwork, TypeOK
  <2> QED
    BY <1>5, <2>1, <2>2, <2>3
       DEF TryStopNetwork, TypeOK, blockVars, ioVars, userVars, Pool
<1>6. CASE ClearSession
  <2>1. queue' \in Seq(Handler) /\ members' \subseteq Ids
    BY <1>6 DEF ClearSession
  <2>2. /\ socket' \in [Ids -> {"none", "open", "closed"}]
        /\ reads' \in [Ids -> Nat] /\ writing' \in [Ids -> {"no", "begun", "part"}]
    BY <1>6 DEF ClearSession, TypeOK
  <2>3. pool' \in Pool
    <3>1. <<>> \in Seq(Nat)
      OBVIOUS
    <3> QED
      BY <1>6, <3>1 DEF ClearSession, TypeOK, Pool
  <2> QED
    BY <1>6, <2>1, <2>2, <2>3
       DEF ClearSession, TypeOK, acceptVars, userVars
<1>7. CASE ConnectToServer
  <2>1. CASE Connected /\ stop = "done"
    BY <2>1 DEF Connected, TypeOK, blockVars, acceptVars, userVars
  <2>2. CASE Connected /\ stop # "done"
    <3>1. RunInv
      BY <2>2 DEF Connected, Running
    <3>2. ids = 1 /\ ids \in Ids /\ Awaited /\ PoolInv
      BY <2>2, <3>1, AsioAssumption DEF Connected, RunInv, AcceptInv, Awaited, Ids
    <3>3. NewSession(ids)
      BY <2>2, <3>2 DEF Connected
    <3>4. members' \subseteq Ids /\ reads' \in [Ids -> Nat] /\ connect' = "inserted"
      <4>1. /\ members' = members \cup {1} /\ reads' = [reads EXCEPT ![1] = 1]
            /\ connect' = "inserted"
        BY <2>2 DEF Connected
      <4> QED
        BY <3>2, <4>1 DEF TypeOK
    <3> QED
      BY <2>2, <3>2, <3>3, <3>4, NewSessionTypes
         DEF Connected, TypeOK, acceptVars, userVars
  <2>3. CASE Announce
    <3>1. known' \subseteq Ids
      BY <2>3, AsioAssumption DEF Announce, TypeOK, Ids
    <3> QED
      BY <2>3, <3>1 DEF Announce, TypeOK, acceptVars, blockVars, ioVars
  <2>4. CASE GiveUp
    BY <2>4 DEF GiveUp, TypeOK, acceptVars, blockVars, ioVars, userVars
  <2> QED
    BY <1>7, <2>1, <2>2, <2>3, <2>4 DEF ConnectToServer
<1>8. CASE HandleAccept
  <2> USE DEF TypeOK
  <2>1. RunInv /\ queue # <<>> /\ 1 \in Positions /\ H = queue[1] /\ H \in Handler
        /\ H.op = "accept"
    BY <1>1, <1>8 DEF HandleAccept
  <2>2. H.r # "aborted" => ids \in Ids /\ H.s = ids /\ Awaited
    BY <2>1 DEF RunInv, AcceptInv, Accepted, Awaited
  <2>3. CASE H.r = "aborted"
    <3>1. Then(<<>>) /\ <<>> \in Seq(Handler)
      BY <1>8, <2>3 DEF HandleAccept
    <3>2. queue' \in Seq(Handler)
      BY <2>1, <3>1, ThenMoves DEF Moves
    <3> QED
      BY <1>8, <2>3, <3>2 DEF HandleAccept, Run, stopVars, blockVars
  <2>4. CASE H.r # "aborted" /\ Then(<<>>) /\ UNCHANGED <<blockVars, pending, sendQueue>>
             /\ socket' \in {socket, [socket EXCEPT ![H.s] = "closed"]}
             /\ (DoAccept \/ (thread' = "undefined" /\ UNCHANGED <<accepting, ids>>))
    <3>1. <<>> \in Seq(Handler)
      OBVIOUS
    <3>2. queue' \in Seq(Handler)
      BY <2>1, <2>4, <3>1, ThenMoves DEF Moves
    <3>3. /\ accepting' \in 0..MaxIds + 1 /\ ids' \in 0..MaxIds + 1
          /\ thread' \in {"run", "undefined"}
      BY <2>2, <2>4, DoAcceptTypes
    <3>4. socket' \in [Ids -> {"none", "open", "closed"}]
      BY <2>2, <2>4
    <3> QED
      BY <1>8, <2>4, <3>2, <3>3, <3>4 DEF HandleAccept, Run, stopVars, blockVars
  <2>5. CASE H.r = "ok" /\ NewSession(H.s)
             /\ Then(<<Task("add", H.s, Allocated(pool), 0)>>) /\ DoAccept
    <3>1. ids \in Ids /\ H.s = ids /\ Awaited /\ PoolInv
      BY <2>1, <2>2, <2>5 DEF RunInv
    <3>2. Allocated(pool) \in Blocks /\ NewSession(ids)
      BY <2>5, <3>1, BlocksSuffice
    <3>3. Task("add", H.s, Allocated(pool), 0) \in Handler
      <4>1. H.s \in 0..MaxIds + 1 /\ 0 \in 0..MaxCalls
        BY <3>1, AsioAssumption DEF Ids
      <4> QED
        BY <3>2, <4>1, HandlerTypes DEF Ops
    <3>4. <<Task("add", H.s, Allocated(pool), 0)>> \in Seq(Handler)
      BY <3>3
    <3>5. queue' \in Seq(Handler)
      BY <2>1, <2>5, <3>4, ThenMoves DEF Moves
    <3>6. /\ accepting' \in 0..MaxIds + 1 /\ ids' \in 0..MaxIds + 1
          /\ thread' \in {"run", "undefined"}
      BY <2>5, <3>1, DoAcceptTypes
    <3> QED
      BY <1>8, <3>1, <3>2, <3>5, <3>6, NewSessionTypes DEF HandleAccept, Run, stopVars
  <2> QED
    BY <1>8, <2>3, <2>4, <2>5 DEF HandleAccept
<1>9. CASE HandleAddSession
  <2>1. queue # <<>> /\ H \in Handler /\ 1 \in Positions /\ H = queue[1] /\ RunInv
        /\ H.op = "add"
    BY <1>1, <1>9 DEF HandleAddSession
  <2>2. owner[H.b] \in Ids
    <3>1. H.s \in Living /\ block[H.s] = H.b
      BY <2>1 DEF RunInv, MemberInv, Adds
    <3> QED
      BY <3>1, <2>1 DEF RunInv, PoolInv, Living
  <2>3. Then(<<>>) /\ <<>> \in Seq(Handler)
    BY <1>9 DEF HandleAddSession
  <2>4. queue' \in Seq(Handler)
    BY <2>1, <2>3, ThenMoves DEF Moves
  <2>5. members' \subseteq Ids /\ known' \subseteq Ids /\ reads' \in [Ids -> Nat]
    BY SMTT(30), <1>9, <2>2 DEF HandleAddSession, StartReceive, TypeOK
  <2> QED
    BY <1>9, <2>4, <2>5
       DEF HandleAddSession, Run, TypeOK, stopVars, acceptVars, blockVars
<1>10. ASSUME NEW op, Run(op), NEW s, CloseSession(s)
       PROVE  /\ queue' \in Seq(Handler) /\ members' \subseteq Ids /\ pool' \in Pool
              /\ socket' \in [Ids -> {"none", "open", "closed"}]
              /\ reads' \in [Ids -> Nat]
              /\ writing' \in [Ids -> {"no", "begun", "part"}]
  <2>1. RunInv /\ queue # <<>>
    BY <1>1, <1>10
  <2>2. s \in members => block[s] \in 1..pool.total
    BY <2>1 DEF RunInv, PoolInv, MemberInv
  <2> QED
    BY <1>10, <2>1, <2>2, CloseSessionTypes
<1>11. CASE HandleCloseSession
  <2>1. Run("close") /\ CloseSession(H.s)
    BY <1>11 DEF HandleCloseSession
  <2>2. /\ queue' \in Seq(Handler) /\ members' \subseteq Ids /\ pool' \in Pool
        /\ socket' \in [Ids -> {"none", "open", "closed"}]
        /\ reads' \in [Ids -> Nat]
        /\ writing' \in [Ids -> {"no", "begun", "part"}]
    BY <1>10, <2>1
  <2> QED
    BY <1>11, <2>2 DEF HandleCloseSession, Run, TypeOK, stopVars, acceptVars
<1>12. ASSUME queue # <<>>, Then(<<>>) PROVE queue' \in Seq(Handler)
  <2>1. <<>> \in Seq(Handler)
    OBVIOUS
  <2> QED
    BY <1>12, <2>1, ThenMoves DEF Moves
<1>13. CASE HandleReceived
  <2>1. CASE H.r # "ok"
    <3>1. Run("received") /\ CloseSession(owner[H.b]) /\ UNCHANGED thread
      BY <1>13, <2>1 DEF HandleReceived
    <3>2. /\ queue' \in Seq(Handler) /\ members' \subseteq Ids /\ pool' \in Pool
          /\ socket' \in [Ids -> {"none", "open", "closed"}]
          /\ reads' \in [Ids -> Nat]
          /\ writing' \in [Ids -> {"no", "begun", "part"}]
      BY <1>10, <3>1
    <3> QED
      BY SMTT(30), <1>13, <3>1, <3>2 DEF HandleReceived, Run, TypeOK, stopVars, acceptVars
  <2>2. CASE H.r = "ok"
    <3>1. queue' \in Seq(Handler)
      BY <1>1, <1>12, <1>13, <2>2 DEF HandleReceived
    <3>2. reads' \in [Ids -> Nat] /\ thread' \in {"run", "undefined"}
      <4>1. CASE Free(H.b)
        BY <1>13, <2>2, <4>1 DEF HandleReceived, TypeOK
      <4>2. CASE ~Free(H.b)
        <5>1. /\ reads' = [reads EXCEPT ![owner[H.b]] = reads[owner[H.b]] + 1]
              /\ UNCHANGED thread
          BY <1>13, <2>2, <4>2 DEF HandleReceived, StartReceive
        <5>2. reads \in [Ids -> Nat]
          BY DEF TypeOK
        <5>3. reads' \in [Ids -> Nat]
          <6> DEFINE n == owner[H.b]
          <6>1. reads' = [reads EXCEPT ![n] = reads[n] + 1]
            BY <5>1
          <6> HIDE DEF n
          <6>2. CASE n \in Ids
            BY <5>2, <6>1, <6>2
          <6>3. CASE n \notin Ids
            BY <5>2, <6>1, <6>3
          <6> QED
            BY <6>2, <6>3
        <5> QED
          BY <5>1, <5>3 DEF TypeOK
      <4> QED
        BY <4>1, <4>2
    <3> QED
      BY <1>13, <2>2, <3>1, <3>2
         DEF HandleReceived, Run, TypeOK, stopVars, acceptVars, Pool
  <2> QED
    BY <2>1, <2>2
<1>14. ASSUME NEW S \in SUBSET members, NEW d \in Messages, WriteData(S, d),
              \A s \in members : block[s] \in Blocks
       PROVE  /\ sendQueue' \in [Blocks -> Seq(Messages)]
              /\ pending' \in [Blocks -> BOOLEAN]
              /\ rest' \in [Ids -> Seq(Messages)]
              /\ writing' \in [Ids -> {"no", "begun", "part"}]
  <2>1. \A b \in Blocks : sendQueue[b] \in Seq(Messages)
    BY DEF TypeOK
  <2>2. \A b \in Blocks : Append(sendQueue[b], d) \in Seq(Messages)
    BY <2>1, AppendProperties
  <2>3. <<>> \in Seq(Messages)
    OBVIOUS
  <2>4. sendQueue' \in [Blocks -> Seq(Messages)]
    BY <1>14, <2>1, <2>2, <2>3 DEF WriteData
  <2>5. pending' \in [Blocks -> BOOLEAN] /\ writing' \in [Ids -> {"no", "begun", "part"}]
    BY <1>14 DEF WriteData, TypeOK
  <2> QED
    BY <1>14, <2>2, <2>4, <2>5 DEF WriteData, TypeOK
<1>15. ASSUME RunInv PROVE \A s \in members : block[s] \in Blocks
  BY <1>15 DEF RunInv, PoolInv, MemberInv, TypeOK, Living
<1>16. ASSUME NEW op \in {"send", "sendAll"}, NEW S \in SUBSET members, HandleSend(op, S)
       PROVE  TypeOK'
  <2>1. queue # <<>> /\ RunInv /\ H = queue[1] /\ 1 \in Positions /\ H.op = op
    BY <1>1, <1>16 DEF HandleSend
  <2>2. H.d \in Messages
    BY <2>1 DEF RunInv, HandlerInv
  <2>3. queue' \in Seq(Handler)
    BY <1>12, <1>16, <2>1 DEF HandleSend
  <2>4. /\ sendQueue' \in [Blocks -> Seq(Messages)]
        /\ pending' \in [Blocks -> BOOLEAN]
        /\ rest' \in [Ids -> Seq(Messages)]
        /\ writing' \in [Ids -> {"no", "begun", "part"}]
    BY <1>14, <1>15, <1>16, <2>1, <2>2 DEF HandleSend
  <2> QED
    BY <1>16, <2>3, <2>4
       DEF HandleSend, Run, TypeOK, stopVars, acceptVars, blockVars, Pool
<1>17. CASE HandleSendData
  <2>1. {H.s} \cap members \in SUBSET members
    OBVIOUS
  <2> QED
    BY <1>16, <1>17, <2>1 DEF HandleSendData
<1>18. CASE HandleSendDataAll
  BY <1>16, <1>18 DEF HandleSendDataAll
<1>19. CASE HandleWrited
  <2>1. queue # <<>> /\ RunInv /\ H = queue[1] /\ 1 \in Positions /\ H.op = "written"
        /\ H.s \in Ids /\ H.b \in Blocks
    BY <1>1, <1>19 DEF HandleWrited, RunInv, HandlerInv, Completed
  <2>2. CASE H.r # "ok"
    <3>1. Run("written") /\ CloseSession(owner[H.b]) /\ UNCHANGED <<thread, pending, sendQueue, rest>>
      BY <1>19, <2>2 DEF HandleWrited
    <3>2. /\ queue' \in Seq(Handler) /\ members' \subseteq Ids /\ pool' \in Pool
          /\ socket' \in [Ids -> {"none", "open", "closed"}]
          /\ reads' \in [Ids -> Nat]
          /\ writing' \in [Ids -> {"no", "begun", "part"}]
      BY <1>10, <3>1
    <3> QED
      BY <1>19, <3>1, <3>2 DEF HandleWrited, Run, TypeOK, stopVars, acceptVars
  <2>3. CASE H.r = "ok" /\ rest[H.s] # <<>>
    <3>1. queue' \in Seq(Handler)
      BY <1>12, <1>19, <2>1, <2>3 DEF HandleWrited
    <3>2. /\ writing' \in [Ids -> {"no", "begun", "part"}]
          /\ thread' \in {"run", "undefined"}
      BY <1>19, <2>1, <2>3 DEF HandleWrited, TypeOK
    <3> QED
      BY <1>19, <2>3, <3>1, <3>2
         DEF HandleWrited, Run, TypeOK, stopVars, acceptVars, Pool
  <2>4. CASE H.r = "ok" /\ rest[H.s] = <<>>
    <3>1. queue' \in Seq(Handler)
      BY <1>12, <1>19, <2>1, <2>4 DEF HandleWrited
    <3>2. Written(H.b)
      BY <1>19, <2>4 DEF HandleWrited
    <3>3. <<>> \in Seq(Messages)
      OBVIOUS
    <3>4. /\ sendQueue' \in [Blocks -> Seq(Messages)]
          /\ pending' \in [Blocks -> BOOLEAN]
          /\ rest' \in [Ids -> Seq(Messages)]
          /\ writing' \in [Ids -> {"no", "begun", "part"}]
      <4>1. CASE SendSessionQueue(H.b)
        BY <2>1, <3>3, <4>1 DEF SendSessionQueue, TypeOK
      <4>2. CASE /\ pending' = [pending EXCEPT ![H.b] = FALSE]
                 /\ UNCHANGED <<rest, writing, sendQueue>>
        BY <2>1, <4>2 DEF TypeOK
      <4> QED
        BY <3>2, <4>1, <4>2 DEF Written
    <3> QED
      BY <1>19, <2>4, <3>1, <3>4
         DEF HandleWrited, Run, TypeOK, stopVars, acceptVars, Pool
  <2> QED
    BY <2>2, <2>3, <2>4
<1>20. CASE AcceptDone
  <2>1. PICK r \in {"ok", "error"} :
          queue' = Append(queue, [Task("accept", accepting, 0, 0) EXCEPT !.r = r])
    BY <1>20 DEF AcceptDone
  <2>2. [Task("accept", accepting, 0, 0) EXCEPT !.r = r] \in Handler
    BY HandlerTypes DEF TypeOK, Results
  <2>3. queue' \in Seq(Handler)
    BY <2>1, <2>2, AppendMoves DEF Moves
  <2>4. accepting' \in 0..MaxIds + 1
    BY <1>20, AsioAssumption DEF AcceptDone
  <2> QED
    BY <1>20, <2>3, <2>4
       DEF AcceptDone, Reactor, TypeOK, stopVars, blockVars, userVars, Pool
<1>21. ASSUME NEW s \in Ids, ReadDone(s) PROVE TypeOK'
  <2>1. Completion("received", s, IF peer[s] = "up" THEN "ok" ELSE "error") \in Handler
    BY HandlerTypes DEF Results
  <2>2. queue' \in Seq(Handler)
    BY <1>21, <2>1, AppendMoves DEF ReadDone, Moves
  <2>3. reads' \in [Ids -> Nat]
    BY <1>21 DEF ReadDone, TypeOK
  <2> QED
    BY <1>21, <2>2, <2>3
       DEF ReadDone, Reactor, TypeOK, stopVars, blockVars, userVars, Pool
<1>22. ASSUME NEW s \in Ids, Transmit(s) PROVE TypeOK'
  <2>1. rest[s] \in Seq(Messages) /\ rest[s] # <<>> /\ wire[s] \in Seq(Messages)
    BY <1>22 DEF Transmit, TypeOK
  <2>2. Head(rest[s]) \in Messages /\ Tail(rest[s]) \in Seq(Messages)
    BY <2>1, HeadTailProperties
  <2>3. Append(wire[s], Head(rest[s])) \in Seq(Messages)
    BY <2>1, <2>2, AppendProperties
  <2>4. /\ wire' \in [Ids -> Seq(Messages)] /\ rest' \in [Ids -> Seq(Messages)]
        /\ writing' \in [Ids -> {"no", "begun", "part"}]
    BY <1>22, <2>2, <2>3 DEF Transmit, TypeOK
  <2> QED
    BY <1>22, <2>4
       DEF Transmit, Reactor, TypeOK, stopVars, blockVars, userVars, Pool
<1>23. ASSUME NEW s \in Ids, WriteDone(s) PROVE TypeOK'
  <2>1. /\ Completion("written", s, "ok") \in Handler
        /\ Completion("written", s, "error") \in Handler
    BY HandlerTypes DEF Results
  <2>2. queue' \in Seq(Handler)
    BY <1>23, <2>1, AppendMoves DEF WriteDone, Moves
  <2>3. writing' \in [Ids -> {"no", "begun", "part"}]
    BY <1>23 DEF WriteDone, TypeOK
  <2> QED
    BY <1>23, <2>2, <2>3
       DEF WriteDone, Reactor, TypeOK, stopVars, blockVars, userVars, Pool
<1>24. ASSUME NEW s \in Ids, PeerGone(s) PROVE TypeOK'
  BY <1>24 DEF PeerGone, Reactor, TypeOK, stopVars, blockVars, userVars, Pool
<1> QED
  BY <1>0, <1>3, <1>4, <1>5, <1>6, <1>7, <1>8, <1>9, <1>11, <1>13, <1>17, <1>18,
     <1>19, <1>20, <1>21, <1>22, <1>23, <1>24
     DEF Next, ThreadFunc
-----------------------------------------------------------------------------
(* The inductive invariant, by what a step does to queue and sessions.     *)

LEMMA RunInvInit == Init => IInv
<1> SUFFICES ASSUME Init PROVE IInv
  OBVIOUS
<1>1. TypeOK
  BY TypeCorrectInit
<1>2. Living = {} /\ Positions = {}
  BY DEF Init, Living, Positions
<1>3. SessionBound
  BY <1>1, <1>2, FS_EmptySet, AsioAssumption DEF SessionBound, TypeOK
<1>4. HandlerInv /\ AcceptInv /\ FreshInv /\ MemberInv /\ StaleInv
  BY <1>2 DEF Init, HandlerInv, AcceptInv, FreshInv, MemberInv, StaleInv
<1>5. PoolInv
  <2>1. PoolSize \in Nat /\ (PoolSize \div 2) \in Nat /\ ids \in {0, 1}
    BY PoolAssumption DEF Init
  <2>2. 0 * (PoolSize \div 2) = 0 /\ 1 * (PoolSize \div 2) = (PoolSize \div 2)
    BY <2>1
  <2>3. Awaited => ids = 1
    BY <1>2 DEF Init, Awaited
  <2>4. pool.total = PoolSize /\ WellFormed(pool)
    BY NewPoolSound DEF Init
  <2>5. ids * (PoolSize \div 2) \in Nat
    BY <2>1, <2>2
  <2>6. PoolSize <= PoolSize + ids * (PoolSize \div 2)
    BY <2>1, <2>5
  <2>7. Awaited => PoolSize <= PoolSize + (ids - 1) * (PoolSize \div 2)
    BY <2>1, <2>2, <2>3
  <2> QED
    BY <1>2, <2>3, <2>4, <2>6, <2>7 DEF PoolInv, Init
<1> QED
  BY <1>1, <1>3, <1>4, <1>5 DEF Init, IInv, RunInv, Running, Drained

\* A handler that changes nobody's life.
Plain(e) ==
  /\ e.op \in {"accept", "close", "send", "sendAll"} => e.b = 0
  /\ e.op \in {"send", "sendAll"} => e.d \in Messages
  /\ e.op = "accept" => e.r = "aborted"
  /\ e.op # "add"
  /\ e.op \in {"received", "written"} => e.s \in Living /\ e.b = block[e.s]

\* A session that lives has a block.
LEMMA LivingBlock ==
  ASSUME TypeOK, RunInv, NEW s \in Living
  PROVE  s \in Ids /\ block[s] \in Blocks /\ block[s] \in 1..pool.total
BY DEF TypeOK, RunInv, PoolInv, Living

\* Handlers come and go, the sessions stay.
LEMMA QuietStep ==
  ASSUME TypeOK, RunInv, NEW k \in {0, 1}, NEW p \in Seq(Handler), Moves(k, p),
         UNCHANGED <<members, pool, block, owner, socket, ids>>,
         accepting' \in {accepting, 0},
         connect' = connect \/ (connect # "no" /\ connect' = "done"),
         k = 1 => ~Adds(1),
         \A j \in 1..Len(p) : Plain(p[j])
  PROVE  RunInv'
<1> DEFINE Old(i) == i + k \in Positions /\ queue'[i] = queue[i + k]
           New(i) == \E j \in 1..Len(p) : queue'[i] = p[j]
<1>1. \A i \in Positions' : Old(i) \/ New(i)
  BY DEF Moves
<1>2. \A i \in Positions' : New(i) => Plain(queue'[i])
  OBVIOUS
<1> HIDE DEF New
<1>3. \A i \in Positions' : Accepted(i)' => Old(i) /\ Accepted(i + k)
  BY <1>1, <1>2 DEF Accepted, Plain
<1>4. \A i \in Positions' : Adds(i)' => Old(i) /\ Adds(i + k)
  BY <1>1, <1>2 DEF Adds, Plain
<1>5. Awaited' => Awaited
  BY <1>3 DEF Awaited
<1>6. Living' = Living
  BY DEF Living
<1>7. \A i, j \in Positions' : i \in Int /\ j \in Int /\ (i + k = j + k => i = j)
                                /\ (i + k < j + k => i < j)
  BY DEF Positions
<1>8. HandlerInv'
  <2> SUFFICES ASSUME NEW i \in Positions'
      PROVE  /\ queue'[i].op \in {"accept", "close", "send", "sendAll"} => queue'[i].b = 0
             /\ queue'[i].op \in {"send", "sendAll"} => queue'[i].d \in Messages
             /\ Adds(i)' => queue'[i].r = "ok"
             /\ Completed(i)' =>
                  /\ queue'[i].s \in Ids /\ queue'[i].b \in Blocks
                  /\ block[queue'[i].s] = queue'[i].b /\ socket[queue'[i].s] # "none"
    BY DEF HandlerInv
  <2>1. CASE Old(i)
    BY <2>1 DEF RunInv, HandlerInv, Adds, Completed
  <2>2. CASE New(i)
    BY <1>2, <2>2, LivingBlock DEF Plain, Adds, Completed, Living
  <2> QED
    BY <1>1, <2>1, <2>2
<1>9. AcceptInv'
  <2>1. accepting' # 0 => accepting' = ids'
    BY DEF RunInv, AcceptInv
  <2>2. \A i \in Positions' : Accepted(i)' =>
          /\ accepting' = 0 /\ queue'[i].s = ids' /\ ids' \in Ids
          /\ \A j \in Positions' : Accepted(j)' => i = j
    BY <1>3, <1>7 DEF RunInv, AcceptInv
  <2>3. connect' # "no" =>
          accepting' = 0 /\ \A i \in Positions' : ~Accepted(i)' /\ ~Adds(i)'
    BY <1>3, <1>4 DEF RunInv, AcceptInv
  <2>4. connect' = "trying" =>
          /\ ids' = 1 /\ \A s \in Ids : socket'[s] = "none"
          /\ \A i \in Positions' : ~Completed(i)'
    <3> SUFFICES ASSUME connect = "trying", NEW i \in Positions' PROVE ~Completed(i)'
      BY DEF RunInv, AcceptInv
    <3>1. Living = {}
      BY DEF RunInv, AcceptInv, Living
    <3> QED
      BY <1>1, <1>2, <3>1 DEF RunInv, AcceptInv, Completed, Plain
  <2> QED
    BY <2>1, <2>2, <2>3, <2>4 DEF AcceptInv
<1>10. FreshInv'
  BY <1>5 DEF RunInv, FreshInv
<1>11. PoolInv'
  BY <1>5, <1>6 DEF RunInv, PoolInv, Free
<1>12. MemberInv'
  <2>1. \A i \in Positions' : Adds(i)' =>
          /\ queue'[i].s \in Living' \ members' /\ block'[queue'[i].s] = queue'[i].b
          /\ \A j \in Positions' : Accepted(j)' => i < j
          /\ \A j \in Positions' : Adds(j)' => i = j
    BY <1>3, <1>4, <1>6, <1>7 DEF RunInv, MemberInv
  <2>2. ASSUME NEW s \in Living' \ members'
        PROVE  \E i \in Positions' : Adds(i)' /\ queue'[i].s = s
    <3>1. PICK i \in Positions : Adds(i) /\ queue[i].s = s
      BY <1>6 DEF RunInv, MemberInv
    <3>2. i > k
      BY <3>1 DEF Positions
    <3>3. i - k \in Positions' /\ queue'[i - k] = queue[i]
      BY <3>2 DEF Moves
    <3> QED
      BY <3>1, <3>3 DEF Adds
  <2> QED
    BY <1>6, <2>1, <2>2 DEF MemberInv, RunInv
<1>13. StaleInv'
  <2> SUFFICES ASSUME NEW i \in Positions', Completed(i)',
                      owner[queue'[i].b] # queue'[i].s
      PROVE  /\ owner[queue'[i].b] \notin members
             /\ \A j \in Positions' : Adds(j)' /\ queue'[j].b = queue'[i].b => i < j
    BY DEF StaleInv
  <2>1. Old(i)
    BY <1>1, <1>2 DEF Plain, Completed, RunInv, PoolInv
  <2>2. Completed(i + k)
    BY <2>1 DEF Completed
  <2> QED
    BY <1>4, <1>7, <2>1, <2>2 DEF RunInv, StaleInv
<1> QED
  BY <1>8, <1>9, <1>10, <1>11, <1>12, <1>13 DEF RunInv
\* A session that is entered is closed: its block is free, what was outstanding
\* joins as aborted.
LEMMA CloseStep ==
  ASSUME TypeOK, RunInv, queue # <<>>, ~Adds(1), NEW s \in members, CloseSession(s),
         UNCHANGED <<acceptVars, block, owner, connect>>
  PROVE  RunInv' /\ Living' = Living \ {s}
<1> DEFINE Old(i) == i + 1 \in Positions /\ queue'[i] = queue[i + 1]
           New(i) == /\ queue'[i].op \in {"received", "written"}
                     /\ queue'[i].s = s /\ queue'[i].b = block[s]
           q == Destroy(pool, block[s])
<1>1. s \in Living /\ s \in Ids /\ block[s] \in Blocks /\ block[s] \in 1..pool.total
      /\ ~Free(block[s]) /\ owner[block[s]] = s /\ socket[s] = "open"
  BY LivingBlock DEF RunInv, MemberInv, PoolInv, Living
<1>2. /\ Then(Aborted(s)) /\ pool' = q /\ members' = members \ {s}
      /\ socket' = [socket EXCEPT ![s] = "closed"]
  BY DEF CloseSession, Aborted
<1>3. /\ Moves(1, Aborted(s))
      /\ \A j \in 1..Len(Aborted(s)) :
           Aborted(s)[j] \in {Completion("received", s, "aborted"),
                              Completion("written", s, "aborted")}
  BY <1>1, <1>2, AbortedTypes, ThenMoves
<1>4. \A i \in Positions' : Old(i) \/ New(i)
  BY <1>3 DEF Moves, Completion
<1> HIDE DEF q
<1>5. WellFormed(q) /\ q.total = pool.total
      /\ FreeBlocks(q) = FreeBlocks(pool) \cup {block[s]}
  BY <1>1, DestroySound DEF RunInv, PoolInv, Free, q
<1>6. \A x \in Ids : x # s => socket'[x] = socket[x]
  BY <1>1, <1>2 DEF TypeOK
<1>7. socket'[s] = "closed"
  BY <1>1, <1>2 DEF TypeOK
<1>8. Living' = Living \ {s}
  BY <1>6, <1>7 DEF Living
<1>9. \A x \in Ids : socket'[x] = "none" <=> socket[x] = "none"
  BY <1>1, <1>6, <1>7
<1>10. \A i \in Positions' : Accepted(i)' => Old(i) /\ Accepted(i + 1)
  BY <1>4 DEF Accepted
<1>11. \A i \in Positions' : Adds(i)' => Old(i) /\ Adds(i + 1)
  BY <1>4 DEF Adds
<1>12. Awaited' => Awaited
  BY <1>10 DEF Awaited, acceptVars
<1>13. \A i, j \in Positions' : i \in Int /\ j \in Int /\ (i + 1 = j + 1 => i = j)
                                 /\ (i + 1 < j + 1 => i < j)
  BY DEF Positions
<1>14. connect # "trying"
  BY <1>1 DEF RunInv, AcceptInv
<1>15. HandlerInv'
  <2> SUFFICES ASSUME NEW i \in Positions'
      PROVE  /\ queue'[i].op \in {"accept", "close", "send", "sendAll"} => queue'[i].b = 0
             /\ queue'[i].op \in {"send", "sendAll"} => queue'[i].d \in Messages
             /\ Adds(i)' => queue'[i].r = "ok"
             /\ Completed(i)' =>
                  /\ queue'[i].s \in Ids /\ queue'[i].b \in Blocks
                  /\ block'[queue'[i].s] = queue'[i].b /\ socket'[queue'[i].s] # "none"
    BY DEF HandlerInv
  <2>1. CASE Old(i)
    BY <1>9, <2>1 DEF RunInv, HandlerInv, Adds, Completed
  <2>2. CASE New(i)
    BY <1>1, <1>7, <2>2 DEF Adds, Completed
  <2> QED
    BY <1>4, <2>1, <2>2
<1>16. AcceptInv'
  <2>1. \A i \in Positions' : Accepted(i)' =>
          /\ accepting' = 0 /\ queue'[i].s = ids' /\ ids' \in Ids
          /\ \A j \in Positions' : Accepted(j)' => i = j
    BY <1>10, <1>13 DEF RunInv, AcceptInv, acceptVars
  <2>2. connect' # "no" =>
          accepting' = 0 /\ \A i \in Positions' : ~Accepted(i)' /\ ~Adds(i)'
    BY <1>10, <1>11 DEF RunInv, AcceptInv, acceptVars
  <2> QED
    BY <1>14, <2>1, <2>2 DEF RunInv, AcceptInv, acceptVars
<1>17. FreshInv'
  BY <1>9, <1>12 DEF RunInv, FreshInv, acceptVars
<1>18. PoolInv'
  <2>1. \A x \in Living' : block'[x] \in 1..pool'.total /\ ~Free(block[x])' /\ owner'[block'[x]] = x
    <3> SUFFICES ASSUME NEW x \in Living, x # s
        PROVE  block[x] \in 1..q.total /\ block[x] \notin FreeBlocks(q) /\ owner[block[x]] = x
      BY <1>2, <1>8 DEF Free
    <3>1. block[x] \in 1..pool.total /\ ~Free(block[x]) /\ owner[block[x]] = x
      BY DEF RunInv, PoolInv
    <3> QED
      BY <1>1, <1>5, <3>1 DEF Free
  <2>2. \A b \in Blocks : owner'[b] # 0 => block'[owner'[b]] = b /\ socket'[owner'[b]] # "none"
    <3>1. \A b \in Blocks : owner[b] # 0 => owner[b] \in Ids
      BY AsioAssumption DEF TypeOK, Ids
    <3> QED
      BY <1>9, <3>1 DEF RunInv, PoolInv
  <2> QED
    BY <1>2, <1>5, <1>12, <2>1, <2>2 DEF RunInv, PoolInv, acceptVars
<1>19. MemberInv'
  <2>1. \A i \in Positions' : Adds(i)' =>
          /\ queue'[i].s \in Living' \ members' /\ block'[queue'[i].s] = queue'[i].b
          /\ \A j \in Positions' : Accepted(j)' => i < j
          /\ \A j \in Positions' : Adds(j)' => i = j
    BY <1>2, <1>8, <1>10, <1>11, <1>13 DEF RunInv, MemberInv
  <2>2. ASSUME NEW x \in Living' \ members'
        PROVE  \E i \in Positions' : Adds(i)' /\ queue'[i].s = x
    <3>1. PICK i \in Positions : Adds(i) /\ queue[i].s = x
      BY <1>2, <1>8 DEF RunInv, MemberInv
    <3>2. i > 1
      BY <3>1 DEF Positions
    <3>3. i - 1 \in Positions' /\ queue'[i - 1] = queue[i]
      BY <1>3, <3>2 DEF Moves
    <3> QED
      BY <3>1, <3>3 DEF Adds
  <2>3. members' \subseteq Living'
    BY <1>2, <1>8 DEF RunInv, MemberInv
  <2> QED
    BY <2>1, <2>2, <2>3 DEF MemberInv
<1>20. StaleInv'
  <2> SUFFICES ASSUME NEW i \in Positions', Completed(i)',
                      owner[queue'[i].b] # queue'[i].s
      PROVE  /\ owner[queue'[i].b] \notin members'
             /\ \A j \in Positions' : Adds(j)' /\ queue'[j].b = queue'[i].b => i < j
    BY DEF StaleInv
  <2>1. Old(i)
    BY <1>1, <1>4
  <2>2. Completed(i + 1)
    BY <2>1 DEF Completed
  <2> QED
    BY <1>2, <1>11, <1>13, <2>1, <2>2 DEF RunInv, StaleInv
<1> QED
  BY <1>8, <1>15, <1>16, <1>17, <1>18, <1>19, <1>20 DEF RunInv

\* A session is entered: no completion that is stale waits for its block.
LEMMA AddStep ==
  ASSUME TypeOK, RunInv, queue # <<>>, Adds(1), Then(<<>>),
         members' = members \cup {owner[H.b]},
         UNCHANGED <<acceptVars, blockVars, connect, socket>>
  PROVE  RunInv' /\ owner[H.b] = H.s
<1> DEFINE Old(i) == i + 1 \in Positions /\ queue'[i] = queue[i + 1]
           s == owner[H.b]
<1>1. Moves(1, <<>>) /\ 1 \in Positions /\ H = queue[1]
  <2>1. <<>> \in Seq(Handler)
    OBVIOUS
  <2> QED
    BY <2>1, ThenMoves
<1>2. \A i \in Positions' : Old(i)
  BY <1>1 DEF Moves
<1>3. queue[1].s \in Living \ members /\ block[queue[1].s] = queue[1].b
      /\ s = queue[1].s /\ H.b \in Blocks
  BY <1>1, LivingBlock DEF RunInv, MemberInv, PoolInv
<1> HIDE DEF s
<1>4. Living' = Living
  BY DEF Living
<1>5. \A i \in Positions' : Accepted(i)' => Accepted(i + 1)
  BY <1>2 DEF Accepted
<1>6. Awaited' => Awaited
  BY <1>2, <1>5 DEF Awaited, acceptVars
<1>7. \A i, j \in Positions' : i \in Nat /\ j \in Nat /\ i >= 1 /\ i + 1 # 1
                                /\ (i + 1 = j + 1 => i = j)
  BY DEF Positions
<1>8. \A i \in Positions' : ~Adds(i)'
  BY <1>1, <1>2, <1>7 DEF Adds, RunInv, MemberInv
<1>9. HandlerInv'
  BY <1>2, <1>8 DEF RunInv, HandlerInv, Adds, Completed, blockVars
<1>10. AcceptInv'
  BY <1>1, <1>2, <1>5, <1>7, <1>8 DEF RunInv, AcceptInv, acceptVars
<1>11. FreshInv'
  BY <1>6 DEF RunInv, FreshInv, acceptVars
<1>12. PoolInv'
  BY <1>4, <1>6 DEF RunInv, PoolInv, acceptVars, blockVars, Free
<1>13. MemberInv'
  <2>1. \A x \in Living \ members : x = s
    BY <1>1, <1>3 DEF RunInv, MemberInv
  <2> QED
    BY <1>3, <1>4, <1>8, <2>1 DEF RunInv, MemberInv, s
<1>14. StaleInv'
  <2> SUFFICES ASSUME NEW i \in Positions', Completed(i)',
                      owner[queue'[i].b] # queue'[i].s
      PROVE  owner[queue'[i].b] \notin members'
    BY <1>8 DEF StaleInv, blockVars
  <2>1. Old(i) /\ Completed(i + 1)
    BY <1>2 DEF Completed
  <2> DEFINE b == queue'[i].b
  <2>2. owner[b] \notin members /\ queue[1].b # b /\ b \in Blocks
    <3>1. ~(i + 1 < 1) /\ i + 1 \in Positions
      BY <1>7, <2>1
    <3> QED
      BY <1>1, <2>1, <3>1 DEF RunInv, StaleInv, HandlerInv
  <2>3. owner[b] # s
    <3>1. s # 0
      BY <1>3 DEF Living, Ids
    <3> QED
      BY <1>3, <2>2, <3>1 DEF RunInv, PoolInv
  <2> QED
    BY <2>2, <2>3 DEF s
<1> QED
  BY <1>1, <1>3, <1>9, <1>10, <1>11, <1>12, <1>13, <1>14 DEF RunInv, s
\* An accept failed or the connection is refused; the next one is begun.
LEMMA RetryStep ==
  ASSUME TypeOK, RunInv, queue # <<>>, Accepted(1), Then(<<>>),
         accepting' = ids + 1, ids' = ids + 1,
         socket' \in {socket, [socket EXCEPT ![H.s] = "closed"]},
         UNCHANGED <<members, blockVars, connect>>
  PROVE  RunInv' /\ Living' = Living
<1> DEFINE Old(i) == i + 1 \in Positions /\ queue'[i] = queue[i + 1]
<1>1. Moves(1, <<>>) /\ 1 \in Positions /\ H = queue[1]
  <2>1. <<>> \in Seq(Handler)
    OBVIOUS
  <2> QED
    BY <2>1, ThenMoves
<1>2. \A i \in Positions' : Old(i)
  BY <1>1 DEF Moves
<1>3. accepting = 0 /\ H.s = ids /\ ids \in Ids /\ Awaited /\ connect = "no"
  BY <1>1 DEF RunInv, AcceptInv, Awaited
<1>4. socket[ids] = "none" /\ ids \in Nat /\ ids + 1 # 0
  BY <1>3 DEF RunInv, FreshInv, Ids
<1>5. \A x \in Ids : x # ids => socket'[x] = socket[x]
  BY <1>3 DEF TypeOK
<1>6. socket'[ids] \in {"none", "closed"}
  BY <1>3, <1>4 DEF TypeOK
<1>7. Living' = Living
  BY <1>3, <1>4, <1>5, <1>6 DEF Living
<1>8. \A i \in Positions' : i \in Nat /\ i >= 1 /\ i + 1 # 1 /\ ~(i + 1 < 1)
  BY DEF Positions
<1>9. \A i \in Positions' : ~Accepted(i)'
  BY <1>1, <1>2, <1>8 DEF Accepted, RunInv, AcceptInv
<1>10. \A i \in Positions' : ~Adds(i)'
  BY <1>1, <1>2, <1>8 DEF Adds, RunInv, MemberInv
<1>11. \A x \in Ids : socket'[x] = "none" => socket[x] = "none"
  BY <1>4, <1>5
<1>12. \A x \in Ids : socket[x] # "none" => socket'[x] # "none"
  BY <1>4, <1>5
<1>13. HandlerInv'
  BY <1>2, <1>10, <1>12 DEF RunInv, HandlerInv, Completed, blockVars
<1>14. AcceptInv'
  BY <1>3, <1>9, <1>10 DEF RunInv, AcceptInv
<1>15. FreshInv'
  <2> SUFFICES ASSUME NEW x \in Ids, x > ids + 1 \/ x = ids + 1
               PROVE  socket'[x] = "none"
    BY DEF FreshInv
  <2>1. x > ids
    BY <1>4 DEF Ids
  <2> QED
    BY <1>4, <1>5, <2>1 DEF RunInv, FreshInv, Ids
<1>16. PoolInv'
  <2> DEFINE h == PoolSize \div 2
             t == pool.total
  <2>1. h \in Nat /\ PoolSize \in Nat /\ t \in Nat
    BY PoolAssumption DEF RunInv, PoolInv, WellFormed, Pool
  <2>2. t <= PoolSize + ids * h
    BY DEF RunInv, PoolInv
  <2>3. (ids + 1) * h = ids * h + h /\ ids * h \in Nat /\ ids + 1 - 1 = ids
    BY <1>4, <2>1
  <2>4. t <= PoolSize + (ids + 1) * h
    <3> DEFINE y == ids * h
    <3>1. (ids + 1) * h = y + h /\ y \in Nat /\ t <= PoolSize + y
      BY <2>2, <2>3
    <3> HIDE DEF y, h, t
    <3>2. t <= PoolSize + (y + h)
      BY <2>1, <3>1
    <3> QED
      BY <3>1, <3>2
  <2>5. t <= PoolSize + (ids + 1 - 1) * h
    BY <2>2, <2>3
  <2>6. \A b \in Blocks : owner[b] # 0 => block[owner[b]] = b /\ socket'[owner[b]] # "none"
    <3>1. \A b \in Blocks : owner[b] # 0 => owner[b] \in Ids
      BY AsioAssumption DEF TypeOK, Ids
    <3> QED
      BY <1>12, <3>1 DEF RunInv, PoolInv
  <2>7. UNCHANGED <<pool, block, owner>> /\ WellFormed(pool)
    BY DEF blockVars, RunInv, PoolInv
  <2>8. ids' >= 1 /\ ids' = ids + 1
    BY <1>4
  <2>9. \A x \in Living : block[x] \in 1..t /\ ~Free(block[x]) /\ owner[block[x]] = x
    BY DEF RunInv, PoolInv
  <2>10. t <= PoolSize + ids' * h /\ t <= PoolSize + (ids' - 1) * h
    <3>1. ids' = ids + 1
      OBVIOUS
    <3> HIDE DEF t, h
    <3>2. ids' * h = (ids + 1) * h /\ (ids' - 1) * h = (ids + 1 - 1) * h
      BY <1>4, <2>1, <3>1
    <3> QED
      BY <2>4, <2>5, <3>2
  <2> QED
    BY <1>7, <2>6, <2>7, <2>8, <2>9, <2>10 DEF PoolInv, Free
<1>17. MemberInv'
  <2>1. \A x \in Living : x \in members
    <3> SUFFICES ASSUME NEW x \in Living \ members PROVE FALSE
      OBVIOUS
    <3>1. PICK i \in Positions : Adds(i)
      BY DEF RunInv, MemberInv
    <3>2. i < 1
      BY <1>1, <3>1 DEF RunInv, MemberInv
    <3> QED
      BY <3>2 DEF Positions
  <2> QED
    BY <1>7, <1>10, <2>1 DEF RunInv, MemberInv
<1>18. StaleInv'
  BY <1>2, <1>10 DEF RunInv, StaleInv, Completed, blockVars
<1> QED
  BY <1>7, <1>13, <1>14, <1>15, <1>16, <1>17, <1>18 DEF RunInv

\* An id gets its session, in a block that no session uses.
LEMMA NewSessionSound ==
  ASSUME TypeOK, RunInv, Awaited, ids \in Ids, NewSession(ids)
  PROVE  LET b == Allocated(pool)
         IN  /\ b \in Blocks /\ Living' = Living \cup {ids} /\ ids \notin Living
             /\ WellFormed(pool') /\ pool'.total <= PoolSize + ids * (PoolSize \div 2)
             /\ block'[ids] = b /\ owner'[b] = ids /\ socket'[ids] = "open"
             /\ \A x \in Ids : x # ids => block'[x] = block[x] /\ socket'[x] = socket[x]
             /\ \A c \in Blocks : c # b => owner'[c] = owner[c]
             /\ \A x \in Living : block[x] # b
             /\ \A x \in Living' :
                  /\ block'[x] \in 1..pool'.total
                  /\ ~Free(block[x])' /\ owner'[block'[x]] = x
             /\ \A c \in Blocks :
                  owner'[c] # 0 => block'[owner'[c]] = c /\ socket'[owner'[c]] # "none"
<1> DEFINE b == Allocated(pool)
           q == Allocate(pool)
<1>1. /\ WellFormed(pool) /\ socket[ids] = "none"
      /\ \A x \in Living :
           block[x] \in 1..pool.total /\ ~Free(block[x]) /\ owner[block[x]] = x
  BY DEF RunInv, PoolInv, FreshInv
<1>2. b \in Blocks /\ WellFormed(q) /\ q.total <= PoolSize + ids * (PoolSize \div 2)
  BY BlocksSuffice DEF RunInv
<1>3. /\ b \in 1..q.total /\ b \notin FreeBlocks(q)
      /\ b \in FreeBlocks(pool) \/ b > pool.total
      /\ \A c \in FreeBlocks(q) : c \in FreeBlocks(pool) \/ c > pool.total
      /\ q.total \in pool.total..(pool.total + (PoolSize \div 2))
      /\ pool.total \in Nat /\ (PoolSize \div 2) \in Nat
  <2>1. pool.total \in Nat /\ (PoolSize \div 2) \in Nat
    BY <1>1, PoolAssumption DEF WellFormed, Pool
  <2> QED
    BY <1>1, <2>1, AllocateSound
<1>4. pool' = q
  BY DEF NewSession
<1>5. /\ block' = [block EXCEPT ![ids] = b]
      /\ owner' = [owner EXCEPT ![b] = ids]
      /\ socket' = [socket EXCEPT ![ids] = "open"]
  BY DEF NewSession
<1> HIDE DEF b, q
<1>6. block'[ids] = b /\ owner'[b] = ids /\ socket'[ids] = "open"
  BY <1>2, <1>5 DEF TypeOK
<1>7. \A x \in Ids : x # ids => block'[x] = block[x] /\ socket'[x] = socket[x]
  BY <1>5 DEF TypeOK
<1>8. \A c \in Blocks : c # b => owner'[c] = owner[c]
  BY <1>5 DEF TypeOK
<1>9. \A x \in Living : x \in Ids /\ x # ids /\ block[x] # b /\ block[x] \in Blocks
  BY <1>1, <1>3, LivingBlock DEF Living, Free
<1>10. Living' = Living \cup {ids} /\ ids \notin Living
  BY <1>1, <1>6, <1>7 DEF Living
<1>11. ASSUME NEW x \in Living'
       PROVE  /\ block'[x] \in 1..q.total /\ block'[x] \notin FreeBlocks(q)
              /\ owner'[block'[x]] = x
  <2>1. CASE x = ids
    BY <1>3, <1>6, <2>1
  <2>2. CASE x # ids
    <3>1. x \in Living /\ block'[x] = block[x]
      BY <1>7, <1>9, <1>10, <2>2
    <3>2. owner'[block[x]] = x
      BY <1>1, <1>8, <1>9, <3>1
    <3>3. block[x] \in 1..pool.total /\ block[x] \notin FreeBlocks(pool)
      BY <1>1, <3>1 DEF Free
    <3> QED
      BY <1>3, <3>1, <3>2, <3>3
  <2> QED
    BY <2>1, <2>2
<1>12. ASSUME NEW c \in Blocks, owner'[c] # 0
       PROVE  block'[owner'[c]] = c /\ socket'[owner'[c]] # "none"
  <2>1. CASE c = b
    BY <1>6, <2>1
  <2>2. CASE c # b
    <3>1. owner'[c] = owner[c] /\ owner[c] # 0 /\ owner[c] \in Ids
      BY <1>8, <1>12, <2>2, AsioAssumption DEF TypeOK, Ids
    <3>2. block[owner[c]] = c /\ socket[owner[c]] # "none"
      BY <3>1 DEF RunInv, PoolInv
    <3> QED
      BY <1>1, <1>7, <3>1, <3>2
  <2> QED
    BY <2>1, <2>2
<1> QED
  BY <1>2, <1>4, <1>6, <1>7, <1>8, <1>9, <1>10, <1>11, <1>12 DEF b, Free
\* A connection is accepted: its session lives, the task that enters it is the
\* last handler, and the next accept is begun.
LEMMA AcceptStep ==
  ASSUME TypeOK, RunInv, queue # <<>>, Accepted(1), NewSession(H.s),
         Then(<<Task("add", H.s, Allocated(pool), 0)>>),
         accepting' = ids + 1, ids' = ids + 1,
         UNCHANGED <<members, connect>>
  PROVE  RunInv' /\ Living = members /\ Living' = members \cup {ids}
<1> DEFINE Old(i) == i + 1 \in Positions /\ queue'[i] = queue[i + 1]
           b == Allocated(pool)
           n == Len(queue)
           t == Task("add", ids, b, 0)
<1>1. 1 \in Positions /\ H = queue[1]
  <2>1. queue \in Seq(Handler) /\ n \in Nat /\ n >= 1
    BY LenProperties, EmptySeq DEF TypeOK
  <2> QED
    BY <2>1 DEF Positions, H
<1>2. accepting = 0 /\ H.s = ids /\ ids \in Ids /\ Awaited /\ connect = "no"
  BY <1>1 DEF RunInv, AcceptInv, Awaited
<1>3. socket[ids] = "none" /\ ids \in Nat /\ ids + 1 # 0 /\ ids # 0
  BY <1>2 DEF RunInv, FreshInv, Ids
<1>4. NewSession(ids)
  BY <1>2
<1>5. /\ b \in Blocks /\ Living' = Living \cup {ids} /\ ids \notin Living
      /\ WellFormed(pool') /\ pool'.total <= PoolSize + ids * (PoolSize \div 2)
      /\ block'[ids] = b /\ owner'[b] = ids /\ socket'[ids] = "open"
  BY <1>2, <1>4, NewSessionSound
<1>6. /\ \A x \in Ids : x # ids => block'[x] = block[x] /\ socket'[x] = socket[x]
      /\ \A c \in Blocks : c # b => owner'[c] = owner[c]
      /\ \A x \in Living' :
           block'[x] \in 1..pool'.total /\ ~Free(block[x])' /\ owner'[block'[x]] = x
      /\ \A c \in Blocks :
           owner'[c] # 0 => block'[owner'[c]] = c /\ socket'[owner'[c]] # "none"
  BY <1>2, <1>4, NewSessionSound
<1>7. /\ t = [op |-> "add", s |-> ids, b |-> b, d |-> 0, r |-> "ok"]
      /\ Then(<<t>>) /\ <<t>> \in Seq(Handler)
  <2>1. t \in Handler
    <3>1. ids \in 0..MaxIds + 1 /\ 0 \in 0..MaxCalls
      BY <1>2, AsioAssumption DEF Ids
    <3> QED
      BY <1>5, <3>1, HandlerTypes DEF Ops
  <2> QED
    BY <1>2, <2>1 DEF Task
<1> HIDE DEF t, b
<1>8. Moves(1, <<t>>)
  BY <1>7, ThenMoves
<1>9. Len(<<t>>) = 1 /\ <<t>>[1] = t /\ n \in Nat
  BY LenProperties DEF TypeOK
<1>10. \A i \in Positions' : Old(i) \/ (i = n - 1 + 1 /\ queue'[i] = t)
  BY <1>8, <1>9 DEF Moves
<1>11. n \in Positions' /\ queue'[n] = t
  <2>1. 1 \in 1..Len(<<t>>) /\ n - 1 + 1 = n
    BY <1>9
  <2> QED
    BY <1>8, <1>9, <2>1 DEF Moves
<1> HIDE DEF n
<1>12. \A i \in Positions' : i = n \/ (Old(i) /\ i < n /\ i \in Nat /\ i >= 1 /\ i + 1 # 1 /\ ~(i + 1 < 1))
  BY <1>9, <1>10 DEF Positions, n
<1>13. \A i \in Positions' : ~Accepted(i)'
  BY <1>1, <1>7, <1>11, <1>12 DEF Accepted, RunInv, AcceptInv
<1>14. \A i \in Positions' : Adds(i)' => i = n
  BY <1>1, <1>12 DEF Adds, RunInv, MemberInv
<1>15. \A i \in Positions' : Completed(i)' => Old(i) /\ Completed(i + 1) /\ i < n
  BY <1>7, <1>11, <1>12 DEF Completed
<1>16. Living = members
  <2> SUFFICES ASSUME NEW x \in Living \ members PROVE FALSE
    BY DEF RunInv, MemberInv
  <2>1. PICK i \in Positions : Adds(i)
    BY DEF RunInv, MemberInv
  <2>2. i < 1
    BY <1>1, <2>1 DEF RunInv, MemberInv
  <2> QED
    BY <2>2 DEF Positions
<1>17. HandlerInv'
  <2> SUFFICES ASSUME NEW i \in Positions'
      PROVE  /\ queue'[i].op \in {"accept", "close", "send", "sendAll"} => queue'[i].b = 0
             /\ queue'[i].op \in {"send", "sendAll"} => queue'[i].d \in Messages
             /\ Adds(i)' => queue'[i].r = "ok"
             /\ Completed(i)' =>
                  /\ queue'[i].s \in Ids /\ queue'[i].b \in Blocks
                  /\ block'[queue'[i].s] = queue'[i].b /\ socket'[queue'[i].s] # "none"
    BY DEF HandlerInv
  <2>1. CASE i = n
    BY <1>7, <1>11, <2>1 DEF Completed
  <2>2. CASE Old(i)
    BY <1>3, <1>6, <2>2 DEF RunInv, HandlerInv, Adds, Completed
  <2> QED
    BY <1>12, <2>1, <2>2
<1>18. AcceptInv'
  BY <1>2, <1>13 DEF RunInv, AcceptInv
<1>19. FreshInv'
  <2> SUFFICES ASSUME NEW x \in Ids, x > ids + 1 \/ x = ids + 1
               PROVE  socket'[x] = "none"
    BY DEF FreshInv
  <2>1. x > ids /\ x # ids
    BY <1>3 DEF Ids
  <2> QED
    BY <1>6, <2>1 DEF RunInv, FreshInv
<1>20. PoolInv'
  <2> DEFINE h == PoolSize \div 2
             u == pool'.total
  <2>1. h \in Nat /\ PoolSize \in Nat /\ u \in Nat
    BY <1>5, PoolAssumption DEF WellFormed, Pool
  <2>2. u <= PoolSize + ids * h
    BY <1>5
  <2>3. (ids + 1) * h = ids * h + h /\ ids * h \in Nat /\ ids + 1 - 1 = ids
    BY <1>3, <2>1
  <2>4. u <= PoolSize + (ids + 1) * h
    <3> DEFINE y == ids * h
    <3>1. (ids + 1) * h = y + h /\ y \in Nat /\ u <= PoolSize + y
      BY <2>2, <2>3
    <3> HIDE DEF y, h, u
    <3>2. u <= PoolSize + (y + h)
      BY <2>1, <3>1
    <3> QED
      BY <3>1, <3>2
  <2>5. u <= PoolSize + (ids + 1 - 1) * h
    BY <2>2, <2>3
  <2>6. ids' >= 1 /\ ids' = ids + 1
    BY <1>3
  <2>7. u <= PoolSize + ids' * h /\ u <= PoolSize + (ids' - 1) * h
    <3> HIDE DEF u, h
    <3>1. ids' * h = (ids + 1) * h /\ (ids' - 1) * h = (ids + 1 - 1) * h
      BY <1>3, <2>1, <2>6
    <3> QED
      BY <2>4, <2>5, <3>1
  <2> QED
    BY <1>5, <1>6, <2>6, <2>7 DEF PoolInv
<1>21. MemberInv'
  <2>1. \A i \in Positions' : Adds(i)' =>
          /\ queue'[i].s \in Living' \ members' /\ block'[queue'[i].s] = queue'[i].b
          /\ \A j \in Positions' : Accepted(j)' => i < j
          /\ \A j \in Positions' : Adds(j)' => i = j
    BY <1>5, <1>7, <1>11, <1>13, <1>14, <1>16
  <2>2. \A x \in Living' \ members' : x = ids
    BY <1>5, <1>16
  <2>3. queue'[n].op = "add" /\ queue'[n].s = ids
    BY <1>7, <1>11
  <2>4. members' \subseteq Living'
    BY <1>5, <1>16
  <2>5. \A x \in Living' \ members' : \E i \in Positions' : Adds(i)' /\ queue'[i].s = x
    BY <1>11, <2>2, <2>3 DEF Adds
  <2> QED
    BY <2>1, <2>4, <2>5 DEF MemberInv
<1>22. StaleInv'
  <2> SUFFICES ASSUME NEW i \in Positions', Completed(i)',
                      owner'[queue'[i].b] # queue'[i].s
      PROVE  /\ owner'[queue'[i].b] \notin members
             /\ \A j \in Positions' : Adds(j)' /\ queue'[j].b = queue'[i].b => i < j
    BY DEF StaleInv
  <2>1. Old(i) /\ Completed(i + 1) /\ i < n
    BY <1>15
  <2>2. \A j \in Positions' : Adds(j)' => i < j
    BY <1>14, <2>1
  <2>3. CASE queue'[i].b = b
    BY <1>5, <1>16, <2>2, <2>3
  <2>4. CASE queue'[i].b # b
    <3>1. queue'[i].b \in Blocks
      BY <2>1 DEF RunInv, HandlerInv
    <3>2. owner'[queue'[i].b] = owner[queue'[i].b]
      BY <1>6, <2>4, <3>1
    <3> QED
      BY <2>1, <2>2, <3>2 DEF RunInv, StaleInv
  <2> QED
    BY <2>3, <2>4
<1> QED
  BY <1>5, <1>16, <1>17, <1>18, <1>19, <1>20, <1>21, <1>22 DEF RunInv

\* A client is connected: its session is the only one.
LEMMA ConnectStep ==
  ASSUME TypeOK, RunInv, connect = "trying", NewSession(1),
         members' = members \cup {1}, connect' = "inserted",
         UNCHANGED <<queue, acceptVars>>
  PROVE  RunInv' /\ Living = {} /\ Living' = {1}
<1>1. /\ ids = 1 /\ accepting = 0 /\ Living = {} /\ members = {} /\ Awaited
      /\ \A i \in Positions : ~Accepted(i) /\ ~Adds(i) /\ ~Completed(i)
      /\ \A x \in Ids : socket[x] = "none"
  BY DEF RunInv, AcceptInv, MemberInv, Living, Awaited
<1>2. ids \in Ids /\ NewSession(ids)
  BY <1>1, AsioAssumption DEF Ids
<1>3. /\ Living' = {1} /\ WellFormed(pool')
      /\ pool'.total <= PoolSize + ids * (PoolSize \div 2)
      /\ \A x \in Ids : x # 1 => socket'[x] = socket[x]
      /\ \A x \in Living' :
           block'[x] \in 1..pool'.total /\ ~Free(block[x])' /\ owner'[block'[x]] = x
      /\ \A c \in Blocks :
           owner'[c] # 0 => block'[owner'[c]] = c /\ socket'[owner'[c]] # "none"
  BY <1>1, <1>2, NewSessionSound
<1>4. Positions' = Positions /\ ids' = ids /\ accepting' = 0 /\ ~Awaited'
  BY <1>1 DEF Positions, acceptVars, Awaited, Accepted
<1>5. \A i \in Positions : ~Accepted(i)' /\ ~Adds(i)' /\ ~Completed(i)'
  BY <1>1 DEF Accepted, Adds, Completed
<1>6. HandlerInv'
  BY <1>4, <1>5 DEF RunInv, HandlerInv
<1>7. AcceptInv'
  BY <1>4, <1>5 DEF AcceptInv
<1>8. FreshInv'
  BY <1>1, <1>3, <1>4 DEF FreshInv, Ids
<1>9. PoolInv'
  BY <1>3, <1>4 DEF PoolInv
<1>10. MemberInv' /\ StaleInv'
  BY <1>1, <1>3, <1>4, <1>5 DEF MemberInv, StaleInv
<1> QED
  BY <1>1, <1>3, <1>6, <1>7, <1>8, <1>9, <1>10 DEF RunInv

\* An accept completes.
LEMMA AcceptDoneStep ==
  ASSUME TypeOK, RunInv, AcceptDone
  PROVE  RunInv'
<1> DEFINE n == Len(queue)
           h == queue'[n + 1]
<1>1. accepting \in Ids /\ accepting = ids /\ accepting # 0 /\ Awaited /\ connect = "no"
  BY DEF AcceptDone, RunInv, AcceptInv, Awaited, Ids
<1>2. \A i \in Positions : ~Accepted(i)
  BY <1>1 DEF RunInv, AcceptInv
<1>3. /\ Positions' = 1..n + 1 /\ Positions = 1..n /\ n \in Nat
      /\ h.op = "accept" /\ h.s = ids /\ h.b = 0
      /\ \A i \in Positions : queue'[i] = queue[i]
  <2>1. PICK r \in {"ok", "error"} :
          queue' = Append(queue, [Task("accept", accepting, 0, 0) EXCEPT !.r = r])
    BY DEF AcceptDone
  <2>2. [Task("accept", accepting, 0, 0) EXCEPT !.r = r]
          = [op |-> "accept", s |-> accepting, b |-> 0, d |-> 0, r |-> r]
    BY HandlerTypes DEF TypeOK, Results
  <2>3. /\ n \in Nat /\ Len(queue') = n + 1
        /\ \A i \in 1..n : queue'[i] = queue[i]
        /\ queue'[n + 1] = [op |-> "accept", s |-> accepting, b |-> 0, d |-> 0, r |-> r]
    BY <2>1, <2>2, LenProperties, AppendProperties DEF TypeOK
  <2>4. Positions' = 1..n + 1 /\ Positions = 1..n
    BY <2>3 DEF Positions
  <2>5. h.op = "accept" /\ h.s = ids /\ h.b = 0
    <3>1. h = [op |-> "accept", s |-> ids, b |-> 0, d |-> 0, r |-> r]
      BY <1>1, <2>3
    <3> QED
      BY <3>1
  <2> HIDE DEF n
  <2>6. \A i \in Positions : queue'[i] = queue[i]
    BY <2>3, <2>4
  <2> QED
    BY <2>3, <2>4, <2>5, <2>6
<1> HIDE DEF n
<1>4. \A i \in Positions' : i = n + 1 \/ (i \in Positions /\ i < n + 1)
  BY <1>3
<1>5. \A i \in Positions : i \in Positions'
  BY <1>3
<1>6. accepting' = 0 /\ ids' = ids /\ UNCHANGED <<members, pool, block, owner, socket, connect>>
  BY DEF AcceptDone, Reactor, stopVars, blockVars
<1>7. \A i \in Positions' : Accepted(i)' => i = n + 1
  BY <1>2, <1>3, <1>4 DEF Accepted
<1>8. \A i \in Positions' : Adds(i)' => i \in Positions /\ Adds(i) /\ i < n + 1
  BY <1>3, <1>4 DEF Adds
<1>9. \A i \in Positions' : Completed(i)' => i \in Positions /\ Completed(i)
  BY <1>3, <1>4 DEF Completed
<1>10. Living' = Living
  BY <1>6 DEF Living
<1>11. HandlerInv'
  <2> SUFFICES ASSUME NEW i \in Positions'
      PROVE  /\ queue'[i].op \in {"accept", "close", "send", "sendAll"} => queue'[i].b = 0
             /\ queue'[i].op \in {"send", "sendAll"} => queue'[i].d \in Messages
             /\ Adds(i)' => queue'[i].r = "ok"
             /\ Completed(i)' =>
                  /\ queue'[i].s \in Ids /\ queue'[i].b \in Blocks
                  /\ block'[queue'[i].s] = queue'[i].b /\ socket'[queue'[i].s] # "none"
    BY DEF HandlerInv
  <2>1. CASE i = n + 1
    BY <1>3, <2>1 DEF Adds, Completed
  <2>2. CASE i \in Positions
    BY <1>3, <1>6, <2>2 DEF RunInv, HandlerInv, Adds, Completed
  <2> QED
    BY <1>4, <2>1, <2>2
<1>12. AcceptInv'
  BY <1>1, <1>3, <1>6, <1>7 DEF AcceptInv
<1>13. FreshInv'
  BY <1>1, <1>6 DEF RunInv, FreshInv
<1>14. PoolInv'
  BY <1>1, <1>6, <1>10 DEF RunInv, PoolInv, Free
<1>15. MemberInv'
  <2>1. \A i \in Positions' : Adds(i)' =>
          /\ queue'[i].s \in Living' \ members' /\ block'[queue'[i].s] = queue'[i].b
          /\ \A j \in Positions' : Accepted(j)' => i < j
          /\ \A j \in Positions' : Adds(j)' => i = j
    BY <1>3, <1>6, <1>7, <1>8, <1>10 DEF RunInv, MemberInv
  <2>2. ASSUME NEW x \in Living' \ members'
        PROVE  \E i \in Positions' : Adds(i)' /\ queue'[i].s = x
    <3>1. PICK i \in Positions : Adds(i) /\ queue[i].s = x
      BY <1>6, <1>10 DEF RunInv, MemberInv
    <3> QED
      BY <1>3, <1>5, <3>1 DEF Adds
  <2> QED
    BY <1>6, <1>10, <2>1, <2>2 DEF RunInv, MemberInv
<1>16. StaleInv'
  <2> SUFFICES ASSUME NEW i \in Positions', Completed(i)',
                      owner[queue'[i].b] # queue'[i].s
      PROVE  /\ owner[queue'[i].b] \notin members
             /\ \A j \in Positions' : Adds(j)' /\ queue'[j].b = queue'[i].b => i < j
    BY <1>6 DEF StaleInv
  <2>1. i \in Positions /\ Completed(i) /\ queue'[i] = queue[i]
    BY <1>3, <1>9
  <2> QED
    BY <1>3, <1>8, <2>1 DEF RunInv, StaleInv
<1> QED
  BY <1>11, <1>12, <1>13, <1>14, <1>15, <1>16 DEF RunInv
-----------------------------------------------------------------------------
(* Every step.                                                             *)

LEMMA LivingFinite ==
  ASSUME NEW S, S \subseteq Ids
  PROVE  IsFiniteSet(S) /\ Cardinality(S) \in Nat
<1>1. IsFiniteSet(Ids)
  BY AsioAssumption, FS_Interval DEF Ids
<1> QED
  BY <1>1, FS_Subset, FS_CardinalityType

\* No session is added, or one to those that are within the limit.
LEMMA BoundStep ==
  ASSUME TypeOK, SessionBound, stop # "done", UNCHANGED limit,
         \/ Living' \subseteq Living
         \/ Cardinality(Living) <= limit /\ \E s \in Ids : Living' = Living \cup {s}
  PROVE  SessionBound'
<1>1. Living \subseteq Ids /\ limit \in Nat
  BY AsioAssumption DEF Living, TypeOK
<1>2. IsFiniteSet(Living) /\ Cardinality(Living) \in Nat
  BY <1>1, LivingFinite
<1>3. CASE Living' \subseteq Living
  <2>1. Cardinality(Living') <= Cardinality(Living) /\ Cardinality(Living') \in Nat
    BY <1>2, <1>3, FS_Subset, FS_CardinalityType
  <2>2. Cardinality(Living) <= limit + 1
    BY DEF SessionBound
  <2>3. Cardinality(Living') <= limit + 1
    BY <1>1, <1>2, <2>1, <2>2
  <2> QED
    BY <2>3 DEF SessionBound
<1>4. ASSUME Cardinality(Living) <= limit, NEW s \in Ids, Living' = Living \cup {s}
      PROVE  SessionBound'
  <2>1. Cardinality(Living') = IF s \in Living THEN Cardinality(Living)
                               ELSE Cardinality(Living) + 1
    BY <1>2, <1>4, FS_AddElement
  <2>2. Cardinality(Living') <= limit + 1
    BY <1>1, <1>2, <1>4, <2>1
  <2> QED
    BY <2>2 DEF SessionBound
<1> QED
  BY <1>3, <1>4

\* When an accept is the next handler every session is entered.
LEMMA AllEntered ==
  ASSUME RunInv, Accepted(1), 1 \in Positions
  PROVE  Living = members
<1> SUFFICES ASSUME NEW x \in Living \ members PROVE FALSE
  BY DEF RunInv, MemberInv
<1>1. PICK i \in Positions : Adds(i)
  BY DEF RunInv, MemberInv
<1>2. i < 1
  BY <1>1 DEF RunInv, MemberInv
<1> QED
  BY <1>2 DEF Positions

\* A handler that only goes, a handler that is posted, a session closed.
LEMMA GoesStep ==
  ASSUME TypeOK, RunInv, queue # <<>>, ~Adds(1), Then(<<>>),
         UNCHANGED <<members, pool, block, owner, socket, ids, accepting, connect>>
  PROVE  RunInv' /\ Living' = Living
<1>1. <<>> \in Seq(Handler) /\ Len(<<>>) = 0
  OBVIOUS
<1>2. Moves(1, <<>>)
  BY <1>1, ThenMoves
<1>3. RunInv'
  <2> DEFINE p == <<>>
  <2>1. p \in Seq(Handler) /\ Moves(1, p) /\ \A j \in 1..Len(p) : Plain(p[j])
    BY <1>1, <1>2
  <2> HIDE DEF p
  <2>2. connect' = connect /\ accepting' \in {accepting, 0} /\ 1 \in {0, 1}
    OBVIOUS
  <2> QED
    BY <2>1, <2>2, QuietStep
<1> QED
  BY <1>3 DEF Living

LEMMA PostStep ==
  ASSUME TypeOK, RunInv, NEW h \in Handler, Plain(h), queue' = Append(queue, h),
         UNCHANGED <<members, pool, block, owner, socket, ids, connect>>,
         accepting' \in {accepting, 0}
  PROVE  RunInv' /\ Living' = Living
<1>1. <<h>> \in Seq(Handler) /\ Len(<<h>>) = 1 /\ <<h>>[1] = h
  OBVIOUS
<1>2. Moves(0, <<h>>)
  BY AppendMoves
<1>3. \A j \in 1..Len(<<h>>) : Plain(<<h>>[j])
  <2> TAKE j \in 1..Len(<<h>>)
  <2>1. j = 1
    BY <1>1
  <2> QED
    BY <1>1, <2>1
<1>4. RunInv'
  <2> DEFINE p == <<h>>
  <2>1. p \in Seq(Handler) /\ Moves(0, p) /\ \A j \in 1..Len(p) : Plain(p[j])
    BY <1>1, <1>2, <1>3
  <2> HIDE DEF p
  <2>2. connect' = connect /\ 0 \in {0, 1} /\ 0 # 1
    OBVIOUS
  <2> QED
    BY <2>1, <2>2, QuietStep
<1> QED
  BY <1>4 DEF Living

LEMMA CloseAnyStep ==
  ASSUME TypeOK, RunInv, queue # <<>>, ~Adds(1), NEW s, CloseSession(s),
         UNCHANGED <<acceptVars, block, owner, connect>>
  PROVE  RunInv' /\ Living' \subseteq Living
<1>1. CASE s \in members
  BY <1>1, CloseStep
<1>2. CASE s \notin members
  <2>1. Then(<<>>) /\ UNCHANGED <<members, pool, block, owner, socket, ids, accepting, connect>>
    BY <1>2 DEF CloseSession, acceptVars
  <2> QED
    BY <2>1, GoesStep
<1> QED
  BY <1>1, <1>2

\* A call of the application.
LEMMA PostedStep ==
  ASSUME TypeOK, RunInv, NEW task \in Handler, Plain(task), Post(task)
  PROVE  RunInv' /\ Living' = Living
BY PostStep DEF Post, stopVars, acceptVars, blockVars, ioVars
\* The invariant is kept by every handler.
LEMMA HandlerStep ==
  ASSUME TypeOK, SessionBound, Running => RunInv, ThreadFunc
  PROVE  (Running' => RunInv') /\ SessionBound'
<1>1. ASSUME NEW op, Run(op)
      PROVE  /\ RunInv /\ Running /\ queue # <<>> /\ 1 \in Positions /\ H = queue[1]
             /\ H \in Handler /\ H.op = op /\ stop # "done"
             /\ UNCHANGED <<limit, stop, connect>>
  <2>1. RunInv /\ Running /\ queue # <<>> /\ H.op = op
    BY <1>1 DEF Run, Running, H
  <2>3. queue \in Seq(Handler) /\ Len(queue) \in Nat /\ Len(queue) >= 1
    BY <2>1, LenProperties, EmptySeq DEF TypeOK
  <2>4. 1 \in 1..Len(queue)
    BY <2>3
  <2>5. H = queue[1] /\ H \in Handler
    BY <2>1, <2>3, <2>4, ElementOfSeq DEF H
  <2> QED
    BY <1>1, <2>1, <2>4, <2>5 DEF Positions, Run, stopVars
<1>2. CASE HandleAccept
  <2>1. /\ RunInv /\ queue # <<>> /\ 1 \in Positions /\ H = queue[1] /\ H.op = "accept"
        /\ stop # "done" /\ UNCHANGED <<limit, stop, connect>>
    BY <1>1, <1>2 DEF HandleAccept
  <2>2. CASE H.r = "aborted"
    <3>1. /\ ~Adds(1) /\ Then(<<>>)
          /\ UNCHANGED <<members, pool, block, owner, socket, ids, accepting>>
      BY <1>2, <2>1, <2>2 DEF HandleAccept, Adds, blockVars
    <3> QED
      BY <2>1, <3>1, GoesStep, BoundStep
  <2>3. H.r # "aborted" => Accepted(1) /\ H.s = ids /\ ids \in Ids /\ Awaited
    BY <2>1 DEF Accepted, RunInv, AcceptInv, Awaited
  <2>4. CASE /\ H.r # "aborted" /\ Then(<<>>) /\ UNCHANGED blockVars
             /\ socket' \in {socket, [socket EXCEPT ![H.s] = "closed"]}
             /\ DoAccept \/ (thread' = "undefined" /\ UNCHANGED <<accepting, ids>>)
    <3>1. Living' \subseteq Living
      <4> SUFFICES ASSUME NEW x \in Ids, socket'[x] = "open" PROVE socket[x] = "open"
        BY DEF Living
      <4> QED
        BY <2>3, <2>4 DEF TypeOK
    <3>2. ASSUME Running' PROVE RunInv'
      <4>1. accepting' = ids + 1 /\ ids' = ids + 1
        BY <2>4, <3>2 DEF DoAccept, Running
      <4> QED
        BY <1>2, <2>1, <2>3, <2>4, <4>1, RetryStep DEF HandleAccept
    <3> QED
      BY <2>1, <3>1, <3>2, BoundStep
  <2>5. CASE /\ H.r = "ok" /\ Cardinality(members) <= limit /\ NewSession(H.s)
             /\ Then(<<Task("add", H.s, Allocated(pool), 0)>>) /\ DoAccept
    <3>1. Living = members /\ Living' = members \cup {ids} /\ ids \in Ids
      <4>1. Living = members
        BY <2>1, <2>3, <2>5, AllEntered
      <4>2. ids \in Ids /\ Awaited /\ NewSession(ids)
        BY <2>3, <2>5
      <4>3. Living' = Living \cup {ids}
        BY <2>1, <4>2, NewSessionSound
      <4> QED
        BY <4>1, <4>2, <4>3
    <3>2. ASSUME Running' PROVE RunInv'
      <4>1. accepting' = ids + 1 /\ ids' = ids + 1
        BY <2>5, <3>2 DEF DoAccept, Running
      <4> QED
        BY <1>2, <2>1, <2>3, <2>5, <4>1, AcceptStep DEF HandleAccept
    <3> QED
      BY <2>1, <2>5, <3>1, <3>2, BoundStep
  <2> QED
    BY <1>2, <2>2, <2>4, <2>5 DEF HandleAccept
<1>3. CASE HandleAddSession
  <2>1. /\ RunInv /\ queue # <<>> /\ 1 \in Positions /\ H = queue[1] /\ H.op = "add"
        /\ stop # "done" /\ UNCHANGED <<limit, stop, connect>>
    BY <1>1, <1>3 DEF HandleAddSession
  <2>2. /\ Adds(1) /\ Then(<<>>) /\ members' = members \cup {owner[H.b]}
        /\ UNCHANGED <<acceptVars, blockVars, socket>>
    BY <1>3, <2>1 DEF HandleAddSession, Adds
  <2>3. RunInv' /\ Living' = Living
    BY <2>1, <2>2, AddStep DEF Living
  <2> QED
    BY <2>1, <2>3, BoundStep
<1>4. CASE HandleCloseSession
  <2>1. /\ RunInv /\ queue # <<>> /\ H = queue[1] /\ H.op = "close"
        /\ stop # "done" /\ UNCHANGED <<limit, stop, connect>>
    BY <1>1, <1>4 DEF HandleCloseSession
  <2>2. ~Adds(1) /\ CloseSession(H.s) /\ UNCHANGED <<acceptVars, block, owner>>
    BY <1>4, <2>1 DEF HandleCloseSession, Adds
  <2>3. RunInv' /\ Living' \subseteq Living
    BY <2>1, <2>2, CloseAnyStep
  <2> QED
    BY <2>1, <2>3, BoundStep
<1>5. CASE HandleReceived
  <2>1. /\ RunInv /\ queue # <<>> /\ H = queue[1] /\ H.op = "received"
        /\ stop # "done" /\ UNCHANGED <<limit, stop, connect>>
    BY <1>1, <1>5 DEF HandleReceived
  <2>2. ~Adds(1) /\ UNCHANGED <<acceptVars, block, owner>>
    BY <1>5, <2>1 DEF HandleReceived, Adds
  <2>3. CASE CloseSession(owner[H.b])
    <3>1. RunInv' /\ Living' \subseteq Living
      BY <2>1, <2>2, <2>3, CloseAnyStep
    <3> QED
      BY <2>1, <3>1, BoundStep
  <2>4. CASE Then(<<>>) /\ UNCHANGED <<socket, members, pool>>
    <3>1. RunInv' /\ Living' = Living
      BY <2>1, <2>2, <2>4, GoesStep DEF acceptVars
    <3> QED
      BY <2>1, <3>1, BoundStep
  <2> QED
    BY <1>5, <2>3, <2>4 DEF HandleReceived
<1>6. ASSUME NEW op \in {"send", "sendAll"}, NEW S, HandleSend(op, S)
      PROVE  (Running' => RunInv') /\ SessionBound'
  <2>1. /\ RunInv /\ queue # <<>> /\ H = queue[1] /\ H.op = op
        /\ stop # "done" /\ UNCHANGED <<limit, stop, connect>>
    BY <1>1, <1>6 DEF HandleSend
  <2>2. /\ ~Adds(1) /\ Then(<<>>)
        /\ UNCHANGED <<members, pool, block, owner, socket, ids, accepting>>
    BY <1>6, <2>1 DEF HandleSend, Adds, acceptVars, blockVars
  <2>3. RunInv' /\ Living' = Living
    BY <2>1, <2>2, GoesStep
  <2> QED
    BY <2>1, <2>3, BoundStep
<1>7. CASE HandleSendData \/ HandleSendDataAll
  BY <1>6, <1>7 DEF HandleSendData, HandleSendDataAll
<1>8. CASE HandleWrited
  <2>1. /\ RunInv /\ queue # <<>> /\ H = queue[1] /\ H.op = "written"
        /\ stop # "done" /\ UNCHANGED <<limit, stop, connect>>
    BY <1>1, <1>8 DEF HandleWrited
  <2>2. ~Adds(1) /\ UNCHANGED <<acceptVars, block, owner>>
    BY <1>8, <2>1 DEF HandleWrited, Adds
  <2>3. CASE CloseSession(owner[H.b])
    <3>1. RunInv' /\ Living' \subseteq Living
      BY <2>1, <2>2, <2>3, CloseAnyStep
    <3> QED
      BY <2>1, <3>1, BoundStep
  <2>4. CASE Then(<<>>) /\ UNCHANGED <<socket, members, pool>>
    <3>1. RunInv' /\ Living' = Living
      BY <2>1, <2>2, <2>4, GoesStep DEF acceptVars
    <3> QED
      BY <2>1, <3>1, BoundStep
  <2> QED
    BY <1>8, <2>3, <2>4 DEF HandleWrited
<1> QED
  BY <1>2, <1>3, <1>4, <1>5, <1>7, <1>8 DEF ThreadFunc

\* It is kept by the application, by asio and by stopping.
LEMMA OtherStep ==
  ASSUME TypeOK, SessionBound, Running => RunInv, [Next]_vars, ~ThreadFunc
  PROVE  (Running' => RunInv') /\ SessionBound'
<1>1. CASE UNCHANGED vars
  <2>1. UNCHANGED <<queue, thread, stopVars, acceptVars, members, blockVars, ioVars>>
    BY <1>1 DEF vars
  <2>2. UNCHANGED <<Running, Living, Positions, Awaited>>
    BY <2>1 DEF Running, Living, Positions, Awaited, Accepted, stopVars, acceptVars, ioVars
  <2>3. RunInv' = RunInv
    BY <2>1, <2>2
       DEF RunInv, HandlerInv, AcceptInv, FreshInv, PoolInv, MemberInv, StaleInv, Free,
           Accepted, Adds, Completed, stopVars, acceptVars, blockVars, ioVars
  <2> QED
    BY <2>1, <2>2, <2>3 DEF SessionBound, stopVars
<1>2. ASSUME NEW task \in Handler, Plain(task), Post(task), stop = "no"
      PROVE  (Running' => RunInv') /\ SessionBound'
  <2>1. RunInv /\ UNCHANGED <<limit, stop>>
    BY <1>2 DEF Post, Running, stopVars
  <2>2. RunInv' /\ Living' = Living
    BY <1>2, <2>1, PostedStep
  <2> QED
    BY <1>2, <2>1, <2>2, BoundStep
<1>3. CASE \E s \in Ids : DoSendData(s) \/ DoCloseSession(s)
  <2>1. PICK s \in Ids : DoSendData(s) \/ DoCloseSession(s)
    BY <1>3
  <2>2. calls < MaxCalls => calls + 1 \in Messages /\ calls + 1 \in 0..MaxCalls
    BY AsioAssumption DEF TypeOK, Messages
  <2>3. s \in 0..MaxIds + 1 /\ 0 \in 0..MaxCalls
    BY AsioAssumption DEF Ids
  <2>4. CASE DoSendData(s)
    <3>1. Task("send", s, 0, calls + 1) \in Handler /\ calls + 1 \in Messages
      BY <2>2, <2>3, <2>4, HandlerTypes DEF DoSendData, Post, Ops
    <3>2. Plain(Task("send", s, 0, calls + 1))
      BY <3>1 DEF Plain, Task
    <3> QED
      BY <1>2, <2>4, <3>1, <3>2 DEF DoSendData
  <2>5. CASE DoCloseSession(s)
    <3>1. Task("close", s, 0, 0) \in Handler
      BY <2>3, HandlerTypes DEF Ops
    <3>2. Plain(Task("close", s, 0, 0))
      BY DEF Plain, Task
    <3> QED
      BY <1>2, <2>5, <3>1, <3>2 DEF DoCloseSession
  <2> QED
    BY <2>1, <2>4, <2>5
<1>4. CASE DoSendDataAll
  <2>1. calls < MaxCalls => calls + 1 \in Messages /\ calls + 1 \in 0..MaxCalls
    BY AsioAssumption DEF TypeOK, Messages
  <2>2. 0 \in 0..MaxIds + 1
    BY AsioAssumption
  <2>3. Task("sendAll", 0, 0, calls + 1) \in Handler /\ calls + 1 \in Messages
    BY <1>4, <2>1, <2>2, HandlerTypes DEF DoSendDataAll, Post, Ops
  <2>4. Plain(Task("sendAll", 0, 0, calls + 1))
    BY <2>3 DEF Plain, Task
  <2> QED
    BY <1>2, <1>4, <2>3, <2>4 DEF DoSendDataAll
<1>5. CASE TryStopNetwork
  <2>1. /\ RunInv /\ UNCHANGED <<limit, connect, ids, members, pool, block, owner, socket>>
        /\ accepting' = 0 /\ stop # "done"
    BY <1>5 DEF TryStopNetwork, Running, blockVars, ioVars
  <2>2. Living' = Living
    BY <2>1 DEF Living
  <2>3. RunInv'
    <3>1. CASE accepting = 0
      <4>1. UNCHANGED queue
        BY <1>5, <3>1 DEF TryStopNetwork
      <4> DEFINE p == <<>>
      <4>2. p \in Seq(Handler) /\ Moves(0, p) /\ \A j \in 1..Len(p) : Plain(p[j])
        BY <4>1, Stays
      <4> HIDE DEF p
      <4>3. connect' = connect /\ 0 \in {0, 1} /\ 0 # 1 /\ accepting' \in {accepting, 0}
        BY <2>1
      <4> QED
        BY <2>1, <4>2, <4>3, QuietStep
    <3>2. CASE accepting # 0
      <4> DEFINE h == [Task("accept", accepting, 0, 0) EXCEPT !.r = "aborted"]
      <4>1. /\ h \in Handler
            /\ h = [op |-> "accept", s |-> accepting, b |-> 0, d |-> 0, r |-> "aborted"]
        BY HandlerTypes DEF TypeOK, Results
      <4>2. queue' = Append(queue, h)
        BY <1>5, <3>2 DEF TryStopNetwork
      <4> HIDE DEF h
      <4>3. Plain(h)
        BY <4>1 DEF Plain
      <4> QED
        BY <2>1, <4>1, <4>2, <4>3, PostStep
    <3> QED
      BY <3>1, <3>2
  <2> QED
    BY <2>1, <2>2, <2>3, BoundStep
<1>6. CASE ClearSession
  BY <1>6 DEF ClearSession, Running, SessionBound
<1>7. CASE Connected
  <2>1. CASE stop = "done"
    BY <1>7, <2>1 DEF Connected, Running, SessionBound
  <2>2. CASE stop # "done"
    <3>1. RunInv' /\ Living = {} /\ Living' = {1}
      BY <1>7, <2>2, ConnectStep DEF Connected, Running
    <3>2. limit \in Nat /\ Cardinality({}) = 0 /\ 1 \in Ids
      BY AsioAssumption, FS_EmptySet DEF TypeOK, Ids
    <3>3. Cardinality(Living) <= limit /\ Living' = Living \cup {1}
      BY <3>1, <3>2
    <3>4. UNCHANGED limit
      BY <1>7 DEF Connected
    <3> QED
      BY <2>2, <3>1, <3>2, <3>3, <3>4, BoundStep
  <2> QED
    BY <2>1, <2>2
<1>8. CASE Announce \/ GiveUp
  <2>1. /\ UNCHANGED <<limit, stop, members, pool, block, owner, socket, ids, queue, accepting>>
        /\ connect # "no" /\ connect' = "done" /\ (Running' => Running)
    BY <1>8 DEF Announce, GiveUp, acceptVars, blockVars, ioVars, Running
  <2>2. Living' = Living
    BY <2>1 DEF Living
  <2>3. ASSUME RunInv PROVE RunInv'
    <3> DEFINE p == <<>>
    <3>1. p \in Seq(Handler) /\ Moves(0, p) /\ \A j \in 1..Len(p) : Plain(p[j])
      BY <2>1, Stays
    <3> HIDE DEF p
    <3>2. 0 \in {0, 1} /\ 0 # 1 /\ accepting' \in {accepting, 0}
      BY <2>1
    <3> QED
      BY <2>1, <2>3, <3>1, <3>2, QuietStep
  <2>4. SessionBound'
    BY <2>1, <2>2, BoundStep DEF SessionBound
  <2> QED
    BY <2>1, <2>3, <2>4
<1>9. ASSUME Reactor
      PROVE  /\ RunInv /\ stop # "done"
             /\ UNCHANGED <<limit, stop, connect, ids, members, pool, block, owner, socket>>
             /\ Living' = Living
  BY <1>9 DEF Reactor, Running, stopVars, blockVars, Living
<1>10. CASE AcceptDone
  <2>1. RunInv /\ stop # "done" /\ UNCHANGED limit /\ Living' = Living
    BY <1>9, <1>10 DEF AcceptDone
  <2> QED
    BY <1>10, <2>1, AcceptDoneStep, BoundStep
<1>11. ASSUME NEW s \in Ids, ReadDone(s) \/ WriteDone(s)
       PROVE  (Running' => RunInv') /\ SessionBound'
  <2>1. /\ RunInv /\ stop # "done" /\ Living' = Living
        /\ UNCHANGED <<limit, stop, connect, ids, members, pool, block, owner, socket>>
        /\ UNCHANGED accepting /\ s \in Living
    BY <1>9, <1>11 DEF ReadDone, WriteDone, Living
  <2>2. PICK op \in {"received", "written"}, r \in Results :
          queue' = Append(queue, Completion(op, s, r))
    BY <1>11 DEF ReadDone, WriteDone, Results
  <2>3. Completion(op, s, r) \in Handler
    BY HandlerTypes
  <2>4. Plain(Completion(op, s, r))
    BY <2>1 DEF Plain, Completion
  <2>5. RunInv'
    BY <2>1, <2>2, <2>3, <2>4, PostStep
  <2> QED
    BY <2>1, <2>5, BoundStep
<1>12. ASSUME NEW s \in Ids, Transmit(s) \/ PeerGone(s)
       PROVE  (Running' => RunInv') /\ SessionBound'
  <2>1. /\ RunInv /\ stop # "done" /\ Living' = Living
        /\ UNCHANGED <<limit, stop, connect, ids, members, pool, block, owner, socket>>
        /\ UNCHANGED <<queue, accepting>>
    BY <1>9, <1>12 DEF Transmit, PeerGone
  <2>2. RunInv'
    <3> DEFINE p == <<>>
    <3>1. p \in Seq(Handler) /\ Moves(0, p) /\ \A j \in 1..Len(p) : Plain(p[j])
      BY <2>1, Stays
    <3> HIDE DEF p
    <3>2. 0 \in {0, 1} /\ 0 # 1 /\ accepting' \in {accepting, 0} /\ connect' = connect
      BY <2>1
    <3> QED
      BY <2>1, <3>1, <3>2, QuietStep
  <2> QED
    BY <2>1, <2>2, BoundStep
<1> QED
  BY <1>1, <1>3, <1>4, <1>5, <1>6, <1>7, <1>8, <1>10, <1>11, <1>12
     DEF Next, ConnectToServer
LEMMA DrainedStep ==
  ASSUME Drained, [Next]_vars
  PROVE  Drained'
<1> SUFFICES ASSUME thread' = "run", stop' = "done" PROVE queue' = <<>>
  BY DEF Drained
<1>1. CASE UNCHANGED vars
  BY <1>1 DEF Drained, vars, stopVars
<1>2. CASE ClearSession
  BY <1>2 DEF ClearSession
<1>3. CASE ThreadFunc
  BY <1>3 DEF ThreadFunc, HandleAccept, HandleAddSession, HandleCloseSession,
       HandleReceived, HandleSendData, HandleSendDataAll, HandleSend, HandleWrited,
       Run, stopVars
<1>4. CASE TryStopNetwork
  BY <1>4 DEF TryStopNetwork
<1>5. CASE \E s \in Ids : DoSendData(s) \/ DoCloseSession(s)
  BY <1>5 DEF DoSendData, DoCloseSession, Post, stopVars
<1>6. CASE DoSendDataAll
  BY <1>6 DEF DoSendDataAll, Post, stopVars
<1>7. CASE ConnectToServer
  BY <1>7 DEF Drained, ConnectToServer, Connected, Announce, GiveUp
<1>8. CASE AcceptDone \/ \E s \in Ids : ReadDone(s) \/ Transmit(s) \/ WriteDone(s) \/ PeerGone(s)
  BY <1>8 DEF AcceptDone, ReadDone, Transmit, WriteDone, PeerGone, Reactor, stopVars
<1> QED
  BY <1>1, <1>2, <1>3, <1>4, <1>5, <1>6, <1>7, <1>8 DEF Next

THEOREM Inductive == Spec => []IInv
<1>1. IInv /\ [Next]_vars => IInv'
  <2> SUFFICES ASSUME IInv, [Next]_vars PROVE IInv'
    OBVIOUS
  <2>1. TypeOK'
    BY TypeCorrectStep DEF IInv
  <2>2. (Running' => RunInv') /\ SessionBound'
    BY HandlerStep, OtherStep DEF IInv
  <2>3. Drained'
    BY DrainedStep DEF IInv
  <2> QED
    BY <2>1, <2>2, <2>3 DEF IInv
<1> QED
  BY <1>1, RunInvInit, PTL DEF Spec

\* The pool and the sessions agree on every block, however accepts, closes and
\* the completions of sessions already closed interleave: no block is free
\* twice, none that a session uses is free, no two sessions share one.
THEOREM PoolIsSound == Spec => []PoolSound
<1>1. IInv => PoolSound
  <2> SUFFICES ASSUME IInv, stop # "done", ~Undefined
      PROVE  /\ Cardinality(FreeBlocks(pool)) = Len(pool.free)
             /\ \A s \in Living : ~Free(block[s]) /\ owner[block[s]] = s
    BY DEF IInv, PoolSound
  <2>1. PoolInv
    BY DEF IInv, TypeOK, Undefined, Running, RunInv
  <2> QED
    BY <2>1, FreeCount DEF PoolInv
<1> QED
  BY <1>1, Inductive, PTL

\* The late completion of a session that was closed never closes the session
\* that was given its block since.
THEOREM StaleCloses == Spec => []StaleCloseIsHarmless
<1>1. IInv => StaleCloseIsHarmless
  <2> SUFFICES ASSUME IInv, ~Undefined, NEW i \in DOMAIN queue,
                      queue[i].r = "aborted", queue[i].b # 0,
                      owner[queue[i].b] # queue[i].s
               PROVE  owner[queue[i].b] \notin members
    BY DEF StaleCloseIsHarmless
  <2>1. queue \in Seq(Handler) /\ thread = "run"
    BY DEF IInv, TypeOK, Undefined
  <2>2. i \in Positions /\ queue[i] \in Handler
    BY <2>1, ElementOfSeq, LenProperties DEF Positions
  <2>3. RunInv
    <3>1. queue # <<>>
      BY <2>1, <2>2, LenProperties DEF Positions
    <3> QED
      BY <2>1, <3>1 DEF IInv, Drained, Running
  <2>4. Completed(i)
    BY <2>2, <2>3 DEF RunInv, HandlerInv, Adds, Completed, Handler
  <2> QED
    BY <2>2, <2>3, <2>4 DEF RunInv, StaleInv
<1> QED
  BY <1>1, Inductive, PTL

\* HandleAccept lets one session too many in, never two.
THEOREM SessionsBounded == Spec => []SessionBound
<1>1. IInv => SessionBound
  BY DEF IInv
<1> QED
  BY <1>1, Inductive, PTL
-----------------------------------------------------------------------------
(* The stream.                                                             *)

\* What is added at the end, what is taken from the front.
LEMMA ConcatAppend ==
  ASSUME NEW S, NEW s \in Seq(S), NEW t \in Seq(S), NEW e \in S
  PROVE  s \o Append(t, e) = Append(s \o t, e)
<1>1. <<e>> \in Seq(S) /\ s \o t \in Seq(S)
  BY ConcatProperties
<1>2. Append(t, e) = t \o <<e>> /\ Append(s \o t, e) = (s \o t) \o <<e>>
  BY <1>1, AppendIsConcat
<1> QED
  BY <1>1, <1>2, ConcatAssociative

LEMMA ConcatHeadTail ==
  ASSUME NEW S, NEW s \in Seq(S), NEW t \in Seq(S), s # <<>>
  PROVE  /\ s \o t # <<>> /\ Head(s \o t) = Head(s)
         /\ Tail(s \o t) = Tail(s) \o t
<1> DEFINE h == Head(s)
           u == Tail(s)
<1>1. h \in S /\ u \in Seq(S) /\ <<h>> \in Seq(S)
  BY HeadTailProperties
<1>2. s = <<h>> \o u
  BY HeadTailProperties
<1> HIDE DEF h, u
<1>3. s \o t = <<h>> \o (u \o t) /\ u \o t \in Seq(S)
  BY <1>1, <1>2, ConcatAssociative, ConcatProperties
<1> DEFINE v == u \o t
<1>4. v \in Seq(S) /\ s \o t = <<h>> \o v
  BY <1>3
<1> HIDE DEF v
<1>5. Head(<<h>> \o v) = h /\ Tail(<<h>> \o v) = v /\ <<h>> \o v # <<>>
  BY <1>1, <1>4
<1> QED
  BY <1>4, <1>5 DEF h, u, v

\* A session without a pending write has nothing to send; one that is not
\* entered yet has no pending write, one that does not exist has no data.
StreamInv ==
  /\ \A s \in Living :
       ~pending[block[s]] => rest[s] = <<>> /\ sendQueue[block[s]] = <<>>
  /\ \A s \in Living \ members : ~pending[block[s]]
  /\ \A s \in Ids : socket[s] = "none" => rest[s] = <<>>

\* Unsent and Up of one session.
Waits(s) ==
  IF socket[s] = "open" /\ peer[s] = "up" THEN rest[s] \o sendQueue[block[s]]
  ELSE <<>>
Alive(s) == socket[s] # "closed" /\ peer[s] = "up"

LEMMA StreamVars ==
  /\ Unsent = [s \in Ids |-> Waits(s)]
  /\ Up = [s \in Ids |-> Alive(s)]
  /\ \A s \in Ids : Unsent[s] = Waits(s) /\ (Up[s] <=> Alive(s))
BY DEF Unsent, Up, Waits, Alive

LEMMA StreamVarsNext ==
  /\ Unsent' = [s \in Ids |-> Waits(s)']
  /\ Up' = [s \in Ids |-> Alive(s)']
BY DEF Unsent, Up, Waits, Alive

LEMMA Stutters ==
  ASSUME UNCHANGED wire,
         \A s \in Ids : Waits(s)' = Waits(s) /\ (Alive(s)' <=> Alive(s))
  PROVE  UNCHANGED Stream!vars
<1>1. Unsent' = Unsent
  BY StreamVars, StreamVarsNext
<1>2. Up' = Up
  BY DEF Up, Alive
<1> QED
  BY <1>1, <1>2 DEF Stream!vars

LEMMA Breaks ==
  ASSUME UNCHANGED wire, NEW S \in SUBSET Ids,
         \A s \in Ids : Waits(s)' = IF s \in S THEN <<>> ELSE Waits(s),
         \A s \in Ids : Alive(s)' <=> Alive(s) /\ s \notin S
  PROVE  Stream!Next
<1>1. Unsent' = [s \in Ids |-> IF s \in S THEN <<>> ELSE Unsent[s]]
  BY StreamVars, StreamVarsNext
<1>2. Up' = [s \in Ids |-> Up[s] /\ s \notin S]
  BY DEF Up, Alive
<1>3. Stream!Break(S)
  BY <1>1, <1>2 DEF Stream!Break
<1> QED
  BY <1>3 DEF Stream!Next

LEMMA Sends ==
  ASSUME UNCHANGED wire, NEW S \in SUBSET Ids, NEW m \in Messages,
         \A s \in S : Alive(s),
         \A s \in Ids : Waits(s)' = IF s \in S THEN Append(Waits(s), m) ELSE Waits(s),
         \A s \in Ids : Alive(s)' <=> Alive(s)
  PROVE  Stream!Next
<1>1. Unsent' = [s \in Ids |-> IF s \in S THEN Append(Unsent[s], m) ELSE Unsent[s]]
  BY StreamVars, StreamVarsNext
<1>2. Up' = Up
  BY DEF Up, Alive
<1>3. \A s \in S : Up[s]
  BY StreamVars
<1>4. Stream!Send(S, m)
  BY <1>1, <1>2, <1>3 DEF Stream!Send
<1> QED
  BY <1>4 DEF Stream!Next

LEMMA Writes ==
  ASSUME NEW s \in Ids, Alive(s), Waits(s) # <<>>,
         wire' = [wire EXCEPT ![s] = Append(@, Head(Waits(s)))],
         \A x \in Ids : Waits(x)' = IF x = s THEN Tail(Waits(s)) ELSE Waits(x),
         \A x \in Ids : Alive(x)' <=> Alive(x)
  PROVE  Stream!Next
<1>1. Unsent' = [Unsent EXCEPT ![s] = Tail(@)]
  BY StreamVars, StreamVarsNext
<1>2. Up' = Up
  BY DEF Up, Alive
<1>3. Up[s] /\ Unsent[s] = Waits(s)
  BY StreamVars
<1>4. wire' = [wire EXCEPT ![s] = Append(@, Head(Unsent[s]))]
  BY <1>3
<1>5. Stream!Write(s)
  BY <1>1, <1>2, <1>3, <1>4 DEF Stream!Write
<1> QED
  BY <1>5 DEF Stream!Next

\* The streams begin empty.
LEMMA StreamInit == Init => StreamInv /\ Stream!Init
<1> SUFFICES ASSUME Init PROVE StreamInv /\ Stream!Init
  OBVIOUS
<1>1. \A s \in Ids : socket[s] = "none" /\ peer[s] = "up" /\ rest[s] = <<>>
  BY DEF Init
<1>2. \A s \in Ids : Waits(s) = <<>> /\ Alive(s)
  BY <1>1 DEF Waits, Alive
<1>3. Up = [s \in Ids |-> TRUE]
  BY <1>1 DEF Up
<1>4. Unsent = [s \in Ids |-> <<>>]
  BY <1>2, StreamVars
<1>5. Living = {}
  BY <1>1 DEF Living
<1> QED
  BY <1>1, <1>3, <1>4, <1>5 DEF StreamInv, Stream!Init, Init

\* A step that leaves what the streams are made of.
LEMMA SameStream ==
  ASSUME UNCHANGED <<socket, peer, rest, sendQueue, block, wire>>
  PROVE  /\ UNCHANGED Stream!vars
         /\ StreamInv /\ UNCHANGED pending /\ members \subseteq members' => StreamInv'
<1>1. \A s \in Ids : Waits(s)' = Waits(s) /\ (Alive(s)' <=> Alive(s))
  BY DEF Waits, Alive
<1> QED
  BY <1>1, Stutters DEF StreamInv, Living
\* Closing a session breaks its stream.
LEMMA StreamClose ==
  ASSUME TypeOK, RunInv, StreamInv, NEW s, CloseSession(s),
         UNCHANGED <<block, pending, sendQueue, rest, peer, wire>>
  PROVE  StreamInv' /\ [Stream!Next]_(Stream!vars)
<1>1. CASE s \notin members
  <2>1. UNCHANGED <<socket, members>>
    BY <1>1 DEF CloseSession
  <2> QED
    BY <2>1, SameStream
<1>2. CASE s \in members
  <2>1. /\ s \in Ids /\ socket[s] = "open" /\ members' = members \ {s}
        /\ socket' = [socket EXCEPT ![s] = "closed"]
    BY <1>2 DEF RunInv, MemberInv, Living, CloseSession
  <2>2. /\ socket'[s] = "closed"
        /\ \A x \in Ids : x # s => socket'[x] = socket[x]
    BY <2>1 DEF TypeOK
  <2>3. \A x \in Ids : Waits(x)' = IF x \in {s} THEN <<>> ELSE Waits(x)
    BY <2>2 DEF Waits
  <2>4. \A x \in Ids : Alive(x)' <=> Alive(x) /\ x \notin {s}
    BY <2>2 DEF Alive
  <2>5. StreamInv'
    BY <2>1, <2>2 DEF StreamInv, Living
  <2> QED
    BY <2>1, <2>3, <2>4, <2>5, Breaks
<1> QED
  BY <1>1, <1>2

\* A new session is a stream that is empty.
LEMMA StreamNew ==
  ASSUME TypeOK, RunInv, StreamInv, Awaited, ids \in Ids, NewSession(ids),
         members \subseteq members', UNCHANGED <<rest, peer, wire>>
  PROVE  StreamInv' /\ UNCHANGED Stream!vars
<1> DEFINE b == Allocated(pool)
<1>1. /\ b \in Blocks /\ Living' = Living \cup {ids} /\ ids \notin Living
      /\ block'[ids] = b /\ socket'[ids] = "open"
      /\ \A x \in Ids : x # ids => block'[x] = block[x] /\ socket'[x] = socket[x]
      /\ \A x \in Living : block[x] # b
  BY NewSessionSound
<1>2. /\ pending' = [pending EXCEPT ![b] = FALSE]
      /\ sendQueue' = [sendQueue EXCEPT ![b] = <<>>]
  BY DEF NewSession
<1>3. socket[ids] = "none" /\ rest[ids] = <<>>
  BY DEF RunInv, FreshInv, StreamInv
<1> HIDE DEF b
<1>4. ~pending'[b] /\ sendQueue'[b] = <<>>
  BY <1>1, <1>2 DEF TypeOK
<1>5. \A x \in Living : /\ x \in Ids /\ x # ids /\ block'[x] = block[x]
                        /\ pending'[block[x]] = pending[block[x]]
                        /\ sendQueue'[block[x]] = sendQueue[block[x]]
  <2> TAKE x \in Living
  <2>1. x \in Ids /\ x # ids /\ block[x] \in Blocks /\ block[x] # b
    BY <1>1, LivingBlock
  <2> QED
    BY <1>1, <1>2, <2>1 DEF TypeOK
<1>6. \A x \in Ids : Waits(x)' = Waits(x)
  <2> TAKE x \in Ids
  <2>1. CASE x = ids
    <3>1. socket'[x] = "open" /\ rest'[x] = <<>> /\ sendQueue'[block'[x]] = <<>>
      BY <1>1, <1>3, <1>4, <2>1
    <3>2. <<>> \o <<>> = <<>>
      OBVIOUS
    <3> QED
      BY <1>3, <2>1, <3>1, <3>2 DEF Waits
  <2>2. CASE x # ids /\ x \in Living
    BY <1>1, <1>5, <2>2 DEF Waits
  <2>3. CASE x # ids /\ x \notin Living
    BY <1>1, <2>3 DEF Waits, Living
  <2> QED
    BY <2>1, <2>2, <2>3
<1>7. \A x \in Ids : Alive(x)' <=> Alive(x)
  BY <1>1, <1>3 DEF Alive
<1>8. StreamInv'
  <2>1. \A x \in Living' :
          ~pending'[block'[x]] => rest'[x] = <<>> /\ sendQueue'[block'[x]] = <<>>
    BY <1>1, <1>3, <1>4, <1>5 DEF StreamInv
  <2>2. \A x \in Living' \ members' : ~pending'[block'[x]]
    BY <1>1, <1>4, <1>5 DEF StreamInv
  <2>3. \A x \in Ids : socket'[x] = "none" => rest'[x] = <<>>
    BY <1>1 DEF StreamInv
  <2> QED
    BY <2>1, <2>2, <2>3 DEF StreamInv
<1> QED
  BY <1>6, <1>7, <1>8, Stutters

\* A message is accepted by the sessions it is for: behind the write that is
\* pending, or as a write of its own.
LEMMA StreamWrite ==
  ASSUME TypeOK, RunInv, StreamInv, NEW S \in SUBSET members, NEW d \in Messages,
         WriteData(S, d), UNCHANGED <<members, socket, peer, block, owner, pool, wire>>
  PROVE  StreamInv' /\ [Stream!Next]_(Stream!vars)
<1> DEFINE busy == {s \in S : pending[block[s]]}
           Of(T) == {block[s] : s \in T}
           U == {s \in S : peer[s] = "up"}
<1>1. /\ sendQueue' = [b \in Blocks |->
                         IF b \in Of(busy) THEN Append(sendQueue[b], d)
                         ELSE IF b \in Of(S) THEN <<>> ELSE sendQueue[b]]
      /\ pending' = [b \in Blocks |-> pending[b] \/ b \in Of(S)]
      /\ rest' = [s \in Ids |-> IF s \in S \ busy
                    THEN Append(sendQueue[block[s]], d) ELSE rest[s]]
  BY DEF WriteData
<1>2. S \subseteq Living /\ busy \subseteq S /\ S \subseteq Ids
  BY DEF RunInv, MemberInv, Living
<1>3. \A s \in Living : /\ s \in Ids /\ socket[s] = "open" /\ block[s] \in Blocks
                        /\ owner[block[s]] = s
  BY LivingBlock DEF RunInv, PoolInv, Living
<1>4. \A s \in Living : /\ block[s] \in Of(S) <=> s \in S
                        /\ block[s] \in Of(busy) <=> s \in busy
  <2>1. \A s, t \in Living : block[s] = block[t] => s = t
    BY <1>3
  <2> QED
    BY <1>2, <2>1
<1> HIDE DEF Of
<1>5. \A s \in Living : /\ s \in busy => /\ rest'[s] = rest[s] /\ pending'[block[s]]
                                         /\ sendQueue'[block[s]] = Append(sendQueue[block[s]], d)
                        /\ s \in S \ busy => /\ rest'[s] = Append(sendQueue[block[s]], d)
                                             /\ pending'[block[s]]
                                             /\ sendQueue'[block[s]] = <<>>
                        /\ s \notin S => /\ rest'[s] = rest[s]
                                         /\ pending'[block[s]] <=> pending[block[s]]
                                         /\ sendQueue'[block[s]] = sendQueue[block[s]]
  <2> TAKE s \in Living
  <2>1. /\ s \in Ids /\ block[s] \in Blocks
        /\ block[s] \in Of(S) <=> s \in S
        /\ block[s] \in Of(busy) <=> s \in busy
    BY <1>3, <1>4
  <2>2. /\ rest'[s] = IF s \in S \ busy THEN Append(sendQueue[block[s]], d) ELSE rest[s]
        /\ sendQueue'[block[s]] = IF s \in busy THEN Append(sendQueue[block[s]], d)
                                  ELSE IF s \in S THEN <<>> ELSE sendQueue[block[s]]
    BY <1>1, <2>1
  <2>3. pending'[block[s]] <=> pending[block[s]] \/ s \in S
    BY <1>1, <2>1
  <2>4. busy \subseteq S
    BY <1>2
  <2> HIDE DEF busy
  <2> QED
    BY <2>2, <2>3, <2>4
<1>6. \A s \in Living : rest[s] \in Seq(Messages) /\ sendQueue[block[s]] \in Seq(Messages)
  BY <1>3 DEF TypeOK
<1>7. ASSUME NEW s \in Ids
      PROVE  Waits(s)' = IF s \in U THEN Append(Waits(s), d) ELSE Waits(s)
  <2>1. CASE s \notin Living
    <3>1. s \notin U
      BY <1>2, <2>1
    <3> QED
      BY <2>1, <3>1 DEF Waits, Living
  <2>2. CASE s \in Living /\ s \notin S
    BY <1>5, <2>2 DEF Waits
  <2>3. CASE s \in Living /\ s \in S /\ peer[s] # "up"
    BY <2>3 DEF Waits
  <2>4. CASE s \in busy /\ peer[s] = "up"
    <3>1. Waits(s) = rest[s] \o sendQueue[block[s]]
          /\ Waits(s)' = rest[s] \o Append(sendQueue[block[s]], d)
      BY <1>2, <1>3, <1>5, <2>4 DEF Waits
    <3>2. rest[s] \in Seq(Messages) /\ sendQueue[block[s]] \in Seq(Messages)
      BY <1>2, <1>6, <2>4
    <3>3. \A x, y \in Seq(Messages) : x \o Append(y, d) = Append(x \o y, d)
      BY ConcatAppend
    <3>4. rest[s] \o Append(sendQueue[block[s]], d)
            = Append(rest[s] \o sendQueue[block[s]], d)
      BY <3>2, <3>3
    <3> QED
      BY <2>4, <3>1, <3>4
  <2>5. CASE s \in S \ busy /\ peer[s] = "up"
    <3>1. Waits(s) = rest[s] \o sendQueue[block[s]]
          /\ Waits(s)' = Append(sendQueue[block[s]], d) \o <<>>
      BY <1>2, <1>3, <1>5, <2>5 DEF Waits
    <3>2. rest[s] = <<>> /\ sendQueue[block[s]] = <<>>
      BY <1>2, <2>5 DEF StreamInv
    <3>3. <<>> \o <<>> = <<>> /\ Append(<<>>, d) \o <<>> = Append(<<>>, d)
      OBVIOUS
    <3> QED
      BY <2>5, <3>1, <3>2, <3>3
  <2> QED
    BY <2>1, <2>2, <2>3, <2>4, <2>5
<1>8. \A s \in U : Alive(s)
  BY <1>2, <1>3 DEF Alive
<1>9. \A s \in Ids : Alive(s)' <=> Alive(s)
  BY DEF Alive
<1>10. U \in SUBSET Ids
  BY <1>2
<1>11. StreamInv'
  <2>1. Living' = Living
    BY DEF Living
  <2>2. \A s \in Living : ~pending'[block[s]] => rest'[s] = <<>> /\ sendQueue'[block[s]] = <<>>
    BY <1>5 DEF StreamInv
  <2>3. \A s \in Living \ members : ~pending'[block[s]]
    BY <1>5 DEF StreamInv
  <2>4. \A s \in Ids : socket[s] = "none" => rest'[s] = <<>>
    <3> SUFFICES ASSUME NEW s \in Ids, socket[s] = "none" PROVE rest'[s] = <<>>
      OBVIOUS
    <3>1. s \notin S
      BY <1>2, <1>3
    <3> QED
      BY <1>1, <3>1 DEF StreamInv
  <2> QED
    BY <2>1, <2>2, <2>3, <2>4 DEF StreamInv
<1> HIDE DEF U
<1> QED
  BY <1>7, <1>8, <1>9, <1>10, <1>11, Sends
\* When a write has ended the queue of its session is sent; the end of a write
\* that is stale finds nothing to send.
LEMMA StreamWritten ==
  ASSUME TypeOK, RunInv, StreamInv, 1 \in Positions, Completed(1), H = queue[1],
         rest[H.s] = <<>>, Written(H.b),
         UNCHANGED <<members, socket, peer, block, wire>>
  PROVE  StreamInv' /\ UNCHANGED Stream!vars
<1> DEFINE b == H.b
           o == owner[b]
<1>1. /\ b \in Blocks /\ H.s \in Ids /\ block[H.s] = b
      /\ o # H.s => o \notin members
  BY DEF RunInv, HandlerInv, StaleInv
<1>2. o # 0 => o \in Ids /\ block[o] = b /\ socket[o] # "none"
  <2>1. o \in 0..MaxIds
    BY <1>1 DEF TypeOK
  <2>2. o # 0 => o \in Ids
    BY <2>1, AsioAssumption DEF Ids
  <2>3. o # 0 => block[o] = b /\ socket[o] # "none"
    BY <1>1 DEF RunInv, PoolInv
  <2> QED
    BY <2>2, <2>3
<1>3. \A x \in Living : /\ x \in Ids /\ block[x] \in Blocks /\ owner[block[x]] = x
                        /\ block[x] = b => x = o
                        /\ rest[x] \in Seq(Messages) /\ sendQueue[block[x]] \in Seq(Messages)
  BY SMTT(30), LivingBlock DEF RunInv, PoolInv, Living, TypeOK
\* A session that lives in the block has sent what it was given.
<1>4. \A x \in Living : block[x] = b => rest[x] = <<>>
  BY <1>1, <1>3 DEF StreamInv
<1>5. \A x \in Living : block[x] = b /\ sendQueue[b] # <<>> => x = H.s
  BY <1>1, <1>3 DEF StreamInv
<1>6. Living' = Living
  BY DEF Living
<1> HIDE DEF o
<1>7. CASE SendSessionQueue(b)
  <2>1. /\ rest' = [rest EXCEPT ![o] = sendQueue[b]]
        /\ pending' = [pending EXCEPT ![b] = TRUE]
        /\ sendQueue' = [sendQueue EXCEPT ![b] = <<>>]
    BY <1>7 DEF SendSessionQueue, o
  <2> HIDE DEF b
  <2>2. /\ pending'[b] /\ sendQueue'[b] = <<>>
        /\ \A c \in Blocks : c # b => pending'[c] = pending[c] /\ sendQueue'[c] = sendQueue[c]
        /\ \A x \in Ids : x # o => rest'[x] = rest[x]
        /\ o \in Ids => rest'[o] = sendQueue[b]
    BY <1>1, <2>1 DEF TypeOK
  <2>3. ASSUME NEW x \in Living
        PROVE  rest'[x] \o sendQueue'[block[x]] = rest[x] \o sendQueue[block[x]]
    <3>1. CASE block[x] = b
      <4>1. x = o /\ o \in Ids /\ rest[x] = <<>>
        BY <1>3, <1>4, <3>1
      <4>2. rest'[x] = sendQueue[b] /\ sendQueue'[b] = <<>> /\ sendQueue[b] \in Seq(Messages)
        BY <1>3, <2>2, <3>1, <4>1
      <4> QED
        BY <3>1, <4>1, <4>2, ConcatEmptySeq
    <3>2. CASE block[x] # b
      <4>1. x # o
        <5>1. x # 0
          BY <1>3 DEF Ids
        <5> QED
          BY <1>2, <3>2, <5>1
      <4> QED
        BY <1>3, <2>2, <3>2, <4>1
    <3> QED
      BY <3>1, <3>2
  <2>4. \A x \in Ids : Waits(x)' = Waits(x)
    BY <2>3 DEF Waits, Living
  <2>5. StreamInv'
    <3>1. ASSUME NEW x \in Living, ~pending'[block[x]]
          PROVE  rest'[x] = <<>> /\ sendQueue'[block[x]] = <<>>
      <4>1. block[x] # b /\ block[x] \in Blocks
        BY <1>3, <2>2, <3>1
      <4>2. x # o
        <5>1. x # 0
          BY <1>3 DEF Ids
        <5> QED
          BY <1>2, <4>1, <5>1
      <4> QED
        BY <1>3, <2>2, <3>1, <4>1, <4>2 DEF StreamInv
    <3>2. ASSUME NEW x \in Living \ members PROVE ~pending'[block[x]]
      <4>1. block[x] # b
        <5> SUFFICES ASSUME block[x] = b PROVE FALSE
          OBVIOUS
        <5>1. sendQueue[b] = <<>>
          BY DEF StreamInv
        <5>2. pending' = [pending EXCEPT ![b] = FALSE]
          BY <5>1 DEF Written, b
        <5>3. ~pending'[b]
          BY <1>1, <5>2 DEF TypeOK, b
        <5> QED
          BY <2>2, <5>3
      <4> QED
        BY <1>3, <2>2, <4>1 DEF StreamInv
    <3>3. ASSUME NEW x \in Ids, socket[x] = "none" PROVE rest'[x] = <<>>
      <4>1. x # o
        BY <1>2, <3>3 DEF Ids
      <4> QED
        BY <2>2, <3>3, <4>1 DEF StreamInv
    <3> QED
      BY <1>6, <3>1, <3>2, <3>3 DEF StreamInv
  <2> QED
    BY <2>4, <2>5, Stutters DEF Alive
<1>8. CASE /\ pending' = [pending EXCEPT ![b] = FALSE]
           /\ UNCHANGED <<rest, writing, sendQueue>>
           /\ Free(b) \/ sendQueue[b] = <<>>
  <2>1. \A x \in Ids : Waits(x)' = Waits(x)
    BY <1>8 DEF Waits
  <2>2. \A c \in Blocks : c # b => pending'[c] = pending[c]
    BY <1>8 DEF TypeOK
  <2>3. ~pending'[b]
    BY <1>1, <1>8 DEF TypeOK
  <2>4. \A x \in Living : block[x] = b => rest[x] = <<>> /\ sendQueue[b] = <<>>
    BY <1>4, <1>8 DEF RunInv, PoolInv
  <2> HIDE DEF b
  <2>5. StreamInv'
    <3>1. \A x \in Living : ~pending'[block[x]] => rest[x] = <<>> /\ sendQueue[block[x]] = <<>>
      BY <1>3, <2>2, <2>4 DEF StreamInv
    <3>2. \A x \in Living \ members : ~pending'[block[x]]
      BY <1>3, <2>2, <2>3 DEF StreamInv
    <3> QED
      BY <1>6, <1>8, <3>1, <3>2 DEF StreamInv
  <2> QED
    BY <2>1, <2>5, Stutters DEF Alive
<1> QED
  BY <1>7, <1>8 DEF Written

\* The kernel takes the first message that waits.
LEMMA StreamTransmit ==
  ASSUME TypeOK, RunInv, StreamInv, NEW s \in Ids, Transmit(s)
  PROVE  StreamInv' /\ [Stream!Next]_(Stream!vars)
<1>1. /\ socket[s] = "open" /\ peer[s] = "up" /\ rest[s] # <<>>
      /\ wire' = [wire EXCEPT ![s] = Append(@, Head(rest[s]))]
      /\ rest' = [rest EXCEPT ![s] = Tail(@)]
      /\ UNCHANGED <<socket, peer, block, sendQueue, pending, members>>
  BY DEF Transmit, Reactor, blockVars
<1>2. /\ rest'[s] = Tail(rest[s])
      /\ \A x \in Ids : x # s => rest'[x] = rest[x]
  BY <1>1 DEF TypeOK
<1>3. rest[s] \in Seq(Messages) /\ sendQueue[block[s]] \in Seq(Messages)
  BY <1>1, LivingBlock DEF TypeOK, Living
<1>4. Waits(s) = rest[s] \o sendQueue[block[s]]
  BY <1>1 DEF Waits
<1>5. /\ Waits(s) # <<>> /\ Head(Waits(s)) = Head(rest[s])
      /\ Tail(Waits(s)) = Tail(rest[s]) \o sendQueue[block[s]]
  <2>1. \A x, y \in Seq(Messages) : x # <<>> =>
          x \o y # <<>> /\ Head(x \o y) = Head(x) /\ Tail(x \o y) = Tail(x) \o y
    BY ConcatHeadTail
  <2> QED
    BY <1>1, <1>3, <1>4, <2>1
<1>6. \A x \in Ids : Waits(x)' = IF x = s THEN Tail(Waits(s)) ELSE Waits(x)
  <2> TAKE x \in Ids
  <2>1. CASE x = s
    <3>1. Waits(s)' = rest'[s] \o sendQueue[block[s]]
      BY <1>1 DEF Waits
    <3> QED
      BY <1>2, <1>5, <2>1, <3>1
  <2>2. CASE x # s
    BY <1>1, <1>2, <2>2 DEF Waits
  <2> QED
    BY <2>1, <2>2
<1>7. wire' = [wire EXCEPT ![s] = Append(@, Head(Waits(s)))]
  BY <1>1, <1>5
<1>8. Alive(s) /\ \A x \in Ids : Alive(x)' <=> Alive(x)
  BY <1>1 DEF Alive
<1>9. StreamInv'
  <2>1. Living' = Living
    BY <1>1 DEF Living
  <2>2. s \in Living /\ pending[block[s]]
    BY <1>1 DEF Living, StreamInv
  <2> QED
    BY <1>1, <1>2, <2>1, <2>2 DEF StreamInv, Living
<1> QED
  BY <1>5, <1>6, <1>7, <1>8, <1>9, Writes
\* Every step is one of the streams, or changes none.
LEMMA StreamStep ==
  ASSUME IInv, Running => StreamInv, [Next]_vars
  PROVE  (Running' => StreamInv') /\ [Stream!Next]_(Stream!vars)
<1> USE DEF IInv
<1>1. ASSUME UNCHANGED <<socket, peer, rest, sendQueue, block, wire, pending>>,
             members \subseteq members', Running' => Running
      PROVE  (Running' => StreamInv') /\ [Stream!Next]_(Stream!vars)
  BY <1>1, SameStream
<1>2. CASE UNCHANGED vars
  <2>1. /\ UNCHANGED <<socket, peer, rest, sendQueue, block, wire, pending, members>>
        /\ UNCHANGED <<thread, stop>>
    BY <1>2 DEF vars, stopVars, blockVars, ioVars
  <2> QED
    BY <1>1, <2>1 DEF Running
<1>3. ASSUME NEW op, Run(op)
      PROVE  /\ RunInv /\ StreamInv /\ Running /\ 1 \in Positions /\ H = queue[1]
             /\ H.op = op /\ UNCHANGED <<stop, peer, wire>>
  <2>1. /\ Running /\ queue # <<>> /\ H.op = op /\ UNCHANGED <<stop, peer, wire>>
    BY <1>3 DEF Run, Running, H, stopVars
  <2>2. queue \in Seq(Handler) /\ Len(queue) \in Nat /\ Len(queue) >= 1
    BY <2>1, LenProperties, EmptySeq DEF TypeOK
  <2>3. 1 \in Positions /\ H = queue[1]
    BY <2>2 DEF H, Positions
  <2> QED
    BY <2>1, <2>3
<1>4. CASE HandleAccept
  <2>1. /\ RunInv /\ StreamInv /\ Running /\ 1 \in Positions /\ H = queue[1]
        /\ H.op = "accept" /\ UNCHANGED <<stop, peer, wire>>
    BY <1>3, <1>4 DEF HandleAccept
  <2>2. UNCHANGED <<members, rest>>
    BY <1>4 DEF HandleAccept
  <2>3. CASE UNCHANGED <<blockVars, pending, sendQueue, socket>>
    BY <1>1, <2>1, <2>2, <2>3 DEF blockVars
  <2>4. H.r = "ok" => ids \in Ids /\ H.s = ids /\ Awaited
    BY <2>1 DEF RunInv, AcceptInv, Accepted, Awaited
  <2>5. CASE /\ H.r = "ok" /\ socket' = [socket EXCEPT ![H.s] = "closed"]
             /\ UNCHANGED <<blockVars, pending, sendQueue>>
    <3>1. socket[ids] = "none" /\ ids \in Ids
      BY <2>1, <2>4, <2>5 DEF RunInv, FreshInv
    <3>2. socket'[ids] = "closed" /\ \A x \in Ids : x # ids => socket'[x] = socket[x]
      BY <2>4, <2>5 DEF TypeOK
    <3>3. \A x \in Ids : Waits(x)' = IF x \in {ids} THEN <<>> ELSE Waits(x)
      BY <2>1, <2>2, <2>5, <3>1, <3>2 DEF Waits, blockVars
    <3>4. \A x \in Ids : Alive(x)' <=> Alive(x) /\ x \notin {ids}
      BY <2>1, <3>1, <3>2 DEF Alive
    <3>5. StreamInv'
      BY <2>1, <2>2, <2>5, <3>1, <3>2 DEF StreamInv, Living, blockVars
    <3>6. Stream!Next
      BY <2>1, <3>1, <3>3, <3>4, Breaks
    <3> QED
      BY <3>5, <3>6
  <2>6. CASE H.r = "ok" /\ NewSession(H.s)
    <3>1. StreamInv' /\ UNCHANGED Stream!vars
      BY <2>1, <2>2, <2>4, <2>6, StreamNew
    <3> QED
      BY <3>1
  <2> QED
    BY <1>4, <2>3, <2>5, <2>6 DEF HandleAccept
<1>5. CASE HandleAddSession
  <2>1. Running /\ UNCHANGED <<stop, peer, wire>>
    BY <1>3, <1>5 DEF HandleAddSession
  <2> QED
    BY <1>1, <1>5, <2>1 DEF HandleAddSession, blockVars
<1>6. CASE HandleCloseSession
  <2>1. RunInv /\ StreamInv /\ UNCHANGED <<stop, peer, wire>>
    BY <1>3, <1>6 DEF HandleCloseSession
  <2>2. CloseSession(H.s) /\ UNCHANGED <<block, pending, sendQueue, rest>>
    BY <1>6 DEF HandleCloseSession
  <2> QED
    BY <2>1, <2>2, StreamClose
<1>7. CASE HandleReceived
  <2>1. RunInv /\ StreamInv /\ Running /\ UNCHANGED <<stop, peer, wire>>
    BY <1>3, <1>7 DEF HandleReceived
  <2>2. UNCHANGED <<block, pending, sendQueue, rest>>
    BY <1>7 DEF HandleReceived
  <2>3. CASE CloseSession(owner[H.b])
    BY <2>1, <2>2, <2>3, StreamClose
  <2>4. CASE UNCHANGED <<socket, members>>
    BY <1>1, <2>1, <2>2, <2>4
  <2> QED
    BY <1>7, <2>3, <2>4 DEF HandleReceived
<1>8. ASSUME NEW op \in {"send", "sendAll"}, NEW S \in SUBSET members, HandleSend(op, S)
      PROVE  (Running' => StreamInv') /\ [Stream!Next]_(Stream!vars)
  <2>1. /\ RunInv /\ StreamInv /\ 1 \in Positions /\ H = queue[1] /\ H.op = op
        /\ UNCHANGED <<stop, peer, wire>>
    BY <1>3, <1>8 DEF HandleSend
  <2>2. H.d \in Messages
    BY <2>1 DEF RunInv, HandlerInv
  <2>3. WriteData(S, H.d) /\ UNCHANGED <<members, socket, block, owner, pool>>
    BY <1>8 DEF HandleSend, blockVars
  <2>4. \A m \in Messages : WriteData(S, m) => StreamInv' /\ [Stream!Next]_(Stream!vars)
    BY <2>1, <2>3, StreamWrite
  <2> QED
    BY <2>2, <2>3, <2>4
<1>9. CASE HandleSendData \/ HandleSendDataAll
  <2>1. {H.s} \cap members \in SUBSET members /\ members \in SUBSET members
    OBVIOUS
  <2> QED
    BY <1>8, <1>9, <2>1 DEF HandleSendData, HandleSendDataAll
<1>10. CASE HandleWrited
  <2>1. /\ RunInv /\ StreamInv /\ Running /\ 1 \in Positions /\ H = queue[1]
        /\ H.op = "written" /\ UNCHANGED <<stop, peer, wire>>
    BY <1>3, <1>10 DEF HandleWrited
  <2>2. UNCHANGED block
    BY <1>10 DEF HandleWrited
  <2>3. CASE CloseSession(owner[H.b]) /\ UNCHANGED <<pending, sendQueue, rest>>
    BY <2>1, <2>2, <2>3, StreamClose
  <2>4. CASE UNCHANGED <<pending, sendQueue, rest, socket, members>>
    BY <1>1, <2>1, <2>2, <2>4
  <2>5. CASE rest[H.s] = <<>> /\ Written(H.b) /\ UNCHANGED <<socket, members>>
    <3>1. Completed(1)
      BY <2>1 DEF Completed
    <3> QED
      BY <2>1, <2>2, <2>5, <3>1, StreamWritten
  <2> QED
    BY <1>10, <2>3, <2>4, <2>5 DEF HandleWrited
<1>11. CASE (\E s \in Ids : DoSendData(s) \/ DoCloseSession(s)) \/ DoSendDataAll
  <2>1. /\ UNCHANGED <<socket, peer, rest, sendQueue, block, wire, pending, members>>
        /\ UNCHANGED <<thread, stop>>
    BY <1>11 DEF DoSendData, DoCloseSession, DoSendDataAll, Post, stopVars, blockVars, ioVars
  <2> QED
    BY <1>1, <2>1 DEF Running
<1>12. CASE TryStopNetwork
  <2>1. /\ UNCHANGED <<socket, peer, rest, sendQueue, block, wire, pending, members>>
        /\ (Running' => Running)
    BY <1>12 DEF TryStopNetwork, blockVars, ioVars, Running
  <2> QED
    BY <1>1, <2>1
<1>13. CASE ClearSession
  <2>1. /\ UNCHANGED <<peer, wire>> /\ ~Running' /\ Living \in SUBSET Ids
        /\ socket' = [s \in Ids |-> IF socket[s] = "open" THEN "closed" ELSE socket[s]]
    BY <1>13 DEF ClearSession, Running, Living
  <2>2. \A x \in Ids : socket'[x] = IF x \in Living THEN "closed" ELSE socket[x]
    BY <2>1 DEF Living
  <2>3. \A x \in Ids : Waits(x)' = IF x \in Living THEN <<>> ELSE Waits(x)
    BY <2>1, <2>2 DEF Waits, Living
  <2>4. \A x \in Ids : Alive(x)' <=> Alive(x) /\ x \notin Living
    BY <2>1, <2>2 DEF Alive, Living
  <2>5. Stream!Next
    BY <2>1, <2>3, <2>4, Breaks
  <2> QED
    BY <2>1, <2>5
<1>14. CASE ConnectToServer
  <2>1. CASE Connected /\ stop # "done"
    <3>1. RunInv /\ StreamInv
      BY <2>1 DEF Connected, Running
    <3>2. ids = 1 /\ ids \in Ids /\ Awaited
      BY <2>1, <3>1, AsioAssumption DEF Connected, RunInv, AcceptInv, Awaited, Ids
    <3>3. NewSession(ids) /\ members \subseteq members' /\ UNCHANGED <<rest, peer, wire>>
      BY <2>1, <3>2 DEF Connected
    <3>4. StreamInv' /\ UNCHANGED Stream!vars
      BY <3>1, <3>2, <3>3, StreamNew
    <3> QED
      BY <3>4
  <2>2. CASE (Connected /\ stop = "done") \/ Announce \/ GiveUp
    <3>1. /\ UNCHANGED <<socket, peer, rest, sendQueue, block, wire, pending, members>>
          /\ (Running' => Running)
      BY <2>2 DEF Connected, Announce, GiveUp, blockVars, ioVars, Running
    <3> QED
      BY <1>1, <3>1
  <2> QED
    BY <1>14, <2>1, <2>2 DEF ConnectToServer
<1>15. ASSUME Reactor
       PROVE  /\ Running /\ RunInv /\ StreamInv
              /\ UNCHANGED <<socket, sendQueue, block, pending, members>>
  BY <1>15 DEF Reactor, Running, blockVars
<1>16. CASE AcceptDone \/ \E s \in Ids : ReadDone(s) \/ WriteDone(s)
  <2>1. Reactor /\ UNCHANGED <<peer, rest, wire>>
    BY <1>16 DEF AcceptDone, ReadDone, WriteDone
  <2> QED
    BY <1>1, <1>15, <2>1
<1>17. ASSUME NEW s \in Ids, Transmit(s)
       PROVE  (Running' => StreamInv') /\ [Stream!Next]_(Stream!vars)
  <2>1. Reactor
    BY <1>17 DEF Transmit
  <2> QED
    BY <1>15, <1>17, <2>1, StreamTransmit
<1>18. ASSUME NEW s \in Ids, PeerGone(s)
       PROVE  (Running' => StreamInv') /\ [Stream!Next]_(Stream!vars)
  <2>1. /\ Reactor /\ UNCHANGED <<rest, wire>>
        /\ peer' = [peer EXCEPT ![s] = "gone"]
    BY <1>18 DEF PeerGone
  <2>2. /\ StreamInv /\ UNCHANGED <<socket, sendQueue, block, pending, members>>
    BY <1>15, <2>1
  <2>3. peer'[s] = "gone" /\ \A x \in Ids : x # s => peer'[x] = peer[x]
    BY <2>1 DEF TypeOK
  <2>4. \A x \in Ids : Waits(x)' = IF x \in {s} THEN <<>> ELSE Waits(x)
    BY <2>1, <2>2, <2>3 DEF Waits
  <2>5. \A x \in Ids : Alive(x)' <=> Alive(x) /\ x \notin {s}
    BY <2>2, <2>3 DEF Alive
  <2>6. StreamInv'
    BY <2>1, <2>2 DEF StreamInv, Living
  <2>7. Stream!Next
    BY <2>1, <2>4, <2>5, Breaks
  <2> QED
    BY <2>6, <2>7
<1> QED
  BY <1>2, <1>4, <1>5, <1>6, <1>7, <1>9, <1>10, <1>11, <1>12, <1>13, <1>14, <1>16,
     <1>17, <1>18
     DEF Next, ThreadFunc

\* Every session is a stream: what WriteData is given for it reaches the peer
\* in that order, without a gap, while other sessions come, go and are given
\* the blocks of closed ones.
THEOREM SessionsAreStreams == Spec => IsSendStream
<1>1. Init => (Running => StreamInv) /\ Stream!Init
  BY StreamInit
<1>2. /\ IInv /\ (Running => StreamInv) /\ [Next]_vars
           => (Running => StreamInv)'
      /\ IInv /\ (Running => StreamInv) /\ [Next]_vars
           => [Stream!Next]_(Stream!vars)
  BY StreamStep DEF Running
<1> QED
  BY <1>1, <1>2, Inductive, PTL DEF Spec, IsSendStream, Stream!Spec
=============================================================================
