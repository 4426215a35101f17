------------------------------ MODULE RingBuffer ------------------------------
(***************************************************************************)
(* asRingBuffer (code/algorithm/asRingBuffer.h): a queue of pointers in an *)
(* array whose size is a power of two.  m_write and m_read only grow; the  *)
(* mask turns them into places.  Push refuses when the array is full,      *)
(* PushForce drops the oldest.                                             *)
(***************************************************************************)
EXTENDS Integers, Sequences, SequencesExt

NoItem == 0

\* The first power of two that is not smaller.
Capacity(size) ==
  CHOOSE c \in {2^k : k \in 0..size} : c >= size /\ (c = 1 \/ c \div 2 < size)

Ring(size) == [slots |-> [i \in 0..(Capacity(size) - 1) |-> NoItem],
               write |-> 0, read |-> 0]

Slots(r) == Cardinality(DOMAIN r.slots)
RingEmpty(r) == r.write = r.read
RingFull(r) == r.write - r.read >= Slots(r)

Stored(r, x) == [r EXCEPT !.slots[r.write % Slots(r)] = x, !.write = @ + 1]

Push(r, x) == IF RingFull(r) THEN r ELSE Stored(r, x)
PushForce(r, x) == Stored(IF RingFull(r) THEN [r EXCEPT !.read = @ + 1] ELSE r, x)

Popped(r) == IF RingEmpty(r) THEN NoItem ELSE r.slots[r.read % Slots(r)]
Pop(r) == IF RingEmpty(r) THEN r ELSE [r EXCEPT !.read = @ + 1]

-----------------------------------------------------------------------------
\* The same calls on a ring and on a plain sequence; the n-th call brings n.
RingAfter(size, calls) ==
  FoldLeft(LAMBDA st, c :
             [n |-> st.n + 1,
              ring |-> CASE c = "push" -> Push(st.ring, st.n)
                         [] c = "force" -> PushForce(st.ring, st.n)
                         [] c = "pop" -> Pop(st.ring),
              got |-> IF c = "pop" THEN Append(st.got, Popped(st.ring)) ELSE st.got],
           [n |-> 1, ring |-> Ring(size), got |-> <<>>], calls)

QueueAfter(room, calls) ==
  FoldLeft(LAMBDA st, c :
             [n |-> st.n + 1,
              q |-> CASE c = "pop" -> IF st.q = <<>> THEN st.q ELSE Tail(st.q)
                      [] c = "push" /\ Len(st.q) = room -> st.q
                      [] c = "force" /\ Len(st.q) = room ->
                           Append(Tail(st.q), st.n)
                      [] OTHER -> Append(st.q, st.n),
              got |-> IF c # "pop" THEN st.got
                      ELSE Append(st.got, IF st.q = <<>> THEN NoItem ELSE Head(st.q))],
           [n |-> 1, q |-> <<>>, got |-> <<>>], calls)

\* Whatever is called, every Pop brings what a queue of that room would.
ASSUME RingIsQueue ==
  \A size \in 1..3 : \A calls \in BoundedSeq({"push", "force", "pop"}, 6) :
    RingAfter(size, calls).got = QueueAfter(Capacity(size), calls).got
=============================================================================
