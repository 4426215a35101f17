------------------------------ MODULE NodeBuffer ------------------------------
(***************************************************************************)
(* asNodeBuffer (code/buffer): nodes one after the other in an asBuffer,   *)
(* each behind a unit that holds its length.  The rows of a statement are  *)
(* written as nodes, and the client that gets them iterates over them.     *)
(***************************************************************************)
EXTENDS Buffer

NoOffset == -1     \* AS_INVAILD_U64: no node is open

NewNodes(size) == [buf |-> InitBuffer(NewBuffer, size), count |-> 0,
                   offset |-> 0]

EmptyNodes(nb) == [buf |-> ResetBuffer(nb.buf), count |-> 0, offset |-> 0]

StartWrite(nb) ==
  IF CanWrite(nb.buf, <<0>>)
  THEN [nb EXCEPT !.offset = nb.buf.size, !.buf = WriteBuf(@, <<0>>)]
  ELSE [nb EXCEPT !.offset = NoOffset]

Write(nb, d) ==
  IF nb.offset = NoOffset THEN nb ELSE [nb EXCEPT !.buf = WriteBuf(@, d)]

\* Data behind its length.  Unlike Write it is refused when it does not fit.
\* Data of no length doubles the memory, see WriteBuf.
WriteSerialize(nb, d) ==
  IF nb.offset = NoOffset \/ Len(d) + 1 + nb.buf.size > MaxSize(nb.buf) THEN nb
  ELSE [nb EXCEPT !.buf = WriteBuf(WriteBuf(@, <<Len(d)>>), d)]

EndWrite(nb) ==
  IF nb.offset = NoOffset THEN nb
  ELSE [nb EXCEPT !.buf.mem[nb.offset + 1] = nb.buf.size - nb.offset - 1,
                  !.count = @ + 1, !.offset = NoOffset]

-----------------------------------------------------------------------------
(* Reading: FormatFrom counts the nodes of data that came from elsewhere,   *)
(* Begin and Next walk over them.                                           *)

\* The place behind the node at each place where FormatFrom looks.
NodeEnds(d) ==
  LET End[n \in 0..Len(d)] ==
        IF n = 0 THEN 0
        ELSE IF End[n - 1] >= Len(d) THEN End[n - 1]
        ELSE End[n - 1] + 1 + d[End[n - 1] + 1]
  IN  End

FormatFrom(nb, d) ==
  LET End == NodeEnds(d)
      n == CHOOSE k \in 1..Len(d) : End[k] >= Len(d)
                                   /\ \A j \in 1..(k - 1) : End[j] < Len(d)
  IN  IF d = <<>> \/ End[Len(d)] # Len(d) \/ nb.buf.mem # <<>> THEN nb
      ELSE [nb EXCEPT !.buf = SetSize(WrapBuffer(@, d), Len(d)), !.count = n]

\* An iterator: where the node's data starts, its length, and its number.
Begin(nb) ==
  IF nb.buf.size = 0 THEN [at |-> 0, size |-> 0, count |-> 0]
  ELSE [at |-> 1, size |-> nb.buf.mem[1], count |-> 1]

NextNode(nb, itr) ==
  IF itr.count >= nb.count \/ itr.size > nb.buf.size
  THEN [at |-> 0, size |-> 0, count |-> 0]
  ELSE [at |-> itr.at + itr.size + 1,
        size |-> nb.buf.mem[itr.at + itr.size + 1],
        count |-> itr.count + 1]

NodeAt(nb, itr) == SubSeq(nb.buf.mem, itr.at + 1, itr.at + itr.size)

\* What a client sees that iterates from Begin on.
Nodes(nb) ==
  LET It[n \in 1..nb.count] == IF n = 1 THEN Begin(nb) ELSE NextNode(nb, It[n - 1])
  IN  [n \in 1..nb.count |-> NodeAt(nb, It[n])]
=============================================================================
