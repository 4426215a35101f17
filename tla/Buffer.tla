-------------------------------- MODULE Buffer --------------------------------
(***************************************************************************)
(* asBuffer (code/buffer): memory with a write position.  A unit is one    *)
(* field of the data that a property tells apart, not a byte.  moved says  *)
(* that the memory was replaced since Init: whoever kept Buf() now has a   *)
(* pointer to freed memory.                                                *)
(***************************************************************************)
EXTENDS Integers, Sequences, SequencesExt

Junk == -1     \* what new char[] holds

MaxSize(b) == Len(b.mem)
Contents(b) == SubSeq(b.mem, 1, b.size)     \* what lies before CurrentBuf
RemainSize(b) == MaxSize(b) - b.size
IsFull(b) == b.size >= MaxSize(b)

Blank(n) == [i \in 1..n |-> Junk]
Over(m, at, d) == SubSeq(m, 1, at) \o d \o SubSeq(m, at + Len(d) + 1, Len(m))

NewBuffer == [mem |-> <<>>, size |-> 0, moved |-> FALSE, type |-> "external"]

\* Init with a size; refused when there is memory already.
InitBuffer(b, n) ==
  IF b.mem = <<>> /\ n > 0 THEN [b EXCEPT !.mem = Blank(n), !.size = 0,
                                          !.type = "new"]
  ELSE b

\* Init with the memory of somebody else: nothing counts as written yet.
WrapBuffer(b, m) ==
  IF b.mem = <<>> /\ m # <<>> THEN [b EXCEPT !.mem = m, !.size = 0,
                                             !.type = "external"]
  ELSE b

Resize(b, n, save) ==
  IF b.type # "new" \/ n <= MaxSize(b) THEN b
  ELSE IF save /\ b.size > 0 /\ b.size < n
  THEN [b EXCEPT !.mem = Contents(b) \o Blank(n - b.size), !.moved = TRUE]
  ELSE [b EXCEPT !.mem = Blank(n), !.size = 0, !.moved = TRUE]

Put(b, d) == [b EXCEPT !.mem = Over(b.mem, b.size, d), !.size = @ + Len(d)]

\* What does not fit, and a write of nothing, doubles the memory; memory of
\* somebody else cannot grow and the write is refused.
CanWrite(b, d) ==
  \/ Len(d) > 0 /\ b.size + Len(d) <= MaxSize(b)
  \/ b.type = "new" /\ MaxSize(b) + Len(d) > 0

WriteBuf(b, d) ==
  IF ~CanWrite(b, d) THEN b
  ELSE IF Len(d) > 0 /\ b.size + Len(d) <= MaxSize(b) THEN Put(b, d)
  ELSE Put(Resize(b, (MaxSize(b) + Len(d)) * 2, TRUE), d)

\* Data that the network put at CurrentBuf.
AddSize(b, n) == IF b.size + n <= MaxSize(b) THEN [b EXCEPT !.size = @ + n] ELSE b
SetSize(b, n) == IF n <= MaxSize(b) THEN [b EXCEPT !.size = n] ELSE b

ResetBuffer(b) == [b EXCEPT !.size = 0]

SubData(b, at, n) ==
  IF b.size = 0 THEN b
  ELSE IF at = 0 THEN [b EXCEPT !.size = n]
  ELSE IF at + n > b.size THEN b
  ELSE [b EXCEPT !.mem = Over(b.mem, 0, SubSeq(b.mem, at + 1, at + n)),
                 !.size = n]

MoveDataForWard(b, at) ==
  IF b.size = at THEN ResetBuffer(b)
  ELSE IF at < b.size THEN SubData(b, at, b.size - at)
  ELSE b
=============================================================================
