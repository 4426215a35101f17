----------------------------- MODULE FieldBuffer -----------------------------
(***************************************************************************)
(* asWriteBuffer and asReadBuffer (code/buffer): fields written into and   *)
(* read out of the body of a message.  A number is one unit; a string is   *)
(* its length, one unit, and its characters.                               *)
(***************************************************************************)
EXTENDS Buffer

\* _Write; WriteString refuses a string that is empty or does not fit.
WriteField(b, f) ==
  CASE f.type = "num" -> WriteBuf(b, f.data)
    [] f.type = "str" ->
         IF f.data = <<>> \/ Len(f.data) + 1 + b.size > MaxSize(b) THEN b
         ELSE WriteBuf(WriteBuf(b, <<Len(f.data)>>), f.data)

\* Set, for data that arrived: a reader that has data already keeps them, and
\* starts again at their beginning.
Reader(b, d) == [buf |-> WrapBuffer(b, d), pos |-> 0]

\* Skip does nothing when there is not as much.
SkipUnits(r, n) == IF n + r.pos > MaxSize(r.buf) THEN r
                   ELSE [r EXCEPT !.pos = @ + n]

CanRead(r, n) == n + r.pos <= MaxSize(r.buf)
ReadUnits(r, n) == SubSeq(r.buf.mem, r.pos + 1, r.pos + n)

\* ReadString into a std::string: the length is believed.  Behind the end of
\* the data the string is Junk, and the place stays behind the length.
ReadString(r) ==
  IF ~CanRead(r, 1) THEN [ok |-> FALSE, str |-> <<>>, r |-> r]
  ELSE LET n == ReadUnits(r, 1)[1]
           behind == SkipUnits(r, 1)
       IN  [ok |-> TRUE, r |-> SkipUnits(behind, n),
            str |-> IF CanRead(behind, n) THEN ReadUnits(behind, n)
                    ELSE [i \in 1..n |-> Junk]]

\* ReadString into an array, and ReadStruct: what is too long for the array
\* is left unread, behind its length, and nothing is returned.
ReadInto(r, room) ==
  IF ~CanRead(r, 1) THEN [str |-> <<>>, r |-> r]
  ELSE LET n == ReadUnits(r, 1)[1]
           behind == SkipUnits(r, 1)
       IN  IF n = 0 \/ n > room \/ ~CanRead(behind, n)
           THEN [str |-> <<>>, r |-> behind]
           ELSE [str |-> ReadUnits(behind, n), r |-> SkipUnits(behind, n)]

ReadField(r, type) ==
  CASE type = "num" -> IF CanRead(r, 1) THEN [str |-> ReadUnits(r, 1),
                                              r |-> SkipUnits(r, 1)]
                       ELSE [str |-> <<>>, r |-> r]
    [] type = "str" -> [str |-> ReadString(r).str, r |-> ReadString(r).r]
    [] type = "array" -> ReadInto(r, 2)

-----------------------------------------------------------------------------
Num(x) == [type |-> "num", data |-> <<x>>]
Str(d) == [type |-> "str", data |-> d]
Fields == {Num(1), Num(2), Str(<<1>>), Str(<<2, 1>>)}

Written(room, fs) == FoldLeft(WriteField, InitBuffer(NewBuffer, room), fs)

\* A reader takes strings as strings or into arrays.
ReadAll(d, fs, strings) ==
  FoldLeft(LAMBDA st, f :
             LET read == ReadField(st.r, IF f.type = "str" THEN strings ELSE f.type)
             IN  [r |-> read.r, got |-> Append(st.got, read.str)],
           [r |-> Reader(NewBuffer, d), got |-> <<>>], fs).got

\* Fields that fit come back as they were written, in their order, if no
\* string is empty.
ASSUME FieldsReadBack ==
  \A fs \in BoundedSeq(Fields, 3) \ {<<>>}, strings \in {"str", "array"} :
    ReadAll(Contents(Written(9, fs)), fs, strings) =
      [i \in DOMAIN fs |-> fs[i].data]

\* An empty string leaves no trace, so the reader takes what follows it for
\* its length.
ASSUME EmptyStringVanishes ==
  \A f \in Fields : Written(9, <<Str(<<>>), f>>) = Written(9, <<f>>)
=============================================================================
