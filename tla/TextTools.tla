------------------------------- MODULE TextTools -------------------------------
(***************************************************************************)
(* The tools for text: splitting and copying (code/tools/asStringUtils),   *)
(* paths (code/file/asPath), lines of a file (asFileReader) and INI files  *)
(* (asIniReader).  A text is a sequence of characters.                     *)
(***************************************************************************)
EXTENDS Integers, Sequences, FiniteSets, SequencesExt

Cut(s, from, to) == SubSeq(s, from, to - 1)     \* without the one at to
NotEmpty(parts) == SelectSeq(parts, LAMBDA p : p # <<>>)

-----------------------------------------------------------------------------
(* Splitting.  The reference: what stands between the separators.           *)

Places(s, c) == {i \in DOMAIN s : s[i] = c}
Between(s, marks, width) ==
  LET m == <<1 - width>> \o SetToSortSeq(marks, <) \o <<Len(s) + 1>>
  IN  [i \in 1..(Len(m) - 1) |-> Cut(s, m[i] + width, m[i + 1])]

\* StringSplit at a character.  A text of one character is a part, whatever
\* it is, and so is the empty text.
SplitTurn(s, flag, st, i) ==
  IF s[i] = flag
  THEN [parts |-> NotEmpty(Append(st.parts, Cut(s, st.start, i))), start |-> i + 1]
  ELSE IF i = Len(s)
  THEN [st EXCEPT !.parts = Append(@, Cut(s, st.start, Len(s) + 1))]
  ELSE st
StringSplit(s, flag) ==
  IF Len(s) > 1
  THEN FoldLeft(LAMBDA st, i : SplitTurn(s, flag, st, i),
                [parts |-> <<>>, start |-> 1], [i \in DOMAIN s |-> i]).parts
  ELSE <<s>>

\* StringSplit at a string.  The last character ends the last part even if it
\* is the separator, and the search goes on inside of a separator found.
\* Before the start there is nothing: the length wraps and the rest is taken.
Matches(s, flag, i) == i + Len(flag) - 1 <= Len(s)
                       /\ SubSeq(s, i, i + Len(flag) - 1) = flag
SplitAtTurn(s, flag, st, i) ==
  IF i = Len(s)
  THEN [st EXCEPT !.parts = NotEmpty(Append(@, Cut(s, st.start, Len(s) + 1)))]
  ELSE IF Matches(s, flag, i)
  THEN [parts |-> NotEmpty(Append(st.parts,
                    Cut(s, st.start, IF st.start > i THEN Len(s) + 1 ELSE i))),
        start |-> i + Len(flag)]
  ELSE st
StringSplitAt(s, flag) ==
  IF Len(s) > 1 /\ flag # <<>>
  THEN FoldLeft(LAMBDA st, i : SplitAtTurn(s, flag, st, i),
                [parts |-> <<>>, start |-> 1], [i \in DOMAIN s |-> i]).parts
  ELSE <<s>>

StringSplitTwice(s, flag1, flag2) ==
  LET outer == StringSplit(s, flag1)
  IN  [i \in DOMAIN outer |-> StringSplit(outer[i], flag2)]

ArrayToString(parts, flag) ==
  IF parts = <<>> THEN <<>>
  ELSE Front(FlattenSeq([i \in DOMAIN parts |-> Append(parts[i], flag)]))

\* StringCopy into an array of room characters, one of them for the end; how
\* many are copied.
Copied(room, n) == IF room > n THEN n ELSE room - 1

Texts(n) == BoundedSeq({"a", ",", "-"}, n)

\* Splitting at a character gives what stands between its places and is not
\* empty, for every text but the shortest.
ASSUME SplitIsBetween ==
  \A s \in Texts(6) :
    Len(s) > 1 => StringSplit(s, ",") = NotEmpty(Between(s, Places(s, ","), 1))

\* So does splitting at a string of two different characters; a string that
\* can overlap itself (as "--" in "a---a") gives other parts.
ASSUME SplitAtIsBetween ==
  \A s \in Texts(6) : Len(s) > 1 =>
    StringSplitAt(s, <<",", "-">>) =
      NotEmpty(Between(s, {i \in DOMAIN s : Matches(s, <<",", "-">>, i)}, 2))

\* Joined parts come apart again, if each has a character of its own.
ASSUME JoinThenSplit ==
  \A parts \in BoundedSeq({<<"a">>, <<"a", "-">>, <<"-", "-">>}, 3) :
    Len(ArrayToString(parts, ",")) > 1 =>
      /\ StringSplit(ArrayToString(parts, ","), ",") = parts
      /\ StringSplitTwice(ArrayToString(parts, ","), ",", "-") =
           [i \in DOMAIN parts |-> StringSplit(parts[i], "-")]

\* A copy ends inside of the array.
ASSUME CopyEndsInside ==
  \A room \in 1..5, n \in 0..7 : Copied(room, n) < room /\ Copied(room, n) <= n

-----------------------------------------------------------------------------
(* Paths.  None is empty: the loops would start in front of it.             *)

\* The last place of a character for which Is holds, but never the first; 0
\* for none.
LastPlace(s, chars) ==
  LET at == {i \in 2..Len(s) : s[i] \in chars}
  IN  IF at = {} THEN 0 ELSE CHOOSE i \in at : \A j \in at : j <= i
Separators == {"/"}

RemoveFileName(p) == SubSeq(p, 1, LastPlace(p, Separators))
RemoveFileExtend(p) == SubSeq(p, 1, LastPlace(p, {"."}))     \* with the dot
GetFileExtend(p) == IF LastPlace(p, {"."}) = 0 THEN <<>>
                    ELSE SubSeq(p, LastPlace(p, {"."}), Len(p))
GetFileBaseName(p, ext) ==
  LET at == LastPlace(p, Separators)
      name == IF at = 0 THEN <<>> ELSE SubSeq(p, at + 1, Len(p))
      dot == LastPlace(name, {"."})
  IN  IF ext \/ dot = 0 THEN name ELSE Cut(name, 1, dot)

\* The directories that exist after MakeDir when every mkdir succeeds: all
\* that the path names with a separator behind them.
MakeDir(dirs, p) == dirs \cup {SubSeq(p, 1, i) : i \in {j \in DOMAIN p :
                                                       p[j] \in Separators}}

\* The directory of a file is made, with those above it; and a name with an
\* extension falls into the parts.
ASSUME FileHasItsDirectory ==
  \A p \in BoundedSeq({"a", "/", "."}, 6) \ {<<>>} :
    LET dir == RemoveFileName(p)
    IN  /\ dir # <<>> => dir \in MakeDir({}, dir)
        /\ dir # <<>> => dir \o GetFileBaseName(p, TRUE) = p
        /\ LastPlace(p, {"."}) # 0 =>
             RemoveFileExtend(p) \o Tail(GetFileExtend(p)) = p

-----------------------------------------------------------------------------
(* Lines of a file, and INI files.                                          *)

FileSize(lines) == Len(FlattenSeq(lines)) + Len(lines)

\* What GetLine brings until the stream is not good, and the size of its
\* buffer, which is made for the first file that is read and kept.  A line
\* that does not fit is cut and is the last.
GetLines(room, lines) ==
  LET r == IF room = 0 /\ FileSize(lines) > 0 THEN FileSize(lines) + 4 ELSE room
      long == SelectInSeq(lines, LAMBDA l : Len(l) >= r)
  IN  IF r = 0 THEN <<>>
      ELSE IF long = 0 THEN Append(lines, <<>>)
      ELSE Append(SubSeq(lines, 1, long - 1), SubSeq(lines[long], 1, r - 1))

NoSpace(s) == SelectSeq(s, LAMBDA c : c # " ")

\* One line of the file.  Blanks go, and every "=" of a value; the first value
\* of a key is kept; a section without its bracket leaves the last one.
ParseLine(st, l) ==
  LET close == SelectInSeq(l, LAMBDA c : c = "]")
      eq == SelectInSeq(l, LAMBDA c : c = "=")
      key == NoSpace(Cut(l, 1, eq))
      value == SelectSeq(NoSpace(SubSeq(l, eq, Len(l))), LAMBDA c : c # "=")
      at == <<st.sec, key>>
  IN  IF l # <<>> /\ l[1] = ";" THEN st
      ELSE IF l # <<>> /\ l[1] = "["
      THEN IF close = 0 THEN st ELSE [st EXCEPT !.sec = Cut(l, 2, close)]
      ELSE IF eq = 0 \/ at \in DOMAIN st.cfg THEN st
      ELSE [st EXCEPT !.cfg = [k \in DOMAIN @ \cup {at} |->
                                 IF k = at THEN value ELSE @[k]]]

Open(room, lines) ==
  FoldLeft(ParseLine, [sec |-> <<>>, cfg |-> <<>>], GetLines(room, lines)).cfg

GetString(cfg, section, key, default) ==
  IF <<section, key>> \in DOMAIN cfg THEN cfg[<<section, key>>] ELSE default

IniLines == {<<"[", "s", "]">>, <<"k", "=", "1">>, <<" ", "k", " ", "=", "2">>,
             <<"j", "=", " ", "1", "=">>, <<";", "k", "=", "3">>, <<>>}

\* The value of a key is the one its first line in its section gives, without
\* blanks; and a reader whose buffer is from a smaller file finds no more
\* than one with a buffer of its own.
ASSUME FirstValueCounts ==
  \A lines \in BoundedSeq(IniLines, 4) :
    LET cfg == Open(0, lines)
        InSection(i) == \E j \in 1..i : lines[j] = <<"[", "s", "]">>
        first == {i \in DOMAIN lines : InSection(i) /\ NoSpace(lines[i]) \in
                    {<<"k", "=", "1">>, <<"k", "=", "2">>}}
        i == CHOOSE n \in first : \A m \in first : n <= m
    IN  /\ GetString(cfg, <<"s">>, <<"k">>, "none") =
             IF first = {} THEN "none" ELSE <<Last(NoSpace(lines[i]))>>
        /\ DOMAIN Open(4, lines) \subseteq DOMAIN cfg
=============================================================================
