---------------------------- MODULE Library_proofs ----------------------------
(***************************************************************************)
(* Proofs about the components that work for one owner, or for threads     *)
(* that share one object: the cursor of asMySQLQueryResult, the loggers,   *)
(* the cutting of a stream into messages, the synchronous connection,      *)
(* asSnowFlake and asSingleton.  The first three promise something about   *)
(* everything that was ever read, written or sent and say so with          *)
(* FlattenSeq; what it computes is in BufferLemmas, and what the loop of   *)
(* ParseData does is proved here by induction.                             *)
(***************************************************************************)
EXTENDS QueryResult, Logger, Framing, SyncSession, SnowFlake, Singleton,
        BufferLemmas

-----------------------------------------------------------------------------
(* The reader of a query's results.                                         *)

RowsOf(r, n) == [i \in 1..n |-> <<r, i>>]

\* All rows of the first n results of a list.
RowsUpTo(list, n) == FlattenSeq([r \in 1..n |-> RowsOf(r, Len(list[r].rows))])

CursorType ==
  /\ resList \in Seq(Results) /\ resIndex \in 0..Len(resList)
  /\ curRes \in {0, resIndex} /\ curRow \in Nat /\ fetched \in Nat
  /\ resFreed \in Seq(Nat) /\ visited \in Seq(Nat \X Nat)

\* The current row is the last one MySQL has handed out, and there is none
\* only when all were handed out.
RowInv ==
  /\ curRes = 0 => curRow = 0 /\ fetched = 0
  /\ fetched <= m_rows
  /\ curRow \in {0, fetched} /\ (curRow = 0 => fetched = m_rows)

\* What is freed was current, and is not any more.
FreedInv ==
  /\ \A i \in DOMAIN resFreed : resFreed[i] \in 1..resIndex /\ resFreed[i] # curRes
  /\ \A i, j \in DOMAIN resFreed : resFreed[i] = resFreed[j] => i = j

VisitedInv ==
  ~strayed /\ resState = "run" =>
    visited = RowsUpTo(resList, IF curRes = 0 THEN resIndex ELSE resIndex - 1)
                \o RowsOf(curRes, fetched)

CursorInv == CursorType /\ RowInv /\ FreedInv /\ VisitedInv

LEMMA RowsOfType ==
  ASSUME NEW r \in Nat, NEW n \in Nat PROVE RowsOf(r, n) \in Seq(Nat \X Nat)
BY DEF RowsOf

LEMMA RowsOfNext ==
  ASSUME NEW r \in Nat, NEW n \in Nat
  PROVE  RowsOf(r, n + 1) = Append(RowsOf(r, n), <<r, n + 1>>)
<1> DEFINE a == RowsOf(r, n + 1)
           b == RowsOf(r, n)
           x == <<r, n + 1>>
<1>0. x \in Nat \X Nat
  OBVIOUS
<1>1. a \in Seq(Nat \X Nat) /\ b \in Seq(Nat \X Nat) /\ Len(a) = n + 1 /\ Len(b) = n
  BY DEF RowsOf
<1>2. \A i \in 1..(n + 1) : a[i] = IF i <= n THEN b[i] ELSE x
  BY DEF RowsOf
<1> HIDE DEF a, b, x
<1>3. a = Append(b, x)
  BY <1>0, <1>1, <1>2
<1> QED BY <1>3 DEF a, b, x

LEMMA RowsUpToType ==
  ASSUME ResultsAssumption, NEW list \in Seq(Results), NEW n \in 0..Len(list)
  PROVE  /\ [r \in 1..n |-> RowsOf(r, Len(list[r].rows))] \in Seq(Seq(Nat \X Nat))
         /\ RowsUpTo(list, n) \in Seq(Nat \X Nat)
<1>1. \A r \in 1..n : RowsOf(r, Len(list[r].rows)) \in Seq(Nat \X Nat)
  <2> TAKE r \in 1..n
  <2>1. list[r] \in Results
    OBVIOUS
  <2>2. Len(list[r].rows) \in Nat /\ r \in Nat
    BY <2>1 DEF ResultsAssumption
  <2> QED BY <2>2, RowsOfType
<1>2. [r \in 1..n |-> RowsOf(r, Len(list[r].rows))] \in Seq(Seq(Nat \X Nat))
  BY <1>1
<1> QED BY <1>2, FlattenType DEF RowsUpTo

LEMMA RowsUpToNext ==
  ASSUME ResultsAssumption, NEW list \in Seq(Results), NEW n \in 0..Len(list),
         n + 1 <= Len(list)
  PROVE  RowsUpTo(list, n + 1)
           = RowsUpTo(list, n) \o RowsOf(n + 1, Len(list[n + 1].rows))
<1> DEFINE x == RowsOf(n + 1, Len(list[n + 1].rows))
           a == [r \in 1..(n + 1) |-> RowsOf(r, Len(list[r].rows))]
           b == [r \in 1..n |-> RowsOf(r, Len(list[r].rows))]
<1>1. a \in Seq(Seq(Nat \X Nat)) /\ b \in Seq(Seq(Nat \X Nat))
  <2>1. n + 1 \in 0..Len(list)
    OBVIOUS
  <2> QED BY <2>1, RowsUpToType
<1>2. x \in Seq(Nat \X Nat)
  <2>1. list[n + 1] \in Results
    OBVIOUS
  <2>2. Len(list[n + 1].rows) \in Nat /\ n + 1 \in Nat
    BY <2>1 DEF ResultsAssumption
  <2> QED BY <2>2, RowsOfType
<1>3. Len(a) = n + 1 /\ Len(b) = n /\ a[n + 1] = x /\ \A i \in 1..n : a[i] = b[i]
  OBVIOUS
<1>4. RowsUpTo(list, n + 1) = FlattenSeq(a) /\ RowsUpTo(list, n) = FlattenSeq(b)
  BY DEF RowsUpTo
<1> HIDE DEF a, b, x
<1>5. a = Append(b, x)
  BY <1>1, <1>2, <1>3
<1>6. FlattenSeq(a) = FlattenSeq(b) \o x
  BY <1>1, <1>2, <1>5, FlattenAppend
<1> QED BY <1>4, <1>6 DEF x

LEMMA RowsUpToSame ==
  ASSUME NEW list \in Seq(Results), NEW more \in Seq(Results), NEW n \in 0..Len(list)
  PROVE  RowsUpTo(list \o more, n) = RowsUpTo(list, n)
<1>1. \A r \in 1..n : (list \o more)[r] = list[r]
  OBVIOUS
<1>2. [r \in 1..n |-> RowsOf(r, Len((list \o more)[r].rows))]
        = [r \in 1..n |-> RowsOf(r, Len(list[r].rows))]
  BY <1>1
<1> QED BY <1>2 DEF RowsUpTo

LEMMA RowsUpToZero ==
  ASSUME NEW list PROVE RowsUpTo(list, 0) = <<>>
<1>1. [r \in 1..0 |-> RowsOf(r, Len(list[r].rows))] = <<>>
  OBVIOUS
<1> QED BY <1>1, FlattenEmpty DEF RowsUpTo

-----------------------------------------------------------------------------
LEMMA CursorInitially == ResultInit => CursorInv
<1> SUFFICES ASSUME ResultInit PROVE CursorInv
  OBVIOUS
<1>1. CursorType
  BY DEF ResultInit, CursorType
<1>2. RowInv /\ FreedInv
  BY DEF ResultInit, RowInv, FreedInv, m_rows
<1>3. VisitedInv
  <2>1. RowsUpTo(resList, 0) = <<>>
    BY RowsUpToZero
  <2>2. RowsOf(0, 0) = <<>>
    BY DEF RowsOf
  <2>3. visited = <<>> /\ curRes = 0 /\ resIndex = 0 /\ fetched = 0
    BY DEF ResultInit
  <2>4. <<>> = <<>> \o <<>>
    OBVIOUS
  <2> QED BY <2>1, <2>2, <2>3, <2>4 DEF VisitedInv
<1> QED BY <1>1, <1>2, <1>3 DEF CursorInv

\* A result that can be current has its number of rows.
LEMMA RowCount ==
  ASSUME ResultsAssumption, CursorType
  PROVE  /\ m_rows \in Nat
         /\ \A i \in 1..Len(resList) : Len(resList[i].rows) \in Nat
<1>1. \A i \in 1..Len(resList) : Len(resList[i].rows) \in Nat
  <2> TAKE i \in 1..Len(resList)
  <2>1. resList[i] \in Results
    BY DEF CursorType
  <2> QED BY <2>1 DEF ResultsAssumption
<1>2. curRes # 0 => curRes \in 1..Len(resList)
  BY DEF CursorType
<1> QED BY <1>1, <1>2 DEF m_rows

LEMMA AddResultsKeeps ==
  ASSUME ResultsAssumption, CursorInv, NEW rs \in ResultLists, AddResults(rs)
  PROVE  CursorInv'
<1> USE DEF AddResults, CursorInv
<1>1. /\ rs \in Seq(Results) /\ resList \in Seq(Results)
      /\ resList' = resList \o rs
      /\ UNCHANGED <<resIndex, curRes, curRow, fetched, resFreed, resState,
                     visited, strayed>>
  BY DEF ResultsAssumption, CursorType
<1>2. CursorType'
  BY <1>1 DEF CursorType
<1>3. m_rows' = m_rows
  <2>1. curRes # 0 => (resList \o rs)[curRes] = resList[curRes]
    BY <1>1 DEF CursorType
  <2> QED BY <2>1, <1>1 DEF m_rows
<1>4. RowInv' /\ FreedInv'
  BY <1>1, <1>3 DEF RowInv, FreedInv
<1>5. VisitedInv'
  <2> DEFINE left == IF curRes = 0 THEN resIndex ELSE resIndex - 1
  <2>1. left \in 0..Len(resList)
    BY DEF CursorType
  <2>2. RowsUpTo(resList \o rs, left) = RowsUpTo(resList, left)
    BY <2>1, <1>1, RowsUpToSame
  <2>3. left' = left
    BY <1>1
  <2>4. ~strayed /\ resState = "run" =>
          visited = RowsUpTo(resList, left) \o RowsOf(curRes, fetched)
    BY DEF VisitedInv
  <2>5. ~strayed' /\ resState' = "run" =>
          visited' = RowsUpTo(resList', left') \o RowsOf(curRes', fetched')
    <3> HIDE DEF left
    <3> QED BY <2>2, <2>3, <2>4, <1>1
  <2> QED BY <2>5 DEF VisitedInv
<1> QED BY <1>2, <1>4, <1>5

\* A row is fetched from a result, which is current then, behind the first n.
LEMMA FetchKeeps ==
  ASSUME ResultsAssumption, CursorType, NEW res \in 1..Len(resList),
         NEW n \in Nat, n <= Len(resList[res].rows), MysqlFetchRow(res, n),
         resList' = resList, curRes' = res
  PROVE  /\ RowInv' /\ curRow' \in Nat /\ fetched' \in Nat
         /\ visited' \in Seq(Nat \X Nat)
         /\ visited = RowsUpTo(resList, res - 1) \o RowsOf(res, n)
              => visited' = RowsUpTo(resList, res - 1) \o RowsOf(res, fetched')
<1>1. Len(resList[res].rows) \in Nat /\ m_rows' = Len(resList[res].rows)
  BY RowCount DEF m_rows
<1>2. CASE n < Len(resList[res].rows)
  <2>1. /\ curRow' = n + 1 /\ fetched' = n + 1
        /\ visited' = Append(visited, <<res, n + 1>>)
    BY <1>2 DEF MysqlFetchRow
  <2>2. RowInv'
    BY <2>1, <1>1, <1>2 DEF RowInv
  <2> DEFINE a == RowsUpTo(resList, res - 1)
             b == RowsOf(res, n)
             x == <<res, n + 1>>
             T == Nat \X Nat
  <2>3. a \in Seq(T) /\ b \in Seq(T) /\ x \in T
    <3>1. res - 1 \in 0..Len(resList) /\ res \in Nat /\ resList \in Seq(Results)
      BY DEF CursorType
    <3>2. a \in Seq(T)
      BY <3>1, RowsUpToType
    <3>3. b \in Seq(T)
      BY <3>1, RowsOfType
    <3> QED BY <3>1, <3>2, <3>3
  <2>4. RowsOf(res, n + 1) = Append(b, x)
    <3>1. res \in Nat
      OBVIOUS
    <3> QED BY <3>1, RowsOfNext
  <2>5. visited' = Append(visited, x) /\ visited \in Seq(T)
    BY <2>1 DEF CursorType
  <2> HIDE DEF a, b, x, T
  <2>6. Append(a \o b, x) = a \o Append(b, x)
    BY ONLY <2>3, SMTT(60)
  <2>7. visited' \in Seq(T)
    BY <2>3, <2>5
  <2>8. visited = a \o b => visited' = a \o RowsOf(res, n + 1)
    BY <2>4, <2>5, <2>6
  <2>9. fetched' = n + 1 /\ curRow' \in Nat /\ fetched' \in Nat
    BY <2>1
  <2> QED BY <2>2, <2>7, <2>8, <2>9 DEF a, b, T
<1>3. CASE ~(n < Len(resList[res].rows))
  <2>1. curRow' = 0 /\ fetched' = n /\ visited' = visited
    BY <1>3 DEF MysqlFetchRow
  <2>2. n = Len(resList[res].rows)
    BY <1>1, <1>3
  <2>3. RowInv'
    BY <2>1, <2>2, <1>1 DEF RowInv
  <2> QED BY <2>1, <2>3 DEF CursorType
<1> QED BY <1>2, <1>3

\* The current result is freed, and the next to be current is another one.
LEMMA FreeKeeps ==
  ASSUME CursorInv, FreeCurResult, curRes' \in {0, resIndex'},
         resIndex' \in {resIndex, resIndex + 1}, curRes' \in {0, resIndex + 1}
  PROVE  FreedInv' /\ resFreed' \in Seq(Nat)
<1> USE DEF CursorInv, FreedInv, CursorType
<1>1. CASE curRes = 0
  <2>1. resFreed' = resFreed
    BY <1>1 DEF FreeCurResult
  <2>2. \A i \in DOMAIN resFreed : resFreed[i] \in 1..resIndex
    OBVIOUS
  <2>3. FreedInv'
    BY <2>1, <2>2 DEF FreedInv
  <2> QED BY <2>1, <2>3
<1>2. CASE curRes # 0
  <2>1. resFreed' = Append(resFreed, curRes) /\ curRes = resIndex
    BY <1>2 DEF FreeCurResult
  <2>2. resFreed' \in Seq(Nat) /\ Len(resFreed') = Len(resFreed) + 1
    BY <2>1
  <2>3. \A i \in DOMAIN resFreed' :
          \/ i \in DOMAIN resFreed /\ resFreed'[i] = resFreed[i]
          \/ i = Len(resFreed) + 1 /\ resFreed'[i] = resIndex
    BY <2>1, <2>2
  <2>4. \A i \in DOMAIN resFreed :
          resFreed[i] \in 1..resIndex /\ resFreed[i] # resIndex
    BY <2>1
  <2>5. \A i \in DOMAIN resFreed' : resFreed'[i] \in 1..resIndex' /\ resFreed'[i] # curRes'
    BY <2>3, <2>4, <1>2
  <2>6. \A i, j \in DOMAIN resFreed' : resFreed'[i] = resFreed'[j] => i = j
    BY <2>3, <2>4
  <2> QED BY <2>2, <2>5, <2>6 DEF FreedInv
<1> QED BY <1>1, <1>2

LEMMA NextResultKeeps ==
  ASSUME ResultsAssumption, CursorInv, NextResult PROVE CursorInv'
<1> USE DEF NextResult, CursorInv
<1>1. resList' = resList /\ resState = "run" /\ resIndex \in Nat
  BY DEF Read, CursorType
<1>2. FreeCurResult /\ strayed' = (strayed \/ ~IsEof)
  OBVIOUS
<1> DEFINE all == RowsUpTo(resList, resIndex)
<1>3. all \in Seq(Nat \X Nat)
  BY RowsUpToType DEF CursorType
\* Who did not stray has met all rows of the results up to now.
<1>4. ~strayed' => visited = all
  <2> SUFFICES ASSUME ~strayed' PROVE visited = all
    OBVIOUS
  <2>1. ~strayed /\ curRow = 0 /\ fetched = m_rows
    BY <1>2 DEF IsEof, RowInv
  <2>2. visited = RowsUpTo(resList, IF curRes = 0 THEN resIndex ELSE resIndex - 1)
                    \o RowsOf(curRes, fetched)
    BY <2>1, <1>1 DEF VisitedInv
  <2>3. CASE curRes = 0
    <3>1. RowsOf(curRes, fetched) = <<>>
      BY <2>3 DEF RowsOf, RowInv
    <3>2. all \o <<>> = all
      BY <1>3
    <3> QED BY <2>2, <2>3, <3>1, <3>2
  <2>4. CASE curRes # 0
    <3>1. curRes = resIndex /\ resIndex \in 1..Len(resList)
      BY <2>4 DEF CursorType
    <3>2. fetched = Len(resList[resIndex].rows)
      BY <2>1, <2>4, <3>1 DEF m_rows
    <3>3. RowsUpTo(resList, (resIndex - 1) + 1)
            = RowsUpTo(resList, resIndex - 1)
                \o RowsOf((resIndex - 1) + 1, Len(resList[(resIndex - 1) + 1].rows))
      <4>1. resIndex - 1 \in 0..Len(resList) /\ (resIndex - 1) + 1 <= Len(resList)
        BY <3>1
      <4>2. resList \in Seq(Results)
        BY DEF CursorType
      <4> QED BY <4>1, <4>2, RowsUpToNext
    <3>4. (resIndex - 1) + 1 = resIndex
      BY <3>1
    <3> QED BY <2>2, <2>4, <3>1, <3>2, <3>3, <3>4
  <2> QED BY <2>3, <2>4
\* Without a current result, nothing but the freeing happens.
<1>5. ASSUME NoCurrent, resIndex' \in 0..Len(resList),
             resIndex' \in {resIndex, resIndex + 1},
             resState' = "run" => resIndex' = resIndex
      PROVE  CursorInv'
  <2>1. curRes' = 0 /\ curRow' = 0 /\ fetched' = 0 /\ visited' = visited
    BY <1>5 DEF NoCurrent
  <2>2. FreedInv' /\ resFreed' \in Seq(Nat)
    BY <2>1, <1>2, <1>5, FreeKeeps
  <2>3. CursorType'
    BY <2>1, <2>2, <1>1, <1>5 DEF CursorType
  <2>4. RowInv'
    BY <2>1 DEF RowInv, m_rows
  <2>5. VisitedInv'
    <3>1. RowsOf(0, 0) = <<>>
      BY DEF RowsOf
    <3>2. all \o <<>> = all
      BY <1>3
    <3> HIDE DEF NextResult
    <3> SUFFICES ASSUME ~strayed', resState' = "run"
                 PROVE  visited' = RowsUpTo(resList', resIndex') \o RowsOf(0, 0)
      BY <2>1 DEF VisitedInv
    <3> QED BY <3>1, <3>2, <2>1, <1>1, <1>4, <1>5
  <2> QED BY <2>2, <2>3, <2>4, <2>5
<1>6. CASE IsEndResults
  BY <1>5, <1>6, <1>1 DEF CursorType
<1>7. CASE ~IsEndResults
  <2>1. resIndex' = resIndex + 1 /\ resIndex + 1 \in 1..Len(resList)
    BY <1>7 DEF IsEndResults, CursorType
  <2>2. CASE resList[resIndex + 1] = NoResult
    <3>1. NoCurrent /\ resState' = "undefined"
      BY <1>7, <2>2
    <3> QED BY <3>1, <2>1, <1>5
  <2>3. CASE resList[resIndex + 1] # NoResult
    <3> DEFINE res == resIndex + 1
    <3>1. curRes' = res /\ resIndex' = res /\ MysqlFetchRow(res, 0)
      BY <1>7, <2>3
    <3>2. FreedInv' /\ resFreed' \in Seq(Nat)
      BY <2>1, <3>1, <1>2, FreeKeeps
    <3>3. res \in 1..Len(resList) /\ res - 1 = resIndex /\ res # 0
      BY <2>1, <1>1
    <3> HIDE DEF NextResult, res
    <3>4. 0 <= Len(resList[res].rows)
      BY <3>3, RowCount
    <3>5. /\ RowInv' /\ curRow' \in Nat /\ fetched' \in Nat
          /\ visited' \in Seq(Nat \X Nat)
          /\ visited = RowsUpTo(resList, res - 1) \o RowsOf(res, 0)
               => visited' = RowsUpTo(resList, res - 1) \o RowsOf(res, fetched')
      BY <3>1, <3>3, <3>4, <1>1, FetchKeeps
    <3>6. CursorType'
      BY <3>1, <3>2, <3>3, <3>5, <1>1 DEF CursorType
    <3>7. VisitedInv'
      <4>1. RowsOf(res, 0) = <<>> /\ all \o <<>> = all
        BY <1>3 DEF RowsOf
      <4>2. ~strayed' => visited' = all \o RowsOf(res, fetched')
        BY <4>1, <3>3, <3>5, <1>4
      <4> QED BY <4>2, <3>1, <3>3, <1>1 DEF VisitedInv
    <3> QED BY <3>2, <3>5, <3>6, <3>7
  <2> QED BY <2>2, <2>3
<1> QED BY <1>6, <1>7

LEMMA NextRowKeeps ==
  ASSUME ResultsAssumption, CursorInv, NextRow PROVE CursorInv'
<1> USE DEF CursorInv
<1>1. /\ resList' = resList /\ resState' = resState
      /\ UNCHANGED <<resIndex, curRes, resFreed, strayed>>
  BY DEF NextRow, Read
<1>2. FreedInv'
  BY <1>1 DEF FreedInv
<1>3. CASE curRes = 0
  <2>1. UNCHANGED <<curRow, fetched, visited>>
    BY <1>3 DEF NextRow
  <2> QED BY <2>1, <1>1, <1>2 DEF CursorType, RowInv, VisitedInv, m_rows
<1>4. CASE curRes # 0
  <2>1. curRes \in 1..Len(resList) /\ curRes = resIndex /\ fetched \in Nat
    BY <1>4 DEF CursorType
  <2>2. fetched <= Len(resList[curRes].rows)
    BY <1>4 DEF RowInv, m_rows
  <2>3. MysqlFetchRow(curRes, fetched)
    BY <1>4 DEF NextRow
  <2>4. /\ RowInv' /\ curRow' \in Nat /\ fetched' \in Nat
        /\ visited' \in Seq(Nat \X Nat)
        /\ visited = RowsUpTo(resList, curRes - 1) \o RowsOf(curRes, fetched)
             => visited' = RowsUpTo(resList, curRes - 1) \o RowsOf(curRes, fetched')
    BY <2>1, <2>2, <2>3, <1>1, FetchKeeps
  <2>5. CursorType'
    BY <2>4, <1>1 DEF CursorType
  <2>6. VisitedInv'
    BY <2>1, <2>4, <1>1, <1>4 DEF VisitedInv
  <2> QED BY <2>4, <2>5, <2>6, <1>2
<1> QED BY <1>3, <1>4

LEMMA SeekRowKeeps ==
  ASSUME ResultsAssumption, CursorInv, NEW offset \in Nat, SeekRow(offset)
  PROVE  CursorInv'
<1> USE DEF CursorInv
<1>1. /\ resList' = resList /\ resState' = resState
      /\ UNCHANGED <<resIndex, curRes, resFreed>>
  BY DEF SeekRow, Read
<1>2. FreedInv'
  BY <1>1 DEF FreedInv
<1>3. CASE curRes = 0 \/ m_rows < offset
  <2>1. UNCHANGED <<curRow, fetched, visited, strayed>>
    BY <1>3 DEF SeekRow
  <2> QED BY <2>1, <1>1, <1>2 DEF CursorType, RowInv, VisitedInv, m_rows
<1>4. CASE ~(curRes = 0 \/ m_rows < offset)
  <2>1. curRes \in 1..Len(resList)
    BY <1>4 DEF CursorType
  <2>2. offset <= Len(resList[curRes].rows)
    BY <2>1, <1>4, RowCount DEF m_rows
  <2>3. MysqlFetchRow(curRes, offset) /\ strayed' = TRUE
    BY <1>4 DEF SeekRow
  <2>4. /\ RowInv' /\ curRow' \in Nat /\ fetched' \in Nat
        /\ visited' \in Seq(Nat \X Nat)
    BY <2>1, <2>2, <2>3, <1>1, FetchKeeps
  <2>5. CursorType'
    BY <2>4, <1>1 DEF CursorType
  <2>6. VisitedInv'
    BY <2>3 DEF VisitedInv
  <2> QED BY <2>4, <2>5, <2>6, <1>2
<1> QED BY <1>3, <1>4

\* A getter moves nothing; at worst it reads what is not there.
LEMMA GetKeeps ==
  ASSUME CursorInv, resState = "run",
         UNCHANGED <<resList, resIndex, curRes, curRow, fetched, resFreed,
                     visited, strayed>>
  PROVE  CursorInv'
<1>1. CursorType' /\ RowInv' /\ FreedInv'
  BY DEF CursorInv, CursorType, RowInv, FreedInv, m_rows
<1>2. VisitedInv'
  BY DEF CursorInv, VisitedInv
<1> QED BY <1>1, <1>2 DEF CursorInv

LEMMA CursorStep ==
  ASSUME ResultsAssumption, CursorInv, [ResultNext]_resVars PROVE CursorInv'
<1>1. ASSUME NEW rs \in ResultLists, AddResults(rs) PROVE CursorInv'
  BY <1>1, AddResultsKeeps
<1>2. CASE NextResult
  BY <1>2, NextResultKeeps
<1>3. CASE NextRow
  BY <1>3, NextRowKeeps
<1>4. ASSUME NEW n \in 0..2, SeekRow(n) PROVE CursorInv'
  BY <1>4, SeekRowKeeps
<1>5. ASSUME NEW n, GetValue(n) \/ GetColumnName(n) PROVE CursorInv'
  BY <1>5, GetKeeps DEF GetValue, GetColumnName, Read
<1>6. CASE UNCHANGED resVars
  <2>1. UNCHANGED <<resList, resIndex, curRes, curRow, fetched, resFreed,
                    resState, visited, strayed>>
    BY <1>6 DEF resVars
  <2> QED BY <2>1 DEF CursorInv, CursorType, RowInv, FreedInv, VisitedInv, m_rows
<1> QED BY <1>1, <1>2, <1>3, <1>4, <1>5, <1>6 DEF ResultNext

\* What CursorExact says follows.
LEMMA CursorInvImplies == CursorInv => CursorExact
<1> SUFFICES ASSUME CursorInv PROVE CursorExact
  OBVIOUS
<1> USE DEF CursorInv
<1>1. ~strayed /\ resState = "run" =>
        LET Rows(r, n) == [i \in 1..n |-> <<r, i>>]
            left == IF curRes = 0 THEN resIndex ELSE resIndex - 1
        IN  visited = FlattenSeq([r \in 1..left |-> Rows(r, Len(resList[r].rows))])
                        \o Rows(curRes, fetched)
  BY DEF VisitedInv, RowsUpTo, RowsOf
<1>2. \A i, j \in DOMAIN resFreed : resFreed[i] = resFreed[j] => i = j
  BY DEF FreedInv
<1>3. curRes \notin ToSet(resFreed)
  BY DEF FreedInv, ToSet
<1>4. curRow # 0 => curRow <= m_rows
  BY DEF RowInv
<1> QED BY <1>1, <1>2, <1>3, <1>4 DEF CursorExact

\* The reader meets every row of every result once and in order, unless it
\* strays, and nothing is freed twice or read after it was freed.
\* About: NextResult, NextRow, SeekRow, AddResults, FreeCurResult.
THEOREM CursorExactAlways == ResultSpec => []CursorExact
<1>1. ResultInit => CursorInv
  BY CursorInitially
<1>2. CursorInv /\ [ResultNext]_resVars => CursorInv'
  BY CursorStep, ResultsAssumption
<1>3. CursorInv => CursorExact
  BY CursorInvImplies
<1> QED BY <1>1, <1>2, <1>3, PTL DEF ResultSpec

-----------------------------------------------------------------------------
(* The loggers.  Stop is no line, and of no caller.                         *)

Line == [from : LogThreads \cup {Direct}, n : Nat \ {0}, lv : Levels, day : Nat]
Item == Line \cup {Stop}

\* The lines of one caller in B were logged after those in A.
Later(A, B) == \A l \in A, m \in B :
                 l # Stop /\ m # Stop /\ l.from = m.from => l.n < m.n

\* The lines of one caller stand in the order in which it logged them.
Ascending(q) ==
  \A i, j \in DOMAIN q :
    i < j /\ q[i] # Stop /\ q[j] # Stop /\ q[i].from = q[j].from => q[i].n < q[j].n

LEMMA LineFacts ==
  /\ \A l \in Line : /\ l # Stop /\ l.n \in Nat \ {0} /\ l.lv \in Levels
                     /\ l.day \in Nat /\ l.from \in LogThreads \cup {Direct}
  /\ ~ToFile(Stop) /\ Stop \notin Line /\ Stop.lv \notin {1, 2}
BY DEF Line, Stop, Levels, ToFile

LEMMA ToSetAppend ==
  ASSUME NEW S, NEW q \in Seq(S), NEW x \in S
  PROVE  ToSet(Append(q, x)) = ToSet(q) \cup {x}
<1> DEFINE r == Append(q, x)
<1>1. Len(q) \in Nat /\ DOMAIN q = 1..Len(q) /\ DOMAIN r = 1..(Len(q) + 1)
  OBVIOUS
<1>2. r[Len(q) + 1] = x /\ \A i \in 1..Len(q) : r[i] = q[i]
  OBVIOUS
<1> HIDE DEF r
<1>3. 1..(Len(q) + 1) = 1..Len(q) \cup {Len(q) + 1}
  BY <1>1
<1>4. ToSet(r) = {r[i] : i \in 1..Len(q) \cup {Len(q) + 1}}
  BY <1>1, <1>3 DEF ToSet
<1>5. ToSet(q) = {q[i] : i \in 1..Len(q)}
  BY <1>1 DEF ToSet
<1>6. ToSet(r) = ToSet(q) \cup {x}
  BY <1>2, <1>4, <1>5
<1> QED BY <1>6 DEF r

LEMMA AscendingConcat ==
  ASSUME NEW S, NEW a \in Seq(S), NEW b \in Seq(S),
         Ascending(a), Ascending(b), Later(ToSet(a), ToSet(b))
  PROVE  Ascending(a \o b)
<1> DEFINE q == a \o b
<1>1. /\ Len(a) \in Nat /\ Len(b) \in Nat /\ DOMAIN a = 1..Len(a)
      /\ DOMAIN b = 1..Len(b) /\ DOMAIN q = 1..(Len(a) + Len(b))
  <2>1. q \in Seq(S) /\ Len(q) = Len(a) + Len(b)
    OBVIOUS
  <2> HIDE DEF q
  <2> QED BY <2>1
<1>2. \A i \in 1..Len(a) : q[i] = a[i]
  OBVIOUS
<1>3. \A i \in DOMAIN q : i > Len(a) => i - Len(a) \in 1..Len(b) /\ q[i] = b[i - Len(a)]
  <2> TAKE i \in DOMAIN q
  <2> SUFFICES ASSUME i > Len(a) PROVE i - Len(a) \in 1..Len(b) /\ q[i] = b[i - Len(a)]
    OBVIOUS
  <2>1. i \in 1..(Len(a) + Len(b))
    BY <1>1
  <2> QED BY <2>1
<1> HIDE DEF q
<1>4. ASSUME NEW i \in DOMAIN q, NEW j \in DOMAIN q, i < j,
             q[i] # Stop, q[j] # Stop, q[i].from = q[j].from
      PROVE  q[i].n < q[j].n
  <2>1. i \in Nat /\ j \in Nat
    BY <1>1
  <2>2. CASE j <= Len(a)
    <3>1. i \in DOMAIN a /\ j \in DOMAIN a /\ q[i] = a[i] /\ q[j] = a[j]
      BY <1>1, <1>2, <1>4, <2>1, <2>2
    <3> QED BY <3>1, <1>4 DEF Ascending
  <2>3. CASE i <= Len(a) /\ j > Len(a)
    <3>1. i \in DOMAIN a /\ q[i] = a[i]
      BY <1>1, <1>2, <2>1, <2>3
    <3>2. j - Len(a) \in DOMAIN b /\ q[j] = b[j - Len(a)]
      BY <1>1, <1>3, <2>3
    <3>3. q[i] \in ToSet(a) /\ q[j] \in ToSet(b)
      BY <3>1, <3>2 DEF ToSet
    <3> QED BY <3>3, <1>4 DEF Later
  <2>4. CASE i > Len(a)
    <3>1. i - Len(a) \in DOMAIN b /\ q[i] = b[i - Len(a)]
      BY <1>1, <1>3, <2>4
    <3>2. j - Len(a) \in DOMAIN b /\ q[j] = b[j - Len(a)]
      BY <1>1, <1>3, <1>4, <2>1, <2>4
    <3>3. i - Len(a) < j - Len(a)
      BY <1>1, <1>4, <2>1
    <3> QED BY <3>1, <3>2, <3>3, <1>4 DEF Ascending
  <2> QED BY <1>1, <2>1, <2>2, <2>3, <2>4
<1>5. Ascending(q)
  BY <1>4 DEF Ascending
<1> QED BY <1>5 DEF q

LEMMA AscendingAppend ==
  ASSUME NEW S, NEW a \in Seq(S), NEW x \in S, Ascending(a), Later(ToSet(a), {x})
  PROVE  Ascending(Append(a, x))
<1>1. <<x>> \in Seq(S) /\ Append(a, x) = a \o <<x>>
  OBVIOUS
<1>2. Ascending(<<x>>)
  BY DEF Ascending
<1>3. ToSet(<<x>>) = {x}
  BY DEF ToSet
<1> QED BY <1>1, <1>2, <1>3, AscendingConcat

LEMMA AscendingTail ==
  ASSUME NEW S, NEW q \in Seq(S), q # <<>>, Ascending(q)
  PROVE  /\ ToSet(q) = {Head(q)} \cup ToSet(Tail(q))
         /\ Ascending(Tail(q)) /\ Later({Head(q)}, ToSet(Tail(q)))
<1> DEFINE t == Tail(q)
<1>1. Len(q) \in Nat \ {0} /\ DOMAIN q = 1..Len(q) /\ Head(q) = q[1]
  OBVIOUS
<1>2. DOMAIN t = 1..(Len(q) - 1)
  <2>1. t \in Seq(S) /\ Len(t) = Len(q) - 1
    OBVIOUS
  <2> HIDE DEF t
  <2> QED BY <2>1
<1>3. \A i \in DOMAIN t : i + 1 \in DOMAIN q /\ t[i] = q[i + 1]
  <2> TAKE i \in DOMAIN t
  <2>1. i \in 1..(Len(q) - 1)
    BY <1>2
  <2> QED BY <2>1, <1>1
<1> HIDE DEF t
<1>4. ToSet(q) = {q[1]} \cup ToSet(t)
  <2>1. ASSUME NEW i \in DOMAIN q PROVE q[i] \in {q[1]} \cup ToSet(t)
    <3>1. CASE i # 1
      <4>1. i - 1 \in DOMAIN t /\ (i - 1) + 1 = i
        BY <3>1, <1>1, <1>2
      <4>2. t[i - 1] = q[i]
        BY <4>1, <1>3
      <4> QED BY <4>1, <4>2 DEF ToSet
    <3> QED BY <3>1
  <2>2. ASSUME NEW i \in DOMAIN t PROVE t[i] \in ToSet(q)
    BY <1>3 DEF ToSet
  <2>3. q[1] \in ToSet(q)
    BY <1>1 DEF ToSet
  <2>4. ToSet(q) \subseteq {q[1]} \cup ToSet(t)
    BY <2>1 DEF ToSet
  <2>5. ToSet(t) \subseteq ToSet(q)
    BY <2>2 DEF ToSet
  <2> QED BY <2>3, <2>4, <2>5
<1>5. Ascending(t)
  <2> SUFFICES ASSUME NEW i \in DOMAIN t, NEW j \in DOMAIN t, i < j,
                      t[i] # Stop, t[j] # Stop, t[i].from = t[j].from
               PROVE  t[i].n < t[j].n
    BY DEF Ascending
  <2>1. i + 1 < j + 1
    BY <1>1, <1>2
  <2>2. i + 1 \in DOMAIN q /\ j + 1 \in DOMAIN q /\ t[i] = q[i + 1] /\ t[j] = q[j + 1]
    BY <1>3
  <2> QED BY <2>1, <2>2 DEF Ascending
<1>6. Later({q[1]}, ToSet(t))
  <2> SUFFICES ASSUME NEW m \in ToSet(t), q[1] # Stop, m # Stop, q[1].from = m.from
               PROVE  q[1].n < m.n
    BY DEF Later
  <2>1. PICK i \in DOMAIN t : m = t[i]
    BY DEF ToSet
  <2>2. m = q[i + 1] /\ i + 1 \in DOMAIN q /\ 1 < i + 1 /\ 1 \in DOMAIN q
    BY <2>1, <1>1, <1>2, <1>3
  <2> QED BY <2>2 DEF Ascending
<1> QED BY <1>1, <1>4, <1>5, <1>6 DEF t

LEMMA FlattenAscending ==
  ASSUME NEW S, NEW s \in Seq(Seq(S)),
         \A i \in 1..Len(s) : Ascending(s[i]),
         \A i, j \in 1..Len(s) : i < j => Later(ToSet(s[i]), ToSet(s[j]))
  PROVE  Ascending(FlattenSeq(s))
<1> DEFINE Good == {k \in Nat : k <= Len(s) => Ascending(FlattenSeq(UpTo(s, k)))}
<1>1. 0 \in Good
  <2>1. FlattenSeq(UpTo(s, 0)) = <<>>
    BY UpToFacts, FlattenEmpty
  <2>2. Ascending(<<>>)
    BY DEF Ascending
  <2> QED BY <2>1, <2>2
<1>2. ASSUME NEW k \in Nat, k \in Good PROVE k + 1 \in Good
  <2> SUFFICES ASSUME k + 1 <= Len(s) PROVE Ascending(FlattenSeq(UpTo(s, k + 1)))
    OBVIOUS
  <2> DEFINE u == UpTo(s, k)
             f == FlattenSeq(u)
  <2>1. s[k + 1] \in Seq(S) /\ k \in 0..Len(s) /\ k \in 0..(Len(s) - 1)
        /\ k + 1 \in 1..Len(s)
    OBVIOUS
  <2>2. u \in Seq(Seq(S)) /\ UpTo(s, k + 1) = Append(u, s[k + 1])
    BY <2>1, UpToFacts
  <2>3. Len(u) = k /\ \A i \in 1..k : u[i] = s[i]
    BY <2>1 DEF UpTo
  <2>4. Ascending(f)
    BY <1>2
  <2> HIDE DEF u
  <2>5. f \in Seq(S) /\ FlattenSeq(UpTo(s, k + 1)) = f \o s[k + 1]
    BY <2>1, <2>2, FlattenType, FlattenAppend
  <2>6. ToSet(f) = Parts(u, k)
    BY <2>2, <2>3, FlattenElements
  <2> HIDE DEF f
  <2>7. Later(ToSet(f), ToSet(s[k + 1]))
    <3>1. \A l \in ToSet(f) : \E i \in 1..k : l \in ToSet(s[i])
      BY <2>3, <2>6 DEF Parts
    <3>2. \A i \in 1..k : Later(ToSet(s[i]), ToSet(s[k + 1]))
      <4> TAKE i \in 1..k
      <4>1. i \in 1..Len(s) /\ i < k + 1
        BY <2>1
      <4> QED BY <4>1, <2>1
    <3> QED BY <3>1, <3>2 DEF Later
  <2> QED BY <2>1, <2>4, <2>5, <2>7, AscendingConcat
<1> HIDE DEF Good
<1>3. Nat \subseteq Good
  BY <1>1, <1>2, SetInduction
<1>4. Len(s) \in Good
  BY <1>3
<1>5. Ascending(FlattenSeq(UpTo(s, Len(s))))
  BY <1>4 DEF Good
<1>6. UpTo(s, Len(s)) = s
  BY UpToFacts
<1> QED BY <1>5, <1>6

OnDisk == UNION {ToSet(files[d]) : d \in Days}
InInbox == ToSet(logInbox)
AtWriter == {writer[w].line : w \in Writers}
Stamped == UNION {ToSet(stamped[p]) : p \in LogThreads}
Printed == ToSet(console)

LogType ==
  /\ day \in Days /\ logInbox \in Seq(Item) /\ console \in Seq(Line)
  /\ stamped \in [LogThreads -> Seq(Line)]
  /\ writer \in [Writers -> [at : {"idle", "check", "make", "write"},
                             last : 0..MaxDay, path : 0..MaxDay, line : Item]]
  /\ files \in [Days -> Seq(Line)] /\ times \in [Days -> Seq(Nat)]
  /\ \A d \in Days : Len(times[d]) = Len(files[d])
  /\ logged \in SUBSET Line /\ IsFiniteSet(logged) /\ failed \in SUBSET logged

\* Whose lines go where: a thread posts its own, one at a time, and none of
\* them is the owner's of an asLog.
OriginInv ==
  /\ \A p \in LogThreads :
       stamped[p] = <<>> \/ \E l \in Line : l.from = p /\ stamped[p] = <<l>>
  /\ \A l \in InInbox : l # Stop => l.from \in LogThreads
  /\ \A w \in Writers :
       IF writer[w].at = "idle" THEN writer[w].line = Stop
       ELSE LET l == writer[w].line
            IN  l \in Line /\ ToFile(l) /\ (l.from = Direct <=> w = "asLog")

\* The lines of a caller are numbered, without gaps.
NumberInv == \A l \in logged : l.n <= Cardinality(Lines(l.from))

\* Nothing is from tomorrow, and who is about to write has the file of a day
\* that is not before its line's and not after today.
DayInv ==
  /\ \A l \in logged : l.day <= day
  /\ \A w \in Writers : writer[w].path = writer[w].last /\ writer[w].path <= day
  /\ \A w \in Writers : writer[w].at = "write" =>
       writer[w].path \in Days /\ writer[w].line.day <= writer[w].path
  /\ \A d \in Days : \A i \in DOMAIN files[d] :
       IF files[d][i].from = Direct THEN d <= times[d][i] ELSE times[d][i] <= d

\* The line's logger, and how far its files reach.
LoggerOf(l) == IF l.from = Direct THEN "asLog" ELSE "asLogger"

FileInv ==
  /\ \A d \in Days : Ascending(files[d])
  /\ \A d, e \in Days : d < e => Later(ToSet(files[d]), ToSet(files[e]))
  /\ \A d \in Days : \A l \in ToSet(files[d]) : d <= writer[LoggerOf(l)].path

\* A line moves from its caller to the queue, to a logger and to its end, and
\* none overtakes an earlier one of its caller.
FlowInv ==
  /\ Later(OnDisk, AtWriter) /\ Later(OnDisk, InInbox) /\ Later(OnDisk, Stamped)
  /\ Later(failed, AtWriter) /\ Later(failed, InInbox) /\ Later(failed, Stamped)
  /\ Later(AtWriter, InInbox) /\ Later(AtWriter, Stamped)
  /\ Later(InInbox, Stamped) /\ Ascending(logInbox)
  /\ Later(Printed, InInbox) /\ Later(Printed, Stamped) /\ Ascending(console)

\* Every line is somewhere, and what has an end has one only.
AccountInv ==
  /\ OnDisk \cup AtWriter \cup InInbox \cup Stamped \cup Printed
       \subseteq logged \cup {Stop}
  /\ \A l \in OnDisk \cup failed : ToFile(l)
  /\ OnDisk \cap failed = {}
  /\ \A l \in logged : ToFile(l) =>
       l \in OnDisk \cup failed \cup AtWriter \cup InInbox \cup Stamped

LogInv == LogType /\ OriginInv /\ NumberInv /\ DayInv /\ FileInv /\ FlowInv /\ AccountInv

LEMMA LogInitially == LogInit => LogInv
<1> SUFFICES ASSUME LogInit PROVE LogInv
  OBVIOUS
<1> USE DEF LogInit
<1>1. LogType
  <2>1. 1 \in Days /\ Stop \in Item
    BY LogAssumption DEF Days, Item
  <2>2. IsFiniteSet({})
    BY FS_EmptySet
  <2>3. 0 \in 0..MaxDay
    BY LogAssumption
  <2>4. writer \in [Writers -> [at : {"idle", "check", "make", "write"},
                               last : 0..MaxDay, path : 0..MaxDay, line : Item]]
    BY <2>1, <2>3
  <2> QED BY <2>1, <2>2, <2>4 DEF LogType
<1>2. \A q : ToSet(<<>>) = {} /\ Ascending(<<>>)
  BY DEF ToSet, Ascending
<1>3. OnDisk = {} /\ InInbox = {} /\ Stamped = {} /\ Printed = {} /\ AtWriter \subseteq {Stop}
  BY <1>2 DEF OnDisk, InInbox, Stamped, Printed, AtWriter
<1>4. OriginInv
  BY <1>3 DEF OriginInv
<1>5. NumberInv /\ AccountInv
  BY <1>3 DEF NumberInv, AccountInv
<1>6. DayInv
  <2>1. 0 <= 1
    OBVIOUS
  <2> QED BY <1>2, <2>1 DEF DayInv
<1>7. FileInv
  BY <1>2 DEF FileInv, Later
<1>8. FlowInv
  BY <1>2, <1>3 DEF FlowInv, Later
<1> QED BY <1>1, <1>4, <1>5, <1>6, <1>7, <1>8 DEF LogInv

\* A line that is new ...
LEMMA NewLineIs ==
  ASSUME LogType, NEW who \in LogThreads \cup {Direct}, NEW lv \in Levels,
         NEW stamp \in Nat
  PROVE  LET l == NewLine(who, lv, stamp)
         IN  /\ l \in Line /\ l.from = who /\ l.lv = lv /\ l.day = stamp
             /\ l.n = Cardinality(Lines(l.from)) + 1
<1> DEFINE c == Cardinality(Lines(who))
<1>1. c \in Nat
  <2>1. Lines(who) \subseteq logged /\ IsFiniteSet(logged)
    BY DEF Lines, LogType
  <2> QED BY <2>1, FS_Subset, FS_CardinalityType
<1> HIDE DEF c
<1>2. NewLine(who, lv, stamp) = [from |-> who, n |-> c + 1, lv |-> lv, day |-> stamp]
  BY DEF NewLine, c
<1>3. [from |-> who, n |-> c + 1, lv |-> lv, day |-> stamp] \in Line
  BY <1>1 DEF Line
<1> QED BY <1>2, <1>3 DEF c

\* ... is the last one of its caller up to now.
LEMMA NewLineFacts ==
  ASSUME LogType, NumberInv, NEW x \in Line, x.n = Cardinality(Lines(x.from)) + 1,
         logged' = logged \cup {x}
  PROVE  Later(logged, {x}) /\ x \notin logged /\ IsFiniteSet(logged') /\ NumberInv'
<1> DEFINE who == x.from
           c == Cardinality(Lines(who))
<1>1. \A p : IsFiniteSet(Lines(p)) /\ Cardinality(Lines(p)) \in Nat
  <2> TAKE p
  <2>1. Lines(p) \subseteq logged /\ IsFiniteSet(logged)
    BY DEF Lines, LogType
  <2> QED BY <2>1, FS_Subset, FS_CardinalityType
<1>3. x.n = c + 1 /\ c \in Nat
  BY <1>1
<1>4. x \in Line /\ x.from = who
  OBVIOUS
<1> HIDE DEF who
<1>5. \A l \in logged : l.from = who => l.n < x.n
  <2> TAKE l \in logged
  <2>1. l.n \in Nat
    BY LineFacts DEF LogType
  <2> QED BY <2>1, <1>3 DEF NumberInv
<1>6. x \notin logged
  <2>1. ~(x.n < x.n)
    BY <1>3
  <2> QED BY <2>1, <1>4, <1>5
<1>7. Later(logged, {x})
  BY <1>4, <1>5 DEF Later
<1>8. IsFiniteSet(logged')
  BY FS_AddElement DEF LogType
<1>9. NumberInv'
  <2>1. logged' = logged \cup {x}
    OBVIOUS
  <2>2. Lines(who)' = Lines(who) \cup {x} /\ x \notin Lines(who)
    BY <2>1, <1>4, <1>6 DEF Lines
  <2>3. Cardinality(Lines(who)') = c + 1
    BY <2>2, <1>1, FS_AddElement
  <2>4. \A p : p # who => Lines(p)' = Lines(p)
    BY <2>1, <1>4 DEF Lines
  <2> SUFFICES ASSUME NEW l \in logged' PROVE l.n <= Cardinality(Lines(l.from)')
    BY DEF NumberInv
  <2>5. CASE l = x
    <3>1. c + 1 <= c + 1
      BY <1>3
    <3> QED BY <3>1, <2>3, <2>5, <1>3, <1>4
  <2>6. CASE l # x
    <3>1. l \in logged /\ l.n \in Nat
      BY <2>1, <2>6, LineFacts DEF LogType
    <3>2. l.n <= Cardinality(Lines(l.from))
      BY <3>1 DEF NumberInv
    <3>3. CASE l.from = who
      BY <3>1, <3>2, <3>3, <2>3, <1>3
    <3>4. CASE l.from # who
      BY <3>2, <3>4, <2>4
    <3> QED BY <3>3, <3>4
  <2> QED BY <2>5, <2>6
<1> QED BY <1>6, <1>7, <1>8, <1>9

\* What no step of the clock or of a logger's preparation disturbs.
LEMMA LinesStay ==
  ASSUME FlowInv, AccountInv, NumberInv,
         UNCHANGED <<stamped, logInbox, files, times, console, logged, failed>>,
         \A w \in Writers : writer'[w].line = writer[w].line
  PROVE  FlowInv' /\ AccountInv' /\ NumberInv'
<1>1. OnDisk' = OnDisk /\ InInbox' = InInbox /\ Stamped' = Stamped /\ Printed' = Printed
  BY DEF OnDisk, InInbox, Stamped, Printed
<1>2. AtWriter' = AtWriter
  BY DEF AtWriter
<1>3. FlowInv'
  BY <1>1, <1>2 DEF FlowInv
<1>4. AccountInv'
  BY <1>1, <1>2 DEF AccountInv
<1>5. NumberInv'
  BY DEF NumberInv, Lines
<1> QED BY <1>3, <1>4, <1>5

\* The clock, and steps that change no line and no logger.
LEMMA TickKeeps ==
  ASSUME LogInv, UNCHANGED <<stamped, logInbox, writer, files, times, console, logged, failed>>,
         day' \in Days, day <= day'
  PROVE  LogInv'
<1> USE DEF LogInv
<1>1. LogType'
  BY DEF LogType
<1>2. OriginInv'
  BY DEF OriginInv, InInbox
<1>3. DayInv'
  <2>1. day \in Nat /\ day' \in Nat
    BY LogAssumption DEF LogType, Days
  <2>2. \A l \in logged : l.day \in Nat
    BY LineFacts DEF LogType
  <2>3. \A w \in Writers : writer[w].path \in Nat
    BY LogAssumption DEF LogType
  <2> QED BY <2>1, <2>2, <2>3 DEF DayInv
<1>4. FileInv'
  BY DEF FileInv
<1>5. FlowInv' /\ AccountInv' /\ NumberInv'
  BY LinesStay
<1> QED BY <1>1, <1>2, <1>3, <1>4, <1>5

LEMMA CheckMakeFileKeeps ==
  ASSUME LogInv, NEW w \in Writers, CheckMakeFile(w) PROVE LogInv'
<1> USE DEF LogInv
<1> DEFINE to == IF writer[w].last # day THEN "make" ELSE "write"
<1>1. /\ UNCHANGED <<day, stamped, logInbox, files, times, console, logged, failed>>
      /\ writer[w].at = "check"
  BY DEF CheckMakeFile
<1>2. /\ writer' \in [Writers -> [at : {"idle", "check", "make", "write"},
                                 last : 0..MaxDay, path : 0..MaxDay, line : Item]]
      /\ writer'[w].at = to /\ writer'[w].line = writer[w].line
      /\ writer'[w].last = writer[w].last /\ writer'[w].path = writer[w].path
      /\ \A v \in Writers \ {w} : writer'[v] = writer[v]
  BY DEF CheckMakeFile, LogType
<1>3. to \in {"make", "write"} /\ (to = "write" => writer[w].last = day)
  OBVIOUS
<1> HIDE DEF to
<1>4. LogType'
  BY <1>1, <1>2 DEF LogType
<1>5. OriginInv'
  <2>1. \A v \in Writers :
          IF writer'[v].at = "idle" THEN writer'[v].line = Stop
          ELSE LET l == writer'[v].line
               IN  l \in Line /\ ToFile(l) /\ (l.from = Direct <=> v = "asLog")
    BY <1>1, <1>2, <1>3 DEF OriginInv
  <2> QED BY <2>1, <1>1 DEF OriginInv, InInbox
<1>6. DayInv'
  <2>1. to = "write" => writer[w].path \in Days /\ writer[w].line.day <= writer[w].path
    <3>1. writer[w].line \in logged
      <4>1. writer[w].line \in AtWriter /\ writer[w].line \in Line
        BY <1>1 DEF AtWriter, OriginInv
      <4> QED BY <4>1, LineFacts DEF AccountInv
    <3> QED BY <3>1, <1>3 DEF DayInv, LogType
  <2>2. \A v \in Writers : writer'[v].at = "write" =>
          writer'[v].path \in Days /\ writer'[v].line.day <= writer'[v].path
    BY <2>1, <1>2 DEF DayInv
  <2>3. \A v \in Writers : writer'[v].path = writer'[v].last /\ writer'[v].path <= day
    BY <1>2 DEF DayInv
  <2> QED BY <2>2, <2>3, <1>1 DEF DayInv
<1>7. \A v \in Writers : writer'[v].path = writer[v].path /\ writer'[v].line = writer[v].line
  BY <1>2
<1>8. FileInv'
  <2>1. \A l : LoggerOf(l) \in Writers
    BY DEF LoggerOf, Writers
  <2> QED BY <2>1, <1>1, <1>7 DEF FileInv, LoggerOf
<1>9. FlowInv' /\ AccountInv' /\ NumberInv'
  BY <1>1, <1>7, LinesStay
<1> QED BY <1>4, <1>5, <1>6, <1>8, <1>9

LEMMA MakeFileKeeps ==
  ASSUME LogInv, NEW w \in Writers, MakeFile(w) PROVE LogInv'
<1> USE DEF LogInv
<1>1. /\ UNCHANGED <<day, stamped, logInbox, files, times, console, logged, failed>>
      /\ writer[w].at = "make"
  BY DEF MakeFile
<1>0. day \in Days /\ day \in 0..MaxDay
  BY LogAssumption DEF LogType, Days
<1>2. /\ writer' \in [Writers -> [at : {"idle", "check", "make", "write"},
                                 last : 0..MaxDay, path : 0..MaxDay, line : Item]]
      /\ writer'[w].at = "write" /\ writer'[w].line = writer[w].line
      /\ writer'[w].last = day /\ writer'[w].path = day
      /\ \A v \in Writers \ {w} : writer'[v] = writer[v]
  BY <1>0 DEF MakeFile, LogType
<1>3. LogType'
  BY <1>1, <1>2 DEF LogType
<1>4. OriginInv'
  <2>1. \A v \in Writers :
          IF writer'[v].at = "idle" THEN writer'[v].line = Stop
          ELSE LET l == writer'[v].line
               IN  l \in Line /\ ToFile(l) /\ (l.from = Direct <=> v = "asLog")
    BY <1>1, <1>2 DEF OriginInv
  <2> QED BY <2>1, <1>1 DEF OriginInv, InInbox
<1>5. DayInv'
  <2>1. writer[w].line.day <= day
    <3>1. writer[w].line \in logged
      <4>1. writer[w].line \in AtWriter /\ writer[w].line \in Line
        BY <1>1 DEF AtWriter, OriginInv
      <4> QED BY <4>1, LineFacts DEF AccountInv
    <3> QED BY <3>1 DEF DayInv
  <2>2. \A v \in Writers : writer'[v].at = "write" =>
          writer'[v].path \in Days /\ writer'[v].line.day <= writer'[v].path
    BY <2>1, <1>0, <1>2 DEF DayInv
  <2>3. \A v \in Writers : writer'[v].path = writer'[v].last /\ writer'[v].path <= day
    <3>1. day <= day
      BY <1>0
    <3> QED BY <3>1, <1>2 DEF DayInv
  <2> QED BY <2>2, <2>3, <1>1 DEF DayInv
<1>6. FileInv'
  <2>1. \A l : LoggerOf(l) \in Writers
    BY DEF LoggerOf, Writers
  <2>2. \A v \in Writers : writer[v].path <= writer'[v].path /\ writer[v].path \in Nat
                           /\ writer'[v].path \in Nat
    <3>1. \A v \in Writers : writer[v].path \in Nat /\ writer'[v].path \in Nat
      BY <1>2, LogAssumption DEF LogType
    <3> QED BY <3>1, <1>2 DEF DayInv
  <2>3. \A d \in Days : \A l \in ToSet(files[d]) : d <= writer'[LoggerOf(l)].path
    <3> TAKE d \in Days
    <3> TAKE l \in ToSet(files[d])
    <3>1. d <= writer[LoggerOf(l)].path /\ d \in Nat
      BY DEF FileInv, Days
    <3> QED BY <3>1, <2>1, <2>2
  <2> QED BY <2>3, <1>1 DEF FileInv, LoggerOf
<1>7. \A v \in Writers : writer'[v].line = writer[v].line
  BY <1>2
<1>8. FlowInv' /\ AccountInv' /\ NumberInv'
  BY <1>1, <1>7, LinesStay
<1> QED BY <1>3, <1>4, <1>5, <1>6, <1>8

\* Sets of lines, apart from what a step does to them.
LEMMA LaterParts ==
  /\ \A A, B, C : Later(A \cup B, C) <=> Later(A, C) /\ Later(B, C)
  /\ \A A, B, C : Later(A, B \cup C) <=> Later(A, B) /\ Later(A, C)
  /\ \A A, B, C : Later(A, B) /\ C \subseteq A => Later(C, B)
  /\ \A A, B, C : Later(A, B) /\ C \subseteq B => Later(A, C)
  /\ \A A : Later(A, {Stop}) /\ Later({Stop}, A)
BY DEF Later

LEMMA FormatStringKeeps ==
  ASSUME LogInv, NEW p \in LogThreads, NEW lv \in Levels, FormatString(p, lv)
  PROVE  LogInv'
<1> USE DEF LogInv
<1> DEFINE x == NewLine(p, lv, day)
<1>1. /\ UNCHANGED <<day, logInbox, writer, files, times, console, failed>>
      /\ stamped[p] = <<>> /\ logged' = logged \cup {x}
      /\ stamped' = [stamped EXCEPT ![p] = <<x>>]
  BY DEF FormatString
<1>2. /\ x \in Line /\ x.from = p /\ x.day = day /\ Later(logged, {x}) /\ x \notin logged
      /\ IsFiniteSet(logged') /\ NumberInv'
  <2>1. day \in Nat /\ p \in LogThreads \cup {Direct}
    BY DEF LogType, Days
  <2>2. x \in Line /\ x.from = p /\ x.day = day /\ x.n = Cardinality(Lines(x.from)) + 1
    BY <2>1, NewLineIs
  <2> HIDE DEF x
  <2>3. LogType /\ NumberInv /\ logged' = logged \cup {x}
    BY <1>1
  <2> QED BY ONLY <2>2, <2>3, NewLineFacts
<1> HIDE DEF x
<1>3. /\ stamped' \in [LogThreads -> Seq(Line)] /\ stamped'[p] = <<x>>
      /\ \A q \in LogThreads \ {p} : stamped'[q] = stamped[q]
  <2>1. <<x>> \in Seq(Line)
    BY <1>2
  <2> QED BY <2>1, <1>1 DEF LogType
<1>4. /\ OnDisk' = OnDisk /\ InInbox' = InInbox /\ Printed' = Printed
      /\ AtWriter' = AtWriter /\ Stamped' = Stamped \cup {x}
  <2>1. ToSet(<<>>) = {} /\ ToSet(<<x>>) = {x}
    BY DEF ToSet
  <2>2. Stamped' = Stamped \cup {x}
    BY <2>1, <1>1, <1>3 DEF Stamped
  <2> QED BY <2>2, <1>1 DEF OnDisk, InInbox, Printed, AtWriter
<1>5. LogType'
  BY <1>1, <1>2, <1>3 DEF LogType
<1>6. OriginInv'
  <2>1. \A q \in LogThreads :
          stamped'[q] = <<>> \/ \E l \in Line : l.from = q /\ stamped'[q] = <<l>>
    BY <1>2, <1>3 DEF OriginInv
  <2> QED BY <2>1, <1>1, <1>4 DEF OriginInv
<1>7. DayInv'
  <2>1. x.day <= day
    BY <1>2, LineFacts
  <2> QED BY <2>1, <1>1 DEF DayInv
<1>8. FileInv'
  BY <1>1 DEF FileInv
<1>9. FlowInv'
  <2>1. Later(logged \cup {Stop}, {x})
    BY <1>2, LaterParts
  <2>2. Later(OnDisk, {x}) /\ Later(failed, {x}) /\ Later(AtWriter, {x})
        /\ Later(InInbox, {x}) /\ Later(Printed, {x})
    <3>1. failed \subseteq logged
      BY DEF LogType
    <3>2. /\ OnDisk \subseteq logged \cup {Stop} /\ AtWriter \subseteq logged \cup {Stop}
          /\ InInbox \subseteq logged \cup {Stop} /\ Printed \subseteq logged \cup {Stop}
      BY DEF AccountInv
    <3> QED BY <3>1, <3>2, <2>1 DEF Later
  <2> QED BY <2>2, <1>1, <1>4, LaterParts DEF FlowInv
<1>10. AccountInv'
  BY <1>1, <1>4 DEF AccountInv
<1> QED BY <1>2, <1>5, <1>6, <1>7, <1>8, <1>9, <1>10

LEMMA PostLineKeeps ==
  ASSUME LogInv, NEW p \in LogThreads, PostLine(p) PROVE LogInv'
<1> USE DEF LogInv
<1>1. /\ UNCHANGED <<day, writer, files, times, console, logged, failed>>
      /\ stamped[p] # <<>> /\ logInbox' = logInbox \o stamped[p]
      /\ stamped' = [stamped EXCEPT ![p] = <<>>]
  BY DEF PostLine
<1>2. PICK x \in Line : x.from = p /\ stamped[p] = <<x>>
  BY <1>1 DEF OriginInv
<1>3. /\ stamped' \in [LogThreads -> Seq(Line)] /\ stamped'[p] = <<>>
      /\ \A q \in LogThreads \ {p} : stamped'[q] = stamped[q]
  <2>1. <<>> \in Seq(Line)
    OBVIOUS
  <2> QED BY <2>1, <1>1 DEF LogType
<1>4. ToSet(<<>>) = {} /\ ToSet(<<x>>) = {x}
  BY DEF ToSet
<1>5. logInbox' = Append(logInbox, x) /\ logInbox \in Seq(Item) /\ x \in Item
  <2>1. logInbox \in Seq(Item) /\ x \in Item
    BY DEF LogType, Item
  <2>2. logInbox \o <<x>> = Append(logInbox, x)
    BY <2>1
  <2> QED BY <2>1, <2>2, <1>1, <1>2
<1>6. x \in Stamped
  BY <1>2, <1>4 DEF Stamped
<1>7. Stamped' \subseteq Stamped /\ Stamped \subseteq Stamped' \cup {x}
  <2>1. \A q \in LogThreads : ToSet(stamped'[q]) \subseteq ToSet(stamped[q])
    BY <1>3, <1>4
  <2>2. \A q \in LogThreads : ToSet(stamped[q]) \subseteq ToSet(stamped'[q]) \cup {x}
    BY <1>2, <1>3, <1>4
  <2> QED BY <2>1, <2>2 DEF Stamped
<1>8. \A l \in Stamped' : l.from # p
  <2> SUFFICES ASSUME NEW q \in LogThreads, NEW l \in ToSet(stamped'[q]) PROVE l.from # p
    BY DEF Stamped
  <2>1. q # p /\ stamped'[q] = stamped[q]
    BY <1>3, <1>4
  <2>2. stamped[q] # <<>>
    BY <2>1, <1>4
  <2>3. PICK m \in Line : m.from = q /\ stamped[q] = <<m>>
    BY <2>2 DEF OriginInv
  <2>4. l = m
    BY <2>1, <2>3 DEF ToSet
  <2> QED BY <2>1, <2>3, <2>4
<1>9. /\ OnDisk' = OnDisk /\ Printed' = Printed /\ AtWriter' = AtWriter
      /\ InInbox' = InInbox \cup {x}
  <2>1. ToSet(logInbox') = ToSet(logInbox) \cup {x}
    BY <1>5, ToSetAppend
  <2> QED BY <2>1, <1>1 DEF OnDisk, Printed, AtWriter, InInbox
<1>10. LogType'
  <2>1. logInbox' \in Seq(Item)
    BY <1>5
  <2> QED BY <2>1, <1>1, <1>3 DEF LogType
<1>11. OriginInv'
  <2>1. \A q \in LogThreads :
          stamped'[q] = <<>> \/ \E l \in Line : l.from = q /\ stamped'[q] = <<l>>
    BY <1>3 DEF OriginInv
  <2>2. \A l \in InInbox' : l # Stop => l.from \in LogThreads
    BY <1>2, <1>9 DEF OriginInv
  <2> QED BY <2>1, <2>2, <1>1 DEF OriginInv
<1>12. DayInv' /\ FileInv' /\ NumberInv'
  BY <1>1 DEF DayInv, FileInv, NumberInv, Lines
<1>13. FlowInv'
  <2>1. Later({x}, Stamped')
    BY <1>2, <1>8 DEF Later
  <2>2. /\ Later(OnDisk, {x}) /\ Later(failed, {x}) /\ Later(AtWriter, {x})
        /\ Later(InInbox, {x}) /\ Later(Printed, {x})
    BY <1>6 DEF FlowInv, Later
  <2>3. Ascending(logInbox')
    BY <2>2, <1>5, AscendingAppend DEF FlowInv, InInbox
  <2>4. /\ Later(OnDisk, Stamped') /\ Later(failed, Stamped') /\ Later(AtWriter, Stamped')
        /\ Later(InInbox, Stamped') /\ Later(Printed, Stamped')
    BY <1>7, LaterParts DEF FlowInv
  <2> QED BY <2>1, <2>2, <2>3, <2>4, <1>1, <1>9, LaterParts DEF FlowInv
<1>14. AccountInv'
  BY <1>1, <1>6, <1>7, <1>9 DEF AccountInv
<1> QED BY <1>10, <1>11, <1>12, <1>13, <1>14

LEMMA ExitLoggerKeeps ==
  ASSUME LogInv, ExitLogger PROVE LogInv'
<1> USE DEF LogInv
<1>1. /\ UNCHANGED <<day, stamped, writer, files, times, console, logged, failed>>
      /\ logInbox' = Append(logInbox, Stop)
  BY DEF ExitLogger
<1>2. logInbox \in Seq(Item) /\ Stop \in Item
  BY DEF LogType, Item
<1>3. /\ OnDisk' = OnDisk /\ Printed' = Printed /\ AtWriter' = AtWriter
      /\ Stamped' = Stamped /\ InInbox' = InInbox \cup {Stop}
  <2>1. ToSet(logInbox') = ToSet(logInbox) \cup {Stop}
    BY <1>1, <1>2, ToSetAppend
  <2> QED BY <2>1, <1>1 DEF OnDisk, Printed, AtWriter, Stamped, InInbox
<1>4. LogType'
  <2>1. logInbox' \in Seq(Item)
    BY <1>1, <1>2
  <2> QED BY <2>1, <1>1 DEF LogType
<1>5. OriginInv'
  BY <1>1, <1>3 DEF OriginInv
<1>6. DayInv' /\ FileInv' /\ NumberInv'
  BY <1>1 DEF DayInv, FileInv, NumberInv, Lines
<1>7. FlowInv'
  <2>1. Ascending(logInbox')
    BY <1>1, <1>2, LaterParts, AscendingAppend DEF FlowInv
  <2> QED BY <2>1, <1>1, <1>3, LaterParts DEF FlowInv
<1>8. AccountInv'
  BY <1>1, <1>3 DEF AccountInv
<1> QED BY <1>4, <1>5, <1>6, <1>7, <1>8

\* A logger takes a line: it had none before.
LEMMA TakesLine ==
  ASSUME LogType, OriginInv, NEW w \in Writers, writer[w].at = "idle", NEW x \in Line,
         writer' = [writer EXCEPT ![w].at = "check", ![w].line = x]
  PROVE  /\ writer' \in [Writers -> [at : {"idle", "check", "make", "write"},
                                     last : 0..MaxDay, path : 0..MaxDay, line : Item]]
         /\ writer'[w].at = "check" /\ writer'[w].line = x
         /\ writer'[w].last = writer[w].last /\ writer'[w].path = writer[w].path
         /\ \A v \in Writers \ {w} : writer'[v] = writer[v]
         /\ AtWriter' \subseteq AtWriter \cup {x} /\ AtWriter \subseteq AtWriter' \cup {Stop}
         /\ x \in AtWriter'
<1>1. x \in Item
  BY DEF Item
<1>2. /\ writer' \in [Writers -> [at : {"idle", "check", "make", "write"},
                                  last : 0..MaxDay, path : 0..MaxDay, line : Item]]
      /\ writer'[w].at = "check" /\ writer'[w].line = x
      /\ writer'[w].last = writer[w].last /\ writer'[w].path = writer[w].path
      /\ \A v \in Writers \ {w} : writer'[v] = writer[v]
  BY <1>1 DEF LogType
<1>3. writer[w].line = Stop
  BY DEF OriginInv
<1>4. /\ AtWriter' \subseteq AtWriter \cup {x} /\ AtWriter \subseteq AtWriter' \cup {Stop}
      /\ x \in AtWriter'
  BY <1>2, <1>3 DEF AtWriter
<1> QED BY <1>2, <1>4

LEMMA LogExKeeps ==
  ASSUME LogInv, LogEx PROVE LogInv'
<1> USE DEF LogInv
<1> DEFINE x == NewLine(Direct, 3, 0)
<1>1. /\ UNCHANGED <<day, stamped, logInbox, files, times, console, failed>>
      /\ writer["asLog"].at = "idle" /\ logged' = logged \cup {x}
      /\ writer' = [writer EXCEPT !["asLog"].at = "check", !["asLog"].line = x]
  BY DEF LogEx
<1>2. /\ x \in Line /\ x.from = Direct /\ x.lv = 3 /\ x.day = 0
      /\ Later(logged, {x}) /\ x \notin logged /\ IsFiniteSet(logged') /\ NumberInv'
  <2>1. 3 \in Levels /\ 0 \in Nat /\ Direct \in LogThreads \cup {Direct}
    BY DEF Levels
  <2>2. /\ x \in Line /\ x.from = Direct /\ x.lv = 3 /\ x.day = 0
        /\ x.n = Cardinality(Lines(x.from)) + 1
    BY <2>1, NewLineIs
  <2> HIDE DEF x
  <2>3. LogType /\ NumberInv /\ logged' = logged \cup {x}
    BY <1>1
  <2> QED BY ONLY <2>2, <2>3, NewLineFacts
<1> HIDE DEF x
<1>3. "asLog" \in Writers
  BY DEF Writers
<1>4. /\ writer' \in [Writers -> [at : {"idle", "check", "make", "write"},
                                  last : 0..MaxDay, path : 0..MaxDay, line : Item]]
      /\ writer'["asLog"].at = "check" /\ writer'["asLog"].line = x
      /\ writer'["asLog"].last = writer["asLog"].last
      /\ writer'["asLog"].path = writer["asLog"].path
      /\ \A v \in Writers \ {"asLog"} : writer'[v] = writer[v]
      /\ AtWriter' \subseteq AtWriter \cup {x} /\ AtWriter \subseteq AtWriter' \cup {Stop}
      /\ x \in AtWriter'
  BY <1>1, <1>2, <1>3, TakesLine
<1>5. OnDisk' = OnDisk /\ InInbox' = InInbox /\ Printed' = Printed /\ Stamped' = Stamped
  BY <1>1 DEF OnDisk, InInbox, Printed, Stamped
<1>6. LogType'
  BY <1>1, <1>2, <1>4 DEF LogType
<1>7. OriginInv'
  <2>1. ToFile(x)
    BY <1>2 DEF ToFile
  <2>2. \A v \in Writers :
          IF writer'[v].at = "idle" THEN writer'[v].line = Stop
          ELSE LET l == writer'[v].line
               IN  l \in Line /\ ToFile(l) /\ (l.from = Direct <=> v = "asLog")
    BY <2>1, <1>2, <1>4 DEF OriginInv
  <2> QED BY <2>2, <1>1, <1>5 DEF OriginInv
<1>8. DayInv'
  <2>1. x.day <= day
    BY <1>2 DEF LogType, Days
  <2>2. \A v \in Writers : /\ writer'[v].path = writer'[v].last /\ writer'[v].path <= day
                           /\ writer'[v].at = "write" =>
                                writer'[v].path \in Days
                                  /\ writer'[v].line.day <= writer'[v].path
    BY <1>4 DEF DayInv
  <2> QED BY <2>1, <2>2, <1>1 DEF DayInv
<1>9. FileInv'
  <2>1. \A v \in Writers : writer'[v].path = writer[v].path
    BY <1>4
  <2>2. \A l : LoggerOf(l) \in Writers
    BY DEF LoggerOf, Writers
  <2> QED BY <2>1, <2>2, <1>1 DEF FileInv, LoggerOf
<1>10. FlowInv'
  <2>1. Later(OnDisk, {x}) /\ Later(failed, {x})
    BY <1>2 DEF Later, AccountInv, LogType
  <2>2. Later({x}, InInbox)
    BY <1>2, LogAssumption DEF Later, OriginInv
  <2>3. Later({x}, Stamped)
    <3> SUFFICES ASSUME NEW p \in LogThreads, NEW l \in ToSet(stamped[p]) PROVE l.from # Direct
      BY <1>2 DEF Later, Stamped
    <3>1. stamped[p] # <<>>
      BY DEF ToSet
    <3>2. PICK m \in Line : m.from = p /\ stamped[p] = <<m>>
      BY <3>1 DEF OriginInv
    <3>3. l = m
      BY <3>2 DEF ToSet
    <3> QED BY <3>2, <3>3, LogAssumption
  <2>4. Later(OnDisk, AtWriter \cup {x}) /\ Later(failed, AtWriter \cup {x})
        /\ Later(AtWriter \cup {x}, InInbox) /\ Later(AtWriter \cup {x}, Stamped)
    BY <2>1, <2>2, <2>3, LaterParts DEF FlowInv
  <2>5. Later(OnDisk, AtWriter') /\ Later(failed, AtWriter')
        /\ Later(AtWriter', InInbox) /\ Later(AtWriter', Stamped)
    BY <2>4, <1>4, LaterParts
  <2> QED BY <2>5, <1>1, <1>5 DEF FlowInv
<1>11. AccountInv'
  <2>1. ~ToFile(Stop)
    BY LineFacts
  <2> QED BY <2>1, <1>1, <1>4, <1>5 DEF AccountInv
<1> QED BY <1>2, <1>6, <1>7, <1>8, <1>9, <1>10, <1>11

LEMMA HandleMessageKeeps ==
  ASSUME LogInv, HandleMessage PROVE LogInv'
<1> USE DEF LogInv
<1> DEFINE x == Head(logInbox)
<1>1. /\ UNCHANGED <<day, stamped, files, times, logged, failed>>
      /\ writer["asLogger"].at = "idle" /\ logInbox # <<>> /\ logInbox' = Tail(logInbox)
      /\ console' = IF x.lv \in {1, 2} THEN Append(console, x) ELSE console
      /\ writer' = IF ToFile(x)
                   THEN [writer EXCEPT !["asLogger"].at = "check",
                                       !["asLogger"].line = x]
                   ELSE writer
  BY DEF HandleMessage
<1>2. /\ logInbox \in Seq(Item) /\ x \in Item /\ logInbox' \in Seq(Item)
  BY <1>1 DEF LogType
<1> HIDE DEF x
<1>3. /\ InInbox = {x} \cup InInbox' /\ Ascending(logInbox') /\ Later({x}, InInbox')
  <2>1. Ascending(logInbox)
    BY DEF FlowInv
  <2> QED BY <2>1, <1>1, <1>2, AscendingTail DEF InInbox, x
<1>4. "asLogger" \in Writers /\ "asLogger" # "asLog"
  BY DEF Writers
\* What goes to the console or to a file is a line.
<1>5. /\ x.lv \in {1, 2} => x \in Line
      /\ ToFile(x) => x \in Line
  BY <1>2, LineFacts DEF Item
<1>6. x \in Line => x \in logged /\ x.from \in LogThreads /\ x # Stop
  BY <1>3, LineFacts DEF AccountInv, OriginInv
<1>7. OnDisk' = OnDisk /\ Stamped' = Stamped
  BY <1>1 DEF OnDisk, Stamped
<1>8. /\ console' \in Seq(Line) /\ Ascending(console')
      /\ Printed' \subseteq Printed \cup ({x} \ {Stop})
  <2>1. console \in Seq(Line) /\ Ascending(console)
    BY DEF LogType, FlowInv
  <2>2. CASE x.lv \in {1, 2}
    <3>1. x \in Line /\ console' = Append(console, x) /\ x # Stop
      BY <2>2, <1>1, <1>5, <1>6
    <3>2. Later(Printed, {x})
      BY <1>3, LaterParts DEF FlowInv
    <3>3. Ascending(console')
      BY <2>1, <3>1, <3>2, AscendingAppend DEF Printed
    <3>4. Printed' = Printed \cup {x}
      BY <2>1, <3>1, ToSetAppend DEF Printed
    <3>5. console' \in Seq(Line)
      BY <2>1, <3>1
    <3> QED BY <3>1, <3>3, <3>4, <3>5
  <2>3. CASE x.lv \notin {1, 2}
    BY <2>1, <2>3, <1>1 DEF Printed
  <2> QED BY <2>2, <2>3
<1>9. /\ writer' \in [Writers -> [at : {"idle", "check", "make", "write"},
                                  last : 0..MaxDay, path : 0..MaxDay, line : Item]]
      /\ \A v \in Writers :
           \/ writer'[v] = writer[v]
           \/ /\ v = "asLogger" /\ ToFile(x) /\ writer'[v].at = "check"
              /\ writer'[v].line = x /\ writer'[v].path = writer[v].path
              /\ writer'[v].last = writer[v].last
      /\ AtWriter' \subseteq AtWriter \cup {x} /\ AtWriter \subseteq AtWriter' \cup {Stop}
      /\ ToFile(x) => x \in AtWriter'
  <2>1. CASE ToFile(x)
    <3>1. writer' = [writer EXCEPT !["asLogger"].at = "check", !["asLogger"].line = x]
      BY <2>1, <1>1
    <3>2. /\ writer' \in [Writers -> [at : {"idle", "check", "make", "write"},
                                     last : 0..MaxDay, path : 0..MaxDay, line : Item]]
          /\ writer'["asLogger"].at = "check" /\ writer'["asLogger"].line = x
          /\ writer'["asLogger"].last = writer["asLogger"].last
          /\ writer'["asLogger"].path = writer["asLogger"].path
          /\ \A v \in Writers \ {"asLogger"} : writer'[v] = writer[v]
          /\ AtWriter' \subseteq AtWriter \cup {x} /\ AtWriter \subseteq AtWriter' \cup {Stop}
          /\ x \in AtWriter'
      <4>1. /\ LogType /\ OriginInv /\ "asLogger" \in Writers
            /\ writer["asLogger"].at = "idle" /\ x \in Line
        BY <2>1, <1>1, <1>4, <1>5
      <4> QED BY ONLY <3>1, <4>1, TakesLine, ZenonT(60)
    <3> QED BY ONLY <3>2, <2>1, SMTT(30)
  <2>2. CASE ~ToFile(x)
    <3>1. writer' = writer
      BY <2>2, <1>1
    <3> QED BY <2>2, <3>1 DEF AtWriter, LogType
  <2> QED BY <2>1, <2>2
<1>10. LogType'
  BY <1>1, <1>2, <1>8, <1>9 DEF LogType
<1>11. OriginInv'
  <2>1. \A v \in Writers :
          IF writer'[v].at = "idle" THEN writer'[v].line = Stop
          ELSE LET l == writer'[v].line
               IN  l \in Line /\ ToFile(l) /\ (l.from = Direct <=> v = "asLog")
    <3>1. ToFile(x) => x.from # Direct
      BY <1>5, <1>6, LogAssumption
    <3> QED BY <3>1, <1>4, <1>5, <1>9 DEF OriginInv
  <2>2. \A l \in InInbox' : l # Stop => l.from \in LogThreads
    BY <1>3 DEF OriginInv
  <2> QED BY <2>1, <2>2, <1>1 DEF OriginInv
<1>12. DayInv'
  <2>1. \A v \in Writers : /\ writer'[v].path = writer'[v].last /\ writer'[v].path <= day
                           /\ writer'[v].at = "write" =>
                                writer'[v].path \in Days
                                  /\ writer'[v].line.day <= writer'[v].path
    BY <1>9 DEF DayInv
  <2> QED BY <2>1, <1>1 DEF DayInv
<1>13. FileInv'
  <2>1. \A v \in Writers : writer'[v].path = writer[v].path
    BY <1>9
  <2>2. \A l : LoggerOf(l) \in Writers
    BY DEF LoggerOf, Writers
  <2> QED BY <2>1, <2>2, <1>1 DEF FileInv, LoggerOf
<1>14. FlowInv'
  <2>1. /\ Later(OnDisk, {x}) /\ Later(failed, {x}) /\ Later(Printed, {x})
        /\ Later({x}, Stamped)
    BY <1>3, LaterParts DEF FlowInv
  <2>2. /\ Later(OnDisk, InInbox') /\ Later(failed, InInbox') /\ Later(AtWriter, InInbox')
        /\ Later(InInbox', Stamped) /\ Later(Printed, InInbox')
    BY <1>3, LaterParts DEF FlowInv
  <2>3. /\ Later(OnDisk, AtWriter \cup {x}) /\ Later(failed, AtWriter \cup {x})
        /\ Later(AtWriter \cup {x}, InInbox') /\ Later(AtWriter \cup {x}, Stamped)
    BY <2>1, <2>2, <1>3, LaterParts DEF FlowInv
  <2>4. /\ Later(OnDisk, AtWriter') /\ Later(failed, AtWriter')
        /\ Later(AtWriter', InInbox') /\ Later(AtWriter', Stamped)
    BY <2>3, <1>9, LaterParts
  <2>5. Later(Printed \cup {x}, InInbox') /\ Later(Printed \cup {x}, Stamped)
    BY <2>1, <2>2, <1>3, LaterParts DEF FlowInv
  <2>6. Later(Printed', InInbox') /\ Later(Printed', Stamped)
    <3>1. Printed' \subseteq Printed \cup {x}
      BY <1>8
    <3> QED BY <3>1, <2>5, LaterParts
  <2> QED BY <2>2, <2>4, <2>6, <1>1, <1>3, <1>7, <1>8 DEF FlowInv
<1>15. AccountInv'
  <2>1. x \in logged \cup {Stop}
    BY <1>3 DEF AccountInv
  <2>2. OnDisk' \cup AtWriter' \cup InInbox' \cup Stamped' \cup Printed'
          \subseteq logged \cup {Stop}
    BY <2>1, <1>3, <1>7, <1>8, <1>9 DEF AccountInv
  <2>3. ~ToFile(Stop)
    BY LineFacts
  <2>4. \A l \in logged : ToFile(l) =>
          l \in OnDisk' \cup failed \cup AtWriter' \cup InInbox' \cup Stamped'
    BY <2>3, <1>3, <1>7, <1>9 DEF AccountInv
  <2> QED BY <2>2, <2>4, <1>1, <1>7 DEF AccountInv
<1>16. NumberInv'
  BY <1>1 DEF NumberInv, Lines
<1> QED BY <1>10, <1>11, <1>12, <1>13, <1>14, <1>15, <1>16

LEMMA WriteStringKeeps ==
  ASSUME LogInv, NEW w \in Writers, NEW opens \in BOOLEAN, WriteString(w, opens)
  PROVE  LogInv'
<1> USE DEF LogInv
<1> DEFINE x == writer[w].line
           e == writer[w].path
<1>1. /\ UNCHANGED <<day, stamped, logInbox, console, logged>>
      /\ writer[w].at = "write"
      /\ writer' = [writer EXCEPT ![w].at = "idle", ![w].line = Stop]
      /\ IF opens
         THEN /\ files' = [files EXCEPT ![e] = Append(files[e], x)]
              /\ times' = [times EXCEPT ![e] = Append(times[e], TimeOf(w))]
              /\ UNCHANGED failed
         ELSE failed' = failed \cup {x} /\ UNCHANGED <<files, times>>
  BY DEF WriteString, OpenFile
<1>2. /\ x \in Line /\ ToFile(x) /\ (x.from = Direct <=> w = "asLog")
      /\ x # Stop /\ x \in AtWriter /\ x \in logged /\ x.n \in Nat
  <2>1. x \in Line /\ ToFile(x) /\ (x.from = Direct <=> w = "asLog")
    BY <1>1 DEF OriginInv
  <2>2. x \in AtWriter
    BY DEF AtWriter
  <2> QED BY <2>1, <2>2, LineFacts DEF AccountInv
<1>3. e \in Days /\ x.day <= e /\ e \in Nat
  BY <1>1 DEF DayInv, Days
<1>4. /\ writer' \in [Writers -> [at : {"idle", "check", "make", "write"},
                                  last : 0..MaxDay, path : 0..MaxDay, line : Item]]
      /\ writer'[w].at = "idle" /\ writer'[w].line = Stop
      /\ writer'[w].last = writer[w].last /\ writer'[w].path = writer[w].path
      /\ \A v \in Writers \ {w} : writer'[v] = writer[v]
  <2>1. Stop \in Item
    BY DEF Item
  <2> QED BY <2>1, <1>1 DEF LogType
<1>5. AtWriter' \subseteq AtWriter \cup {Stop} /\ AtWriter \subseteq AtWriter' \cup {x}
  BY <1>4 DEF AtWriter
\* The other logger has another caller's line.
<1>6. Later({x}, AtWriter')
  <2> SUFFICES ASSUME NEW v \in Writers, writer'[v].line # Stop,
                      x.from = writer'[v].line.from
               PROVE  FALSE
    BY DEF Later, AtWriter
  <2>1. v # w /\ writer'[v] = writer[v] /\ writer[v].at # "idle"
    BY <1>4 DEF OriginInv
  <2>2. writer[v].line.from = Direct <=> v = "asLog"
    BY <2>1 DEF OriginInv
  <2>3. v \in {"asLogger", "asLog"} /\ w \in {"asLogger", "asLog"}
    BY DEF Writers
  <2> QED BY <2>1, <2>2, <2>3, <1>2
<1>7. x \notin OnDisk /\ x \notin failed
  <2>1. ~(x.n < x.n)
    BY <1>2
  <2> QED BY <2>1, <1>2 DEF FlowInv, Later
<1>8. /\ InInbox' = InInbox /\ Printed' = Printed /\ Stamped' = Stamped
  BY <1>1 DEF InInbox, Printed, Stamped
\* The file: it gets the line at its end.
<1>9. /\ files' \in [Days -> Seq(Line)] /\ Ascending(files'[e])
      /\ \A d \in Days \ {e} : files'[d] = files[d]
      /\ opens => ToSet(files'[e]) = ToSet(files[e]) \cup {x}
      /\ ~opens => files' = files
  <2>1. CASE opens
    <3>1. files[e] \in Seq(Line) /\ files' = [files EXCEPT ![e] = Append(files[e], x)]
      BY <2>1, <1>1, <1>3 DEF LogType
    <3>2. Append(files[e], x) \in Seq(Line)
      BY <3>1, <1>2
    <3>3. /\ files' \in [Days -> Seq(Line)] /\ files'[e] = Append(files[e], x)
          /\ \A d \in Days \ {e} : files'[d] = files[d]
      BY <3>1, <3>2, <1>3 DEF LogType
    <3>4. ToSet(files'[e]) = ToSet(files[e]) \cup {x}
      BY <3>1, <3>3, <1>2, ToSetAppend
    <3>5. Later(ToSet(files[e]), {x})
      <4>1. ToSet(files[e]) \subseteq OnDisk
        BY <1>3 DEF OnDisk
      <4> QED BY <4>1, <1>2 DEF FlowInv, Later
    <3>6. Ascending(files'[e])
      BY <3>1, <3>3, <3>5, <1>2, <1>3, AscendingAppend DEF FileInv
    <3> QED BY <2>1, <3>3, <3>4, <3>6
  <2>2. CASE ~opens
    BY <2>2, <1>1, <1>3 DEF LogType, FileInv
  <2> QED BY <2>1, <2>2
<1>10. /\ opens => OnDisk' = OnDisk \cup {x} /\ failed' = failed
       /\ ~opens => OnDisk' = OnDisk /\ failed' = failed \cup {x}
  <2>1. CASE opens
    <3>1. OnDisk' = OnDisk \cup {x}
      BY <2>1, <1>3, <1>9 DEF OnDisk
    <3> QED BY <2>1, <3>1, <1>1
  <2>2. CASE ~opens
    BY <2>2, <1>1, <1>9 DEF OnDisk
  <2> QED BY <2>1, <2>2
\* The time that goes with it: asLog's is today's.
<1>0. /\ TimeOf(w) \in Nat
      /\ IF x.from = Direct THEN e <= TimeOf(w) ELSE TimeOf(w) <= e
  <2>1. TimeOf(w) = IF x.from = Direct THEN day ELSE x.day
    BY <1>2 DEF TimeOf
  <2>2. day \in Nat /\ x.day \in Nat /\ e <= day
    BY <1>2, LineFacts DEF LogType, Days, DayInv
  <2> QED BY <2>1, <2>2, <1>3
<1>18. /\ times' \in [Days -> Seq(Nat)]
       /\ \A d \in Days : Len(times'[d]) = Len(files'[d])
       /\ \A d \in Days : \A i \in DOMAIN files'[d] :
            IF files'[d][i].from = Direct THEN d <= times'[d][i] ELSE times'[d][i] <= d
  <2>1. CASE opens
    <3> DEFINE f == files[e]
               u == times[e]
    <3>1. f \in Seq(Line) /\ u \in Seq(Nat) /\ Len(u) = Len(f)
      BY <1>3 DEF LogType
    <3>2. /\ files'[e] = Append(f, x)
          /\ times' \in [Days -> Seq(Nat)] /\ times'[e] = Append(u, TimeOf(w))
          /\ \A d \in Days \ {e} : times'[d] = times[d]
      <4>1. Append(u, TimeOf(w)) \in Seq(Nat)
        BY <1>0, <3>1
      <4>2. files' = [files EXCEPT ![e] = Append(f, x)]
            /\ times' = [times EXCEPT ![e] = Append(u, TimeOf(w))]
        BY <2>1, <1>1
      <4> HIDE DEF f, u
      <4> QED BY <4>1, <4>2, <1>3 DEF LogType
    <3>3. \A i \in DOMAIN f :
            IF f[i].from = Direct THEN e <= u[i] ELSE u[i] <= e
      BY <1>3 DEF DayInv
    <3> HIDE DEF f, u, e, x
    <3>4. Len(Append(u, TimeOf(w))) = Len(Append(f, x))
      BY ONLY <1>0, <1>2, <3>1
    <3>5. ASSUME NEW i \in DOMAIN Append(f, x)
          PROVE  IF Append(f, x)[i].from = Direct THEN e <= Append(u, TimeOf(w))[i]
                 ELSE Append(u, TimeOf(w))[i] <= e
      <4>1. Len(f) \in Nat /\ DOMAIN f = 1..Len(f)
            /\ DOMAIN Append(f, x) = 1..(Len(f) + 1)
        BY ONLY <1>2, <3>1
      <4>2. CASE i = Len(f) + 1
        <5>1. Append(f, x)[i] = x /\ Append(u, TimeOf(w))[i] = TimeOf(w)
          BY ONLY <4>2, <1>0, <1>2, <3>1
        <5> QED BY ONLY <5>1, <1>0
      <4>3. CASE i # Len(f) + 1
        <5>1. i \in 1..Len(f)
          BY ONLY <4>1, <4>3, <3>5
        <5>2. Append(f, x)[i] = f[i] /\ Append(u, TimeOf(w))[i] = u[i]
          BY ONLY <5>1, <1>0, <1>2, <3>1
        <5> QED BY ONLY <5>1, <5>2, <4>1, <3>3
      <4> QED BY <4>2, <4>3
    <3>6. \A d \in Days \ {e} : files'[d] = files[d]
      BY <1>9
    <3>7. \A d \in Days \ {e} : /\ Len(times[d]) = Len(files[d])
            /\ \A i \in DOMAIN files[d] :
                 IF files[d][i].from = Direct THEN d <= times[d][i] ELSE times[d][i] <= d
      BY DEF LogType, DayInv
    <3>8. /\ Len(times'[e]) = Len(files'[e])
          /\ \A i \in DOMAIN files'[e] :
               IF files'[e][i].from = Direct THEN e <= times'[e][i] ELSE times'[e][i] <= e
      <4>1. files'[e] = Append(f, x) /\ times'[e] = Append(u, TimeOf(w))
        BY <3>2
      <4> QED BY ONLY <4>1, <3>4, <3>5, Zenon
    <3>9. \A d \in Days \ {e} : /\ Len(times'[d]) = Len(files'[d])
            /\ \A i \in DOMAIN files'[d] :
                 IF files'[d][i].from = Direct THEN d <= times'[d][i] ELSE times'[d][i] <= d
      <4> TAKE d \in Days \ {e}
      <4>1. files'[d] = files[d] /\ times'[d] = times[d]
        BY <3>2, <3>6
      <4> QED BY ONLY <4>1, <3>7, Zenon
    <3>10. \A d \in Days : d = e \/ d \in Days \ {e}
      OBVIOUS
    <3> QED BY ONLY <3>2, <3>8, <3>9, <3>10, Zenon
  <2>2. CASE ~opens
    BY <2>2, <1>1 DEF LogType, DayInv
  <2> QED BY <2>1, <2>2
<1>11. LogType'
  <2>1. failed' \in SUBSET logged
    BY <1>2, <1>10 DEF LogType
  <2> QED BY <2>1, <1>1, <1>4, <1>9, <1>18 DEF LogType
<1>12. OriginInv'
  <2>1. \A v \in Writers :
          IF writer'[v].at = "idle" THEN writer'[v].line = Stop
          ELSE LET l == writer'[v].line
               IN  l \in Line /\ ToFile(l) /\ (l.from = Direct <=> v = "asLog")
    BY <1>4 DEF OriginInv
  <2> QED BY <2>1, <1>1, <1>8 DEF OriginInv
<1>13. DayInv'
  <2>1. \A v \in Writers : /\ writer'[v].path = writer'[v].last /\ writer'[v].path <= day
                           /\ writer'[v].at = "write" =>
                                writer'[v].path \in Days
                                  /\ writer'[v].line.day <= writer'[v].path
    BY <1>4 DEF DayInv
  <2> QED BY <2>1, <1>1, <1>18 DEF DayInv
<1>14. FileInv'
  <2>1. \A d \in Days : Ascending(files'[d])
    BY <1>9 DEF FileInv
  <2>2. LoggerOf(x) = w
    <3>1. w \in {"asLogger", "asLog"}
      BY DEF Writers
    <3> QED BY <3>1, <1>2 DEF LoggerOf
  <2>3. \A l : LoggerOf(l) \in Writers
    BY DEF LoggerOf, Writers
  <2>4. \A d \in Days : \A l \in ToSet(files'[d]) : d <= writer'[LoggerOf(l)].path
    <3> TAKE d \in Days
    <3> TAKE l \in ToSet(files'[d])
    <3>1. writer'[LoggerOf(l)].path = writer[LoggerOf(l)].path
      BY <2>3, <1>4
    <3>2. CASE l \in ToSet(files[d])
      BY <3>1, <3>2 DEF FileInv
    <3>3. CASE l \notin ToSet(files[d])
      <4>1. d = e /\ l = x
        BY <3>3, <1>9
      <4>2. e <= e
        BY <1>3
      <4> QED BY <4>1, <4>2, <3>1, <2>2
    <3> QED BY <3>2, <3>3
  <2>5. \A d \in Days : d < e => Later(ToSet(files[d]), {x})
    <3> TAKE d \in Days
    <3>1. ToSet(files[d]) \subseteq OnDisk
      BY DEF OnDisk
    <3> QED BY <3>1, <1>2 DEF FlowInv, Later
  \* No later file has a line of the same caller.
  <2>6. \A d \in Days : e < d => Later({x}, ToSet(files[d]))
    <3> TAKE d \in Days
    <3> SUFFICES ASSUME e < d, NEW l \in ToSet(files[d]), x.from = l.from PROVE FALSE
      BY DEF Later
    <3>1. LoggerOf(l) = w
      BY <2>2 DEF LoggerOf
    <3>2. d <= e
      BY <3>1 DEF FileInv
    <3>3. d \in Nat
      BY DEF Days
    <3> QED BY <3>2, <3>3, <1>3
  <2>7. \A d, f \in Days : d < f => Later(ToSet(files'[d]), ToSet(files'[f]))
    <3> SUFFICES ASSUME NEW d \in Days, NEW f \in Days, d < f
                 PROVE  Later(ToSet(files'[d]), ToSet(files'[f]))
      OBVIOUS
    <3>1. Later(ToSet(files[d]), ToSet(files[f]))
      BY DEF FileInv
    <3>2. CASE ~opens
      BY <3>1, <3>2, <1>9
    <3>3. CASE opens /\ d = e
      <4>1. f # e
        BY <3>3, <1>3
      <4> QED BY <4>1, <3>1, <3>3, <2>6, <1>9, LaterParts
    <3>4. CASE opens /\ f = e
      <4>1. d # e
        BY <3>4, <1>3
      <4> QED BY <4>1, <3>1, <3>4, <2>5, <1>9, LaterParts
    <3>5. CASE d # e /\ f # e
      BY <3>1, <3>5, <1>9
    <3> QED BY <3>2, <3>3, <3>4, <3>5
  <2> QED BY <2>1, <2>4, <2>7 DEF FileInv, LoggerOf
<1>15. FlowInv'
  <2>1. Later({x}, AtWriter') /\ Later({x}, InInbox) /\ Later({x}, Stamped)
    BY <1>2, <1>6 DEF FlowInv, Later
  <2>2. /\ Later(OnDisk, AtWriter \cup {Stop}) /\ Later(failed, AtWriter \cup {Stop})
        /\ Later(AtWriter \cup {Stop}, InInbox) /\ Later(AtWriter \cup {Stop}, Stamped)
    BY LaterParts DEF FlowInv
  <2>3. /\ Later(OnDisk, AtWriter') /\ Later(failed, AtWriter')
        /\ Later(AtWriter', InInbox) /\ Later(AtWriter', Stamped)
    BY <2>2, <1>5, LaterParts
  <2>4. /\ Later(OnDisk \cup {x}, AtWriter') /\ Later(failed \cup {x}, AtWriter')
        /\ Later(OnDisk \cup {x}, InInbox) /\ Later(failed \cup {x}, InInbox)
        /\ Later(OnDisk \cup {x}, Stamped) /\ Later(failed \cup {x}, Stamped)
    BY <2>1, <2>3, LaterParts DEF FlowInv
  <2>5. /\ Later(OnDisk', AtWriter') /\ Later(failed', AtWriter')
        /\ Later(OnDisk', InInbox) /\ Later(failed', InInbox)
        /\ Later(OnDisk', Stamped) /\ Later(failed', Stamped)
    BY <2>3, <2>4, <1>10 DEF FlowInv
  <2> QED BY <2>3, <2>5, <1>1, <1>8 DEF FlowInv
<1>16. AccountInv'
  <2>1. OnDisk' \cup AtWriter' \cup InInbox' \cup Stamped' \cup Printed'
          \subseteq logged \cup {Stop}
    BY <1>2, <1>5, <1>8, <1>10 DEF AccountInv
  <2>2. \A l \in OnDisk' \cup failed' : ToFile(l)
    BY <1>2, <1>10 DEF AccountInv
  <2>3. OnDisk' \cap failed' = {}
    BY <1>7, <1>10 DEF AccountInv
  <2>4. \A l \in logged : ToFile(l) =>
          l \in OnDisk' \cup failed' \cup AtWriter' \cup InInbox' \cup Stamped'
    BY <1>5, <1>8, <1>10 DEF AccountInv
  <2> QED BY <2>1, <2>2, <2>3, <2>4, <1>1 DEF AccountInv
<1>17. NumberInv'
  BY <1>1 DEF NumberInv, Lines
<1> QED BY <1>11, <1>12, <1>13, <1>14, <1>15, <1>16, <1>17

LEMMA LogStep ==
  ASSUME LogInv, [LogNext]_logVars PROVE LogInv'
<1>1. ASSUME UNCHANGED <<day, stamped, logInbox, writer, files, times, console, logged, failed>>
      PROVE  LogInv'
  <2>1. day' \in Days /\ day <= day'
    BY <1>1 DEF LogInv, LogType, Days
  <2> QED BY <2>1, <1>1, TickKeeps
<1>2. CASE Tick
  <2>1. day' \in Days /\ day <= day'
    BY <1>2, LogAssumption DEF Tick, LogInv, LogType, Days
  <2> QED BY <2>1, <1>2, TickKeeps DEF Tick
<1>3. CASE ExitLogger
  BY <1>3, ExitLoggerKeeps
<1>4. CASE HandleMessage
  BY <1>4, HandleMessageKeeps
<1>5. CASE LoggerEnds \/ LogOverflows
  BY <1>1, <1>5 DEF LoggerEnds, LogOverflows
<1>6. CASE LogEx
  BY <1>6, LogExKeeps
<1>7. ASSUME NEW p \in LogThreads, PostLine(p) PROVE LogInv'
  BY <1>7, PostLineKeeps
<1>8. ASSUME NEW p \in LogThreads, NEW lv \in Levels, FormatString(p, lv) PROVE LogInv'
  BY <1>8, FormatStringKeeps
<1>9. ASSUME NEW w \in Writers, CheckMakeFile(w) PROVE LogInv'
  BY <1>9, CheckMakeFileKeeps
<1>10. ASSUME NEW w \in Writers, MakeFile(w) PROVE LogInv'
  BY <1>10, MakeFileKeeps
<1>11. ASSUME NEW w \in Writers, NEW opens \in BOOLEAN, WriteString(w, opens) PROVE LogInv'
  BY <1>11, WriteStringKeeps
<1>12. CASE UNCHANGED logVars
  BY <1>1, <1>12 DEF logVars
<1> QED BY <1>2, <1>3, <1>4, <1>5, <1>6, <1>7, <1>8, <1>9, <1>10, <1>11, <1>12 DEF LogNext

\* What LogIntact says follows.
LEMMA LogInvImplies == LogInv => LogIntact
<1> SUFFICES ASSUME LogInv PROVE LogIntact
  OBVIOUS
<1> USE DEF LogInv
<1> DEFINE fs == [d \in Days |-> files[d]]
           onDisk == FlattenSeq(fs)
<1>1. fs \in Seq(Seq(Line)) /\ Len(fs) = MaxDay /\ \A d \in Days : fs[d] = files[d]
  BY LogAssumption DEF LogType, Days
<1>2. Days = 1..MaxDay
  BY DEF Days
<1> HIDE DEF fs
<1>3. onDisk \in Seq(Line)
  BY <1>1, FlattenType
<1>4. Ascending(onDisk)
  BY <1>1, <1>2, FlattenAscending DEF FileInv
<1>5. ToSet(onDisk) = OnDisk
  <2>1. ToSet(onDisk) = Parts(fs, MaxDay)
    BY <1>1, FlattenElements
  <2> QED BY <2>1, <1>1, <1>2 DEF Parts, OnDisk
<1> HIDE DEF onDisk
\* Among lines, Ascending is what LogIntact asks for.
<1>6. ASSUME NEW ls \in Seq(Line), Ascending(ls)
      PROVE  \A i, j \in DOMAIN ls : i < j /\ ls[i].from = ls[j].from => ls[i].n < ls[j].n
  <2>1. \A i \in DOMAIN ls : ls[i] # Stop
    BY LineFacts
  <2> QED BY <2>1, <1>6 DEF Ascending
<1>7. \A i, j \in DOMAIN onDisk :
        i < j /\ onDisk[i].from = onDisk[j].from => onDisk[i].n < onDisk[j].n
  BY <1>3, <1>4, <1>6
<1>8. \A i, j \in DOMAIN console :
        i < j /\ console[i].from = console[j].from => console[i].n < console[j].n
  BY <1>6 DEF LogType, FlowInv
<1> DEFINE waiting == Stamped \cup InInbox \cup AtWriter
<1>9. OnDisk = {l \in logged : ToFile(l)} \ (waiting \cup failed)
  <2>1. ASSUME NEW l \in OnDisk PROVE l \in logged /\ ToFile(l) /\ l \notin failed
    BY <2>1, LineFacts DEF AccountInv
  <2>2. ASSUME NEW l \in OnDisk PROVE l \notin waiting
    <3>1. l \in Line
      BY <2>1 DEF LogType
    <3>2. l # Stop /\ ~(l.n < l.n)
      BY <3>1, LineFacts
    <3> QED BY <3>2 DEF FlowInv, Later
  <2>3. ASSUME NEW l \in logged, ToFile(l), l \notin waiting \cup failed PROVE l \in OnDisk
    BY <2>3 DEF AccountInv
  <2> QED BY <2>1, <2>2, <2>3
<1>10. \A d \in Days : \A i \in DOMAIN files[d] :
         IF files[d][i].from = Direct THEN d <= times[d][i] ELSE times[d][i] <= d
  BY DEF DayInv
<1>11. ToSet(onDisk) = {l \in logged : ToFile(l)} \ (waiting \cup failed)
  BY <1>5, <1>9
<1>12. waiting = (UNION {ToSet(stamped[p]) : p \in LogThreads})
                   \cup ToSet(logInbox) \cup {writer[w].line : w \in Writers}
  BY DEF Stamped, InInbox, AtWriter
<1>13. onDisk = FlattenSeq([d \in Days |-> files[d]])
  BY DEF onDisk, fs
<1> HIDE DEF waiting
<1> QED BY <1>7, <1>8, <1>10, <1>11, <1>12, <1>13 DEF LogIntact

\* No line is lost, doubled, or put before an earlier one of its caller, in the
\* files or on the console; none of asLogger stands in the file of a day before
\* its time, which is that of the call, and none of asLog in the file of a day
\* after its time, which WriteString reads when the file is open.
\* About: FormatString, PostLine, HandleMessage, CheckMakeFile, MakeFile,
\* WriteString, OpenFile.
THEOREM LogIntactAlways == LogSpec => []LogIntact
<1>1. LogInit => LogInv
  BY LogInitially
<1>2. LogInv /\ [LogNext]_logVars => LogInv'
  BY LogStep
<1>3. LogInv => LogIntact
  BY LogInvImplies
<1> QED BY <1>1, <1>2, <1>3, PTL DEF LogSpec

-----------------------------------------------------------------------------
(* The loop of ParseData.                                                   *)

\* One turn of the loop.
NextTurn(b, spot) ==
  IF spot = Broken \/ b.size - spot < HeadSize THEN spot
  ELSE IF b.size - spot > MaxLen \/ BadHead(b.mem, spot) THEN Broken
  ELSE IF b.size - spot < b.mem[spot + 2] THEN spot
  ELSE spot + b.mem[spot + 2]

IsTurns(f, b, n) ==
  f = [i \in 0..n |-> IF i = 0 THEN 0 ELSE NextTurn(b, f[i - 1])]

LEMMA TurnsExist ==
  ASSUME NEW b, NEW n \in Nat PROVE \E f : IsTurns(f, b, n)
<1> DEFINE Good == {k \in Nat : \E f : IsTurns(f, b, k)}
<1>1. 0 \in Good
  <2> DEFINE f == [i \in 0..0 |-> 0]
  <2>1. \A i \in 0..0 : f[i] = IF i = 0 THEN 0 ELSE NextTurn(b, f[i - 1])
    OBVIOUS
  <2>2. f = [i \in 0..0 |-> f[i]]
    OBVIOUS
  <2> HIDE DEF f
  <2>3. IsTurns(f, b, 0)
    BY <2>1, <2>2 DEF IsTurns
  <2> QED BY <2>3
<1>2. ASSUME NEW k \in Nat, k \in Good PROVE k + 1 \in Good
  <2>1. PICK f : IsTurns(f, b, k)
    BY <1>2
  <2> DEFINE g == [i \in 0..(k + 1) |-> IF i = k + 1 THEN NextTurn(b, f[k]) ELSE f[i]]
  <2>2. ASSUME NEW i \in 0..(k + 1)
        PROVE  g[i] = IF i = 0 THEN 0 ELSE NextTurn(b, g[i - 1])
    <3>1. CASE i = k + 1
      <4>1. g[i] = NextTurn(b, f[k])
        BY <3>1
      <4>2. g[i - 1] = f[k] /\ i # 0
        BY <3>1
      <4> QED BY <4>1, <4>2
    <3>2. CASE i # k + 1
      <4>1. i \in 0..k
        BY <3>2
      <4>2. g[i] = f[i] /\ (i # 0 => g[i - 1] = f[i - 1])
        BY <4>1
      <4>3. f[i] = IF i = 0 THEN 0 ELSE NextTurn(b, f[i - 1])
        BY <4>1, <2>1 DEF IsTurns
      <4> QED BY <4>2, <4>3
    <3> QED BY <3>1, <3>2
  <2>3. g = [i \in 0..(k + 1) |-> g[i]]
    OBVIOUS
  <2> HIDE DEF g
  <2>4. IsTurns(g, b, k + 1)
    BY <2>2, <2>3 DEF IsTurns
  <2> QED BY <2>4
<1> HIDE DEF Good
<1>3. Nat \subseteq Good
  BY <1>1, <1>2, SetInduction
<1> QED BY <1>3 DEF Good

\* Turns is what its recursive definition says.
LEMMA TurnsFacts ==
  ASSUME NEW b, b.size \in Nat
  PROVE  /\ Turns(b)[0] = 0
         /\ \A n \in 1..b.size : Turns(b)[n] = NextTurn(b, Turns(b)[n - 1])
<1> DEFINE T == CHOOSE f : IsTurns(f, b, b.size)
<1>1. Turns(b) = T
  BY DEF Turns, IsTurns, NextTurn
<1>2. IsTurns(T, b, b.size)
  BY TurnsExist
<1> HIDE DEF T
<1>3. \A i \in 0..b.size : T[i] = IF i = 0 THEN 0 ELSE NextTurn(b, T[i - 1])
  BY <1>2 DEF IsTurns
<1>4. 0 \in 0..b.size /\ \A n \in 1..b.size : n \in 0..b.size /\ n # 0
  OBVIOUS
<1> QED BY <1>1, <1>3, <1>4

\* What a peer sends, and what is a message of it.
IsFrame(f) == f \in Seq(Int) /\ Len(f) >= HeadSize
IsMessage(f) == ~BadHead(f, 0) /\ f[2] = Len(f)

\* A frame is data, and has a head.
LEMMA FrameIs ==
  ASSUME NEW f, IsFrame(f)
  PROVE  f \in Seq(Int) /\ Len(f) \in Nat /\ Len(f) >= 3 /\ Len(f) >= 1
<1>1. f \in Seq(Int) /\ Len(f) >= 3
  BY DEF IsFrame, HeadSize
<1>2. Len(f) \in Nat
  BY <1>1, LenProperties
<1> QED
  BY ONLY <1>1, <1>2

\* A buffer holds the stream of s from behind its k-th message on.
Aligned(b, s, k) ==
  /\ b.size \in Nat /\ StartOf(s, k) + b.size <= Len(FlattenSeq(s))
  /\ \A i \in 1..b.size : b.mem[i] = FlattenSeq(s)[StartOf(s, k) + i]

\* What a turn does that begins where a message ends.
LEMMA TurnAtMessage ==
  ASSUME NEW s \in Seq(Seq(Int)), \A i \in 1..Len(s) : IsFrame(s[i]),
         NEW k \in 0..Len(s), NEW b, Aligned(b, s, k), b.size <= MaxLen,
         NEW j \in k..Len(s), StartOf(s, j) <= StartOf(s, k) + b.size
  PROVE  LET spot == StartOf(s, j) - StartOf(s, k)
             next == NextTurn(b, spot)
             here == StartOf(s, k) + b.size
         IN  /\ spot \in 0..b.size
             /\ j < Len(s) /\ IsMessage(s[j + 1]) /\ StartOf(s, j + 1) <= here
                  => next = StartOf(s, j + 1) - StartOf(s, k)
             /\ \/ j = Len(s)
                \/ here < StartOf(s, j) + HeadSize
                \/ j < Len(s) /\ IsMessage(s[j + 1]) /\ here < StartOf(s, j + 1)
                => next = spot
<1> DEFINE o == StartOf(s, k)
           p == StartOf(s, j)
           spot == p - o
           z == b.size
           F == FlattenSeq(s)
<1>1. /\ \A i \in 1..Len(s) : Len(s[i]) >= 1
      /\ j \in 0..Len(s)
  <2>1. ASSUME NEW i \in 1..Len(s) PROVE Len(s[i]) >= 1
    <3>1. Len(s[i]) >= HeadSize /\ Len(s[i]) \in Nat
      BY DEF IsFrame
    <3> QED BY <3>1 DEF HeadSize
  <2> QED BY <2>1
<1>2. o \in Nat /\ p \in Nat /\ o <= p /\ z \in Nat /\ p <= o + z
  <2>1. o \in Nat /\ p \in Nat
    BY <1>1, StartFacts
  <2>2. o + (j - k) <= p
    BY <1>1, StartGrows
  <2> QED BY <2>1, <2>2 DEF Aligned
<1>3. spot \in 0..z /\ spot # Broken
  BY <1>2 DEF Broken
<1>4. j = Len(s) => z - spot < HeadSize
  <2>1. j = Len(s) => p = Len(F)
    BY StartFacts
  <2>2. o + z <= Len(F)
    BY DEF Aligned
  <2>3. Len(F) \in Nat
    BY FlattenType
  <2> QED BY <2>1, <2>2, <2>3, <1>2 DEF HeadSize
<1>5. ASSUME j < Len(s) PROVE StartOf(s, j + 1) = p + Len(s[j + 1]) /\ Len(s[j + 1]) \in Nat
                              /\ Len(s[j + 1]) >= 3
  <2>1. j \in 0..(Len(s) - 1) /\ j + 1 \in 1..Len(s)
    BY <1>5
  <2>2. s[j + 1] \in Seq(Int)
    BY <2>1
  <2> QED BY <2>1, <2>2, StartFacts DEF IsFrame, HeadSize
<1>6. ASSUME j < Len(s), HeadSize <= z - spot
      PROVE  /\ BadHead(b.mem, spot) <=> BadHead(s[j + 1], 0)
             /\ IsMessage(s[j + 1]) => b.mem[spot + 2] = Len(s[j + 1])
  <2>1. j \in 0..(Len(s) - 1) /\ j + 1 \in 1..Len(s)
    BY <1>6
  <2>2. 1 \in 1..Len(s[j + 1]) /\ 2 \in 1..Len(s[j + 1])
    BY <1>5, <1>6
  <2>3. F[p + 1] = s[j + 1][1] /\ F[p + 2] = s[j + 1][2]
    BY <2>1, <2>2, FlattenPlace
  <2>4. spot + 1 \in 1..z /\ spot + 2 \in 1..z /\ o + (spot + 1) = p + 1 /\ o + (spot + 2) = p + 2
    <3>1. spot = p - o /\ HeadSize <= z - spot
      BY <1>6
    <3> HIDE DEF spot, p, o, z
    <3> QED BY ONLY <3>1, <1>2, <1>3 DEF HeadSize
  <2>5. b.mem[spot + 1] = F[o + (spot + 1)] /\ b.mem[spot + 2] = F[o + (spot + 2)]
    BY <2>4 DEF Aligned
  <2>6. b.mem[spot + 1] = s[j + 1][1] /\ b.mem[spot + 2] = s[j + 1][2]
    BY <2>3, <2>4, <2>5
  <2>7. IsMessage(s[j + 1]) => s[j + 1][2] = Len(s[j + 1])
    BY DEF IsMessage
  <2>8. BadHead(s[j + 1], 0) <=>
          s[j + 1][1] # Flag \/ s[j + 1][2] > MaxLen \/ s[j + 1][2] < HeadSize
    BY DEF BadHead
  <2>9. BadHead(b.mem, spot) <=>
          b.mem[spot + 1] # Flag \/ b.mem[spot + 2] > MaxLen \/ b.mem[spot + 2] < HeadSize
    BY DEF BadHead
  <2> QED BY <2>6, <2>7, <2>8, <2>9
<1>12. z <= MaxLen /\ MaxLen \in Nat
  BY FramingAssumption
<1> HIDE DEF o, p, spot, z, F
<1>7. NextTurn(b, spot) = IF spot = Broken \/ z - spot < HeadSize THEN spot
                        ELSE IF BadHead(b.mem, spot) THEN Broken
                        ELSE IF z - spot < b.mem[spot + 2] THEN spot
                        ELSE spot + b.mem[spot + 2]
  <2>1. ~(z - spot > MaxLen)
    BY ONLY <1>2, <1>3, <1>12
  <2> QED BY <2>1 DEF NextTurn, z
<1>8. spot = p - o
  BY DEF spot
<1>9. ASSUME j < Len(s), IsMessage(s[j + 1]), StartOf(s, j + 1) <= o + z
      PROVE  NextTurn(b, spot) = StartOf(s, j + 1) - o
  <2>1. HeadSize <= z - spot
    BY <1>2, <1>5, <1>8, <1>9 DEF HeadSize
  <2>2. ~BadHead(b.mem, spot) /\ b.mem[spot + 2] = Len(s[j + 1])
    BY <1>6, <1>9, <2>1 DEF IsMessage
  <2>3. ~(z - spot < b.mem[spot + 2]) /\ ~(z - spot < HeadSize)
        /\ spot + b.mem[spot + 2] = StartOf(s, j + 1) - o
    <3> DEFINE c == StartOf(s, j + 1)
               x == Len(s[j + 1])
               y == b.mem[spot + 2]
    <3>1. /\ HeadSize <= z - spot /\ y = x /\ spot = p - o /\ c <= o + z
          /\ c = p + x /\ o \in Nat /\ z \in Nat /\ p \in Nat /\ x \in Nat
      BY <1>2, <1>5, <1>8, <1>9, <2>1, <2>2
    <3> HIDE DEF c, x, y
    <3>2. ~(z - spot < y) /\ ~(z - spot < HeadSize) /\ spot + y = c - o
      BY ONLY <3>1 DEF HeadSize
    <3> QED BY ONLY <3>2 DEF y, c
  <2> QED BY <1>3, <1>7, <2>2, <2>3
<1>11. ASSUME \/ j = Len(s)
              \/ o + z < p + HeadSize
              \/ j < Len(s) /\ IsMessage(s[j + 1]) /\ o + z < StartOf(s, j + 1)
       PROVE  NextTurn(b, spot) = spot
  <2>1. CASE z - spot < HeadSize
    BY <1>7, <2>1
  <2>2. CASE ~(z - spot < HeadSize)
    <3>1. HeadSize <= z - spot
      BY <1>2, <1>8, <2>2 DEF HeadSize
    <3>2. j < Len(s) /\ IsMessage(s[j + 1]) /\ o + z < StartOf(s, j + 1)
      BY <1>2, <1>4, <1>8, <1>11, <2>2, <3>1 DEF HeadSize
    <3>3. ~BadHead(b.mem, spot) /\ b.mem[spot + 2] = Len(s[j + 1])
      BY <1>6, <3>1, <3>2 DEF IsMessage
    <3>4. z - spot < b.mem[spot + 2]
      <4>1. StartOf(s, j + 1) = p + Len(s[j + 1]) /\ Len(s[j + 1]) \in Nat
        BY <1>5, <3>2
      <4>2. o + z < p + Len(s[j + 1])
        BY <3>2, <4>1
      <4>3. z - spot < Len(s[j + 1])
        BY ONLY <4>1, <4>2, <1>2, <1>8
      <4> QED BY <3>3, <4>3
    <3> QED BY <1>7, <2>2, <3>3, <3>4
  <2> QED BY <2>1, <2>2
<1> QED BY <1>3, <1>9, <1>11 DEF o, p, spot, z

\* The first m messages of s behind the k-th are whole in the buffer.
Whole(b, s, k, m) ==
  /\ m \in 0..(Len(s) - k) /\ \A i \in 1..m : IsMessage(s[k + i])
  /\ StartOf(s, k + m) <= StartOf(s, k) + b.size

\* What comes behind them is no message.
Breaks(b, s, k, m) ==
  /\ k + m < Len(s) /\ ~IsMessage(s[k + m + 1])
  /\ StartOf(s, k + m) + HeadSize <= StartOf(s, k) + b.size

\* What comes behind them has not arrived, or its head or its end has not.
Lacks(b, s, k, m) ==
  \/ k + m = Len(s)
  \/ StartOf(s, k) + b.size < StartOf(s, k + m) + HeadSize
  \/ /\ k + m < Len(s) /\ IsMessage(s[k + m + 1])
     /\ StartOf(s, k) + b.size < StartOf(s, k + m + 1)

LEMMA WholeExists ==
  ASSUME NEW s \in Seq(Seq(Int)), \A i \in 1..Len(s) : IsFrame(s[i]),
         NEW k \in 0..Len(s), NEW b, Aligned(b, s, k)
  PROVE  \E m \in Nat : Whole(b, s, k, m) /\ (Breaks(b, s, k, m) \/ Lacks(b, s, k, m))
<1> DEFINE here == StartOf(s, k) + b.size
           Most == {j \in 0..(Len(s) - k) : \/ k + j = Len(s)
                                            \/ ~IsMessage(s[k + j + 1])
                                            \/ here < StartOf(s, k + j + 1)}
<1>1. PICK m \in Most : \A j \in Most : m <= j
  <2>1. Len(s) - k \in Most
    OBVIOUS
  <2>2. Most \subseteq Nat
    OBVIOUS
  <2> HIDE DEF Most
  <2> QED BY <2>1, <2>2, Least
<1>2. m \in Nat /\ m \in 0..(Len(s) - k)
  BY <1>1
<1>3. ASSUME NEW j \in 0..(m - 1)
      PROVE  IsMessage(s[k + j + 1]) /\ ~(here < StartOf(s, k + j + 1))
  <2>1. j \in 0..(Len(s) - k) /\ ~(m <= j) /\ k + j # Len(s)
    BY <1>2
  <2>2. j \notin Most
    <3> HIDE DEF Most
    <3> QED BY <1>1, <2>1
  <2> QED BY <2>1, <2>2
<1>4. here \in Int /\ \A j \in 0..(Len(s) - k) : StartOf(s, k + j) \in Nat
  <2>1. \A j \in 0..(Len(s) - k) : k + j \in 0..Len(s)
    OBVIOUS
  <2>2. b.size \in Nat /\ StartOf(s, k) \in Nat
    BY StartFacts DEF Aligned
  <2> QED BY <2>1, <2>2, StartFacts
<1>5. \A i \in 1..m : IsMessage(s[k + i])
  <2> TAKE i \in 1..m
  <2>1. i - 1 \in 0..(m - 1) /\ k + (i - 1) + 1 = k + i
    BY <1>2
  <2> QED BY <1>3, <2>1
<1>6. StartOf(s, k + m) <= here
  <2>1. CASE m = 0
    <3>1. k + m = k /\ StartOf(s, k) \in Nat /\ b.size \in Nat
      BY <2>1, StartFacts DEF Aligned
    <3> QED BY <3>1
  <2>2. CASE m # 0
    <3>1. m - 1 \in 0..(m - 1) /\ k + (m - 1) + 1 = k + m
      BY <1>2, <2>2
    <3>2. ~(here < StartOf(s, k + m))
      BY <1>3, <3>1
    <3>3. StartOf(s, k + m) \in Nat
      BY <1>2, <1>4
    <3> HIDE DEF here
    <3> QED BY ONLY <1>4, <3>2, <3>3
  <2> QED BY <2>1, <2>2
<1>7. Whole(b, s, k, m)
  BY <1>2, <1>5, <1>6 DEF Whole
<1>8. \/ k + m = Len(s) \/ ~IsMessage(s[k + m + 1]) \/ here < StartOf(s, k + m + 1)
  BY <1>1
<1>9. StartOf(s, k + m) + HeadSize <= here \/ here < StartOf(s, k + m) + HeadSize
  <2>1. StartOf(s, k + m) \in Nat
    BY <1>2, <1>4
  <2> HIDE DEF here
  <2> QED BY ONLY <1>4, <2>1 DEF HeadSize
<1>10. k + m = Len(s) \/ k + m < Len(s)
  BY <1>2
<1>11. Breaks(b, s, k, m) \/ Lacks(b, s, k, m)
  BY <1>8, <1>9, <1>10 DEF Breaks, Lacks
<1> QED BY <1>2, <1>7, <1>11

\* Where the turns end.
LEMMA TurnsAre ==
  ASSUME NEW s \in Seq(Seq(Int)), \A i \in 1..Len(s) : IsFrame(s[i]),
         NEW k \in 0..Len(s), NEW b, Aligned(b, s, k), b.size <= MaxLen,
         NEW m \in Nat, Whole(b, s, k, m), Breaks(b, s, k, m) \/ Lacks(b, s, k, m)
  PROVE  /\ m <= b.size
         /\ \A n \in 0..m : Turns(b)[n] = StartOf(s, k + n) - StartOf(s, k)
         /\ Lacks(b, s, k, m) =>
              \A n \in (m + 1)..b.size :
                 Turns(b)[n] = StartOf(s, k + m) - StartOf(s, k)
<1> DEFINE T == Turns(b)
           z == b.size
           o == StartOf(s, k)
           spot(n) == StartOf(s, k + n) - o
           end == spot(m)
<1>0. /\ z \in Nat /\ o \in Nat /\ m \in 0..(Len(s) - k)
      /\ \A i \in 1..Len(s) : Len(s[i]) >= 1
  <2>1. ASSUME NEW i \in 1..Len(s) PROVE Len(s[i]) >= 1
    <3>1. IsFrame(s[i])
      OBVIOUS
    <3> QED BY ONLY <3>1, FrameIs
  <2> QED BY <2>1, StartFacts DEF Aligned, Whole
<1>1. ASSUME NEW n \in 0..m
      PROVE  /\ StartOf(s, k + n) \in Nat /\ o + n <= StartOf(s, k + n)
             /\ StartOf(s, k + n) <= o + z /\ k + n \in k..Len(s)
  <2>1. k + n \in k..Len(s) /\ k + n \in 0..Len(s) /\ (k + n) - k = n
        /\ k + m \in (k + n)..Len(s) /\ (k + m) - (k + n) = m - n /\ k + m \in 0..Len(s)
    BY <1>0
  <2>2. o + ((k + n) - k) <= StartOf(s, k + n)
    BY <2>1, <1>0, StartGrows
  <2>3. StartOf(s, k + n) + ((k + m) - (k + n)) <= StartOf(s, k + m)
    <3> DEFINE i == k + n
               j == k + m
    <3>1. i \in 0..Len(s) /\ j \in i..Len(s)
      BY <2>1
    <3> HIDE DEF i, j
    <3>2. StartOf(s, i) + (j - i) <= StartOf(s, j)
      BY <3>1, <1>0, StartGrows
    <3> QED BY <3>2 DEF i, j
  <2>4. StartOf(s, k + m) <= o + z
    BY DEF Whole
  <2>5. StartOf(s, k + n) \in Nat /\ StartOf(s, k + m) \in Nat
    BY <2>1, StartFacts
  <2> DEFINE p == StartOf(s, k + n)
             q == StartOf(s, k + m)
  <2>6. o + n <= p /\ p + (m - n) <= q /\ q <= o + z
    <3>1. o + ((k + n) - k) = o + n /\ (k + m) - (k + n) = m - n
      BY <2>1
    <3> QED BY ONLY <3>1, <2>2, <2>3, <2>4
  <2>7. n \in 0..m /\ m \in Nat /\ p \in Nat /\ q \in Nat /\ o \in Nat /\ z \in Nat
    BY <1>0, <2>5
  <2> HIDE DEF p, q, o, z
  <2>8. o + n <= p /\ p <= o + z
    BY ONLY <2>6, <2>7
  <2> QED BY ONLY <2>1, <2>7, <2>8 DEF p
<1>2. m <= z
  BY <1>0, <1>1
<1>4. T[0] = 0 /\ \A n \in 1..z : T[n] = NextTurn(b, T[n - 1])
  BY <1>0, TurnsFacts
<1>5. ASSUME NEW n \in 0..m
      PROVE  /\ n < m => NextTurn(b, spot(n)) = spot(n + 1)
             /\ n = m /\ Lacks(b, s, k, m) => NextTurn(b, spot(n)) = end
  <2> DEFINE j == k + n
  <2>1. j \in k..Len(s) /\ StartOf(s, j) <= o + z
    BY <1>1
  <2>2. n < m => /\ j < Len(s) /\ IsMessage(s[j + 1]) /\ StartOf(s, j + 1) <= o + z
                 /\ k + (n + 1) = j + 1
    <3> SUFFICES ASSUME n < m
                 PROVE  /\ j < Len(s) /\ IsMessage(s[j + 1]) /\ StartOf(s, j + 1) <= o + z
                        /\ k + (n + 1) = j + 1
      OBVIOUS
    <3>1. n + 1 \in 0..m /\ n + 1 \in 1..m /\ k + (n + 1) = j + 1 /\ j < Len(s)
      BY <1>0
    <3>2. IsMessage(s[k + (n + 1)])
      BY <3>1 DEF Whole
    <3>3. StartOf(s, k + (n + 1)) <= o + z
      BY <3>1, <1>1
    <3> QED BY <3>1, <3>2, <3>3
  <2>3. n = m /\ Lacks(b, s, k, m) =>
          \/ j = Len(s)
          \/ o + z < StartOf(s, j) + HeadSize
          \/ j < Len(s) /\ IsMessage(s[j + 1]) /\ o + z < StartOf(s, j + 1)
    BY DEF Lacks
  <2> HIDE DEF j, z, o
  <2>4. /\ j < Len(s) /\ IsMessage(s[j + 1]) /\ StartOf(s, j + 1) <= o + z
             => NextTurn(b, StartOf(s, j) - o) = StartOf(s, j + 1) - o
        /\ \/ j = Len(s)
           \/ o + z < StartOf(s, j) + HeadSize
           \/ j < Len(s) /\ IsMessage(s[j + 1]) /\ o + z < StartOf(s, j + 1)
           => NextTurn(b, StartOf(s, j) - o) = StartOf(s, j) - o
    BY <2>1, TurnAtMessage DEF z, o
  <2>5. n < m => NextTurn(b, StartOf(s, j) - o) = StartOf(s, k + (n + 1)) - o
    BY <2>2, <2>4
  <2>6. n = m /\ Lacks(b, s, k, m) => NextTurn(b, StartOf(s, j) - o) = StartOf(s, j) - o
    BY <2>3, <2>4
  <2> QED BY <2>5, <2>6 DEF j
<1> HIDE DEF T, z, spot, end
<1>6. ASSUME NEW n \in 0..m PROVE T[n] = spot(n)
  <2> DEFINE Good == {i \in Nat : i <= m => T[i] = spot(i)}
  <2>1. 0 \in Good
    <3>1. spot(0) = o - o /\ o - o = 0
      BY <1>0 DEF spot
    <3> QED BY <3>1, <1>4
  <2>2. ASSUME NEW i \in Nat, i \in Good PROVE i + 1 \in Good
    <3> SUFFICES ASSUME i + 1 <= m PROVE T[i + 1] = spot(i + 1)
      OBVIOUS
    <3>1. i \in 0..m /\ i < m /\ i + 1 \in 1..z /\ (i + 1) - 1 = i
      BY <1>0, <1>2
    <3>2. T[i + 1] = NextTurn(b, T[i])
      BY <1>4, <3>1
    <3> QED BY <3>1, <3>2, <2>2, <1>5
  <2> HIDE DEF Good
  <2>3. Nat \subseteq Good
    BY <2>1, <2>2, SetInduction
  <2> QED BY <2>3 DEF Good
<1>7. ASSUME Lacks(b, s, k, m), NEW n \in (m + 1)..z PROVE T[n] = end
  <2> DEFINE Good == {i \in Nat : (m + 1) + i <= z => T[(m + 1) + i] = end}
  <2>0. m \in 0..m
    OBVIOUS
  <2>1. 0 \in Good
    <3> SUFFICES ASSUME (m + 1) + 0 <= z PROVE T[(m + 1) + 0] = end
      OBVIOUS
    <3>1. m + 1 \in 1..z /\ (m + 1) - 1 = m /\ (m + 1) + 0 = m + 1
      BY <1>0
    <3>2. T[m + 1] = NextTurn(b, T[m])
      BY <1>4, <3>1
    <3> QED BY <3>1, <3>2, <2>0, <1>5, <1>6, <1>7
  <2>2. ASSUME NEW i \in Nat, i \in Good PROVE i + 1 \in Good
    <3> SUFFICES ASSUME (m + 1) + (i + 1) <= z PROVE T[(m + 1) + (i + 1)] = end
      OBVIOUS
    <3> DEFINE q == (m + 1) + i
    <3>1. q + 1 \in 1..z /\ (q + 1) - 1 = q /\ (m + 1) + (i + 1) = q + 1 /\ q <= z
      BY <1>0
    <3>2. T[q] = end
      BY <2>2, <3>1
    <3> HIDE DEF q, Good
    <3>3. T[q + 1] = NextTurn(b, T[q])
      BY <1>4, <3>1
    <3>4. NextTurn(b, end) = end
      BY <2>0, <1>5, <1>7 DEF end
    <3> QED BY <3>1, <3>2, <3>3, <3>4
  <2> HIDE DEF Good
  <2>3. Nat \subseteq Good
    BY <2>1, <2>2, SetInduction
  <2>4. n - (m + 1) \in Nat /\ (m + 1) + (n - (m + 1)) = n /\ n <= z
    BY <1>0
  <2>5. n - (m + 1) \in Good
    BY <2>3, <2>4
  <2> QED BY <2>4, <2>5 DEF Good
<1> QED BY <1>2, <1>6, <1>7 DEF T, z, spot, end

\* What ParseData hands on.
LEMMA ParsedIs ==
  ASSUME NEW s \in Seq(Seq(Int)), \A i \in 1..Len(s) : IsFrame(s[i]),
         NEW k \in 0..Len(s), NEW b, Aligned(b, s, k), b.size <= MaxLen,
         NEW m \in Nat, Whole(b, s, k, m), Breaks(b, s, k, m) \/ Lacks(b, s, k, m)
  PROVE  /\ \E S : Parsed(b) \in Seq(S)
         /\ m <= Len(Parsed(b)) /\ \A i \in 1..m : Parsed(b)[i] = s[k + i]
         /\ Lacks(b, s, k, m) => Parsed(b) = [i \in 1..m |-> s[k + i]]
<1> DEFINE T == Turns(b)
           z == b.size
           o == StartOf(s, k)
           F == FlattenSeq(s)
<1>0. /\ z \in Nat /\ o \in Nat /\ m \in 0..(Len(s) - k) /\ o + z <= Len(F)
      /\ F \in Seq(Int) /\ Len(F) \in Nat
  BY StartFacts, FlattenType DEF Aligned, Whole
<1>1. /\ m <= z
      /\ \A n \in 0..m : T[n] = StartOf(s, k + n) - o
      /\ Lacks(b, s, k, m) =>
           \A n \in (m + 1)..z : T[n] = StartOf(s, k + m) - o
  BY TurnsAre
<1>2. ASSUME NEW i \in 1..m
      PROVE  /\ StartOf(s, k + i) = StartOf(s, k + (i - 1)) + Len(s[k + i])
             /\ Len(s[k + i]) \in Nat /\ Len(s[k + i]) >= 3
             /\ s[k + i] \in Seq(Int) /\ StartOf(s, k + (i - 1)) \in Nat
             /\ o <= StartOf(s, k + (i - 1)) /\ StartOf(s, k + i) <= o + z
  <2> DEFINE j == k + (i - 1)
  <2>1. j \in 0..(Len(s) - 1) /\ j + 1 \in 1..Len(s) /\ k + i = j + 1
        /\ j \in k..Len(s) /\ k + m \in (j + 1)..Len(s) /\ j + 1 \in 0..Len(s)
        /\ j \in 0..Len(s) /\ k + m \in 0..Len(s)
    BY <1>0
  <2>2. \A l \in 1..Len(s) : Len(s[l]) >= 1
    <3> TAKE l \in 1..Len(s)
    <3>1. IsFrame(s[l])
      OBVIOUS
    <3> QED BY ONLY <3>1, FrameIs
  <2>3. StartOf(s, k + m) <= o + z
    BY DEF Whole
  <2> HIDE DEF j, z, o
  <2>4. StartOf(s, j + 1) = StartOf(s, j) + Len(s[j + 1])
    BY <2>1, StartFacts
  <2>5. StartOf(s, j) \in Nat /\ StartOf(s, j + 1) \in Nat /\ StartOf(s, k + m) \in Nat
    BY <2>1, StartFacts
  <2>6. s[j + 1] \in Seq(Int) /\ Len(s[j + 1]) >= 3 /\ Len(s[j + 1]) \in Nat
    <3>1. IsFrame(s[j + 1])
      BY <2>1
    <3> QED BY ONLY <3>1, FrameIs
  <2>7. o <= StartOf(s, j)
    <3>1. StartOf(s, k) + (j - k) <= StartOf(s, j)
      BY <2>1, <2>2, StartGrows
    <3> DEFINE a == StartOf(s, k)
               c == StartOf(s, j)
    <3>2. a + (j - k) <= c /\ j - k \in Nat /\ a \in Nat /\ c \in Nat
      BY <3>1, <2>1, <2>5, <1>0 DEF o
    <3> HIDE DEF a, c
    <3>3. a <= c
      BY ONLY <3>2
    <3> QED BY <3>3 DEF o, a, c
  <2>8. StartOf(s, j + 1) <= StartOf(s, k + m)
    <3> DEFINE e == k + m
    <3>1. j + 1 \in 0..Len(s) /\ e \in (j + 1)..Len(s)
      BY <2>1
    <3> HIDE DEF e
    <3>2. StartOf(s, j + 1) + (e - (j + 1)) <= StartOf(s, e)
      BY <3>1, <2>2, StartGrows
    <3>3. StartOf(s, e) \in Nat
      BY <2>5 DEF e
    <3>4. StartOf(s, j + 1) <= StartOf(s, e)
      BY <3>1, <3>2, <3>3, <2>5
    <3> QED BY <3>4 DEF e
  <2>9. StartOf(s, j + 1) <= o + z
    BY <2>3, <2>5, <2>8, <1>0
  <2> QED BY <2>1, <2>4, <2>5, <2>6, <2>7, <2>9 DEF j
<1>3. 1..m \subseteq Handing(b) /\ (Lacks(b, s, k, m) => Handing(b) = 1..m)
  <2>1. ASSUME NEW n \in 1..z, n <= m \/ Lacks(b, s, k, m)
        PROVE  T[n] > T[n - 1] <=> n <= m
    <3>1. CASE n <= m
      <4>1. n \in 1..m /\ n \in 0..m /\ n - 1 \in 0..m
        BY <3>1
      <4>2. T[n] = StartOf(s, k + n) - o /\ T[n - 1] = StartOf(s, k + (n - 1)) - o
        BY <4>1, <1>1
      <4>3. /\ StartOf(s, k + n) = StartOf(s, k + (n - 1)) + Len(s[k + n])
            /\ Len(s[k + n]) \in Nat /\ Len(s[k + n]) >= 3
            /\ StartOf(s, k + (n - 1)) \in Nat /\ o \in Nat
        BY <4>1, <1>0, <1>2
      <4> DEFINE t == T[n]
                 u == T[n - 1]
                 c == StartOf(s, k + n)
                 a == StartOf(s, k + (n - 1))
                 l == Len(s[k + n])
      <4>4. /\ t = c - o /\ u = a - o /\ c = a + l /\ l >= 3
            /\ l \in Nat /\ a \in Nat /\ o \in Nat
        BY ONLY <4>2, <4>3
      <4> HIDE DEF T, t, u, c, a, l, z, o
      <4>5. t > u
        BY ONLY <4>4
      <4> QED BY <4>5, <3>1 DEF t, u
    <3>2. CASE n = m + 1 /\ Lacks(b, s, k, m)
      <4> DEFINE e == StartOf(s, k + m) - o
      <4>1. n \in (m + 1)..z /\ m \in 0..m /\ n - 1 = m
        BY <3>2
      <4>2. T[n - 1] = e /\ T[n] = e
        BY <4>1, <3>2, <1>1
      <4>3. e \in Int
        <5>1. k + m \in 0..Len(s)
          BY <1>0
        <5> DEFINE c == StartOf(s, k + m)
        <5>2. c \in Nat /\ o \in Nat
          BY <5>1, <1>0, StartFacts
        <5> HIDE DEF c, o
        <5> QED BY <5>2 DEF c
      <4> DEFINE t == T[n]
      <4> HIDE DEF T, e, t
      <4>4. ~(t > e)
        <5>1. t = e /\ e \in Int
          BY <4>2, <4>3 DEF t
        <5> QED BY ONLY <5>1
      <4>5. ~(n <= m)
        BY <3>2
      <4> QED BY <4>2, <4>4, <4>5 DEF t
    <3>3. CASE n > m + 1 /\ Lacks(b, s, k, m)
      <4>1. n \in (m + 1)..z /\ n - 1 \in (m + 1)..z
        BY <3>3, <1>0
      <4>2. T[n] = T[n - 1]
        BY <4>1, <3>3, <1>1
      <4>3. T[n - 1] \in Int
        <5>1. T[n - 1] = StartOf(s, k + m) - o
          BY <4>1, <3>3, <1>1
        <5>2. StartOf(s, k + m) \in Nat
          <6>1. k + m \in 0..Len(s)
            BY <1>0
          <6> QED BY <6>1, StartFacts
        <5> DEFINE t == T[n - 1]
                   c == StartOf(s, k + m)
        <5>3. t = c - o /\ c \in Nat /\ o \in Nat
          BY <5>1, <5>2, <1>0
        <5> HIDE DEF t, c, o
        <5>4. t \in Int
          BY ONLY <5>3
        <5> QED BY <5>4 DEF t
      <4> HIDE DEF T
      <4> QED BY <4>2, <4>3, <3>3
    <3>4. n <= m \/ n = m + 1 \/ n > m + 1
      BY <1>0
    <3> QED BY <3>1, <3>2, <3>3, <3>4, <2>1
  <2> HIDE DEF T, z
  <2>2. /\ \A n \in 1..m : n \in 1..z /\ n <= m
        /\ \A n \in 1..z : n <= m => n \in 1..m
    <3>1. z \in Nat /\ m \in Nat /\ m <= z
      BY <1>0, <1>1
    <3> QED BY ONLY <3>1
  <2>3. 1..m \subseteq {n \in 1..z : T[n] > T[n - 1]}
    BY ONLY <2>1, <2>2
  <2>4. Lacks(b, s, k, m) => {n \in 1..z : T[n] > T[n - 1]} = 1..m
    BY ONLY <2>1, <2>2
  <2>5. Handing(b) = {n \in 1..z : T[n] > T[n - 1]}
    BY DEF Handing, T, z
  <2> QED BY ONLY <2>3, <2>4, <2>5
<1> DEFINE cnt == Cardinality(Handing(b))
<1>4. cnt \in Nat /\ m <= cnt /\ (Lacks(b, s, k, m) => cnt = m)
  <2>1. IsFiniteSet(1..z)
    <3>1. z \in Int /\ 1 \in Int
      BY <1>0
    <3> HIDE DEF z
    <3> QED BY ONLY <3>1, FS_Interval
  <2>6. ASSUME NEW n \in Handing(b) PROVE n \in 1..z
    BY DEF Handing, z
  <2>2. IsFiniteSet(Handing(b))
    BY <2>1, <2>6, FS_Subset
  <2>3. Cardinality(1..m) = m
    BY FS_Interval
  <2>4. cnt \in Nat /\ Cardinality(1..m) <= cnt
    BY <2>2, <1>3, FS_Subset, FS_CardinalityType
  <2>5. Lacks(b, s, k, m) => cnt = Cardinality(1..m)
    BY <1>3
  <2> QED BY ONLY <2>3, <2>4, <2>5
<1> HIDE DEF cnt
<1>5. ASSUME NEW i \in 1..m PROVE SubSeq(b.mem, T[i - 1] + 1, T[i]) = s[k + i]
  <2> DEFINE j == k + (i - 1)
             x == s[k + i]
             lo == T[i - 1] + 1
             hi == T[i]
             q == SubSeq(b.mem, lo, hi)
  <2>1. i - 1 \in 0..m /\ i \in 0..m /\ j \in 0..(Len(s) - 1) /\ j + 1 = k + i
    BY <1>0
  <2>2. lo = (StartOf(s, j) - o) + 1 /\ hi = (StartOf(s, j) + Len(x)) - o
    <3>1. T[i - 1] = StartOf(s, j) - o /\ T[i] = StartOf(s, k + i) - o
      BY <2>1, <1>1
    <3>2. /\ StartOf(s, k + i) = StartOf(s, j) + Len(x)
          /\ Len(x) \in Nat /\ StartOf(s, j) \in Nat /\ o \in Nat
      BY <1>0, <1>2
    <3> HIDE DEF T, o, j, x
    <3>3. lo = (StartOf(s, j) - o) + 1 /\ hi = (StartOf(s, j) + Len(x)) - o
      BY <3>1, <3>2
    <3> QED BY ONLY <3>3, <3>2
  <2>3. /\ StartOf(s, j) \in Nat /\ o <= StartOf(s, j) /\ StartOf(s, j) + Len(x) <= o + z
        /\ x \in Seq(Int) /\ Len(x) \in Nat /\ Len(x) >= 3
    BY <1>2
  <2>4. \A r \in 1..Len(x) : F[StartOf(s, j) + r] = x[r]
    <3> TAKE r \in 1..Len(x)
    <3>1. x = s[j + 1] /\ j \in 0..(Len(s) - 1)
      BY <2>1
    <3> HIDE DEF j, x
    <3>2. r \in 1..Len(s[j + 1])
      BY <3>1
    <3>3. FlattenSeq(s)[StartOf(s, j) + r] = s[j + 1][r]
      BY <3>1, <3>2, FlattenPlace
    <3> QED BY <3>1, <3>3
  <2>5. \A l \in 1..z : b.mem[l] = F[o + l] /\ b.mem[l] \in Int
    <3> TAKE l \in 1..z
    <3>1. b.mem[l] = F[o + l]
      BY DEF Aligned
    <3>2. o + l \in 1..Len(F)
      <4>1. o \in Nat /\ z \in Nat /\ Len(F) \in Nat /\ o + z <= Len(F) /\ l \in 1..z
        BY <1>0
      <4> HIDE DEF F, z, o
      <4> QED BY ONLY <4>1
    <3> HIDE DEF F, z, o
    <3> QED BY <3>1, <3>2, <1>0
  <2> HIDE DEF T, z, o, F, j, x, lo, hi
  <2>6. lo \in 1..z /\ hi \in 1..z /\ lo <= hi /\ hi - lo + 1 = Len(x)
    <3> DEFINE a == StartOf(s, j)
               c == Len(x)
    <3>1. o \in Nat /\ z \in Nat /\ a \in Nat /\ c \in Nat /\ c >= 3 /\ o <= a /\ a + c <= o + z
      BY <1>0, <2>3
    <3>2. lo = (a - o) + 1 /\ hi = (a + c) - o
      BY <2>2
    <3> HIDE DEF a, c
    <3>3. lo \in 1..z /\ hi \in 1..z /\ lo <= hi /\ hi - lo + 1 = c
      BY ONLY <3>1, <3>2
    <3> QED BY <3>3 DEF c
  <2>7. \A l \in lo..hi : l \in 1..z /\ b.mem[l] \in Int
    <3>1. z \in Nat
      BY <1>0
    <3>2. \A l \in lo..hi : l \in 1..z
      BY ONLY <2>6, <3>1
    <3> QED BY ONLY <2>5, <3>2
  <2>8. /\ q \in Seq(Int) /\ Len(q) = Len(x)
        /\ \A r \in 1..Len(x) : q[r] = b.mem[lo + r - 1]
    <3>1. lo \in Int /\ hi \in Int
      BY <2>6
    <3>2. /\ q \in Seq(Int) /\ Len(q) = IF lo <= hi THEN hi - lo + 1 ELSE 0
          /\ \A r \in 1..(hi - lo + 1) : q[r] = b.mem[lo + r - 1]
      BY <3>1, <2>7, SubSeqProperties
    <3> QED BY <3>2, <2>6
  <2> HIDE DEF q
  <2>9. ASSUME NEW r \in 1..Len(x) PROVE q[r] = x[r]
    <3>1. lo + r - 1 \in 1..z /\ o + (lo + r - 1) = StartOf(s, j) + r
      <4> DEFINE a == StartOf(s, j)
                 c == Len(x)
      <4>1. o \in Nat /\ z \in Nat /\ a \in Nat /\ c \in Nat /\ r \in 1..c
            /\ o <= a /\ a + c <= o + z
        BY <1>0, <2>3
      <4>2. lo = (a - o) + 1
        BY <2>2
      <4> HIDE DEF a, c
      <4>3. lo + r - 1 \in 1..z /\ o + (lo + r - 1) = a + r
        BY ONLY <4>1, <4>2
      <4> QED BY <4>3 DEF a
    <3>2. b.mem[lo + r - 1] = F[o + (lo + r - 1)]
      BY <3>1, <2>5
    <3> QED BY <3>1, <3>2, <2>4, <2>8
  <2>10. q = x
    BY <2>3, <2>8, <2>9, SeqEqual
  <2> QED BY <2>10 DEF q, x, lo, hi
<1> HIDE DEF T, z, o, F
<1> DEFINE e == [i \in 1..cnt |-> SubSeq(b.mem, T[i - 1] + 1, T[i])]
           R == {e[i] : i \in 1..cnt}
<1>6. Parsed(b) = e
  BY DEF Parsed, T, cnt
<1>7. e \in Seq(R) /\ Len(e) = cnt
  <2>1. e = [i \in 1..cnt |-> e[i]] /\ \A i \in 1..cnt : e[i] \in R
    OBVIOUS
  <2>2. cnt \in Nat
    BY <1>4
  <2> HIDE DEF e, R, cnt
  <2>3. e \in [1..cnt -> R]
    BY ONLY <2>1
  <2> QED BY ONLY <2>2, <2>3
<1>8. \A i \in 1..m : e[i] = s[k + i]
  <2> TAKE i \in 1..m
  <2>1. i \in 1..cnt
    BY <1>4
  <2>2. e[i] = SubSeq(b.mem, T[i - 1] + 1, T[i])
    BY ONLY <2>1
  <2>3. SubSeq(b.mem, T[i - 1] + 1, T[i]) = s[k + i]
    BY <1>5
  <2> HIDE DEF e
  <2> QED BY ONLY <2>2, <2>3
<1>9. Lacks(b, s, k, m) => e = [i \in 1..m |-> s[k + i]]
  BY <1>4, <1>5
<1> HIDE DEF e, R
<1> QED BY <1>4, <1>6, <1>7, <1>8, <1>9
-----------------------------------------------------------------------------
(* The receive buffer.                                                      *)

BufferType(b) ==
  /\ b \in [mem : Seq(Int), size : Nat, moved : BOOLEAN, type : {"new", "external"}]
  /\ b.size <= Len(b.mem)

\* The loop ends at a place of the buffer or at a broken head.
LEMMA TurnsRange ==
  ASSUME NEW b, BufferType(b)
  PROVE  \A n \in 0..b.size : Turns(b)[n] \in {Broken} \cup 0..b.size
<1> DEFINE T == Turns(b)
           z == b.size
           Good == {n \in Nat : n <= z => T[n] \in {Broken} \cup 0..z}
<1>1. /\ z \in Nat /\ z <= Len(b.mem) /\ b.mem \in Seq(Int)
      /\ T[0] = 0 /\ \A n \in 1..z : T[n] = NextTurn(b, T[n - 1])
  BY TurnsFacts DEF BufferType
<1>2. 0 \in Good
  BY <1>1
<1>3. ASSUME NEW n \in Nat, n \in Good PROVE n + 1 \in Good
  <2> SUFFICES ASSUME n + 1 <= z PROVE T[n + 1] \in {Broken} \cup 0..z
    OBVIOUS
  <2> DEFINE spot == T[n]
  <2>1. n + 1 \in 1..z /\ (n + 1) - 1 = n /\ n <= z
    BY <1>1
  <2>2. spot \in {Broken} \cup 0..z /\ T[n + 1] = NextTurn(b, spot)
    BY <2>1, <1>1, <1>3
  <2> HIDE DEF spot, T, Good
  <2>3. NextTurn(b, spot) \in {Broken, spot}
          \/ (/\ spot # Broken /\ ~(z - spot < 3) /\ ~(b.mem[spot + 2] < 3)
              /\ ~(z - spot < b.mem[spot + 2]) /\ NextTurn(b, spot) = spot + b.mem[spot + 2])
    BY DEF NextTurn, BadHead, HeadSize
  <2>4. CASE NextTurn(b, spot) \in {Broken, spot}
    BY <2>2, <2>4
  <2>5. CASE /\ spot # Broken /\ ~(z - spot < 3) /\ ~(b.mem[spot + 2] < 3)
             /\ ~(z - spot < b.mem[spot + 2]) /\ NextTurn(b, spot) = spot + b.mem[spot + 2]
    <3> DEFINE x == b.mem[spot + 2]
    <3>1. spot \in 0..z /\ spot + 2 \in 1..Len(b.mem)
      <4>1. spot \in 0..z /\ Len(b.mem) \in Nat
        BY <2>2, <2>5, <1>1
      <4> HIDE DEF z
      <4> QED BY ONLY <4>1, <2>5, <1>1
    <3>2. x \in Int
      BY <3>1, <1>1
    <3> HIDE DEF x, z
    <3>3. ~(x < 3) /\ ~(z - spot < x) /\ NextTurn(b, spot) = spot + x
      BY <2>5 DEF x
    <3>4. spot + x \in 0..z
      BY ONLY <3>1, <3>2, <3>3, <1>1
    <3> QED BY <3>3, <3>4, <2>2
  <2> QED BY <2>3, <2>4, <2>5
<1> HIDE DEF Good
<1>4. Nat \subseteq Good
  BY <1>2, <1>3, SetInduction
<1> QED BY <1>1, <1>4 DEF Good

\* More than MaxLen in the buffer is dropped, and nothing of it handed on.
LEMMA TurnsFlooded ==
  ASSUME NEW b, BufferType(b), b.size > MaxLen
  PROVE  Turns(b)[b.size] = Broken
<1> DEFINE T == Turns(b)
           z == b.size
           Good == {n \in Nat : n + 1 <= z => T[n + 1] = Broken}
<1>1. /\ z \in Nat /\ T[0] = 0 /\ \A n \in 1..z : T[n] = NextTurn(b, T[n - 1])
      /\ z > MaxLen /\ MaxLen \in Nat /\ MaxLen >= 3
  BY TurnsFacts, FramingAssumption DEF BufferType, HeadSize
<1>2. 0 \in Good
  <2>1. 1 \in 1..z /\ 1 - 1 = 0 /\ 0 + 1 = 1
    BY <1>1
  <2>2. T[1] = NextTurn(b, 0)
    BY <2>1, <1>1
  <2>3. ~(z - 0 < 3) /\ z - 0 > MaxLen /\ 0 # Broken
    BY <1>1 DEF Broken
  <2>4. NextTurn(b, 0) = Broken
    BY <2>3 DEF NextTurn, HeadSize
  <2> QED BY <2>1, <2>2, <2>4
<1>3. ASSUME NEW n \in Nat, n \in Good PROVE n + 1 \in Good
  <2> SUFFICES ASSUME n + 1 + 1 <= z PROVE T[n + 1 + 1] = Broken
    OBVIOUS
  <2>1. n + 1 <= z /\ n + 1 + 1 \in 1..z /\ (n + 1 + 1) - 1 = n + 1
    BY <1>1
  <2>2. T[n + 1] = Broken /\ T[n + 1 + 1] = NextTurn(b, T[n + 1])
    BY <2>1, <1>1, <1>3
  <2> HIDE DEF T
  <2> QED BY <2>2 DEF NextTurn
<1> HIDE DEF Good
<1>4. Nat \subseteq Good
  BY <1>2, <1>3, SetInduction
<1>5. z - 1 \in Nat /\ (z - 1) + 1 = z
  BY <1>1
<1>6. z - 1 \in Good
  BY <1>4, <1>5
<1> QED BY <1>1, <1>5, <1>6 DEF Good

\* What is left in the buffer.
LEMMA ParseDataIs ==
  ASSUME NEW b, BufferType(b)
  PROVE  LET c == ParseData(b)
             spot == Turns(b)[b.size]
         IN  /\ BufferType(c) /\ Len(c.mem) = Len(b.mem)
             /\ spot = Broken => c.size = 0
             /\ spot # Broken => /\ spot \in 0..b.size /\ c.size = b.size - spot
                               /\ \A i \in 1..c.size : c.mem[i] = b.mem[spot + i]
<1> DEFINE c == ParseData(b)
           spot == Turns(b)[b.size]
           z == b.size
           M == b.mem
<1>1. /\ z \in Nat /\ z <= Len(M) /\ M \in Seq(Int) /\ Len(M) \in Nat
      /\ b \in [mem : Seq(Int), size : Nat, moved : BOOLEAN, type : {"new", "external"}]
  BY DEF BufferType
<1>2. spot \in {Broken} \cup 0..z
  <2>1. z \in 0..z
    BY <1>1
  <2> QED BY <2>1, TurnsRange
<1>3. c = IF spot = Broken THEN ResetBuffer(b) ELSE MoveDataForWard(b, spot)
  BY DEF ParseData
<1> HIDE DEF spot, c
<1>4. CASE spot = Broken \/ spot = z
  <2>1. c = [b EXCEPT !.size = 0]
    BY <1>3, <1>4 DEF ResetBuffer, MoveDataForWard
  <2>2. c.size = 0 /\ c.mem = M /\ BufferType(c)
    BY <2>1, <1>1 DEF BufferType
  <2>3. spot # Broken => spot \in 0..z /\ z - spot = 0
    BY <1>1, <1>2, <1>4
  <2> QED BY <2>2, <2>3 DEF spot, c
<1>5. CASE spot # Broken /\ spot # z
  <2> DEFINE n == z - spot
  <2>1. spot \in 0..z /\ spot < z /\ n \in Nat /\ n # 0 /\ z # 0 /\ ~(spot + n > z)
        /\ spot + n = z /\ n <= Len(M)
    BY <1>1, <1>2, <1>5
  <2>2. c = SubData(b, spot, n)
    BY <2>1, <1>3, <1>5 DEF MoveDataForWard
  <2> HIDE DEF n
  <2>3. CASE spot = 0
    <3>1. c = [b EXCEPT !.size = n]
      BY <2>1, <2>2, <2>3 DEF SubData
    <3>2. c.size = n /\ c.mem = M /\ BufferType(c)
      BY <3>1, <2>1, <1>1 DEF BufferType
    <3>3. \A i \in 1..n : M[spot + i] = M[i]
      BY <2>1, <2>3
    <3> QED BY <3>2, <3>3, <2>1, <1>5 DEF spot, c, n
  <2>4. CASE spot # 0
    <3> DEFINE d == SubSeq(M, spot + 1, spot + n)
               o == Over(M, 0, d)
    <3>1. c = [b EXCEPT !.mem = o, !.size = n]
      BY <2>1, <2>2, <2>4 DEF SubData
    <3>2. d \in Seq(Int) /\ Len(d) = n /\ \A i \in 1..n : d[i] = M[spot + i]
      <4> DEFINE lo == spot + 1
                 hi == spot + n
      <4>1. lo \in Int /\ hi \in Int /\ lo <= hi /\ hi - lo + 1 = n
            /\ (\A i \in lo..hi : i \in 1..Len(M)) /\ \A i \in 1..n : lo + i - 1 = spot + i
        BY <1>1, <2>1
      <4>2. \A i \in lo..hi : M[i] \in Int
        BY <4>1, <1>1
      <4> HIDE DEF lo, hi
      <4>3. LET q == SubSeq(M, lo, hi)
            IN  /\ q \in Seq(Int) /\ Len(q) = IF lo <= hi THEN hi - lo + 1 ELSE 0
                /\ \A i \in 1..(hi - lo + 1) : q[i] = M[lo + i - 1]
        BY <4>1, <4>2, SubSeqProperties
      <4>4. LET q == SubSeq(M, lo, hi)
            IN  q \in Seq(Int) /\ Len(q) = n /\ \A i \in 1..n : q[i] = M[spot + i]
        BY <4>1, <4>3
      <4> QED BY <4>4 DEF lo, hi
    <3> HIDE DEF d
    <3>3. /\ o \in Seq(Int) /\ Len(o) = Len(M)
          /\ \A i \in 1..Len(M) : o[i] = IF i <= 0 \/ i > 0 + Len(d) THEN M[i] ELSE d[i - 0]
      <4>1. 0 \in 0..Len(M) /\ 0 + Len(d) <= Len(M)
        BY <1>1, <2>1, <3>2
      <4> QED BY <4>1, <1>1, <3>2, OverIs
    <3> HIDE DEF o, M, z
    <3>4. \A i \in 1..n : o[i] = M[spot + i]
      <4> TAKE i \in 1..n
      <4>1. i \in 1..Len(M) /\ ~(i <= 0) /\ ~(i > 0 + n) /\ i - 0 = i
        BY <2>1, <1>1
      <4>2. o[i] = d[i]
        BY <4>1, <3>2, <3>3
      <4> QED BY <4>2, <3>2
    <3>5. c.size = n /\ c.mem = o /\ BufferType(c)
      BY <3>1, <3>3, <2>1, <1>1 DEF BufferType
    <3> QED BY <3>3, <3>4, <3>5, <2>1, <1>5 DEF spot, c, n, M, z
  <2> QED BY <2>3, <2>4
<1>6. (spot = Broken \/ spot = z) \/ (spot # Broken /\ spot # z)
  OBVIOUS
<1> QED BY <1>4, <1>5, <1>6

LEMMA ParseDataBounds ==
  ASSUME NEW b, BufferType(b)
  PROVE  ParseData(b).size \in Nat /\ ParseData(b).size <= MaxLen
<1> DEFINE x == ParseData(b).size
           z == b.size
           spot == Turns(b)[b.size]
<1>1. /\ z \in Nat /\ x \in Nat /\ MaxLen \in Nat
      /\ spot = Broken => x = 0
      /\ spot # Broken => spot \in 0..z /\ x = z - spot
  BY ParseDataIs, FramingAssumption DEF BufferType
<1>2. z > MaxLen => spot = Broken
  BY TurnsFlooded
<1> HIDE DEF x, z, spot
<1>3. x \in Nat /\ x <= MaxLen
  BY ONLY <1>1, <1>2
<1> QED BY <1>3 DEF x
-----------------------------------------------------------------------------
(* The session that receives.                                               *)

Arrived == Len(FlattenSeq(sent)) - Len(stream)
GoodUpTo(k) == \A i \in 1..k : IsMessage(sent[i])

FrameType ==
  /\ sent \in Seq(Frames) /\ stream \in Seq(Int) /\ frameSess \in {"open", "closed"}
  /\ BufferType(recvBuf) /\ Len(recvBuf.mem) \in FrameRooms
  /\ flooded \in BOOLEAN /\ \E S : got \in Seq(S)

\* What is under way is the end of what was sent.
StreamInv ==
  /\ Len(stream) <= Len(FlattenSeq(sent))
  /\ \A i \in 1..Len(stream) : stream[i] = FlattenSeq(sent)[Arrived + i]

\* The session has passed on the first k messages and holds the beginning of
\* the next one.
InStep(k) ==
  /\ got = [i \in 1..k |-> sent[i]]
  /\ Aligned(recvBuf, sent, k) /\ StartOf(sent, k) + recvBuf.size = Arrived
  /\ k < Len(sent) => Arrived < StartOf(sent, k + 1)

\* It has passed on the first k messages and met something else behind them.
OutOfStep(k) ==
  /\ k < Len(sent) /\ ~IsMessage(sent[k + 1]) /\ StartOf(sent, k) + HeadSize <= Arrived
  /\ k <= Len(got) /\ \A i \in 1..k : got[i] = sent[i]

StepInv ==
  ~flooded => \E k \in 0..Len(sent) : GoodUpTo(k) /\ (InStep(k) \/ OutOfStep(k))

\* What ParseData leaves is never too much, so that a buffer that can be full
\* was never flooded.
FloodInv ==
  /\ recvBuf.size <= MaxLen
  /\ flooded => Len(recvBuf.mem) > MaxLen

GivenUpInv ==
  frameSess = "closed" /\ GoodUpTo(Len(sent)) =>
    \E i \in 1..Len(sent) : Len(sent[i]) > Len(recvBuf.mem)

FrameInv == FrameType /\ StreamInv /\ StepInv /\ FloodInv /\ GivenUpInv

\* What the peer sent are messages.
LEMMA SentAre ==
  ASSUME sent \in Seq(Frames)
  PROVE  sent \in Seq(Seq(Int)) /\ \A i \in 1..Len(sent) : IsFrame(sent[i])
<1>1. \A f \in Frames : f \in Seq(Int) /\ IsFrame(f)
  BY FramingAssumption DEF IsFrame
<1>2. \A i \in 1..Len(sent) : sent[i] \in Frames
  OBVIOUS
<1>3. sent \in Seq(Seq(Int))
  BY <1>1
<1> QED BY <1>1, <1>2, <1>3

LEMMA FrameInitially == FrameInit => FrameInv
<1> SUFFICES ASSUME FrameInit PROVE FrameInv
  OBVIOUS
<1>1. stream = <<>> /\ sent = <<>> /\ got = <<>> /\ frameSess = "open" /\ flooded = FALSE
  BY DEF FrameInit
<1>0. PICK room \in FrameRooms : recvBuf = InitBuffer(NewBuffer, room)
  BY DEF FrameInit
<1>2. recvBuf = [mem |-> Blank(room), size |-> 0, moved |-> FALSE, type |-> "new"]
  <2>1. NewBuffer.mem = <<>> /\ room > 0
    BY FramingAssumption DEF NewBuffer
  <2>2. recvBuf = [NewBuffer EXCEPT !.mem = Blank(room), !.size = 0, !.type = "new"]
    BY <2>1, <1>0 DEF InitBuffer
  <2> QED BY <2>2 DEF NewBuffer
<1>3. Blank(room) \in Seq(Int) /\ Len(Blank(room)) = room
  BY FramingAssumption DEF Blank, Junk
<1>4. BufferType(recvBuf) /\ Len(recvBuf.mem) = room /\ recvBuf.size = 0
  <2> HIDE DEF BufferType
  <2>1. 0 <= room
    BY FramingAssumption
  <2> QED BY <1>2, <1>3, <2>1 DEF BufferType
<1>5. sent \in Seq(Seq(Int)) /\ Len(sent) = 0 /\ Len(stream) = 0
  BY <1>1
<1>6. FlattenSeq(sent) = <<>> /\ Len(FlattenSeq(sent)) = 0
  <2>1. FlattenSeq(sent) = <<>>
    BY <1>1, FlattenEmpty, Zenon
  <2>2. Len(<<>>) = 0
    OBVIOUS
  <2> QED BY <2>1, <2>2, Zenon
<1>7. Arrived = 0
  BY <1>5, <1>6 DEF Arrived
<1>8. StartOf(sent, 0) = 0
  BY <1>5, StartFacts
<1>9. FrameType
  <2>1. \E S : got \in Seq(S)
    BY <1>1
  <2>2. Len(recvBuf.mem) \in FrameRooms
    BY <1>4
  <2>3. sent \in Seq(Frames) /\ stream \in Seq(Int) /\ frameSess \in {"open", "closed"}
    BY <1>1
  <2>4. flooded \in BOOLEAN
    BY <1>1
  <2> QED BY <1>4, <2>1, <2>2, <2>3, <2>4 DEF FrameType
<1>10. StreamInv
  BY <1>5, <1>6 DEF StreamInv
<1>11. InStep(0)
  <2>1. got = [i \in 1..0 |-> sent[i]]
    BY <1>1
  <2>2. Aligned(recvBuf, sent, 0)
    BY <1>4, <1>6, <1>8 DEF Aligned
  <2> QED BY <2>1, <2>2, <1>4, <1>5, <1>7, <1>8 DEF InStep
<1>12. StepInv
  <2>1. 0 \in 0..Len(sent) /\ GoodUpTo(0)
    BY <1>5 DEF GoodUpTo
  <2> QED BY <2>1, <1>11 DEF StepInv
<1>13. GivenUpInv
  BY <1>1 DEF GivenUpInv
<1>14. FloodInv
  BY <1>1, <1>4, FramingAssumption DEF FloodInv
<1> QED BY <1>9, <1>10, <1>12, <1>13, <1>14 DEF FrameInv

\* A message more in the stream.
LEMMA FlattenMore ==
  ASSUME NEW s \in Seq(Seq(Int)), NEW f \in Seq(Int)
  PROVE  LET F == FlattenSeq(s)
             G == FlattenSeq(Append(s, f))
         IN  /\ F \in Seq(Int) /\ G \in Seq(Int) /\ Len(G) = Len(F) + Len(f)
             /\ \A i \in 1..Len(G) : G[i] = IF i <= Len(F) THEN F[i] ELSE f[i - Len(F)]
<1>1. FlattenSeq(s) \in Seq(Int)
  BY FlattenType
<1>2. FlattenSeq(Append(s, f)) = FlattenSeq(s) \o f
  BY FlattenAppend
<1> DEFINE F == FlattenSeq(s)
<1> HIDE DEF F
<1>3. F \in Seq(Int)
  BY <1>1 DEF F
<1>4. /\ F \o f \in Seq(Int) /\ Len(F \o f) = Len(F) + Len(f)
      /\ \A i \in 1..(Len(F) + Len(f)) : (F \o f)[i] = IF i <= Len(F) THEN F[i] ELSE f[i - Len(F)]
  BY <1>3, ConcatProperties
<1> QED BY <1>2, <1>3, <1>4 DEF F

LEMMA AlignedMore ==
  ASSUME NEW s \in Seq(Seq(Int)), NEW f \in Seq(Int), NEW k \in 0..Len(s),
         NEW b, Aligned(b, s, k)
  PROVE  Aligned(b, Append(s, f), k)
<1> DEFINE F == FlattenSeq(s)
           G == FlattenSeq(Append(s, f))
           o == StartOf(s, k)
           z == b.size
<1>1. StartOf(Append(s, f), k) = o
  BY StartAppend
<1>2. /\ o \in Nat /\ z \in Nat /\ o + z <= Len(F) /\ Len(F) \in Nat /\ Len(f) \in Nat
      /\ \A i \in 1..z : b.mem[i] = F[o + i]
  BY StartFacts, FlattenType DEF Aligned
<1>3. /\ Len(G) = Len(F) + Len(f)
      /\ \A i \in 1..Len(G) : G[i] = IF i <= Len(F) THEN F[i] ELSE f[i - Len(F)]
  BY FlattenMore
<1> HIDE DEF F, G, o, z
<1>4. o + z <= Len(G)
  BY <1>2, <1>3
<1>5. ASSUME NEW i \in 1..z PROVE b.mem[i] = G[o + i]
  <2>1. o + i \in 1..Len(G) /\ o + i <= Len(F)
    BY <1>2, <1>3
  <2> QED BY <2>1, <1>2, <1>3
<1> QED BY <1>1, <1>2, <1>4, <1>5 DEF Aligned, G, z

LEMMA PeerSendsKeeps ==
  ASSUME FrameInv, NEW f \in Frames, PeerSends(f) PROVE FrameInv'
<1> DEFINE F == FlattenSeq(sent)
           G == FlattenSeq(sent')
           n == Len(sent)
<1>1. /\ sent' = Append(sent, f) /\ stream' = stream \o f
      /\ UNCHANGED <<frameNet, frameSess, recvBuf, got, flooded>>
  BY DEF PeerSends
<1>2. /\ sent \in Seq(Frames) /\ stream \in Seq(Int) /\ sent \in Seq(Seq(Int))
      /\ f \in Seq(Int) /\ Len(f) >= 3 /\ n \in Nat /\ Len(f) \in Nat /\ IsFrame(f)
  <2>1. f \in Seq(Int) /\ Len(f) >= HeadSize /\ IsFrame(f)
    BY FramingAssumption DEF IsFrame
  <2> QED BY <2>1, SentAre DEF FrameInv, FrameType, HeadSize
<1>3. /\ F \in Seq(Int) /\ Len(G) = Len(F) + Len(f) /\ Len(F) \in Nat
      /\ \A i \in 1..Len(G) : G[i] = IF i <= Len(F) THEN F[i] ELSE f[i - Len(F)]
  <2> DEFINE s == sent
             H == FlattenSeq(Append(s, f))
  <2>1. s \in Seq(Seq(Int)) /\ f \in Seq(Int)
    BY <1>2
  <2>2. G = H
    BY <1>1
  <2> HIDE DEF s
  <2>3. /\ FlattenSeq(s) \in Seq(Int) /\ Len(H) = Len(FlattenSeq(s)) + Len(f)
        /\ \A i \in 1..Len(H) :
             H[i] = IF i <= Len(FlattenSeq(s)) THEN FlattenSeq(s)[i]
                    ELSE f[i - Len(FlattenSeq(s))]
    BY <2>1, FlattenMore
  <2>4. F = FlattenSeq(s)
    BY DEF s
  <2>5. Len(F) \in Nat
    BY <2>3, <2>4
  <2> HIDE DEF F, G, H
  <2> QED BY <2>2, <2>3, <2>4, <2>5
<1>4. /\ stream' \in Seq(Int) /\ Len(stream') = Len(stream) + Len(f) /\ Len(stream) \in Nat
      /\ \A i \in 1..Len(stream') :
           stream'[i] = IF i <= Len(stream) THEN stream[i] ELSE f[i - Len(stream)]
  BY <1>1, <1>2, ConcatProperties
<1>5. Arrived' = Arrived /\ Arrived = Len(F) - Len(stream) /\ Arrived \in Nat
      /\ Len(stream) <= Len(F)
  <2>1. Arrived = Len(F) - Len(stream) /\ Arrived' = Len(G) - Len(stream')
    BY DEF Arrived
  <2>2. Len(stream) <= Len(F)
    BY DEF FrameInv, StreamInv
  <2> HIDE DEF F, G
  <2> QED BY <2>1, <2>2, <1>2, <1>3, <1>4
<1>6. /\ Len(sent') = n + 1 /\ sent' \in Seq(Frames) /\ sent'[n + 1] = f
      /\ \A i \in 1..n : sent'[i] = sent[i]
  BY <1>1, <1>2
<1>7. FrameType'
  BY <1>1, <1>4, <1>6 DEF FrameInv, FrameType
<1>8. StreamInv'
  <2> HIDE DEF F, G
  <2>1. Len(stream') <= Len(G)
    BY <1>2, <1>3, <1>4, <1>5
  <2> DEFINE l == Len(stream)
             m == Len(f)
             h == Len(F)
             a == Arrived
  <2>3. /\ l \in Nat /\ m \in Nat /\ h \in Nat /\ l <= h /\ a = h - l /\ a \in Nat
        /\ Len(stream') = l + m /\ Len(G) = h + m /\ Arrived' = a
    BY <1>2, <1>3, <1>4, <1>5
  <2> HIDE DEF l, m, h, a
  <2>2. ASSUME NEW i \in 1..Len(stream') PROVE stream'[i] = G[Arrived' + i]
    <3>0. i \in 1..(l + m)
      BY <2>3
    <3>1. Arrived' + i \in 1..Len(G)
      <4>1. a + i \in 1..(h + m)
        BY ONLY <3>0, <2>3
      <4> QED BY <4>1, <2>3
    <3>2. CASE i <= Len(stream)
      <4>1. i \in 1..Len(stream) /\ Arrived + i <= Len(F)
        BY <3>2, <1>3, <1>4, <1>5
      <4>2. stream[i] = F[Arrived + i]
        BY <4>1 DEF FrameInv, StreamInv, F
      <4> QED BY <4>1, <4>2, <3>1, <3>2, <1>3, <1>4, <1>5
    <3>3. CASE ~(i <= Len(stream))
      <4>1. ~(Arrived' + i <= Len(F)) /\ (Arrived' + i) - Len(F) = i - Len(stream)
        <5>1. ~(i <= l)
          BY <3>3 DEF l
        <5>2. ~(a + i <= h) /\ (a + i) - h = i - l
          BY ONLY <5>1, <3>0, <2>3
        <5> QED BY <5>2, <2>3 DEF l, h
      <4> QED BY <4>1, <3>1, <3>3, <1>3, <1>4
    <3> QED BY <3>2, <3>3
  <2> QED BY <2>1, <2>2 DEF StreamInv, G
<1>9. StepInv'
  <2> SUFFICES ASSUME ~flooded PROVE StepInv'
    BY <1>1 DEF StepInv
  <2>1. PICK k \in 0..n : GoodUpTo(k) /\ (InStep(k) \/ OutOfStep(k))
    BY DEF FrameInv, StepInv
  <2>2. k \in 0..Len(sent') /\ k \in Nat /\ k <= n
    BY <1>2, <1>6
  <2>3. GoodUpTo(k)'
    <3>1. \A i \in 1..k : sent'[i] = sent[i]
      BY <1>6, <2>2
    <3> QED BY <2>1, <3>1 DEF GoodUpTo
  <2>4. StartOf(sent', k) = StartOf(sent, k)
    BY <1>1, <1>2, StartAppend
  <2>5. k < n => StartOf(sent', k + 1) = StartOf(sent, k + 1) /\ sent'[k + 1] = sent[k + 1]
    <3> SUFFICES ASSUME k < n
                 PROVE  StartOf(sent', k + 1) = StartOf(sent, k + 1)
                        /\ sent'[k + 1] = sent[k + 1]
      OBVIOUS
    <3>1. k + 1 \in 0..Len(sent) /\ k + 1 \in 1..n
      BY <2>2
    <3> QED BY <3>1, <1>1, <1>2, <1>6, StartAppend
  <2>6. CASE InStep(k)
    <3>1. /\ got = [i \in 1..k |-> sent[i]] /\ Aligned(recvBuf, sent, k)
          /\ StartOf(sent, k) + recvBuf.size = Arrived
          /\ k < n => Arrived < StartOf(sent, k + 1)
      BY <2>6 DEF InStep
    <3>2. got' = [i \in 1..k |-> sent'[i]]
      BY <3>1, <1>1, <1>6, <2>2
    <3>3. Aligned(recvBuf', sent', k)
      BY <3>1, <1>1, <1>2, AlignedMore
    <3>4. StartOf(sent', k) + recvBuf'.size = Arrived'
      BY <3>1, <2>4, <1>1, <1>5
    <3>5. Arrived' < StartOf(sent', k + 1)
      <4>1. CASE k < n
        BY <4>1, <3>1, <2>5, <1>5
      <4>2. CASE k = n
        <5>1. StartOf(sent, k) = Len(F)
          BY <4>2, <1>2, StartFacts
        <5>2. StartOf(sent', k + 1) = Len(G)
          <6>1. sent' \in Seq(Seq(Int)) /\ k + 1 = Len(sent')
            BY <4>2, <1>1, <1>2, <1>6
          <6> QED BY <6>1, StartFacts
        <5> HIDE DEF F, G
        <5> QED BY <5>2, <1>2, <1>3, <1>4, <1>5
      <4> QED BY <4>1, <4>2, <2>2, <1>2
    <3>6. InStep(k)'
      BY <3>2, <3>3, <3>4, <3>5 DEF InStep
    <3> QED BY <3>6, <2>2, <2>3 DEF StepInv
  <2>7. CASE OutOfStep(k)
    <3>1. OutOfStep(k)'
      <4>1. k < Len(sent')
        BY <2>2, <1>2, <1>6
      <4>2. \A i \in 1..k : sent'[i] = sent[i]
        BY <1>6, <2>2
      <4> QED BY <4>1, <4>2, <2>4, <2>5, <2>7, <1>1, <1>5 DEF OutOfStep
    <3> QED BY <3>1, <2>2, <2>3 DEF StepInv
  <2> QED BY <2>1, <2>6, <2>7
<1>10. GivenUpInv'
  <2> SUFFICES ASSUME frameSess' = "closed", GoodUpTo(Len(sent))'
               PROVE  \E i \in 1..Len(sent') : Len(sent'[i]) > Len(recvBuf'.mem)
    BY DEF GivenUpInv
  <2>1. GoodUpTo(n)
    <3>1. \A i \in 1..n : i \in 1..Len(sent') /\ sent'[i] = sent[i]
      <4>1. n \in Nat /\ Len(sent') = n + 1 /\ \A i \in 1..n : sent'[i] = sent[i]
        BY <1>2, <1>6
      <4> HIDE DEF n
      <4>2. \A i \in 1..n : i \in 1..(n + 1)
        BY ONLY <4>1
      <4> QED BY <4>1, <4>2
    <3> QED BY <3>1 DEF GoodUpTo
  <2>2. PICK i \in 1..n : Len(sent[i]) > Len(recvBuf.mem)
    BY <2>1, <1>1 DEF FrameInv, GivenUpInv
  <2>3. i \in 1..Len(sent') /\ sent'[i] = sent[i]
    BY <1>2, <1>6
  <2> QED BY <2>2, <2>3, <1>1
<1>11. FloodInv'
  BY <1>1 DEF FrameInv, FloodInv
<1> QED BY <1>7, <1>8, <1>9, <1>10, <1>11 DEF FrameInv

\* What the read callback leaves at the end of the buffer.
Filled(n) ==
  AddSize([recvBuf EXCEPT !.mem = Over(@, recvBuf.size, SubSeq(stream, 1, n))], n)

LEMMA FilledIs ==
  ASSUME BufferType(recvBuf), stream \in Seq(Int), NEW n \in 1..Len(stream),
         n <= RemainSize(recvBuf)
  PROVE  /\ BufferType(Filled(n)) /\ Len(Filled(n).mem) = Len(recvBuf.mem)
         /\ Filled(n).size = recvBuf.size + n
         /\ \A i \in 1..(recvBuf.size + n) :
              Filled(n).mem[i] = IF i <= recvBuf.size THEN recvBuf.mem[i]
                                 ELSE stream[i - recvBuf.size]
<1> DEFINE M == recvBuf.mem
           z == recvBuf.size
           d == SubSeq(stream, 1, n)
           o == Over(M, z, d)
           b == [recvBuf EXCEPT !.mem = o]
<1>1. /\ M \in Seq(Int) /\ z \in Nat /\ Len(M) \in Nat /\ z + n <= Len(M) /\ n \in Nat
      /\ recvBuf \in [mem : Seq(Int), size : Nat, moved : BOOLEAN, type : {"new", "external"}]
  BY DEF BufferType, RemainSize, MaxSize
<1>2. d \in Seq(Int) /\ Len(d) = n /\ \A i \in 1..n : d[i] = stream[i]
  <2>1. 1 \in Int /\ n \in Int /\ 1 <= n /\ n - 1 + 1 = n
        /\ (\A i \in 1..n : i \in 1..Len(stream) /\ 1 + i - 1 = i)
    OBVIOUS
  <2>2. \A i \in 1..n : stream[i] \in Int
    BY <2>1
  <2>3. /\ d \in Seq(Int) /\ Len(d) = IF 1 <= n THEN n - 1 + 1 ELSE 0
        /\ \A i \in 1..(n - 1 + 1) : d[i] = stream[1 + i - 1]
    BY <2>1, <2>2, SubSeqProperties
  <2> QED BY <2>1, <2>3
<1> HIDE DEF d, M, z
<1>3. /\ o \in Seq(Int) /\ Len(o) = Len(M)
      /\ \A i \in 1..Len(M) : o[i] = IF i <= z \/ i > z + Len(d) THEN M[i] ELSE d[i - z]
  <2>1. z \in 0..Len(M) /\ z + Len(d) <= Len(M)
    BY <1>1, <1>2
  <2>2. M \in Seq(Int) /\ d \in Seq(Int)
    BY <1>1, <1>2
  <2> QED BY ONLY <2>1, <2>2, OverIs
<1> HIDE DEF o
<1>4. b.mem = o /\ b.size = z
  BY <1>1 DEF z
<1>5. Filled(n) = [b EXCEPT !.size = z + n]
  <2>1. Filled(n) = AddSize(b, n)
    BY DEF Filled, o, M, z, d
  <2>2. b.size + n <= MaxSize(b)
    BY <1>1, <1>3, <1>4 DEF MaxSize
  <2> HIDE DEF b
  <2> QED BY <2>1, <2>2, <1>4 DEF AddSize
<1>6. Filled(n).mem = o /\ Filled(n).size = z + n /\ BufferType(Filled(n))
  <2>1. b \in [mem : Seq(Int), size : Nat, moved : BOOLEAN, type : {"new", "external"}]
    BY <1>1, <1>3
  <2>2. z + n \in Nat /\ z + n <= Len(o)
    BY <1>1, <1>3
  <2> QED BY <2>1, <2>2, <1>4, <1>5 DEF BufferType
<1>7. ASSUME NEW i \in 1..(z + n)
      PROVE  o[i] = IF i <= z THEN M[i] ELSE stream[i - z]
  <2>1. i \in 1..Len(M) /\ ~(i > z + Len(d)) /\ (~(i <= z) => i - z \in 1..n)
    <3>1. z \in Nat /\ Len(M) \in Nat /\ z + n <= Len(M) /\ n \in Nat /\ Len(d) = n
          /\ i \in 1..(z + n)
      BY <1>1, <1>2
    <3> DEFINE l == Len(M)
    <3> HIDE DEF l
    <3> QED BY ONLY SMTT(30), <3>1 DEF l
  <2> QED BY <2>1, <1>2, <1>3
<1> QED BY <1>3, <1>6, <1>7 DEF M, z

\* The stream after n units of it were read.
LEMMA StreamRest ==
  ASSUME stream \in Seq(Int), NEW n \in 1..Len(stream),
         stream' = SubSeq(stream, n + 1, Len(stream))
  PROVE  /\ stream' \in Seq(Int) /\ Len(stream') = Len(stream) - n
         /\ \A i \in 1..(Len(stream) - n) : stream'[i] = stream[n + i]
<1> DEFINE lo == n + 1
           hi == Len(stream)
<1>1. /\ lo \in Int /\ hi \in Int /\ n \in Nat
      /\ (\A i \in lo..hi : i \in 1..Len(stream))
      /\ (\A i \in 1..(hi - n) : i \in 1..(hi - lo + 1) /\ lo + i - 1 = n + i)
      /\ hi - lo + 1 = hi - n /\ (~(lo <= hi) => hi - n = 0)
  OBVIOUS
<1>2. \A i \in lo..hi : stream[i] \in Int
  <2>1. \A i \in 1..Len(stream) : stream[i] \in Int
    OBVIOUS
  <2> HIDE DEF lo, hi
  <2> QED BY <2>1, <1>1
<1> HIDE DEF lo, hi
<1>3. LET q == SubSeq(stream, lo, hi)
      IN  /\ q \in Seq(Int) /\ Len(q) = IF lo <= hi THEN hi - lo + 1 ELSE 0
          /\ \A i \in 1..(hi - lo + 1) : q[i] = stream[lo + i - 1]
  <2>1. lo \in Int /\ hi \in Int
    BY <1>1
  <2> QED BY ONLY <1>2, <2>1, SubSeqProperties
<1>4. LET q == SubSeq(stream, lo, hi)
      IN  q \in Seq(Int) /\ Len(q) = hi - n /\ \A i \in 1..(hi - n) : q[i] = stream[n + i]
  BY <1>1, <1>3
<1> QED BY <1>4 DEF lo, hi

\* The buffer goes on where it was in the stream.
LEMMA FilledAligned ==
  ASSUME FrameType, StreamInv, NEW n \in 1..Len(stream), n <= RemainSize(recvBuf),
         NEW k \in 0..Len(sent), Aligned(recvBuf, sent, k),
         StartOf(sent, k) + recvBuf.size = Arrived
  PROVE  Aligned(Filled(n), sent, k)
<1> DEFINE F == FlattenSeq(sent)
           o == StartOf(sent, k)
           z == recvBuf.size
<1>1. sent \in Seq(Seq(Int)) /\ BufferType(recvBuf) /\ stream \in Seq(Int)
  BY SentAre DEF FrameType
<1>2. /\ o \in Nat /\ z \in Nat /\ Len(F) \in Nat /\ Len(stream) \in Nat /\ n \in Nat
      /\ Len(stream) <= Len(F) /\ n <= Len(stream)
  <2>1. o \in Nat
    BY <1>1, StartFacts
  <2>2. Len(F) \in Nat
    BY <1>1, FlattenType
  <2>3. z \in Nat /\ Len(stream) \in Nat
    BY <1>1 DEF BufferType
  <2>4. Len(stream) <= Len(F)
    BY DEF StreamInv
  <2> HIDE DEF F
  <2>5. n \in Nat /\ n <= Len(stream)
    BY <2>3
  <2> QED BY ONLY <2>1, <2>2, <2>3, <2>4, <2>5
<1>3. o + z = Len(F) - Len(stream) /\ Arrived = o + z
  BY DEF Arrived
<1>4. /\ Filled(n).size = z + n
      /\ \A i \in 1..(z + n) :
           Filled(n).mem[i] = IF i <= z THEN recvBuf.mem[i] ELSE stream[i - z]
  BY <1>1, FilledIs
<1>5. /\ \A i \in 1..z : recvBuf.mem[i] = F[o + i]
      /\ \A i \in 1..Len(stream) : stream[i] = F[Arrived + i]
  BY DEF Aligned, StreamInv
<1> HIDE DEF F, o, z
<1>6. z + n \in Nat /\ o + (z + n) <= Len(F)
  BY <1>2, <1>3
<1>7. ASSUME NEW i \in 1..(z + n) PROVE Filled(n).mem[i] = F[o + i]
  <2>1. CASE i <= z
    <3>1. i \in 1..z
      BY <2>1, <1>2
    <3> QED BY <3>1, <2>1, <1>4, <1>5
  <2>2. CASE ~(i <= z)
    <3>1. i - z \in 1..Len(stream) /\ (o + z) + (i - z) = o + i
      BY <2>2, <1>2
    <3>2. stream[i - z] = F[Arrived + (i - z)]
      BY <3>1, <1>5
    <3> QED BY <3>1, <3>2, <2>2, <1>3, <1>4
  <2> QED BY <2>1, <2>2
<1> QED BY <1>4, <1>6, <1>7 DEF Aligned, F, o

LEMMA ConcatAny ==
  ASSUME NEW S, NEW p \in Seq(S), NEW R, NEW q \in Seq(R)
  PROVE  /\ p \o q \in Seq(S \cup R) /\ Len(p \o q) = Len(p) + Len(q)
         /\ \A i \in 1..(Len(p) + Len(q)) :
              (p \o q)[i] = IF i <= Len(p) THEN p[i] ELSE q[i - Len(p)]
<1>1. p \in Seq(S \cup R) /\ q \in Seq(S \cup R)
  OBVIOUS
<1> QED BY <1>1, ConcatProperties

LEMMA ParsedType ==
  ASSUME NEW b, BufferType(b) PROVE \E S : Parsed(b) \in Seq(S)
<1> DEFINE c == Cardinality(Handing(b))
           e == [i \in 1..c |-> SubSeq(b.mem, Turns(b)[i - 1] + 1, Turns(b)[i])]
           R == {e[i] : i \in 1..c}
<1>1. c \in Nat
  <2>1. IsFiniteSet(1..b.size)
    BY FS_Interval DEF BufferType
  <2>2. Handing(b) \subseteq 1..b.size
    BY DEF Handing
  <2> QED BY <2>1, <2>2, FS_Subset, FS_CardinalityType
<1>2. Parsed(b) = e
  BY DEF Parsed
<1>3. e = [i \in 1..c |-> e[i]] /\ \A i \in 1..c : e[i] \in R
  OBVIOUS
<1> HIDE DEF c, e, R
<1>4. e \in Seq(R)
  BY <1>1, <1>3
<1> QED BY <1>2, <1>4

\* A read of a session that is in step.
LEMMA ReceiveInStep ==
  ASSUME FrameInv, NEW n, OnReceive(n), NEW k \in 0..Len(sent), GoodUpTo(k), InStep(k),
         Filled(n).size <= MaxLen
  PROVE  StepInv'
<1> DEFINE b == Filled(n)
           s == sent
           o == StartOf(s, k)
<1>1. /\ sent' = sent /\ n \in 1..Len(stream) /\ n <= RemainSize(recvBuf)
      /\ stream' = SubSeq(stream, n + 1, Len(stream))
      /\ got' = got \o Parsed(b) /\ recvBuf' = ParseData(b)
  BY DEF OnReceive, Filled
<1>2. FrameType /\ StreamInv /\ BufferType(recvBuf) /\ stream \in Seq(Int)
  BY DEF FrameInv, FrameType
<1>3. /\ got = [i \in 1..k |-> sent[i]] /\ Aligned(recvBuf, sent, k)
      /\ o + recvBuf.size = Arrived
  BY DEF InStep
<1>4. /\ s \in Seq(Seq(Int)) /\ (\A i \in 1..Len(s) : IsFrame(s[i])) /\ k \in 0..Len(s)
  BY <1>2, SentAre DEF FrameType
<1>5. Aligned(b, s, k)
  BY <1>1, <1>2, <1>3, FilledAligned
<1>6. BufferType(b) /\ b.size = recvBuf.size + n
  BY <1>1, <1>2, FilledIs
<1>7. Arrived' = o + b.size
  <2> DEFINE F == Len(FlattenSeq(sent))
  <2>1. F \in Nat
    BY <1>4, FlattenType
  <2>2. Arrived' = F - Len(stream')
    BY <1>1 DEF Arrived
  <2>3. Len(stream') = Len(stream) - n /\ Len(stream) \in Nat /\ n \in Nat
    <3>1. /\ stream \in Seq(Int) /\ n \in 1..Len(stream)
          /\ stream' = SubSeq(stream, n + 1, Len(stream))
      BY <1>1, <1>2
    <3>2. Len(stream') = Len(stream) - n
      BY ONLY <3>1, StreamRest
    <3> QED BY ONLY <3>1, <3>2, LenProperties
  <2>4. Arrived = F - Len(stream) /\ o \in Nat /\ recvBuf.size \in Nat
    BY <1>2, <1>4, StartFacts DEF Arrived, BufferType
  <2> DEFINE l == Len(stream)
             z == recvBuf.size
             y == b.size
  <2>5. /\ Arrived' = F - (l - n) /\ o + z = F - l /\ y = z + n
        /\ F \in Nat /\ l \in Nat /\ n \in Nat /\ z \in Nat /\ o \in Nat
    BY <2>1, <2>2, <2>3, <2>4, <1>3, <1>6
  <2> HIDE DEF F, o, l, z, y
  <2>6. Arrived' = o + y
    BY ONLY <2>5
  <2> QED BY <2>6 DEF y
<1>16. b.size <= MaxLen
  OBVIOUS
<1> HIDE DEF b, s
<1>8. PICK m \in Nat : Whole(b, s, k, m) /\ (Breaks(b, s, k, m) \/ Lacks(b, s, k, m))
  BY <1>4, <1>5, WholeExists
<1>9. /\ \E S : Parsed(b) \in Seq(S)
      /\ m <= Len(Parsed(b)) /\ \A i \in 1..m : Parsed(b)[i] = s[k + i]
      /\ Lacks(b, s, k, m) => Parsed(b) = [i \in 1..m |-> s[k + i]]
  BY <1>4, <1>5, <1>8, <1>16, ParsedIs
<1>10. /\ m <= b.size
       /\ \A i \in 0..m : Turns(b)[i] = StartOf(s, k + i) - StartOf(s, k)
       /\ Lacks(b, s, k, m) =>
            \A i \in (m + 1)..b.size : Turns(b)[i] = StartOf(s, k + m) - StartOf(s, k)
  BY <1>4, <1>5, <1>8, <1>16, TurnsAre
<1> DEFINE j == k + m
<1>11. j \in 0..Len(s) /\ m \in 0..(Len(s) - k) /\ k \in Nat /\ j \in Nat /\ b.size \in Nat
       /\ StartOf(s, j) \in Nat /\ o \in Nat /\ StartOf(s, j) <= o + b.size
       /\ Len(s) \in Nat
  <2>1. m \in 0..(Len(s) - k) /\ StartOf(s, j) <= o + b.size
    BY <1>8 DEF Whole
  <2>2. j \in 0..Len(s) /\ k \in Nat /\ j \in Nat /\ Len(s) \in Nat
    BY <1>4, <2>1
  <2> QED BY <2>1, <2>2, <1>4, <1>5, StartFacts DEF Aligned
<1>12. GoodUpTo(j)'
  <2>1. ASSUME NEW i \in 1..j PROVE IsMessage(s[i])
    <3>1. CASE i <= k
      <4>1. i \in 1..k
        BY <3>1, <1>11
      <4> QED BY <4>1 DEF GoodUpTo, s
    <3>2. CASE ~(i <= k)
      <4>1. i - k \in 1..m /\ k + (i - k) = i
        BY <3>2, <1>11
      <4>2. \A l \in 1..m : IsMessage(s[k + l])
        BY <1>8 DEF Whole
      <4> QED BY <4>1, <4>2
    <3> QED BY <3>1, <3>2
  <2> QED BY <2>1, <1>1 DEF GoodUpTo, s
<1>13. ASSUME Lacks(b, s, k, m) PROVE got' = [i \in 1..j |-> s[i]]
  <2> DEFINE p == [i \in 1..k |-> s[i]]
             q == [i \in 1..m |-> s[k + i]]
             r == [i \in 1..j |-> s[i]]
             S == Seq(Int)
  <2>1. p \in Seq(S) /\ Len(p) = k /\ \A i \in 1..k : p[i] = s[i]
    BY <1>4, <1>11
  <2>2. q \in Seq(S) /\ Len(q) = m /\ \A i \in 1..m : q[i] = s[k + i]
    <3>1. \A i \in 1..m : k + i \in 1..Len(s)
      BY <1>11
    <3>2. \A i \in 1..m : s[k + i] \in S
      BY <3>1, <1>4
    <3> QED BY <3>2, <1>11
  <2>3. r \in Seq(S) /\ Len(r) = j /\ \A i \in 1..j : r[i] = s[i]
    <3>1. \A i \in 1..j : i \in 1..Len(s)
      BY <1>11
    <3>2. \A i \in 1..j : s[i] \in S
      BY <3>1, <1>4
    <3> HIDE DEF j
    <3> QED BY <3>2, <1>11
  <2>4. got' = p \o q
    BY <1>1, <1>3, <1>9, <1>13 DEF s
  <2> HIDE DEF p, q, r, S
  <2>5. /\ p \o q \in Seq(S) /\ Len(p \o q) = k + m
        /\ \A i \in 1..(k + m) : (p \o q)[i] = IF i <= k THEN p[i] ELSE q[i - k]
    <3>1. p \in Seq(S) /\ q \in Seq(S) /\ Len(p) = k /\ Len(q) = m
      BY <2>1, <2>2
    <3>2. /\ p \o q \in Seq(S) /\ Len(p \o q) = Len(p) + Len(q)
          /\ \A i \in 1..(Len(p) + Len(q)) :
               (p \o q)[i] = IF i <= Len(p) THEN p[i] ELSE q[i - Len(p)]
      BY ONLY <3>1, ConcatProperties
    <3> QED BY ONLY <3>1, <3>2
  <2>6. ASSUME NEW i \in 1..j PROVE (p \o q)[i] = s[i]
    <3>1. CASE i <= k
      <4>1. i \in 1..k
        BY <3>1, <1>11
      <4> QED BY <4>1, <3>1, <2>1, <2>5
    <3>2. CASE ~(i <= k)
      <4>1. i - k \in 1..m /\ k + (i - k) = i
        BY <3>2, <1>11
      <4> QED BY <4>1, <3>2, <2>2, <2>5
    <3> QED BY <3>1, <3>2
  <2>7. p \o q = r
    BY <2>3, <2>5, <2>6, SeqEqual
  <2> QED BY <2>4, <2>7 DEF r
<1>14. CASE Breaks(b, s, k, m)
  <2>1. j < Len(s) /\ ~IsMessage(s[j + 1]) /\ StartOf(s, j) + HeadSize <= o + b.size
    BY <1>14 DEF Breaks
  <2>2. j <= Len(got') /\ \A i \in 1..j : got'[i] = s[i]
    <3> DEFINE p == [i \in 1..k |-> s[i]]
               q == Parsed(b)
               c == Len(q)
    <3>1. p \in Seq(Seq(Int)) /\ Len(p) = k /\ \A i \in 1..k : p[i] = s[i]
      <4>1. \A i \in 1..k : s[i] \in Seq(Int)
        BY <1>4
      <4> QED BY <4>1, <1>11
    <3>2. PICK R : q \in Seq(R)
      BY <1>9
    <3>3. got' = p \o q
      BY <1>1, <1>3 DEF s
    <3>4. m <= c /\ c \in Nat /\ \A i \in 1..m : q[i] = s[k + i]
      BY <1>9, <3>2, LenProperties
    <3> HIDE DEF p, q
    <3>5. /\ \E Q : p \o q \in Seq(Q)
          /\ Len(p \o q) = k + c
          /\ \A i \in 1..(k + c) : (p \o q)[i] = IF i <= k THEN p[i] ELSE q[i - k]
      <4>2. PICK D : p \in Seq(D)
        BY <3>1
      <4>1. /\ p \o q \in Seq(D \cup R) /\ Len(p \o q) = Len(p) + Len(q)
            /\ \A i \in 1..(Len(p) + Len(q)) :
                 (p \o q)[i] = IF i <= Len(p) THEN p[i] ELSE q[i - Len(p)]
        BY ONLY <4>2, <3>2, ConcatAny
      <4> QED BY ONLY <4>1, <3>1
    <3> HIDE DEF c
    <3>6. k + m <= k + c /\ \A i \in 1..(k + m) : i \in 1..(k + c)
      BY ONLY <3>4, <1>11
    <3>7. ASSUME NEW i \in 1..(k + m) PROVE (p \o q)[i] = s[i]
      <4>1. CASE i <= k
        <5>1. i \in 1..k
          BY <4>1, <1>11
        <5> QED BY <5>1, <4>1, <3>1, <3>5, <3>6
      <4>2. CASE ~(i <= k)
        <5>1. i - k \in 1..m /\ k + (i - k) = i
          BY <4>2, <1>11
        <5> QED BY <5>1, <4>2, <3>4, <3>5, <3>6
      <4> QED BY <4>1, <4>2
    <3> QED BY <3>3, <3>5, <3>6, <3>7
  <2>3. OutOfStep(j)'
    BY <2>1, <2>2, <1>1, <1>7 DEF OutOfStep, s
  <2> QED BY <2>3, <1>1, <1>11, <1>12 DEF StepInv, s
<1>15. CASE Lacks(b, s, k, m)
  <2> DEFINE spot == StartOf(s, j) - o
             c == ParseData(b)
  <2>1. Turns(b)[b.size] = spot
    <3>1. CASE m = b.size
      <4>1. m \in 0..m
        BY <1>11
      <4> QED BY <4>1, <3>1, <1>10
    <3>2. CASE m # b.size
      <4>1. b.size \in (m + 1)..b.size
        BY <3>2, <1>10, <1>11
      <4> QED BY <4>1, <1>10, <1>15
    <3> QED BY <3>1, <3>2
  <2>2. spot \in Nat /\ spot # Broken
    <3>1. o <= StartOf(s, j)
      <4>1. \A i \in 1..Len(s) : Len(s[i]) >= 1
        <5> TAKE i \in 1..Len(s)
        <5>1. Len(s[i]) >= HeadSize /\ Len(s[i]) \in Nat
          BY <1>4 DEF IsFrame
        <5> QED BY <5>1 DEF HeadSize
      <4>2. j \in k..Len(s) /\ j - k = m
        BY <1>11
      <4> HIDE DEF j
      <4>3. StartOf(s, k) + (j - k) <= StartOf(s, j)
        BY <4>1, <4>2, <1>4, StartGrows
      <4> HIDE DEF o
      <4>4. o + m <= StartOf(s, j)
        BY <4>2, <4>3 DEF o
      <4> QED BY <4>4, <1>11
    <3> HIDE DEF o, j
    <3>2. spot \in Nat
      BY <3>1, <1>11
    <3> QED BY <3>2 DEF Broken
  <2> HIDE DEF spot, c
  <2>3. /\ c.size = b.size - spot /\ \A i \in 1..c.size : c.mem[i] = b.mem[spot + i]
        /\ spot \in 0..b.size
    BY <2>1, <2>2, <1>6, ParseDataIs DEF c
  <2>4. o + spot = StartOf(s, j)
    <3> HIDE DEF o, j
    <3> QED BY <1>11 DEF spot
  <2>5. StartOf(s, j) + c.size = o + b.size /\ c.size \in Nat
    <3> HIDE DEF o, j
    <3> QED BY <2>3, <2>4, <2>2, <1>11
  <2>6. Aligned(c, s, j)
    <3>1. /\ o + b.size <= Len(FlattenSeq(s))
          /\ \A i \in 1..b.size : b.mem[i] = FlattenSeq(s)[o + i]
      BY <1>5 DEF Aligned
    <3>2. ASSUME NEW i \in 1..c.size PROVE c.mem[i] = FlattenSeq(s)[StartOf(s, j) + i]
      <4> HIDE DEF o, j
      <4>1. spot + i \in 1..b.size /\ o + (spot + i) = StartOf(s, j) + i
        <5> DEFINE e == StartOf(s, j)
        <5>1. /\ spot \in 0..b.size /\ c.size = b.size - spot /\ i \in 1..c.size
              /\ o + spot = e /\ b.size \in Nat /\ o \in Nat
          BY <2>3, <2>4, <2>2, <1>11
        <5> HIDE DEF e, c, spot
        <5>2. spot + i \in 1..b.size /\ o + (spot + i) = e + i
          BY ONLY <5>1
        <5> QED BY <5>2 DEF e
      <4>2. b.mem[spot + i] = FlattenSeq(s)[o + (spot + i)]
        BY <3>1, <4>1
      <4> QED BY <4>1, <4>2, <2>3
    <3> QED BY <3>1, <3>2, <2>5 DEF Aligned
  <2>7. j < Len(s) => o + b.size < StartOf(s, j + 1)
    <3> SUFFICES ASSUME j < Len(s) PROVE o + b.size < StartOf(s, j + 1)
      OBVIOUS
    <3>1. \/ o + b.size < StartOf(s, j) + HeadSize
          \/ o + b.size < StartOf(s, j + 1)
      BY <1>11, <1>15 DEF Lacks
    <3>2. j \in 0..(Len(s) - 1) /\ j + 1 \in 1..Len(s)
      BY <1>11
    <3> HIDE DEF o, j
    <3>3. StartOf(s, j + 1) = StartOf(s, j) + Len(s[j + 1])
      BY <3>2, <1>4, StartFacts
    <3>4. Len(s[j + 1]) >= HeadSize /\ Len(s[j + 1]) \in Nat
      <4>1. IsFrame(s[j + 1])
        BY <3>2, <1>4
      <4> QED BY ONLY <4>1 DEF IsFrame
    <3> DEFINE c1 == StartOf(s, j)
               c2 == StartOf(s, j + 1)
               x == Len(s[j + 1])
               y == o + b.size
    <3>5. /\ y < c1 + 3 \/ y < c2
          /\ c2 = c1 + x /\ x >= 3 /\ x \in Nat /\ c1 \in Nat /\ y \in Nat
      <4>1. c1 \in Nat
        BY <1>11 DEF j
      <4>2. y \in Nat
        <5>1. o \in Nat /\ b.size \in Nat
          BY <1>11
        <5> QED BY ONLY <5>1
      <4> QED BY ONLY <3>1, <3>3, <3>4, <4>1, <4>2 DEF HeadSize
    <3> HIDE DEF c1, c2, x, y
    <3>6. y < c2
      BY ONLY <3>5
    <3> QED BY <3>6 DEF y, c2
  <2>8. InStep(j)'
    BY <2>5, <2>6, <2>7, <1>1, <1>7, <1>13, <1>15 DEF InStep, s, c
  <2> QED BY <2>8, <1>1, <1>11, <1>12 DEF StepInv, s
<1> QED BY <1>8, <1>14, <1>15

LEMMA OnReceiveKeeps ==
  ASSUME FrameInv, NEW n, OnReceive(n) PROVE FrameInv'
<1> DEFINE b == Filled(n)
<1>1. /\ sent' = sent /\ frameSess' = frameSess
      /\ n \in 1..Len(stream) /\ n <= RemainSize(recvBuf)
      /\ stream' = SubSeq(stream, n + 1, Len(stream))
      /\ got' = got \o Parsed(b) /\ recvBuf' = ParseData(b)
      /\ flooded' = (flooded \/ b.size > MaxLen)
  BY DEF OnReceive, Filled
<1>2. FrameType /\ StreamInv /\ BufferType(recvBuf) /\ stream \in Seq(Int)
      /\ sent \in Seq(Seq(Int))
  BY SentAre DEF FrameInv, FrameType
<1>3. BufferType(b) /\ Len(b.mem) = Len(recvBuf.mem)
  BY <1>1, <1>2, FilledIs
<1>4. BufferType(recvBuf') /\ Len(recvBuf'.mem) = Len(recvBuf.mem)
      /\ recvBuf'.size <= MaxLen
  BY <1>1, <1>3, ParseDataIs, ParseDataBounds
<1> HIDE DEF b
<1>5. PICK S : got \in Seq(S)
  BY <1>2 DEF FrameType
<1>6. PICK R : Parsed(b) \in Seq(R)
  BY <1>3, ParsedType
<1>7. /\ got' \in Seq(S \cup R) /\ Len(got') = Len(got) + Len(Parsed(b))
      /\ \A i \in 1..(Len(got) + Len(Parsed(b))) :
           got'[i] = IF i <= Len(got) THEN got[i] ELSE Parsed(b)[i - Len(got)]
  BY <1>1, <1>5, <1>6, ConcatAny
<1>8. /\ stream' \in Seq(Int) /\ Len(stream') = Len(stream) - n
      /\ \A i \in 1..(Len(stream) - n) : stream'[i] = stream[n + i]
  BY <1>1, <1>2, StreamRest
<1>9. FrameType'
  <2>1. \E Q : got' \in Seq(Q)
    BY <1>7
  <2> QED BY <2>1, <1>1, <1>2, <1>4, <1>8 DEF FrameType
<1> DEFINE F == Len(FlattenSeq(sent))
<1>10. /\ Arrived' = Arrived + n /\ Arrived = F - Len(stream) /\ F \in Nat
       /\ Len(stream) \in Nat /\ n \in Nat /\ n <= Len(stream) /\ Arrived \in Int
       /\ Len(stream) <= F
  <2>1. F \in Nat
    BY <1>2, FlattenType
  <2>2. Arrived = F - Len(stream) /\ Arrived' = F - Len(stream')
    BY <1>1 DEF Arrived
  <2>3. Len(stream) \in Nat /\ n \in Nat /\ n <= Len(stream)
    BY <1>1, <1>2
  <2>4. Len(stream) <= F
    BY <1>2 DEF StreamInv
  <2> HIDE DEF F
  <2> QED BY <2>1, <2>2, <2>3, <2>4, <1>8
<1> HIDE DEF F
<1>11. StreamInv'
  <2>1. Len(stream') <= F
    BY <1>8, <1>10
  <2>2. ASSUME NEW i \in 1..Len(stream') PROVE stream'[i] = FlattenSeq(sent)[Arrived' + i]
    <3> DEFINE l == Len(stream)
               a == Arrived
               c == Arrived'
    <3>0. i \in 1..(l - n) /\ l \in Nat /\ n \in Nat /\ n <= l /\ a \in Int /\ c = a + n
      BY <1>8, <1>10
    <3> HIDE DEF l, a, c
    <3>1. n + i \in 1..l /\ a + (n + i) = c + i
      BY ONLY <3>0
    <3>2. stream[n + i] = FlattenSeq(sent)[a + (n + i)]
      BY <3>1, <1>2 DEF StreamInv, l, a
    <3> QED BY <3>0, <3>1, <3>2, <1>8 DEF l, c
  <2> QED BY <2>1, <2>2, <1>1 DEF StreamInv, F
<1>12. StepInv'
  <2> SUFFICES ASSUME ~flooded, ~(b.size > MaxLen) PROVE StepInv'
    BY <1>1 DEF StepInv
  <2>1. PICK k \in 0..Len(sent) : GoodUpTo(k) /\ (InStep(k) \/ OutOfStep(k))
    BY DEF FrameInv, StepInv
  <2>2. CASE InStep(k)
    <3>1. b.size <= MaxLen
      BY <1>3, FramingAssumption DEF BufferType
    <3> QED BY <2>1, <2>2, <3>1, ReceiveInStep DEF b
  <2>3. CASE OutOfStep(k)
    <3>0. k \in 0..Len(sent) /\ k \in Nat
      BY <1>2
    <3>1. /\ k < Len(sent) /\ ~IsMessage(sent[k + 1])
          /\ StartOf(sent, k) + HeadSize <= Arrived
          /\ k <= Len(got) /\ \A i \in 1..k : got[i] = sent[i]
      BY <2>3 DEF OutOfStep
    <3>2. StartOf(sent, k) + HeadSize <= Arrived'
      <4>1. StartOf(sent, k) \in Nat
        BY <1>2, <3>0, StartFacts
      <4> QED BY <4>1, <3>1, <1>10 DEF HeadSize
    <3>3. k <= Len(got') /\ \A i \in 1..k : got'[i] = got[i]
      <4>1. Len(got) \in Nat /\ Len(Parsed(b)) \in Nat
        BY <1>5, <1>6, LenProperties
      <4>2. \A i \in 1..k : i \in 1..(Len(got) + Len(Parsed(b))) /\ i <= Len(got)
        BY <4>1, <3>0, <3>1
      <4> QED BY <4>1, <4>2, <3>0, <3>1, <1>7
    <3>4. OutOfStep(k)'
      BY <3>1, <3>2, <3>3, <1>1 DEF OutOfStep
    <3>5. GoodUpTo(k)'
      BY <2>1, <1>1 DEF GoodUpTo
    <3> QED BY <3>0, <3>4, <3>5, <1>1 DEF StepInv
  <2> QED BY <2>1, <2>2, <2>3
<1>13. GivenUpInv'
  BY <1>1, <1>4 DEF FrameInv, GivenUpInv, GoodUpTo
<1>14. FloodInv'
  <2>1. b.size <= Len(recvBuf.mem) /\ b.size \in Nat /\ Len(recvBuf.mem) \in Nat
    BY <1>2, <1>3 DEF BufferType
  <2>2. b.size > MaxLen => Len(recvBuf.mem) > MaxLen
    BY <2>1, FramingAssumption
  <2> QED BY <2>2, <1>1, <1>4 DEF FrameInv, FloodInv
<1> QED BY <1>9, <1>11, <1>12, <1>13, <1>14 DEF FrameInv

LEMMA OnFullKeeps == ASSUME FrameInv, OnFull PROVE FrameInv'
<1>1. /\ frameSess' = "closed" /\ IsFull(recvBuf)
      /\ UNCHANGED <<frameNet, recvBuf, stream, sent, got, flooded>>
  BY DEF OnFull
<1>2. FrameType' /\ StreamInv' /\ StepInv' /\ FloodInv'
  <2>1. FrameType'
    BY <1>1 DEF FrameInv, FrameType
  <2>2. StreamInv'
    BY <1>1 DEF FrameInv, StreamInv, Arrived
  <2>3. ASSUME NEW k PROVE (InStep(k)' <=> InStep(k)) /\ (OutOfStep(k)' <=> OutOfStep(k))
                           /\ (GoodUpTo(k)' <=> GoodUpTo(k))
    BY <1>1 DEF InStep, OutOfStep, GoodUpTo, Arrived
  <2>4. StepInv'
    BY <1>1, <2>3 DEF FrameInv, StepInv
  <2>5. FloodInv'
    BY <1>1 DEF FrameInv, FloodInv
  <2> QED BY <2>1, <2>2, <2>4, <2>5
<1>3. GivenUpInv'
  <2> DEFINE room == Len(recvBuf.mem)
             z == recvBuf.size
  <2> SUFFICES ASSUME GoodUpTo(Len(sent))
               PROVE  \E i \in 1..Len(sent) : Len(sent[i]) > room
    BY <1>1 DEF GivenUpInv, GoodUpTo
  <2>2. sent \in Seq(Seq(Int)) /\ FrameType /\ StreamInv /\ Len(sent) \in Nat
    BY SentAre DEF FrameInv, FrameType
  <2>4. z = room /\ room \in Nat \ {0}
    <3>1. z \in Nat /\ z <= room /\ z >= room /\ room \in Nat \ {0}
      BY <1>1, <2>2, FramingAssumption DEF IsFull, MaxSize, FrameType, BufferType
    <3> HIDE DEF z, room
    <3> QED BY <3>1
  <2>11. ~flooded
    <3>1. z <= MaxLen /\ MaxLen \in Nat /\ (flooded => room > MaxLen)
      BY FramingAssumption DEF FrameInv, FloodInv
    <3> HIDE DEF z, room
    <3> QED BY ONLY <3>1, <2>4
  <2>1. PICK k \in 0..Len(sent) : GoodUpTo(k) /\ (InStep(k) \/ OutOfStep(k))
    BY <2>11 DEF FrameInv, StepInv
  <2>3. InStep(k)
    <3>1. ASSUME k < Len(sent) PROVE IsMessage(sent[k + 1])
      <4>1. k + 1 \in 1..Len(sent)
        BY <2>2, <3>1
      <4> QED BY <4>1 DEF GoodUpTo
    <3> QED BY <2>1, <3>1 DEF OutOfStep
  <2> DEFINE o == StartOf(sent, k)
  <2>5. o + z = Arrived /\ o \in Nat /\ o + z <= Len(FlattenSeq(sent))
    BY <2>2, <2>3, StartFacts DEF InStep, Aligned
  <2>6. k < Len(sent)
    <3>1. ASSUME k = Len(sent) PROVE FALSE
      <4>1. o = Len(FlattenSeq(sent))
        BY <2>2, <3>1, StartFacts
      <4> HIDE DEF o, z, room
      <4> QED BY <4>1, <2>4, <2>5
    <3> QED BY <2>2, <3>1
  <2>7. o + z < StartOf(sent, k + 1)
    BY <2>3, <2>5, <2>6 DEF InStep
  <2>8. k + 1 \in 1..Len(sent) /\ k \in 0..(Len(sent) - 1)
    BY <2>2, <2>6
  <2>9. StartOf(sent, k + 1) = o + Len(sent[k + 1]) /\ Len(sent[k + 1]) \in Nat
    BY <2>2, <2>8, StartFacts
  <2> HIDE DEF o, z, room
  <2>10. Len(sent[k + 1]) > room
    BY <2>4, <2>5, <2>7, <2>9
  <2> QED BY <2>8, <2>10
<1> QED BY <1>2, <1>3 DEF FrameInv

LEMMA FrameStep == FrameInv /\ [FrameNext]_frameVars => FrameInv'
<1> SUFFICES ASSUME FrameInv, [FrameNext]_frameVars PROVE FrameInv'
  OBVIOUS
<1>1. ASSUME NEW f \in Frames, PeerSends(f) PROVE FrameInv'
  BY <1>1, PeerSendsKeeps
<1>2. ASSUME NEW n, OnReceive(n) PROVE FrameInv'
  BY <1>2, OnReceiveKeeps
<1>3. CASE OnFull
  BY <1>3, OnFullKeeps
<1>4. CASE UNCHANGED frameVars
  <2>1. UNCHANGED <<frameNet, frameSess, recvBuf, stream, sent, got, flooded>>
    BY <1>4 DEF frameVars
  <2>2. ASSUME NEW k PROVE (InStep(k)' <=> InStep(k)) /\ (OutOfStep(k)' <=> OutOfStep(k))
                           /\ (GoodUpTo(k)' <=> GoodUpTo(k))
    BY <2>1 DEF InStep, OutOfStep, GoodUpTo, Arrived
  <2>3. FrameType'
    BY <2>1 DEF FrameInv, FrameType
  <2>4. StreamInv'
    BY <2>1 DEF FrameInv, StreamInv, Arrived
  <2>5. StepInv'
    BY <2>1, <2>2 DEF FrameInv, StepInv
  <2>6. GivenUpInv'
    BY <2>1 DEF FrameInv, GivenUpInv, GoodUpTo
  <2>7. FloodInv'
    BY <2>1 DEF FrameInv, FloodInv
  <2> QED BY <2>3, <2>4, <2>5, <2>6, <2>7 DEF FrameInv
<1> QED BY <1>1, <1>2, <1>3, <1>4 DEF FrameNext

\* The messages that arrived whole: those up to the last one.
Arrivals == {k \in 0..Len(sent) : StartOf(sent, k) <= Arrived}

LEMMA LastArrival ==
  ASSUME Len(sent) \in Nat, NEW w \in Arrivals
  PROVE  LET k == CHOOSE k \in Arrivals : \A j \in Arrivals : j <= k
         IN  k \in Arrivals /\ \A j \in Arrivals : j <= k
<1> DEFINE l == Len(sent)
           P == {d \in Nat : d <= l /\ l - d \in Arrivals}
<1>1. l \in Nat /\ \A j \in Arrivals : j \in 0..l
  BY DEF Arrivals
<1> HIDE DEF l
<1>2. \A j \in Arrivals : l - j \in Nat /\ l - j <= l /\ l - (l - j) = j
  BY <1>1
<1>3. \A j \in Arrivals : l - j \in P
  BY <1>2
<1>4. PICK d \in P : \A e \in P : d <= e
  <2>1. P # {} /\ P \subseteq Nat
    BY <1>3
  <2> HIDE DEF P
  <2> QED BY <2>1, Least
<1>5. d \in Nat /\ d <= l /\ l - d \in Arrivals
  OBVIOUS
<1>6. \A j \in Arrivals : d <= l - j
  BY <1>3, <1>4
<1>7. \A j \in Arrivals : j <= l - d
  BY <1>1, <1>5, <1>6
<1>8. \E k \in Arrivals : \A j \in Arrivals : j <= k
  BY <1>5, <1>7
<1> QED BY <1>8

\* Where messages end in the stream, as FramesIntact says it.
LEMMA SubSeqIsUpTo ==
  ASSUME NEW S, NEW s \in Seq(S), NEW k \in 0..Len(s)
  PROVE  SubSeq(s, 1, k) = UpTo(s, k)
<1>1. \A i \in 1..k : s[i] \in S
  OBVIOUS
<1>2. k \in Nat
  OBVIOUS
<1>3. /\ SubSeq(s, 1, k) \in Seq(S) /\ Len(SubSeq(s, 1, k)) = IF 1 <= k THEN k - 1 + 1 ELSE 0
      /\ \A i \in 1..(k - 1 + 1) : SubSeq(s, 1, k)[i] = s[1 + i - 1]
  BY <1>1, <1>2, SubSeqProperties
<1> DEFINE q == SubSeq(s, 1, k)
<1>4. Len(q) = k /\ \A i \in 1..k : q[i] = s[i]
  <2>1. (IF 1 <= k THEN k - 1 + 1 ELSE 0) = k
    BY <1>2
  <2>2. \A i \in 1..k : i \in 1..(k - 1 + 1) /\ 1 + i - 1 = i
    BY <1>2
  <2> QED BY <2>1, <2>2, <1>3
<1>5. q \in Seq(S)
  BY <1>3
<1> HIDE DEF q
<1>6. UpTo(s, k) \in Seq(S) /\ Len(UpTo(s, k)) = k /\ \A i \in 1..k : UpTo(s, k)[i] = s[i]
  BY <1>1, <1>2 DEF UpTo
<1>7. q = UpTo(s, k)
  BY <1>4, <1>5, <1>6, SeqEqual
<1> QED BY <1>7 DEF q

\* In step, the message the session is at is the last that arrived whole.
LEMMA InStepIsLast ==
  ASSUME FrameInv, NEW k \in 0..Len(sent), InStep(k)
  PROVE  k \in Arrivals /\ \A j \in Arrivals : j <= k
<1>1. /\ sent \in Seq(Seq(Int)) /\ Len(sent) \in Nat
      /\ \A i \in 1..Len(sent) : Len(sent[i]) >= 1
  <2>1. sent \in Seq(Seq(Int)) /\ \A i \in 1..Len(sent) : IsFrame(sent[i])
    BY SentAre DEF FrameInv, FrameType
  <2>2. ASSUME NEW i \in 1..Len(sent) PROVE Len(sent[i]) >= 1
    <3>1. IsFrame(sent[i])
      BY <2>1
    <3> QED BY ONLY <3>1, FrameIs
  <2> QED BY <2>1, <2>2
<1>2. /\ StartOf(sent, k) \in Nat /\ recvBuf.size \in Nat
      /\ StartOf(sent, k) + recvBuf.size = Arrived
      /\ k < Len(sent) => Arrived < StartOf(sent, k + 1)
  BY <1>1, StartFacts DEF InStep, Aligned
<1>3. k \in Arrivals
  <2> DEFINE o == StartOf(sent, k)
             z == recvBuf.size
  <2> HIDE DEF o, z
  <2>1. o \in Nat /\ z \in Nat /\ Arrived = o + z
    BY <1>2 DEF o, z
  <2>2. o <= Arrived
    BY ONLY <2>1
  <2> QED BY <2>2 DEF Arrivals, o
<1>4. ASSUME NEW j \in Arrivals PROVE j <= k
  <2>1. j \in 0..Len(sent) /\ StartOf(sent, j) <= Arrived
    BY DEF Arrivals
  <2>2. ASSUME k < j PROVE FALSE
    <3>1. k + 1 \in 0..Len(sent) /\ j \in (k + 1)..Len(sent) /\ k < Len(sent)
      BY <1>1, <2>1, <2>2
    <3> DEFINE m == k + 1
               a == StartOf(sent, m)
               c == StartOf(sent, j)
    <3>2. m \in 0..Len(sent) /\ j \in m..Len(sent)
      BY <3>1
    <3> HIDE DEF m
    <3>3. a + (j - m) <= c /\ a \in Nat /\ c \in Nat
      BY <1>1, <2>1, <3>2, StartGrows, StartFacts
    <3>4. Arrived < a /\ c <= Arrived /\ Arrived \in Int
      BY <1>2, <2>1, <3>1 DEF m
    <3>5. j - m \in Nat
      BY <1>1, <3>2
    <3> HIDE DEF a, c
    <3> QED BY ONLY <3>3, <3>4, <3>5
  <2> QED BY <2>1, <2>2
<1> QED BY <1>3, <1>4

LEMMA FrameInvImplies == FrameInv => FramesIntact
<1> SUFFICES ASSUME FrameInv PROVE FramesIntact
  OBVIOUS
<1> DEFINE Good(k) == \A i \in 1..k : IsMessage(sent[i])
           Start(k) == Len(FlattenSeq(SubSeq(sent, 1, k)))
           arrived == Start(Len(sent)) - Len(stream)
           whole == {k \in 0..Len(sent) : Start(k) <= arrived}
           last == CHOOSE k \in whole : \A j \in whole : j <= k
<1>1. sent \in Seq(Seq(Int)) /\ FrameType /\ Len(sent) \in Nat
  BY SentAre DEF FrameInv, FrameType
<1>2. \A k \in 0..Len(sent) : SubSeq(sent, 1, k) = UpTo(sent, k)
  BY <1>1, SubSeqIsUpTo
<1>3. \A k \in 0..Len(sent) : Start(k) = StartOf(sent, k)
  BY <1>2 DEF StartOf
<1>4. arrived = Arrived
  <2>1. Len(sent) \in 0..Len(sent)
    BY <1>1
  <2>2. Start(Len(sent)) = Len(FlattenSeq(sent))
    BY <2>1, <1>1, <1>3, StartFacts
  <2> HIDE DEF Start
  <2> QED BY <2>2 DEF Arrived
<1> HIDE DEF Start, arrived
<1>5. whole = Arrivals
  BY <1>3, <1>4 DEF Arrivals
<1>14. ASSUME frameSess = "closed", Good(Len(sent))
       PROVE  \E f \in ToSet(sent) : Len(f) > MaxSize(recvBuf)
  <2>1. PICK i \in 1..Len(sent) : Len(sent[i]) > MaxSize(recvBuf)
    BY <1>14 DEF FrameInv, GivenUpInv, GoodUpTo, MaxSize
  <2>2. sent[i] \in ToSet(sent)
    BY <1>1 DEF ToSet
  <2> QED BY <2>1, <2>2
<1>15. flooded => MaxSize(recvBuf) > MaxLen
  BY DEF FrameInv, FloodInv, MaxSize
<1>16. CASE flooded
  <2> HIDE DEF Good
  <2> QED BY <1>14, <1>15, <1>16 DEF FramesIntact, Good, IsMessage
<1> SUFFICES ASSUME ~flooded PROVE FramesIntact
  BY <1>16
<1>6. PICK k \in 0..Len(sent) : GoodUpTo(k) /\ (InStep(k) \/ OutOfStep(k))
  BY DEF FrameInv, StepInv
<1>7. k \in Arrivals /\ k \in Nat
  <2>1. CASE InStep(k)
    BY <2>1, InStepIsLast
  <2>2. CASE OutOfStep(k)
    <3>1. StartOf(sent, k) \in Nat /\ StartOf(sent, k) + 3 <= Arrived /\ Arrived \in Int
      <4>1. Len(FlattenSeq(sent)) \in Nat /\ Len(stream) \in Nat
        BY <1>1, FlattenType DEF FrameType
      <4> QED BY <4>1, <1>1, <2>2, StartFacts DEF OutOfStep, HeadSize, Arrived
    <3> DEFINE o == StartOf(sent, k)
    <3> HIDE DEF o
    <3>2. o <= Arrived
      BY <3>1 DEF o
    <3> QED BY <3>2 DEF Arrivals, o
  <2> QED BY <1>6, <2>1, <2>2
<1>8. last \in Arrivals /\ \A j \in Arrivals : j <= last
  <2>1. last = CHOOSE m \in Arrivals : \A j \in Arrivals : j <= m
    BY <1>5
  <2> HIDE DEF last
  <2> QED BY <2>1, <1>1, <1>7, LastArrival
<1> HIDE DEF whole, last
<1>9. last \in 0..Len(sent) /\ k <= last
  BY <1>7, <1>8 DEF Arrivals
<1>10. InStep(k) => last = k
  <2>1. InStep(k) => last <= k
    BY <1>8, InStepIsLast
  <2> QED BY <2>1, <1>1, <1>7, <1>9
<1>11. ASSUME OutOfStep(k), Good(last)
       PROVE  last = k /\ ~Good(last + 1) /\ last < Len(sent) /\ ~(arrived < Start(last) + HeadSize)
  <2>1. /\ k < Len(sent) /\ ~IsMessage(sent[k + 1]) /\ StartOf(sent, k) + HeadSize <= Arrived
    BY <1>11 DEF OutOfStep
  <2>2. ~(k < last)
    <3>1. k < last => k + 1 \in 1..last
      BY <1>7, <1>9
    <3> QED BY <3>1, <2>1, <1>11
  <2>3. last = k
    BY <2>2, <1>1, <1>7, <1>9
  <2>4. k + 1 \in 1..(k + 1)
    BY <1>7
  <2>5. ~Good(k + 1)
    BY <2>1, <2>4
  <2>6. ~(arrived < Start(k) + HeadSize)
    <3> DEFINE o == StartOf(sent, k)
    <3>1. o \in Nat /\ Start(k) = o /\ arrived \in Int /\ o + 3 <= arrived
      <4>1. Len(FlattenSeq(sent)) \in Nat /\ Len(stream) \in Nat
        BY <1>1, FlattenType DEF FrameType
      <4>2. arrived \in Int
        BY <4>1, <1>4 DEF Arrived
      <4> QED BY <4>2, <1>1, <1>3, <1>4, <2>1, StartFacts DEF HeadSize
    <3> HIDE DEF o
    <3> QED BY <3>1 DEF HeadSize
  <2> QED BY <2>1, <2>3, <2>5, <2>6
<1>12. ASSUME Good(last), last < Len(sent) => arrived < Start(last) + HeadSize \/ Good(last + 1)
       PROVE  /\ got = SubSeq(sent, 1, last)
              /\ Contents(recvBuf) = SubSeq(FlattenSeq(sent), Start(last) + 1, arrived)
  <2>1. InStep(k) /\ last = k
    BY <1>6, <1>10, <1>11, <1>12
  <2>2. got = SubSeq(sent, 1, last)
    BY <2>1, <1>2 DEF InStep, UpTo
  <2> DEFINE F == FlattenSeq(sent)
             o == StartOf(sent, k)
             z == recvBuf.size
             M == recvBuf.mem
             lo == o + 1
             p == SubSeq(M, 1, z)
             q == SubSeq(F, lo, arrived)
  <2>3. /\ F \in Seq(Int) /\ o \in Nat /\ z \in Nat /\ M \in Seq(Int) /\ z <= Len(M)
        /\ o + z <= Len(F) /\ arrived = o + z /\ Start(last) = o
        /\ \A i \in 1..z : M[i] = F[o + i]
    <3>1. F \in Seq(Int) /\ o \in Nat /\ Start(last) = o
      BY <1>1, <1>3, <2>1, StartFacts, FlattenType
    <3>2. z \in Nat /\ M \in Seq(Int) /\ z <= Len(M)
      BY <1>1 DEF FrameType, BufferType
    <3>3. o + z <= Len(F) /\ arrived = o + z /\ \A i \in 1..z : M[i] = F[o + i]
      BY <1>4, <2>1 DEF InStep, Aligned
    <3> QED BY <3>1, <3>2, <3>3
  <2> HIDE DEF F, o, z, M
  <2>4. /\ (\A i \in 1..z : M[i] \in Int /\ 1 + i - 1 = i /\ lo + i - 1 = o + i)
        /\ (\A i \in lo..arrived : F[i] \in Int) /\ lo \in Int /\ arrived \in Int
        /\ z - 1 + 1 = z /\ arrived - lo + 1 = z /\ (~(1 <= z) => z = 0)
        /\ (lo <= arrived <=> 1 <= z)
    <3>1. \A i \in 1..z : i \in 1..Len(M)
      BY <2>3
    <3>2. \A i \in lo..arrived : i \in 1..Len(F)
      BY <2>3
    <3>3. /\ \A i \in 1..z : M[i] \in Int
          /\ \A i \in lo..arrived : F[i] \in Int
      <4>1. M \in Seq(Int) /\ F \in Seq(Int)
        BY <2>3
      <4>2. ASSUME NEW i \in 1..z PROVE M[i] \in Int
        BY <4>1, <3>1
      <4>3. ASSUME NEW i \in lo..arrived PROVE F[i] \in Int
        BY <4>1, <3>2
      <4> QED BY <4>2, <4>3
    <3>4. o \in Nat /\ z \in Nat /\ arrived = o + z
      BY <2>3
    <3>5. /\ (\A i \in 1..z : 1 + i - 1 = i /\ lo + i - 1 = o + i)
          /\ lo \in Int /\ arrived \in Int
          /\ z - 1 + 1 = z /\ arrived - lo + 1 = z /\ (~(1 <= z) => z = 0)
          /\ (lo <= arrived <=> 1 <= z)
      BY ONLY SMTT(30), <3>4 DEF lo
    <3> QED BY <3>3, <3>5
  <2> HIDE DEF lo
  <2>5. p \in Seq(Int) /\ Len(p) = z /\ \A i \in 1..z : p[i] = M[i]
    <3>1. /\ p \in Seq(Int) /\ Len(p) = IF 1 <= z THEN z - 1 + 1 ELSE 0
          /\ \A i \in 1..(z - 1 + 1) : p[i] = M[1 + i - 1]
      <4>1. 1 \in Int /\ z \in Int /\ \A i \in 1..z : M[i] \in Int
        BY <2>3, <2>4
      <4> QED BY ONLY <4>1, SubSeqProperties
    <3> HIDE DEF p
    <3> QED BY <2>4, <3>1
  <2>6. q \in Seq(Int) /\ Len(q) = z /\ \A i \in 1..z : q[i] = F[o + i]
    <3>1. /\ q \in Seq(Int) /\ Len(q) = IF lo <= arrived THEN arrived - lo + 1 ELSE 0
          /\ \A i \in 1..(arrived - lo + 1) : q[i] = F[lo + i - 1]
      <4>1. lo \in Int /\ arrived \in Int /\ \A i \in lo..arrived : F[i] \in Int
        BY <2>4
      <4> QED BY ONLY <4>1, SubSeqProperties
    <3> HIDE DEF q
    <3> QED BY <2>4, <3>1
  <2> HIDE DEF p, q
  <2>7. p = q
    BY <2>3, <2>5, <2>6, SeqEqual
  <2>8. Contents(recvBuf) = p
    BY DEF Contents, p, M, z
  <2> QED BY <2>2, <2>3, <2>7, <2>8 DEF q, F, lo
<1>13. ASSUME NEW j \in whole, Good(j) PROVE IsPrefix(SubSeq(sent, 1, j), got)
  <2>1. j \in Arrivals /\ j \in 0..Len(sent) /\ j \in Nat
    BY <1>5 DEF Arrivals
  <2>2. j <= k
    <3>1. CASE InStep(k)
      BY <3>1, <2>1, InStepIsLast
    <3>2. CASE OutOfStep(k)
      <4>1. ~IsMessage(sent[k + 1])
        BY <3>2 DEF OutOfStep
      <4>2. k < j => k + 1 \in 1..j
        BY <1>7, <2>1
      <4> QED BY <4>1, <4>2, <1>7, <1>13, <2>1
    <3> QED BY <1>6, <3>1, <3>2
  <2>3. k <= Len(got) /\ Len(got) \in Nat /\ \A i \in 1..k : got[i] = sent[i]
    <3>1. CASE InStep(k)
      BY <3>1, <1>7 DEF InStep
    <3>2. CASE OutOfStep(k)
      <4>1. Len(got) \in Nat
        BY <1>1, LenProperties DEF FrameType
      <4> QED BY <4>1, <3>2 DEF OutOfStep
    <3> QED BY <1>6, <3>1, <3>2
  <2>4. PICK S : got \in Seq(S)
    BY <1>1 DEF FrameType
  <2>5. SubSeq(got, 1, j) = UpTo(got, j)
    <3>1. j \in 0..Len(got)
      BY <2>1, <2>2, <2>3, <1>7
    <3> QED BY <3>1, <2>4, SubSeqIsUpTo
  <2>6. UpTo(got, j) = UpTo(sent, j)
    <3>1. \A i \in 1..j : i \in 1..k
      BY <1>7, <2>1, <2>2
    <3>2. \A i \in 1..j : got[i] = sent[i]
      BY <3>1, <2>3
    <3> QED BY <3>2 DEF UpTo
  <2> DEFINE u == UpTo(sent, j)
  <2>7. SubSeq(sent, 1, j) = u
    BY <2>1, <1>2
  <2>8. u \in Seq(Seq(Int)) /\ Len(u) = j
    <3>1. u \in Seq(Seq(Int))
      BY <2>1, <1>1, UpToFacts
    <3>2. Len(u) = j
      BY <2>1 DEF UpTo
    <3> QED BY <3>1, <3>2
  <2> HIDE DEF u
  <2>9. SubSeq(u, 1, j) = u
    <3>1. j \in 0..Len(u) /\ SubSeq(u, 1, j) = UpTo(u, j)
      BY <2>1, <2>8, SubSeqIsUpTo
    <3> QED BY <3>1, <2>8, UpToFacts
  <2>10. j <= Len(got)
    BY <1>7, <2>1, <2>2, <2>3
  <2>11. Len(u) <= Len(got) /\ SubSeq(u, 1, Len(u)) = SubSeq(got, 1, Len(u))
    BY <2>5, <2>6, <2>8, <2>9, <2>10 DEF u
  <2> QED BY <2>7, <2>11 DEF IsPrefix
<1> HIDE DEF Good
<1> QED BY <1>12, <1>13, <1>14, <1>15 DEF FramesIntact, Good, IsMessage, Start, arrived, whole, last

\* Of a peer that keeps to the protocol, the network passes on exactly the
\* messages that arrived whole, in order and unchanged, and keeps the beginning
\* of the next one, whatever the pieces the stream arrives in, for every size
\* of the buffer and every set of messages; of any peer, up to the first thing
\* that is no message or to the first time that more than MaxLen lies in the
\* buffer, which only a buffer larger than MaxLen can come to; and the session of
\* a peer that keeps to the protocol is given up only for a message its buffer
\* cannot hold.
\* About: ParseData, MoveDataForWard, AddSize, and the read callback.
THEOREM FramesIntactAlways == FrameSpec => []FramesIntact
<1>1. FrameInit => FrameInv
  BY FrameInitially
<1>2. FrameInv /\ [FrameNext]_frameVars => FrameInv'
  BY FrameStep
<1>3. FrameInv => FramesIntact
  BY FrameInvImplies
<1> QED BY <1>1, <1>2, <1>3, PTL DEF FrameSpec

-----------------------------------------------------------------------------
(* The synchronous connection.                                              *)

\* The statements of the first n calls.
Earlier(n) == (0..(n - 1)) \X {1, 2}

\* A connection whose statements are among X; if it is there, it works in the
\* database d.
IsSession(s, d, X) ==
  /\ s = [link |-> s.link, inTrans |-> s.inTrans, trans |-> s.trans, db |-> s.db,
          work |-> s.work, kept |-> s.kept, dropped |-> s.dropped,
          gaveUp |-> s.gaveUp]
  /\ s.link \in {"null", "up", "lost"} /\ s.trans \in BOOLEAN /\ s.inTrans \in BOOLEAN
  /\ s.dropped \in BOOLEAN /\ s.gaveUp \in BOOLEAN
  /\ s.work \subseteq X /\ s.kept \subseteq X
  /\ s.link # "null" => s.db = d

\* A transaction that nobody undid is the server's: its work is what succeeded,
\* and nothing of it is kept yet.
Ours(s, a, m, c) ==
  a = "in" /\ ~s.dropped /\ ~s.gaveUp =>
    /\ s.link = "up" /\ s.trans
    /\ m \ c = s.work /\ m \cap s.kept = {}

KeepsTrans(s, a, m, c, d, X) ==
  /\ IsSession(s, d, X) /\ Ours(s, a, m, c)
  /\ m \subseteq X /\ c \subseteq X

\* What the caller was told.
OutcomeInv ==
  ~dropped /\ ~gaveUp =>
    /\ outcome = "committed" => mine \ cut \subseteq committed
    /\ outcome = "rolled back" => mine \cap committed = {}

SyncInv ==
  /\ syncCalls \in Nat /\ app \in {"in", "out"}
  /\ KeepsTrans(Session, app, mine, cut, m_db, Earlier(syncCalls))
  /\ OutcomeInv

LEMMA SessionIs ==
  /\ Session.link = link /\ Session.inTrans = inTrans /\ Session.trans = srvTrans
  /\ Session.db = srvDb /\ Session.work = work /\ Session.kept = committed
  /\ Session.dropped = dropped /\ Session.gaveUp = gaveUp
BY DEF Session

LEMMA SetIs ==
  ASSUME NEW s, NEW d, NEW X, IsSession(s, d, X), Set(s)
  PROVE  Session' = s
BY DEF IsSession, Set, Session

\* A session that was lost or rolled back owes its caller nothing.
LEMMA Undone ==
  ASSUME NEW s, NEW d, NEW X, IsSession(s, d, X), NEW a, NEW m, NEW c,
         m \subseteq X, c \subseteq X
  PROVE  /\ s.link # "null" => /\ KeepsTrans(Lost(s), a, m, c, d, X)
                               /\ Lost(s).link = "lost" /\ Lost(s).kept = s.kept
                               /\ Lost(s).dropped /\ Lost(s).gaveUp = s.gaveUp
         /\ KeepsTrans(RolledBack(s), a, m, c, d, X)
         /\ RolledBack(s).link = s.link
         /\ RolledBack(s).gaveUp /\ RolledBack(s).dropped = s.dropped
<1>0. PICK l, r : l = Lost(s) /\ r = RolledBack(s)
  OBVIOUS
<1>1. /\ l.work = {} /\ l.kept = s.kept /\ l.link = "lost" /\ l.trans = FALSE
      /\ l.inTrans = s.inTrans /\ l.dropped = TRUE /\ l.gaveUp = s.gaveUp
      /\ l.db = s.db
      /\ l = [link |-> l.link, inTrans |-> l.inTrans, trans |-> l.trans, db |-> l.db,
              work |-> l.work, kept |-> l.kept, dropped |-> l.dropped,
              gaveUp |-> l.gaveUp]
  <2>1. l = [link |-> "lost", inTrans |-> s.inTrans, trans |-> FALSE, db |-> s.db,
             work |-> {}, kept |-> s.kept, dropped |-> TRUE, gaveUp |-> s.gaveUp]
    BY <1>0 DEF IsSession, Lost
  <2> QED
    BY <2>1
<1>2. /\ r.work = {} /\ r.kept = s.kept /\ r.link = s.link /\ r.trans = FALSE
      /\ r.inTrans = s.inTrans /\ r.dropped = s.dropped /\ r.gaveUp = TRUE
      /\ r.db = s.db
      /\ r = [link |-> r.link, inTrans |-> r.inTrans, trans |-> r.trans, db |-> r.db,
              work |-> r.work, kept |-> r.kept, dropped |-> r.dropped,
              gaveUp |-> r.gaveUp]
  <2>1. r = [link |-> s.link, inTrans |-> s.inTrans, trans |-> FALSE, db |-> s.db,
             work |-> {}, kept |-> s.kept, dropped |-> s.dropped, gaveUp |-> TRUE]
    BY <1>0 DEF IsSession, RolledBack
  <2> QED
    BY <2>1
<1>3. ASSUME s.link # "null" PROVE KeepsTrans(l, a, m, c, d, X)
  BY <1>1, <1>3 DEF KeepsTrans, IsSession, Ours
<1>4. KeepsTrans(r, a, m, c, d, X)
  BY <1>2 DEF KeepsTrans, IsSession, Ours
<1> QED
  BY <1>0, <1>1, <1>2, <1>3, <1>4

LEMMA HeardKeeps ==
  ASSUME NEW s, NEW d, NEW X, NEW a, NEW m, NEW c, KeepsTrans(s, a, m, c, d, X)
  PROVE  /\ KeepsTrans(Heard(s), a, m, c, d, X)
         /\ Heard(s).link = s.link /\ Heard(s).kept = s.kept
         /\ Heard(s).dropped = s.dropped /\ Heard(s).gaveUp = s.gaveUp
<1>1. /\ Heard(s).work = s.work /\ Heard(s).kept = s.kept /\ Heard(s).link = s.link
      /\ Heard(s).trans = s.trans /\ Heard(s).inTrans = s.trans
      /\ Heard(s).dropped = s.dropped /\ Heard(s).gaveUp = s.gaveUp
      /\ Heard(s).db = s.db
      /\ Heard(s) = [link |-> s.link, inTrans |-> s.trans, trans |-> s.trans,
                     db |-> s.db, work |-> s.work, kept |-> s.kept,
                     dropped |-> s.dropped, gaveUp |-> s.gaveUp]
  BY DEF KeepsTrans, IsSession, Heard
<1> QED
  BY <1>1 DEF KeepsTrans, IsSession, Ours

\* A session may follow on s: it keeps the same statements, and what cost s its
\* transaction is not forgotten.
Follows(s, t) ==
  t.kept = s.kept /\ (s.dropped => t.dropped) /\ (s.gaveUp => t.gaveUp)

LEMMA ResentKeeps ==
  ASSUME NEW s, NEW d, NEW X, NEW a, NEW m, NEW c, KeepsTrans(s, a, m, c, d, X),
         s.link = "lost", NEW t \in Resent(s)
  PROVE  KeepsTrans(t, a, m, c, d, X) /\ Follows(s, t)
<1>1. t \in {s, [s EXCEPT !.inTrans = FALSE], [s EXCEPT !.link = "up"]}
  BY DEF Resent
<1>2. CASE t = s
  BY <1>2 DEF Follows
<1>3. CASE t = [s EXCEPT !.inTrans = FALSE]
  <2>1. t = [link |-> s.link, inTrans |-> FALSE, trans |-> s.trans, db |-> s.db,
             work |-> s.work, kept |-> s.kept, dropped |-> s.dropped,
             gaveUp |-> s.gaveUp]
    BY <1>3 DEF KeepsTrans, IsSession
  <2>2. /\ t.link = s.link /\ t.inTrans = FALSE /\ t.trans = s.trans /\ t.db = s.db
        /\ t.work = s.work /\ t.kept = s.kept /\ t.dropped = s.dropped
        /\ t.gaveUp = s.gaveUp
    BY <2>1
  <2> QED
    BY <2>1, <2>2 DEF KeepsTrans, IsSession, Ours, Follows
<1>4. CASE t = [s EXCEPT !.link = "up"]
  <2>1. t = [link |-> "up", inTrans |-> s.inTrans, trans |-> s.trans, db |-> s.db,
             work |-> s.work, kept |-> s.kept, dropped |-> s.dropped,
             gaveUp |-> s.gaveUp]
    BY <1>4 DEF KeepsTrans, IsSession
  <2>2. /\ t.link = "up" /\ t.inTrans = s.inTrans /\ t.trans = s.trans /\ t.db = s.db
        /\ t.work = s.work /\ t.kept = s.kept /\ t.dropped = s.dropped
        /\ t.gaveUp = s.gaveUp
    BY <2>1
  <2> QED
    BY <2>1, <2>2 DEF KeepsTrans, IsSession, Ours, Follows
<1> QED
  BY <1>1, <1>2, <1>3, <1>4

\* Wherever a command arrives, the transaction is as safe as before.
LEMMA ReachedKeeps ==
  ASSUME NEW s, NEW d, NEW X, NEW a, NEW m, NEW c, KeepsTrans(s, a, m, c, d, X),
         NEW t \in Reached(s)
  PROVE  KeepsTrans(t, a, m, c, d, X) /\ Follows(s, t)
<1>1. IsSession(s, d, X) /\ m \subseteq X /\ c \subseteq X
  BY DEF KeepsTrans
<1>2. CASE t = s
  BY <1>2 DEF Follows
<1>3. CASE s.link = "lost" /\ t \in Resent(s)
  BY <1>3, ResentKeeps
<1>4. CASE s.link = "up" /\ t \in Resent(Lost(s))
  <2>1. /\ KeepsTrans(Lost(s), a, m, c, d, X) /\ Lost(s).link = "lost"
        /\ Follows(s, Lost(s))
    BY <1>1, <1>4, Undone DEF Follows, IsSession
  <2>2. KeepsTrans(t, a, m, c, d, X) /\ Follows(Lost(s), t)
    BY <1>4, <2>1, ResentKeeps
  <2> QED
    BY <2>1, <2>2 DEF Follows
<1>5. \/ t = s
      \/ s.link = "lost" /\ t \in Resent(s)
      \/ s.link = "up" /\ t \in Resent(Lost(s))
  BY <1>1 DEF Reached, IsSession
<1> QED
  BY <1>2, <1>3, <1>4, <1>5

\* A new session keeps what is left of a transaction: nothing.
LEMMA ReConnectKeeps ==
  ASSUME SyncInv, NEW s \in ReConnectSession
  PROVE  /\ KeepsTrans(s, app, mine, cut, m_db, Earlier(syncCalls))
         /\ Follows(Session, s)
<1> DEFINE X == Earlier(syncCalls)
<1>1. KeepsTrans(Session, app, mine, cut, m_db, X)
  BY DEF SyncInv
<1> HIDE DEF X
<1>2. CASE link = "up"
  <2>1. s = Heard(Session)
    BY <1>2 DEF ReConnectSession
  <2> QED
    BY <1>1, <2>1, HeardKeeps DEF Follows, X
<1>3. CASE link # "up" /\ s \in Connect
  <2>1. /\ s.link \in {"up", "null"} /\ s.inTrans = FALSE /\ s.trans = FALSE
        /\ s.db = m_db /\ s.work = {} /\ s.kept = committed /\ s.dropped = dropped
        /\ s.gaveUp = gaveUp
        /\ s = [link |-> s.link, inTrans |-> s.inTrans, trans |-> s.trans, db |-> s.db,
                work |-> s.work, kept |-> s.kept, dropped |-> s.dropped,
                gaveUp |-> s.gaveUp]
    BY <1>3 DEF Connect, NewSession, NoSession, Session
  <2>2. Ours(s, app, mine, cut)
    BY <1>1, <1>3, <2>1, SessionIs DEF KeepsTrans, Ours
  <2>3. committed \subseteq X /\ dropped \in BOOLEAN /\ gaveUp \in BOOLEAN
    BY <1>1, SessionIs DEF KeepsTrans, IsSession
  <2>4. IsSession(s, m_db, X)
    BY <2>1, <2>3 DEF IsSession
  <2>5. KeepsTrans(s, app, mine, cut, m_db, X)
    BY <1>1, <2>2, <2>4 DEF KeepsTrans
  <2> QED
    BY <2>1, <2>5, SessionIs DEF Follows, X
<1> QED
  BY <1>2, <1>3 DEF ReConnectSession

LEMMA ReadyKeeps ==
  ASSUME SyncInv, NEW s \in UNION {Reached(r) : r \in ReConnectSession}
  PROVE  /\ KeepsTrans(s, app, mine, cut, m_db, Earlier(syncCalls))
         /\ Follows(Session, s)
<1>1. PICK r \in ReConnectSession : s \in Reached(r)
  OBVIOUS
<1> DEFINE X == Earlier(syncCalls)
<1>2. KeepsTrans(r, app, mine, cut, m_db, X) /\ Follows(Session, r)
  BY ReConnectKeeps
<1> HIDE DEF X
<1>3. KeepsTrans(s, app, mine, cut, m_db, X) /\ Follows(r, s)
  BY <1>1, <1>2, ReachedKeeps
<1> QED
  BY <1>2, <1>3 DEF Follows, X

\* A command that says no has done no harm that nobody remembers.
LEMMA AnswersKeep ==
  ASSUME NEW s, NEW d, NEW X, NEW a, NEW m, NEW c, KeepsTrans(s, a, m, c, d, X),
         NEW done, NEW Y, X \subseteq Y,
         s.link = "up" => IsSession(done, d, Y) /\ done.link = "up",
         NEW r \in Answers(s, done)
  PROVE  /\ r.ok \in BOOLEAN /\ r.ok => s.link = "up" /\ r.s = done
         /\ ~r.ok => KeepsTrans(r.s, a, m, c, d, Y)
<1>1. IsSession(s, d, X) /\ m \subseteq X /\ c \subseteq X /\ m \subseteq Y /\ c \subseteq Y
  BY DEF KeepsTrans
<1>2. KeepsTrans(s, a, m, c, d, Y) /\ IsSession(s, d, Y)
  BY <1>1 DEF KeepsTrans, IsSession
<1>3. CASE s.link # "up"
  <2>1. r = [ok |-> FALSE, s |-> s]
    BY <1>3 DEF Answers
  <2> QED
    BY <1>2, <2>1
<1>4. CASE s.link = "up"
  <2>1. \/ r = [ok |-> TRUE, s |-> done]
        \/ \E t \in {s, RolledBack(s), Lost(s), Lost(done)} : r = [ok |-> FALSE, s |-> t]
    BY <1>4 DEF Answers
  <2>2. /\ KeepsTrans(RolledBack(s), a, m, c, d, Y)
        /\ KeepsTrans(Lost(s), a, m, c, d, Y)
    BY <1>1, <1>2, <1>4, Undone
  <2>3. KeepsTrans(Lost(done), a, m, c, d, Y)
    BY <1>1, <1>4, Undone
  <2>4. CASE r = [ok |-> TRUE, s |-> done]
    BY <1>4, <2>4
  <2>5. CASE \E t \in {s, RolledBack(s), Lost(s), Lost(done)} : r = [ok |-> FALSE, s |-> t]
    <3>1. PICK t \in {s, RolledBack(s), Lost(s), Lost(done)} : r = [ok |-> FALSE, s |-> t]
      BY <2>5
    <3>2. r.ok = FALSE /\ r.s = t
      BY <3>1
    <3>3. KeepsTrans(t, a, m, c, d, Y)
      BY <1>2, <2>2, <2>3
    <3> QED
      BY <3>2, <3>3
  <2> QED
    BY <2>1, <2>4, <2>5
<1> QED
  BY <1>3, <1>4

\* A statement joins its transaction, or is kept at once.
LEMMA ExecutedKeeps ==
  ASSUME NEW s, NEW d, NEW X, NEW a, NEW m, NEW c, KeepsTrans(s, a, m, c, d, X),
         s.link = "up", NEW k, k \notin X, NEW Y, Y = X \cup {k}
  PROVE  LET t == Executed(s, k)
         IN  /\ IsSession(t, d, Y) /\ t.link = "up"
             /\ KeepsTrans(t, a, IF a = "in" THEN m \cup {k} ELSE m, c, d, Y)
<1> DEFINE t == Executed(s, k)
           n == IF a = "in" THEN m \cup {k} ELSE m
<1>1. /\ t.link = "up" /\ t.trans = s.trans /\ t.db = s.db /\ t.inTrans \in BOOLEAN
      /\ t.work = IF s.trans THEN s.work \cup {k} ELSE s.work
      /\ t.kept = IF s.trans THEN s.kept ELSE s.kept \cup {k}
      /\ t.dropped = s.dropped /\ t.gaveUp = s.gaveUp
      /\ t = [link |-> t.link, inTrans |-> t.inTrans, trans |-> t.trans, db |-> t.db,
              work |-> t.work, kept |-> t.kept, dropped |-> t.dropped,
              gaveUp |-> t.gaveUp]
  <2>1. CASE s.trans
    <3>1. t = [link |-> "up", inTrans |-> TRUE, trans |-> s.trans, db |-> s.db,
               work |-> s.work \cup {k}, kept |-> s.kept, dropped |-> s.dropped,
               gaveUp |-> s.gaveUp]
      BY <2>1 DEF Executed, KeepsTrans, IsSession
    <3> HIDE DEF t
    <3> QED
      BY <2>1, <3>1
  <2>2. CASE ~s.trans
    <3>1. t = [link |-> "up", inTrans |-> FALSE, trans |-> s.trans, db |-> s.db,
               work |-> s.work, kept |-> s.kept \cup {k}, dropped |-> s.dropped,
               gaveUp |-> s.gaveUp]
      BY <2>2 DEF Executed, KeepsTrans, IsSession
    <3> HIDE DEF t
    <3> QED
      BY <2>2, <3>1
  <2> QED
    BY <2>1, <2>2
<1> HIDE DEF t
<1>2. IsSession(s, d, X) /\ m \subseteq X /\ c \subseteq X /\ Ours(s, a, m, c)
  BY DEF KeepsTrans
<1>3. IsSession(t, d, Y)
  <2>1. t.work \subseteq Y /\ t.kept \subseteq Y
    BY <1>1, <1>2 DEF IsSession
  <2> QED
    BY <1>1, <1>2, <2>1 DEF IsSession
<1>4. Ours(t, a, n, c)
  <2> SUFFICES ASSUME a = "in", ~t.dropped, ~t.gaveUp
               PROVE  t.trans /\ n \ c = t.work /\ n \cap t.kept = {}
    BY <1>1 DEF Ours
  <2>1. s.trans /\ m \ c = s.work /\ m \cap s.kept = {} /\ s.kept \subseteq X
    BY <1>1, <1>2 DEF Ours, IsSession
  <2>2. t.work = s.work \cup {k} /\ t.kept = s.kept /\ n = m \cup {k} /\ t.trans
    BY <1>1, <2>1
  <2> HIDE DEF n
  <2>3. k \notin c /\ k \notin s.kept
    BY <1>2, <2>1
  <2> QED
    BY ONLY <2>1, <2>2, <2>3
<1>5. n \subseteq Y /\ c \subseteq Y
  BY <1>2
<1> QED
  BY <1>1, <1>3, <1>4, <1>5 DEF KeepsTrans, t

\* A statement that failed unnoticed joins what the caller believes in.
LEMMA CutKeeps ==
  ASSUME NEW s, NEW d, NEW X, NEW a, NEW m, NEW c, NEW k, NEW W,
         KeepsTrans(s, a, m, c, d, W), W \subseteq X, k \in X, k \notin m,
         k \notin c, k \notin s.kept
  PROVE  KeepsTrans(s, a, IF a = "in" THEN m \cup {k} ELSE m, c \cup {k}, d, X)
<1>1. /\ IsSession(s, d, W) /\ m \subseteq X /\ c \subseteq X /\ Ours(s, a, m, c)
  BY DEF KeepsTrans
<1>2. IsSession(s, d, X)
  BY <1>1 DEF IsSession
<1>3. (m \cup {k}) \ (c \cup {k}) = m \ c
  OBVIOUS
<1>4. m \cap s.kept = {} => (m \cup {k}) \cap s.kept = {}
  OBVIOUS
<1>5. Ours(s, a, IF a = "in" THEN m \cup {k} ELSE m, c \cup {k})
  BY <1>1, <1>3, <1>4 DEF Ours
<1> QED
  BY <1>1, <1>2, <1>5 DEF KeepsTrans

\* The numbers of a call are not used yet.
LEMMA Numbers ==
  ASSUME NEW n \in Nat
  PROVE  /\ Earlier(n) \subseteq Earlier(n + 1)
         /\ << n, 1 >> \notin Earlier(n) /\ << n, 2 >> \notin Earlier(n) \cup {<< n, 1 >>}
         /\ Earlier(n) \cup {<< n, 1 >>} \cup {<< n, 2 >>} \subseteq Earlier(n + 1)
<1>1. /\ 0..(n - 1) \subseteq 0..((n + 1) - 1) /\ n \in 0..((n + 1) - 1)
      /\ n \notin 0..(n - 1)
  OBVIOUS
<1>2. Earlier(n) \subseteq Earlier(n + 1)
  BY <1>1 DEF Earlier
<1>3. << n, 1 >> \notin Earlier(n) /\ << n, 2 >> \notin Earlier(n)
  BY <1>1 DEF Earlier
<1>4. << n, 1 >> \in Earlier(n + 1) /\ << n, 2 >> \in Earlier(n + 1)
  BY <1>1 DEF Earlier
<1>5. << n, 1 >> # << n, 2 >>
  OBVIOUS
<1> QED
  BY <1>2, <1>3, <1>4, <1>5

\* A call is over: the connection is s, and the caller knows the outcome.
LEMMA CallEnds ==
  ASSUME SyncInv, Call, NEW s, Set(s), app' \in {"in", "out"},
         KeepsTrans(s, app', mine', cut', m_db', Earlier(syncCalls')),
         outcome' = "none" \/ OutcomeInv'
  PROVE  SyncInv'
<1>1. syncCalls' \in Nat
  BY DEF Call, SyncInv
<1>2. Session' = s
  BY SetIs DEF KeepsTrans
<1>3. KeepsTrans(Session', app', mine', cut', m_db', Earlier(syncCalls'))
  BY <1>2
<1> QED
  BY <1>1, <1>3 DEF SyncInv, OutcomeInv

LEMMA CallKeeps ==
  ASSUME SyncInv, Call, NEW s, Set(s), app' \in {"in", "out"},
         KeepsTrans(s, app', mine', cut', m_db', Earlier(syncCalls)),
         outcome' = "none" \/ OutcomeInv'
  PROVE  SyncInv'
<1> DEFINE X == Earlier(syncCalls)
           Y == Earlier(syncCalls')
<1>1. X \subseteq Y
  <2>1. syncCalls \in Nat /\ syncCalls' = syncCalls + 1
    BY DEF Call, SyncInv
  <2>2. Earlier(syncCalls) \subseteq Earlier(syncCalls + 1)
    BY <2>1, Numbers
  <2> QED
    BY <2>1, <2>2
<1> HIDE DEF X, Y
<1>2. KeepsTrans(s, app', mine', cut', m_db', Y)
  BY <1>1 DEF KeepsTrans, IsSession, X
<1> QED
  BY <1>2, CallEnds DEF Y

\* A call that leaves things as they were, but for the connection s.
LEMMA KeepsOn ==
  ASSUME SyncInv, NEW s, KeepsTrans(s, app, mine, cut, m_db', Earlier(syncCalls)),
         Follows(Session, s), Set(s), Call, UNCHANGED <<app, mine, cut, outcome>>
  PROVE  SyncInv'
<1>1. OutcomeInv'
  <2>1. committed' = committed /\ (dropped => dropped') /\ (gaveUp => gaveUp')
    BY SessionIs DEF Follows, Set
  <2> QED
    BY <2>1 DEF SyncInv, OutcomeInv
<1>2. KeepsTrans(s, app', mine', cut', m_db', Earlier(syncCalls)) /\ app' \in {"in", "out"}
  BY DEF SyncInv
<1> QED
  BY <1>1, <1>2, CallKeeps

LEMMA InitSessionKeeps ==
  ASSUME SyncInv, NEW db, InitSession(db) PROVE SyncInv'
<1>1. PICK r \in Connect : Set([r EXCEPT !.db = db])
  BY DEF InitSession
<1>2. link = "null" /\ m_db' = db /\ Call /\ UNCHANGED <<app, mine, cut, outcome>>
  BY DEF InitSession
<1>3. /\ KeepsTrans(r, app, mine, cut, m_db, Earlier(syncCalls))
      /\ Follows(Session, r)
  BY <1>2, ReConnectKeeps DEF ReConnectSession
<1> DEFINE s == [r EXCEPT !.db = db]
           X == Earlier(syncCalls)
<1> HIDE DEF X
<1>4. /\ s.link = r.link /\ s.inTrans = r.inTrans /\ s.trans = r.trans /\ s.db = db
      /\ s.work = r.work /\ s.kept = r.kept /\ s.dropped = r.dropped
      /\ s.gaveUp = r.gaveUp
      /\ s = [link |-> s.link, inTrans |-> s.inTrans, trans |-> s.trans, db |-> s.db,
              work |-> s.work, kept |-> s.kept, dropped |-> s.dropped,
              gaveUp |-> s.gaveUp]
  BY <1>3 DEF KeepsTrans, IsSession
<1>5. Set(s)
  BY <1>1
<1> HIDE DEF s
<1>6. KeepsTrans(s, app, mine, cut, m_db', X)
  BY <1>2, <1>3, <1>4 DEF KeepsTrans, IsSession, Ours, X
<1>7. Follows(Session, s)
  BY <1>3, <1>4 DEF Follows
<1> QED
  BY <1>2, <1>5, <1>6, <1>7, KeepsOn DEF X

LEMMA CloseKeeps == ASSUME SyncInv, Close PROVE SyncInv'
<1> DEFINE X == Earlier(syncCalls)
<1>0. PICK s : s = [NoSession EXCEPT !.dropped = TRUE]
  OBVIOUS
<1>1. s = [link |-> "null", inTrans |-> FALSE, trans |-> FALSE, db |-> m_db, work |-> {},
           kept |-> committed, dropped |-> TRUE, gaveUp |-> gaveUp]
  BY <1>0 DEF NoSession, NewSession, Session
<1>2. Set(s) /\ Call /\ UNCHANGED <<app, mine, cut, outcome, m_db>>
  BY <1>0 DEF Close
<1> HIDE DEF X
<1>3. /\ mine \subseteq X /\ cut \subseteq X /\ committed \subseteq X /\ gaveUp \in BOOLEAN
  BY SessionIs DEF SyncInv, KeepsTrans, IsSession, X
<1>4. KeepsTrans(s, app, mine, cut, m_db', X)
  BY <1>1, <1>2, <1>3 DEF KeepsTrans, IsSession, Ours
<1>5. Follows(Session, s)
  BY <1>1, SessionIs DEF Follows
<1> QED
  BY <1>2, <1>4, <1>5, KeepsOn DEF X

LEMMA DropKeeps == ASSUME SyncInv, Drop PROVE SyncInv'
<1> DEFINE s == Lost(Session)
           X == Earlier(syncCalls)
<1> HIDE DEF X
<1>1. /\ link = "up" /\ Set(s)
      /\ UNCHANGED <<m_db, app, mine, cut, outcome, syncCalls>>
  BY DEF Drop
<1>2. KeepsTrans(Session, app, mine, cut, m_db, X)
  BY DEF SyncInv, X
<1>3. KeepsTrans(s, app, mine, cut, m_db, X) /\ s.dropped
  BY <1>1, <1>2, SessionIs, Undone DEF KeepsTrans
<1> HIDE DEF s
<1>4. Session' = s
  BY <1>1, <1>3, SetIs DEF KeepsTrans
<1>5. KeepsTrans(Session', app', mine', cut', m_db', Earlier(syncCalls'))
  BY <1>1, <1>3, <1>4 DEF X
<1>6. dropped'
  BY <1>1, <1>3 DEF Set
<1> QED
  BY <1>1, <1>5, <1>6 DEF SyncInv, OutcomeInv

LEMMA SelectDBKeeps ==
  ASSUME SyncInv, NEW db, SelectDB(db) PROVE SyncInv'
<1>1. PICK r \in UNION {Reached(t) : t \in ReConnectSession}, ok \in BOOLEAN :
        /\ Set(IF r.link = "up" /\ ok THEN [r EXCEPT !.db = db] ELSE r)
        /\ m_db' = IF r.link = "up" /\ ok THEN db ELSE m_db
  BY DEF SelectDB
<1>2. Call /\ UNCHANGED <<app, mine, cut, outcome>>
  BY DEF SelectDB
<1> DEFINE X == Earlier(syncCalls)
<1>3. KeepsTrans(r, app, mine, cut, m_db, X) /\ Follows(Session, r)
  BY ReadyKeeps
<1> HIDE DEF X
<1>4. CASE r.link = "up" /\ ok
  <2> DEFINE s == [r EXCEPT !.db = db]
  <2>1. /\ s.link = r.link /\ s.inTrans = r.inTrans /\ s.trans = r.trans /\ s.db = db
        /\ s.work = r.work /\ s.kept = r.kept /\ s.dropped = r.dropped
        /\ s.gaveUp = r.gaveUp
        /\ s = [link |-> s.link, inTrans |-> s.inTrans, trans |-> s.trans, db |-> s.db,
                work |-> s.work, kept |-> s.kept, dropped |-> s.dropped,
                gaveUp |-> s.gaveUp]
    BY <1>3 DEF KeepsTrans, IsSession
  <2>2. Set(s) /\ m_db' = db
    BY <1>1, <1>4
  <2> HIDE DEF s
  <2>3. KeepsTrans(s, app, mine, cut, m_db', X) /\ Follows(Session, s)
    BY <1>3, <2>1, <2>2 DEF KeepsTrans, IsSession, Ours, Follows
  <2> QED
    BY <1>2, <2>2, <2>3, KeepsOn DEF X
<1>5. CASE ~(r.link = "up" /\ ok)
  <2>1. Set(r) /\ m_db' = m_db
    BY <1>1, <1>5
  <2> QED
    BY <1>2, <1>3, <2>1, KeepsOn DEF X
<1> QED
  BY <1>4, <1>5

LEMMA SetCharacterKeeps == ASSUME SyncInv, SetCharacter PROVE SyncInv'
<1>1. PICK r \in Reached(Session), ok \in BOOLEAN :
        Set(IF r.link = "up" /\ ok THEN Heard(r) ELSE r)
  BY DEF SetCharacter
<1>2. Call /\ UNCHANGED <<m_db, app, mine, cut, outcome>>
  BY DEF SetCharacter
<1> DEFINE X == Earlier(syncCalls)
<1>3. KeepsTrans(Session, app, mine, cut, m_db, X)
  BY DEF SyncInv
<1> HIDE DEF X
<1>4. KeepsTrans(r, app, mine, cut, m_db, X) /\ Follows(Session, r)
  BY <1>3, ReachedKeeps
<1>5. KeepsTrans(Heard(r), app, mine, cut, m_db, X) /\ Follows(Session, Heard(r))
  BY <1>4, HeardKeeps DEF Follows
<1>6. PICK s : s \in {r, Heard(r)} /\ Set(s)
  <2>1. Set(r) \/ Set(Heard(r))
    BY <1>1
  <2> QED
    BY <2>1
<1>7. KeepsTrans(s, app, mine, cut, m_db', X) /\ Follows(Session, s)
  BY <1>2, <1>4, <1>5, <1>6
<1> QED
  BY <1>2, <1>6, <1>7, KeepsOn DEF X

LEMMA TransactionKeeps == ASSUME SyncInv, Transaction PROVE SyncInv'
<1>1. PICK s \in UNION {Reached(r) : r \in ReConnectSession} :
        \E a \in Answers(s, Begun(s)) :
          IF a.ok
          THEN /\ Set([a.s EXCEPT !.dropped = FALSE, !.gaveUp = FALSE])
               /\ app' = "in" /\ mine' = {} /\ cut' = {}
          ELSE Set(a.s) /\ UNCHANGED <<app, mine, cut>>
  BY DEF Transaction
<1>2. PICK a \in Answers(s, Begun(s)) :
        IF a.ok
        THEN /\ Set([a.s EXCEPT !.dropped = FALSE, !.gaveUp = FALSE])
             /\ app' = "in" /\ mine' = {} /\ cut' = {}
        ELSE Set(a.s) /\ UNCHANGED <<app, mine, cut>>
  BY <1>1
<1>3. Call /\ outcome' = "none" /\ UNCHANGED m_db
  BY DEF Transaction
<1> DEFINE X == Earlier(syncCalls)
<1>4. KeepsTrans(s, app, mine, cut, m_db, X) /\ Follows(Session, s)
  BY ReadyKeeps
<1> HIDE DEF X
<1>5. PICK b : b = Begun(s)
  OBVIOUS
<1>6. /\ b.link = s.link /\ b.trans = TRUE /\ b.db = s.db /\ b.work = {}
      /\ b.kept = s.kept \cup s.work
      /\ b = [link |-> s.link, inTrans |-> TRUE, trans |-> TRUE, db |-> s.db, work |-> {},
              kept |-> s.kept \cup s.work, dropped |-> s.dropped, gaveUp |-> s.gaveUp]
  <2>1. b = [link |-> s.link, inTrans |-> TRUE, trans |-> TRUE, db |-> s.db, work |-> {},
             kept |-> s.kept \cup s.work, dropped |-> s.dropped, gaveUp |-> s.gaveUp]
    BY <1>4, <1>5 DEF KeepsTrans, IsSession, Begun
  <2> QED
    BY <2>1
<1>7. IsSession(b, m_db, X) /\ b.work = {}
  BY <1>4, <1>6 DEF KeepsTrans, IsSession
<1>8. /\ a.ok \in BOOLEAN /\ a.ok => s.link = "up" /\ a.s = b
      /\ ~a.ok => KeepsTrans(a.s, app, mine, cut, m_db, X)
  <2>1. s.link = "up" => IsSession(b, m_db, X) /\ b.link = "up"
    BY <1>6, <1>7
  <2>2. a \in Answers(s, b) /\ X \subseteq X
    BY <1>2, <1>5
  <2> QED
    BY ONLY <1>4, <2>1, <2>2, AnswersKeep
<1>9. CASE a.ok
  <2>1. PICK t : t = [b EXCEPT !.dropped = FALSE, !.gaveUp = FALSE]
    OBVIOUS
  <2>2. t = [link |-> b.link, inTrans |-> TRUE, trans |-> TRUE, db |-> b.db, work |-> {},
             kept |-> b.kept, dropped |-> FALSE, gaveUp |-> FALSE]
    BY <1>6, <2>1
  <2>3. /\ t.link = "up" /\ t.trans = TRUE /\ t.work = {} /\ t.kept = b.kept
        /\ IsSession(t, m_db, X)
    BY <1>6, <1>7, <1>8, <1>9, <2>2 DEF IsSession
  <2>4. KeepsTrans(t, "in", {}, {}, m_db, X)
    BY <2>3 DEF KeepsTrans, Ours
  <2>5. Set(t) /\ app' = "in" /\ mine' = {} /\ cut' = {}
    BY <1>2, <1>8, <1>9, <2>1
  <2> QED
    BY <1>3, <2>4, <2>5, CallKeeps DEF X
<1>10. CASE ~a.ok
  <2>1. Set(a.s) /\ UNCHANGED <<app, mine, cut>>
    BY <1>2, <1>8, <1>10
  <2>2. KeepsTrans(a.s, app', mine', cut', m_db', X)
    BY <1>3, <1>8, <1>10, <2>1
  <2>3. app' \in {"in", "out"}
    BY <2>1 DEF SyncInv
  <2> QED
    BY <1>3, <2>1, <2>2, <2>3, CallKeeps DEF X
<1> QED
  BY <1>8, <1>9, <1>10

LEMMA FinishKeeps ==
  ASSUME SyncInv, NEW commit \in BOOLEAN, Finish(commit) PROVE SyncInv'
<1>1. PICK s \in UNION {Reached(r) : r \in ReConnectSession} :
        \E a \in Answers(s, Ended(s, commit)) :
          /\ Set(a.s)
          /\ app' = IF a.ok THEN "out" ELSE app
          /\ outcome' = IF ~a.ok \/ app = "out" THEN "none"
                        ELSE IF commit THEN "committed" ELSE "rolled back"
  BY DEF Finish
<1>2. PICK a \in Answers(s, Ended(s, commit)) :
        /\ Set(a.s)
        /\ app' = IF a.ok THEN "out" ELSE app
        /\ outcome' = IF ~a.ok \/ app = "out" THEN "none"
                      ELSE IF commit THEN "committed" ELSE "rolled back"
  BY <1>1
<1>3. Call /\ UNCHANGED <<m_db, mine, cut>> /\ app \in {"in", "out"}
  BY DEF Finish, SyncInv
<1> DEFINE X == Earlier(syncCalls)
<1>4. KeepsTrans(s, app, mine, cut, m_db, X) /\ Follows(Session, s)
  BY ReadyKeeps
<1> HIDE DEF X
<1>5. PICK b : b = Ended(s, commit)
  OBVIOUS
<1> DEFINE kept == IF commit THEN s.kept \cup s.work ELSE s.kept
<1>6. b = [link |-> s.link, inTrans |-> FALSE, trans |-> FALSE, db |-> s.db, work |-> {},
           kept |-> kept, dropped |-> s.dropped, gaveUp |-> s.gaveUp]
  BY <1>4, <1>5 DEF KeepsTrans, IsSession, Ended
<1>7. kept \subseteq X
  BY <1>4 DEF KeepsTrans, IsSession
<1> HIDE DEF kept
<1>8. /\ b.link = s.link /\ b.kept = kept /\ b.dropped = s.dropped /\ b.gaveUp = s.gaveUp
      /\ IsSession(b, m_db, X)
  BY <1>4, <1>6, <1>7 DEF KeepsTrans, IsSession
<1>9. /\ a.ok \in BOOLEAN /\ a.ok => s.link = "up" /\ a.s = b
      /\ ~a.ok => KeepsTrans(a.s, app, mine, cut, m_db, X)
  <2>1. s.link = "up" => IsSession(b, m_db, X) /\ b.link = "up"
    BY <1>8
  <2>2. a \in Answers(s, b) /\ X \subseteq X
    BY <1>2, <1>5
  <2> QED
    BY ONLY <1>4, <2>1, <2>2, AnswersKeep
<1>10. CASE a.ok
  <2>1. KeepsTrans(b, "out", mine, cut, m_db, X)
    BY <1>4, <1>8 DEF KeepsTrans, Ours
  <2>2. Set(b) /\ app' = "out"
    BY <1>2, <1>9, <1>10
  <2>3. committed' = kept /\ dropped' = s.dropped /\ gaveUp' = s.gaveUp
    BY <1>8, <2>2 DEF Set
  <2>4. OutcomeInv'
    <3> SUFFICES ASSUME ~s.dropped, ~s.gaveUp, app = "in"
                 PROVE  /\ outcome' = "committed" => mine \ cut \subseteq kept
                        /\ outcome' = "rolled back" => mine \cap kept = {}
      BY <1>2, <1>3, <2>3 DEF OutcomeInv
    <3>1. mine \ cut = s.work /\ mine \cap s.kept = {}
      BY <1>4 DEF KeepsTrans, Ours
    <3>2. CASE commit
      BY <1>2, <3>1, <3>2 DEF kept
    <3>3. CASE ~commit
      BY <1>2, <3>1, <3>3 DEF kept
    <3> QED
      BY <3>2, <3>3
  <2> QED
    BY <1>3, <2>1, <2>2, <2>4, CallKeeps DEF X
<1>11. CASE ~a.ok
  <2>1. Set(a.s) /\ app' = app /\ outcome' = "none"
    BY <1>2, <1>9, <1>11
  <2>2. KeepsTrans(a.s, app', mine', cut', m_db', X)
    BY <1>3, <1>9, <1>11, <2>1
  <2> QED
    BY <1>3, <2>1, <2>2, CallKeeps DEF X
<1> QED
  BY <1>9, <1>10, <1>11

LEMMA SyncQueryKeeps == ASSUME SyncInv, SyncQuery PROVE SyncInv'
<1> DEFINE n == syncCalls
           k == << n, 1 >>
           l == << n, 2 >>
           X == Earlier(n)
           Y == X \cup {k}
           Z == Y \cup {l}
<1>1. Call /\ outcome' = "none" /\ UNCHANGED <<m_db, app>> /\ app \in {"in", "out"}
  BY DEF SyncQuery, SyncInv
<1>2. k \notin X /\ l \notin Y /\ Z \subseteq Earlier(n + 1)
  BY Numbers DEF SyncInv
<1>3. KeepsTrans(Session, app, mine, cut, m_db, X)
  BY DEF SyncInv
<1>4. CASE UNCHANGED <<sessionVars, mine, cut>>
  <2>1. Set(Session)
    BY <1>4, SessionIs DEF Set, sessionVars
  <2>2. KeepsTrans(Session, app', mine', cut', m_db', X)
    BY <1>1, <1>3, <1>4
  <2> QED
    BY <1>1, <2>1, <2>2, CallKeeps
<1>5. CASE link # "null"
  <2>1. PICK s \in Reached(Session) : \E a \in Answers(s, Executed(s, k)) :
          \/ /\ Set(a.s) /\ cut' = cut \cup {}
             /\ mine' = IF a.ok /\ app = "in" THEN mine \cup {k} ELSE mine
          \/ /\ a.ok
             /\ \E b \in Answers(a.s, Executed(a.s, l)) :
                  /\ Set(b.s) /\ cut' = cut \cup (IF b.ok THEN {} ELSE {l})
                  /\ mine' = IF TRUE /\ app = "in" THEN mine \cup {k, l} ELSE mine
    BY <1>5 DEF SyncQuery
  <2>2. PICK a \in Answers(s, Executed(s, k)) :
          \/ /\ Set(a.s) /\ cut' = cut \cup {}
             /\ mine' = IF a.ok /\ app = "in" THEN mine \cup {k} ELSE mine
          \/ /\ a.ok
             /\ \E b \in Answers(a.s, Executed(a.s, l)) :
                  /\ Set(b.s) /\ cut' = cut \cup (IF b.ok THEN {} ELSE {l})
                  /\ mine' = IF TRUE /\ app = "in" THEN mine \cup {k, l} ELSE mine
    BY <2>1
  <2> HIDE DEF k, l, X, Y, Z
  <2>3. KeepsTrans(s, app, mine, cut, m_db, X)
    BY <1>3, ReachedKeeps
  <2> DEFINE m == IF app = "in" THEN mine \cup {k} ELSE mine
             f == Executed(s, k)
  <2>4. Y = X \cup {k} /\ X \subseteq Y /\ Z = Y \cup {l} /\ Y \subseteq Z
        /\ X \subseteq Z /\ k \in Y /\ l \in Z
    BY DEF Y, Z
  <2>5. s.link = "up" => /\ IsSession(f, m_db, Y) /\ f.link = "up"
                         /\ KeepsTrans(f, app, m, cut, m_db, Y)
    BY <1>2, <2>3, <2>4, ExecutedKeeps
  <2> HIDE DEF f, m
  <2>6. /\ a.ok \in BOOLEAN /\ a.ok => s.link = "up" /\ a.s = f
        /\ ~a.ok => KeepsTrans(a.s, app, mine, cut, m_db, Y)
    <3>1. a \in Answers(s, f) /\ X \subseteq Y
      BY <2>2, <2>4 DEF f
    <3>2. s.link = "up" => IsSession(f, m_db, Y) /\ f.link = "up"
      BY <2>5
    <3> QED
      BY ONLY <2>3, <3>1, <3>2, AnswersKeep
  <2>7. a.ok => KeepsTrans(a.s, app, m, cut, m_db, Y) /\ a.s.link = "up"
    BY <2>5, <2>6
  \* The books in the end, and the connection r.
  <2>8. \E r : Set(r) /\ KeepsTrans(r, app, mine', cut', m_db, Z)
    <3>1. CASE ~a.ok
      <4>1. Set(a.s) /\ cut' = cut /\ mine' = mine
        BY <2>2, <3>1
      <4>2. KeepsTrans(a.s, app, mine, cut, m_db, Z)
        BY <2>4, <2>6, <3>1 DEF KeepsTrans, IsSession
      <4> QED
        BY <4>1, <4>2
    <3>2. CASE /\ a.ok /\ Set(a.s) /\ cut' = cut \cup {}
               /\ mine' = IF a.ok /\ app = "in" THEN mine \cup {k} ELSE mine
      <4>1. cut' = cut /\ mine' = m
        BY <3>2 DEF m
      <4>2. KeepsTrans(a.s, app, m, cut, m_db, Z)
        BY <2>4, <2>7, <3>2 DEF KeepsTrans, IsSession
      <4> QED
        BY <3>2, <4>1, <4>2
    <3>3. ASSUME a.ok, NEW b \in Answers(a.s, Executed(a.s, l)), Set(b.s),
                 cut' = cut \cup (IF b.ok THEN {} ELSE {l}),
                 mine' = IF app = "in" THEN mine \cup {k, l} ELSE mine
          PROVE  \E r : Set(r) /\ KeepsTrans(r, app, mine', cut', m_db, Z)
      <4> DEFINE g == Executed(a.s, l)
                 q == IF app = "in" THEN m \cup {l} ELSE m
      <4>1. mine' = q
        <5>1. mine \cup {k, l} = (mine \cup {k}) \cup {l}
          OBVIOUS
        <5> QED
          BY <3>3, <5>1 DEF m
      <4>2. /\ IsSession(g, m_db, Z) /\ g.link = "up"
            /\ KeepsTrans(g, app, q, cut, m_db, Z)
        BY <1>2, <2>4, <2>7, <3>3, ExecutedKeeps
      <4>3. KeepsTrans(a.s, app, m, cut, m_db, Y) /\ a.s.link = "up"
        BY <2>7, <3>3
      <4>4. /\ l \in Z /\ l \notin m /\ l \notin cut /\ l \notin a.s.kept
        BY <1>2, <2>4, <4>3 DEF KeepsTrans, IsSession
      <4>5. KeepsTrans(a.s, app, q, cut \cup {l}, m_db, Z)
        BY <2>4, <4>3, <4>4, CutKeeps
      <4> HIDE DEF g, q
      <4>6. /\ b.ok \in BOOLEAN /\ b.ok => b.s = g
            /\ ~b.ok => KeepsTrans(b.s, app, q, cut \cup {l}, m_db, Z)
        <5>1. b \in Answers(a.s, g) /\ Z \subseteq Z
          BY <3>3 DEF g
        <5>2. a.s.link = "up" => IsSession(g, m_db, Z) /\ g.link = "up"
          BY <4>2
        <5> QED
          BY ONLY <4>5, <5>1, <5>2, AnswersKeep
      <4>7. CASE b.ok
        <5>1. cut' = cut /\ b.s = g
          BY <3>3, <4>6, <4>7
        <5> QED
          BY <3>3, <4>1, <4>2, <5>1
      <4>8. CASE ~b.ok
        <5>1. cut' = cut \cup {l}
          BY <3>3, <4>8
        <5> QED
          BY <3>3, <4>1, <4>6, <4>8, <5>1
      <4> QED
        BY <4>6, <4>7, <4>8
    <3> QED
      BY <2>2, <2>6, <3>1, <3>2, <3>3
  <2>9. PICK r : Set(r) /\ KeepsTrans(r, app, mine', cut', m_db, Z)
    BY <2>8
  <2>10. Z \subseteq Earlier(n')
    <3>1. n' = n + 1
      BY <1>1 DEF Call
    <3> QED
      BY <1>2, <3>1
  <2>11. KeepsTrans(r, app', mine', cut', m_db', Earlier(n'))
    BY <1>1, <2>9, <2>10 DEF KeepsTrans, IsSession
  <2> QED
    BY <1>1, <2>9, <2>11, CallEnds
<1> QED
  BY <1>4, <1>5 DEF SyncQuery

LEMMA SyncStep == ASSUME SyncInv, [SyncNext]_syncVars PROVE SyncInv'
<1>1. CASE UNCHANGED syncVars
  <2>1. /\ UNCHANGED <<link, inTrans, srvTrans, srvDb, work, committed, dropped, gaveUp>>
        /\ UNCHANGED <<m_db, app, mine, cut, outcome, syncCalls>>
    BY <1>1 DEF syncVars, sessionVars
  <2>2. Session' = Session
    BY <2>1 DEF Session
  <2>3. KeepsTrans(Session', app', mine', cut', m_db', Earlier(syncCalls'))
    BY <2>1, <2>2 DEF SyncInv
  <2> QED
    BY <2>1, <2>3 DEF SyncInv, OutcomeInv
<1> QED
  BY <1>1, DropKeeps, CloseKeeps, TransactionKeeps, SyncQueryKeeps, SetCharacterKeeps,
     InitSessionKeeps, SelectDBKeeps, FinishKeeps DEF SyncNext

\* Whatever the server does: a Commit that says yes has kept every statement of
\* every query that said yes since Transaction, but those whose error the query
\* did not report, and a Rollback none, unless the connection was dropped in
\* between or the server had rolled back with an error; and a session that is
\* up works in the database chosen last.
THEOREM CommitIsAllAlways == SyncSpec => []CommitIsAll
<1>1. SyncInit => SyncInv
  <2> SUFFICES ASSUME SyncInit PROVE SyncInv
    OBVIOUS
  <2>1. /\ link = "null" /\ srvTrans = FALSE /\ inTrans = FALSE /\ work = {}
        /\ committed = {} /\ app = "out" /\ dropped = FALSE /\ gaveUp = FALSE
        /\ outcome = "none" /\ mine = {} /\ cut = {} /\ syncCalls = 0
    BY DEF SyncInit
  <2>2. IsSession(Session, m_db, Earlier(0))
    BY <2>1 DEF IsSession, Session
  <2>3. KeepsTrans(Session, app, mine, cut, m_db, Earlier(syncCalls))
    BY <2>1, <2>2 DEF KeepsTrans, Ours
  <2> QED
    BY <2>1, <2>3 DEF SyncInv, OutcomeInv
<1>2. SyncInv /\ [SyncNext]_syncVars => SyncInv'
  BY SyncStep
<1>3. SyncInv => CommitIsAll
  BY SessionIs DEF SyncInv, OutcomeInv, KeepsTrans, IsSession, CommitIsAll
<1> QED
  BY <1>1, <1>2, <1>3, PTL DEF SyncSpec

-----------------------------------------------------------------------------
(* asSnowFlake.                                                             *)

\* The identifier as a number, in the lower half of the servers.
Number(t, server, seq) == (t * ServerMax + server) * SeqMax + seq

\* What an identifier can be, of any server.
Words == {Id(t, server, seq) : t \in 0..MaxTime, server \in 0..(ServerMax - 1),
                               seq \in 0..(SeqMax - 1)}

IdTypeInv ==
  /\ time \in 0..MaxTime /\ m_curTime \in 0..MaxTime
  /\ m_seqId \in 0..SeqMax /\ m_serverId \in 0..(ServerMax - 1)
  /\ m_lock \subseteq IdThreads /\ given \in Seq(Words)
  /\ setBack \in BOOLEAN

\* While the clock only goes forward, every identifier is less than the one
\* the generator's second and sequence come to, which is what is given next
\* or less than that.
AscendInv ==
  ~setBack /\ m_serverId < ServerMax \div 2 =>
    /\ m_curTime <= time
    /\ \A i \in DOMAIN given :
         /\ given[i] \in Int
         /\ given[i] < Number(m_curTime, m_serverId, m_seqId)
    /\ \A i, j \in DOMAIN given : i < j => given[i] < given[j]

IdInv == IdTypeInv /\ AscendInv

LEMMA FieldsAreNumbers ==
  /\ MaxTime \in Nat /\ ServerMax \in Nat /\ SeqMax \in Nat
  /\ ServerMax >= 1 /\ SeqMax >= 1 /\ ServerMax \div 2 \in Int
BY IdAssumption

\* The products the fields' places are made of.
LEMMA Places ==
  ASSUME NEW t \in Nat, NEW server \in Nat, NEW s \in Nat, NEW q \in Nat,
         s >= 1, q >= 1, server < s
  PROVE  /\ t * (s * q) + server * q = (t * s + server) * q
         /\ server * q \in Nat /\ server * q <= s * q - q
         /\ t * s \in Nat /\ t * (s * q) \in Nat /\ s * q \in Nat
         /\ t * s + server < (t + 1) * s
<1>1. /\ t * s \in Nat /\ s * q \in Nat /\ server * q \in Nat /\ t * (s * q) \in Nat
  OBVIOUS
<1>2. t * (s * q) = (t * s) * q
  OBVIOUS
<1>3. (t * s + server) * q = (t * s) * q + server * q
  OBVIOUS
<1>4. s = server + 1 + (s - server - 1) /\ s - server - 1 \in Nat
  OBVIOUS
<1>5. s * q = server * q + q + (s - server - 1) * q /\ (s - server - 1) * q \in Nat
  BY <1>4
<1>6. server * q <= s * q - q
  BY <1>1, <1>5
<1>7. (t + 1) * s = t * s + s
  OBVIOUS
<1> QED
  BY <1>1, <1>2, <1>3, <1>6, <1>7

\* The lower half of the servers: the three fields side by side.
LEMMA IdIsNumber ==
  ASSUME NEW t \in 0..MaxTime, NEW server \in 0..(ServerMax - 1),
         NEW seq \in 0..(SeqMax - 1), server < ServerMax \div 2
  PROVE  Id(t, server, seq) = Number(t, server, seq)
<1> DEFINE w == ServerMax * SeqMax
           high == t * ServerMax + server
           top == (MaxTime + 1) * ServerMax
<1>1. /\ t \in Nat /\ server \in Nat /\ server < ServerMax /\ seq \in Nat
      /\ t <= MaxTime /\ t + 1 <= MaxTime + 1
  BY FieldsAreNumbers
<1>2. /\ t * w + server * SeqMax = high * SeqMax
      /\ server * SeqMax \in Nat /\ server * SeqMax <= w - SeqMax
      /\ w \in Nat /\ t * ServerMax \in Nat /\ high < (t + 1) * ServerMax
  BY <1>1, FieldsAreNumbers, Places
<1>3. (t + 1) * ServerMax <= top /\ top \in Nat /\ t + 1 <= (t + 1) * ServerMax
      /\ (t + 1) * ServerMax \in Nat
  <2>1. top = (t + 1) * ServerMax + (MaxTime - t) * ServerMax
    BY <1>1, FieldsAreNumbers
  <2>2. (MaxTime - t) * ServerMax \in Nat /\ (t + 1) * ServerMax \in Nat
    BY <1>1, FieldsAreNumbers
  <2>3. (t + 1) * ServerMax = (t + 1) + (t + 1) * (ServerMax - 1)
        /\ (t + 1) * (ServerMax - 1) \in Nat
    BY <1>1, FieldsAreNumbers
  <2> HIDE DEF top
  <2> QED
    BY <2>1, <2>2, <2>3, <1>1
<1>4. /\ t \in 0..top /\ high \in 0..top
      /\ server * SeqMax \in 0..(w - 1) /\ seq \in 0..(SeqMax - 1)
  <2> DEFINE prod == t * ServerMax
             next == (t + 1) * ServerMax
             low == server * SeqMax
  <2> HIDE DEF top, w, prod, next, low
  <2> QED
    BY <1>1, <1>2, <1>3, FieldsAreNumbers DEF prod, next, low
<1> HIDE DEF top
<1>5. \A v \in {SeqMax, w} : \A h \in 0..top, low \in 0..(v - 1) :
        h * v + low <= Ones => BitOr(h * v, low) = h * v + low
  BY IdAssumption DEF top
<1>10. high * SeqMax + seq <= Ones /\ high * SeqMax <= Ones
  <2>1. Ones = top * SeqMax - 1
    BY DEF Ones, top
  <2>2. high + 1 <= top /\ high \in Nat /\ top \in Nat
    <3> DEFINE next == (t + 1) * ServerMax
    <3> HIDE DEF high, next
    <3>1. high < next /\ next <= top /\ high \in 0..top /\ next \in Nat /\ top \in Nat
      BY <1>2, <1>3, <1>4 DEF next
    <3> QED
      BY ONLY <3>1
  <2> HIDE DEF high
  <2>3. top * SeqMax = (high + 1) * SeqMax + (top - high - 1) * SeqMax
        /\ (top - high - 1) * SeqMax \in Nat
        /\ (high + 1) * SeqMax = high * SeqMax + SeqMax /\ high * SeqMax \in Nat
    BY <2>2, FieldsAreNumbers
  <2> DEFINE a == high * SeqMax
             b == top * SeqMax
             c == (top - high - 1) * SeqMax
  <2>4. b = a + SeqMax + c /\ c \in Nat /\ a \in Nat /\ Ones = b - 1
        /\ seq \in Nat /\ seq <= SeqMax - 1 /\ SeqMax \in Nat
    BY <2>1, <2>3, <1>1, <1>4, FieldsAreNumbers
  <2> HIDE DEF a, b, c
  <2>5. a + seq <= Ones /\ a <= Ones
    BY ONLY <2>4
  <2> QED
    BY <2>5 DEF a
<1> HIDE DEF w, high
<1>6. BitOr(t * w, server * SeqMax) = t * w + server * SeqMax
  BY <1>2, <1>4, <1>5, <1>10
<1>7. BitOr(high * SeqMax, seq) = high * SeqMax + seq
  BY <1>4, <1>5, <1>10
<1>8. Id(t, server, seq) = BitOr(BitOr(t * w, server * SeqMax), seq)
  BY DEF Id, Shifted, w
<1>9. Number(t, server, seq) = high * SeqMax + seq
  BY DEF Number, high
<1> QED
  BY <1>2, <1>6, <1>7, <1>8, <1>9

\* A number is the greater for its sequence, and for its second.
LEMMA NumbersGrow ==
  ASSUME NEW t \in Nat, NEW u \in Nat, NEW server \in Nat,
         NEW p \in 0..SeqMax, NEW q \in 0..SeqMax
  PROVE  /\ Number(t, server, p) \in Int
         /\ p < q => Number(t, server, p) < Number(t, server, q)
         /\ t < u => Number(t, server, p) <= Number(u, server, q)
<1> DEFINE h == (t * ServerMax + server) * SeqMax
           k == (u * ServerMax + server) * SeqMax
<1>1. h \in Nat /\ k \in Nat /\ SeqMax \in Nat /\ p \in Nat /\ q \in Nat
      /\ p <= SeqMax
  BY FieldsAreNumbers
<1>2. ASSUME t < u PROVE h + SeqMax <= k
  <2> DEFINE a == t * ServerMax + server
             b == u * ServerMax + server
  <2>1. u * ServerMax = t * ServerMax + ServerMax + (u - t - 1) * ServerMax
        /\ (u - t - 1) * ServerMax \in Nat /\ t * ServerMax \in Nat
        /\ u * ServerMax \in Nat
    BY <1>2, FieldsAreNumbers
  <2>2. b >= a + 1 /\ a \in Nat /\ b \in Nat
    BY <2>1, FieldsAreNumbers
  <2> HIDE DEF a, b
  <2>3. b * SeqMax = a * SeqMax + SeqMax + (b - a - 1) * SeqMax
        /\ (b - a - 1) * SeqMax \in Nat /\ a * SeqMax \in Nat /\ b * SeqMax \in Nat
    BY <2>2, FieldsAreNumbers
  <2>4. h = a * SeqMax /\ k = b * SeqMax
    BY DEF a, b
  <2> QED
    BY <2>3, <2>4, <1>1
<1>3. Number(t, server, p) = h + p /\ Number(t, server, q) = h + q
      /\ Number(u, server, q) = k + q
  BY DEF Number
<1> HIDE DEF h, k
<1> QED
  BY <1>1, <1>2, <1>3

LEMMA IdInitially == IdInit => IdInv
<1> SUFFICES ASSUME IdInit PROVE IdInv
  OBVIOUS
<1>1. <<>> \in Seq(Words) /\ DOMAIN <<>> = {}
  OBVIOUS
<1>2. IdTypeInv
  <2>1. 0 \in 0..MaxTime /\ 0 \in 0..SeqMax /\ 0 \in 0..(ServerMax - 1)
    BY FieldsAreNumbers
  <2>2. given \in Seq(Words)
    BY <1>1 DEF IdInit
  <2> QED
    BY <2>1, <2>2 DEF IdInit, IdTypeInv
<1>3. AscendInv
  BY <1>1 DEF IdInit, AscendInv
<1> QED
  BY <1>2, <1>3 DEF IdInv

LEMMA SetServerKeeps ==
  ASSUME IdInv, NEW id \in 1..ServerMax, SetServer(id) PROVE IdInv'
<1>1. /\ given = <<>> /\ given' = <<>> /\ DOMAIN given' = {}
      /\ m_serverId' = (IF id >= ServerMax THEN m_serverId ELSE id)
      /\ UNCHANGED <<time, m_curTime, m_seqId, m_lock, setBack>>
  BY DEF SetServer
<1>2. IdTypeInv'
  <2>1. m_serverId' \in 0..(ServerMax - 1)
    BY <1>1, FieldsAreNumbers DEF IdInv, IdTypeInv
  <2>2. given' \in Seq(Words)
    BY <1>1 DEF IdInv, IdTypeInv
  <2> QED
    BY <1>1, <2>1, <2>2 DEF IdInv, IdTypeInv
<1>3. AscendInv'
  <2>1. m_serverId = 0 /\ m_serverId' \in Nat
    BY <1>1, FieldsAreNumbers DEF SetServer
  <2>2. m_serverId' < ServerMax \div 2 => m_serverId < ServerMax \div 2
    BY <2>1, FieldsAreNumbers
  <2> QED
    BY <1>1, <2>2 DEF IdInv, AscendInv
<1> QED
  BY <1>2, <1>3 DEF IdInv

LEMMA GetIdKeeps ==
  ASSUME IdInv, NEW t \in IdThreads, GetId(t) PROVE IdInv'
<1> DEFINE first == IF time # m_curTime THEN 0 ELSE m_seqId
           id == Id(time, m_serverId, first)
           n == Len(given)
<1>1. /\ time \in 0..MaxTime /\ m_curTime \in 0..MaxTime /\ m_seqId \in 0..SeqMax
      /\ m_serverId \in 0..(ServerMax - 1) /\ m_serverId \in Nat
      /\ given \in Seq(Words) /\ m_lock \subseteq IdThreads /\ setBack \in BOOLEAN
      /\ first \in 0..SeqMax /\ time \in Nat /\ m_curTime \in Nat
  BY FieldsAreNumbers DEF IdInv, IdTypeInv
<1>2. /\ m_curTime' = time
      /\ m_seqId' = (IF Exhausted(first + 1) THEN SeqMax ELSE first + 1)
      /\ UNCHANGED <<time, m_serverId, setBack>>
      /\ IF Exhausted(first + 1) THEN UNCHANGED <<given, m_lock>>
         ELSE given' = Append(given, id) /\ m_lock' = {}
  BY DEF GetId
<1>3. first <= m_seqId' /\ m_seqId' \in 0..SeqMax
  BY <1>1, <1>2, FieldsAreNumbers DEF Exhausted
<1> HIDE DEF first, id
\* The generator's number does not become less, unless the clock was set back.
<1>4. ASSUME m_curTime <= time
      PROVE  Number(m_curTime, m_serverId, m_seqId) <= Number(time, m_serverId, first)
             /\ Number(time, m_serverId, first) <= Number(time, m_serverId, m_seqId')
             /\ Number(time, m_serverId, first) \in Int
             /\ Number(time, m_serverId, m_seqId') \in Int
             /\ Number(m_curTime, m_serverId, m_seqId) \in Int
  <2>1. /\ Number(time, m_serverId, first) \in Int
        /\ Number(time, m_serverId, m_seqId') \in Int
        /\ Number(m_curTime, m_serverId, m_seqId) \in Int
        /\ first < m_seqId' =>
             Number(time, m_serverId, first) < Number(time, m_serverId, m_seqId')
        /\ m_curTime < time =>
             Number(m_curTime, m_serverId, m_seqId) <= Number(time, m_serverId, first)
    BY <1>1, <1>3, NumbersGrow
  <2>2. m_curTime < time \/ (m_curTime = time /\ first = m_seqId)
    BY <1>1, <1>4 DEF first
  <2>3. first < m_seqId' \/ first = m_seqId'
    BY <1>1, <1>3
  <2> QED
    BY <2>1, <2>2, <2>3
<1>5. CASE Exhausted(first + 1)
  <2>1. UNCHANGED <<given, m_lock>>
    BY <1>2, <1>5
  <2>2. IdTypeInv'
    BY <1>1, <1>2, <1>3, <2>1 DEF IdTypeInv
  <2>3. AscendInv'
    <3> SUFFICES ASSUME ~setBack, m_serverId < ServerMax \div 2
                 PROVE  /\ \A i \in DOMAIN given :
                             /\ given[i] \in Int
                             /\ given[i] < Number(time, m_serverId, m_seqId')
                        /\ \A i, j \in DOMAIN given : i < j => given[i] < given[j]
      BY <1>1, <1>2, <2>1 DEF AscendInv
    <3>1. /\ m_curTime <= time
          /\ \A i \in DOMAIN given :
               given[i] \in Int /\ given[i] < Number(m_curTime, m_serverId, m_seqId)
          /\ \A i, j \in DOMAIN given : i < j => given[i] < given[j]
      BY DEF IdInv, AscendInv
    <3> QED
      BY <3>1, <1>4
  <2> QED
    BY <2>2, <2>3 DEF IdInv
<1>6. CASE ~Exhausted(first + 1)
  <2>1. /\ given' = Append(given, id) /\ m_lock' = {}
        /\ first \in 0..(SeqMax - 1) /\ first < m_seqId'
    BY <1>1, <1>2, <1>6, FieldsAreNumbers DEF Exhausted
  <2>2. id \in Words
    BY <1>1, <2>1 DEF id, Words
  <2>3. n \in Nat /\ DOMAIN given = 1..n
    BY <1>1, LenProperties
  <2>4. /\ given' \in Seq(Words) /\ DOMAIN given' = 1..(n + 1)
        /\ \A i \in 1..n : given'[i] = given[i]
        /\ given'[n + 1] = id
    BY <1>1, <2>1, <2>2, <2>3, AppendProperties, LenProperties
  <2>5. IdTypeInv'
    BY <1>1, <1>2, <1>3, <2>1, <2>4 DEF IdTypeInv
  <2>6. AscendInv'
    <3> SUFFICES ASSUME ~setBack, m_serverId < ServerMax \div 2
                 PROVE  /\ \A i \in DOMAIN given' :
                             /\ given'[i] \in Int
                             /\ given'[i] < Number(time, m_serverId, m_seqId')
                        /\ \A i, j \in DOMAIN given' : i < j => given'[i] < given'[j]
      BY <1>1, <1>2 DEF AscendInv
    <3>1. /\ m_curTime <= time
          /\ \A i \in 1..n :
               given[i] \in Int /\ given[i] < Number(m_curTime, m_serverId, m_seqId)
          /\ \A i, j \in 1..n : i < j => given[i] < given[j]
      BY <2>3 DEF IdInv, AscendInv
    <3>2. id = Number(time, m_serverId, first) /\ id \in Int
      BY <1>1, <2>1, IdIsNumber, <3>1, <1>4 DEF id
    <3>3. id < Number(time, m_serverId, m_seqId')
      BY <1>1, <1>3, <2>1, <3>2, NumbersGrow
    <3>4. \A i \in 1..n : given'[i] = given[i] /\ given'[i] \in Int /\ given'[i] < id
      BY <2>4, <3>1, <3>2, <1>4
    <3>5. \A i \in 1..(n + 1) : i \in 1..n \/ i = n + 1
      BY <2>3
    <3>6. \A i \in DOMAIN given' : given'[i] \in Int
                                   /\ given'[i] < Number(time, m_serverId, m_seqId')
      BY <2>4, <3>2, <3>3, <3>4, <3>5, <1>4, <3>1
    <3>7. ASSUME NEW i \in DOMAIN given', NEW j \in DOMAIN given', i < j
          PROVE  given'[i] < given'[j]
      <4>1. i \in 1..n
        BY <2>3, <2>4, <3>7
      <4>2. CASE j \in 1..n
        BY <4>1, <4>2, <2>4, <3>1, <3>7
      <4>3. CASE j = n + 1
        BY <4>1, <4>3, <2>4, <3>4
      <4> QED
        BY <4>2, <4>3, <3>5, <2>4
    <3> QED
      BY <3>6, <3>7
  <2> QED
    BY <2>5, <2>6 DEF IdInv
<1> QED
  BY <1>5, <1>6

LEMMA IdStep == IdInv /\ [IdNext]_idVars => IdInv'
<1> SUFFICES ASSUME IdInv, [IdNext]_idVars PROVE IdInv'
  OBVIOUS
<1>1. ASSUME NEW id \in 1..ServerMax, SetServer(id) PROVE IdInv'
  BY <1>1, SetServerKeeps
<1>2. ASSUME NEW t \in 0..MaxTime, TimeGoes(t) PROVE IdInv'
  <2>1. /\ time' = t /\ setBack' = (setBack \/ t < time)
        /\ UNCHANGED <<m_curTime, m_seqId, m_serverId, m_lock, given>>
    BY <1>2 DEF TimeGoes
  <2>2. IdTypeInv'
    BY <2>1 DEF IdInv, IdTypeInv
  <2>3. ~setBack' => ~setBack /\ ~(t < time)
    BY <2>1
  <2>4. t \in Int /\ time \in Int /\ time' \in Int /\ m_curTime \in Int
    BY <1>2, <2>1, FieldsAreNumbers DEF IdInv, IdTypeInv
  <2>5. AscendInv'
    <3>1. ~setBack' => ~setBack /\ time <= time'
      BY <2>1, <2>3, <2>4
    <3> QED
      BY <2>1, <3>1, <2>4 DEF IdInv, AscendInv
  <2> QED
    BY <2>2, <2>5 DEF IdInv
<1>3. ASSUME NEW t \in IdThreads, Lock(t) PROVE IdInv'
  <2>1. m_lock' = {t} /\ UNCHANGED <<time, m_curTime, m_seqId, m_serverId, given, setBack>>
    BY <1>3 DEF Lock
  <2> QED
    BY <2>1 DEF IdInv, IdTypeInv, AscendInv
<1>4. ASSUME NEW t \in IdThreads, GetId(t) PROVE IdInv'
  BY <1>4, GetIdKeeps
<1>5. CASE UNCHANGED idVars
  BY <1>5 DEF idVars, IdInv, IdTypeInv, AscendInv
<1> QED
  BY <1>1, <1>2, <1>3, <1>4, <1>5 DEF IdNext

\* Threads that take identifiers from one generator never get the same one,
\* whatever their number, the width of the fields and the seconds in which
\* the sequence runs out, while the clock is not set back.
THEOREM IdsUniqueAlways == IdSpec => []IdsUnique
<1>1. IdInit => IdInv
  BY IdInitially
<1>2. IdInv /\ [IdNext]_idVars => IdInv'
  BY IdStep
<1>3. IdInv => IdsUnique
  BY DEF IdInv, AscendInv, IdsUnique
<1> QED
  BY <1>1, <1>2, <1>3, PTL DEF IdSpec

-----------------------------------------------------------------------------
(* asSingleton.                                                             *)

TypeInv ==
  /\ s_single \in Nat /\ made \in Nat /\ deletes \in Nat /\ handed \in Seq(Nat)
  /\ s_mutex \subseteq Callers
  /\ at \in [Callers -> {"out", "lock", "test", "new", "return", "delete"}]

\* Who tests again, makes an instance or deletes it holds the lock, alone; who
\* makes one has seen that there is none.
LockInv ==
  /\ \A t \in Callers : at[t] \in {"test", "new", "delete"} <=> t \in s_mutex
  /\ \A t, u \in s_mutex : t = u
  /\ \A t \in Callers : at[t] = "new" => s_single = NoObject

\* What is alive is what the pointer names, except while that is deleted.
Deleting == \E t \in Callers : at[t] = "delete"
AliveInv == alive = IF s_single = NoObject \/ Deleting THEN {} ELSE {s_single}

\* Until the first call of delete_instance: there is no object or the first,
\* who is about to return has seen it, and it is all that was handed out.
FirstInv ==
  deletes = 0 =>
    /\ s_single = made /\ made \in {0, 1} /\ ~Deleting
    /\ \A t \in Callers : at[t] = "return" => s_single = 1
    /\ \A i \in DOMAIN handed : handed[i] = 1

OneInv == TypeInv /\ LockInv /\ AliveInv /\ FirstInv

LEMMA GoesSteps ==
  ASSUME TypeInv, NEW t \in Callers, NEW from,
         NEW to \in {"out", "lock", "test", "new", "return", "delete"},
         Goes(t, from, to)
  PROVE  /\ at' \in [Callers -> {"out", "lock", "test", "new", "return", "delete"}]
         /\ at[t] = from /\ at'[t] = to
         /\ \A u \in Callers : u # t => at'[u] = at[u]
BY DEF Goes, TypeInv

LEMMA OneInvStep ==
  ASSUME OneInv, [OneNext]_oneVars
  PROVE  OneInv'
<1> USE DEF NoObject
<1>1. CASE UNCHANGED oneVars
  BY <1>1 DEF oneVars, OneInv, TypeInv, LockInv, AliveInv, FirstInv, Deleting
<1>2. ASSUME NEW t \in Callers, Instance(t) PROVE OneInv'
  <2> DEFINE to == IF s_single # NoObject THEN "return" ELSE "lock"
  <2>1. to \in {"out", "lock", "test", "new", "return", "delete"} /\ Goes(t, "out", to)
    BY <1>2 DEF Instance
  <2>2. /\ at' \in [Callers -> {"out", "lock", "test", "new", "return", "delete"}]
        /\ at[t] = "out" /\ at'[t] = to
        /\ \A u \in Callers : u # t => at'[u] = at[u]
    BY <2>1, GoesSteps DEF OneInv
  <2>3. UNCHANGED <<s_single, s_mutex, made, alive, handed, deletes>>
    BY <1>2 DEF Instance
  <2>4. TypeInv'
    BY <2>2, <2>3 DEF OneInv, TypeInv
  <2>5. LockInv'
    BY <2>2, <2>3 DEF OneInv, LockInv
  <2>6. AliveInv' /\ FirstInv'
    BY <2>2, <2>3 DEF OneInv, AliveInv, FirstInv, Deleting
  <2> QED
    BY <2>4, <2>5, <2>6 DEF OneInv
<1>3. ASSUME NEW t \in Callers, LockForNew(t) PROVE OneInv'
  <2>1. /\ at' \in [Callers -> {"out", "lock", "test", "new", "return", "delete"}]
        /\ at[t] = "lock" /\ at'[t] = "test"
        /\ \A u \in Callers : u # t => at'[u] = at[u]
    BY <1>3, GoesSteps DEF OneInv, LockForNew
  <2>2. /\ s_mutex = {} /\ s_mutex' = {t}
        /\ UNCHANGED <<s_single, made, alive, handed, deletes>>
    BY <1>3 DEF LockForNew
  <2>3. TypeInv' /\ LockInv'
    BY <2>1, <2>2 DEF OneInv, TypeInv, LockInv
  <2>4. AliveInv' /\ FirstInv'
    BY <2>1, <2>2 DEF OneInv, AliveInv, FirstInv, Deleting
  <2> QED
    BY <2>3, <2>4 DEF OneInv
<1>4. ASSUME NEW t \in Callers, TestAgain(t) PROVE OneInv'
  <2> DEFINE to == IF s_single # NoObject THEN "return" ELSE "new"
  <2>1. to \in {"out", "lock", "test", "new", "return", "delete"} /\ Goes(t, "test", to)
    BY <1>4 DEF TestAgain
  <2>2. /\ at' \in [Callers -> {"out", "lock", "test", "new", "return", "delete"}]
        /\ at[t] = "test" /\ at'[t] = to
        /\ \A u \in Callers : u # t => at'[u] = at[u]
    BY <2>1, GoesSteps DEF OneInv
  <2>3. /\ s_mutex' = (IF s_single # NoObject THEN {} ELSE s_mutex)
        /\ UNCHANGED <<s_single, made, alive, handed, deletes>>
    BY <1>4 DEF TestAgain
  <2>4. s_mutex = {t}
    BY <2>2 DEF OneInv, LockInv
  <2>5. TypeInv'
    BY <2>2, <2>3 DEF OneInv, TypeInv
  <2>6. LockInv'
    BY <2>2, <2>3, <2>4 DEF OneInv, LockInv
  <2>7. AliveInv' /\ FirstInv'
    BY <2>2, <2>3 DEF OneInv, AliveInv, FirstInv, Deleting
  <2> QED
    BY <2>5, <2>6, <2>7 DEF OneInv
<1>5. ASSUME NEW t \in Callers, New(t) PROVE OneInv'
  <2>1. /\ at' \in [Callers -> {"out", "lock", "test", "new", "return", "delete"}]
        /\ at[t] = "new" /\ at'[t] = "return"
        /\ \A u \in Callers : u # t => at'[u] = at[u]
    BY <1>5, GoesSteps DEF OneInv, New
  <2>2. /\ made' = made + 1 /\ s_single' = made + 1 /\ alive' = alive \cup {made + 1}
        /\ s_mutex' = {} /\ UNCHANGED <<handed, deletes>>
    BY <1>5 DEF New
  <2>3. s_mutex = {t} /\ s_single = 0 /\ made \in Nat
    BY <2>1 DEF OneInv, LockInv, TypeInv
  <2>4. TypeInv'
    BY <2>1, <2>2, <2>3 DEF OneInv, TypeInv
  <2>5. LockInv'
    BY <2>1, <2>2, <2>3 DEF OneInv, LockInv
  <2>6. AliveInv' /\ FirstInv'
    <3>1. ~Deleting /\ ~Deleting'
      BY <2>1, <2>3 DEF OneInv, LockInv, Deleting
    <3> QED
      BY <3>1, <2>1, <2>2, <2>3 DEF OneInv, AliveInv, FirstInv
  <2> QED
    BY <2>4, <2>5, <2>6 DEF OneInv
<1>6. ASSUME NEW t \in Callers, Return(t) PROVE OneInv'
  <2>1. /\ at' \in [Callers -> {"out", "lock", "test", "new", "return", "delete"}]
        /\ at[t] = "return" /\ at'[t] = "out"
        /\ \A u \in Callers : u # t => at'[u] = at[u]
    BY <1>6, GoesSteps DEF OneInv, Return
  <2>2. /\ handed' = Append(handed, s_single)
        /\ UNCHANGED <<s_single, s_mutex, made, alive, deletes>>
    BY <1>6 DEF Return
  <2>3. /\ handed \in Seq(Nat) /\ s_single \in Nat /\ Len(handed) \in Nat
        /\ DOMAIN handed = 1..Len(handed)
    BY LenProperties DEF OneInv, TypeInv
  <2>4. /\ handed' \in Seq(Nat) /\ DOMAIN handed' = 1..Len(handed) + 1
        /\ \A i \in 1..Len(handed) : handed'[i] = handed[i]
        /\ handed'[Len(handed) + 1] = s_single
    BY <2>2, <2>3, AppendProperties, LenProperties
  <2>5. TypeInv' /\ LockInv'
    BY <2>1, <2>2, <2>4 DEF OneInv, TypeInv, LockInv
  <2>6. FirstInv'
    <3> SUFFICES ASSUME deletes = 0, NEW i \in DOMAIN handed'
                 PROVE  handed'[i] = 1
      BY <2>1, <2>2 DEF OneInv, FirstInv, Deleting
    <3>1. s_single = 1 /\ \A j \in 1..Len(handed) : handed[j] = 1
      BY <2>1, <2>3 DEF OneInv, FirstInv
    <3>2. i = Len(handed) + 1 \/ i \in 1..Len(handed)
      BY <2>3, <2>4
    <3> QED
      BY <2>4, <3>1, <3>2
  <2>7. AliveInv'
    BY <2>1, <2>2 DEF OneInv, AliveInv, Deleting
  <2> QED
    BY <2>5, <2>6, <2>7 DEF OneInv
<1>7. ASSUME NEW t \in Callers, DeleteInstance(t) PROVE OneInv'
  <2>1. /\ at' \in [Callers -> {"out", "lock", "test", "new", "return", "delete"}]
        /\ at[t] = "out" /\ at'[t] = "delete"
        /\ \A u \in Callers : u # t => at'[u] = at[u]
    BY <1>7, GoesSteps DEF OneInv, DeleteInstance
  <2>2. /\ s_mutex = {} /\ s_mutex' = {t} /\ deletes' = deletes + 1 /\ deletes \in Nat
        /\ alive' = alive \ {s_single} /\ UNCHANGED <<s_single, made, handed>>
    BY <1>7 DEF DeleteInstance, OneInv, TypeInv
  <2>3. TypeInv' /\ LockInv'
    BY <2>1, <2>2 DEF OneInv, TypeInv, LockInv
  <2>4. AliveInv' /\ FirstInv'
    <3>1. Deleting' /\ alive' = {}
      BY <2>1, <2>2 DEF OneInv, AliveInv, Deleting
    <3> QED
      BY <3>1, <2>2 DEF AliveInv, FirstInv
  <2> QED
    BY <2>3, <2>4 DEF OneInv
<1>8. ASSUME NEW t \in Callers, ClearInstance(t) PROVE OneInv'
  <2>1. /\ at' \in [Callers -> {"out", "lock", "test", "new", "return", "delete"}]
        /\ at[t] = "delete" /\ at'[t] = "out"
        /\ \A u \in Callers : u # t => at'[u] = at[u]
    BY <1>8, GoesSteps DEF OneInv, ClearInstance
  <2>2. /\ s_mutex' = {} /\ s_single' = 0
        /\ UNCHANGED <<made, alive, handed, deletes>>
    BY <1>8 DEF ClearInstance
  <2>3. s_mutex = {t} /\ Deleting /\ alive = {} /\ deletes # 0
    BY <2>1 DEF OneInv, LockInv, AliveInv, FirstInv, Deleting
  <2>4. TypeInv' /\ LockInv'
    BY <2>1, <2>2, <2>3 DEF OneInv, TypeInv, LockInv
  <2>5. AliveInv' /\ FirstInv'
    BY <2>2, <2>3 DEF AliveInv, FirstInv
  <2> QED
    BY <2>4, <2>5 DEF OneInv
<1> QED
  BY <1>1, <1>2, <1>3, <1>4, <1>5, <1>6, <1>7, <1>8 DEF OneNext

\* However many threads race for the first instance, one object is alive, and
\* until it is deleted it is what every caller is handed.
THEOREM OneInstanceAlways == OneSpec => []OneInstance
<1>1. OneInit => OneInv
  <2>1. <<>> \in Seq(Nat) /\ DOMAIN <<>> = {}
    OBVIOUS
  <2> QED
    BY <2>1 DEF OneInit, NoObject, OneInv, TypeInv, LockInv, AliveInv, FirstInv, Deleting
<1>2. OneInv /\ [OneNext]_oneVars => OneInv'
  BY OneInvStep
<1>3. OneInv => OneInstance
  BY DEF OneInv, AliveInv, FirstInv, OneInstance
<1> QED
  BY <1>1, <1>2, <1>3, PTL DEF OneSpec
=============================================================================
