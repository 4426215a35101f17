------------------------------ MODULE QueryResult ------------------------------
(***************************************************************************)
(* asMySQLQueryResult (code/mysql/primary): what a query with several      *)
(* statements returned, and the cursor with which its caller reads it.  A  *)
(* result is freed when the cursor leaves it.  The one object may take the *)
(* results of a further query while it is being read.                      *)
(***************************************************************************)
EXTENDS Integers, Sequences, FiniteSets, SequencesExt

CONSTANTS ResultLists,   \* what a query may return: sequences of results
          MaxQueries,    \* bound: queries into the one object
          MaxReads       \* bound: steps of the reader

\* Every result that a query may return.
Results == UNION {ToSet(rs) : rs \in ResultLists}

ASSUME ResultsAssumption ==
  /\ \A rs \in ResultLists : rs \in Seq(Results)
  /\ \A r \in Results : Len(r.rows) \in Nat

NoResult == [cols |-> <<>>, rows |-> <<>>]   \* of a statement without rows: null

VARIABLES
  resList,    \* m_results
  resIndex,   \* m_resIndex
  curRes,     \* the place of m_curRes in resList, or 0
  curRow,     \* m_curRow: which row of curRes, or 0 for none
  fetched,    \* the rows of curRes that MySQL has handed out
  resFreed,   \* history: the places of the results that were freed
  resState,   \* "run", "undefined"
  visited,    \* history: the rows the cursor stood on
  strayed,    \* history: the reader sought, or left a result before its end
  queries,    \* queries so far
  reads       \* steps of the reader so far

resVars == <<resList, resIndex, curRes, curRow, fetched, resFreed, resState,
             visited, strayed, queries, reads>>

ResultInit ==
  /\ resList = <<>> /\ resIndex = 0 /\ curRes = 0 /\ curRow = 0 /\ fetched = 0
  /\ resFreed = <<>> /\ resState = "run" /\ visited = <<>> /\ strayed = FALSE
  /\ queries = 0 /\ reads = 0

\* The columns and rows of the current result; both are 0 without one.
m_columns == IF curRes = 0 THEN 0 ELSE Len(resList[curRes].cols)
m_rows == IF curRes = 0 THEN 0 ELSE Len(resList[curRes].rows)

\* A mutant: the results are put in front.
AddResultsInFront(rs) ==
  /\ resState = "run" /\ queries < MaxQueries
  /\ queries' = queries + 1
  /\ resList' = rs \o resList
  /\ UNCHANGED <<resIndex, curRes, curRow, fetched, resFreed, resState,
                 visited, strayed, reads>>

\* SyncQuery, Query: one AddResults per statement, null for one without rows.
AddResults(rs) ==
  /\ resState = "run" /\ queries < MaxQueries
  /\ queries' = queries + 1
  /\ resList' = resList \o rs
  /\ UNCHANGED <<resIndex, curRes, curRow, fetched, resFreed, resState,
                 visited, strayed, reads>>

Read == /\ resState = "run" /\ reads < MaxReads
        /\ reads' = reads + 1
        /\ UNCHANGED <<resList, queries>>

\* mysql_fetch_row, when n rows were handed out before.
MysqlFetchRow(res, n) ==
  IF n < Len(resList[res].rows)
  THEN /\ curRow' = n + 1 /\ fetched' = n + 1
       /\ visited' = Append(visited, <<res, n + 1>>)
  ELSE curRow' = 0 /\ fetched' = n /\ UNCHANGED visited

FreeCurResult ==
  resFreed' = IF curRes = 0 THEN resFreed ELSE Append(resFreed, curRes)

IsEndResults == resIndex >= Len(resList)
IsEof == curRow = 0

NoCurrent == curRes' = 0 /\ curRow' = 0 /\ fetched' = 0 /\ UNCHANGED visited

\* The result behind the current one, at its first row.
NextResult ==
  /\ Read
  /\ FreeCurResult
  /\ strayed' = (strayed \/ ~IsEof)
  /\ IF IsEndResults
     THEN NoCurrent /\ UNCHANGED <<resIndex, resState>>
     ELSE /\ resIndex' = resIndex + 1
          /\ IF resList[resIndex + 1] = NoResult
             THEN NoCurrent /\ resState' = "undefined"
             ELSE /\ curRes' = resIndex + 1
                  /\ MysqlFetchRow(resIndex + 1, 0)
                  /\ UNCHANGED resState

NextRow ==
  /\ Read
  /\ IF curRes = 0 THEN UNCHANGED <<curRow, fetched, visited>>
     ELSE MysqlFetchRow(curRes, fetched)
  /\ UNCHANGED <<resIndex, curRes, resFreed, resState, strayed>>

\* The test lets the place behind the last row pass: then there is no row.
SeekRow(offset) ==
  /\ Read
  /\ IF curRes = 0 \/ m_rows < offset
     THEN UNCHANGED <<curRow, fetched, visited, strayed>>
     ELSE MysqlFetchRow(curRes, offset) /\ strayed' = TRUE
  /\ UNCHANGED <<resIndex, curRes, resFreed, resState>>

\* The getters give the default without a row and for columns that are not
\* there, except for the one behind the last: it is read, behind the row.
IsDefault(column) ==
  curRes = 0 \/ m_columns = 0 \/ m_columns < column \/ curRow = 0

GetValue(column) ==
  /\ Read
  /\ resState' = IF ~IsDefault(column) /\ column = m_columns THEN "undefined"
                 ELSE resState
  /\ UNCHANGED <<resIndex, curRes, curRow, fetched, resFreed, visited, strayed>>

\* -1 for a name nobody knows, which the getters take for a huge column.
Huge == 999
GetColumnIndex(name) ==
  LET cols == IF curRes = 0 THEN <<>> ELSE resList[curRes].cols
  IN  IF name \in ToSet(cols) THEN SelectInSeq(cols, LAMBDA c : c = name) - 1
      ELSE Huge

\* GetColumnName and GetColumnType have no need of a row.
GetColumnName(column) ==
  /\ Read
  /\ resState' = IF curRes # 0 /\ column = m_columns THEN "undefined"
                 ELSE resState
  /\ UNCHANGED <<resIndex, curRes, curRow, fetched, resFreed, visited, strayed>>

ResultNext ==
  \/ \E rs \in ResultLists : AddResults(rs)
  \/ NextResult \/ NextRow
  \/ \E n \in 0..2 : SeekRow(n) \/ GetValue(n) \/ GetColumnName(n)
  \/ \E name \in {"a", "z"} : GetValue(GetColumnIndex(name))

ResultSpec == ResultInit /\ [][ResultNext]_resVars

-----------------------------------------------------------------------------
\* A reader that goes through every result to its end meets each row of each
\* result once, statement after statement, also when a further query adds its
\* results meanwhile.  However it moves, the row it stands on belongs to a
\* result that is not freed, and no result is freed twice.
\* About: NextResult, NextRow, SeekRow, AddResults, FreeCurResult.
CursorExact ==
  /\ ~strayed /\ resState = "run" =>
       LET Rows(r, n) == [i \in 1..n |-> <<r, i>>]
           left == IF curRes = 0 THEN resIndex ELSE resIndex - 1
       IN  visited = FlattenSeq([r \in 1..left |-> Rows(r, Len(resList[r].rows))])
                       \o Rows(curRes, fetched)
  /\ \A i, j \in DOMAIN resFreed : resFreed[i] = resFreed[j] => i = j
  /\ curRes \notin ToSet(resFreed)
  /\ curRow # 0 => curRow <= m_rows
=============================================================================
