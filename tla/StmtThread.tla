------------------------------ MODULE StmtThread ------------------------------
(***************************************************************************)
(* asMySQLStmtThread, asMySQLStmtQuery and asMySQLStmt (code/mysql/stmt):  *)
(* a message thread that answers requests of network clients with prepared *)
(* statements.  LoadStmtConfig fills its map before the thread starts; a   *)
(* request names a statement and carries its arguments, packed, and at the *)
(* end eight bytes that the response gives back; the derived class may run *)
(* statements of its own in OnNewMsg.  All of this happens on one thread,  *)
(* message after message; every statement shares one connection and one    *)
(* buffer of results, and keeps its bound parameters between executions.   *)
(*                                                                         *)
(* Data are sequences of units: a value of fixed width is one unit, a      *)
(* string its length and as many units as that.  MySQL is external.        *)
(***************************************************************************)
EXTENDS NodeBuffer

CONSTANTS StmtConfigs,    \* what a statement may be configured as
          StmtMessages,   \* the messages that may be posted to the thread
          StmtOutcomes,   \* what may become of an execution and its rows
          ResultRoom,     \* the size m_results starts with
          MaxRequests     \* bound: messages to the thread

ParamTypes == [t : {"fix", "flt", "str", "?"}, n : Nat]
Configs == [ins : Seq(ParamTypes), outs : Seq(ParamTypes),
            flag : SUBSET {"insert", "null", "one", "multi"}]

\* Units are numbers, those of a message without a sign, and the buffer of
\* results has memory from the start.
ASSUME StmtAssumption ==
  /\ StmtConfigs \subseteq Configs
  /\ \A m \in StmtMessages :
       \/ m.op = "net" /\ m.data \in Seq(Nat)
       \/ m.op = "call" /\ m.q \in Configs /\ m.args \in Seq(Seq(Int))
  /\ \A o \in StmtOutcomes : /\ o.ok \in BOOLEAN /\ o.stored \in BOOLEAN
                              /\ o.rows \in Seq(Seq(Seq(Int)))
  /\ ResultRoom \in Nat \ {0}

VARIABLES
  stmtPhase,   \* "load" until the thread is started, then "run"
  stmtThread,  \* "run", "hung" (in a loop without end), "undefined"
  stmts,       \* m_stmts: identifier to statement
  stmtMap,     \* m_map: identifier to flags
  adhoc,       \* m_stmt
  results,     \* m_results
  affected,    \* m_affectCount
  pending,     \* whose result the connection still holds
  stmtInbox,   \* the messages posted and not handled
  asked,       \* history: the messages
  served,      \* history: per message, what the server saw and did
  answers      \* history: what SendResponse was given

stmtVars == <<stmtPhase, stmtThread, stmts, stmtMap, adhoc, results, affected,
              pending, stmtInbox, asked, served, answers>>

StmtIds == {1}             \* requests also name an identifier nobody loaded
AdHoc == 0                 \* m_stmt, among the statements of a connection
NoOne == -1
Param(t, n) == [t |-> t, n |-> n]     \* "fix", "flt", "str" of length n, "?"
IsStr(t) == t.t = "str"
Null == <<-2>>             \* a column that is NULL
Unserved == [reached |-> FALSE, args |-> <<>>, ok |-> FALSE, rows |-> <<>>,
             stored |-> TRUE, count |-> 0]

-----------------------------------------------------------------------------
(* One statement (asMySQLStmt) and its parameters (asStmtParam and those    *)
(* derived from it).  A string binds the memory its buffer has at first.    *)

BindParam(t) ==
  [type |-> t, len |-> 0,
   value |-> IF IsStr(t) THEN InitBuffer(NewBuffer, t.n)
             ELSE SetSize(WrapBuffer(NewBuffer, <<0>>), 1)]

NewStmt == [ins |-> <<>>, outs |-> <<>>, nIn |-> 0, nOut |-> 0, flag |-> {},
            handle |-> "none"]

\* The parameters before the first of a type nobody knows; the array behind
\* them stays as new left it.
BindAll(ts) ==
  LET bad == SelectInSeq(ts, LAMBDA t : t.t = "?")
      ok == IF bad = 0 THEN ts ELSE SubSeq(ts, 1, bad - 1)
  IN  [i \in DOMAIN ok |-> BindParam(ok[i])]

\* handle is what PrepareStmt comes to: "prepared", or "none" for a failure.
InitStmtParams(s, c, handle) ==
  LET bound == [s EXCEPT !.ins = BindAll(c.ins), !.nIn = Len(c.ins),
                         !.outs = BindAll(c.outs), !.nOut = Len(c.outs),
                         !.flag = c.flag]
      known == Len(bound.ins) = bound.nIn /\ Len(bound.outs) = bound.nOut
  IN  IF known THEN [bound EXCEPT !.handle = handle] ELSE bound

\* Clear deletes every parameter it counted, bound or not.
ClearIsDefined(s) == Len(s.ins) = s.nIn /\ Len(s.outs) = s.nOut

SetData(p, d) ==
  IF IsStr(p.type) THEN [p EXCEPT !.value = WriteBuf(@, d), !.len = Len(d)]
  ELSE [p EXCEPT !.value.mem = d]

ResetParam(p) ==
  IF IsStr(p.type) THEN [p EXCEPT !.value = ResetBuffer(@), !.len = 0]
  ELSE [p EXCEPT !.value.mem = <<0>>]

\* A mutant: the arguments stay.
ResetBindDataKeepsValues(s) ==
  [s EXCEPT !.outs = [i \in DOMAIN @ |-> ResetParam(@[i])]]

ResetBindData(s) ==
  [s EXCEPT !.ins = [i \in DOMAIN @ |-> ResetParam(@[i])],
            !.outs = [i \in DOMAIN @ |-> ResetParam(@[i])]]

\* What MySQL reads at execution: of a string, len units from the memory
\* that was bound; if that was replaced since, from freed memory.
Sent(p) ==
  IF ~IsStr(p.type) THEN p.value.mem
  ELSE [i \in 1..p.len |-> IF p.value.moved THEN Junk ELSE p.value.mem[i]]

\* One argument taken from packed data; the test of the length comes last.
Take(st, i) ==
  LET p == st.s.ins[i]
      there == st.at < Len(st.d)
      n == IF IsStr(p.type) /\ there THEN st.d[st.at + 1] ELSE 0
      from == IF IsStr(p.type) THEN st.at + 1 ELSE st.at
      to == IF IsStr(p.type) THEN from + n ELSE from + 1
      fits == there /\ to <= Len(st.d)
      d == [k \in 1..(to - from) |-> IF from + k <= Len(st.d) THEN st.d[from + k]
                                     ELSE Junk]
  IN  IF ~st.ok THEN st
      ELSE [st EXCEPT !.s.ins[i] = SetData(@, d), !.at = to, !.ok = fits,
                      !.over = IsStr(p.type) /\ ~fits]

\* ExecuteQuery(len, data) up to the execution.  over: a string was copied
\* from behind the end of the message.
Unpack(s, d) ==
  LET none == [s |-> ResetBindData(s), d |-> d, at |-> 0, ok |-> TRUE,
               over |-> FALSE]
      taken[i \in 0..s.nIn] == IF i = 0 THEN none ELSE Take(taken[i - 1], i)
  IN  taken[s.nIn]

\* ExecuteQuery(num, va_list): the caller passes the arguments one by one.
PassArgs(s, args) ==
  IF Len(args) < s.nIn THEN [s |-> s, ok |-> FALSE, over |-> FALSE]
  ELSE [s |-> [ResetBindData(s) EXCEPT !.ins =
                 [i \in DOMAIN @ |-> SetData(@[i], args[i])]],
        ok |-> TRUE, over |-> FALSE]

-----------------------------------------------------------------------------
(* Rows to nodes (GetResultsToBuffer).                                      *)

\* The rows of an execution that mysql_stmt_fetch will find: none if
\* mysql_stmt_bind_result or mysql_stmt_store_result fails.  The function then
\* returns -1 with m_rows at 0 and m_results empty, and no caller looks at it.
Received(o) == IF o.stored THEN o.rows ELSE <<>>

\* mysql_stmt_fetch fills the bound columns; a NULL leaves its column alone.
FetchColumn(p, v) == IF v = Null THEN p
                     ELSE [p EXCEPT !.value.mem = v, !.len = Len(v)]

\* A string longer than its column makes the fetch return other than 0.
Truncated(outs, row) ==
  \E i \in DOMAIN outs : /\ IsStr(outs[i].type) /\ row[i] # Null
                         /\ Len(row[i]) > outs[i].type.n

WriteColumn(nb, p) ==
  IF IsStr(p.type) THEN WriteSerialize(nb, SubSeq(p.value.mem, 1, p.len))
  ELSE Write(nb, p.value.mem)

\* A column of type f32 is written and then taken for an unknown type: the
\* node stays open and the function returns.
WriteRow(nb, outs) ==
  LET bad == SelectInSeq(outs, LAMBDA p : p.type.t = "flt")
      n == IF bad = 0 THEN Len(outs) ELSE bad
      written[i \in 0..n] ==
        IF i = 0 THEN StartWrite(nb) ELSE WriteColumn(written[i - 1], outs[i])
  IN  IF bad = 0 THEN EndWrite(written[n]) ELSE written[n]

FetchRow(st, row) ==
  LET outs == [i \in DOMAIN st.outs |-> FetchColumn(st.outs[i], row[i])]
  IN  IF ~st.more THEN st
      ELSE IF Truncated(outs, row) THEN [st EXCEPT !.more = FALSE]
      ELSE [nb |-> WriteRow(st.nb, outs), outs |-> outs,
            more |-> \A i \in DOMAIN outs : outs[i].type.t # "flt"]

FetchRows(start, rows) ==
  LET fetched[k \in 0..Len(rows)] ==
        IF k = 0 THEN start ELSE FetchRow(fetched[k - 1], rows[k])
  IN  fetched[Len(rows)]

\* A mutant: the results of earlier statements stay in front.
GetResultsToBufferAppends(s, rows) ==
  LET start == [nb |-> results, outs |-> s.outs, more |-> TRUE]
  IN  IF s.flag \cap {"one", "multi"} = {} THEN start
      ELSE FetchRows(start, rows)

GetResultsToBuffer(s, rows) ==
  LET start == [nb |-> EmptyNodes(results), outs |-> s.outs, more |-> TRUE]
  IN  IF s.flag \cap {"one", "multi"} = {} THEN start
      ELSE FetchRows(start, rows)

\* A mutant: nobody clears the result.
ClearResultForgotten(holder, who) == holder

\* The statement's results leave the connection, not those of another.
ClearResult(holder, who) == IF holder = who THEN NoOne ELSE holder

-----------------------------------------------------------------------------
StmtInit ==
  /\ stmtPhase = "load" /\ stmtThread = "run"
  /\ stmts = <<>> /\ stmtMap = <<>> /\ adhoc = NewStmt
  /\ results = NewNodes(ResultRoom) /\ affected = 0 /\ pending = NoOne
  /\ stmtInbox = <<>> /\ asked = <<>> /\ served = <<>> /\ answers = <<>>

\* A statement that cannot be prepared stays in m_stmts, not in m_map, and
\* its identifier cannot be loaded again.
LoadStmtConfig(id, c, handle) ==
  /\ stmtPhase = "load"
  /\ IF id \in DOMAIN stmts THEN UNCHANGED <<stmts, stmtMap>>
     ELSE LET s == InitStmtParams(NewStmt, c, handle)
              With(map, v) == [k \in DOMAIN map \cup {id} |->
                                 IF k = id THEN v ELSE map[k]]
          IN  /\ stmts' = With(stmts, s)
              /\ stmtMap' = IF s.handle = "prepared" THEN With(stmtMap, c.flag)
                            ELSE stmtMap
  /\ UNCHANGED <<stmtPhase, stmtThread, adhoc, results, affected, pending,
                 stmtInbox, asked, served, answers>>

StmtStart ==
  /\ stmtPhase = "load"
  /\ stmtPhase' = "run"
  /\ UNCHANGED <<stmtThread, stmts, stmtMap, adhoc, results, affected, pending,
                 stmtInbox, asked, served, answers>>

\* A request of the network, or a message of the application for which
\* OnNewMsg calls Query with the configuration q.
StmtPost(m) ==
  /\ stmtPhase = "run"
  /\ Len(asked) < MaxRequests
  /\ asked' = Append(asked, m)
  /\ stmtInbox' = Append(stmtInbox, m)
  /\ served' = Append(served, Unserved)
  /\ UNCHANGED <<stmtPhase, stmtThread, stmts, stmtMap, adhoc, results,
                 affected, pending, answers>>

\* OnNewNetMsg executes the statement: it is loaded, and its flag names a kind
\* of result.
Serves(id) == /\ id \in DOMAIN stmtMap
              /\ stmtMap[id] \cap {"null", "one", "multi"} # {}

Current == Len(asked) - Len(stmtInbox) + 1    \* number of the message at hand

\* What the server may do with a statement's execution: o.rows has a value
\* for each bound column, or NULL.
Possible(s, o) ==
  \A row \in ToSet(o.rows) :
    /\ Len(row) = Len(s.outs) /\ s.outs # <<>>
    /\ \A i \in DOMAIN row : row[i] = Null \/ IsStr(s.outs[i].type)
                               \/ Len(row[i]) = 1

\* Query and QueryByID: execute with the arguments x, bring the rows to the
\* buffer, clear the result.  An execution is refused while the connection
\* holds the result of another statement.
Query(who, x, o) ==
  LET reached == x.ok /\ pending \in {NoOne, who}
      done == reached /\ o.ok
      holder == IF done /\ o.rows # <<>> THEN who ELSE pending
  IN  /\ served' = [served EXCEPT ![Current] =
           IF reached THEN [reached |-> TRUE, ok |-> o.ok, rows |-> o.rows,
                            args |-> [i \in DOMAIN x.s.ins |-> Sent(x.s.ins[i])],
                            stored |-> o.stored, count |-> o.count]
           ELSE Unserved]
      /\ affected' = IF done THEN o.count ELSE affected
      /\ results' = IF done THEN GetResultsToBuffer(x.s, Received(o)).nb
                     ELSE results
      /\ pending' = ClearResult(holder, who)

\* The statement as Query leaves it.
Queried(who, x, o) ==
  IF x.ok /\ pending \in {NoOne, who} /\ o.ok
  THEN [x.s EXCEPT !.outs = GetResultsToBuffer(x.s, Received(o)).outs] ELSE x.s

Respond(m, count, nodes) ==
  answers' = Append(answers,
    [n |-> Current, client |-> m.client, id |-> m.id, rows |-> count,
     param |-> IF m.data = <<>> THEN Junk ELSE Last(m.data), nodes |-> nodes])

\* The response of OnNullRecord, OnOneRecord and OnMultiRecord.  One row is
\* fetched with GetOneResult, whose loop never moves its iterator.
Answer(m) ==
  LET flag == stmtMap[m.id]
      done == served'[Current].ok
  IN  \/ /\ ~done \/ ("null" \in flag /\ "insert" \notin flag)
         /\ UNCHANGED <<answers, stmtThread>>
      \/ /\ done /\ {"null", "insert"} \subseteq flag
         /\ Respond(m, affected', <<>>)
         /\ UNCHANGED stmtThread
      \/ /\ done /\ "null" \notin flag /\ "one" \in flag
         /\ IF results'.buf.size > 0
            THEN stmtThread' = "hung" /\ UNCHANGED answers
            ELSE Respond(m, results'.count, <<>>) /\ UNCHANGED stmtThread
      \/ /\ done /\ flag \cap {"null", "one"} = {}
         /\ Respond(m, results'.count, Contents(results'.buf))
         /\ UNCHANGED stmtThread

StmtTake == /\ stmtThread = "run"
            /\ stmtInbox # <<>>
            /\ stmtInbox' = Tail(stmtInbox)
            /\ UNCHANGED <<stmtPhase, stmtMap, asked>>

\* HandleMessage, OnNewNetMsg: no such statement, or none to execute.
NoSuchStmt ==
  /\ StmtTake
  /\ Head(stmtInbox).op = "net" /\ ~Serves(Head(stmtInbox).id)
  /\ UNCHANGED <<stmtThread, stmts, adhoc, results, affected, pending, served,
                 answers>>

\* HandleMessage, OnNewNetMsg, QueryByID and the response.
OnNewNetMsg(o) ==
  LET m == Head(stmtInbox)
      x == Unpack(stmts[m.id], m.data)
  IN  /\ StmtTake
      /\ m.op = "net" /\ Serves(m.id)
      /\ Possible(x.s, o) /\ Query(m.id, x, o)
      /\ stmts' = [stmts EXCEPT ![m.id] = Queried(m.id, x, o)]
      /\ Answer(m)
      /\ UNCHANGED adhoc

\* A string length that reaches behind the message may also end the program.
OverRead ==
  LET m == Head(stmtInbox)
  IN  /\ StmtTake
      /\ m.op = "net" /\ Serves(m.id)
      /\ Unpack(stmts[m.id], m.data).over
      /\ stmtThread' = "undefined"
      /\ UNCHANGED <<stmts, adhoc, results, affected, pending, served, answers>>

\* OnNewMsg, Query: m_stmt is cleared and prepared anew for each call.
AdHocQuery(handle, o) ==
  LET m == Head(stmtInbox)
      s == InitStmtParams(NewStmt, m.q, handle)
      x == IF s.handle = "prepared" THEN PassArgs(s, m.args)
           ELSE [s |-> s, ok |-> FALSE, over |-> FALSE]
  IN  /\ StmtTake
      /\ m.op = "call"
      /\ IF ClearIsDefined(adhoc)
         THEN /\ Possible(x.s, o)
              /\ Query(AdHoc, x, o)
              /\ adhoc' = Queried(AdHoc, x, o)
              /\ UNCHANGED stmtThread
         ELSE /\ stmtThread' = "undefined"
              /\ UNCHANGED <<adhoc, served, affected, results, pending>>
      /\ UNCHANGED <<stmts, answers>>

StmtNext ==
  \/ \E id \in StmtIds, c \in StmtConfigs, h \in {"none", "prepared"} :
       LoadStmtConfig(id, c, h)
  \/ StmtStart
  \/ \E m \in StmtMessages : StmtPost(m)
  \/ NoSuchStmt
  \/ \E o \in StmtOutcomes : OnNewNetMsg(o)
  \/ OverRead
  \/ \E h \in {"none", "prepared"}, o \in StmtOutcomes : AdHocQuery(h, o)

StmtSpec == StmtInit /\ [][StmtNext]_stmtVars

-----------------------------------------------------------------------------
(* Properties.                                                              *)

Request(n) == asked[n].op = "net" /\ Serves(asked[n].id)
Handled(n) == n <= Len(asked) - Len(stmtInbox)
Same(i, n) == asked[i].op = "net" /\ asked[i].id = asked[n].id

Packed(ps, vs) ==
  FlattenSeq([i \in DOMAIN vs |-> IF IsStr(ps[i].type)
                                  THEN <<Len(vs[i])>> \o vs[i] ELSE vs[i]])

Cuts(d) == {SubSeq(d, i, j) : i, j \in DOMAIN d}

\* The data hold every argument, and no string that is empty or longer than
\* its parameter.
WellPacked(ps, d) ==
  \E vs \in [DOMAIN ps -> Cuts(d)] :
    /\ \A i \in DOMAIN ps :
         Len(vs[i]) \in 1..(IF IsStr(ps[i].type) THEN ps[i].type.n ELSE 1)
    /\ IsPrefix(Packed(ps, vs), d)

\* Rows that the buffer can bring over: no NULL, no string that is cut, no
\* float column, and no string that does not fit.
Plain(s, rows) ==
  /\ \A p \in ToSet(s.outs) : p.type.t # "flt"
  /\ \A row \in ToSet(rows) : \A i \in DOMAIN row :
       /\ row[i] # Null
       /\ IsStr(s.outs[i].type) => Len(row[i]) <= s.outs[i].type.n
  /\ \/ \A p \in ToSet(s.outs) : ~IsStr(p.type)
     \/ Len(FlattenSeq([i \in DOMAIN rows |-> <<0>> \o Packed(s.outs, rows[i])]))
          <= ResultRoom

\* What the client reads out of a response.
ReadBack(a) == Nodes(FormatFrom([NewNodes(0) EXCEPT !.buf = NewBuffer], a.nodes))

\* A response answers one request that the server executed, each at most one
\* and in their order, goes to the connection that asked, and gives its
\* parameter back, whatever else is in the queue: requests that name no
\* statement, failed ones, calls of the application.
\* About: HandleMessage, OnNewNetMsg, On*Record.
AnswersRouted ==
  \A k \in DOMAIN answers :
    LET a == answers[k]
        m == asked[a.n]
    IN  /\ Handled(a.n) /\ Request(a.n) /\ served[a.n].ok
        /\ \A j \in 1..(k - 1) : answers[j].n < a.n
        /\ a.client = m.client /\ a.id = m.id
        /\ m.data # <<>> => a.param = Last(m.data)

\* Responses go where they belong (AnswersRouted).
\* The rows of a response are those of this execution, each whole and at its
\* place, whatever earlier statements have left in the shared buffer, the
\* bound parameters and the connection; a result that the client library could
\* not take over (Received) is answered like one without rows.  The server
\* executed with the arguments of the request, unless a string of the statement
\* was empty or too long before (the buffer then moved away from the memory
\* that was bound); and no result left on the connection keeps a request from
\* it.
\* About: OnNewNetMsg, On*Record, QueryByID, ExecuteQuery, GetResultsToBuffer.
StmtFaithful ==
  /\ AnswersRouted
  /\ \A k \in DOMAIN answers :
       LET a == answers[k]
           s == stmts[asked[a.n].id]
           rows == Received(served[a.n])
       IN  /\ "null" \notin s.flag /\ s.flag \cap {"one", "multi"} # {}
           /\ Plain(s, rows)
           =>
             /\ a.rows = Len(rows)
             /\ a.rows > 0 => ReadBack(a) =
                               [i \in 1..a.rows |-> Packed(s.outs, rows[i])]
  /\ \A n \in DOMAIN asked :
       /\ Handled(n) /\ Request(n)
       /\ \A i \in 1..n : Same(i, n) => WellPacked(stmts[asked[n].id].ins,
                                                   asked[i].data)
       =>
         LET s == stmts[asked[n].id]
         IN  /\ IsPrefix(Packed(s.ins, served[n].args), asked[n].data)
             /\ served[n].reached
=============================================================================
