------------------------------ MODULE MCLibrary ------------------------------
(***************************************************************************)
(* Instances for TLC of the components that work for one owner, side by    *)
(* side: statement threads, message framing, the client of asUvNetWork,    *)
(* the result set, the synchronous connection, the loggers, asSnowFlake    *)
(* and asSingleton.  They share no state; subject says which one a         *)
(* behaviour is about, and the others stay in their initial state.  The    *)
(* assumptions of RingBuffer, FieldBuffer, TimeTools and TextTools, which  *)
(* have no state, are evaluated on the way.                                *)
(***************************************************************************)
EXTENDS StmtThread, Framing, UvClient, QueryResult, SyncSession, Logger,
        SnowFlake, Singleton, RingBuffer, FieldBuffer, TimeTools, TextTools,
        Bitwise

VARIABLE subject

libVars == <<subject, stmtVars, frameVars, cliVars, resVars, syncVars, logVars,
             idVars, oneVars>>

-----------------------------------------------------------------------------
(* Values of the constants.                                                 *)

P(t) == Param(t, 0)
S(n) == Param("str", n)
C(i, o, f) == [ins |-> i, outs |-> o, flag |-> f]

\* Strings in and out; one row; an insert; a column f32; an unknown type; a
\* flag that names no kind of result.
SomeConfigs == {C(<<S(2)>>, <<P("fix"), S(1)>>, {"multi"}),
                C(<<>>, <<P("fix")>>, {"one"}),
                C(<<P("fix"), S(2)>>, <<>>, {"null", "insert"}),
                C(<<P("fix")>>, <<>>, {"null"}),
                C(<<>>, <<P("flt")>>, {"multi"}),
                C(<<P("?")>>, <<>>, {"null"}),
                C(<<P("fix")>>, <<>>, {"insert"})}

\* Requests of clients, well packed and not, and calls of OnNewMsg.
NetMsg(id, d) == [op |-> "net", id |-> id, data |-> d, client |-> id]
CallMsg(q, args) == [op |-> "call", q |-> q, args |-> args]
SomeMessages ==
  {NetMsg(1, d) : d \in {<<>>, <<1, 2>>, <<2, 1, 2, 1>>, <<0, 1>>,
                         <<3, 1, 1, 1, 2>>, <<1, 1, 2, 1>>}}
    \cup {NetMsg(2, <<1>>)}
    \cup {CallMsg(C(<<S(2)>>, <<P("fix"), S(1)>>, {"multi"}), <<<<1>>>>),
          CallMsg(C(<<P("fix")>>, <<>>, {"null"}), <<>>),
          CallMsg(C(<<P("fix"), P("?")>>, <<>>, {"null"}), <<<<1>>, <<1>>>>)}

\* A failure; rows of one and two columns, with a string that is empty, NULL
\* or longer than its column; rows that cannot be stored.
Rows(rs) == [ok |-> TRUE, rows |-> rs, stored |-> TRUE, count |-> 1]
SomeOutcomes ==
  {[ok |-> FALSE, rows |-> <<>>, stored |-> TRUE, count |-> 0], Rows(<<>>),
   [Rows(<< <<<<1>>, <<1>>>> >>) EXCEPT !.stored = FALSE],
   Rows(<< <<<<1>>>> >>), Rows(<< <<<<1>>, <<1>>>> >>),
   Rows(<< <<<<1>>, <<2>>>>, <<<<2>>, <<>>>> >>),
   Rows(<< <<<<2>>, <<1>>>>, <<<<1>>, <<2>>>> >>),
   Rows(<< <<<<2>>, <<1>>>>, <<Null, Null>> >>),
   Rows(<< <<<<2>>, <<1>>>>, <<<<2>>, <<1, 1>>>> >>)}

\* Messages that fit the smaller buffer, one that does not, and what is no
\* message: a length above MaxLen, one below a head's, and one that takes in
\* the head of the next message, behind which no flag follows.
SomeFrames == {<<9, 3, 1>>, <<9, 5, 3, 0, 2>>, <<9, 9, 1, 1, 1, 1, 1, 1, 1>>,
               <<9, 10, 1>>, <<9, 1, 1>>, <<9, 5, 1>>}

SomeResults ==
  {<<[cols |-> <<"a">>, rows |-> <<1, 2>>]>>, <<NoResult>>,
   <<[cols |-> <<"b", "a">>, rows |-> <<1>>], [cols |-> <<"a">>, rows |-> <<>>]>>}

\* Two bits for each field of an identifier.
MachineOr(a, b) == a | b

-----------------------------------------------------------------------------
Init ==
  /\ subject \in {"stmt", "frame", "client", "result", "sync", "log", "id", "one"}
  /\ StmtInit /\ FrameInit /\ ClientInit /\ ResultInit /\ SyncInit /\ LogInit
  /\ IdInit /\ OneInit
  /\ subject # "frame" =>
       frameNet = "uv" /\ \A room \in FrameRooms : MaxSize(recvBuf) <= room

Only(name, all) == subject = name /\ UNCHANGED <<subject, all>>

Next ==
  \/ /\ Only("stmt", <<frameVars, cliVars, resVars, syncVars, logVars, idVars,
                       oneVars>>)
     /\ StmtNext
  \/ /\ Only("frame", <<stmtVars, cliVars, resVars, syncVars, logVars, idVars,
                        oneVars>>)
     /\ FrameNext
  \/ /\ Only("client", <<stmtVars, frameVars, resVars, syncVars, logVars, idVars,
                         oneVars>>)
     /\ ClientNext
  \/ /\ Only("result", <<stmtVars, frameVars, cliVars, syncVars, logVars, idVars,
                         oneVars>>)
     /\ ResultNext
  \/ /\ Only("sync", <<stmtVars, frameVars, cliVars, resVars, logVars, idVars,
                       oneVars>>)
     /\ SyncNext
  \/ /\ Only("log", <<stmtVars, frameVars, cliVars, resVars, syncVars, idVars,
                      oneVars>>)
     /\ LogNext
  \/ /\ Only("id", <<stmtVars, frameVars, cliVars, resVars, syncVars, logVars,
                     oneVars>>)
     /\ IdNext
  \/ /\ Only("one", <<stmtVars, frameVars, cliVars, resVars, syncVars, logVars,
                      idVars>>)
     /\ OneNext

\* Fairness concerns the client alone: in the behaviours of the other subjects
\* its actions are not enabled.
Spec == Init /\ [][Next]_libVars /\ ClientFairness
=============================================================================
