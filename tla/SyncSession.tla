------------------------------ MODULE SyncSession ------------------------------
(***************************************************************************)
(* asMySQLConnection and the synchronous queries of asMySQLQueryMgr        *)
(* (code/mysql): one caller, one connection, transactions and the choice   *)
(* of a database over a server that may drop the connection at any time,   *)
(* refuse a command, or roll a whole transaction back with an error (a     *)
(* deadlock).  Transaction, Commit, Rollback and SelectDB ask the server   *)
(* first and connect anew when it does not answer; queries do not.  A      *)
(* query may hold several statements.  The client library and the server   *)
(* are external.  The library reconnects by itself (MYSQL_OPT_RECONNECT),  *)
(* but for the first command it sees fail in a transaction.                *)
(***************************************************************************)
EXTENDS Integers, Sequences, FiniteSets

CONSTANTS MaxStatements,   \* bound: calls of the application
          DBs              \* the databases: the first connect takes one of them

VARIABLES
  link,      \* m_conn: "null", "up", "lost" (the server dropped it)
  inTrans,   \* what the library believes of the session
  m_db,      \* the database Connect asks for
  srvTrans,  \* the server's session: BEGIN was executed
  srvDb,     \* its database
  work,      \* the statements in its transaction
  committed, \* the statements whose effect is kept
  app,       \* the caller: "out", "in" a transaction as it believes
  mine,      \* history: statements of queries that said yes since Transaction
  cut,       \* history: those among them that failed all the same
  dropped,   \* history: the connection was dropped or closed since Transaction
  gaveUp,    \* history: the server rolled back with an error since then
  outcome,   \* history: how the last transaction ended
  syncState, \* "run", "undefined"
  syncCalls  \* calls so far: the number of a query

sessionVars == <<link, inTrans, srvTrans, srvDb, work, committed, dropped, gaveUp>>
syncVars == <<sessionVars, m_db, app, mine, cut, outcome, syncState, syncCalls>>

SyncInit ==
  /\ link = "null" /\ inTrans = FALSE /\ m_db = 0 /\ srvTrans = FALSE
  /\ srvDb = 0 /\ work = {} /\ committed = {} /\ app = "out" /\ mine = {}
  /\ cut = {} /\ dropped = FALSE /\ gaveUp = FALSE /\ outcome = "none"
  /\ syncState = "run" /\ syncCalls = 0

Call == /\ syncState = "run" /\ syncCalls < MaxStatements
        /\ syncCalls' = syncCalls + 1

-----------------------------------------------------------------------------
(* A connection and what commands may make of it.                           *)

Session == [link |-> link, inTrans |-> inTrans, trans |-> srvTrans, db |-> srvDb,
            work |-> work, kept |-> committed, dropped |-> dropped,
            gaveUp |-> gaveUp]
NewSession == [Session EXCEPT !.link = "up", !.inTrans = FALSE, !.trans = FALSE,
                              !.db = m_db, !.work = {}]
NoSession == [NewSession EXCEPT !.link = "null"]

Set(s) == /\ link' = s.link /\ inTrans' = s.inTrans /\ srvTrans' = s.trans
          /\ srvDb' = s.db /\ work' = s.work /\ committed' = s.kept
          /\ dropped' = s.dropped /\ gaveUp' = s.gaveUp

\* The server drops the connection, or rolls back with an error: the work of
\* the session is undone.  The library learns nothing of its transaction.
Lost(s) == [s EXCEPT !.link = "lost", !.trans = FALSE, !.work = {},
                     !.dropped = TRUE]
RolledBack(s) == [s EXCEPT !.trans = FALSE, !.work = {}, !.gaveUp = TRUE]

\* A success tells the library whether its session is in a transaction.
Heard(s) == [s EXCEPT !.inTrans = s.trans]

\* Connect: at most one session, or none when the server cannot be reached.
Connect == {NewSession, NoSession}

\* A mutant: every transaction command begins with a new connection.
ReConnectAlways == Connect

\* ReConnect: the sessions it may come to; a ping that fails closes the old
\* one first.
ReConnectSession == IF link = "up" THEN {Heard(Session)} ELSE Connect

\* Where a command of mysql_real_query arrives.  If the connection is lost by
\* then the library connects anew, to the database it had, but not if it
\* believes in a transaction.
Resent(s) == IF s.inTrans THEN {[s EXCEPT !.inTrans = FALSE]}
             ELSE {s, [s EXCEPT !.link = "up"]}
Reached(s) == IF s.link = "null" THEN {s}
              ELSE IF s.link = "lost" THEN Resent(s)
              ELSE {s} \cup Resent(Lost(s))

\* What becomes of a command in the session s, done if it is executed: it
\* succeeds; the server refuses it, or rolls back; or the connection is lost
\* before it is executed, or before the answer is there.
Answers(s, done) ==
  IF s.link = "up"
  THEN {[ok |-> TRUE, s |-> done]}
         \cup {[ok |-> FALSE, s |-> t] : t \in {s, RolledBack(s), Lost(s), Lost(done)}}
  ELSE {[ok |-> FALSE, s |-> s]}

\* BEGIN commits what is there; outside a transaction a statement commits
\* itself.
Begun(s) == [s EXCEPT !.trans = TRUE, !.inTrans = TRUE, !.work = {},
                      !.kept = @ \cup s.work]
Ended(s, commit) == [s EXCEPT !.trans = FALSE, !.inTrans = FALSE, !.work = {},
                              !.kept = IF commit THEN @ \cup s.work ELSE @]
Executed(s, stmt) ==
  IF s.trans THEN [s EXCEPT !.inTrans = TRUE, !.work = @ \cup {stmt}]
  ELSE [s EXCEPT !.inTrans = FALSE, !.kept = @ \cup {stmt}]

-----------------------------------------------------------------------------
Drop ==
  /\ link = "up"
  /\ Set(Lost(Session))
  /\ UNCHANGED <<m_db, app, mine, cut, outcome, syncState, syncCalls>>

\* Init, of a connection that is closed.
InitSession(db) ==
  /\ Call /\ link = "null"
  /\ m_db' = db
  /\ \E s \in Connect : Set([s EXCEPT !.db = db])
  /\ UNCHANGED <<app, mine, cut, outcome, syncState>>

Close ==
  /\ Call
  /\ Set([NoSession EXCEPT !.dropped = TRUE])
  /\ UNCHANGED <<m_db, app, mine, cut, outcome, syncState>>

\* mysql_select_db is a command as well.
SelectDB(db) ==
  /\ Call
  /\ \E s \in UNION {Reached(r) : r \in ReConnectSession}, ok \in BOOLEAN :
       /\ Set(IF s.link = "up" /\ ok THEN [s EXCEPT !.db = db] ELSE s)
       /\ m_db' = IF s.link = "up" /\ ok THEN db ELSE m_db
  /\ UNCHANGED <<app, mine, cut, outcome, syncState>>

\* The name of the character set says nothing here, but the command to set it
\* is one more that may make the library connect anew.
SetCharacter ==
  /\ Call
  /\ \E s \in Reached(Session), ok \in BOOLEAN :
       Set(IF s.link = "up" /\ ok THEN Heard(s) ELSE s)
  /\ UNCHANGED <<m_db, app, mine, cut, outcome, syncState>>

Transaction ==
  /\ Call
  /\ \E s \in UNION {Reached(r) : r \in ReConnectSession} :
       \E a \in Answers(s, Begun(s)) :
         IF a.ok
         THEN /\ Set([a.s EXCEPT !.dropped = FALSE, !.gaveUp = FALSE])
              /\ app' = "in" /\ mine' = {} /\ cut' = {}
         ELSE Set(a.s) /\ UNCHANGED <<app, mine, cut>>
  /\ outcome' = "none"
  /\ UNCHANGED <<m_db, syncState>>

\* Commit and Rollback.  A caller to whom they say no is still in its
\* transaction, and may try again or roll back.
Finish(commit) ==
  /\ Call
  /\ \E s \in UNION {Reached(r) : r \in ReConnectSession} :
       \E a \in Answers(s, Ended(s, commit)) :
         /\ Set(a.s)
         /\ app' = IF a.ok THEN "out" ELSE app
         /\ outcome' = IF ~a.ok \/ app = "out" THEN "none"
                       ELSE IF commit THEN "committed" ELSE "rolled back"
  /\ UNCHANGED <<m_db, mine, cut, syncState>>

\* SyncExecute and SyncQuery of one statement that changes data, or of two.
\* m_conn is not looked at.  The answer to the caller is that of the first
\* statement; an error of mysql_next_result only ends the loop.
SyncQuery ==
  LET First == <<syncCalls, 1>>
      Second == <<syncCalls, 2>>
      Says(yes, stmts, failed) ==
        /\ mine' = IF yes /\ app = "in" THEN mine \cup stmts ELSE mine
        /\ cut' = cut \cup failed
  IN  /\ Call
      /\ \/ /\ link = "null"
            /\ syncState' = "undefined"
            /\ UNCHANGED <<sessionVars, mine, cut>>
         \/ /\ link # "null"
            /\ \E s \in Reached(Session) : \E a \in Answers(s, Executed(s, First)) :
                 \/ Set(a.s) /\ Says(a.ok, {First}, {})
                 \/ /\ a.ok
                    /\ \E b \in Answers(a.s, Executed(a.s, Second)) :
                         /\ Set(b.s)
                         /\ Says(TRUE, {First, Second}, IF b.ok THEN {} ELSE {Second})
            /\ UNCHANGED syncState
      /\ outcome' = "none"
      /\ UNCHANGED <<m_db, app>>

SyncNext ==
  \/ Drop \/ Close \/ Transaction \/ SyncQuery \/ SetCharacter
  \/ \E db \in DBs : InitSession(db) \/ SelectDB(db)
  \/ \E commit \in BOOLEAN : Finish(commit)

SyncSpec == SyncInit /\ [][SyncNext]_syncVars

-----------------------------------------------------------------------------
\* When Commit says yes, every statement of every query that said yes since
\* Transaction is kept, but for the later statements whose error the query did
\* not report; and when Rollback says yes none is.  Each of these commands
\* pings and may connect anew, may itself fail, and may be tried again: none
\* of that must cost a transaction its session.  Excepted are the two cases the
\* commands cannot notice: the connection was dropped in between, or the
\* server had rolled back with an error (that of a query which said no, or of a
\* later statement); statements behind that commit themselves.  And whenever a
\* session is up, it works in the database that was chosen last.
\* About: Transaction, Commit, Rollback, SelectDB, ReConnect, SyncQuery.
CommitIsAll ==
  /\ ~dropped /\ ~gaveUp =>
       /\ outcome = "committed" => mine \ cut \subseteq committed
       /\ outcome = "rolled back" => mine \cap committed = {}
  /\ link = "up" => srvDb = m_db
=============================================================================
