------------------------------- MODULE UvClient -------------------------------
(***************************************************************************)
(* The client of asUvNetWork (code/net/uv) with one thread: ConnectToServer*)
(* posts tasks to the loop, a failed attempt arms the thread's one timer   *)
(* for the next, a successful one hands the session to the thread.  One    *)
(* uv_connect_t, m_connect, serves every attempt, and its data names the   *)
(* session that is connecting.  The application stops the network while    *)
(* all of this goes on.  libuv and the server are external.                *)
(***************************************************************************)
EXTENDS Integers, Sequences, FiniteSets

CONSTANTS MaxConnects,   \* bound: calls of ConnectToServer
          SessionCount   \* m_sessionCount

VARIABLES
  cliTasks,    \* m_tasks of the thread, oldest first
  cliLoop,     \* "run", "drain", "close", "done", or "undefined"
  cliLeft,     \* how many of them are in tmp, the batch that runs
  cliStop,     \* TryStopNetWork: "no", "deleted", "join"
  cliIds,      \* m_sessionIdAlloc
  cliConnect,  \* m_connect.data: a session or 0
  cliSock,     \* per session: "none", "connecting", "connected", "failed"
  cliFreed,    \* sessions that were deleted
  cliSessions, \* m_sessions
  timer,       \* m_timer: "raw" (never initialised), "armed", "fired",
               \* "closing", "closed"
  timerFor,    \* m_timerFunc: the session it connects, or 0
  overlap      \* history: two attempts shared m_connect

cliVars == <<cliTasks, cliLoop, cliLeft, cliStop, cliIds, cliConnect, cliSock,
             cliFreed, cliSessions, timer, timerFor, overlap>>

CliIds == 1..MaxConnects
CliTask(op, s) == [op |-> op, s |-> s]

ClientInit ==
  /\ cliTasks = <<>> /\ cliLoop = "run" /\ cliLeft = 0 /\ cliStop = "no"
  /\ cliIds = 0 /\ cliConnect = 0 /\ cliSock = [s \in CliIds |-> "none"]
  /\ cliFreed = {} /\ cliSessions = {} /\ timer = "raw" /\ timerFor = 0
  /\ overlap = FALSE

-----------------------------------------------------------------------------
(* The application's threads.                                               *)

PostEvent(ts) == cliTasks' = cliTasks \o ts

ConnectToServer ==
  /\ cliStop = "no" /\ cliIds < MaxConnects
  /\ Cardinality(cliSessions) < SessionCount
  /\ cliIds' = cliIds + 1
  /\ PostEvent(<<CliTask("connect", cliIds + 1)>>)
  /\ UNCHANGED <<cliLoop, cliLeft, cliStop, cliConnect, cliSock, cliFreed,
                 cliSessions, timer, timerFor, overlap>>

\* TryStopNetWork deletes the session that is connecting, its socket and all,
\* while the loop still runs ...
DeleteConnecting ==
  /\ cliStop = "no"
  /\ cliStop' = "deleted"
  /\ cliFreed' = cliFreed \cup ({cliConnect} \ {0})
  /\ cliConnect' = 0
  /\ UNCHANGED <<cliTasks, cliLoop, cliLeft, cliIds, cliSock, cliSessions,
                 timer, timerFor, overlap>>

\* ... and then tells the thread to stop and joins it.
StopThread ==
  /\ cliStop = "deleted"
  /\ cliStop' = "join"
  /\ UNCHANGED <<cliTasks, cliLoop, cliLeft, cliIds, cliConnect, cliSock,
                 cliFreed, cliSessions, timer, timerFor, overlap>>

-----------------------------------------------------------------------------
(* What the tasks and callbacks do.  Each is a step of the loop.            *)

Undefined ==
  /\ cliLoop' = "undefined"
  /\ UNCHANGED <<cliStop, cliIds, cliConnect, cliSock, cliFreed, cliSessions,
                 timer, timerFor, overlap, cliTasks, cliLeft>>

\* ThreadFunc takes the tasks that are there, after uv_run, whose last act is
\* to close what is closing.
TakeTasks ==
  /\ cliLoop = "run" /\ cliLeft = 0 /\ timer # "closing"
  /\ cliStop # "join" /\ cliTasks # <<>>
  /\ cliLeft' = Len(cliTasks)
  /\ UNCHANGED <<cliTasks, cliLoop, cliStop, cliIds, cliConnect, cliSock,
                 cliFreed, cliSessions, timer, timerFor, overlap>>

\* A task of the batch leaves the queue, and posts ts behind the batch.
Runs(op, s) ==
  cliLoop \in {"run", "drain"} /\ cliLeft > 0 /\ Head(cliTasks) = CliTask(op, s)

RunTask(op, s, ts) ==
  /\ Runs(op, s)
  /\ cliTasks' = Tail(cliTasks) \o ts
  /\ cliLeft' = cliLeft - 1
  /\ UNCHANGED <<cliLoop, cliStop, cliIds>>

RunUndefined(op, s) == Runs(op, s) /\ Undefined

\* The batch is through: uv_run calls what is due.
Polls == cliLoop \in {"run", "close"} /\ cliLeft = 0

HandleConnectToServer(s) ==
  /\ RunTask("connect", s, <<CliTask("try", s)>>)
  /\ overlap' = (overlap \/ \E r \in 1..(s - 1) : r \notin cliSessions)
  /\ cliConnect' = s
  /\ UNCHANGED <<cliSock, cliFreed, cliSessions, timer, timerFor>>

\* A mutant: the timer is set by the first failure only.
ReConnectOnce(s) ==
  IF cliStop = "join" \/ timer # "raw" THEN <<>> ELSE <<CliTask("timer", s)>>

\* The tasks that ConnectCB posts.  It takes the session from m_connect; the
\* network may have forgotten it.  StartTimer posts nothing when stopped.
ReConnect(s) == IF cliStop = "join" THEN <<>> ELSE <<CliTask("timer", s)>>
ConnectCB(ok) ==
  IF cliConnect = 0 THEN <<>>
  ELSE IF ok THEN <<CliTask("add", cliConnect)>> ELSE ReConnect(cliConnect)

\* TryConnect: the attempt begins, or fails at once and ConnectCB is called.
Try(s, begins) ==
  /\ s \notin cliFreed
  /\ RunTask("try", s, IF begins THEN <<>> ELSE ConnectCB(FALSE))
  /\ cliSock' = [cliSock EXCEPT ![s] = IF begins THEN "connecting" ELSE "failed"]
  /\ UNCHANGED <<cliConnect, cliFreed, cliSessions, timer, timerFor, overlap>>

TryFreed(s) == s \in cliFreed /\ RunUndefined("try", s)

\* libuv calls ConnectCB for the socket of s.
Connected(s, ok) ==
  /\ Polls /\ cliSock[s] = "connecting"
  /\ s \notin cliFreed
  /\ cliSock' = [cliSock EXCEPT ![s] = IF ok THEN "connected" ELSE "failed"]
  /\ PostEvent(ConnectCB(ok))
  /\ cliConnect' = IF ok THEN 0 ELSE cliConnect
  /\ UNCHANGED <<cliLoop, cliLeft, cliStop, cliIds, cliFreed, cliSessions,
                 timer, timerFor, overlap>>

\* The loop still knows the socket of a session that was deleted.
ConnectedFreed(s) ==
  /\ Polls /\ cliSock[s] = "connecting"
  /\ s \in cliFreed
  /\ Undefined

\* A timer that fired is not active: libuv lets it start anew, as at every
\* repeated attempt.
StartTimer(s) ==
  /\ timer \notin {"armed", "closing"}
  /\ RunTask("timer", s, <<>>)
  /\ timer' = "armed" /\ timerFor' = s
  /\ UNCHANGED <<cliConnect, cliSock, cliFreed, cliSessions, overlap>>

\* uv_timer_init of a handle that is active: the loop counts it as active for
\* ever and its heap of timers is broken, so that ThreadFunc may never end.  Or
\* of one that libuv is about to close.
StartTimerActive(s) ==
  timer \in {"armed", "closing"} /\ RunUndefined("timer", s)

TimerFires ==
  /\ Polls /\ timer = "armed"
  /\ timer' = "fired"
  /\ PostEvent(IF timerFor = 0 THEN <<>> ELSE <<CliTask("try", timerFor)>>)
  /\ UNCHANGED <<cliLoop, cliLeft, cliStop, cliIds, cliConnect, cliSock,
                 cliFreed, cliSessions, timerFor, overlap>>

TimerClosed ==
  /\ Polls /\ timer = "closing"
  /\ timer' = "closed"
  /\ UNCHANGED <<cliTasks, cliLoop, cliLeft, cliStop, cliIds, cliConnect,
                 cliSock, cliFreed, cliSessions, timerFor, overlap>>

\* StopTimer and HandleAddSession.
HandleAddSession(s) ==
  /\ RunTask("add", s, <<CliTask("stopTimer", 0)>>)
  /\ cliSessions' = cliSessions \cup {s}
  /\ UNCHANGED <<cliConnect, cliSock, cliFreed, timer, timerFor, overlap>>

\* A timer that was never initialised is memory as new left it: libuv may
\* take it for a handle that closes, and do nothing.
StopTimer ==
  /\ RunTask("stopTimer", 0, <<>>)
  /\ timer' = IF timer \in {"armed", "fired"} THEN "closing" ELSE timer
  /\ UNCHANGED <<cliConnect, cliSock, cliFreed, cliSessions, timerFor, overlap>>

StopRawTimer == timer = "raw" /\ RunUndefined("stopTimer", 0)

\* ThreadFunc sees m_isStoped between two batches: it closes the timer, runs
\* the tasks that are there, closes the sessions, and lets the loop run until
\* nothing in it is active.
Drain ==
  /\ cliLoop = "run" /\ cliLeft = 0 /\ timer # "closing"
  /\ cliStop = "join"
  /\ cliLoop' = "drain" /\ cliLeft' = Len(cliTasks)
  /\ timer' = IF timerFor # 0 /\ timer \in {"armed", "fired"} THEN "closing"
              ELSE timer
  /\ timerFor' = 0
  /\ UNCHANGED <<cliTasks, cliStop, cliIds, cliConnect, cliSock, cliFreed,
                 cliSessions, overlap>>

CloseSessions ==
  /\ cliLoop = "drain" /\ cliLeft = 0
  /\ cliLoop' = "close"
  /\ cliFreed' = cliFreed \cup cliSessions
  /\ cliSock' = [s \in CliIds |-> IF s \in cliSessions THEN "none" ELSE cliSock[s]]
  /\ cliSessions' = {}
  /\ UNCHANGED <<cliTasks, cliLeft, cliStop, cliIds, cliConnect, timer,
                 timerFor, overlap>>

LoopEnds ==
  /\ cliLoop = "close"
  /\ timer \notin {"armed", "closing"}
  /\ \A s \in CliIds : cliSock[s] # "connecting"
  /\ cliLoop' = "done"
  /\ UNCHANGED <<cliTasks, cliLeft, cliStop, cliIds, cliConnect, cliSock,
                 cliFreed, cliSessions, timer, timerFor, overlap>>

-----------------------------------------------------------------------------
ClientTask ==
  \/ \E s \in CliIds :
       \/ HandleConnectToServer(s) \/ TryFreed(s) \/ HandleAddSession(s)
       \/ StartTimer(s) \/ StartTimerActive(s)
       \/ \E begins \in BOOLEAN : Try(s, begins)
  \/ StopTimer \/ StopRawTimer

ClientNext ==
  \/ ConnectToServer \/ DeleteConnecting \/ StopThread
  \/ TakeTasks \/ ClientTask
  \/ \E s \in CliIds :
       ConnectedFreed(s) \/ \E ok \in BOOLEAN : Connected(s, ok)
  \/ TimerFires \/ TimerClosed \/ Drain \/ CloseSessions \/ LoopEnds

\* The thread goes on; libuv reports every attempt and every timer; an
\* attempt made again and again begins and succeeds at some time.
ClientFairness ==
  /\ WF_cliVars(TakeTasks) /\ WF_cliVars(ClientTask)
  /\ WF_cliVars(TimerFires) /\ WF_cliVars(TimerClosed)
  /\ WF_cliVars(Drain) /\ WF_cliVars(CloseSessions) /\ WF_cliVars(LoopEnds)
  /\ \A s \in CliIds :
       /\ WF_cliVars(ConnectedFreed(s)) /\ WF_cliVars(\E ok \in BOOLEAN : Connected(s, ok))
       /\ SF_cliVars(Try(s, TRUE)) /\ SF_cliVars(Connected(s, TRUE))

\* A client that asked for a connection gets its session, however often the
\* attempt fails before, unless it stops the network, calls ConnectToServer
\* again in the meantime (both calls share one request and one timer, and the
\* second failure starts a timer that is active), or meets the undefined
\* behaviour of StopTimer on a timer never started.  And a network that is
\* stopped ends its thread, whatever attempt, timer or task is under way, where
\* none of this undefined behaviour was met before.
\* About: TryConnect, ReConnect, StartTimer, HandleAddSession, ThreadFunc.
ClientConnects ==
  /\ \A s \in CliIds : cliIds >= s ~>
       \/ s \in cliSessions \/ overlap \/ cliStop # "no"
       \/ cliLoop = "undefined" /\ timer = "raw"
  /\ cliStop = "join" ~> cliLoop \in {"done", "undefined"}
=============================================================================
