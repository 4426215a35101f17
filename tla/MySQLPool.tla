------------------------------- MODULE MySQLPool -------------------------------
(***************************************************************************)
(* asMySQLQueryMgr and its asMySQLThread workers (code/mysql/primary): the *)
(* main thread hands statements to the workers' task lists, each worker    *)
(* executes its own in order on its own connection, and posts the results  *)
(* to a list that the main thread's Update turns into callbacks.           *)
(*                                                                         *)
(* The server is external: it may drop a connection before or after it     *)
(* executed a statement.                                                   *)
(***************************************************************************)
EXTENDS Integers, Sequences

CONSTANTS ThreadCount, \* m_threadCount
          MaxTasks,    \* bound: statements handed over
          MaxLosses    \* bound: connections the server drops

ASSUME PoolAssumption ==
  ThreadCount \in Nat \ {0} /\ MaxTasks \in Nat /\ MaxLosses \in Nat

VARIABLES
  tasks,      \* per worker, m_tasks
  exit,       \* per worker, m_exit
  worker,     \* per worker, where its ThreadFunc stands
  param,      \* per worker, the task it popped, 0 for none
  attempt,    \* per worker, what HandleOneTask last gave: "new", "retry", "ok", "error"
  conn,       \* per worker, its connection: "null", "up", "lost"
  destroyed,  \* per worker, the derived members are gone
  results,    \* m_results: the task and whether it succeeded
  mgr,        \* where the main thread stands
  at,         \* the worker the main thread deals with, 0 before the first
  home,       \* history: the worker each task was given to
  executed,   \* history: how often the server executed a task
  delivered,  \* history: the results whose callback ran
  losses      \* connections dropped so far

mgrVars == <<mgr, at>>
history == <<home, delivered>>
vars == <<tasks, exit, worker, param, attempt, conn, destroyed, results,
          mgrVars, history, executed, losses>>

Threads == 1..ThreadCount
Tasks == 1..MaxTasks
Attempts == {"new", "retry", "ok", "error"}

TypeOK ==
  /\ tasks \in [Threads -> Seq(Tasks)]
  /\ exit \in [Threads -> BOOLEAN]
  /\ worker \in [Threads -> {"none", "check", "lock", "wait", "handle",
                             "result", "drain", "done", "undefined"}]
  /\ param \in [Threads -> 0..MaxTasks]
  /\ attempt \in [Threads -> Attempts]
  /\ conn \in [Threads -> {"null", "up", "lost"}]
  /\ destroyed \in [Threads -> BOOLEAN]
  /\ results \in Seq(Tasks \X BOOLEAN)
  /\ mgr \in {"init", "connect", "open", "notify",
              "flag", "wake", "delete", "join", "closed"}
  /\ at \in 0..ThreadCount
  /\ home \in Seq(Threads)
  /\ executed \in [Tasks -> Nat]
  /\ delivered \in Seq(Tasks \X BOOLEAN)
  /\ losses \in 0..MaxLosses

Init ==
  /\ tasks = [t \in Threads |-> <<>>]
  /\ exit = [t \in Threads |-> FALSE]
  /\ worker = [t \in Threads |-> "none"]
  /\ param = [t \in Threads |-> 0]
  /\ attempt = [t \in Threads |-> "new"]
  /\ conn = [t \in Threads |-> "null"]
  /\ destroyed = [t \in Threads |-> FALSE]
  /\ results = <<>>
  /\ mgr = "init"
  /\ at = 0
  /\ home = <<>>
  /\ executed = [k \in Tasks |-> 0]
  /\ delivered = <<>>
  /\ losses = 0

-----------------------------------------------------------------------------
(* Faults: what an operation below would be with one plausible slip; they  *)
(* show that the properties can fail and are not part of the specification. *)

\* The loop of Close runs once too often.
CloseWakeOffByOne ==
  /\ mgr = "wake"
  /\ worker' = [worker EXCEPT ![at] = IF @ = "wait" THEN "check" ELSE @]
  /\ IF at > ThreadCount
     THEN mgr' = "delete" /\ at' = 1
     ELSE mgr' = "flag" /\ at' = at + 1
  /\ UNCHANGED <<tasks, exit, param, attempt, conn, destroyed, results,
                 history, executed, losses>>

\* The task is read and not popped.
WorkerPeek(t) ==
  /\ worker[t] = "lock" /\ tasks[t] # <<>>
  /\ ~destroyed[t] /\ conn[t] \in {"up", "lost"}
  /\ conn' = [conn EXCEPT ![t] = "up"]
  /\ param' = [param EXCEPT ![t] = Head(tasks[t])]
  /\ attempt' = [attempt EXCEPT ![t] = "new"]
  /\ worker' = [worker EXCEPT ![t] = "handle"]
  /\ UNCHANGED <<tasks, exit, destroyed, results, mgrVars, history, executed,
                 losses>>

\* AddTask pushes to the front.
AsyncQueryFront ==
  /\ mgr = "open" /\ Len(home) < MaxTasks
  /\ \E t \in Threads :
       /\ home' = Append(home, t)
       /\ tasks' = [tasks EXCEPT ![t] = <<Len(home) + 1>> \o @]
       /\ at' = t
  /\ mgr' = "notify"
  /\ UNCHANGED <<exit, worker, param, attempt, conn, destroyed, results,
                 delivered, executed, losses>>

\* The result does not depend on what HandleOneTask returned.
AddResultUnchecked(t) ==
  /\ worker[t] = "result" /\ ~destroyed[t]
  /\ results' = Append(results, <<param[t], TRUE>>)
  /\ param' = [param EXCEPT ![t] = 0]
  /\ worker' = [worker EXCEPT ![t] = "check"]
  /\ UNCHANGED <<tasks, exit, attempt, conn, destroyed, mgrVars, history,
                 executed, losses>>

\* AddTask does not notify.
AddTaskSilent ==
  /\ mgr = "notify"
  /\ mgr' = "open"
  /\ UNCHANGED <<tasks, exit, worker, param, attempt, conn, destroyed, results,
                 at, history, executed, losses>>

-----------------------------------------------------------------------------
(* The main thread: asMySQLQueryMgr.                                       *)

\* Init: StartThread of the next worker first; it connects afterwards.
StartThread ==
  /\ mgr = "init"
  /\ worker' = [worker EXCEPT ![at + 1] = "check"]
  /\ at' = at + 1
  /\ mgr' = "connect"
  /\ UNCHANGED <<tasks, exit, param, attempt, conn, destroyed, results,
                 history, executed, losses>>

ThreadInit ==
  /\ mgr = "connect"
  /\ conn' = [conn EXCEPT ![at] = "up"]
  /\ mgr' = IF at = ThreadCount THEN "open" ELSE "init"
  /\ UNCHANGED <<tasks, exit, worker, param, attempt, destroyed, results, at,
                 history, executed, losses>>

\* A failed connect deletes the thread: its destructor joins a worker that
\* was never told to exit.
ThreadInitFail ==
  /\ mgr = "connect"
  /\ destroyed' = [destroyed EXCEPT ![at] = TRUE]
  /\ mgr' = "join"
  /\ UNCHANGED <<tasks, exit, worker, param, attempt, conn, results, at,
                 history, executed, losses>>

\* AsyncQuery and AsyncExecute: rand % m_threadCount picks the worker; the
\* push is under its m_lock, the notification after it.
AsyncQuery ==
  /\ mgr = "open"
  /\ Len(home) < MaxTasks
  /\ \E t \in Threads :
       /\ home' = Append(home, t)
       /\ tasks' = [tasks EXCEPT ![t] = Append(@, Len(home) + 1)]
       /\ at' = t
  /\ mgr' = "notify"
  /\ UNCHANGED <<exit, worker, param, attempt, conn, destroyed, results,
                 delivered, executed, losses>>

NotifyAll(t) ==
  worker' = [worker EXCEPT ![t] = IF @ = "wait" THEN "check" ELSE @]

AddTaskNotify ==
  /\ mgr = "notify"
  /\ NotifyAll(at)
  /\ mgr' = "open"
  /\ UNCHANGED <<tasks, exit, param, attempt, conn, destroyed, results, at,
                 history, executed, losses>>

\* Update: the results are taken under the lock, their callbacks run after it.
Update ==
  /\ mgr = "open"
  /\ results # <<>>
  /\ delivered' = delivered \o results
  /\ results' = <<>>
  /\ UNCHANGED <<tasks, exit, worker, param, attempt, conn, destroyed,
                 mgrVars, home, executed, losses>>

\* Close: for each worker m_exit is set and the condition notified, neither
\* of them under m_lock ...
Close ==
  /\ mgr = "open"
  /\ mgr' = "flag"
  /\ at' = 1
  /\ UNCHANGED <<tasks, exit, worker, param, attempt, conn, destroyed,
                 results, history, executed, losses>>

CloseFlag ==
  /\ mgr = "flag"
  /\ exit' = [exit EXCEPT ![at] = TRUE]
  /\ mgr' = "wake"
  /\ UNCHANGED <<tasks, worker, param, attempt, conn, destroyed, results, at,
                 history, executed, losses>>

CloseWake ==
  /\ mgr = "wake"
  /\ NotifyAll(at)
  /\ IF at = ThreadCount
     THEN mgr' = "delete" /\ at' = 1
     ELSE mgr' = "flag" /\ at' = at + 1
  /\ UNCHANGED <<tasks, exit, param, attempt, conn, destroyed, results,
                 history, executed, losses>>

\* ... then each is deleted: ~asMySQLThread destroys the task list, the
\* connection and the callback, and only then ~asBaseThread joins.
Delete ==
  /\ mgr = "delete"
  /\ destroyed' = [destroyed EXCEPT ![at] = TRUE]
  /\ conn' = [conn EXCEPT ![at] = "null"]
  /\ mgr' = "join"
  /\ UNCHANGED <<tasks, exit, worker, param, attempt, results, at, history,
                 executed, losses>>

Join ==
  /\ mgr = "join"
  /\ worker[at] = "done"
  /\ IF at = ThreadCount
     THEN mgr' = "closed" /\ at' = at
     ELSE mgr' = "delete" /\ at' = at + 1
  /\ UNCHANGED <<tasks, exit, worker, param, attempt, conn, destroyed,
                 results, history, executed, losses>>

-----------------------------------------------------------------------------
(* A worker: ThreadFunc.                                                   *)

WorkerCheck(t) ==
  /\ worker[t] = "check"
  /\ worker' = [worker EXCEPT ![t] = IF exit[t] THEN "drain" ELSE "lock"]
  /\ UNCHANGED <<tasks, exit, param, attempt, conn, destroyed, results,
                 mgrVars, history, executed, losses>>

\* The wait releases m_lock; without a predicate, only a notification that
\* comes after it, or a spurious wakeup, ends it.
WorkerWait(t) ==
  /\ worker[t] = "lock"
  /\ tasks[t] = <<>>
  /\ ~destroyed[t]
  /\ worker' = [worker EXCEPT ![t] = "wait"]
  /\ UNCHANGED <<tasks, exit, param, attempt, conn, destroyed, results,
                 mgrVars, history, executed, losses>>

WorkerSpurious(t) ==
  /\ worker[t] = "wait"
  /\ worker' = [worker EXCEPT ![t] = "check"]
  /\ UNCHANGED <<tasks, exit, param, attempt, conn, destroyed, results,
                 mgrVars, history, executed, losses>>

\* mysql_ping fails: sleep and test m_exit again, the task stays.
WorkerPingFail(t) ==
  /\ worker[t] = "lock"
  /\ tasks[t] # <<>>
  /\ ~destroyed[t]
  /\ conn[t] = "lost"
  /\ worker' = [worker EXCEPT ![t] = "check"]
  /\ UNCHANGED <<tasks, exit, param, attempt, conn, destroyed, results,
                 mgrVars, history, executed, losses>>

\* mysql_ping succeeds, reconnecting if it must, and the task is popped.
WorkerPop(t) ==
  /\ worker[t] = "lock"
  /\ tasks[t] # <<>>
  /\ ~destroyed[t]
  /\ conn[t] \in {"up", "lost"}
  /\ conn' = [conn EXCEPT ![t] = "up"]
  /\ param' = [param EXCEPT ![t] = Head(tasks[t])]
  /\ attempt' = [attempt EXCEPT ![t] = "new"]
  /\ tasks' = [tasks EXCEPT ![t] = Tail(@)]
  /\ worker' = [worker EXCEPT ![t] = "handle"]
  /\ UNCHANGED <<exit, destroyed, results, mgrVars, history, executed, losses>>

Executes(k) == executed' = [executed EXCEPT ![k] = @ + 1]

\* HandleOneTask of task k on the worker's connection.
QueryOk(t, k) ==
  /\ conn[t] = "up"
  /\ attempt' = [attempt EXCEPT ![t] = "ok"]
  /\ Executes(k)
  /\ UNCHANGED <<conn, losses>>

QueryError(t) ==
  /\ conn[t] = "up"
  /\ attempt' = [attempt EXCEPT ![t] = "error"]
  /\ UNCHANGED <<conn, executed, losses>>

\* Error 2006, 2013 or 2014: the connection is gone, the statement may or may
\* not have been executed.
QueryLost(t, k, next) ==
  /\ \/ conn[t] = "up" /\ losses < MaxLosses /\ losses' = losses + 1
        /\ (Executes(k) \/ UNCHANGED executed)
     \/ conn[t] = "lost" /\ UNCHANGED <<losses, executed>>
  /\ conn' = [conn EXCEPT ![t] = "lost"]
  /\ attempt' = [attempt EXCEPT ![t] = next]

\* ReConnect: Connect leaves a null connection when it fails, and its result
\* is not looked at.
ReConnect(t) ==
  /\ worker[t] = "handle" /\ attempt[t] = "retry" /\ conn[t] = "lost"
  /\ ~destroyed[t]
  /\ \E c \in {"up", "null"} : conn' = [conn EXCEPT ![t] = c]
  /\ UNCHANGED <<tasks, exit, worker, param, attempt, destroyed, results,
                 mgrVars, history, executed, losses>>

FirstTry(t) ==
  /\ worker[t] = "handle" /\ attempt[t] = "new"
  /\ ~destroyed[t]
  /\ \/ /\ QueryOk(t, param[t]) \/ QueryError(t)
        /\ worker' = [worker EXCEPT ![t] = "result"]
     \/ /\ QueryLost(t, param[t], "retry")
        /\ UNCHANGED worker
  /\ UNCHANGED <<tasks, exit, param, destroyed, results, mgrVars, history>>

SecondTry(t) ==
  /\ worker[t] = "handle" /\ attempt[t] = "retry" /\ conn[t] = "up"
  /\ ~destroyed[t]
  /\ \/ QueryOk(t, param[t])
     \/ QueryError(t)
     \/ QueryLost(t, param[t], "error")
  /\ worker' = [worker EXCEPT ![t] = "result"]
  /\ UNCHANGED <<tasks, exit, param, destroyed, results, mgrVars, history>>

AddResult(t) ==
  /\ worker[t] = "result"
  /\ ~destroyed[t]
  /\ results' = Append(results, <<param[t], attempt[t] = "ok">>)
  /\ param' = [param EXCEPT ![t] = 0]
  /\ worker' = [worker EXCEPT ![t] = "check"]
  /\ UNCHANGED <<tasks, exit, attempt, conn, destroyed, mgrVars, history,
                 executed, losses>>

\* After the loop: the tasks left are executed once each, unlocked, without
\* a ping or a retry; the list itself is not popped.
DrainOne(t) ==
  /\ worker[t] = "drain"
  /\ tasks[t] # <<>>
  /\ ~destroyed[t] /\ conn[t] # "null"
  /\ \/ QueryOk(t, Head(tasks[t]))
     \/ QueryError(t)
     \/ QueryLost(t, Head(tasks[t]), "error")
  /\ results' = Append(results, <<Head(tasks[t]), attempt'[t] = "ok">>)
  /\ tasks' = [tasks EXCEPT ![t] = Tail(@)]
  /\ UNCHANGED <<exit, worker, param, destroyed, mgrVars, history>>

WorkerEnd(t) ==
  /\ worker[t] = "drain"
  /\ tasks[t] = <<>>
  /\ worker' = [worker EXCEPT ![t] = "done"]
  /\ conn' = [conn EXCEPT ![t] = "null"]
  /\ UNCHANGED <<tasks, exit, param, attempt, destroyed, results, mgrVars,
                 history, executed, losses>>

\* A worker that is handed a null connection, or that reaches for the lock, a
\* task, the connection or the callback after the destructor destroyed them.
\* If nothing was left to do it may also end, see WorkerEnd.
WorkerUndefined(t) ==
  /\ \/ /\ worker[t] \in {"lock", "drain", "handle", "result"}
        /\ destroyed[t]
     \/ /\ \/ worker[t] \in {"lock", "drain"} /\ tasks[t] # <<>>
           \/ worker[t] = "handle"
        /\ conn[t] = "null"
  /\ worker' = [worker EXCEPT ![t] = "undefined"]
  /\ UNCHANGED <<tasks, exit, param, attempt, conn, destroyed, results,
                 mgrVars, history, executed, losses>>

\* The server drops an idle connection.
ConnLost(t) ==
  /\ conn[t] = "up"
  /\ losses < MaxLosses
  /\ losses' = losses + 1
  /\ conn' = [conn EXCEPT ![t] = "lost"]
  /\ UNCHANGED <<tasks, exit, worker, param, attempt, destroyed, results,
                 mgrVars, history, executed>>

-----------------------------------------------------------------------------
Worker(t) ==
  \/ WorkerCheck(t) \/ WorkerWait(t) \/ WorkerPingFail(t) \/ WorkerPop(t)
  \/ FirstTry(t) \/ ReConnect(t) \/ SecondTry(t) \/ AddResult(t)
  \/ DrainOne(t) \/ WorkerEnd(t) \/ WorkerUndefined(t)

\* The steps that finish a call the main thread is in.
Main ==
  \/ StartThread \/ ThreadInit \/ AddTaskNotify
  \/ CloseFlag \/ CloseWake \/ Delete \/ Join

Next ==
  \/ Main \/ ThreadInitFail \/ AsyncQuery \/ Update \/ Close
  \/ \E t \in Threads : Worker(t) \/ WorkerSpurious(t) \/ ConnLost(t)

Spec == Init /\ [][Next]_vars

\* Every thread that can run runs; a ping that may succeed again and again
\* succeeds in the end.  The main thread calls Update again and again.
FairSpec ==
  /\ Spec
  /\ WF_vars(Main) /\ SF_vars(Update)
  /\ \A t \in Threads : WF_vars(Worker(t)) /\ SF_vars(WorkerPop(t))

-----------------------------------------------------------------------------
(* Properties.                                                             *)

Reported == delivered \o results

\* The task lists, hands and results that hold statement k.
Places(k) ==
  ({"list"} \X {i \in DOMAIN tasks[home[k]] : tasks[home[k]][i] = k})
    \cup ({"hand"} \X {t \in {home[k]} : param[t] = k})
    \cup ({"result"} \X {i \in DOMAIN Reported : Reported[i][1] = k})

\* Every statement handed over is in exactly one place: a task list, a
\* worker's hand, or the results, which hold it once whatever was retried.
OneResult ==
  \A k \in 1..Len(home) : \E p \in Places(k) : Places(k) = {p}

\* Statements given to the same worker are answered in the order they were
\* given.
InOrder ==
  \A i, j \in DOMAIN Reported :
    i < j /\ home[Reported[i][1]] = home[Reported[j][1]]
      => Reported[i][1] < Reported[j][1]

\* A callback that reports success is about a statement the server executed,
\* and a statement is executed a second time only if a connection was lost.
TruthfulResult ==
  /\ \A i \in DOMAIN Reported :
       Reported[i][2] => executed[Reported[i][1]] >= 1
  /\ \A k \in Tasks : executed[k] <= 1 + losses

\* A callback runs for every statement, as long as the manager stays open.
Answered ==
  \A k \in Tasks :
    Len(home) >= k ~>
      \/ \E i \in DOMAIN delivered : delivered[i][1] = k
      \/ mgr \notin {"open", "notify"}
      \/ \E t \in Threads : worker[t] = "undefined"

\* A worker that was told to exit executes the remaining tasks before it ends.
RemainingTasksExecuted ==
  \A t \in Threads :
    exit[t] /\ worker[t] \in {"done", "undefined"} => tasks[t] = <<>>

\* A worker that was told to exit ends.
ExitEndsWorker ==
  \A t \in Threads : exit[t] ~> worker[t] \in {"done", "undefined"}
=============================================================================
