--------------------------- MODULE MySQLPool_proofs ---------------------------
(***************************************************************************)
(* Proofs about MySQLPool, for any number of workers, of statements and of *)
(* connections the server drops.                                           *)
(***************************************************************************)
EXTENDS MySQLPool, SequenceTheorems, TLAPS

Given == 1..Len(home)

\* The main thread deals with a worker there is; statements are handed over
\* only when all of them were started.
MainInv ==
  /\ mgr = "init" => at < ThreadCount
  /\ mgr \notin {"init", "open"} => at >= 1
  /\ mgr \in {"init", "connect"} => home = <<>>
  /\ Len(home) <= MaxTasks

\* A worker holds a statement from the pop to the result.
HandInv ==
  /\ \A t \in Threads :
       param[t] # 0 => /\ param[t] \in Given /\ home[param[t]] = t
                       /\ worker[t] \in {"handle", "result", "undefined"}
  /\ \A t \in Threads : worker[t] \in {"handle", "result"} => param[t] # 0

\* A task list holds statements of its worker, oldest first, all of them
\* younger than the one in the worker's hand.
ListInv ==
  \A t \in Threads :
    /\ \A i \in DOMAIN tasks[t] : tasks[t][i] \in Given /\ home[tasks[t][i]] = t
    /\ \A i, j \in DOMAIN tasks[t] : i < j => tasks[t][i] < tasks[t][j]
    /\ \A i \in DOMAIN tasks[t] : param[t] < tasks[t][i]

\* The results a worker posted are of statements older than those it has.
ReportInv ==
  \A i \in DOMAIN Reported :
    /\ Reported[i][1] \in Given
    /\ LET t == home[Reported[i][1]]
       IN  /\ param[t] # 0 => Reported[i][1] < param[t]
           /\ \A j \in DOMAIN tasks[t] : Reported[i][1] < tasks[t][j]

\* No statement is forgotten.
KeptInv ==
  \A k \in Given :
    \/ \E i \in DOMAIN tasks[home[k]] : tasks[home[k]][i] = k
    \/ param[home[k]] = k
    \/ \E i \in DOMAIN Reported : Reported[i][1] = k

\* A statement that waits was not executed; the one to be tried again only
\* if a connection was lost for it.
ExecutedInv ==
  /\ \A k \in Tasks : k \notin Given => executed[k] = 0
  /\ \A t \in Threads : \A i \in DOMAIN tasks[t] : executed[tasks[t][i]] = 0
  /\ \A t \in Threads :
       /\ worker[t] = "handle" /\ attempt[t] = "new" => executed[param[t]] = 0
       /\ worker[t] = "handle" /\ attempt[t] = "retry"
            => executed[param[t]] <= losses
       /\ worker[t] = "result" /\ attempt[t] = "ok" => executed[param[t]] >= 1

LEMMA MainType ==
  ASSUME TypeOK, MainInv, Main \/ ThreadInitFail \/ AsyncQuery \/ Update \/ Close
  PROVE  TypeOK' /\ MainInv'
<1> USE PoolAssumption DEF TypeOK, MainInv, mgrVars, history, Threads, Tasks, Attempts
<1>1. CASE StartThread
  BY SMTT(30), <1>1 DEF StartThread
<1>2. CASE ThreadInit
  BY SMTT(30), <1>2 DEF ThreadInit
<1>3. CASE ThreadInitFail
  BY <1>3 DEF ThreadInitFail
<1>4. CASE AsyncQuery
  <2> PICK t \in Threads : /\ home' = Append(home, t)
                          /\ tasks' = [tasks EXCEPT ![t] = Append(@, Len(home) + 1)]
                          /\ at' = t
    BY <1>4 DEF AsyncQuery
  <2>1. Len(home) \in Nat /\ Len(home) + 1 \in Tasks /\ Len(home') = Len(home) + 1
    BY SMTT(30), <1>4 DEF AsyncQuery
  <2>2. tasks[t] \in Seq(Tasks)
    OBVIOUS
  <2>3. Append(tasks[t], Len(home) + 1) \in Seq(Tasks)
    BY ONLY <2>1, <2>2
  <2>4. tasks' \in [Threads -> Seq(Tasks)]
    BY <2>3
  <2>5. home' \in Seq(Threads)
    OBVIOUS
  <2>6. at' \in 0..ThreadCount /\ at' >= 1 /\ mgr' = "notify"
    BY <1>4 DEF AsyncQuery
  <2>7. MainInv'
    BY <2>1, <2>6, <1>4 DEF AsyncQuery
  <2> HIDE DEF Threads, Tasks, MainInv
  <2> QED
    BY <1>4, <2>4, <2>5, <2>6, <2>7 DEF AsyncQuery
<1>5. CASE AddTaskNotify
  BY <1>5 DEF AddTaskNotify, NotifyAll
<1>6. CASE Update
  <2>1. delivered \o results \in Seq(Tasks \X BOOLEAN)
    BY ConcatProperties
  <2>2. delivered' \in Seq(Tasks \X BOOLEAN) /\ results' \in Seq(Tasks \X BOOLEAN)
    BY <1>6, <2>1 DEF Update
  <2>3. MainInv'
    BY <1>6 DEF Update
  <2> HIDE DEF Threads, Tasks, MainInv
  <2> QED
    BY <1>6, <2>2, <2>3 DEF Update
<1>7. CASE Close
  BY <1>7 DEF Close
<1>8. CASE CloseFlag
  BY <1>8 DEF CloseFlag
<1>9. CASE CloseWake
  <2>1. worker' \in [Threads -> {"none", "check", "lock", "wait", "handle",
                                 "result", "drain", "done", "undefined"}]
    BY <1>9 DEF CloseWake, NotifyAll
  <2>2. at' \in 1..ThreadCount
    BY SMTT(30), <1>9 DEF CloseWake
  <2>3. mgr' \in {"delete", "flag"}
    BY <1>9 DEF CloseWake
  <2>4. at' \in 0..ThreadCount
    BY <2>2
  <2>5. MainInv'
    BY SMTT(30), <1>9, <2>2, <2>3 DEF CloseWake
  <2> HIDE DEF Threads, Tasks, MainInv
  <2> QED
    BY <1>9, <2>1, <2>3, <2>4, <2>5 DEF CloseWake
<1>10. CASE Delete
  BY <1>10 DEF Delete
<1>11. CASE Join
  <2>1. at' \in 1..ThreadCount /\ mgr' \in {"closed", "delete"}
    BY SMTT(30), <1>11 DEF Join
  <2>2. UNCHANGED <<tasks, exit, worker, param, attempt, conn, destroyed,
                    results, home, delivered, executed, losses>>
    BY <1>11 DEF Join
  <2>3. at' \in 0..ThreadCount
    BY <2>1
  <2>4. MainInv'
    BY SMTT(30), <1>11, <2>1, <2>2 DEF Join
  <2> HIDE DEF Threads, Tasks, MainInv
  <2> QED
    BY <2>1, <2>2, <2>3, <2>4
<1> QED
  BY <1>1, <1>2, <1>3, <1>4, <1>5, <1>6, <1>7, <1>8, <1>9, <1>10, <1>11 DEF Main

\* What an attempt to execute statement k may change, and what it tells.
LEMMA AttemptSound ==
  ASSUME TypeOK, NEW t \in Threads, NEW k \in Tasks, NEW next \in {"retry", "error"},
         QueryOk(t, k) \/ QueryError(t) \/ QueryLost(t, k, next)
  PROVE  /\ executed' \in [Tasks -> Nat]
         /\ losses' \in 0..MaxLosses /\ losses <= losses'
         /\ conn' \in [Threads -> {"null", "up", "lost"}]
         /\ attempt' \in [Threads -> Attempts]
         /\ \A u \in Threads : u # t => attempt'[u] = attempt[u]
         /\ attempt'[t] \in {"ok", "error", next}
         /\ \A j \in Tasks : j # k => executed'[j] = executed[j]
         /\ \/ executed'[k] = executed[k]
            \/ /\ executed'[k] = executed[k] + 1
               /\ attempt'[t] = "ok" \/ losses' = losses + 1
         /\ attempt'[t] = "ok" => executed'[k] = executed[k] + 1
<1> USE PoolAssumption DEF TypeOK
<1>1. ASSUME Executes(k)
      PROVE  /\ executed' \in [Tasks -> Nat] /\ executed'[k] = executed[k] + 1
             /\ \A j \in Tasks : j # k => executed'[j] = executed[j]
  <2>1. executed[k] + 1 \in Nat
    OBVIOUS
  <2>2. executed' = [executed EXCEPT ![k] = executed[k] + 1]
    BY <1>1 DEF Executes
  <2> QED
    BY <2>1, <2>2
<1>2. /\ conn' \in [Threads -> {"null", "up", "lost"}]
      /\ attempt' \in [Threads -> Attempts]
  <2>1. CASE QueryOk(t, k)
    BY <2>1 DEF QueryOk, Attempts
  <2>2. CASE QueryError(t)
    BY <2>2 DEF QueryError, Attempts
  <2>3. CASE QueryLost(t, k, next)
    BY <2>3 DEF QueryLost, Attempts
  <2> QED
    BY <2>1, <2>2, <2>3
<1>3. losses' \in 0..MaxLosses /\ losses <= losses'
  BY DEF QueryOk, QueryError, QueryLost
<1>4. \A u \in Threads : u # t => attempt'[u] = attempt[u]
  BY DEF QueryOk, QueryError, QueryLost
<1>b. ASSUME executed' = executed
      PROVE  /\ executed' \in [Tasks -> Nat] /\ executed'[k] = executed[k]
             /\ \A j \in Tasks : j # k => executed'[j] = executed[j]
  BY <1>b
<1> HIDE DEF TypeOK
<1>5. CASE QueryOk(t, k)
  <2>1. attempt'[t] = "ok"
    BY <1>5 DEF QueryOk, TypeOK
  <2> QED
    BY <1>1, <1>2, <1>3, <1>4, <1>5, <2>1 DEF QueryOk
<1>6. CASE QueryError(t)
  <2>1. attempt'[t] = "error" /\ executed' = executed
    BY <1>6 DEF QueryError, TypeOK
  <2> QED
    BY <1>b, <1>2, <1>3, <1>4, <2>1
<1>7. CASE QueryLost(t, k, next)
  <2>1. attempt'[t] = next /\ next # "ok"
    BY <1>7 DEF QueryLost, TypeOK
  <2>2. (losses' = losses + 1 /\ Executes(k)) \/ executed' = executed
    BY <1>7 DEF QueryLost
  <2> QED
    BY <1>1, <1>b, <1>2, <1>3, <1>4, <2>1, <2>2
<1> QED
  BY <1>5, <1>6, <1>7

LEMMA WorkerType ==
  ASSUME TypeOK, MainInv, HandInv, NEW t \in Threads,
         Worker(t) \/ WorkerSpurious(t) \/ ConnLost(t)
  PROVE  TypeOK' /\ MainInv'
<1>0. UNCHANGED <<mgr, at, home>>
  BY DEF Worker, WorkerSpurious, ConnLost, WorkerCheck, WorkerWait, WorkerPingFail,
         WorkerPop, FirstTry, ReConnect, SecondTry, AddResult, DrainOne, WorkerEnd,
         WorkerUndefined, mgrVars, history
<1>a. MainInv'
  BY <1>0 DEF MainInv
<1> USE PoolAssumption DEF TypeOK, mgrVars, history, Attempts
<1>1. CASE WorkerCheck(t)
  BY <1>1, <1>a DEF WorkerCheck
<1>2. CASE WorkerWait(t)
  BY <1>2, <1>a DEF WorkerWait
<1>3. CASE WorkerPingFail(t)
  BY <1>3, <1>a DEF WorkerPingFail
<1>4. CASE WorkerPop(t)
  <2>1. tasks[t] \in Seq(Tasks) /\ tasks[t] # <<>>
    BY <1>4 DEF WorkerPop
  <2>2. Head(tasks[t]) \in Tasks /\ Tail(tasks[t]) \in Seq(Tasks)
    BY <2>1
  <2>3. Head(tasks[t]) \in 0..MaxTasks
    BY <2>2 DEF Tasks
  <2> QED
    BY <1>4, <2>2, <2>3, <1>a DEF WorkerPop
<1>5. CASE FirstTry(t) \/ SecondTry(t)
  <2>1. param[t] \in Tasks
    BY <1>5 DEF FirstTry, SecondTry, HandInv, Tasks
  <2>2. QueryOk(t, param[t]) \/ QueryError(t) \/ QueryLost(t, param[t], "retry")
          \/ QueryLost(t, param[t], "error")
    BY <1>5 DEF FirstTry, SecondTry
  <2>3. /\ executed' \in [Tasks -> Nat] /\ losses' \in 0..MaxLosses
        /\ conn' \in [Threads -> {"null", "up", "lost"}]
        /\ attempt' \in [Threads -> Attempts]
    BY <2>1, <2>2, AttemptSound
  <2>4. worker' \in [Threads -> {"none", "check", "lock", "wait", "handle",
                                 "result", "drain", "done", "undefined"}]
    BY <1>5 DEF FirstTry, SecondTry
  <2> QED
    BY <1>5, <2>3, <2>4, <1>a DEF FirstTry, SecondTry
<1>6. CASE ReConnect(t)
  BY <1>6, <1>a DEF ReConnect
<1>8. CASE AddResult(t)
  <2>1. param[t] \in Tasks
    BY <1>8 DEF AddResult, HandInv, Tasks
  <2> DEFINE r == <<param[t], attempt[t] = "ok">>
  <2>a. r \in Tasks \X BOOLEAN
    BY <2>1
  <2>b. results' = Append(results, r)
    BY <1>8 DEF AddResult
  <2> HIDE DEF r
  <2>2. results' \in Seq(Tasks \X BOOLEAN)
    BY <2>a, <2>b
  <2>3. param' \in [Threads -> 0..MaxTasks]
    BY <1>8 DEF AddResult
  <2> QED
    BY <1>8, <2>2, <2>3, <1>a DEF AddResult
<1>9. CASE DrainOne(t)
  <2>1. tasks[t] \in Seq(Tasks) /\ tasks[t] # <<>>
    BY <1>9 DEF DrainOne
  <2>2. Head(tasks[t]) \in Tasks /\ Tail(tasks[t]) \in Seq(Tasks)
    BY <2>1
  <2> DEFINE r == <<Head(tasks[t]), attempt'[t] = "ok">>
  <2>a. r \in Tasks \X BOOLEAN
    BY <2>2
  <2>b. results' = Append(results, r)
    BY <1>9 DEF DrainOne
  <2> HIDE DEF r
  <2>3. results' \in Seq(Tasks \X BOOLEAN)
    BY <2>a, <2>b
  <2>4. /\ executed' \in [Tasks -> Nat] /\ losses' \in 0..MaxLosses
        /\ conn' \in [Threads -> {"null", "up", "lost"}]
        /\ attempt' \in [Threads -> Attempts]
    BY <1>9, <2>2, AttemptSound DEF DrainOne
  <2> QED
    BY <1>9, <2>2, <2>3, <2>4, <1>a DEF DrainOne
<1>10. CASE WorkerEnd(t)
  BY <1>10, <1>a DEF WorkerEnd
<1>11. CASE WorkerUndefined(t)
  BY <1>11, <1>a DEF WorkerUndefined
<1>12. CASE WorkerSpurious(t)
  BY <1>12, <1>a DEF WorkerSpurious
<1>13. CASE ConnLost(t)
  BY <1>13, <1>a DEF ConnLost
<1> QED
  BY <1>1, <1>2, <1>3, <1>4, <1>5, <1>6, <1>8, <1>9, <1>10, <1>11, <1>12,
     <1>13 DEF Worker
-----------------------------------------------------------------------------
(* Every statement is in one place, in the order it was given.             *)

LEMMA ReportedType ==
  ASSUME TypeOK
  PROVE  /\ Reported \in Seq(Tasks \X BOOLEAN)
         /\ DOMAIN Reported = 1..Len(Reported) /\ Len(Reported) \in Nat
         /\ \A i \in DOMAIN Reported : Reported[i][1] \in Tasks /\ Reported[i][2] \in BOOLEAN
<1>1. delivered \in Seq(Tasks \X BOOLEAN) /\ results \in Seq(Tasks \X BOOLEAN)
  BY DEF TypeOK
<1>2. Reported \in Seq(Tasks \X BOOLEAN)
  BY <1>1, ConcatProperties DEF Reported
<1>3. DOMAIN Reported = 1..Len(Reported) /\ Len(Reported) \in Nat
  BY <1>2, LenProperties
<1>4. \A i \in DOMAIN Reported : Reported[i] \in Tasks \X BOOLEAN
  BY <1>2, <1>3, ElementOfSeq
<1> QED
  BY <1>2, <1>3, <1>4

\* A result posted is the last one.
LEMMA ReportedGrows ==
  ASSUME TypeOK, NEW r \in Tasks \X BOOLEAN,
         results' = Append(results, r), delivered' = delivered
  PROVE  /\ Reported' = Append(Reported, r)
         /\ DOMAIN Reported' = 1..Len(Reported) + 1
         /\ Reported'[Len(Reported) + 1] = r
         /\ \A i \in DOMAIN Reported : Reported'[i] = Reported[i]
<1>1. delivered \in Seq(Tasks \X BOOLEAN) /\ results \in Seq(Tasks \X BOOLEAN)
  BY DEF TypeOK
<1>2. /\ results' \in Seq(Tasks \X BOOLEAN) /\ Len(results') = Len(results) + 1
      /\ \A i \in 1..Len(results) : results'[i] = results[i]
      /\ results'[Len(results) + 1] = r
  BY <1>1, AppendProperties
<1>3. /\ Reported \in Seq(Tasks \X BOOLEAN)
      /\ Len(Reported) = Len(delivered) + Len(results)
      /\ \A i \in 1..Len(delivered) + Len(results) :
           Reported[i] = IF i <= Len(delivered) THEN delivered[i]
                                                ELSE results[i - Len(delivered)]
  BY <1>1, ConcatProperties DEF Reported
<1>4. /\ Reported' \in Seq(Tasks \X BOOLEAN)
      /\ Len(Reported') = Len(delivered) + Len(results')
      /\ \A i \in 1..Len(delivered) + Len(results') :
           Reported'[i] = IF i <= Len(delivered) THEN delivered[i]
                                                 ELSE results'[i - Len(delivered)]
  <2>1. Reported' = delivered \o results'
    BY DEF Reported
  <2>2. \A R \in Seq(Tasks \X BOOLEAN) :
          /\ delivered \o R \in Seq(Tasks \X BOOLEAN)
          /\ Len(delivered \o R) = Len(delivered) + Len(R)
          /\ \A i \in 1..Len(delivered) + Len(R) :
               (delivered \o R)[i] = IF i <= Len(delivered) THEN delivered[i]
                                                           ELSE R[i - Len(delivered)]
    BY <1>1, ConcatProperties
  <2> QED
    BY <1>2, <2>1, <2>2
<1> DEFINE n == Len(delivered)
           m == Len(results)
<1>5. n \in Nat /\ m \in Nat
  BY <1>1, LenProperties
<1>6. Len(Reported) = n + m /\ Len(Reported') = n + m + 1
  BY <1>2, <1>3, <1>4, <1>5
<1>7. \A i \in 1..n + m : Reported'[i] = Reported[i]
  <2> HIDE DEF n, m
  <2> TAKE i \in 1..n + m
  <2>1. i \in 1..n + Len(results')
    BY <1>2, <1>5 DEF m
  <2>2. CASE i <= n
    BY <2>1, <2>2, <1>3, <1>4 DEF n, m
  <2>3. CASE ~(i <= n)
    <3>1. i - n \in 1..m
      BY <2>3, <1>5
    <3>2. results'[i - n] = results[i - n]
      BY <3>1, <1>2 DEF m
    <3> QED
      BY <2>1, <2>3, <3>2, <1>3, <1>4 DEF n, m
  <2> QED
    BY <2>2, <2>3
<1>8. Reported'[n + m + 1] = r
  <2> HIDE DEF n, m
  <2>1. n + m + 1 \in 1..n + Len(results') /\ ~(n + m + 1 <= n) /\ n + m + 1 - n = m + 1
    BY <1>2, <1>5 DEF m
  <2>2. results'[m + 1] = r
    BY <1>2 DEF m
  <2>3. \A i \in 1..n + Len(results') : ~(i <= n) => Reported'[i] = results'[i - n]
    BY <1>4 DEF n
  <2>4. Reported'[n + m + 1] = results'[m + 1]
    BY SMTT(30), <2>1, <2>3, <1>5
  <2> QED
    BY <2>2, <2>4
<1> HIDE DEF n, m
<1>9. /\ DOMAIN Reported = 1..n + m /\ DOMAIN Reported' = 1..n + m + 1
  BY <1>3, <1>4, <1>6, LenProperties
<1>10. /\ Append(Reported, r) \in Seq(Tasks \X BOOLEAN)
       /\ Len(Append(Reported, r)) = n + m + 1
       /\ \A i \in 1..n + m : Append(Reported, r)[i] = Reported[i]
       /\ Append(Reported, r)[n + m + 1] = r
  BY <1>3, <1>6, AppendProperties
<1>11. \A i \in 1..n + m + 1 : Reported'[i] = Append(Reported, r)[i]
  <2> TAKE i \in 1..n + m + 1
  <2>1. i \in 1..n + m \/ i = n + m + 1
    BY <1>5
  <2> QED
    BY <2>1, <1>7, <1>8, <1>10
<1>12. Reported' = Append(Reported, r)
  BY <1>4, <1>6, <1>10, <1>11, SeqEqual
<1> QED
  BY <1>6, <1>7, <1>8, <1>9, <1>12
\* Where the statements are, and what the server did with them.
DataInv == HandInv /\ ListInv /\ ReportInv /\ KeptInv /\ InOrder
CountInv == ExecutedInv /\ TruthfulResult

IInv == TypeOK /\ MainInv /\ DataInv /\ CountInv

\* A worker leaves the execution of a statement as it is.
Leaves(t) ==
  /\ worker'[t] \in {"handle", "result"}
       => worker'[t] = worker[t] /\ attempt'[t] = attempt[t]
  /\ param[t] # 0 => worker'[t] \in {"handle", "result", "undefined"}

\* What holds of the places of the statements, while none of them moves.
LEMMA PlacesStay ==
  ASSUME ListInv, ReportInv, KeptInv, InOrder,
         UNCHANGED <<tasks, param, home>>, Reported' = Reported
  PROVE  ListInv' /\ ReportInv' /\ KeptInv' /\ InOrder'
<1>1. ListInv'
  BY DEF ListInv, Given
<1>2. ReportInv'
  BY DEF ReportInv, Given
<1>3. KeptInv'
  BY DEF KeptInv, Given
<1>4. InOrder'
  BY DEF InOrder
<1> QED
  BY <1>1, <1>2, <1>3, <1>4

\* A step that moves no statement, executes none and reports none.
LEMMA QuietStep ==
  ASSUME TypeOK, DataInv, CountInv,
         UNCHANGED <<tasks, param, home, executed>>, Reported' = Reported,
         losses \in Int, losses' \in Int, losses <= losses',
         \A t \in Threads : Leaves(t)
  PROVE  DataInv' /\ CountInv'
<1>1. ListInv' /\ ReportInv' /\ KeptInv' /\ InOrder'
  BY PlacesStay DEF DataInv
<1>2. HandInv'
  BY DEF DataInv, HandInv, Given, Leaves
<1>3. ExecutedInv'
  <2>1. \A k \in Tasks : k \notin Given' => executed'[k] = 0
    BY DEF CountInv, ExecutedInv, Given
  <2>2. \A t \in Threads : \A i \in DOMAIN tasks'[t] : executed'[tasks'[t][i]] = 0
    BY DEF CountInv, ExecutedInv
  <2>3. ASSUME NEW t \in Threads
        PROVE  /\ worker'[t] = "handle" /\ attempt'[t] = "new" => executed'[param'[t]] = 0
               /\ worker'[t] = "handle" /\ attempt'[t] = "retry"
                    => executed'[param'[t]] <= losses'
               /\ worker'[t] = "result" /\ attempt'[t] = "ok"
                    => executed'[param'[t]] >= 1
    <3>1. worker'[t] \in {"handle", "result"}
            => worker'[t] = worker[t] /\ attempt'[t] = attempt[t] /\ param[t] # 0
      BY DEF Leaves, DataInv, HandInv
    <3>2. /\ worker[t] = "handle" /\ attempt[t] = "new" => executed[param[t]] = 0
          /\ worker[t] = "handle" /\ attempt[t] = "retry" => executed[param[t]] <= losses
          /\ worker[t] = "result" /\ attempt[t] = "ok" => executed[param[t]] >= 1
      BY DEF CountInv, ExecutedInv
    <3>3. param[t] # 0 => param[t] \in Tasks
      BY DEF TypeOK, Tasks
    <3>4. param[t] # 0 => executed[param[t]] \in Nat
      BY <3>3 DEF TypeOK
    <3> QED
      BY <3>1, <3>2, <3>4
  <2> QED
    BY <2>1, <2>2, <2>3 DEF ExecutedInv
<1>4. TruthfulResult'
  <2>1. \A i \in DOMAIN Reported' : Reported'[i][2] => executed'[Reported'[i][1]] >= 1
    BY DEF CountInv, TruthfulResult
  <2>2. \A k \in Tasks : executed'[k] <= 1 + losses'
    <3> TAKE k \in Tasks
    <3>1. executed[k] \in Nat /\ executed[k] <= 1 + losses
      BY DEF CountInv, TruthfulResult, TypeOK
    <3> QED
      BY <3>1
  <2> QED
    BY <2>1, <2>2 DEF TruthfulResult
<1> QED
  BY <1>1, <1>2, <1>3, <1>4 DEF DataInv, CountInv

LEMMA QuietActions ==
  ASSUME TypeOK, MainInv, DataInv, CountInv, TypeOK',
         \/ (Main \/ ThreadInitFail \/ Update \/ Close)
         \/ \E t \in Threads :
              \/ WorkerCheck(t) \/ WorkerWait(t) \/ WorkerPingFail(t) \/ ReConnect(t)
              \/ WorkerEnd(t) \/ WorkerUndefined(t) \/ WorkerSpurious(t) \/ ConnLost(t)
  PROVE  DataInv' /\ CountInv'
<1>1. /\ UNCHANGED <<tasks, param, home, executed>>
      /\ losses \in Int /\ losses' \in Int /\ losses <= losses'
  BY PoolAssumption DEF TypeOK, Main, StartThread, ThreadInit, ThreadInitFail, AddTaskNotify, Update,
    Close, CloseFlag, CloseWake, Delete, Join, WorkerCheck, WorkerWait,
    WorkerPingFail, ReConnect, WorkerEnd, WorkerUndefined, WorkerSpurious, ConnLost,
    mgrVars, history
<1>2. Reported' = Reported
  <2>1. CASE Update
    <3>1. /\ delivered \in Seq(Tasks \X BOOLEAN) /\ results \in Seq(Tasks \X BOOLEAN)
          /\ delivered' = delivered \o results /\ results' = <<>>
      BY <2>1 DEF Update, TypeOK
    <3>2. delivered \o results \in Seq(Tasks \X BOOLEAN)
      BY <3>1, ConcatProperties
    <3>3. (delivered \o results) \o <<>> = delivered \o results
      BY <3>2, ConcatEmptySeq
    <3> QED
      BY <3>1, <3>3 DEF Reported
  <2>2. CASE ~Update
    <3>1. UNCHANGED <<delivered, results>>
      BY <2>2 DEF Main, StartThread, ThreadInit, ThreadInitFail, AddTaskNotify,
        Close, CloseFlag, CloseWake, Delete, Join, WorkerCheck, WorkerWait,
        WorkerPingFail, ReConnect, WorkerEnd, WorkerUndefined, WorkerSpurious, ConnLost,
        mgrVars, history
    <3> QED
      BY <3>1 DEF Reported
  <2> QED
    BY <2>1, <2>2
<1>3. ASSUME NEW u \in Threads
      PROVE  Leaves(u)
  <2>1. param[u] # 0 => worker[u] \in {"handle", "result", "undefined"}
    BY DEF DataInv, HandInv
  <2>2. CASE StartThread
    <3>1. home = <<>>
      BY <2>2 DEF StartThread, MainInv
    <3>2. param[u] = 0
      BY <3>1 DEF DataInv, HandInv, Given
    <3>3. /\ attempt' = attempt
          /\ worker'[u] = "check" \/ worker'[u] = worker[u]
      BY <2>2 DEF StartThread, TypeOK
    <3> QED
      BY <3>2, <3>3 DEF Leaves
  <2>3. CASE AddTaskNotify \/ CloseWake
    BY <2>1, <2>3 DEF AddTaskNotify, CloseWake, NotifyAll, Leaves, TypeOK
  <2>4. CASE ThreadInit \/ ThreadInitFail \/ Update \/ Close \/ CloseFlag \/ Delete \/ Join
    BY <2>1, <2>4 DEF ThreadInit, ThreadInitFail, Update, Close, CloseFlag, Delete,
      Join, Leaves
  <2>5. ASSUME NEW t \in Threads,
               \/ WorkerCheck(t) \/ WorkerWait(t) \/ WorkerPingFail(t)
               \/ WorkerEnd(t) \/ WorkerUndefined(t) \/ WorkerSpurious(t)
        PROVE  Leaves(u)
    <3>1. /\ UNCHANGED attempt
          /\ \/ worker'[u] \in {worker[u], "undefined"}
             \/ param[u] = 0 /\ worker'[u] \notin {"handle", "result"}
      <4>1. CASE WorkerCheck(t) \/ WorkerWait(t)
        BY <2>1, <4>1 DEF WorkerCheck, WorkerWait, TypeOK
      <4>2. CASE WorkerPingFail(t) \/ WorkerEnd(t)
        BY <2>1, <4>2 DEF WorkerPingFail, WorkerEnd, TypeOK
      <4>3. CASE WorkerUndefined(t) \/ WorkerSpurious(t)
        BY <2>1, <4>3 DEF WorkerUndefined, WorkerSpurious, TypeOK
      <4> QED
        BY <2>5, <4>1, <4>2, <4>3
    <3> QED
      BY <2>1, <3>1 DEF Leaves
  <2>6. ASSUME NEW t \in Threads, ReConnect(t) \/ ConnLost(t)
        PROVE  Leaves(u)
    BY <2>1, <2>6 DEF ReConnect, ConnLost, Leaves
  <2> QED
    BY <2>2, <2>3, <2>4, <2>5, <2>6 DEF Main
<1> QED
  BY <1>1, <1>2, <1>3, QuietStep
\* A try moves no statement; it executes the one in the worker's hand at most
\* once more, and a second time only if a connection was lost.
LEMMA TryStep ==
  ASSUME TypeOK, DataInv, CountInv, NEW t \in Threads, FirstTry(t) \/ SecondTry(t)
  PROVE  DataInv' /\ CountInv'
<1> DEFINE k == param[t]
<1>1. /\ UNCHANGED <<tasks, param, home, results, delivered>>
      /\ worker[t] = "handle"
      /\ \A u \in Threads : u # t => worker'[u] = worker[u]
      /\ worker'[t] = "result" \/ (FirstTry(t) /\ worker'[t] = "handle")
  BY DEF FirstTry, SecondTry, history, TypeOK
<1>2. k \in Tasks /\ k \in Given /\ home[k] = t
  BY <1>1 DEF DataInv, HandInv, TypeOK, Tasks
<1>3. Reported' = Reported
  BY <1>1 DEF Reported
<1>4. ListInv' /\ ReportInv' /\ KeptInv' /\ InOrder'
  BY <1>1, <1>3, PlacesStay DEF DataInv
<1>5. HandInv'
  BY <1>1 DEF DataInv, HandInv, Given
<1>6. QueryOk(t, k) \/ QueryError(t) \/ QueryLost(t, k, "retry") \/ QueryLost(t, k, "error")
  BY DEF FirstTry, SecondTry
<1>7. /\ executed' \in [Tasks -> Nat] /\ losses' \in 0..MaxLosses /\ losses <= losses'
      /\ \A u \in Threads : u # t => attempt'[u] = attempt[u]
      /\ \A j \in Tasks : j # k => executed'[j] = executed[j]
      /\ \/ executed'[k] = executed[k]
         \/ /\ executed'[k] = executed[k] + 1
            /\ attempt'[t] = "ok" \/ losses' = losses + 1
      /\ attempt'[t] = "ok" => executed'[k] = executed[k] + 1
  BY <1>2, <1>6, AttemptSound
<1>8. executed \in [Tasks -> Nat] /\ losses \in Nat /\ losses' \in Nat
  BY <1>7, PoolAssumption DEF TypeOK
<1>9. executed[k] <= losses
  BY <1>1, <1>8 DEF CountInv, ExecutedInv, FirstTry, SecondTry
<1>10. \A u \in Threads : u # t /\ param[u] # 0 => param[u] # k /\ param[u] \in Tasks
  BY SMTT(30), <1>2 DEF DataInv, HandInv, TypeOK, Tasks
<1>11. \A u \in Threads : \A i \in DOMAIN tasks[u] : tasks[u][i] # k /\ tasks[u][i] \in Tasks
  <2>1. \A u \in Threads : \A i \in DOMAIN tasks[u] :
          home[tasks[u][i]] = u /\ tasks[u][i] \in Given /\ param[u] < tasks[u][i]
    BY DEF DataInv, ListInv
  <2>2. \A u \in Threads : \A i \in DOMAIN tasks[u] : tasks[u][i] \in Tasks
    BY DEF TypeOK
  <2> QED
    BY <1>2, <2>1, <2>2 DEF Tasks
<1>12. \A i \in DOMAIN Reported : Reported[i][1] # k /\ Reported[i][1] \in Tasks
  <2>1. \A i \in DOMAIN Reported : Reported[i][1] \in Tasks
    BY ReportedType
  <2>2. ASSUME NEW i \in DOMAIN Reported, Reported[i][1] = k
        PROVE  FALSE
    <3>1. k < param[t]
      BY <1>2, <2>2 DEF DataInv, ReportInv, Tasks
    <3> QED
      BY <1>2, <3>1 DEF Tasks
  <2> QED
    BY <2>1, <2>2
<1> HIDE DEF k
<1>13. ExecutedInv'
  <2>1. \A j \in Tasks : j \notin Given' => executed'[j] = 0
    <3>1. \A j \in Tasks : j \notin Given => executed[j] = 0 /\ j # k
      BY <1>2 DEF CountInv, ExecutedInv
    <3> QED
      BY <1>1, <1>7, <3>1 DEF Given
  <2>2. \A u \in Threads : \A i \in DOMAIN tasks'[u] : executed'[tasks'[u][i]] = 0
    BY <1>1, <1>7, <1>11 DEF CountInv, ExecutedInv
  <2>3. ASSUME NEW u \in Threads
        PROVE  /\ worker'[u] = "handle" /\ attempt'[u] = "new" => executed'[param'[u]] = 0
               /\ worker'[u] = "handle" /\ attempt'[u] = "retry"
                    => executed'[param'[u]] <= losses'
               /\ worker'[u] = "result" /\ attempt'[u] = "ok"
                    => executed'[param'[u]] >= 1
    <3>1. CASE u = t
      <4>1. param'[u] = k
        BY <1>1, <3>1 DEF k
      <4>2. worker'[u] = "handle" => attempt'[u] = "retry"
        BY <1>1, <3>1 DEF FirstTry, QueryLost, TypeOK
      <4>3. worker'[u] = "handle" /\ attempt'[u] = "retry" => executed'[k] <= losses'
        BY <1>2, <1>7, <1>8, <1>9, <3>1
      <4>4. attempt'[u] = "ok" => executed'[k] >= 1
        BY <1>2, <1>7, <1>8, <3>1
      <4> QED
        BY <4>1, <4>2, <4>3, <4>4
    <3>2. CASE u # t
      <4>1. worker'[u] = worker[u] /\ attempt'[u] = attempt[u] /\ param'[u] = param[u]
        BY <1>1, <1>7, <3>2
      <4>2. worker[u] \in {"handle", "result"} => executed'[param[u]] = executed[param[u]]
        BY <1>7, <1>10, <3>2 DEF DataInv, HandInv
      <4>3. /\ worker[u] = "handle" /\ attempt[u] = "new" => executed[param[u]] = 0
            /\ worker[u] = "handle" /\ attempt[u] = "retry" => executed[param[u]] <= losses
            /\ worker[u] = "result" /\ attempt[u] = "ok" => executed[param[u]] >= 1
        BY DEF CountInv, ExecutedInv
      <4>4. worker[u] \in {"handle", "result"} => executed[param[u]] \in Nat
        BY <1>8, <1>10, <3>2 DEF DataInv, HandInv
      <4> QED
        BY <1>7, <1>8, <4>1, <4>2, <4>3, <4>4
    <3> QED
      BY <3>1, <3>2
  <2> QED
    BY <2>1, <2>2, <2>3 DEF ExecutedInv
<1>14. TruthfulResult'
  <2>1. \A i \in DOMAIN Reported' : Reported'[i][2] => executed'[Reported'[i][1]] >= 1
    BY <1>3, <1>7, <1>12 DEF CountInv, TruthfulResult
  <2>2. \A j \in Tasks : executed'[j] <= 1 + losses'
    <3> TAKE j \in Tasks
    <3>1. executed[j] <= 1 + losses /\ executed[j] \in Nat
      BY <1>8 DEF CountInv, TruthfulResult
    <3>2. CASE j = k
      BY <1>2, <1>7, <1>8, <1>9, <3>2
    <3>3. CASE j # k
      BY <1>7, <1>8, <3>1, <3>3
    <3> QED
      BY <3>2, <3>3
  <2> QED
    BY <2>1, <2>2 DEF TruthfulResult
<1> QED
  BY <1>4, <1>5, <1>13, <1>14 DEF DataInv, CountInv
\* AsyncQuery hands over a statement that is younger than all others.
LEMMA AsyncQueryStep ==
  ASSUME TypeOK, DataInv, CountInv, AsyncQuery
  PROVE  DataInv' /\ CountInv'
<1> DEFINE k == Len(home) + 1
<1> PICK t \in Threads : /\ home' = Append(home, t)
                        /\ tasks' = [tasks EXCEPT ![t] = Append(@, k)]
  BY DEF AsyncQuery
<1>1. /\ UNCHANGED <<worker, param, attempt, results, delivered, executed, losses>>
      /\ Len(home) < MaxTasks
  BY DEF AsyncQuery
<1>2. /\ home \in Seq(Threads) /\ Len(home) \in Nat /\ k \in Tasks
      /\ Given = 1..Len(home) /\ Given' = 1..k /\ k \in Given'
      /\ \A j \in Given : j \in Given' /\ home'[j] = home[j] /\ j < k
      /\ home'[k] = t
  <2>1. home \in Seq(Threads) /\ Len(home) \in Nat
    BY DEF TypeOK
  <2>2. k \in Tasks
    BY <1>1, <2>1, PoolAssumption DEF Tasks
  <2>3. /\ Len(home') = k /\ home'[k] = t
        /\ \A j \in 1..Len(home) : home'[j] = home[j]
    BY <2>1, AppendProperties
  <2>4. \A j \in 1..Len(home) : j \in 1..k /\ j < k
    BY <2>1
  <2>5. k \in 1..k
    BY <2>1
  <2> HIDE DEF k
  <2> QED
    BY <2>1, <2>2, <2>3, <2>4, <2>5 DEF Given
<1>3. \A u \in Threads : tasks[u] \in Seq(Tasks)
  BY DEF TypeOK
<1>4. /\ \A u \in Threads : u # t => tasks'[u] = tasks[u]
      /\ tasks'[t] = Append(tasks[t], k)
  BY <1>3 DEF TypeOK
<1> DEFINE n == Len(tasks[t])
<1>5. /\ n \in Nat /\ DOMAIN tasks[t] = 1..n /\ DOMAIN tasks'[t] = 1..n + 1
      /\ \A i \in 1..n : tasks'[t][i] = tasks[t][i]
      /\ tasks'[t][n + 1] = k
  BY <1>2, <1>3, <1>4, AppendProperties, LenProperties
<1>6. Reported' = Reported
  BY <1>1 DEF Reported
<1>7. \A j \in Given' : j \in Given \/ j = k
  BY <1>2
<1> HIDE DEF k, n
<1>8. \A i \in DOMAIN tasks'[t] : i \in DOMAIN tasks[t] \/ i = n + 1
  BY <1>5
<1>9. HandInv'
  BY <1>1, <1>2 DEF DataInv, HandInv
<1>10. ASSUME NEW u \in Threads
       PROVE  /\ \A i \in DOMAIN tasks'[u] : tasks'[u][i] \in Given' /\ home'[tasks'[u][i]] = u
              /\ \A i, j \in DOMAIN tasks'[u] : i < j => tasks'[u][i] < tasks'[u][j]
              /\ \A i \in DOMAIN tasks'[u] : param'[u] < tasks'[u][i]
  <2>1. /\ \A i \in DOMAIN tasks[u] : tasks[u][i] \in Given /\ home[tasks[u][i]] = u
        /\ \A i, j \in DOMAIN tasks[u] : i < j => tasks[u][i] < tasks[u][j]
        /\ \A i \in DOMAIN tasks[u] : param[u] < tasks[u][i]
    BY DEF DataInv, ListInv
  <2>2. CASE u # t
    BY <1>1, <1>2, <1>4, <2>1, <2>2
  <2>3. CASE u = t
    <3>a. \A i \in DOMAIN tasks[t] : tasks'[t][i] \in Given' /\ home'[tasks'[t][i]] = t
      BY <1>2, <1>5, <2>1, <2>3
    <3>b. tasks'[t][n + 1] \in Given' /\ home'[tasks'[t][n + 1]] = t
      BY <1>2, <1>5
    <3>1. \A i \in DOMAIN tasks'[u] : tasks'[u][i] \in Given' /\ home'[tasks'[u][i]] = u
      BY <1>8, <2>3, <3>a, <3>b
    <3>2. ASSUME NEW i \in DOMAIN tasks'[u], NEW j \in DOMAIN tasks'[u], i < j
          PROVE  tasks'[u][i] < tasks'[u][j]
      <4>1. i \in DOMAIN tasks[t] /\ tasks'[t][i] = tasks[t][i]
        BY <1>5, <2>3, <3>2
      <4>2. CASE j = n + 1
        BY <1>2, <1>5, <2>1, <2>3, <4>1, <4>2
      <4>3. CASE j # n + 1
        <5>1. j \in DOMAIN tasks[t] /\ tasks'[t][j] = tasks[t][j]
          BY <1>5, <2>3, <4>3
        <5> QED
          BY <2>1, <2>3, <3>2, <4>1, <5>1
      <4> QED
        BY <4>2, <4>3
    <3>3. param[t] < k
      BY <1>2 DEF DataInv, HandInv, Tasks
    <3>4. \A i \in DOMAIN tasks'[u] : param'[u] < tasks'[u][i]
      BY <1>1, <1>5, <1>8, <2>1, <2>3, <3>3
    <3> QED
      BY <3>1, <3>2, <3>4
  <2> QED
    BY <2>2, <2>3
<1>11. ListInv'
  BY <1>10 DEF ListInv
<1>12. ReportInv'
  <2> SUFFICES ASSUME NEW i \in DOMAIN Reported
               PROVE  /\ Reported[i][1] \in Given'
                      /\ param'[home'[Reported[i][1]]] # 0
                           => Reported[i][1] < param'[home'[Reported[i][1]]]
                      /\ \A j \in DOMAIN tasks'[home'[Reported[i][1]]] :
                           Reported[i][1] < tasks'[home'[Reported[i][1]]][j]
    BY <1>6 DEF ReportInv
  <2> DEFINE r == Reported[i][1]
  <2>1. /\ r \in Given
        /\ param[home[r]] # 0 => r < param[home[r]]
        /\ \A j \in DOMAIN tasks[home[r]] : r < tasks[home[r]][j]
    BY DEF DataInv, ReportInv
  <2>2. r \in Given' /\ home'[r] = home[r] /\ r < k /\ home[r] \in Threads
    BY <1>2, <2>1
  <2> HIDE DEF r
  <2>3. \A j \in DOMAIN tasks'[home[r]] : r < tasks'[home[r]][j]
    <3>1. CASE home[r] = t
      BY <1>5, <1>8, <2>1, <2>2, <3>1
    <3>2. CASE home[r] # t
      BY <1>4, <2>1, <2>2, <3>2
    <3> QED
      BY <3>1, <3>2
  <2>4. /\ r \in Given'
        /\ param'[home'[r]] # 0 => r < param'[home'[r]]
        /\ \A j \in DOMAIN tasks'[home'[r]] : r < tasks'[home'[r]][j]
    BY <1>1, <2>1, <2>2, <2>3
  <2> QED
    BY <2>4 DEF r
<1>13. KeptInv'
  <2> SUFFICES ASSUME NEW j \in Given'
               PROVE  \/ \E i \in DOMAIN tasks'[home'[j]] : tasks'[home'[j]][i] = j
                      \/ param'[home'[j]] = j
                      \/ \E i \in DOMAIN Reported' : Reported'[i][1] = j
    BY DEF KeptInv
  <2>1. CASE j = k
    <3>1. n + 1 \in DOMAIN tasks'[t]
      BY <1>5
    <3> QED
      BY <1>2, <1>5, <2>1, <3>1
  <2>2. CASE j \in Given
    <3>1. home'[j] = home[j] /\ home[j] \in Threads
      BY <1>2, <2>2
    <3>2. \/ \E i \in DOMAIN tasks[home[j]] : tasks[home[j]][i] = j
          \/ param[home[j]] = j
          \/ \E i \in DOMAIN Reported : Reported[i][1] = j
      BY <2>2 DEF DataInv, KeptInv
    <3>3. \A i \in DOMAIN tasks[home[j]] :
            i \in DOMAIN tasks'[home[j]] /\ tasks'[home[j]][i] = tasks[home[j]][i]
      BY <1>4, <1>5, <3>1
    <3> QED
      BY <1>1, <1>6, <3>1, <3>2, <3>3
  <2> QED
    BY <1>7, <2>1, <2>2
<1>14. InOrder'
  <2>1. \A i \in DOMAIN Reported : home'[Reported[i][1]] = home[Reported[i][1]]
    BY <1>2 DEF DataInv, ReportInv
  <2>2. \A i, j \in DOMAIN Reported :
          i < j /\ home[Reported[i][1]] = home[Reported[j][1]]
            => Reported[i][1] < Reported[j][1]
    BY DEF DataInv, InOrder
  <2>3. \A i, j \in DOMAIN Reported :
          i < j /\ home'[Reported[i][1]] = home'[Reported[j][1]]
            => Reported[i][1] < Reported[j][1]
    BY <2>1, <2>2
  <2> QED
    BY <1>6, <2>3 DEF InOrder
<1>15. ExecutedInv'
  <2>1. \A j \in Tasks : j \notin Given' => executed'[j] = 0
    BY <1>1, <1>2 DEF CountInv, ExecutedInv
  <2>2. executed[k] = 0
    BY <1>2 DEF CountInv, ExecutedInv
  <2>3. \A u \in Threads : \A i \in DOMAIN tasks'[u] : executed'[tasks'[u][i]] = 0
    BY <1>1, <1>4, <1>5, <1>8, <2>2 DEF CountInv, ExecutedInv
  <2> QED
    BY <1>1, <2>1, <2>3 DEF CountInv, ExecutedInv
<1>16. TruthfulResult'
  BY <1>1, <1>6 DEF CountInv, TruthfulResult
<1> QED
  BY <1>9, <1>11, <1>12, <1>13, <1>14, <1>15, <1>16 DEF DataInv, CountInv

\* The lists after a worker took the oldest statement of its own.
LEMMA ListsPopped ==
  ASSUME TypeOK, ListInv, NEW t \in Threads, tasks[t] # <<>>, param[t] = 0,
         tasks' = [tasks EXCEPT ![t] = Tail(@)]
  PROVE  LET k == Head(tasks[t])
         IN  /\ k \in Tasks /\ k \in Given /\ home[k] = t
             /\ 1 \in DOMAIN tasks[t] /\ tasks[t][1] = k
             /\ \A u \in Threads : u # t => tasks'[u] = tasks[u]
             /\ \A i \in DOMAIN tasks'[t] :
                  i + 1 \in DOMAIN tasks[t] /\ tasks'[t][i] = tasks[t][i + 1]
             /\ \A i \in DOMAIN tasks[t] :
                  i # 1 => i - 1 \in DOMAIN tasks'[t] /\ tasks'[t][i - 1] = tasks[t][i]
             /\ \A i \in DOMAIN tasks'[t] : k < tasks'[t][i]
             /\ \A u \in Threads :
                  /\ \A i \in DOMAIN tasks'[u] :
                       tasks'[u][i] \in Given /\ home[tasks'[u][i]] = u
                  /\ \A i, j \in DOMAIN tasks'[u] : i < j => tasks'[u][i] < tasks'[u][j]
<1> DEFINE k == Head(tasks[t])
           n == Len(tasks[t])
<1>1. tasks[t] \in Seq(Tasks)
  BY DEF TypeOK
<1>2. n \in Nat /\ n # 0 /\ DOMAIN tasks[t] = 1..n /\ k = tasks[t][1]
  BY <1>1, EmptySeq, LenProperties, HeadTailProperties
<1>3. /\ tasks'[t] = Tail(tasks[t])
      /\ \A u \in Threads : u # t => tasks'[u] = tasks[u]
  BY DEF TypeOK
<1>4. /\ DOMAIN tasks'[t] = 1..n - 1
      /\ \A i \in 1..n - 1 : tasks'[t][i] = tasks[t][i + 1]
  <2>1. Tail(tasks[t]) \in Seq(Tasks) /\ Len(Tail(tasks[t])) = n - 1
    BY <1>1, HeadTailProperties
  <2>2. \A i \in 1..n - 1 : Tail(tasks[t])[i] = tasks[t][i + 1]
    BY <1>1, <2>1, HeadTailProperties
  <2>3. DOMAIN Tail(tasks[t]) = 1..n - 1
    BY <2>1, LenProperties
  <2> QED
    BY <1>3, <2>2, <2>3
<1>5. k \in Tasks
  BY <1>1, <1>2, ElementOfSeq
<1> HIDE DEF k, n
<1>6. 1 \in DOMAIN tasks[t] /\ tasks[t][1] = k
  BY <1>2
<1>7. \A i \in DOMAIN tasks'[t] :
        i + 1 \in DOMAIN tasks[t] /\ tasks'[t][i] = tasks[t][i + 1]
  BY <1>2, <1>4
<1>8. \A i \in DOMAIN tasks[t] :
        i # 1 => i - 1 \in DOMAIN tasks'[t] /\ tasks'[t][i - 1] = tasks[t][i]
  <2> TAKE i \in DOMAIN tasks[t]
  <2> HAVE i # 1
  <2>1. i - 1 \in 1..n - 1 /\ (i - 1) + 1 = i
    BY <1>2
  <2> QED
    BY <1>4, <2>1
<1>9. k \in Given /\ home[k] = t
  BY <1>6 DEF ListInv
<1>10. \A i, j \in DOMAIN tasks[t] : i < j => tasks[t][i] < tasks[t][j]
  BY DEF ListInv
<1>11. \A i, j \in DOMAIN tasks'[t] : 1 < i + 1 /\ (i < j => i + 1 < j + 1)
  BY <1>2, <1>4
<1>12. \A i \in DOMAIN tasks'[t] : k < tasks'[t][i]
  BY <1>6, <1>7, <1>10, <1>11
<1>13. \A i, j \in DOMAIN tasks'[t] : i < j => tasks'[t][i] < tasks'[t][j]
  BY <1>7, <1>10, <1>11
<1>14. \A i \in DOMAIN tasks'[t] : tasks'[t][i] \in Given /\ home[tasks'[t][i]] = t
  BY <1>7 DEF ListInv
<1>15. ASSUME NEW u \in Threads
       PROVE  /\ \A i \in DOMAIN tasks'[u] :
                   tasks'[u][i] \in Given /\ home[tasks'[u][i]] = u
              /\ \A i, j \in DOMAIN tasks'[u] : i < j => tasks'[u][i] < tasks'[u][j]
  BY <1>3, <1>13, <1>14 DEF ListInv
<1> QED
  BY <1>3, <1>5, <1>6, <1>7, <1>8, <1>9, <1>12, <1>15 DEF k
LEMMA WorkerPopStep ==
  ASSUME TypeOK, DataInv, CountInv, NEW t \in Threads, WorkerPop(t)
  PROVE  DataInv' /\ CountInv'
<1> DEFINE k == Head(tasks[t])
<1>1. /\ UNCHANGED <<home, results, delivered, executed, losses>>
      /\ worker[t] = "lock" /\ tasks[t] # <<>>
      /\ tasks' = [tasks EXCEPT ![t] = Tail(@)]
      /\ worker'[t] = "handle" /\ attempt'[t] = "new" /\ param'[t] = k
      /\ \A u \in Threads : u # t => /\ worker'[u] = worker[u] /\ attempt'[u] = attempt[u]
                                     /\ param'[u] = param[u]
  BY DEF WorkerPop, history, TypeOK
<1>2. param[t] = 0
  BY <1>1 DEF DataInv, HandInv
<1>3. /\ k \in Tasks /\ k \in Given /\ home[k] = t
      /\ 1 \in DOMAIN tasks[t] /\ tasks[t][1] = k
      /\ \A u \in Threads : u # t => tasks'[u] = tasks[u]
      /\ \A i \in DOMAIN tasks'[t] :
           i + 1 \in DOMAIN tasks[t] /\ tasks'[t][i] = tasks[t][i + 1]
      /\ \A i \in DOMAIN tasks[t] :
           i # 1 => i - 1 \in DOMAIN tasks'[t] /\ tasks'[t][i - 1] = tasks[t][i]
      /\ \A i \in DOMAIN tasks'[t] : k < tasks'[t][i]
      /\ \A u \in Threads :
           /\ \A i \in DOMAIN tasks'[u] :
                tasks'[u][i] \in Given /\ home[tasks'[u][i]] = u
           /\ \A i, j \in DOMAIN tasks'[u] : i < j => tasks'[u][i] < tasks'[u][j]
  BY <1>1, <1>2, ListsPopped DEF DataInv
<1>4. Reported' = Reported /\ Given' = Given
  BY <1>1 DEF Reported, Given
<1>5. k # 0
  BY <1>3 DEF Tasks
<1> HIDE DEF k
<1>6. HandInv'
  BY <1>1, <1>3, <1>4, <1>5 DEF DataInv, HandInv
<1>7. ListInv'
  <2>1. \A u \in Threads : \A i \in DOMAIN tasks'[u] : param'[u] < tasks'[u][i]
    BY <1>1, <1>3 DEF DataInv, ListInv
  <2> QED
    BY <1>1, <1>3, <1>4, <2>1 DEF ListInv
<1>8. ReportInv'
  <2> SUFFICES ASSUME NEW i \in DOMAIN Reported, NEW r, r = Reported[i][1]
               PROVE  /\ r \in Given
                      /\ param'[home[r]] # 0 => r < param'[home[r]]
                      /\ \A j \in DOMAIN tasks'[home[r]] : r < tasks'[home[r]][j]
    BY <1>1, <1>4 DEF ReportInv
  <2>1. /\ r \in Given
        /\ param[home[r]] # 0 => r < param[home[r]]
        /\ \A j \in DOMAIN tasks[home[r]] : r < tasks[home[r]][j]
    BY DEF DataInv, ReportInv
  <2>2. home[r] \in Threads
    BY <2>1 DEF TypeOK, Given
  <2>3. CASE home[r] = t
    BY <1>1, <1>3, <2>1, <2>3
  <2>4. CASE home[r] # t
    BY <1>1, <1>3, <2>1, <2>2, <2>4
  <2> QED
    BY <2>3, <2>4
<1>9. KeptInv'
  <2> SUFFICES ASSUME NEW j \in Given
               PROVE  \/ \E i \in DOMAIN tasks'[home[j]] : tasks'[home[j]][i] = j
                      \/ param'[home[j]] = j
                      \/ \E i \in DOMAIN Reported : Reported[i][1] = j
    BY <1>1, <1>4 DEF KeptInv
  <2>1. \/ \E i \in DOMAIN tasks[home[j]] : tasks[home[j]][i] = j
        \/ param[home[j]] = j
        \/ \E i \in DOMAIN Reported : Reported[i][1] = j
    BY DEF DataInv, KeptInv
  <2>2. home[j] \in Threads
    BY DEF TypeOK, Given
  <2>3. CASE home[j] = t
    <3>1. j # 0
      BY DEF Given
    <3>2. ASSUME NEW i \in DOMAIN tasks[t], tasks[t][i] = j
          PROVE  param'[t] = j \/ \E l \in DOMAIN tasks'[t] : tasks'[t][l] = j
      <4>1. CASE i = 1
        BY <1>1, <1>3, <3>2, <4>1
      <4>2. CASE i # 1
        BY <1>3, <3>2, <4>2
      <4> QED
        BY <4>1, <4>2
    <3>3. param[home[j]] # j
      BY <1>2, <2>3, <3>1
    <3> QED
      BY <2>1, <2>3, <3>2, <3>3
  <2>4. CASE home[j] # t
    BY <1>1, <1>3, <2>1, <2>2, <2>4
  <2> QED
    BY <2>3, <2>4
<1>10. InOrder'
  BY <1>1, <1>4 DEF DataInv, InOrder
<1>11. ExecutedInv'
  <2>1. executed[k] = 0
    BY <1>3 DEF CountInv, ExecutedInv
  <2>2. \A j \in Tasks : j \notin Given' => executed'[j] = 0
    BY <1>1, <1>4 DEF CountInv, ExecutedInv
  <2>3. \A u \in Threads : \A i \in DOMAIN tasks'[u] : executed'[tasks'[u][i]] = 0
    BY <1>1, <1>3 DEF CountInv, ExecutedInv
  <2>4. \A u \in Threads :
          /\ worker'[u] = "handle" /\ attempt'[u] = "new" => executed'[param'[u]] = 0
          /\ worker'[u] = "handle" /\ attempt'[u] = "retry" => executed'[param'[u]] <= losses'
          /\ worker'[u] = "result" /\ attempt'[u] = "ok" => executed'[param'[u]] >= 1
    BY <1>1, <2>1 DEF CountInv, ExecutedInv
  <2> QED
    BY <2>2, <2>3, <2>4 DEF ExecutedInv
<1>12. TruthfulResult'
  BY <1>1, <1>4 DEF CountInv, TruthfulResult
<1> QED
  BY <1>6, <1>7, <1>8, <1>9, <1>10, <1>11, <1>12 DEF DataInv, CountInv

\* A result is younger than all that its worker reported before.
LEMMA NewReport ==
  ASSUME TypeOK, DataInv, NEW t \in Threads, NEW r \in Tasks \X BOOLEAN,
         r[1] \in Given, home[r[1]] = t,
         \A i \in DOMAIN Reported : home[Reported[i][1]] = t => Reported[i][1] < r[1],
         results' = Append(results, r), UNCHANGED <<delivered, home>>
  PROVE  /\ InOrder'
         /\ \A i \in DOMAIN Reported' :
              \/ i \in DOMAIN Reported /\ Reported'[i] = Reported[i]
              \/ Reported'[i] = r
         /\ \A i \in DOMAIN Reported : i \in DOMAIN Reported' /\ Reported'[i] = Reported[i]
         /\ \E i \in DOMAIN Reported' : Reported'[i] = r
<1> DEFINE n == Len(Reported)
<1>1. /\ DOMAIN Reported' = 1..n + 1 /\ Reported'[n + 1] = r
      /\ \A i \in DOMAIN Reported : Reported'[i] = Reported[i]
  BY ReportedGrows
<1>2. DOMAIN Reported = 1..n /\ n \in Nat
  BY ReportedType
<1> HIDE DEF n
<1>3. \A i \in 1..n + 1 : i \in 1..n \/ i = n + 1
  BY <1>2
<1>4. n + 1 \in 1..n + 1 /\ \A i \in 1..n : i \in 1..n + 1
  BY <1>2
<1>5. \A i, j \in 1..n + 1 : i < j => i \in 1..n
  BY <1>2
<1>6. ASSUME NEW i \in 1..n + 1, NEW j \in 1..n + 1, i < j,
             home[Reported'[i][1]] = home[Reported'[j][1]]
      PROVE  Reported'[i][1] < Reported'[j][1]
  <2>1. i \in DOMAIN Reported /\ Reported'[i] = Reported[i]
    BY <1>1, <1>2, <1>5, <1>6
  <2>2. CASE j = n + 1
    BY <1>1, <1>6, <2>1, <2>2
  <2>3. CASE j \in 1..n
    <3>1. j \in DOMAIN Reported /\ Reported'[j] = Reported[j]
      BY <1>1, <1>2, <2>3
    <3> QED
      BY <1>6, <2>1, <3>1 DEF DataInv, InOrder
  <2> QED
    BY <1>3, <2>2, <2>3
<1>7. InOrder'
  BY <1>1, <1>6 DEF InOrder
<1> QED
  BY <1>1, <1>2, <1>3, <1>4, <1>7
LEMMA AddResultStep ==
  ASSUME TypeOK, DataInv, CountInv, NEW t \in Threads, AddResult(t)
  PROVE  DataInv' /\ CountInv'
<1> DEFINE k == param[t]
           r == <<k, attempt[t] = "ok">>
<1>1. /\ UNCHANGED <<tasks, home, delivered, attempt, executed, losses>>
      /\ worker[t] = "result" /\ results' = Append(results, r)
      /\ worker'[t] = "check" /\ param'[t] = 0
      /\ \A u \in Threads : u # t => worker'[u] = worker[u] /\ param'[u] = param[u]
  BY DEF AddResult, history, TypeOK
<1>2. k \in Given /\ home[k] = t /\ k \in Tasks /\ k # 0
  BY <1>1 DEF DataInv, HandInv, TypeOK, Tasks
<1>3. /\ r \in Tasks \X BOOLEAN /\ r[1] = k /\ (r[2] => executed[k] >= 1)
      /\ Given' = Given
  <2>1. attempt[t] = "ok" => executed[k] >= 1
    BY <1>1 DEF CountInv, ExecutedInv
  <2> QED
    BY <1>1, <1>2, <2>1 DEF Given
<1>4. \A i \in DOMAIN Reported : home[Reported[i][1]] = t => Reported[i][1] < k
  BY <1>2 DEF DataInv, ReportInv
<1> HIDE DEF r
<1>5. /\ InOrder'
      /\ \A i \in DOMAIN Reported' :
           \/ i \in DOMAIN Reported /\ Reported'[i] = Reported[i]
           \/ Reported'[i] = r
      /\ \A i \in DOMAIN Reported : i \in DOMAIN Reported' /\ Reported'[i] = Reported[i]
      /\ \E i \in DOMAIN Reported' : Reported'[i] = r
  BY <1>1, <1>2, <1>3, <1>4, NewReport
<1>6. HandInv'
  BY <1>1, <1>3 DEF DataInv, HandInv
<1>7. ListInv'
  <2>1. ASSUME NEW u \in Threads, NEW i \in DOMAIN tasks[u]
        PROVE  param'[u] < tasks[u][i]
    <3>1. tasks[u][i] \in Given /\ param[u] < tasks[u][i]
      BY DEF DataInv, ListInv
    <3>2. tasks[u][i] > 0
      BY <3>1 DEF Given
    <3> QED
      BY <1>1, <3>1, <3>2
  <2> QED
    BY <1>1, <1>3, <2>1 DEF DataInv, ListInv
<1>8. ReportInv'
  <2> SUFFICES ASSUME NEW i \in DOMAIN Reported', NEW q, q = Reported'[i][1]
               PROVE  /\ q \in Given
                      /\ param'[home[q]] # 0 => q < param'[home[q]]
                      /\ \A j \in DOMAIN tasks[home[q]] : q < tasks[home[q]][j]
    BY <1>1, <1>3 DEF ReportInv
  <2>1. CASE Reported'[i] = r
    BY <1>1, <1>2, <1>3, <2>1 DEF DataInv, ListInv
  <2>2. CASE i \in DOMAIN Reported /\ Reported'[i] = Reported[i]
    <3>1. /\ q \in Given
          /\ param[home[q]] # 0 => q < param[home[q]]
          /\ \A j \in DOMAIN tasks[home[q]] : q < tasks[home[q]][j]
      BY <2>2 DEF DataInv, ReportInv
    <3>2. home[q] \in Threads
      BY <3>1 DEF TypeOK, Given
    <3> QED
      BY <1>1, <3>1, <3>2
  <2> QED
    BY <1>5, <2>1, <2>2
<1>9. KeptInv'
  <2> SUFFICES ASSUME NEW j \in Given
               PROVE  \/ \E i \in DOMAIN tasks[home[j]] : tasks[home[j]][i] = j
                      \/ param'[home[j]] = j
                      \/ \E i \in DOMAIN Reported' : Reported'[i][1] = j
    BY <1>1, <1>3 DEF KeptInv
  <2>1. \/ \E i \in DOMAIN tasks[home[j]] : tasks[home[j]][i] = j
        \/ param[home[j]] = j
        \/ \E i \in DOMAIN Reported : Reported[i][1] = j
    BY DEF DataInv, KeptInv
  <2>2. home[j] \in Threads
    BY DEF TypeOK, Given
  <2>3. \E i \in DOMAIN Reported' : Reported'[i][1] = k
    BY <1>3, <1>5
  <2>4. (\E i \in DOMAIN Reported : Reported[i][1] = j)
          => \E i \in DOMAIN Reported' : Reported'[i][1] = j
    BY <1>5
  <2> QED
    BY <1>1, <2>1, <2>2, <2>3, <2>4
<1>10. ExecutedInv'
  BY <1>1, <1>3 DEF CountInv, ExecutedInv
<1>11. TruthfulResult'
  <2>1. ASSUME NEW i \in DOMAIN Reported', Reported'[i][2]
        PROVE  executed[Reported'[i][1]] >= 1
    BY <1>3, <1>5, <2>1 DEF CountInv, TruthfulResult
  <2> QED
    BY <1>1, <2>1 DEF CountInv, TruthfulResult
<1> QED
  BY <1>5, <1>6, <1>7, <1>8, <1>9, <1>10, <1>11 DEF DataInv, CountInv

LEMMA DrainOneStep ==
  ASSUME TypeOK, DataInv, CountInv, NEW t \in Threads, DrainOne(t)
  PROVE  DataInv' /\ CountInv'
<1> DEFINE k == Head(tasks[t])
           r == <<k, attempt'[t] = "ok">>
<1>1. /\ UNCHANGED <<home, delivered, param, worker>>
      /\ worker[t] = "drain" /\ tasks[t] # <<>>
      /\ tasks' = [tasks EXCEPT ![t] = Tail(@)]
      /\ results' = Append(results, r)
      /\ QueryOk(t, k) \/ QueryError(t) \/ QueryLost(t, k, "error")
  BY DEF DrainOne, history
<1>2. param[t] = 0
  BY <1>1 DEF DataInv, HandInv
<1>3. /\ k \in Tasks /\ k \in Given /\ home[k] = t
      /\ 1 \in DOMAIN tasks[t] /\ tasks[t][1] = k
      /\ \A u \in Threads : u # t => tasks'[u] = tasks[u]
      /\ \A i \in DOMAIN tasks'[t] :
           i + 1 \in DOMAIN tasks[t] /\ tasks'[t][i] = tasks[t][i + 1]
      /\ \A i \in DOMAIN tasks[t] :
           i # 1 => i - 1 \in DOMAIN tasks'[t] /\ tasks'[t][i - 1] = tasks[t][i]
      /\ \A i \in DOMAIN tasks'[t] : k < tasks'[t][i]
      /\ \A u \in Threads :
           /\ \A i \in DOMAIN tasks'[u] :
                tasks'[u][i] \in Given /\ home[tasks'[u][i]] = u
           /\ \A i, j \in DOMAIN tasks'[u] : i < j => tasks'[u][i] < tasks'[u][j]
  BY <1>1, <1>2, ListsPopped DEF DataInv
<1>4. /\ executed' \in [Tasks -> Nat] /\ losses' \in 0..MaxLosses /\ losses <= losses'
      /\ \A u \in Threads : u # t => attempt'[u] = attempt[u]
      /\ \A j \in Tasks : j # k => executed'[j] = executed[j]
      /\ \/ executed'[k] = executed[k]
         \/ /\ executed'[k] = executed[k] + 1
            /\ attempt'[t] = "ok" \/ losses' = losses + 1
      /\ attempt'[t] = "ok" => executed'[k] = executed[k] + 1
  BY <1>1, <1>3, AttemptSound
<1>5. executed[k] = 0 /\ losses \in Nat /\ losses' \in Nat
  BY <1>3, <1>4, PoolAssumption DEF CountInv, ExecutedInv, TypeOK
<1>6. /\ r \in Tasks \X BOOLEAN /\ r[1] = k /\ (r[2] => executed'[k] >= 1)
      /\ Given' = Given /\ k # 0
  <2> HIDE DEF k
  <2>1. r \in Tasks \X BOOLEAN /\ r[1] = k /\ r[2] = (attempt'[t] = "ok")
    BY <1>3
  <2>2. attempt'[t] = "ok" => executed'[k] >= 1
    BY <1>4, <1>5
  <2>3. Given' = Given /\ k # 0
    BY <1>1, <1>3 DEF Given, Tasks
  <2> QED
    BY <2>1, <2>2, <2>3
<1> HIDE DEF k, r
<1>7. \A i \in DOMAIN Reported : home[Reported[i][1]] = t => Reported[i][1] < k
  BY <1>3 DEF DataInv, ReportInv
<1>8. /\ InOrder'
      /\ \A i \in DOMAIN Reported' :
           \/ i \in DOMAIN Reported /\ Reported'[i] = Reported[i]
           \/ Reported'[i] = r
      /\ \A i \in DOMAIN Reported : i \in DOMAIN Reported' /\ Reported'[i] = Reported[i]
      /\ \E i \in DOMAIN Reported' : Reported'[i] = r
  BY <1>1, <1>3, <1>6, <1>7, NewReport
<1>9. HandInv'
  BY <1>1, <1>6 DEF DataInv, HandInv
<1>10. ListInv'
  <2>1. \A u \in Threads : \A i \in DOMAIN tasks'[u] : param[u] < tasks'[u][i]
    BY <1>2, <1>3 DEF DataInv, ListInv
  <2> QED
    BY <1>1, <1>3, <1>6, <2>1 DEF ListInv
<1>11. ReportInv'
  <2> SUFFICES ASSUME NEW i \in DOMAIN Reported', NEW q, q = Reported'[i][1]
               PROVE  /\ q \in Given
                      /\ param[home[q]] # 0 => q < param[home[q]]
                      /\ \A j \in DOMAIN tasks'[home[q]] : q < tasks'[home[q]][j]
    BY <1>1, <1>6 DEF ReportInv
  <2>1. CASE Reported'[i] = r
    BY <1>2, <1>3, <1>6, <2>1
  <2>2. CASE i \in DOMAIN Reported /\ Reported'[i] = Reported[i]
    <3>1. /\ q \in Given
          /\ param[home[q]] # 0 => q < param[home[q]]
          /\ \A j \in DOMAIN tasks[home[q]] : q < tasks[home[q]][j]
      BY <2>2 DEF DataInv, ReportInv
    <3>2. home[q] \in Threads
      BY <3>1 DEF TypeOK, Given
    <3> QED
      BY <1>3, <3>1, <3>2
  <2> QED
    BY <1>8, <2>1, <2>2
<1>12. KeptInv'
  <2> SUFFICES ASSUME NEW j \in Given
               PROVE  \/ \E i \in DOMAIN tasks'[home[j]] : tasks'[home[j]][i] = j
                      \/ param[home[j]] = j
                      \/ \E i \in DOMAIN Reported' : Reported'[i][1] = j
    BY <1>1, <1>6 DEF KeptInv
  <2>1. \/ \E i \in DOMAIN tasks[home[j]] : tasks[home[j]][i] = j
        \/ param[home[j]] = j
        \/ \E i \in DOMAIN Reported : Reported[i][1] = j
    BY DEF DataInv, KeptInv
  <2>2. home[j] \in Threads
    BY DEF TypeOK, Given
  <2>3. \E i \in DOMAIN Reported' : Reported'[i][1] = k
    BY <1>6, <1>8
  <2>4. (\E i \in DOMAIN Reported : Reported[i][1] = j)
          => \E i \in DOMAIN Reported' : Reported'[i][1] = j
    BY <1>8
  <2>5. ASSUME NEW i \in DOMAIN tasks[home[j]], tasks[home[j]][i] = j
        PROVE  \/ j = k
               \/ \E l \in DOMAIN tasks'[home[j]] : tasks'[home[j]][l] = j
    <3>1. CASE home[j] = t /\ i = 1
      BY <1>3, <2>5, <3>1
    <3>2. CASE home[j] = t /\ i # 1
      BY <1>3, <2>5, <3>2
    <3>3. CASE home[j] # t
      BY <1>3, <2>2, <2>5, <3>3
    <3> QED
      BY <3>1, <3>2, <3>3
  <2> QED
    BY <2>1, <2>3, <2>4, <2>5
<1>13. \A u \in Threads : param[u] # 0 => param[u] # k /\ param[u] \in Tasks
  BY <1>2, <1>3 DEF DataInv, HandInv, TypeOK, Tasks
<1>14. \A u \in Threads : \A i \in DOMAIN tasks'[u] :
         tasks'[u][i] # k /\ tasks'[u][i] \in Tasks /\ executed[tasks'[u][i]] = 0
  <2>1. ASSUME NEW u \in Threads, NEW i \in DOMAIN tasks'[u]
        PROVE  /\ executed[tasks'[u][i]] = 0
               /\ \E j \in DOMAIN tasks[u] : tasks'[u][i] = tasks[u][j]
    BY <1>3 DEF CountInv, ExecutedInv
  <2>2. \A u \in Threads : \A i \in DOMAIN tasks[u] : tasks[u][i] \in Tasks
    BY DEF TypeOK
  <2>3. ASSUME NEW u \in Threads, NEW i \in DOMAIN tasks'[u]
        PROVE  tasks'[u][i] # k
    <3>1. CASE u = t
      <4>1. k < tasks'[t][i]
        BY <1>3, <3>1
      <4> QED
        BY <1>3, <3>1, <4>1 DEF Tasks
    <3>2. CASE u # t
      BY <1>3, <3>2
    <3> QED
      BY <3>1, <3>2
  <2> QED
    BY <2>1, <2>2, <2>3
<1>15. \A i \in DOMAIN Reported : Reported[i][1] # k /\ Reported[i][1] \in Tasks
  <2>1. \A i \in DOMAIN Reported : Reported[i][1] \in Tasks
    BY ReportedType
  <2>2. \A i \in DOMAIN Reported : Reported[i][1] # k
    BY <1>3, <1>7 DEF Tasks
  <2> QED
    BY <2>1, <2>2
<1>16. ExecutedInv'
  <2>1. \A j \in Tasks : j \notin Given' => executed'[j] = 0
    BY <1>3, <1>4, <1>6 DEF CountInv, ExecutedInv
  <2>2. \A u \in Threads : \A i \in DOMAIN tasks'[u] : executed'[tasks'[u][i]] = 0
    BY <1>4, <1>14
  <2>3. ASSUME NEW u \in Threads
        PROVE  /\ worker'[u] = "handle" /\ attempt'[u] = "new" => executed'[param'[u]] = 0
               /\ worker'[u] = "handle" /\ attempt'[u] = "retry"
                    => executed'[param'[u]] <= losses'
               /\ worker'[u] = "result" /\ attempt'[u] = "ok"
                    => executed'[param'[u]] >= 1
    <3>1. CASE u = t
      BY <1>1, <3>1
    <3>2. CASE u # t
      <4>1. worker'[u] = worker[u] /\ attempt'[u] = attempt[u] /\ param'[u] = param[u]
        BY <1>1, <1>4, <3>2
      <4>2. worker[u] \in {"handle", "result"}
              => executed'[param[u]] = executed[param[u]] /\ executed[param[u]] \in Nat
        BY <1>4, <1>13 DEF DataInv, HandInv, TypeOK
      <4>3. /\ worker[u] = "handle" /\ attempt[u] = "new" => executed[param[u]] = 0
            /\ worker[u] = "handle" /\ attempt[u] = "retry" => executed[param[u]] <= losses
            /\ worker[u] = "result" /\ attempt[u] = "ok" => executed[param[u]] >= 1
        BY DEF CountInv, ExecutedInv
      <4> QED
        BY <1>4, <1>5, <4>1, <4>2, <4>3
    <3> QED
      BY <3>1, <3>2
  <2> QED
    BY <2>1, <2>2, <2>3 DEF ExecutedInv
<1>17. TruthfulResult'
  <2>1. ASSUME NEW i \in DOMAIN Reported', Reported'[i][2]
        PROVE  executed'[Reported'[i][1]] >= 1
    BY <1>4, <1>6, <1>8, <1>15, <2>1 DEF CountInv, TruthfulResult
  <2>2. \A j \in Tasks : executed'[j] <= 1 + losses'
    <3> TAKE j \in Tasks
    <3>1. executed[j] <= 1 + losses /\ executed[j] \in Nat
      BY DEF CountInv, TruthfulResult, TypeOK
    <3>2. CASE j = k
      BY <1>4, <1>5, <3>2
    <3>3. CASE j # k
      BY <1>4, <1>5, <3>1, <3>3
    <3> QED
      BY <3>2, <3>3
  <2> QED
    BY <2>1, <2>2 DEF TruthfulResult
<1> QED
  BY <1>8, <1>9, <1>10, <1>11, <1>12, <1>16, <1>17 DEF DataInv, CountInv
-----------------------------------------------------------------------------
LEMMA InitIInv == Init => IInv
<1> SUFFICES ASSUME Init
             PROVE  IInv
  OBVIOUS
<1> USE PoolAssumption DEF Init
<1>1. TypeOK
  <2>1. <<>> \in Seq(Tasks) /\ <<>> \in Seq(Tasks \X BOOLEAN) /\ <<>> \in Seq(Threads)
    OBVIOUS
  <2> QED
    BY <2>1 DEF TypeOK, Attempts
<1>2. Given = {} /\ Len(home) = 0
  BY DEF Given
<1>3. MainInv
  BY <1>2 DEF MainInv
<1>4. DOMAIN Reported = {}
  BY DEF Reported
<1>5. \A t \in Threads : DOMAIN tasks[t] = {} /\ param[t] = 0 /\ worker[t] = "none"
  OBVIOUS
<1>6. DataInv
  BY <1>2, <1>4, <1>5 DEF DataInv, HandInv, ListInv, ReportInv, KeptInv, InOrder
<1>7. CountInv
  BY <1>2, <1>4, <1>5 DEF CountInv, ExecutedInv, TruthfulResult
<1> QED
  BY <1>1, <1>3, <1>6, <1>7 DEF IInv

LEMMA NextIInv == IInv /\ [Next]_vars => IInv'
<1> SUFFICES ASSUME IInv, [Next]_vars
             PROVE  IInv'
  OBVIOUS
<1> USE DEF IInv
<1>1. CASE Main \/ ThreadInitFail \/ Update \/ Close
  <2>1. TypeOK' /\ MainInv'
    BY <1>1, MainType
  <2> QED
    BY <1>1, <2>1, QuietActions
<1>2. CASE AsyncQuery
  BY <1>2, MainType, AsyncQueryStep
<1>3. ASSUME NEW t \in Threads, Worker(t) \/ WorkerSpurious(t) \/ ConnLost(t)
      PROVE  IInv'
  <2>1. TypeOK' /\ MainInv'
    BY <1>3, WorkerType DEF DataInv
  <2>2. CASE FirstTry(t) \/ SecondTry(t)
    BY <2>1, <2>2, TryStep
  <2>3. CASE WorkerPop(t)
    BY <2>1, <2>3, WorkerPopStep
  <2>4. CASE AddResult(t)
    BY <2>1, <2>4, AddResultStep
  <2>5. CASE DrainOne(t)
    BY <2>1, <2>5, DrainOneStep
  <2>6. CASE \/ WorkerCheck(t) \/ WorkerWait(t) \/ WorkerPingFail(t) \/ ReConnect(t)
             \/ WorkerEnd(t) \/ WorkerUndefined(t) \/ WorkerSpurious(t) \/ ConnLost(t)
    BY <2>1, <2>6, QuietActions
  <2> QED
    BY <1>3, <2>2, <2>3, <2>4, <2>5, <2>6 DEF Worker
<1>4. CASE UNCHANGED vars
  <2>1. TypeOK' /\ MainInv'
    BY <1>4 DEF vars, mgrVars, history, TypeOK, MainInv
  <2>2. /\ UNCHANGED <<tasks, param, home, executed, worker, attempt, delivered, results>>
        /\ losses' = losses /\ losses \in Int
    BY <1>4 DEF vars, mgrVars, history, TypeOK
  <2>3. Reported' = Reported
    BY <2>2 DEF Reported
  <2>4. \A t \in Threads : Leaves(t)
    BY <2>2 DEF Leaves, DataInv, HandInv
  <2> QED
    BY <2>1, <2>2, <2>3, <2>4, QuietStep
<1> QED
  BY <1>1, <1>2, <1>3, <1>4 DEF Next

\* A statement that was handed over is in one place: the order within a
\* worker's list, hand and results leaves no room for a second one.
LEMMA OnePlace ==
  ASSUME TypeOK, MainInv, DataInv
  PROVE  OneResult
<1> SUFFICES ASSUME NEW k \in Given
             PROVE  \E p \in Places(k) : Places(k) = {p}
  BY DEF OneResult, Given
<1> DEFINE t == home[k]
           inList == {i \in DOMAIN tasks[t] : tasks[t][i] = k}
           inResults == {i \in DOMAIN Reported : Reported[i][1] = k}
           hands == {u \in {t} : param[u] = k}
<1>1. Places(k) = ({"list"} \X inList) \cup ({"hand"} \X hands) \cup ({"result"} \X inResults)
  BY DEF Places
<1>2. k \in Int /\ k # 0 /\ t \in Threads
  BY DEF Given, TypeOK
<1>3. \A i, j \in inList : i = j
  <2>1. \A i, j \in DOMAIN tasks[t] : i < j => tasks[t][i] < tasks[t][j]
    BY <1>2 DEF DataInv, ListInv
  <2>2. \A i, j \in DOMAIN tasks[t] : i \in Int /\ (i < j \/ j < i \/ i = j)
    <3>1. tasks[t] \in Seq(Tasks)
      BY <1>2 DEF TypeOK
    <3> QED
      BY <3>1, LenProperties
  <2> QED
    BY <1>2, <2>1, <2>2
<1>4. \A i, j \in inResults : i = j
  <2>1. \A i, j \in inResults : ~(i < j)
    BY <1>2 DEF DataInv, InOrder
  <2>2. \A i, j \in DOMAIN Reported : i < j \/ j < i \/ i = j
    BY ReportedType
  <2> QED
    BY <2>1, <2>2
<1>5. hands = {} \/ (hands = {t} /\ param[t] = k)
  <2>1. CASE param[t] = k
    <3>1. \A u : u \in hands <=> u \in {t}
      BY <2>1
    <3> HIDE DEF hands
    <3> QED
      BY <2>1, <3>1
  <2>2. CASE param[t] # k
    BY <2>2
  <2> QED
    BY <2>1, <2>2
<1>6. inList # {} => hands = {} /\ inResults = {}
  <2>1. \A i \in inList : param[t] < k
    BY <1>2 DEF DataInv, ListInv
  <2>2. \A i \in inList, j \in inResults : k < k
    BY <1>2 DEF DataInv, ReportInv
  <2> QED
    BY <1>2, <2>1, <2>2
<1>7. hands # {} => inResults = {}
  <2>1. \A j \in inResults : param[t] # 0 => k < param[t]
    BY <1>2 DEF DataInv, ReportInv
  <2> QED
    BY <1>2, <1>5, <2>1
<1>8. inList # {} \/ hands # {} \/ inResults # {}
  BY DEF DataInv, KeptInv
<1> HIDE DEF inList, hands, inResults
<1>9. CASE inList # {}
  <2> PICK i : i \in inList
    BY <1>9
  <2>1. Places(k) = {<<"list", i>>}
    BY <1>1, <1>3, <1>6, <1>9
  <2> QED
    BY <2>1
<1>10. CASE hands # {}
  <2>1. inList = {}
    BY <1>6, <1>10
  <2>2. Places(k) = {<<"hand", t>>}
    BY <1>1, <1>5, <1>7, <1>10, <2>1
  <2> QED
    BY <2>2
<1>11. CASE inResults # {} /\ inList = {} /\ hands = {}
  <2> PICK i : i \in inResults
    BY <1>11
  <2>1. Places(k) = {<<"result", i>>}
    BY <1>1, <1>4, <1>11
  <2> QED
    BY <2>1
<1> QED
  BY <1>8, <1>9, <1>10, <1>11

\* The inductive invariant of the pool: what a worker holds, has waiting and
\* has reported, and how often the server executed it.
THEOREM PoolInductive == Spec => []IInv
  BY InitIInv, NextIInv, PTL DEF Spec

\* Every variable of the manager and its workers keeps its type.
THEOREM TypeCorrect == Spec => []TypeOK
<1>1. IInv => TypeOK
  BY DEF IInv
<1> QED
  BY PoolInductive, <1>1, PTL

\* Whatever Close, lost connections and retries do, a statement handed over is
\* in exactly one place until its result is.
THEOREM OneResultAlways == Spec => []OneResult
<1>1. IInv => OneResult
  BY OnePlace DEF IInv
<1> QED
  BY PoolInductive, <1>1, PTL

\* A worker answers the statements it was given in their order, through its
\* loop and through the drain after it.
THEOREM InOrderAlways == Spec => []InOrder
<1>1. IInv => InOrder
  BY DEF IInv, DataInv
<1> QED
  BY PoolInductive, <1>1, PTL

\* Success is reported only of what the server executed, and a statement is
\* executed more than once only where a connection was lost.
THEOREM TruthfulAlways == Spec => []TruthfulResult
<1>1. IInv => TruthfulResult
  BY DEF IInv, CountInv
<1> QED
  BY PoolInductive, <1>1, PTL
=============================================================================
