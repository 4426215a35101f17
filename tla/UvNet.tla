-------------------------------- MODULE UvNet --------------------------------
(***************************************************************************)
(* asUvNetWork, asUvThread and asUvSession (code/net/uv) as a server: each *)
(* network thread owns a libuv loop, a locked task queue and the sessions  *)
(* whose id maps to it.  Every operation is a task posted to the thread of *)
(* its session; the thread swaps the queue out, runs the tasks, and then   *)
(* lets libuv deliver one round of callbacks.                              *)
(*                                                                         *)
(* libuv and the peers are external.  A task names its session by id where *)
(* the code looks it up in m_sessions ("close", "send") and stands for the *)
(* raw pointer where the code captures it ("add", "read", "write").        *)
(***************************************************************************)
EXTENDS Integers, Sequences, FiniteSets, SequencesExt

CONSTANTS ThreadCount,   \* m_threadCount
          SessionCount,  \* m_sessionCount: the most sessions there may be
          MaxIds,        \* bound: session ids allocated
          MaxSends,      \* bound: messages sent
          MaxCloses      \* bound: DoCloseSession calls of the application

ASSUME UvAssumption ==
  /\ ThreadCount \in Nat \ {0}
  /\ SessionCount \in Nat /\ MaxIds \in Nat
  /\ MaxSends \in Nat /\ MaxCloses \in Nat

VARIABLES
  tasks,      \* per thread, m_tasks
  batch,      \* per thread, the tasks swapped out and not yet run
  loop,       \* per thread, where its ThreadFunc stands
  stop,       \* where TryStopNetWork stands
  at,         \* the thread TryStopNetWork has reached
  listener,   \* m_socket
  waiting,    \* libuv holds a connection that uv_accept has not taken
  ids,        \* m_sessionIdAlloc, from 0
  members,    \* the sessions in the threads' m_sessions
  obj,        \* per session, its object: "none", "open", "closing", "freed"
  peer,       \* per session, whether the peer can be reached
  reading,    \* per session, uv_read_start has been called
  pending,    \* per session, m_pending
  sendQueue,  \* per session, m_sendQueue
  sendBuf,    \* per session, m_sendBuf as a sequence of messages
  inFlight,   \* per session, a uv_write has not called back
  written,    \* per session, what the kernel took of that write
  broadcast,  \* DoSendDataAll's progress: <<message, next thread>>
  sends,      \* messages sent so far
  closes,     \* DoCloseSession calls so far
  wire,       \* history: per session, what went to the peer
  accepted,   \* history: per session, the messages handed to WriteData
  added,      \* history: per session, calls of OnAddNewSession
  closed      \* history: per session, calls of OnCloseSession

threadVars == <<tasks, batch, loop>>
stopVars == <<stop, at>>
acceptVars == <<listener, waiting, ids>>
lifeVars == <<members, obj, reading, added, closed>>
sendVars == <<pending, sendQueue, sendBuf, inFlight, written, accepted>>
userVars == <<broadcast, sends, closes>>
vars == <<threadVars, stopVars, acceptVars, lifeVars, peer, sendVars, wire,
          userVars>>

Threads == 0..(ThreadCount - 1)
Ids == 1..MaxIds
Messages == 1..MaxSends
ThreadOf(s) == s % ThreadCount
Of(t) == {s \in Ids : ThreadOf(s) = t}

Event == [op : {"listen", "accept", "add", "read", "close", "send", "sendAll",
                "write", "closeListen"}, s : 0..MaxIds, d : 0..MaxSends]
Ev(op, s, d) == [op |-> op, s |-> s, d |-> d]

\* m_isStoped, and a thread whose loop is deleted.
Stopped(t) == stop # "no" /\ (t < at \/ (t = at /\ stop = "join"))
Gone(t) == loop[t] = "done"

TypeOK ==
  /\ tasks \in [Threads -> Seq(Event)] /\ batch \in [Threads -> Seq(Event)]
  /\ loop \in [Threads -> {"check", "tasks", "io", "drain", "spin", "done",
                           "undefined"}]
  /\ stop \in {"no", "flag", "join", "done"} /\ at \in 0..ThreadCount
  /\ listener \in {"none", "open", "failed", "closed"} /\ waiting \in BOOLEAN
  /\ ids \in 0..MaxIds /\ members \subseteq Ids
  /\ obj \in [Ids -> {"none", "open", "closing", "freed"}]
  /\ peer \in [Ids -> {"up", "gone"}]
  /\ reading \in [Ids -> BOOLEAN] /\ pending \in [Ids -> BOOLEAN]
  /\ inFlight \in [Ids -> BOOLEAN] /\ written \in [Ids -> Nat]
  /\ sendQueue \in [Ids -> Seq(Messages)] /\ sendBuf \in [Ids -> Seq(Messages)]
  /\ wire \in [Ids -> Seq(Messages)] /\ accepted \in [Ids -> Seq(Messages)]
  /\ broadcast \in (0..MaxSends) \X Threads
  /\ sends \in 0..MaxSends /\ closes \in 0..MaxCloses
  /\ added \in [Ids -> Nat] /\ closed \in [Ids -> Nat]

\* TryRunNetWork(false) has started the threads and posted the listening.
Init ==
  /\ tasks = [t \in Threads |-> IF t = 0 THEN <<Ev("listen", 0, 0)>> ELSE <<>>]
  /\ batch = [t \in Threads |-> <<>>]
  /\ loop = [t \in Threads |-> "check"]
  /\ stop = "no" /\ at = 0
  /\ listener = "none" /\ waiting = FALSE /\ ids = 0
  /\ members = {} /\ obj = [s \in Ids |-> "none"]
  /\ peer = [s \in Ids |-> "up"]
  /\ reading = [s \in Ids |-> FALSE] /\ pending = [s \in Ids |-> FALSE]
  /\ inFlight = [s \in Ids |-> FALSE] /\ written = [s \in Ids |-> 0]
  /\ sendQueue = [s \in Ids |-> <<>>] /\ sendBuf = [s \in Ids |-> <<>>]
  /\ wire = [s \in Ids |-> <<>>] /\ accepted = [s \in Ids |-> <<>>]
  /\ broadcast = <<0, 0>> /\ sends = 0 /\ closes = 0
  /\ added = [s \in Ids |-> 0] /\ closed = [s \in Ids |-> 0]

PostEvent(t, e) == tasks' = [tasks EXCEPT ![t] = Append(@, e)]

-----------------------------------------------------------------------------
(* Faults: what an operation below would be with one plausible slip; they  *)
(* show that the properties can fail and are not part of the specification. *)

\* The loop over the threads runs once too often.
DoSendDataAllOffByOne ==
  /\ stop = "no"
  /\ \/ /\ broadcast[1] = 0 /\ sends < MaxSends
        /\ sends' = sends + 1 /\ broadcast' = <<sends + 1, 0>>
        /\ UNCHANGED tasks
     \/ /\ broadcast[1] # 0 /\ broadcast[2] < ThreadCount
        /\ PostEvent(broadcast[2], Ev("sendAll", 0, broadcast[1]))
        /\ broadcast' = [broadcast EXCEPT ![2] = @ + 1]
        /\ UNCHANGED sends
  /\ UNCHANGED <<batch, loop, stopVars, acceptVars, lifeVars, peer, sendVars,
                 wire, closes>>

\* MergeQueue2Buf does not clear the queue.
WriteDataNoClear(t, S, d) ==
  LET idle == {s \in S : ~pending[s]}
  IN  /\ sendQueue' = [s \in Ids |-> IF s \in S THEN Append(sendQueue[s], d)
                                      ELSE sendQueue[s]]
      /\ sendBuf' = [s \in Ids |-> IF s \in idle
                       THEN sendBuf[s] \o Append(sendQueue[s], d) ELSE sendBuf[s]]
      /\ pending' = [s \in Ids |-> pending[s] \/ s \in idle]
      /\ tasks' = [tasks EXCEPT ![t] = @ \o
                     SetToSeq({Ev("write", s, 0) : s \in idle})]
      /\ accepted' = [s \in Ids |-> IF s \in S THEN Append(accepted[s], d)
                                    ELSE accepted[s]]
      /\ UNCHANGED <<inFlight, written>>

\* m_pending is not looked at.
WriteDataAlways(t, S, d) ==
  /\ sendBuf' = [s \in Ids |-> IF s \in S
                   THEN sendBuf[s] \o Append(sendQueue[s], d) ELSE sendBuf[s]]
  /\ sendQueue' = [s \in Ids |-> IF s \in S THEN <<>> ELSE sendQueue[s]]
  /\ pending' = [s \in Ids |-> pending[s] \/ s \in S]
  /\ tasks' = [tasks EXCEPT ![t] = @ \o SetToSeq({Ev("write", s, 0) : s \in S})]
  /\ accepted' = [s \in Ids |-> IF s \in S THEN Append(accepted[s], d)
                                ELSE accepted[s]]
  /\ UNCHANGED <<inFlight, written>>

\* The closed session stays in m_sessions.
HandleCloseSessionKeep(t) ==
  LET s == Head(batch[t]).s
  IN  /\ loop[t] \in {"tasks", "drain"}
      /\ batch[t] # <<>> /\ Head(batch[t]).op = "close"
      /\ batch' = [batch EXCEPT ![t] = Tail(@)]
      /\ IF s \in members
         THEN /\ obj' = [obj EXCEPT ![s] = "closing"]
              /\ reading' = [reading EXCEPT ![s] = FALSE]
              /\ closed' = [closed EXCEPT ![s] = @ + 1]
         ELSE UNCHANGED <<obj, reading, closed>>
      /\ UNCHANGED <<tasks, loop, acceptVars, members, added, sendVars, stopVars,
                     peer, wire, userVars>>

\* StartReceive posts to the listening thread.
HandleAddSessionElsewhere(t) ==
  LET s == Head(batch[t]).s
  IN  /\ loop[t] \in {"tasks", "drain"}
      /\ batch[t] # <<>> /\ Head(batch[t]).op = "add"
      /\ batch' = [batch EXCEPT ![t] = Tail(@)]
      /\ members' = members \cup {s}
      /\ PostEvent(0, Ev("read", s, 0))
      /\ added' = [added EXCEPT ![s] = @ + 1]
      /\ UNCHANGED <<loop, acceptVars, obj, reading, closed, sendVars, stopVars,
                     peer, wire, userVars>>

\* The buffer is not emptied after the write.
OnWriteDataCBKeep(t, s) ==
  /\ loop[t] = "io"
  /\ s \in Of(t) /\ inFlight[s] /\ obj[s] = "open"
  /\ written[s] = Len(sendBuf[s]) \/ peer[s] = "gone"
  /\ inFlight' = [inFlight EXCEPT ![s] = FALSE]
  /\ written' = [written EXCEPT ![s] = 0]
  /\ pending' = [pending EXCEPT ![s] = FALSE]
  /\ UNCHANGED <<batch, stopVars, tasks, loop, acceptVars, lifeVars, peer,
                 sendBuf, sendQueue, accepted, wire, userVars>>

\* m_isStoped is not tested.
SwapTasksForever(t) ==
  /\ loop[t] = "check"
  /\ batch' = [batch EXCEPT ![t] = tasks[t]]
  /\ tasks' = [tasks EXCEPT ![t] = <<>>]
  /\ loop' = [loop EXCEPT ![t] = "tasks"]
  /\ UNCHANGED <<stopVars, acceptVars, lifeVars, peer, sendVars, wire, userVars>>

\* uv_close without the callback that deletes.
EndRunLeak(t) ==
  /\ \/ loop[t] = "io" /\ loop' = [loop EXCEPT ![t] = "check"]
     \/ loop[t] = "spin" /\ loop' = [loop EXCEPT ![t] = "done"]
  /\ UNCHANGED <<tasks, batch, stopVars, acceptVars, lifeVars, peer, sendVars,
                 wire, userVars>>

-----------------------------------------------------------------------------
(* The application, on a thread of its own.  It knows the sessions that    *)
(* OnAddNewSession has named, those that have gone since included.         *)

DoSendData(s) ==
  /\ stop = "no" /\ broadcast[1] = 0
  /\ added[s] > 0
  /\ sends < MaxSends
  /\ sends' = sends + 1
  /\ PostEvent(ThreadOf(s), Ev("send", s, sends + 1))
  /\ UNCHANGED <<batch, loop, stopVars, acceptVars, lifeVars, peer, sendVars,
                 wire, broadcast, closes>>

\* DoSendDataAll posts to one thread after the other.
DoSendDataAll ==
  /\ stop = "no"
  /\ \/ /\ broadcast[1] = 0 /\ sends < MaxSends
        /\ sends' = sends + 1
        /\ broadcast' = <<sends + 1, 0>>
        /\ UNCHANGED tasks
     \/ /\ broadcast[1] # 0
        /\ PostEvent(broadcast[2], Ev("sendAll", 0, broadcast[1]))
        /\ broadcast' = IF broadcast[2] + 1 = ThreadCount THEN <<0, 0>>
                        ELSE <<broadcast[1], broadcast[2] + 1>>
        /\ UNCHANGED sends
  /\ UNCHANGED <<batch, loop, stopVars, acceptVars, lifeVars, peer, sendVars,
                 wire, closes>>

DoCloseSession(s) ==
  /\ stop = "no" /\ broadcast[1] = 0
  /\ added[s] > 0
  /\ closes < MaxCloses
  /\ closes' = closes + 1
  /\ PostEvent(ThreadOf(s), Ev("close", s, 0))
  /\ UNCHANGED <<batch, loop, stopVars, acceptVars, lifeVars, peer, sendVars,
                 wire, broadcast, sends>>

\* TryStopNetWork: the listening socket first, then each thread is told to
\* stop, joined and deleted before the next is told.
TryStopNetWork ==
  /\ stop = "no" /\ broadcast[1] = 0
  /\ stop' = "flag"
  /\ PostEvent(0, Ev("closeListen", 0, 0))
  /\ UNCHANGED <<batch, loop, at, acceptVars, lifeVars, peer, sendVars, wire,
                 userVars>>

StopThread ==
  /\ stop = "flag"
  /\ stop' = "join"
  /\ UNCHANGED <<threadVars, at, acceptVars, lifeVars, peer, sendVars, wire,
                 userVars>>

JoinThread ==
  /\ stop = "join"
  /\ loop[at] = "done"
  /\ at' = at + 1
  /\ stop' = IF at + 1 = ThreadCount THEN "done" ELSE "flag"
  /\ UNCHANGED <<threadVars, acceptVars, lifeVars, peer, sendVars, wire,
                 userVars>>

-----------------------------------------------------------------------------
(* A network thread.                                                       *)

\* The test of m_isStoped and the swap: a task posted between them is in the
\* swap as if it had been posted before the test.
SwapTasks(t) ==
  /\ loop[t] = "check"
  /\ batch' = [batch EXCEPT ![t] = tasks[t]]
  /\ tasks' = [tasks EXCEPT ![t] = <<>>]
  /\ loop' = [loop EXCEPT ![t] = IF Stopped(t) THEN "drain" ELSE "tasks"]
  /\ UNCHANGED <<stopVars, acceptVars, lifeVars, peer, sendVars, wire, userVars>>

RunTask(t, op) ==
  /\ loop[t] \in {"tasks", "drain"}
  /\ batch[t] # <<>>
  /\ Head(batch[t]).op = op
  /\ batch' = [batch EXCEPT ![t] = Tail(@)]
  /\ UNCHANGED <<stopVars, peer, wire, userVars>>
Task(t) == Head(batch[t])

HandleListen(t) ==
  /\ RunTask(t, "listen")
  /\ \E r \in {"open", "failed"} : listener' = r
  /\ UNCHANGED <<tasks, loop, waiting, ids, lifeVars, sendVars>>

CloseListen(t) ==
  /\ RunTask(t, "closeListen")
  /\ listener' = "closed"
  /\ waiting' = FALSE
  /\ UNCHANGED <<tasks, loop, ids, lifeVars, sendVars>>

\* The new session is added by a task of its own; one whose uv_accept fails
\* is closed by its id, under which no map knows it.
HandleAccept(t) ==
  LET s == Task(t).s
  IN  /\ RunTask(t, "accept")
      /\ obj' = [obj EXCEPT ![s] = "open"]
      /\ PostEvent(t, Ev(IF waiting THEN "add" ELSE "close", s, 0))
      /\ waiting' = FALSE
      /\ UNCHANGED <<loop, listener, ids, members, reading, added, closed,
                     sendVars>>

HandleAddSession(t) ==
  LET s == Task(t).s
  IN  /\ RunTask(t, "add")
      /\ members' = members \cup {s}
      /\ PostEvent(t, Ev("read", s, 0))
      /\ added' = [added EXCEPT ![s] = @ + 1]
      /\ UNCHANGED <<loop, acceptVars, obj, reading, closed, sendVars>>

StartReceive(t) ==
  LET s == Task(t).s
  IN  /\ RunTask(t, "read")
      /\ IF obj[s] = "freed"
         THEN loop' = [loop EXCEPT ![t] = "undefined"] /\ UNCHANGED reading
         ELSE /\ reading' = [reading EXCEPT ![s] = (obj[s] = "open")]
              /\ UNCHANGED loop
      /\ UNCHANGED <<tasks, acceptVars, members, obj, added, closed, sendVars>>

HandleCloseSession(t) ==
  LET s == Task(t).s
  IN  /\ RunTask(t, "close")
      /\ \/ /\ s \in members
            /\ obj' = [obj EXCEPT ![s] = "closing"]
            /\ reading' = [reading EXCEPT ![s] = FALSE]
            /\ members' = members \ {s}
            /\ closed' = [closed EXCEPT ![s] = @ + 1]
         \/ /\ s \notin members
            /\ UNCHANGED <<obj, reading, members, closed>>
      /\ UNCHANGED <<tasks, loop, acceptVars, added, sendVars>>

\* WriteData for each session of S: while a write is pending the message only
\* joins the queue; otherwise the queue is merged into m_sendBuf and a task
\* is posted that will write it.  The sessions come in the order of m_sessions,
\* a map by id.
WriteData(t, S, d) ==
  LET idle == {s \in S : ~pending[s]}
  IN  /\ sendQueue' = [s \in Ids |-> IF s \in idle THEN <<>>
                         ELSE IF s \in S THEN Append(sendQueue[s], d)
                         ELSE sendQueue[s]]
      /\ sendBuf' = [s \in Ids |-> IF s \in idle
                       THEN sendBuf[s] \o Append(sendQueue[s], d)
                       ELSE sendBuf[s]]
      /\ pending' = [s \in Ids |-> pending[s] \/ s \in idle]
      /\ \E order \in [1..Cardinality(idle) -> idle] :
           /\ \A i, j \in DOMAIN order : i < j => order[i] < order[j]
           /\ tasks' = [tasks EXCEPT ![t] =
                          @ \o [i \in DOMAIN order |-> Ev("write", order[i], 0)]]
      /\ accepted' = [s \in Ids |-> IF s \in S THEN Append(accepted[s], d)
                                    ELSE accepted[s]]
      /\ UNCHANGED <<inFlight, written>>

HandleSendData(t) ==
  /\ RunTask(t, "send")
  /\ WriteData(t, {Task(t).s} \cap members, Task(t).d)
  /\ UNCHANGED <<loop, acceptVars, lifeVars>>

HandleSendDataAll(t) ==
  /\ RunTask(t, "sendAll")
  /\ WriteData(t, Of(t) \cap members, Task(t).d)
  /\ UNCHANGED <<loop, acceptVars, lifeVars>>

\* The task WriteData posted.  uv_write refuses a handle that is closing, and
\* its result is not looked at.
WriteTask(t) ==
  LET s == Task(t).s
  IN  /\ RunTask(t, "write")
      /\ loop' = IF obj[s] = "freed" THEN [loop EXCEPT ![t] = "undefined"]
                 ELSE loop
      /\ inFlight' = [inFlight EXCEPT ![s] = @ \/ obj[s] = "open"]
      /\ UNCHANGED <<tasks, acceptVars, lifeVars, pending, sendQueue, sendBuf,
                     written, accepted>>

\* After the tasks: uv_run; after those of a stopped thread: uv_close of every
\* session, without OnCloseSession.
BatchEnd(t) ==
  /\ batch[t] = <<>>
  /\ \/ /\ loop[t] = "tasks"
        /\ loop' = [loop EXCEPT ![t] = "io"]
        /\ UNCHANGED <<members, obj, reading>>
     \/ /\ loop[t] = "drain"
        /\ loop' = [loop EXCEPT ![t] = "spin"]
        /\ members' = members \ Of(t)
        /\ obj' = [s \in Ids |-> IF s \in Of(t) \cap members THEN "closing"
                                 ELSE obj[s]]
        /\ reading' = [s \in Ids |-> reading[s] /\ s \notin Of(t)]
  /\ UNCHANGED <<tasks, batch, stopVars, acceptVars, added, closed, peer,
                 sendVars, wire, userVars>>

\* uv_run ends with the close callbacks: a write in flight is cancelled, the
\* session deleted.  A stopped thread runs until nothing is left to close,
\* and deletes its loop.
EndRun(t) ==
  LET S == {s \in Of(t) : obj[s] = "closing"}
      Reset(f, v) == [s \in Ids |-> IF s \in S THEN v ELSE f[s]]
  IN  /\ \/ loop[t] = "io" /\ loop' = [loop EXCEPT ![t] = "check"]
         \/ loop[t] = "spin" /\ loop' = [loop EXCEPT ![t] = "done"]
      /\ obj' = Reset(obj, "freed")
      /\ pending' = Reset(pending, FALSE)
      /\ sendQueue' = Reset(sendQueue, <<>>)
      /\ sendBuf' = Reset(sendBuf, <<>>)
      /\ inFlight' = Reset(inFlight, FALSE)
      /\ written' = Reset(written, 0)
      /\ UNCHANGED <<tasks, batch, stopVars, acceptVars, members, reading, added,
                     closed, peer, wire, accepted, userVars>>

-----------------------------------------------------------------------------
(* The callbacks of one uv_run.                                            *)

Callback(t) ==
  /\ loop[t] = "io"
  /\ UNCHANGED <<batch, stopVars>>

\* as_uv_connect_cb: an id is allocated even if libuv reports an error.
ConnectCB(t) ==
  /\ Callback(t) /\ t = 0
  /\ listener = "open" /\ ~waiting
  /\ ids < MaxIds
  /\ ids' = ids + 1
  /\ \/ /\ waiting' = TRUE
        /\ PostEvent(ThreadOf(ids + 1), Ev("accept", ids + 1, 0))
     \/ UNCHANGED <<waiting, tasks>>
  /\ UNCHANGED <<loop, listener, lifeVars, peer, sendVars, wire, userVars>>

\* as_uv_read_cb with nread < 0: the session asks to be closed.
ReadEnd(t, s) ==
  /\ Callback(t)
  /\ s \in Of(t) /\ reading[s] /\ obj[s] = "open"
  /\ reading' = [reading EXCEPT ![s] = FALSE]
  /\ PostEvent(t, Ev("close", s, 0))
  /\ UNCHANGED <<loop, acceptVars, members, obj, added, closed, peer, sendVars,
                 wire, userVars>>

\* as_uv_read_cb with a message whose handler answers on session to.  The
\* thread of that session may have been stopped and its loop deleted.
ReadReply(t, s, to) ==
  /\ Callback(t)
  /\ s \in Of(t) /\ reading[s] /\ obj[s] = "open"
  /\ added[to] > 0
  /\ sends < MaxSends
  /\ sends' = sends + 1
  /\ IF Gone(ThreadOf(to))
     THEN loop' = [loop EXCEPT ![t] = "undefined"] /\ UNCHANGED tasks
     ELSE PostEvent(ThreadOf(to), Ev("send", to, sends + 1)) /\ UNCHANGED loop
  /\ UNCHANGED <<acceptVars, lifeVars, peer, sendVars, wire, broadcast, closes>>

\* The kernel takes a part of the data: a message stands for what it takes.
Transmit(t, s) ==
  /\ Callback(t)
  /\ s \in Of(t) /\ inFlight[s] /\ obj[s] = "open" /\ peer[s] = "up"
  /\ written[s] < Len(sendBuf[s])
  /\ wire' = [wire EXCEPT ![s] = Append(@, sendBuf[s][written[s] + 1])]
  /\ written' = [written EXCEPT ![s] = @ + 1]
  /\ UNCHANGED <<tasks, loop, acceptVars, lifeVars, peer, pending, sendQueue,
                 sendBuf, inFlight, accepted, userVars>>

\* OnWriteDataCB, after all was written or an error: the buffer is emptied in
\* both cases, and the messages that queued up meanwhile stay where they are.
OnWriteDataCB(t, s) ==
  /\ Callback(t)
  /\ s \in Of(t) /\ inFlight[s] /\ obj[s] = "open"
  /\ written[s] = Len(sendBuf[s]) \/ peer[s] = "gone"
  /\ inFlight' = [inFlight EXCEPT ![s] = FALSE]
  /\ sendBuf' = [sendBuf EXCEPT ![s] = <<>>]
  /\ written' = [written EXCEPT ![s] = 0]
  /\ pending' = [pending EXCEPT ![s] = FALSE]
  /\ UNCHANGED <<tasks, loop, acceptVars, lifeVars, peer, sendQueue, accepted,
                 wire, userVars>>

\* The peer resets the connection.
PeerGone(s) ==
  /\ obj[s] = "open" /\ peer[s] = "up"
  /\ peer' = [peer EXCEPT ![s] = "gone"]
  /\ UNCHANGED <<threadVars, stopVars, acceptVars, lifeVars, sendVars, wire,
                 userVars>>

-----------------------------------------------------------------------------
Handle(t) ==
  \/ HandleListen(t) \/ CloseListen(t) \/ HandleAccept(t)
  \/ HandleAddSession(t) \/ StartReceive(t) \/ HandleCloseSession(t)
  \/ HandleSendData(t) \/ HandleSendDataAll(t) \/ WriteTask(t)

ThreadFunc(t) == SwapTasks(t) \/ Handle(t) \/ BatchEnd(t) \/ EndRun(t)

Next ==
  \/ DoSendDataAll \/ TryStopNetWork \/ StopThread \/ JoinThread
  \/ \E s \in Ids : DoSendData(s) \/ DoCloseSession(s) \/ PeerGone(s)
  \/ \E t \in Threads :
       \/ ThreadFunc(t) \/ ConnectCB(t)
       \/ \E s \in Ids :
            \/ ReadEnd(t, s) \/ Transmit(t, s) \/ OnWriteDataCB(t, s)
            \/ \E to \in Ids : ReadReply(t, s, to)

Spec == Init /\ [][Next]_vars

\* Every thread runs, TryStopNetWork finishes once called, and libuv polls
\* every socket in every round, so that a write to a live peer that is offered
\* to the kernel again and again goes through.
FairSpec ==
  /\ Spec
  /\ WF_vars(StopThread \/ JoinThread)
  /\ \A t \in Threads :
       /\ WF_vars(ThreadFunc(t))
       /\ \A s \in Of(t) : SF_vars(Transmit(t, s)) /\ SF_vars(OnWriteDataCB(t, s))

-----------------------------------------------------------------------------
(* Properties.                                                             *)

\* The part of m_sendBuf that a write has still to put on the wire.
Rest(s) == SubSeq(sendBuf[s], written[s] + 1, Len(sendBuf[s]))

\* What goes to the peer is what WriteData was given, in its order and without
\* a gap; as long as the session lives nothing is lost or duplicated between
\* the queue, the merged buffer and the wire.
StreamIntact ==
  \A s \in Ids :
    /\ IsPrefix(wire[s], accepted[s])
    /\ obj[s] = "open" /\ peer[s] = "up" =>
         wire[s] \o Rest(s) \o sendQueue[s] = accepted[s]

\* The tasks of a thread that are still to run.
Queue(t) == batch[t] \o tasks[t]

\* Where a write of a session stands: in the thread's queue, or with libuv.
Writes(s) ==
  LET q == Queue(ThreadOf(s))
  IN  {i \in DOMAIN q : q[i].op = "write" /\ q[i].s = s}
        \cup (IF inFlight[s] THEN {0} ELSE {})

\* m_req and m_sendBuf serve one write at a time: m_pending is set exactly
\* while a write task is queued or a uv_write has not called back, and never
\* are there two.
OneWriteAtATime ==
  \A s \in Ids : obj[s] = "open" =>
    IF pending[s] THEN \E w \in Writes(s) : Writes(s) = {w} ELSE Writes(s) = {}

\* m_sessions holds exactly the sessions that were announced and not yet told
\* to close, so that OnCloseSession is called at most once for each of them
\* and uv_close never twice.
MapMatches ==
  \A s \in Ids :
    /\ s \in members <=> added[s] > 0 /\ obj[s] = "open"
    /\ closed[s] <= added[s] /\ added[s] <= 1
    /\ closed[s] = 1 => obj[s] \in {"closing", "freed"}

\* Of the tasks that hold the raw pointer only the write task can run after its
\* session was deleted: "add" runs before the session can be closed, and "read"
\* is queued before any close that the application could ask for.
OnlyWriteDangles ==
  \A t \in Threads : loop[t] \notin {"spin", "done"} =>
    \A i \in DOMAIN Queue(t) :
      LET e == Queue(t)[i]
      IN  /\ e.op = "add" => obj[e.s] = "open"
          /\ e.op = "read" => obj[e.s] # "freed"

Undefined == \E t \in Threads : loop[t] = "undefined"

\* A session that was closed is deleted.
CloseCompletes ==
  \A s \in Ids : obj[s] = "closing" ~> obj[s] = "freed" \/ Undefined

\* TryStopNetWork returns.
StopCompletes == stop = "flag" ~> stop = "done" \/ Undefined

\* No more than m_sessionCount sessions are connected.
WithinSessionCount == Cardinality(members) <= SessionCount

\* A message that WriteData queued because a write was in progress is merged
\* and sent.
QueuedIsSent ==
  \A s \in Ids : \A k \in Messages :
    Len(accepted[s]) >= k ~>
      Len(wire[s]) >= k \/ obj[s] # "open" \/ peer[s] = "gone" \/ stop # "no"
        \/ Undefined

-----------------------------------------------------------------------------
(* The stream that queue, buffer and write implement.                      *)

Up == [s \in Ids |-> obj[s] \in {"none", "open"} /\ peer[s] = "up"]
Unsent == [s \in Ids |-> IF Up[s] THEN Rest(s) \o sendQueue[s] ELSE <<>>]

Stream == INSTANCE SendStream
            WITH Session <- Ids, Message <- Messages, waiting <- Unsent, up <- Up

\* The sessions are streams: a step accepts one message at the end of some
\* sessions' queues, puts the oldest message of one on the wire, breaks
\* sessions, or changes nothing that a peer can see.
IsSendStream == Stream!Spec
=============================================================================
