------------------------------- MODULE AsioNet -------------------------------
(***************************************************************************)
(* asAsioNetwork, asAsioThread and asAsioSession (code/net/asio) with one  *)
(* network thread, the default and the only number for which the pool of   *)
(* sessions belongs to one thread.  The thread runs handlers in the order  *)
(* in which they became ready: tasks that were posted, and completions of  *)
(* accepts, reads and writes.                                              *)
(*                                                                         *)
(* A session is memory: a block of the pool.  Completions carry the block, *)
(* not the session, so that a completion may meet a block that was given   *)
(* back (its m_id still readable, its socket gone) or serves another       *)
(* session by then.  asio, the kernel and the peers are external.          *)
(***************************************************************************)
EXTENDS Integers, Sequences, FiniteSets, SequencesExt, MemoryPool

CONSTANTS Limits,        \* the limits a network may be given
          MaxIds,        \* bound: session ids a connection may get
          MaxCalls       \* bound: calls of the application, to send or to close

ASSUME AsioAssumption ==
  Limits \subseteq Nat /\ MaxIds \in Nat \ {0} /\ MaxCalls \in Nat

VARIABLES
  queue,      \* the io_context: handlers that are ready, oldest first
  thread,     \* "run", "undefined" (undefined behaviour was reached)
  limit,      \* m_maxSessionCount
  stop,       \* where TryStopNetwork stands
  connect,    \* where ConnectToServer stands; "no" on a server
  acceptor,   \* m_acceptor: "none", "open", "deleted"
  accepting,  \* the id for which an async_accept is outstanding, or 0
  ids,        \* m_sessionIDAlloc
  members,    \* the sessions in m_sessions
  pool,       \* m_asioSeesionPool
  block,      \* per session, the block its memory is, or 0
  owner,      \* per block, m_id
  pending,    \* per block, m_pending
  sendQueue,  \* per block, m_sendQueue
  socket,     \* per session, its socket: "none", "open", "closed"
  peer,       \* per session, whether the peer can be reached
  reads,      \* per session, async_read_some that are outstanding
  writing,    \* per session, the async_write_some: "no", "begun", "part"
  rest,       \* per session, what the async_write has still to send
  calls,      \* calls so far: the number of a call that sends is its message
  known,      \* the sessions OnAddNewSession has named
  wire        \* history: per session, what went to the peer

stopVars == <<limit, stop, connect>>
acceptVars == <<acceptor, accepting, ids>>
blockVars == <<pool, block, owner>>
ioVars == <<socket, reads, writing, rest>>
userVars == <<calls, known>>
vars == <<queue, thread, stopVars, acceptVars, members, blockVars, pending,
          sendQueue, ioVars, peer, userVars, wire>>

Ids == 1..MaxIds
Messages == 1..MaxCalls
Blocks == 1..(PoolSize + MaxIds * (PoolSize \div 2))

\* A handler: a completion carries its result, the block that was captured,
\* and (only for the properties) the session the operation was begun for.
Handler == [op : {"accept", "add", "received", "written", "close", "send",
                  "sendAll"},
            s : 0..MaxIds + 1, b : {0} \cup Blocks, d : 0..MaxCalls,
            r : {"ok", "error", "aborted"}]
Task(op, s, b, d) == [op |-> op, s |-> s, b |-> b, d |-> d, r |-> "ok"]
Completion(op, s, r) == [op |-> op, s |-> s, b |-> block[s], d |-> 0, r |-> r]

Free(b) == b \in FreeBlocks(pool)

TypeOK ==
  /\ queue \in Seq(Handler) /\ thread \in {"run", "undefined"}
  /\ limit \in Limits /\ stop \in {"no", "cancel", "done"}
  /\ connect \in {"no", "trying", "inserted", "done"}
  /\ acceptor \in {"none", "open", "deleted"}
  /\ accepting \in 0..MaxIds + 1 /\ ids \in 0..MaxIds + 1
  /\ members \subseteq Ids /\ known \subseteq Ids
  /\ pool \in Pool /\ block \in [Ids -> {0} \cup Blocks]
  /\ owner \in [Blocks -> 0..MaxIds] /\ pending \in [Blocks -> BOOLEAN]
  /\ sendQueue \in [Blocks -> Seq(Messages)]
  /\ socket \in [Ids -> {"none", "open", "closed"}]
  /\ peer \in [Ids -> {"up", "gone"}] /\ reads \in [Ids -> Nat]
  /\ writing \in [Ids -> {"no", "begun", "part"}]
  /\ {rest, wire} \subseteq [Ids -> Seq(Messages)]
  /\ calls \in 0..MaxCalls

\* TryRunNetwork as a server, whose first async_accept is outstanding unless
\* listening failed, or as a client, which then connects.
Init ==
  /\ limit \in Limits
  /\ \/ connect = "no" /\ acceptor = "open" /\ accepting \in {0, 1}
     \/ connect = "trying" /\ acceptor = "none" /\ accepting = 0 /\ limit > 0
  /\ ids = IF connect = "trying" THEN 1 ELSE accepting
  /\ queue = <<>> /\ thread = "run" /\ stop = "no"
  /\ members = {} /\ known = {}
  /\ pool = NewPool /\ block = [s \in Ids |-> 0]
  /\ owner = [b \in Blocks |-> 0] /\ pending = [b \in Blocks |-> FALSE]
  /\ sendQueue = [b \in Blocks |-> <<>>]
  /\ socket = [s \in Ids |-> "none"] /\ peer = [s \in Ids |-> "up"]
  /\ reads = [s \in Ids |-> 0] /\ writing = [s \in Ids |-> "no"]
  /\ rest = [s \in Ids |-> <<>>]
  /\ calls = 0 /\ wire = [s \in Ids |-> <<>>]

\* Handlers run until io_context::stop; Run takes the oldest.
Run(op) ==
  /\ thread = "run" /\ stop \in {"no", "cancel"}
  /\ queue # <<>> /\ Head(queue).op = op
  /\ UNCHANGED <<stopVars, peer, calls, wire>>
H == Head(queue)
Then(posted) == queue' = Tail(queue) \o posted

\* asAsioSession::Init in a block that the pool gave.
NewSession(s) ==
  LET b == Allocated(pool)
  IN  /\ pool' = Allocate(pool)
      /\ block' = [block EXCEPT ![s] = b]
      /\ owner' = [owner EXCEPT ![b] = s]
      /\ pending' = [pending EXCEPT ![b] = FALSE]
      /\ sendQueue' = [sendQueue EXCEPT ![b] = <<>>]
      /\ socket' = [socket EXCEPT ![s] = "open"]

-----------------------------------------------------------------------------
(* Faults: what an operation below would be with one plausible slip; they  *)
(* show that the properties can fail and are not part of the specification. *)

\* The session is entered in m_sessions at once, not by a posted task.
HandleAcceptInline ==
  LET s == H.s
  IN  /\ Run("accept") /\ H.r = "ok" /\ acceptor = "open"
      /\ Cardinality(members) <= limit
      /\ NewSession(s)
      /\ members' = members \cup {s} /\ known' = known \cup {s}
      /\ reads' = [reads EXCEPT ![s] = 1]
      /\ Then(<<>>)
      /\ accepting' = ids + 1 /\ ids' = ids + 1
      /\ UNCHANGED <<thread, acceptor, writing, rest>>

\* GetSessionCount is not asked.
HandleAcceptUnlimited ==
  /\ Run("accept") /\ H.r = "ok" /\ acceptor = "open"
  /\ NewSession(H.s)
  /\ Then(<<Task("add", H.s, Allocated(pool), 0)>>)
  /\ accepting' = ids + 1 /\ ids' = ids + 1
  /\ UNCHANGED <<thread, acceptor, members, known, reads, writing, rest>>

\* The block of a closed session goes back to the pool, the entry stays.
CloseSessionKeep(s) ==
  IF s \in members
  THEN /\ socket' = [socket EXCEPT ![s] = "closed"]
       /\ Then([i \in 1..reads[s] |-> Completion("received", s, "aborted")])
       /\ reads' = [reads EXCEPT ![s] = 0]
       /\ writing' = [writing EXCEPT ![s] = "no"]
       /\ pool' = Destroy(pool, block[s])
       /\ UNCHANGED members
  ELSE Then(<<>>) /\ UNCHANGED <<socket, reads, writing, members, pool>>

\* MergeQueue2Buf clears the queue before it copies.
SendSessionQueueCleared(b) ==
  LET s == owner[b]
  IN  /\ rest' = [rest EXCEPT ![s] = <<>>]
      /\ writing' = [writing EXCEPT ![s] = "begun"]
      /\ pending' = [pending EXCEPT ![b] = TRUE]
      /\ sendQueue' = [sendQueue EXCEPT ![b] = <<>>]

\* OnReceiveData begins the next read, and so does its caller.
StartReceiveTwice(s) == reads' = [reads EXCEPT ![s] = @ + 2]

\* The end of a write does not look at the queue.
WrittenLeavesQueue(b) ==
  /\ pending' = [pending EXCEPT ![b] = FALSE]
  /\ UNCHANGED <<rest, writing, sendQueue>>

-----------------------------------------------------------------------------
(* The application's threads.                                              *)

\* Nothing is said of what follows undefined behaviour.
Post(task) ==
  /\ thread = "run"
  /\ calls < MaxCalls /\ calls' = calls + 1
  /\ queue' = Append(queue, task)
  /\ UNCHANGED <<thread, stopVars, acceptVars, members, blockVars, pending,
                 sendQueue, ioVars, peer, known, wire>>

DoSendData(s) ==
  /\ stop = "no" /\ s \in known
  /\ Post(Task("send", s, 0, calls + 1))

DoSendDataAll ==
  /\ stop = "no"
  /\ Post(Task("sendAll", 0, 0, calls + 1))

DoCloseSession(s) ==
  /\ stop = "no" /\ s \in known
  /\ Post(Task("close", s, 0, 0))

\* TryStopNetwork: the acceptor is cancelled, closed and deleted while the
\* network thread runs.
TryStopNetwork ==
  /\ thread = "run" /\ stop = "no" /\ stop' = "cancel"
  /\ acceptor' = IF acceptor = "open" THEN "deleted" ELSE acceptor
  /\ queue' = IF accepting = 0 THEN queue
              ELSE Append(queue, [Task("accept", accepting, 0, 0)
                                    EXCEPT !.r = "aborted"])
  /\ accepting' = 0
  /\ UNCHANGED <<thread, limit, connect, ids, members, blockVars, pending,
                 sendQueue, ioVars, peer, userVars, wire>>

\* Then the thread is stopped between two handlers, joined, and its sessions
\* and handlers are dropped with it.
ClearSession ==
  /\ thread = "run" /\ stop = "cancel" /\ stop' = "done"
  /\ queue' = <<>> /\ members' = {}
  /\ socket' = [s \in Ids |-> IF socket[s] = "open" THEN "closed" ELSE socket[s]]
  /\ reads' = [s \in Ids |-> 0] /\ writing' = [s \in Ids |-> "no"]
  /\ pool' = [pool EXCEPT !.free = <<>>]
  /\ UNCHANGED <<thread, limit, connect, acceptVars, block, owner, pending, sendQueue,
                 rest, peer, userVars, wire>>

\* ConnectToServer repeats a blocking connect until it succeeds or the network
\* is stopped.  It enters the session and starts to receive before it calls
\* OnAddNewSession.  A thread that was deleted meanwhile is used all the same.
Connected ==
  /\ thread = "run" /\ connect = "trying" /\ connect' = "inserted"
  /\ IF stop = "done"
     THEN /\ thread' = "undefined"
          /\ UNCHANGED <<members, blockVars, pending, sendQueue, socket, reads>>
     ELSE /\ NewSession(1)
          /\ members' = members \cup {1}
          /\ reads' = [reads EXCEPT ![1] = 1]
          /\ UNCHANGED thread
  /\ UNCHANGED <<queue, limit, stop, acceptVars, writing, rest, peer, userVars, wire>>

Announce ==
  /\ thread = "run" /\ connect = "inserted" /\ connect' = "done"
  /\ thread' = IF stop = "done" THEN "undefined" ELSE thread
  /\ known' = known \cup {1}
  /\ UNCHANGED <<queue, limit, stop, acceptVars, members, blockVars, pending, sendQueue,
                 ioVars, peer, calls, wire>>

GiveUp ==
  /\ thread = "run" /\ connect = "trying" /\ stop # "no" /\ connect' = "done"
  /\ UNCHANGED <<queue, thread, limit, stop, acceptVars, members, blockVars, pending,
                 sendQueue, ioVars, peer, userVars, wire>>

ConnectToServer == Connected \/ Announce \/ GiveUp

-----------------------------------------------------------------------------
(* The handlers.                                                           *)

\* The next accept is begun at once, on an acceptor that may be deleted.
DoAccept ==
  IF acceptor = "open"
  THEN accepting' = ids + 1 /\ ids' = ids + 1 /\ UNCHANGED thread
  ELSE thread' = "undefined" /\ UNCHANGED <<accepting, ids>>

\* A connection is refused only when there are already more than allowed.
\* The message logged for an error lacks an argument of its format.
HandleAccept ==
  /\ Run("accept")
  /\ \/ /\ H.r = "aborted"
        /\ Then(<<>>)
        /\ UNCHANGED <<thread, accepting, ids, blockVars, pending, sendQueue, socket>>
     \/ /\ H.r = "error"
        /\ Then(<<>>)
        /\ DoAccept \/ (thread' = "undefined" /\ UNCHANGED <<accepting, ids>>)
        /\ UNCHANGED <<blockVars, pending, sendQueue, socket>>
     \/ /\ H.r = "ok" /\ Cardinality(members) > limit
        /\ socket' = [socket EXCEPT ![H.s] = "closed"]
        /\ Then(<<>>)
        /\ DoAccept
        /\ UNCHANGED <<blockVars, pending, sendQueue>>
     \/ /\ H.r = "ok" /\ Cardinality(members) <= limit
        /\ NewSession(H.s)
        /\ Then(<<Task("add", H.s, Allocated(pool), 0)>>)
        /\ DoAccept
  /\ UNCHANGED <<acceptor, members, known, reads, writing, rest>>

StartReceive(s) == reads' = [reads EXCEPT ![s] = @ + 1]

HandleAddSession ==
  LET s == owner[H.b]
  IN  /\ Run("add")
      /\ members' = members \cup {s} /\ known' = known \cup {s}
      /\ StartReceive(s)
      /\ Then(<<>>)
      /\ UNCHANGED <<thread, acceptVars, blockVars, pending, sendQueue, socket,
                     writing, rest>>

\* Closing the socket makes what is outstanding on it complete as aborted; the
\* block is free before these completions run.
CloseSession(s) ==
  IF s \in members
  THEN /\ socket' = [socket EXCEPT ![s] = "closed"]
       /\ Then([i \in 1..reads[s] |-> Completion("received", s, "aborted")] \o
               IF writing[s] = "no" THEN <<>>
               ELSE <<Completion("written", s, "aborted")>>)
       /\ reads' = [reads EXCEPT ![s] = 0]
       /\ writing' = [writing EXCEPT ![s] = "no"]
       /\ members' = members \ {s}
       /\ pool' = Destroy(pool, block[s])
  ELSE Then(<<>>) /\ UNCHANGED <<socket, reads, writing, members, pool>>

HandleCloseSession ==
  /\ Run("close")
  /\ CloseSession(H.s)
  /\ UNCHANGED <<thread, acceptVars, block, owner, pending, sendQueue, rest,
                 known>>

\* An error closes the session whose id the block holds now.  Data for a block
\* that is free is undefined; for a block in use it starts another read.
HandleReceived ==
  /\ Run("received")
  /\ \/ /\ H.r # "ok"
        /\ CloseSession(owner[H.b])
        /\ UNCHANGED thread
     \/ /\ H.r = "ok" /\ Free(H.b)
        /\ thread' = "undefined"
        /\ Then(<<>>)
        /\ UNCHANGED <<socket, reads, writing, members, pool>>
     \/ /\ H.r = "ok" /\ ~Free(H.b)
        /\ StartReceive(owner[H.b])
        /\ Then(<<>>)
        /\ UNCHANGED <<thread, socket, writing, members, pool>>
  /\ UNCHANGED <<acceptVars, block, owner, pending, sendQueue, rest, known>>

\* WriteData for each session of S: a message joins the queue while a write is
\* pending; otherwise it is written, behind what the queue holds.
WriteData(S, d) ==
  LET busy == {s \in S : pending[block[s]]}
      Of(T) == {block[s] : s \in T}
  IN  /\ sendQueue' = [b \in Blocks |->
                         IF b \in Of(busy) THEN Append(sendQueue[b], d)
                         ELSE IF b \in Of(S) THEN <<>> ELSE sendQueue[b]]
      /\ pending' = [b \in Blocks |-> pending[b] \/ b \in Of(S)]
      /\ rest' = [s \in Ids |-> IF s \in S \ busy
                    THEN Append(sendQueue[block[s]], d) ELSE rest[s]]
      /\ writing' = [s \in Ids |-> IF s \in S \ busy THEN "begun" ELSE writing[s]]

HandleSend(op, S) ==
  /\ Run(op)
  /\ WriteData(S, H.d)
  /\ Then(<<>>)
  /\ UNCHANGED <<thread, acceptVars, members, blockVars, socket, reads, known>>

HandleSendData == HandleSend("send", {H.s} \cap members)
HandleSendDataAll == HandleSend("sendAll", members)

\* The queue of the session in block b is merged and written.
SendSessionQueue(b) ==
  LET s == owner[b]
  IN  /\ rest' = [rest EXCEPT ![s] = sendQueue[b]]
      /\ writing' = [writing EXCEPT ![s] = "begun"]
      /\ pending' = [pending EXCEPT ![b] = TRUE]
      /\ sendQueue' = [sendQueue EXCEPT ![b] = <<>>]

Written(b) ==
  IF ~Free(b) /\ sendQueue[b] # <<>> THEN SendSessionQueue(b)
  ELSE /\ pending' = [pending EXCEPT ![b] = FALSE]
       /\ UNCHANGED <<rest, writing, sendQueue>>

\* async_write goes on while something is left, with a reference to the socket
\* that may be deleted; then HandleWrited.
HandleWrited ==
  /\ Run("written")
  /\ \/ /\ H.r # "ok"
        /\ CloseSession(owner[H.b])
        /\ UNCHANGED <<thread, pending, sendQueue, rest>>
     \/ /\ H.r = "ok" /\ rest[H.s] # <<>>
        /\ Then(<<>>)
        /\ thread' = IF socket[H.s] = "open" THEN thread ELSE "undefined"
        /\ writing' = [writing EXCEPT ![H.s] = "begun"]
        /\ UNCHANGED <<pending, sendQueue, rest, socket, reads, members, pool>>
     \/ /\ H.r = "ok" /\ rest[H.s] = <<>>
        /\ Then(<<>>)
        /\ Written(H.b)
        /\ UNCHANGED <<thread, socket, reads, members, pool>>
  /\ UNCHANGED <<acceptVars, block, owner, known>>

-----------------------------------------------------------------------------
(* asio, the kernel and the peers: what is outstanding completes, and the  *)
(* completion joins the handlers.                                          *)

Reactor ==
  /\ thread = "run" /\ stop \in {"no", "cancel"}
  /\ UNCHANGED <<thread, stopVars, acceptor, ids, members, blockVars, pending,
                 sendQueue, socket, userVars>>

AcceptDone ==
  /\ Reactor
  /\ accepting \in Ids
  /\ \E r \in {"ok", "error"} :
       queue' = Append(queue, [Task("accept", accepting, 0, 0) EXCEPT !.r = r])
  /\ accepting' = 0
  /\ UNCHANGED <<reads, writing, rest, peer, wire>>

ReadDone(s) ==
  /\ Reactor
  /\ socket[s] = "open" /\ reads[s] > 0
  /\ reads' = [reads EXCEPT ![s] = @ - 1]
  /\ queue' = Append(queue, Completion("received", s,
                             IF peer[s] = "up" THEN "ok" ELSE "error"))
  /\ UNCHANGED <<accepting, writing, rest, peer, wire>>

\* The kernel takes a part of the data: a message stands for what it takes.
Transmit(s) ==
  /\ Reactor
  /\ socket[s] = "open" /\ peer[s] = "up"
  /\ writing[s] # "no" /\ rest[s] # <<>>
  /\ wire' = [wire EXCEPT ![s] = Append(@, Head(rest[s]))]
  /\ rest' = [rest EXCEPT ![s] = Tail(@)]
  /\ writing' = [writing EXCEPT ![s] = "part"]
  /\ UNCHANGED <<queue, accepting, reads, peer>>

WriteDone(s) ==
  /\ Reactor
  /\ socket[s] = "open"
  /\ \/ /\ writing[s] = "part"
        /\ queue' = Append(queue, Completion("written", s, "ok"))
     \/ /\ writing[s] = "begun" /\ peer[s] = "gone"
        /\ queue' = Append(queue, Completion("written", s, "error"))
  /\ writing' = [writing EXCEPT ![s] = "no"]
  /\ UNCHANGED <<accepting, reads, rest, peer, wire>>

PeerGone(s) ==
  /\ Reactor
  /\ socket[s] = "open" /\ peer[s] = "up"
  /\ peer' = [peer EXCEPT ![s] = "gone"]
  /\ UNCHANGED <<queue, accepting, reads, writing, rest, wire>>

-----------------------------------------------------------------------------
ThreadFunc ==
  \/ HandleAccept \/ HandleAddSession \/ HandleCloseSession \/ HandleReceived
  \/ HandleSendData \/ HandleSendDataAll \/ HandleWrited

Next ==
  \/ ThreadFunc
  \/ DoSendDataAll \/ TryStopNetwork \/ ClearSession
  \/ ConnectToServer \/ AcceptDone
  \/ \E s \in Ids : DoSendData(s) \/ DoCloseSession(s) \/ ReadDone(s)
                      \/ Transmit(s) \/ WriteDone(s) \/ PeerGone(s)

Spec == Init /\ [][Next]_vars

\* The thread runs, the kernel takes what a living peer can receive, and
\* completes what is outstanding.
FairSpec ==
  /\ Spec
  /\ WF_vars(ThreadFunc)
  /\ \A s \in Ids : WF_vars(Transmit(s) \/ WriteDone(s))

-----------------------------------------------------------------------------
(* Properties.                                                             *)

Undefined == thread = "undefined"

\* The sessions that exist: entered in m_sessions or about to be.
Living == {s \in Ids : socket[s] = "open"}

\* asMemoryPool and the sessions agree on every block: the free list names
\* none twice and none that a session uses, and no two sessions share one,
\* although blocks are given back while completions for them are under way.
\* TypeOK is part of it, so that a run checks both at once.
PoolSound ==
  /\ TypeOK
  /\ stop # "done" /\ ~Undefined =>
       /\ Cardinality(FreeBlocks(pool)) = Len(pool.free)
       /\ \A s \in Living : ~Free(block[s]) /\ owner[block[s]] = s

\* A completion that was aborted because its session was closed closes no
\* other session: when it runs, a new session in the same block is not in
\* m_sessions yet, because its HandleAddSession was posted later.
StaleCloseIsHarmless ==
  ~Undefined => \A i \in DOMAIN queue :
    queue[i].r = "aborted" /\ queue[i].b # 0 /\ owner[queue[i].b] # queue[i].s
      => owner[queue[i].b] \notin members

\* HandleAccept compares with > where the limit is reached, and counts only
\* the sessions entered: still there is never more than one too many, since the
\* next accept is begun after the task that enters this session.
SessionBound == stop # "done" => Cardinality(Living) <= limit + 1

\* What waits in the write and in the queue of a session that is up.
Up == [s \in Ids |-> socket[s] # "closed" /\ peer[s] = "up"]
Unsent == [s \in Ids |-> IF socket[s] = "open" /\ Up[s]
                         THEN rest[s] \o sendQueue[block[s]] ELSE <<>>]

\* What WriteData was given reaches the peers: again and again there is a
\* moment at which no session that is up has anything unsent.  Unlike in net/uv
\* the end of a write sends what was queued meanwhile.
QueuedIsSent ==
  []<>(stop # "no" \/ Undefined \/ \A s \in Ids : Unsent[s] = <<>>)

-----------------------------------------------------------------------------
(* The stream that queue and write implement.                              *)

Stream == INSTANCE SendStream
            WITH Session <- Ids, Message <- Messages, waiting <- Unsent, up <- Up

\* The sessions are streams, as those of net/uv are.
IsSendStream == Stream!Spec
=============================================================================
