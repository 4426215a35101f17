------------------------------ MODULE MsgThread ------------------------------
(***************************************************************************)
(* asMsgThread and its base asBaseThread (code/thread): one worker thread  *)
(* that owns two message lists.  Producers append to the list named by     *)
(* m_offset under m_mutex and notify after the unlock; the worker takes    *)
(* the whole list by flipping m_offset, iterates it without the lock and   *)
(* clears it.  The owner starts the thread, stops it with a STOP message   *)
(* and joins it, and destroys the object.                                  *)
(*                                                                         *)
(* Every critical section of m_mutex is one action; every access made      *)
(* without the lock is an action of its own.                               *)
(***************************************************************************)
EXTENDS Naturals, Sequences, FiniteSets

CONSTANTS Producers,   \* the threads that call PostMsg
          Owner,       \* the thread that starts, stops and deletes the object
          Kinds,       \* the message ids a producer posts
          MaxPosts,    \* bound: messages per producer
          MaxStops     \* bound: ExitThread calls on a live object

ASSUME ProducersAssumption == Owner \notin Producers
ASSUME KindsAssumption == Kinds \subseteq {"work", "STOP", "CLEAR"}
ASSUME BoundsAssumption == MaxPosts \in Nat /\ MaxStops \in Nat

VARIABLES
  msgs,       \* m_msgs[2]
  offset,     \* m_offset: the list PostMsg appends to
  exit,       \* asBaseThread::m_exit
  thread,     \* asBaseThread::m_thread is not null
  worker,     \* where ThreadFunc stands
  tmpList,    \* the list the worker iterates
  itr,        \* its iterator, as a position in that list
  producer,   \* where each producer stands in PostMsg
  posts,      \* messages each producer has pushed
  owner,      \* where the owner stands
  alive,      \* the derived class's destructor has not begun
  stops,      \* STOP messages the owner has pushed
  posted,     \* history: every message pushed, in the order of the lock
  handled,    \* history: every message dispatched, in order
  orphaned,   \* history: HandleMessage ran after the derived part was destroyed
  joined      \* history: ExitThread has joined the worker of a live object

lists == <<msgs, offset>>
workerVars == <<worker, tmpList, itr, handled, orphaned>>
ownerVars == <<owner, alive, thread, stops, joined>>
producerVars == <<producer, posts>>
vars == <<lists, exit, workerVars, ownerVars, producerVars, posted>>

Lists == {0, 1}
Senders == Producers \cup {Owner}
Msg == [kind : {"work", "STOP", "CLEAR"}, from : Senders, n : 0..MaxPosts]

\* "idle" is outside every call; Undefined is what the program does after it
\* advanced an iterator whose node CLEAR freed: nothing is promised of it.
WorkerAt == {"none", "check", "lock", "wait", "batch", "done", "undefined"}
OwnerAt == {"idle", "notify", "join", "dtor", "baseJoin", "dead"}

TypeOK ==
  /\ msgs \in [Lists -> Seq(Msg)]
  /\ offset \in Lists
  /\ exit \in BOOLEAN
  /\ thread \in BOOLEAN
  /\ worker \in WorkerAt
  /\ tmpList \in Lists
  /\ itr \in Nat \ {0}
  /\ producer \in [Producers -> {"idle", "notify"}]
  /\ posts \in [Producers -> 0..MaxPosts]
  /\ owner \in OwnerAt
  /\ alive \in BOOLEAN
  /\ stops \in Nat
  /\ posted \in Seq(Msg)
  /\ handled \in Seq(Msg)
  /\ orphaned \in BOOLEAN
  /\ joined \in BOOLEAN

Init ==
  /\ msgs = [l \in Lists |-> <<>>]
  /\ offset = 0
  /\ exit = FALSE
  /\ thread = FALSE
  /\ worker = "none"
  /\ tmpList = 0
  /\ itr = 1
  /\ producer = [p \in Producers |-> "idle"]
  /\ posts = [p \in Producers |-> 0]
  /\ owner = "idle"
  /\ alive = TRUE
  /\ stops = 0
  /\ posted = <<>>
  /\ handled = <<>>
  /\ orphaned = FALSE
  /\ joined = FALSE

-----------------------------------------------------------------------------
(* Faults: what an operation below would be with one plausible slip.  Each *)
(* shows that a property is not satisfied whatever the code does; none of  *)
(* them is part of the specification.                                      *)

\* The flip without % 2.
WorkerTakeUnwrapped ==
  /\ worker = "lock" /\ msgs[offset] # <<>>
  /\ tmpList' = offset /\ offset' = offset + 1 /\ itr' = 1 /\ worker' = "batch"
  /\ UNCHANGED <<msgs, exit, handled, orphaned, ownerVars, producerVars, posted>>

\* The batch is taken and m_offset is not flipped.
WorkerTakeInPlace ==
  /\ worker = "lock" /\ msgs[offset] # <<>>
  /\ tmpList' = offset /\ itr' = 1 /\ worker' = "batch"
  /\ UNCHANGED <<lists, exit, handled, orphaned, ownerVars, producerVars, posted>>

\* Both lists are cleared after the batch, as CLEAR does.
WorkerBatchEndBoth ==
  /\ worker = "batch" /\ itr > Len(msgs[tmpList])
  /\ msgs' = [l \in Lists |-> <<>>] /\ itr' = 1 /\ worker' = "check"
  /\ UNCHANGED <<offset, exit, tmpList, handled, orphaned, ownerVars,
                 producerVars, posted>>

\* The list is tested before the lock is taken.
WorkerWaitStale ==
  /\ worker = "lock"
  /\ worker' = "wait"
  /\ UNCHANGED <<lists, exit, tmpList, itr, handled, orphaned, ownerVars,
                 producerVars, posted>>

\* ExitThread sets m_exit itself, as asMySQLThread::Close does.
PushStopFlag ==
  /\ ~exit /\ exit' = TRUE /\ owner' = "notify"
  /\ UNCHANGED <<lists, posted, stops, workerVars, alive, thread, joined,
                 producerVars>>

\* The thread is detached, not joined.
ExitJoinDetached ==
  /\ owner = "join"
  /\ owner' = IF alive THEN "idle" ELSE "baseJoin"
  /\ joined' = (joined \/ (alive /\ thread))
  /\ UNCHANGED <<lists, exit, workerVars, alive, thread, stops, producerVars,
                 posted>>

\* StartThread resets m_exit.
StartThreadFresh ==
  /\ owner = "idle" /\ ~thread
  /\ thread' = TRUE /\ worker' = "check" /\ exit' = FALSE
  /\ UNCHANGED <<lists, tmpList, itr, handled, orphaned,
                 owner, alive, stops, joined, producerVars, posted>>

\* STOP leaves the batch at once.
WorkerStopBreak ==
  /\ worker = "batch" /\ itr <= Len(msgs[tmpList])
  /\ msgs[tmpList][itr].kind = "STOP"
  /\ handled' = Append(handled, msgs[tmpList][itr])
  /\ exit' = TRUE /\ worker' = "done"
  /\ UNCHANGED <<lists, itr, tmpList, orphaned, ownerVars, producerVars, posted>>

\* STOP does not reach Exit().
WorkerStopUnset ==
  /\ worker = "batch" /\ itr <= Len(msgs[tmpList])
  /\ msgs[tmpList][itr].kind = "STOP"
  /\ handled' = Append(handled, msgs[tmpList][itr])
  /\ itr' = itr + 1
  /\ UNCHANGED <<lists, exit, worker, tmpList, orphaned, ownerVars,
                 producerVars, posted>>

\* The notification is forgotten.
NotifyNobody ==
  UNCHANGED <<lists, exit, worker, tmpList, itr, handled, orphaned, posted>>

-----------------------------------------------------------------------------
(* PostMsg: push_back under the lock, then notify_all without it.          *)

Push(m) ==
  /\ msgs' = [msgs EXCEPT ![offset] = Append(@, m)]
  /\ posted' = Append(posted, m)
  /\ UNCHANGED <<offset, exit>>

\* notify_all: a waiting worker reacquires the mutex, leaves the scope and
\* tests m_exit again; without a waiter the notification is lost.
NotifyAll ==
  /\ worker' = IF worker = "wait" THEN "check" ELSE worker
  /\ UNCHANGED <<lists, exit, tmpList, itr, handled, orphaned, posted>>

\* A caller may use the object until its destruction begins.
PostMsg(p) ==
  /\ producer[p] = "idle"
  /\ alive
  /\ posts[p] < MaxPosts
  /\ \E k \in Kinds : Push([kind |-> k, from |-> p, n |-> posts[p] + 1])
  /\ posts' = [posts EXCEPT ![p] = @ + 1]
  /\ producer' = [producer EXCEPT ![p] = "notify"]
  /\ UNCHANGED <<workerVars, ownerVars>>

PostMsgNotify(p) ==
  /\ producer[p] = "notify"
  /\ NotifyAll
  /\ producer' = [producer EXCEPT ![p] = "idle"]
  /\ UNCHANGED <<posts, ownerVars>>

-----------------------------------------------------------------------------
(* The owner.                                                              *)

\* A second StartThread after a stop finds m_exit still set.
StartThread ==
  /\ owner = "idle"
  /\ ~thread
  /\ thread' = TRUE
  /\ worker' = "check"
  /\ UNCHANGED <<lists, exit, tmpList, itr, handled, orphaned,
                 owner, alive, stops, joined, producerVars, posted>>

\* ExitThread does nothing once m_exit is set: it does not join either.
PushStop ==
  /\ ~exit
  /\ Push([kind |-> "STOP", from |-> Owner, n |-> 0])
  /\ stops' = stops + 1
  /\ owner' = "notify"
  /\ UNCHANGED <<workerVars, alive, thread, joined, producerVars>>

ExitThread ==
  /\ owner = "idle"
  /\ stops < MaxStops
  /\ PushStop

ExitNotify ==
  /\ owner = "notify"
  /\ NotifyAll
  /\ owner' = "join"
  /\ UNCHANGED <<alive, thread, stops, joined, producerVars>>

\* StopThread, called by ExitThread after its sleep and by ~asBaseThread.
StopThread ==
  /\ thread => worker = "done"
  /\ thread' = FALSE
  /\ worker' = IF thread THEN "none" ELSE worker
  /\ UNCHANGED <<lists, exit, tmpList, itr, handled, orphaned,
                 alive, stops, producerVars, posted>>

ExitJoin ==
  /\ owner = "join"
  /\ StopThread
  /\ owner' = IF alive THEN "idle" ELSE "baseJoin"
  /\ joined' = (joined \/ (alive /\ thread))

\* delete: the derived destructor first.  The caller's duty, that no producer
\* is inside PostMsg when the object goes away, is the guard.
Destroy ==
  /\ owner = "idle"
  /\ \A p \in Producers : producer[p] = "idle"
  /\ owner' = "dtor"
  /\ alive' = FALSE
  /\ UNCHANGED <<lists, exit, workerVars, thread, stops, joined,
                 producerVars, posted>>

\* ~asMsgThread: ExitThread.
DtorExit ==
  /\ owner = "dtor"
  /\ \/ PushStop
     \/ /\ exit
        /\ owner' = "baseJoin"
        /\ UNCHANGED <<lists, exit, workerVars, alive, thread, stops, joined,
                       producerVars, posted>>

\* ~asBaseThread: StopThread.
BaseJoin ==
  /\ owner = "baseJoin"
  /\ StopThread
  /\ owner' = "dead"
  /\ UNCHANGED joined

-----------------------------------------------------------------------------
(* ThreadFunc.                                                             *)

WorkerCheck ==
  /\ worker = "check"
  /\ worker' = IF exit THEN "done" ELSE "lock"
  /\ UNCHANGED <<lists, exit, tmpList, itr, handled, orphaned, ownerVars,
                 producerVars, posted>>

WorkerWait ==
  /\ worker = "lock"
  /\ msgs[offset] = <<>>
  /\ worker' = "wait"
  /\ UNCHANGED <<lists, exit, tmpList, itr, handled, orphaned, ownerVars,
                 producerVars, posted>>

WorkerTake ==
  /\ worker = "lock"
  /\ msgs[offset] # <<>>
  /\ tmpList' = offset
  /\ offset' = (offset + 1) % 2
  /\ itr' = 1
  /\ worker' = "batch"
  /\ UNCHANGED <<msgs, exit, handled, orphaned, ownerVars, producerVars,
                 posted>>

\* A condition variable may wake without a notification.
WorkerSpurious ==
  /\ worker = "wait"
  /\ worker' = "check"
  /\ UNCHANGED <<lists, exit, tmpList, itr, handled, orphaned, ownerVars,
                 producerVars, posted>>

AtMessage(k) ==
  /\ worker = "batch"
  /\ itr <= Len(msgs[tmpList])
  /\ msgs[tmpList][itr].kind = k
  /\ handled' = Append(handled, msgs[tmpList][itr])

\* STOP only sets m_exit: the rest of the batch is still dispatched.
WorkerStop ==
  /\ AtMessage("STOP")
  /\ exit' = TRUE
  /\ itr' = itr + 1
  /\ UNCHANGED <<lists, worker, tmpList, orphaned, ownerVars, producerVars,
                 posted>>

\* After the derived destructor the call reaches asMsgThread::HandleMessage,
\* which drops the message.
WorkerHandle ==
  /\ AtMessage("work")
  /\ orphaned' = (orphaned \/ ~alive)
  /\ itr' = itr + 1
  /\ UNCHANGED <<lists, exit, worker, tmpList, ownerVars, producerVars,
                 posted>>

\* CLEAR empties both lists, the one being iterated too: ++itr then reads a
\* freed node.
WorkerClear ==
  /\ AtMessage("CLEAR")
  /\ msgs' = [l \in Lists |-> <<>>]
  /\ worker' = "undefined"
  /\ UNCHANGED <<offset, exit, tmpList, itr, orphaned, ownerVars,
                 producerVars, posted>>

WorkerBatchEnd ==
  /\ worker = "batch"
  /\ itr > Len(msgs[tmpList])
  /\ msgs' = [msgs EXCEPT ![tmpList] = <<>>]
  /\ itr' = 1
  /\ worker' = "check"
  /\ UNCHANGED <<offset, exit, tmpList, handled, orphaned, ownerVars,
                 producerVars, posted>>

-----------------------------------------------------------------------------
ThreadFunc ==
  \/ WorkerCheck \/ WorkerWait \/ WorkerTake
  \/ WorkerStop \/ WorkerHandle \/ WorkerClear \/ WorkerBatchEnd

OwnerFinish == ExitNotify \/ ExitJoin \/ DtorExit \/ BaseJoin

\* The object is gone, or the program is beyond what C++ defines.
Terminated ==
  /\ owner = "dead" \/ worker = "undefined"
  /\ UNCHANGED vars

Next ==
  \/ \E p \in Producers : PostMsg(p) \/ PostMsgNotify(p)
  \/ StartThread \/ ExitThread \/ Destroy \/ OwnerFinish
  \/ ThreadFunc \/ WorkerSpurious
  \/ Terminated

Spec == Init /\ [][Next]_vars

\* The operating system runs every thread that can run, so a call that was
\* begun is finished; nobody is obliged to begin one, and no spurious wakeup
\* ever has to happen.
Fairness ==
  /\ WF_vars(ThreadFunc)
  /\ WF_vars(OwnerFinish)
  /\ \A p \in Producers : WF_vars(PostMsgNotify(p))

FairSpec == Spec /\ Fairness

-----------------------------------------------------------------------------
(* Properties.                                                             *)

\* What the worker still has to dispatch of the batch it took.
Rest == IF worker = "batch"
        THEN SubSeq(msgs[tmpList], itr, Len(msgs[tmpList]))
        ELSE <<>>

\* The list the worker iterates and clears without m_mutex is never the one
\* PostMsg appends to under it.
BatchIsPrivate == worker = "batch" => tmpList # offset

\* Every message pushed is dispatched once, in the order in which the pushes
\* got the lock, whatever list it waited in: dispatched, left in the batch and
\* waiting in the current list together are the messages posted.
FifoExactlyOnce ==
  worker # "undefined" => handled \o Rest \o msgs[offset] = posted

\* The wait has no predicate: a worker that waits although the list is not
\* empty owes its wakeup to a sender that has pushed and not yet notified.
NoLostWakeup ==
  worker = "wait" /\ msgs[offset] # <<>> =>
    owner = "notify" \/ \E p \in Producers : producer[p] = "notify"

\* m_exit is only set by a STOP that was dispatched, after everything that was
\* posted before it.
StopDrains ==
  exit => \E i \in 1..Len(handled) :
            /\ i <= Len(posted)
            /\ handled[i].kind = "STOP"
            /\ \A j \in 1..i : handled[j] = posted[j]

\* An owner that stops the thread with ExitThread before it deletes the object
\* never has a message dispatched on the half destroyed object.
NoOrphanAfterExit == joined => ~orphaned

\* Once ExitThread has joined the worker nothing is dispatched again, although
\* StartThread may start a second worker.
ExitIsFinal == [][joined => handled' = handled]_vars

\* ExitThread and the destructors return: the worker they join ends.
StopCompletes ==
  owner \in {"join", "baseJoin"} ~>
    owner \in {"idle", "dead"} \/ worker = "undefined"

\* A message with no STOP or CLEAR before it is dispatched if the thread was
\* started.
PostedIsHandled ==
  \A k \in 1..Cardinality(Producers) * MaxPosts + MaxStops + 1 :
    (/\ thread
     /\ k <= Len(posted)
     /\ \A j \in 1..(k - 1) : posted[j].kind = "work") ~> Len(handled) >= k

-----------------------------------------------------------------------------
(* The inductive invariant behind these properties.                        *)

\* Between batches the list PostMsg does not append to is empty; in a batch
\* the iterator stays in the list the worker took.
BatchShape ==
  /\ worker = "batch" => itr <= Len(msgs[tmpList]) + 1
  /\ worker \notin {"batch", "undefined"} => msgs[1 - offset] = <<>>

\* How m_thread, m_exit and the history flags constrain the worker: it exists
\* exactly while m_thread is set, m_exit changes only inside a batch, and a
\* worker started after a joined stop never reaches the lock.
LifeCycle ==
  /\ thread <=> worker # "none"
  /\ worker = "done" => exit
  /\ worker \in {"lock", "wait"} => ~exit
  /\ joined => exit /\ worker \in {"none", "check", "done"}
  /\ orphaned => ~alive

IInv ==
  /\ TypeOK
  /\ BatchIsPrivate
  /\ BatchShape
  /\ LifeCycle
  /\ FifoExactlyOnce
  /\ NoLostWakeup
  /\ StopDrains
  /\ NoOrphanAfterExit

-----------------------------------------------------------------------------
(* The mailbox that the two lists implement.                               *)

Queue == Rest \o msgs[offset]

State == IF worker = "undefined" \/ (exit /\ worker # "batch") THEN "halted"
         ELSE IF exit THEN "stopping" ELSE "open"

MB == INSTANCE Mailbox
        WITH Message <- Msg, queue <- Queue, served <- handled, state <- State

\* The thread is a mailbox: whatever the interleaving of pushes, flips,
\* dispatches and clears, a step serves the oldest message, accepts a message
\* at the end of the queue, halts after a STOP, or changes nothing.
IsMailbox == MB!Spec

=============================================================================
