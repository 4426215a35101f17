---------------------------- MODULE MsgThreadGroup ----------------------------
(***************************************************************************)
(* asMsgThreadGroup (code/thread/asMsgThreadGroup.h): an array of message  *)
(* threads with one controller that sizes, starts and stops it, and        *)
(* callers that post to a thread by index or to the least loaded one.      *)
(*                                                                         *)
(* Each thread is kept as its two lists and the place its worker has       *)
(* reached in the batch; MsgThread has the lock and the condition variable *)
(* of one thread.  GetMsgCount reads the lists without their lock, one     *)
(* thread after the other.                                                 *)
(***************************************************************************)
EXTENDS Integers, Sequences, FiniteSets, Functions

CONSTANTS Callers,       \* the threads that call PostMsgToMin
          MaxCount,      \* bound: the largest group, AS_THREAD_MAX_GROUP_COUNT - 1
          MaxPosts,      \* bound: messages all callers post together
          MaxExits       \* bound: calls of Exit

ASSUME GroupAssumption ==
  MaxCount \in Nat \ {0} /\ MaxPosts \in Nat /\ MaxExits \in Nat

VARIABLES
  count,     \* m_count
  alloc,     \* m_threads is not null
  msgs,      \* per thread, its two lists of "work" and "STOP"
  offset,    \* per thread, the list PostMsg appends to
  exit,      \* per thread, m_exit
  worker,    \* per thread: "none", "run" at the test of m_exit, "batch", "done"
  pos,       \* per thread, the messages of its batch it has dispatched
  control,   \* what the controller does: "idle", in Exit "exit" or "join",
             \* "undefined" once it deleted a thread that still ran
  clearing,  \* the Exit it is in was called by Clear
  at,        \* the thread Exit has reached
  exits,     \* calls of Exit
  caller,    \* per caller, its progress in PostMsgToMin
  posts,     \* messages posted so far
  sent,      \* history: per thread, work messages pushed
  late,      \* history: per thread, those pushed after the STOP
  handled,   \* history: per thread, work messages dispatched
  early,     \* history: per thread, an Exit left a STOP where no worker was
  misread    \* history: a caller used a count that was not the thread's

threads == <<msgs, offset, exit, worker, pos>>
groupVars == <<count, alloc>>
controlVars == <<control, clearing, at, exits>>
history == <<sent, late, handled, early>>
vars == <<groupVars, threads, controlVars, caller, posts, history, misread>>

Threads == 0..(MaxCount - 1)
Group == 0..(count - 1)
Lists == {0, 1}
Idle == [i |-> 0, total |-> 0, idx |-> 0]

TypeOK ==
  /\ count \in 0..MaxCount
  /\ alloc \in BOOLEAN
  /\ msgs \in [Threads -> [Lists -> Seq({"work", "STOP"})]]
  /\ offset \in [Threads -> Lists]
  /\ exit \in [Threads -> BOOLEAN]
  /\ worker \in [Threads -> {"none", "run", "batch", "done"}]
  /\ pos \in [Threads -> Nat]
  /\ control \in {"idle", "exit", "join", "undefined"}
  /\ clearing \in BOOLEAN
  /\ at \in 0..MaxCount
  /\ exits \in 0..MaxExits
  /\ caller \in [Callers -> [i : 0..MaxCount, total : Nat,
                             idx : Threads]]
  /\ posts \in 0..MaxPosts
  /\ sent \in [Threads -> Nat] /\ late \in [Threads -> Nat]
  /\ handled \in [Threads -> Nat]
  /\ early \in [Threads -> BOOLEAN]
  /\ misread \in BOOLEAN

Init ==
  /\ count = 0
  /\ alloc = FALSE
  /\ msgs = [t \in Threads |-> [l \in Lists |-> <<>>]]
  /\ offset = [t \in Threads |-> 0]
  /\ exit = [t \in Threads |-> FALSE]
  /\ worker = [t \in Threads |-> "none"]
  /\ pos = [t \in Threads |-> 0]
  /\ control = "idle"
  /\ clearing = FALSE
  /\ at = 0
  /\ exits = 0
  /\ caller = [c \in Callers |-> Idle]
  /\ posts = 0
  /\ sent = [t \in Threads |-> 0]
  /\ late = [t \in Threads |-> 0]
  /\ handled = [t \in Threads |-> 0]
  /\ early = [t \in Threads |-> FALSE]
  /\ misread = FALSE

\* The messages a thread still holds, those of the batch it is in included.
Pending(t) == Len(msgs[t][0]) + Len(msgs[t][1])

\* The list the worker iterates, and the one producers append to.
Batch(t) == msgs[t][1 - offset[t]]
Active(t) == msgs[t][offset[t]]

Ended(t) == worker[t] \in {"none", "done"}

\* GetMsgCount assigns the length of the second list to its first result
\* twice and leaves the second result, 0 in PostMsgToMin, as it was.
GetMsgCount(t) == Len(msgs[t][1]) + 0

Push(t, m) ==
  msgs' = [msgs EXCEPT ![t][offset[t]] = Append(@, m)]

-----------------------------------------------------------------------------
(* Faults: what an operation below would be with one plausible slip; they  *)
(* show that the properties can fail and are not part of the specification. *)

\* The flip without % 2.
TakeUnwrapped(t) ==
  /\ worker[t] = "run" /\ ~exit[t] /\ Active(t) # <<>>
  /\ offset' = [offset EXCEPT ![t] = @ + 1]
  /\ worker' = [worker EXCEPT ![t] = "batch"]
  /\ UNCHANGED <<groupVars, msgs, exit, pos, controlVars, caller, posts,
                 history, misread>>

\* Both lists are cleared after the batch.
EndBatchBoth(t) ==
  /\ worker[t] = "batch" /\ pos[t] = Len(Batch(t))
  /\ msgs' = [msgs EXCEPT ![t] = [l \in Lists |-> <<>>]]
  /\ pos' = [pos EXCEPT ![t] = 0]
  /\ worker' = [worker EXCEPT ![t] = "run"]
  /\ UNCHANGED <<groupVars, offset, exit, controlVars, caller, posts, history,
                 misread>>

\* A STOP is dispatched like any message and does not set m_exit.
DispatchDeaf(t) ==
  /\ worker[t] = "batch" /\ pos[t] < Len(Batch(t))
  /\ pos' = [pos EXCEPT ![t] = @ + 1]
  /\ handled' = [handled EXCEPT ![t] =
                   IF Batch(t)[pos[t] + 1] = "work" THEN @ + 1 ELSE @]
  /\ UNCHANGED <<groupVars, msgs, offset, exit, worker, controlVars, caller,
                 posts, sent, late, early, misread>>

\* Every thread is told to stop and none is waited for.
ExitThreadNoJoin ==
  /\ control = "exit" /\ at < count
  /\ at' = at + 1
  /\ IF exit[at] THEN UNCHANGED <<msgs, early>>
     ELSE /\ Push(at, "STOP")
          /\ early' = [early EXCEPT ![at] = @ \/ worker[at] = "none"]
  /\ UNCHANGED <<groupVars, control, offset, exit, worker, pos, clearing, exits,
                 caller, posts, sent, late, handled, misread>>

-----------------------------------------------------------------------------
(* The controller.                                                         *)

SetThreadGroupNum ==
  /\ control = "idle"
  /\ ~alloc
  /\ alloc' = TRUE
  /\ \E num \in 1..MaxCount : count' = num
  /\ UNCHANGED <<threads, controlVars, caller, posts, history, misread>>

\* StartThread of every thread that has none: a thread stopped before gets a
\* worker too, which will find m_exit set.
Start ==
  /\ control = "idle"
  /\ alloc
  /\ \E t \in Group : worker[t] = "none"
  /\ worker' = [t \in Threads |->
                  IF t \in Group /\ worker[t] = "none" THEN "run" ELSE worker[t]]
  /\ UNCHANGED <<groupVars, msgs, offset, exit, pos, controlVars, caller, posts,
                 history, misread>>

BeginExit(clear) ==
  /\ control = "idle"
  /\ alloc
  /\ exits < MaxExits
  /\ exits' = exits + 1
  /\ control' = "exit"
  /\ clearing' = clear
  /\ at' = 0
  /\ UNCHANGED <<groupVars, threads, caller, posts, history, misread>>

Exit == BeginExit(FALSE)

\* ExitThread of one thread: nothing when m_exit is set already, whether its
\* worker has ended or not.
ExitThread ==
  /\ control = "exit"
  /\ at < count
  /\ \/ /\ exit[at]
        /\ at' = at + 1
        /\ UNCHANGED <<msgs, control, early>>
     \/ /\ ~exit[at]
        /\ Push(at, "STOP")
        /\ early' = [early EXCEPT ![at] = @ \/ worker[at] = "none"]
        /\ control' = "join"
        /\ at' = at
  /\ UNCHANGED <<groupVars, offset, exit, worker, pos, clearing, exits, caller,
                 posts, sent, late, handled, misread>>

\* The next thread is told to stop only when this one has ended.
Join ==
  /\ control = "join"
  /\ Ended(at)
  /\ worker' = [worker EXCEPT ![at] = "none"]
  /\ at' = at + 1
  /\ control' = "exit"
  /\ UNCHANGED <<groupVars, msgs, offset, exit, pos, clearing, exits, caller,
                 posts, history, misread>>

ExitReturn ==
  /\ control = "exit"
  /\ at = count
  /\ ~clearing
  /\ control' = "idle"
  /\ UNCHANGED <<groupVars, threads, clearing, at, exits, caller, posts,
                 history, misread>>

\* Clear: Exit, then delete[].  That no caller is inside the group then is
\* the duty of who calls it.  m_count is not reset.
Clear ==
  /\ \A c \in Callers : caller[c] = Idle
  /\ BeginExit(TRUE)

ClearReturn ==
  /\ control = "exit"
  /\ at = count
  /\ clearing
  /\ \A t \in Group : Ended(t)
  /\ alloc' = FALSE
  /\ control' = "idle"
  /\ clearing' = FALSE
  /\ msgs' = [t \in Threads |-> [l \in Lists |-> <<>>]]
  /\ offset' = [t \in Threads |-> 0]
  /\ exit' = [t \in Threads |-> FALSE]
  /\ worker' = [t \in Threads |-> "none"]
  /\ pos' = [t \in Threads |-> 0]
  /\ sent' = [t \in Threads |-> 0]
  /\ late' = [t \in Threads |-> 0]
  /\ handled' = [t \in Threads |-> 0]
  /\ early' = [t \in Threads |-> FALSE]
  /\ UNCHANGED <<count, at, exits, caller, posts, misread>>

\* delete[] of a thread Exit passed because m_exit was set while its worker
\* still ran: the destructor passes it too, and the lists go before
\* ~asBaseThread joins.  Undefined; nothing is said of what comes after.
ClearUndefined ==
  /\ control = "exit"
  /\ at = count
  /\ clearing
  /\ \E t \in Group : ~Ended(t)
  /\ control' = "undefined"
  /\ UNCHANGED <<groupVars, threads, clearing, at, exits, caller, posts,
                 history, misread>>

-----------------------------------------------------------------------------
(* The callers.                                                            *)

\* Callers use the group between SetThreadGroupNum and Clear.
Open == alloc /\ ~clearing

PushWork(t) ==
  /\ posts < MaxPosts
  /\ posts' = posts + 1
  /\ Push(t, "work")
  /\ sent' = [sent EXCEPT ![t] = @ + 1]
  /\ late' = IF exit[t] \/ \E l \in Lists : "STOP" \in Range(msgs[t][l])
             THEN [late EXCEPT ![t] = @ + 1] ELSE late
  /\ UNCHANGED <<groupVars, offset, exit, worker, pos, controlVars, handled,
                 early>>

\* An index outside the group posts nothing and returns false.
PostMsg(idx) ==
  /\ Open
  /\ idx < count
  /\ PushWork(idx)
  /\ UNCHANGED <<caller, misread>>

\* PostMsgToMin reads thread 0, then each of the others.
ReadFirst(c) ==
  /\ caller[c] = Idle
  /\ Open
  /\ posts < MaxPosts
  /\ caller' = [caller EXCEPT ![c] = [i |-> 1, total |-> GetMsgCount(0), idx |-> 0]]
  /\ misread' = (misread \/ GetMsgCount(0) # Pending(0))
  /\ UNCHANGED <<groupVars, threads, controlVars, posts, history>>

ReadNext(c) ==
  LET s == caller[c]  n == GetMsgCount(s.i)
  IN  /\ s.i \in 1..(count - 1)
      /\ caller' = [caller EXCEPT ![c] =
                      IF s.total > n
                      THEN [i |-> s.i + 1, total |-> n, idx |-> s.i]
                      ELSE [s EXCEPT !.i = @ + 1]]
      /\ misread' = (misread \/ n # Pending(s.i))
      /\ UNCHANGED <<groupVars, threads, controlVars, posts, history>>

PostMin(c) ==
  /\ caller[c].i > 0
  /\ caller[c].i = count
  /\ PushWork(caller[c].idx)
  /\ caller' = [caller EXCEPT ![c] = Idle]
  /\ UNCHANGED misread

-----------------------------------------------------------------------------
(* The threads.                                                            *)

Take(t) ==
  /\ worker[t] = "run"
  /\ ~exit[t]
  /\ Active(t) # <<>>
  /\ offset' = [offset EXCEPT ![t] = 1 - @]
  /\ worker' = [worker EXCEPT ![t] = "batch"]
  /\ UNCHANGED <<groupVars, msgs, exit, pos, controlVars, caller, posts,
                 history, misread>>

\* The next message of the batch.  A STOP sets m_exit there and then; those
\* behind it are dispatched all the same.
Dispatch(t) ==
  /\ worker[t] = "batch"
  /\ pos[t] < Len(Batch(t))
  /\ pos' = [pos EXCEPT ![t] = @ + 1]
  /\ IF Batch(t)[pos[t] + 1] = "STOP"
     THEN exit' = [exit EXCEPT ![t] = TRUE] /\ UNCHANGED handled
     ELSE handled' = [handled EXCEPT ![t] = @ + 1] /\ UNCHANGED exit
  /\ UNCHANGED <<groupVars, msgs, offset, worker, controlVars, caller, posts,
                 sent, late, early, misread>>

EndBatch(t) ==
  /\ worker[t] = "batch"
  /\ pos[t] = Len(Batch(t))
  /\ msgs' = [msgs EXCEPT ![t][1 - offset[t]] = <<>>]
  /\ pos' = [pos EXCEPT ![t] = 0]
  /\ worker' = [worker EXCEPT ![t] = "run"]
  /\ UNCHANGED <<groupVars, offset, exit, controlVars, caller, posts, history,
                 misread>>

\* The worker finds m_exit set, after its batch or as soon as it is started.
Leave(t) ==
  /\ worker[t] = "run"
  /\ exit[t]
  /\ worker' = [worker EXCEPT ![t] = "done"]
  /\ UNCHANGED <<groupVars, msgs, offset, exit, pos, controlVars, caller, posts,
                 history, misread>>

-----------------------------------------------------------------------------
Worker(t) ==
  /\ control # "undefined"
  /\ Take(t) \/ Dispatch(t) \/ EndBatch(t) \/ Leave(t)
Controller ==
  ExitThread \/ Join \/ ExitReturn \/ ClearReturn \/ ClearUndefined
Caller(c) == ReadNext(c) \/ PostMin(c)

Next ==
  \/ SetThreadGroupNum \/ Start \/ Exit \/ Clear \/ Controller
  \/ \E c \in Callers : ReadFirst(c) \/ Caller(c)
  \/ \E t \in Threads : PostMsg(t) \/ Worker(t)

Spec == Init /\ [][Next]_vars

\* Threads that can run do run, and the controller finishes an Exit.
FairSpec ==
  /\ Spec
  /\ WF_vars(Controller)
  /\ \A t \in Threads : WF_vars(Worker(t))

-----------------------------------------------------------------------------
(* Properties.                                                             *)

\* From the moment a thread sets m_exit it has dispatched everything that was
\* posted to it before its STOP, wherever the message came from; only what
\* came behind the STOP may be left.
StoppedDrained ==
  \A t \in Threads : exit[t] => sent[t] - handled[t] <= late[t]

\* Exit stops the threads one after the other: those before the one it has
\* reached have ended, or will find m_exit and dispatch nothing any more.  The
\* exception is a thread that an earlier Exit found without a worker: it takes
\* the STOP of that Exit with its first batch, and a second Exit that sees
\* m_exit then passes it while it dispatches the rest.
ExitInOrder ==
  control \in {"exit", "join"} =>
    \A t \in Threads :
      t < at => \/ Ended(t)
                \/ exit[t] /\ (worker[t] = "run" \/ early[t])

\* A thread Exit waits for ends, so that Exit returns (or, called by Clear,
\* comes to the delete); and a thread that sets m_exit ends also where no Exit
\* waits for it.
ExitReturns ==
  /\ control = "join" ~> control \in {"idle", "undefined"}
  /\ \A t \in Threads : exit[t] ~> Ended(t) \/ control = "undefined"

\* GetMsgCount returns the number of messages the thread holds.
CountIsExact == ~misread
=============================================================================
