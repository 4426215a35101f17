# Specifications of aslib

TLA+ models of aslib, a C++ library of threads, networking, MySQL access,
buffers and small tools. Each module is written from the sources under `src/`;
`PROJECT.json` maps every definition to the lines it stands for.

## 1. Inventory

| Component | State | Operations | Talks to | Hard parts |
|---|---|---|---|---|
| Message thread (`code/thread/asBaseThread`, `asMsgThread`) | two message lists, `m_offset`, `m_exit`, the thread | PostMsg, StartThread, ExitThread, destructors, worker loop | producers through a mutex and a condition; subclass handlers | unlocked batch, wait without predicate, stop inside a batch, destruction while running |
| Thread group (`asMsgThreadGroup.h`) | array of threads, count | SetThreadGroupNum, Start, Exit, Clear, PostMsg, PostMsgToMin | the threads | unlocked counts, posts during Exit |
| MySQL pool (`mysql/primary`) | per worker tasks, connection, exit flag; shared results | Init, Async*, Update, Close, worker loop, AddResult | server, callbacks | retry after lost connection, flag without lock, deletion before join |
| MySQL connection (`asMySQLConnection`) | handle, database | Init, Connect, ReConnect, Close, SelectDB, Transaction, Commit, Rollback | server | null handle after a failed connect, transactions over a reconnect |
| MySQL result set (`asMySQLQueryResult`) | list of results, cursor | AddResults, NextResult, NextRow, SeekRow, getters | client library | results added while read, freed behind the cursor, null results |
| MySQL statements (`mysql/stmt`) | prepared statements with bound memory, one result buffer, one connection | LoadStmtConfig, requests, Query, responses | network clients, server | what one request leaves behind for the next |
| uv network (`net/uv`) | per thread task queue, sessions, timer; per session queue, buffer, pending flag | accept, add, receive, send, broadcast, close, stop, connect, reconnect | libuv loops, application handlers | raw pointers in tasks, one write at a time, stop order, one timer for all attempts |
| asio network (`net/asio`) | handlers of an io_context, sessions in a pool | as above, with a blocking connect | asio | blocks reused with an operation outstanding, limit check |
| iocp network (`net/iocp`, not built) | as above | as above | Windows | concurrent senders on one session |
| Framing (`ParseData`) | receive buffer | parse, move | buffer | partial messages, full buffer |
| Buffers (`buffer`) | data, sizes | read, write, resize, move; node buffer, fields | - | memory that moves, boundaries |
| Algorithms (`asSnowFlake`, `asRingBuffer`) | clock, sequence; indices | GetId; push, pop | - | exhausted seconds, clock steps, full and empty |
| Memory pool, singleton | free list; pointer | allocate, destroy; instance, delete | - | boundary, double-checked locking |
| Logger (`log`, `asCFileWriter`) | queue, file of the day | Log, HandleMessage, change of file | clock, file system | two loggers on one file, midnight |
| Time, strings, files | - | conversions, wrappers | - | calendar arithmetic, splitting |

Correctness, component by component: a message thread handles each message
once, in order, and stops cleanly; a group stops completely; the pool gives
every statement one truthful answer; a statement thread answers a request with
that request's rows; the cursor meets every row once; a commit keeps what it
acknowledges; a network session is a gapless byte stream and its object lives
exactly as long as something may touch it; a pool hands out no block twice;
a client that asks for a connection gets it; framing returns the messages that
were sent however the bytes arrive; loggers lose and reorder no line; ids are
unique; there is one instance.

## 2. Modules

| Module | Models | Extends / instantiates |
|---|---|---|
| `Mailbox` | abstract: one FIFO queue, served one at a time, halted after STOP | - |
| `MsgThread` | `asMsgThread`, `asBaseThread` | INSTANCE `Mailbox` with a refinement mapping |
| `MsgThread_proofs`, `MsgThreadGroup_proofs`, `MySQLPool_proofs`, `AsioNet_proofs`, `UvNet_proofs` | theorems about the module of that name | EXTENDS the module, TLAPS |
| `StmtThread_proofs` | theorems about `StmtThread` | EXTENDS it, `BufferLemmas` |
| `Library_proofs` | theorems about `QueryResult`, `Logger`, `Framing`, `SyncSession`, `SnowFlake` and `Singleton` | EXTENDS the six, `BufferLemmas` |
| `BufferLemmas` | lemmas on induction, on `FlattenSeq`, and on what a write does to a buffer | EXTENDS `Buffer`, TLAPS |
| `MsgThreadGroup` | `asMsgThreadGroup` over threads as double lists | - |
| `MySQLPool` | `asMySQLQueryMgr`, `asMySQLThread`, reconnects of `asMySQLConnection` | - |
| `SyncSession` | `asMySQLConnection` and the synchronous queries: transactions, databases | - |
| `QueryResult` | `asMySQLQueryResult` | - |
| `StmtThread` | `asMySQLStmtThread`, `asMySQLStmtQuery`, `asMySQLStmt`, the parameters of `asMySQLDefine.h` | EXTENDS `NodeBuffer` |
| `SendStream` | abstract: per session a stream of accepted messages | - |
| `UvNet` | `asUvNetWork`, `asUvThread`, `asUvSession` as a server | INSTANCE `SendStream` |
| `UvClient` | `asUvNetWork`, `asUvThread` as a client | - |
| `AsioNet` | `asAsioNetwork`, `asAsioThread`, `asAsioSession` | EXTENDS `MemoryPool`, INSTANCE `SendStream` |
| `Framing` | `ParseData` of both sessions and the read callback | EXTENDS `Buffer` |
| `MemoryPool`, `Buffer`, `NodeBuffer` | `asMemoryPool`, `asBuffer`, `asNodeBuffer` as operators on records | each the one before it needs |
| `Logger` | `asLogger`, `asLog`, `asCFileWriter` | - |
| `SnowFlake`, `Singleton` | `asSnowFlake`, `asSingleton` | - |
| `RingBuffer`, `FieldBuffer`, `TimeTools`, `TextTools` | `asRingBuffer`; `asReadBuffer`, `asWriteBuffer`; `asTime`; strings, paths, files | - |
| `MC*` | instances for TLC | the module each; `MCLibrary` the components that work for one owner |

Each module has operators called faults or mutants: one operation each with one
plausible slip (a missing `% 2`, a forgotten notification, a queue that is not
cleared). They belong to no specification; with one of them in place of the
operation TLC finds the property it is paired with violated, so each property
does constrain the code.

### MsgThread

A critical section of `m_mutex` is one action, an access without the lock is an
action of its own. `PostMsg` pushes, `PostMsgNotify` notifies after the unlock.
The worker's position in `ThreadFunc` is `worker`: `check` (54), `lock` (57),
`wait` (59), `batch` (66-86), `done` (88). The wait has no predicate, so a
notification or a spurious wakeup leads back to `check`. `tmpList` and `itr` are
the list and the iterator of the batch. The owner's `ExitThread` is `PushStop`,
`ExitNotify`, `ExitJoin`; `Destroy`, `DtorExit`, `BaseJoin` are the destructor of
the derived class, `~asMsgThread` and `~asBaseThread`, in this order, with
`alive` false from the first on. `AS_THREAD_CLEAR` empties the list being
iterated: `++itr` on a freed node is undefined, and the model stops there
(`undefined`) and promises nothing. A message is its id class, its sender and a
number. The guard of `Destroy`, that no producer is inside `PostMsg`, is the
duty of whoever deletes an object.

### MsgThreadGroup

The controller sizes, starts, stops and clears the group; callers post by index
or through `PostMsgToMin`, which reads one thread's count per step (`ReadFirst`,
`ReadNext`) and posts later (`PostMin`). `GetMsgCount` is modelled as written:
its first result is the length of the second list and its second is never set.
A worker's `Take` flips the lists, `Dispatch` handles one message of the batch at
the iterator `pos`, `EndBatch` clears it and `Leave` ends the loop: a STOP sets
`exit` in the middle of the batch and the rest is still dispatched. `early` marks
a thread that got the STOP of an Exit before it was started: its worker meets it
in its first batch, and an Exit that sees `m_exit` meanwhile passes a thread that
still runs, which `ExitInOrder` excepts and after which `Clear` deletes under a
worker (`ClearUndefined`). `Clear` is called when no caller is inside the group.

### MySQLPool

The main thread runs `Init` (a thread is started before it connects), hands
statements to `tasks` of a worker, collects `results` in `Update`, and closes:
`CloseFlag` and `CloseWake` per worker, then `Delete` and `Join` per worker. The
worker's steps follow `ThreadFunc`: test, wait, ping, pop, first try, reconnect
and second try, result, and the drain after the loop. `destroyed` is set by
`~asMySQLThread`, which runs before the join of `~asBaseThread`; a worker that
uses a destroyed member or a null connection goes to `undefined`. The server is
external: a statement succeeds, fails, or loses the connection before or after
it was executed. A task holds one statement; one of several, whose later part
fails unnoticed, is in `SyncSession`.

### UvNet

A network thread's loop is `check` (the test of `m_isStoped` and the swap of the
task queue), `tasks`, `io` (one `uv_run` without waiting), and after a stop
`drain` and `spin`. Tasks are records with the operation's name; `HandleX` runs
the task at the head of the batch. `WriteData` either queues the message or
merges queue and message into `m_sendBuf`, sets `m_pending` and posts the
`write` task; `Transmit` and `OnWriteDataCB` are the kernel's progress and the
callback. `HandleCloseSession` calls `uv_close`; the object is deleted by the
close callback at the end of the same `uv_run` (`EndRun`). A task that holds the
raw pointer of a deleted session, or a post to a thread whose loop is gone,
takes the posting or running thread to `undefined`. The application calls
`DoSendData`, `DoSendDataAll`, `DoCloseSession` and `TryStopNetWork` from a
thread of its own; handlers answer from a network thread (`ReadReply`), also
during a stop. A message stands for the bytes the kernel takes at once. A
broadcast posts its writes in the order of `m_sessions`, a map by id. The send
buffer grows on demand (`asBuffer::WriteBuf`), so it has no capacity here.

### UvClient

`ConnectToServer` posts `connect`, which posts `try`: `uv_tcp_connect` begins or
fails at once, and the callback (`Connected`) takes the session from
`m_connect`. A failure posts `timer`, and the timer posts the next `try`; a
success posts `add`, which posts `stopTimer`. `overlap` remembers that a second
attempt took over `m_connect` before the first was done, since the two share one
request and one timer. `StopTimer` may run on a timer that was never initialised
(the first attempt succeeded): the memory is as `new` left it, and the model
allows that nothing happens or that the program is undefined. `StartTimer` calls
`uv_timer_init` again each time: of a timer that fired this is taken as libuv lets
it pass, of one that is armed or being closed it is undefined (`StartTimerActive`):
the loop counts the lost handle as active, and nothing is promised after it. The
thread takes the tasks that are there as a batch (`TakeTasks`) and lets libuv call
back between two batches (`Polls`), so that two attempts of two callers can fail
in one batch. `TryStopNetWork`
deletes the connecting session while the loop still knows its socket
(`DeleteConnecting`, `ConnectedFreed`, `TryFreed`). After the stop the loop is
`drain`, `close`, `done` as in `InitThread`.

### AsioNet

One network thread runs the ready handlers in order; a completion carries the
block that was captured, not the session. `CloseSession` gives the block back at
once, and what was outstanding completes later as aborted, on whatever the block
is by then. `Written` is the end of a write, which merges the queue and writes
on: this is what `uv_net_queued` shows `net/uv` does not do, and here
`QueuedIsSent` is a property that holds. A client's `ConnectToServer` blocks in
the caller's thread and enters the session before it announces it. Undefined
behaviour (data for a block that is free, an acceptor or thread that was
deleted, a log line without its argument) ends the thread, and nothing is said
of what follows.

### Framing, Buffer, NodeBuffer, MemoryPool

A unit stands for a field, not a byte: a message head is three units, a number
one, a string its length and its characters. `asBuffer` is the memory, the write
position, and `moved`: whether the memory was replaced since somebody took its
address. The buffer doubles for a write that does not fit and also for a write
of nothing. The loop of `ParseData` is a recursive function over the buffer
(`Turns`): where it stands after each turn. The turns that move on hand a message
to `OnNewMessage` (`Handing`). A head with another sign, or whose length is less
than a head or more than `MaxLen` (`AS_NET_MAX_LEN`), breaks the loop, and so does
more than `MaxLen` in the buffer; both drop all that is there. The application
chooses the size of the buffer, less than the maximum or more: `FrameRooms` has one
of each; `flooded` remembers that a buffer was dropped for its length. The stream
arrives in pieces of every length, its heads right or wrong.

### StmtThread

A request is a message with packed arguments; the last of its units stands for
the parameter the response gives back. `Unpack` resets and fills the bound
parameters one by one and tests the length after it copied; `Query` executes,
brings the rows into `m_results` as nodes, and clears the result from the
connection; `Answer` is the response by the flags of the statement. An outcome
says whether the client library could bind and store the result: if not,
`GetResultsToBuffer` returns -1, nobody looks at it, and the request is answered
like one without rows (`Received`).
The loops (the arguments of `Unpack`, the rows of the fetch, the columns of
`GetResultsToBuffer`) are recursive functions: where each stands after so many
turns. What cannot be brought over (a NULL keeps the last value, a string that is
too long ends the rows, a float column leaves the node open) is modelled and
excepted in the property (`Plain`), and so is an argument after the string's
memory moved. `AdHocQuery` is `OnNewMsg`, with a statement prepared for the call.

### QueryResult, SyncSession

The cursor is a place in the list of results and a row in it; `visited` is what
the reader stood on, `strayed` that it sought or left a result early.
`SyncSession` has the server's session beside the client's belief: a lost
connection undoes the work, a ping may replace the session, and the library
reconnects by itself except for the first command of what it believes is a
transaction. Every command may fail (`Answers`): the server refuses it, rolls the
transaction back with an error, or the connection is lost before or after it was
executed, between the ping and the command too (`Reached`). A query holds one or
two statements, and an error of the second ends the loop of `mysql_next_result`
without a word to the caller. The histories say what of this has happened since
`Transaction`: `dropped`, `gaveUp` (the server rolled back), `cut` (a statement
failed in a query that said yes).

### Logger, SnowFlake, Singleton

A line of `asLogger` is stamped in one step and posted in another; a logger checks
the day, makes the file and writes in three steps, and the clock may tick between
any two. A line of `asLog` has no time until `WriteString` reads the clock, when
its file is chosen and open (`TimeOf`), so at midnight it may stand in the file of
the day before its time; `times` has the time each line of a file begins with.

In `SnowFlake` the number of values each field of an identifier has (`MaxTime` + 1,
`ServerMax`, `SeqMax`) is a constant, and so is the machine's `|` (`BitOr`), of which only one law is assumed: numbers without a common bit add up.
`Shifted` is the `int` whose sign reaches the time when the server is in the
upper half; one turn of the loop of `GetId` is a step. `Singleton` has one
step per access of the pointer or the mutex; the object is deleted in one step
and the pointer cleared in the next.

### RingBuffer, FieldBuffer, TimeTools, TextTools

Functions without state, checked against a reference by named assumptions over
bounded inputs, which TLC evaluates in the run `library`: every sequence of six
calls of a ring of up to four places, every three fields, forty times, every
text of six characters over three letters, every INI file of four lines. A day has six
seconds and the zone is two, so that days, zones and midnights meet in few
times.

## 3. Runs

| Run | Configuration | Shows |
|---|---|---|
| `msg_thread` | 2 producers with 2 messages, CLEAR possible, 1 ExitThread, fair | exactly once in order, private batch, no lost wakeup, drained stop, no message on a half destroyed object, finality, refinement of `Mailbox`; joins end, posted messages are dispatched |
| `group` | 2 threads, 2 posts, 2 exits, fair | drained stop, order of Exit, Exit returns and threads that set `m_exit` end |
| `group_count` | as above, 1 exit | violated: the count is not the thread's |
| `mysql_pool` | 2 workers, 2 statements, 1 loss, fair | one place per statement, order, truthful results, every statement answered |
| `mysql_pool_drain` | 1 worker, 2 statements | violated: remaining tasks are left |
| `mysql_pool_exit` | 1 worker, 1 statement, fair | violated: a worker told to exit may sleep for ever |
| `uv_net` | 1 thread, 1 session, 3 messages, 1 close, fair | gapless stream, one write at a time, session map, refinement of `SendStream`; close and stop complete |
| `uv_net_two` | 2 threads, 2 sessions, 1 message, 1 close | dangling pointers limited to write tasks |
| `uv_net_limit` | limit 1, 2 connections | violated: the limit is not checked |
| `uv_net_queued` | 1 session, 2 messages, fair | violated: a queued message stays |
| `asio_net` | pool of 2 blocks, 2 sessions, 2 calls, limit 0 or 1, server or client, fair | pool and sessions agree, stale completions harm no new session, at most one session too many, refinement of `SendStream`, queued messages are sent |
| `library` | one of eight components per behaviour, the client fair | responses routed and faithful, intact frames, exact cursor, commits, log lines, identifiers, one instance; the client connects and its thread ends after a stop; the assumptions of the stateless tools |

`library` puts components side by side that share nothing: the variable
`subject` is chosen at the start and only that component moves, so its states
are the sum and not the product of theirs. Each alone reaches every one of its
actions. The fairness is that of the client's loop; the actions it names are
enabled in no behaviour of another component.

Bounds. Two messages per producer are the fewest with which a batch holds
several messages while the other list fills, and one stop allows stop, restart
and destruction. Two exits of a group show an Exit of stopped threads and a Clear
after an Exit; two posts reach both lists of one thread or two threads. Two
statements on two workers show both orders; one loss is enough for a retry, a
failed ping and a second failure on a lost connection. Three messages on one
session are one in flight, one queued and one that merges the queue. Two
threads and two sessions are the fewest for a broadcast, and for an answer
across threads during a stop. Two asio sessions are the fewest for a block that
is given back and given out again; limits 0 and 1 show the refusal and the
session too many. Two requests are the fewest for something an earlier
statement leaves behind (the values come in six kinds of statements and eight
outcomes); three frames in a buffer of eight units, less than the maximum of nine,
or of eleven, more than it, for a rest that moves, a message that does not fit,
a length too small and too large, a wrong flag behind a length that is not its
own, and a flood of good messages. Two connects show the
shared timer; two queries of up to two results and six steps of the reader the
results added behind the cursor; five calls an Init, a transaction with a
query of up to two statements, a Commit that fails and a second one, or two
queries and one Commit, with a loss between any two. Two days and three
lines show midnight between two lines of one caller, and of two; five
identifiers an exhausted second of three (`SeqMax` is 4, and the last number is
never given), four servers both halves; three callers and a deletion
every race of the two tests. `MaxStops`, `MaxPosts`, `MaxExits`, `MaxTasks`,
`MaxLosses`, `MaxIds`, `MaxSends`, `MaxCloses`, `MaxCalls`, `MaxRequests`,
`MaxFrames`, `MaxConnects`, `MaxQueries`, `MaxReads`, `MaxStatements`,
`MaxLines`, `MaxDay`, `MaxGiven`, `MaxTime`, `MaxAsked` and `MaxDeletes` bound
the environment only.

`CHECK_DEADLOCK FALSE` is set where the bounded environment runs dry and the
program then rests or has ended; `MsgThread` is checked for deadlock and has an
explicit `Terminated` step for a deleted object.

Fairness. Weak fairness of a thread's steps stands for the operating system that
runs every thread that can run. Nothing obliges a caller to begin an operation;
one that was begun is finished. Spurious wakeups and failures are never obliged.
Strong fairness is used where an external party is asked again and again: a ping
that can succeed (`WorkerPop`), `Update` that the main loop calls periodically, a
write that libuv offers to the kernel in every round, an attempt to connect that
is repeated until it succeeds. asio runs its handlers, and the kernel takes
what a living peer can receive.

## 4. Proofs

Eight modules hold theorems. Each is about the specification TLC checks, with
every constant arbitrary within the named assumption of its module, and each
states the definition a run checks. Every safety invariant of a passing run is
proved, and so are the refinements and the action properties; what is left is
liveness, in section 4.11. `BufferLemmas` holds no theorem about a program, only
what several proofs cite.

A proof of an invariant has the same shape everywhere: a conjunction `IInv` of
named parts that every step keeps, one lemma per action or per group of actions
that touch the same state, and a last step from `IInv` to the property. The
inductive invariants were checked by TLC on small instances before they were
proved.

### 4.1 MsgThread_proofs

Assumes `ProducersAssumption`, `KindsAssumption`, `BoundsAssumption`. Proves type
correctness, the safety invariants, the action property `ExitIsFinal`, and that
`MsgThread` implements `Mailbox`.

`FifoExactlyOnce` alone is not inductive: the flip makes the other list current,
so it must be known that this list is empty between batches (`BatchShape`) and
that the batch is not the current list (`BatchIsPrivate`); the end of a batch
clears it, so the iterator must be known to be at most one past the end.
`NoOrphanAfterExit` needs to know that a worker started after a joined stop meets
`m_exit` before the lock (`LifeCycle`). `StopDrains` follows from the histories
only growing. The refinement maps the queue to what is left of the batch followed
by the current list; dispatch is `Serve`, a push is `Post`, the test that sees
`m_exit` is `Halt`, everything else stutters.

### 4.2 MsgThreadGroup_proofs

Assumes `GroupAssumption`. `StoppedDrained` compares counts, so the books must
balance: of each thread, what was posted is what was handled plus the messages in
its two lists, where those of the batch stay until its end (`BooksInv`). What is
left of a stopped thread came after its STOP, which has to be said before the STOP
is met: while one is in the batch, what waits in the other list is late already
(`LateInv`). `WorkerInv` has the list to flip to empty between batches, as in
`MsgThread`, and that a worker which dispatches after `m_exit` is set has the STOP
in its batch. That worker is why `ExitInOrder` is not read off the end of the
thread: `StopInv` says that a thread no Exit met without a worker holds at most one
STOP, and holds it only while Exit waits for it, so that a second Exit finds it
ended; `early` threads are what is left. `ControlInv` has the place of `Exit` in the
array. `Works` counts by cardinality; `WorksType` and the lemmas after it say how it
changes with a list.

### 4.3 MySQLPool_proofs

Assumes `PoolAssumption`. `OneResult` says that a statement is in exactly one
place; the step that pops it, the one that retries it and the drain must each
find it where it was. The invariant orders the places of one worker: reported
before in hand before waiting, each in the order of the calls (`ListInv`,
`ReportInv`), and nothing is missing (`KeptInv`). `InOrder` and `OneResult` are
read off that order. `TruthfulResult` needs what each attempt knows
(`ExecutedInv`): a statement that waits was not executed, one in its second
attempt at most as often as a connection was lost, and one whose result is "ok"
at least once. `MainInv` has the place of the manager, since `Delete` and the
workers touch the same fields.

### 4.4 AsioNet_proofs

Assumes `AsioAssumption`. First the pool alone: a well-formed free list stays so
under every operation of `MemoryPool` (`AllocateBlocksSound` and the lemmas after
it). Then the network. `PoolSound` depends on what every handler in the queue of
the io_context will find, so the invariant speaks of positions in this queue:
one accept at a time and for the newest identifier (`AcceptInv`), a session is
entered by the task its accept posted, before another accept can complete
(`MemberInv`), and a completion that meets its block in the hands of another
session comes before the task that enters that session (`StaleInv`). The last is
why a stale close is harmless, and it holds only because handlers run in the
order in which they became ready. `SessionBound` needs `AcceptInv`; `PoolInv`
also bounds the pool by the identifiers given out, so a block is always found.
All of it is claimed only while the thread is defined and not stopped
(`Running`); what is left afterwards is dropped (`Drained`).
`SessionsAreStreams` maps each step to `SendStream`: a completed write moves the
front of the buffer to the wire, a close breaks the stream, the rest stutters.

### 4.5 UvNet_proofs

Assumes `UvAssumption`. The tasks of a thread are read as one queue, the rest of
the batch followed by `m_tasks`: then the swap changes nothing, running a task
removes the head, and posting appends. `TasksSound` states for each kind of task
what it will find of its session however long it waits (a queued `add` finds it
open and not yet entered, a queued `write` finds it pending and idle if it is
still open); `TasksFit` which two tasks of one session never stand in which order
(no `close` before a `read`, no two writes). `SessionInv` joins, per session, the
object's life, the map, the flags and the data: `m_pending` of an open session
means a write is queued or in flight, never both and never two. With these,
`MapMatches`, `StreamIntact`, `OneWriteAtATime` and `OnlyWriteDangles` follow, and
`SessionsAreStreams` is the refinement of `SendStream` with the same mapping as
in the run. The theorems hold of executions up to undefined behaviour, where the
thread stops, as the runs do.

### 4.6 StmtThread_proofs

Assumes `StmtAssumption`: what a configuration, a message and an outcome are, and
that the buffer of results has memory. The module proves `AnswersRouted`, which
needs the queue only, and all of `StmtFaithful`.

`QueueInv` says that the queue is the end of what was asked, so that the message
at hand is the next one (`MessageAtHand`); `BooksInv` that nobody asks while
statements are loaded, so that the flags a response went by are those of its
request; `RoutedInv` is the property with the bound that no answer belongs to a
message still in the queue, from which the order follows. `TakeKeeps` is the step
of every message, whatever it is for.

The rest follows a request through the code. Its parts:

- Arguments. What is bound are the strings' addresses, taken once; a write that
  replaces the memory leaves MySQL with the old one. `ReadyInv` is that as long
  as every request for a statement was well packed (`PackedUntil`), each string is
  still in the memory that was bound, of the length of its parameter (`Ready`).
  Then what `Unpack` takes out of a message is what the client packed
  (`UnpackPacked`), and the check of `Unpack` for reading too far cannot fail in a
  well packed message. `ArgsInv` has this for what the server saw of each request.
- Rows. What the client library took over (`Received`) is fetched row by row. A
  fetch followed by `WriteRow` writes one node for a plain row and leaves
  the buffer at its end (`FetchRowsPlain`); what the client's iterator finds in
  these nodes are the rows (`ReadBackNodes`). `RowsInv` has this for each answer.
- What one request leaves behind for the next. `HeldInv`: the buffer of results is
  fit for use (`Roomy`), the connection holds no result, and a statement in the map is
  one that was prepared. A request changes the values of its statement's
  parameters and nothing else of it (`Kin`), so what was proved of earlier
  requests stays true (`SamePackedUntil` and the lemmas after it).

The loops are recursive functions of the model. Each is shown to exist and to
take one step at a time, and then followed by induction, where the claim is a set
of numbers (see 4.7).

### 4.7 Library_proofs: the cursor

Assumes `ResultsAssumption`. The first three properties of this module compare
with `FlattenSeq`, which is a recursive function. tlapm cannot use an induction
theorem whose claim is an operator, so here the claim is a set: `Least` gets the
least number of a set from well-foundedness, `SetInduction` says that a set of
numbers with 0 and every successor has all, and each lemma takes the set of
numbers for which its statement holds. `FlattenType`, `FlattenAppend`,
`FlattenElements` and `FlattenAscending` are what the proofs need of
`FlattenSeq`. All of these are in `BufferLemmas`.

The reader's invariant is that `visited` is all rows of the results behind the
cursor, then the rows fetched of the current one (`VisitedInv`). It is kept by
`AddResults` only because results are appended: the prefix the cursor has passed
does not change. `RowInv` ties the row to the count of fetched rows, so that a
reader at the end has seen them all; `FreedInv` keeps what was freed behind the
cursor, and distinct.

### 4.8 Library_proofs: the loggers

Assumes `LogAssumption`. `LogIntact` says that what is on disk is what was
logged, less what waits and what failed, in each caller's order over all files.
The order is kept along the whole way of a line: `FlowInv` has that no line of a
caller on disk, at a writer, in the queue or stamped is behind one of the same
caller that is further back. Files are read day by day, so the order also needs
that lines in a later file are later (`FileInv`), which holds although two
loggers append to one file because a caller's lines all go through one of them,
whose path never goes back. `DayInv` has the days: the file a logger has chosen
is not of a day before the line's and not of a day after today, and the second
is what bounds the time `asLog` reads then. `NumberInv` has the next number of a
caller (a cardinality), `OriginInv` that only `asLog`'s callers write
directly, `AccountInv` that no line disappears.

### 4.9 Library_proofs: framing

Assumes `FramingAssumption`: the buffer has room for a unit, the maximum for a
head, and what a peer sends at a time is at least a head long. It may be a message
whose head tells its length, a head of none, or one that tells a wrong length.

The invariant of a session (`FrameInv`) is that what is under way is the end of
what was sent (`StreamInv`), and that the session is in one of two places
(`StepInv`): in step with the peer, having passed on its first `k` messages while
the buffer is the beginning of the next (`InStep`), or out of it (`OutOfStep`),
behind something that is no message, which is the next after the `k` it passed on
correctly, and then nothing is said of what else it passes on; nor is anything
behind a flood.
`FloodInv` has that only a buffer larger than the maximum is flooded, `GivenUpInv`
for what a session is given up. `k` is not a variable of the program; the proof
names it because a read may bring any number of messages at once.

What one read does is `TurnsAre`, proved by induction over the turns from what a
single turn does at the place where a message ends (`TurnAtMessage`): the first
`m` turns stop where the next `m` messages end, and all later ones stay there or
at `Broken`, where `m` is the least number after which a message is not complete
or not one (`WholeExists`). So `Handing` is `1..m`, and what is handed on are those
messages (`ParsedIs`). `OverIs` and `ParseDataIs` are what `asBuffer` does to the
memory. `FrameInvImplies` leads from the invariant to `FramesIntact`, which counts
messages by the length of the stream and not by `k`.

### 4.10 Library_proofs: the connection, the identifiers, the instance

`SyncSession` needs no assumption. A call passes through several sessions: what the
ping leaves, where the command arrives, what becomes of it. `KeepsTrans` is what
each of these must keep, stated of a session as a record: its statements were
issued, it works in the chosen database (`IsSession`), and a transaction that
nobody undid is the server's, its work is what succeeded and nothing of it is kept
yet (`Ours`). The lemmas on `ReConnectSession`, `Reached` and `Answers` say that they
keep it, and then each call needs only its own effect. `OutcomeInv` is the property
after a Commit or a Rollback that said yes.

`SnowFlake` assumes `IdAssumption`: every field has a value, and `|` adds numbers
without a common bit. While the server is in the lower half, the parts of an
identifier are such numbers (`IdIsNumber`), so it is the number written with time,
server and sequence for its places, and these compare by the first place in which
they differ (`NumbersGrow`). `IdsUnique` is not inductive: `AscendInv` bounds
every identifier by what the generator's own second and sequence come to, which
the exhausted turn, the new second and the return each keep.

`Singleton` needs no assumption: `OneInv` says who may be past the lock
(`LockInv`: whoever tests again, makes an instance or deletes it holds the mutex,
and whoever makes one saw none), what is alive (`AliveInv`) and, until something is deleted,
that every caller was handed the first object (`FirstInv`).

### 4.11 Only model-checked

- Liveness: `StopCompletes` and `PostedIsHandled` (message thread), `ExitReturns`
  (group), `Answered` (pool), `CloseCompletes` and `StopCompletes` (uv),
  `QueuedIsSent` (asio), `ClientConnects` (uv client). Fairness and `ENABLED` are
  out of the prover's reach.
- The stateless tools (`RingBuffer`, `FieldBuffer`, `TimeTools`, `TextTools`),
  checked over bounded inputs by assumptions.

## 5. Disagreements between code and text

Five runs expect a violation and show where the code does something else than
its comments say: `GetMsgCount`, the drain and the exit of the MySQL worker, the
session limit, and the send queue of a uv session. The quotations are in
`PROJECT.json` under `findings`. `SetMsgCount`, which stores a maximum of the
queue that no code reads, needs no run.

Behaviour that no document speaks of, found while modelling and kept in the
models as the code has it:

- asio: with `ThreadCount > 1` the thread that accepts allocates from the pool of
  sessions while another gives blocks back, without a lock. The client announces
  a session that may be closed already. `ConnectToServer` uses a thread that a
  stop deleted. The log line of a failed accept lacks an argument of its format.
  A full receive buffer leads to reads of no bytes without end, where uv closes.
  A read that completed before its session was closed, and is handled after the
  block was given out again, starts a read of the session that has the block
  now: with three sessions in one block the last may have three outstanding.
- Thread group: an Exit before Start leaves a STOP that lets a later Exit pass a
  thread that still dispatches, and a Clear then deletes it.
- Framing: more than `AS_NET_MAX_LEN` in a buffer, whole messages or not, is
  dropped without a word.
- `asLog` chooses the file before it reads the time of the line.
- uv client: the first attempt's success stops a timer that was never
  initialised; two attempts that fail initialise a timer that is armed; a stop
  deletes the session that is connecting under the loop.
- Statements: an empty string or one longer than the parameter moves the bound
  memory and MySQL then reads freed memory; a request for one row hangs in
  `GetOneResult`; NULL keeps the previous value of the column; a row with a cut
  string silently ends the result; a column `f32` falls through to the error;
  a failed statement sends no response; a result that could not be stored is
  answered as an empty one; prepared statements are not prepared
  again after the connection was lost.
- Synchronous MySQL: a connection lost between BEGIN and COMMIT is replaced, and
  the COMMIT of nothing reports success; so does the COMMIT after a deadlock; the
  error of a later statement of one query is not reported; `NextResult` on the null result of a
  statement without rows dereferences it; the getters read one column too far.
- `asSnowFlake` repeats identifiers for servers from 2048 on, and when the clock
  is set back. During `delete_instance` a caller may be handed the object that is
  gone, after it null or a new object; a logger made so has no thread.
- `asLog::Log` writes 20 bytes into an array of 11; the log text is the format of
  `printf`; lines logged after the logger's STOP are lost.
- `GetDays` takes the remainder and not the quotient, so `GetDaysDiff` and
  `GetWeeks` count no days; `GetTimeNum` adds 1900 to the hour.
- `StringSplit` at a string that can overlap itself repeats text; `asFileReader`
  keeps the buffer of the first file, so lines of a larger one are cut; an empty
  string written by `asWriteBuffer` leaves no trace and the reader is misaligned;
  `asRingBuffer.h:23` lacks a semicolon, and no file includes it.

## 6. Plan

No safety invariant, action property or refinement that a run checks is left
without a theorem. What could be added:

1. Of `asBuffer`, the writes that replace the memory (`ResizeIs`, which keeps the
   contents), those that do not, and the moves of the network have lemmas; a resize
   that drops the contents has none.
2. The stateless tools, whose assumptions TLC checks over bounded inputs, have no
   lemmas.

## 7. Not modelled

- `net/iocp`: Windows only, compiled by no CMake file, driven by completion ports
  whose behaviour nothing in the repository exercises. `asThreadSafeQueue` belongs
  to it.
- Formatting and parsing of times, numbers and encodings; the conversions of a
  result's text by the getters; wording of log lines.
- `asProcess`, thread names and handles, `asFileWriter`: calls of the system
  without state of their own.
- Copying of buffers, `SubSize`, `Clear`: no modelled component calls them.
- The manual test programs, read for how the library is meant to be used, and
  `remain`, which is commented out or outside the build.
- More than one network thread of asio, and several threads of the uv client:
  the first is a race on the pool, see section 5, and the second differs only in
  which loop a session belongs to.
