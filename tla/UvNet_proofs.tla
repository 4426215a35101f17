----------------------------- MODULE UvNet_proofs -----------------------------
(***************************************************************************)
(* Proofs about UvNet, for any number of threads, sessions, messages and   *)
(* closes.  The tasks of a thread are read as one queue, the rest of the   *)
(* batch followed by m_tasks, which the swap does not change.              *)
(***************************************************************************)
EXTENDS UvNet, SequenceTheorems, FiniteSetTheorems, TLAPS

-----------------------------------------------------------------------------
(* The inductive invariant.                                                *)

Positions(t) == 1..Len(Queue(t))

\* A task about one session.
Targeted == {"accept", "add", "read", "close", "send", "write"}

\* What a task of thread t finds of its session, however long it has waited:
\* the one that enters it an open session that was not entered before, the one
\* that starts to read an open session unless the thread has closed everything,
\* the one that writes a pending write of an open session.
Sound(e, t) ==
  /\ e.op \in Targeted => e.s \in Of(t)
  /\ e.op \in {"send", "sendAll"} => e.d \in Messages
  /\ e.op = "accept" => obj[e.s] = "none" /\ e.s <= ids
  /\ e.op = "add" => obj[e.s] = "open" /\ added[e.s] = 0
  /\ e.op = "close" => obj[e.s] # "none"
  /\ e.op = "read" =>
       added[e.s] = 1 /\ (loop[t] \notin {"spin", "done"} => obj[e.s] = "open")
  /\ e.op = "write" =>
       added[e.s] = 1 /\ (obj[e.s] = "open" => pending[e.s] /\ ~inFlight[e.s])

\* Tasks of one session that never stand in a queue in this order.
Clashes == {<<"accept", "accept">>, <<"add", "add">>, <<"add", "close">>,
            <<"close", "add">>, <<"close", "read">>, <<"write", "write">>}
Fits(e, f) == e.s = f.s => <<e.op, f.op>> \notin Clashes

TasksSound == \A t \in Threads : \A i \in Positions(t) : Sound(Queue(t)[i], t)
TasksFit ==
  \A t \in Threads : \A i, j \in Positions(t) :
    i < j => Fits(Queue(t)[i], Queue(t)[j])

\* A session that was not entered has no data; one that does not exist was not.
Fresh(s) ==
  /\ obj[s] # "none" => s <= ids
  /\ obj[s] = "none" => added[s] = 0
  /\ added[s] = 0 =>
       /\ ~reading[s] /\ ~pending[s] /\ ~inFlight[s] /\ written[s] = 0
       /\ sendQueue[s] = <<>> /\ sendBuf[s] = <<>>
       /\ wire[s] = <<>> /\ accepted[s] = <<>>

\* A write of session s is queued.
Waits(s) ==
  \E i \in Positions(ThreadOf(s)) :
    Queue(ThreadOf(s))[i].op = "write" /\ Queue(ThreadOf(s))[i].s = s

\* A pending write of an open session is queued or with libuv.
Writing(s) ==
  /\ written[s] <= Len(sendBuf[s])
  /\ obj[s] = "open" /\ inFlight[s] => pending[s]
  /\ obj[s] = "open" /\ pending[s] /\ ~inFlight[s] => Waits(s)

\* MapMatches and StreamIntact of one session.
Matches(s) ==
  /\ s \in members <=> added[s] > 0 /\ obj[s] = "open"
  /\ closed[s] <= added[s] /\ added[s] <= 1
  /\ closed[s] = 1 => obj[s] \in {"closing", "freed"}
Intact(s) ==
  /\ IsPrefix(wire[s], accepted[s])
  /\ obj[s] = "open" /\ peer[s] = "up" =>
       wire[s] \o Rest(s) \o sendQueue[s] = accepted[s]

Session(s) == Fresh(s) /\ Matches(s) /\ Writing(s) /\ Intact(s)
SessionInv == \A s \in Ids : Session(s)

\* Between the batches nothing is left of one; a stop that is under way has
\* reached a thread.
LoopInv ==
  /\ \A t \in Threads : loop[t] \in {"check", "io"} => batch[t] = <<>>
  /\ stop \in {"flag", "join"} => at < ThreadCount
  /\ stop = "no" => at = 0

IInv == TypeOK /\ LoopInv /\ TasksSound /\ TasksFit /\ SessionInv
-----------------------------------------------------------------------------
(* Types of the small things.                                              *)

Ops == {"listen", "accept", "add", "read", "close", "send", "sendAll", "write",
        "closeListen"}

LEMMA Small ==
  /\ 0 \in Threads /\ \A s \in Ids : ThreadOf(s) \in Threads /\ s \in Of(ThreadOf(s))
  /\ \A s \in Ids : s \in 0..MaxIds /\ s \in Nat
  /\ \A d \in Messages : d \in 0..MaxSends
  /\ 0 \in 0..MaxIds /\ 0 \in 0..MaxSends
  /\ \A t \in Threads : t \in Nat /\ t < ThreadCount
  /\ \A t \in Threads : \A s \in Of(t) : s \in Ids /\ ThreadOf(s) = t
  /\ \A n \in Nat : n < MaxSends => n + 1 \in Messages
<1>1. /\ ThreadCount \in Nat /\ ThreadCount > 0 /\ MaxIds \in Nat /\ MaxSends \in Nat
  BY UvAssumption
<1>2. \A s \in Nat : s % ThreadCount \in 0..(ThreadCount - 1)
  BY <1>1
<1>3. \A s \in Ids : s \in Nat /\ s \in 0..MaxIds
  BY <1>1 DEF Ids
<1>4. \A s \in Ids : ThreadOf(s) \in Threads
  BY <1>2, <1>3 DEF ThreadOf, Threads
<1>5. \A s \in Ids : s \in Of(ThreadOf(s))
  BY DEF Of
<1>6. 0 \in Threads
  BY <1>1 DEF Threads
<1>7. \A d \in Messages : d \in 0..MaxSends
  BY <1>1 DEF Messages
<1>8. \A n \in Nat : n < MaxSends => n + 1 \in Messages
  BY <1>1 DEF Messages
<1>9. \A t \in Threads : t \in Nat /\ t < ThreadCount
  BY <1>1 DEF Threads
<1>10. 0 \in 0..MaxIds /\ 0 \in 0..MaxSends
  BY <1>1
<1> QED
  BY <1>3, <1>4, <1>5, <1>6, <1>7, <1>8, <1>9, <1>10 DEF Of

LEMMA EvTypes ==
  /\ \A op \in Ops, s \in 0..MaxIds, d \in 0..MaxSends :
       /\ Ev(op, s, d) \in Event
       /\ Ev(op, s, d).op = op /\ Ev(op, s, d).s = s /\ Ev(op, s, d).d = d
  /\ \A e \in Event : e.op \in Ops /\ e.s \in 0..MaxIds /\ e.d \in 0..MaxSends
BY DEF Ev, Event, Ops

\* A task that was posted.
LEMMA PostType ==
  ASSUME TypeOK, NEW t \in Threads, NEW e \in Event, PostEvent(t, e)
  PROVE  tasks' \in [Threads -> Seq(Event)]
<1>1. tasks \in [Threads -> Seq(Event)]
  BY DEF TypeOK
<1>2. Append(tasks[t], e) \in Seq(Event)
  BY <1>1, AppendProperties
<1> QED
  BY <1>1, <1>2 DEF PostEvent

\* The task at the head of a batch.
LEMMA RunType ==
  ASSUME TypeOK, NEW t \in Threads, NEW op, RunTask(t, op)
  PROVE  /\ batch' \in [Threads -> Seq(Event)]
         /\ batch[t] \in Seq(Event) /\ batch[t] # <<>>
         /\ Task(t) \in Event /\ Task(t).op = op
<1>1. batch \in [Threads -> Seq(Event)] /\ batch[t] # <<>>
      /\ batch' = [batch EXCEPT ![t] = Tail(@)] /\ Head(batch[t]).op = op
  BY DEF TypeOK, RunTask
<1>2. batch[t] \in Seq(Event)
  BY <1>1
<1>3. Head(batch[t]) \in Event /\ Tail(batch[t]) \in Seq(Event)
  BY <1>1, <1>2, HeadTailProperties
<1> QED
  BY <1>1, <1>2, <1>3 DEF Task
-----------------------------------------------------------------------------
(* What a step does to the queue of a thread.                              *)

\* The first k tasks of q are gone and those of p have joined.
Follows(q, r, k, p) ==
  /\ r \in Seq(Event)
  /\ \A i \in 1..Len(r) :
       \/ i + k \in 1..Len(q) /\ r[i] = q[i + k]
       \/ \E j \in 1..Len(p) : i = Len(q) - k + j /\ r[i] = p[j]
  /\ \A i \in 1..Len(q) : i > k => i - k \in 1..Len(r) /\ r[i - k] = q[i]
  /\ \A j \in 1..Len(p) : Len(q) - k + j \in 1..Len(r) /\ r[Len(q) - k + j] = p[j]

LEMMA ConcatFollows ==
  ASSUME NEW q \in Seq(Event), NEW p \in Seq(Event)
  PROVE  Follows(q, q \o p, 0, p)
<1> DEFINE n == Len(q)
           m == Len(p)
           r == q \o p
<1>1. n \in Nat /\ m \in Nat
  BY LenProperties
<1>2. /\ r \in Seq(Event) /\ Len(r) = n + m
      /\ \A i \in 1..n + m : r[i] = IF i <= n THEN q[i] ELSE p[i - n]
  BY ConcatProperties
<1> HIDE DEF n, m, r
<1>3. ASSUME NEW i \in 1..n + m
      PROVE  \/ i + 0 \in 1..n /\ r[i] = q[i + 0]
             \/ \E j \in 1..m : i = n - 0 + j /\ r[i] = p[j]
  <2>1. CASE i <= n
    <3>1. i + 0 \in 1..n /\ i + 0 = i
      BY <1>1, <2>1
    <3> QED
      BY <1>2, <2>1, <3>1
  <2>2. CASE ~(i <= n)
    <3>1. i - n \in 1..m /\ i = n - 0 + (i - n)
      BY <1>1, <2>2
    <3> QED
      BY <1>2, <2>2, <3>1
  <2> QED
    BY <2>1, <2>2
<1>4. ASSUME NEW i \in 1..n PROVE i - 0 \in 1..n + m /\ r[i - 0] = q[i]
  <2>1. i - 0 = i /\ i \in 1..n + m /\ i <= n
    BY <1>1
  <2> QED
    BY <1>2, <2>1
<1>5. ASSUME NEW j \in 1..m PROVE n - 0 + j \in 1..n + m /\ r[n - 0 + j] = p[j]
  <2>1. n - 0 + j \in 1..n + m /\ ~(n - 0 + j <= n) /\ (n - 0 + j) - n = j
    BY <1>1
  <2> QED
    BY <1>2, <2>1
<1> QED
  BY <1>2, <1>3, <1>4, <1>5 DEF Follows, n, m, r

LEMMA TailFollows ==
  ASSUME NEW q \in Seq(Event), q # <<>>, NEW p \in Seq(Event)
  PROVE  Follows(q, Tail(q) \o p, 1, p)
<1> DEFINE n == Len(q)
           m == Len(p)
           u == Tail(q)
           r == u \o p
<1>1. n \in Nat /\ n >= 1 /\ m \in Nat
  BY LenProperties, EmptySeq
<1>2. u \in Seq(Event) /\ Len(u) = n - 1 /\ \A i \in 1..n - 1 : u[i] = q[i + 1]
  BY HeadTailProperties
<1> HIDE DEF u
<1>3. /\ r \in Seq(Event) /\ Len(r) = n - 1 + m
      /\ \A i \in 1..n - 1 + m : r[i] = IF i <= n - 1 THEN u[i] ELSE p[i - (n - 1)]
  <2>1. /\ r \in Seq(Event) /\ Len(r) = Len(u) + m
        /\ \A i \in 1..Len(u) + m : r[i] = IF i <= Len(u) THEN u[i] ELSE p[i - Len(u)]
    BY <1>2, ConcatProperties
  <2> HIDE DEF n, m, r
  <2> QED
    BY <1>2, <2>1
<1> HIDE DEF n, m, r
<1>4. ASSUME NEW i \in 1..n - 1 + m
      PROVE  \/ i + 1 \in 1..n /\ r[i] = q[i + 1]
             \/ \E j \in 1..m : i = n - 1 + j /\ r[i] = p[j]
  <2>1. CASE i <= n - 1
    <3>1. i + 1 \in 1..n /\ i \in 1..n - 1
      BY <1>1, <2>1
    <3> QED
      BY <1>2, <1>3, <2>1, <3>1
  <2>2. CASE ~(i <= n - 1)
    <3>1. i - (n - 1) \in 1..m /\ i = n - 1 + (i - (n - 1))
      BY <1>1, <2>2
    <3> QED
      BY <1>3, <2>2, <3>1
  <2> QED
    BY <2>1, <2>2
<1>5. ASSUME NEW i \in 1..n, i > 1
      PROVE  i - 1 \in 1..n - 1 + m /\ r[i - 1] = q[i]
  <2>1. i - 1 \in 1..n - 1 /\ i - 1 \in 1..n - 1 + m /\ i - 1 <= n - 1 /\ (i - 1) + 1 = i
    BY <1>1, <1>5
  <2> QED
    BY <1>2, <1>3, <2>1
<1>6. ASSUME NEW j \in 1..m PROVE n - 1 + j \in 1..n - 1 + m /\ r[n - 1 + j] = p[j]
  <2>1. n - 1 + j \in 1..n - 1 + m /\ ~(n - 1 + j <= n - 1) /\ (n - 1 + j) - (n - 1) = j
    BY <1>1
  <2> QED
    BY <1>3, <2>1
<1> QED
  BY <1>3, <1>4, <1>5, <1>6 DEF Follows, n, m, u, r

LEMMA ConcatAppend ==
  ASSUME NEW S, NEW s \in Seq(S), NEW t \in Seq(S), NEW e \in S
  PROVE  s \o Append(t, e) = Append(s \o t, e)
<1>1. <<e>> \in Seq(S) /\ s \o t \in Seq(S)
  BY ConcatProperties
<1>2. Append(t, e) = t \o <<e>> /\ Append(s \o t, e) = (s \o t) \o <<e>>
  BY <1>1, AppendIsConcat
<1> QED
  BY <1>1, <1>2, ConcatAssociative

LEMMA ConcatHeadTail ==
  ASSUME NEW S, NEW s \in Seq(S), NEW t \in Seq(S), s # <<>>
  PROVE  /\ s \o t # <<>> /\ Head(s \o t) = Head(s)
         /\ Tail(s \o t) = Tail(s) \o t
<1> DEFINE h == Head(s)
           u == Tail(s)
<1>1. h \in S /\ u \in Seq(S) /\ <<h>> \in Seq(S)
  BY HeadTailProperties
<1>2. s = <<h>> \o u
  BY HeadTailProperties
<1> HIDE DEF h, u
<1>3. s \o t = <<h>> \o (u \o t) /\ u \o t \in Seq(S)
  BY <1>1, <1>2, ConcatAssociative, ConcatProperties
<1> DEFINE v == u \o t
<1>4. v \in Seq(S) /\ s \o t = <<h>> \o v
  BY <1>3
<1> HIDE DEF v
<1>5. Head(<<h>> \o v) = h /\ Tail(<<h>> \o v) = v /\ <<h>> \o v # <<>>
  BY <1>1, <1>4
<1> QED
  BY <1>4, <1>5 DEF h, u, v

\* Only the queue of thread t moves.
Moves(t, k, p) ==
  /\ Follows(Queue(t), Queue(t)', k, p)
  /\ \A u \in Threads : u # t => Queue(u)' = Queue(u)

LEMMA QueueTypes ==
  ASSUME TypeOK, NEW t \in Threads
  PROVE  /\ tasks[t] \in Seq(Event) /\ batch[t] \in Seq(Event)
         /\ Queue(t) \in Seq(Event) /\ Len(Queue(t)) \in Nat
         /\ Positions(t) = DOMAIN Queue(t)
         /\ \A i \in Positions(t) : Queue(t)[i] \in Event
<1>1. tasks[t] \in Seq(Event) /\ batch[t] \in Seq(Event)
  BY DEF TypeOK
<1>2. Queue(t) \in Seq(Event)
  BY <1>1, ConcatProperties DEF Queue
<1> QED
  BY <1>1, <1>2, LenProperties, ElementOfSeq DEF Positions

\* A post from anywhere.
LEMMA PostMoves ==
  ASSUME TypeOK, NEW t \in Threads, NEW e \in Event, PostEvent(t, e), UNCHANGED batch
  PROVE  Moves(t, 0, <<e>>)
<1>1. Queue(t) \in Seq(Event) /\ tasks[t] \in Seq(Event) /\ batch[t] \in Seq(Event)
      /\ <<e>> \in Seq(Event)
  BY QueueTypes
<1>2. tasks'[t] = Append(tasks[t], e) /\ \A u \in Threads : u # t => tasks'[u] = tasks[u]
  BY DEF TypeOK, PostEvent
<1>3. Queue(t)' = batch[t] \o Append(tasks[t], e)
  BY <1>2 DEF Queue
<1>4. Queue(t)' = Queue(t) \o <<e>>
  <2>1. Queue(t)' = Append(Queue(t), e)
    <3> DEFINE b == batch[t]
               a == tasks[t]
    <3>1. a \in Seq(Event) /\ b \in Seq(Event) /\ Queue(t)' = b \o Append(a, e)
      BY <1>1, <1>3
    <3>2. Queue(t) = b \o a
      BY DEF Queue
    <3> HIDE DEF a, b
    <3> QED
      BY <3>1, <3>2, ConcatAppend
  <2> QED
    BY <1>1, <2>1, AppendIsConcat
<1>5. \A u \in Threads : u # t => Queue(u)' = Queue(u)
  BY <1>2 DEF Queue
<1> QED
  BY <1>1, <1>4, <1>5, ConcatFollows DEF Moves

\* Nothing is posted, no task is run.
LEMMA StayMoves ==
  ASSUME TypeOK, NEW t \in Threads, \A u \in Threads : Queue(u)' = Queue(u)
  PROVE  Moves(t, 0, <<>>)
<1>1. Queue(t) \in Seq(Event) /\ <<>> \in Seq(Event)
  BY QueueTypes, EmptySeq
<1>2. Queue(t) \o <<>> = Queue(t)
  BY <1>1, ConcatEmptySeq
<1> QED
  BY <1>1, <1>2, ConcatFollows DEF Moves

\* A task is run, what it posts to its own thread joins.
LEMMA TaskMoves ==
  ASSUME TypeOK, NEW t \in Threads, NEW op, RunTask(t, op), NEW p \in Seq(Event),
         tasks' = [tasks EXCEPT ![t] = @ \o p]
  PROVE  /\ Moves(t, 1, p)
         /\ 1 \in Positions(t) /\ Queue(t)[1] = Task(t)
<1> DEFINE b == batch[t]
           a == tasks[t]
<1>1. b \in Seq(Event) /\ b # <<>> /\ a \in Seq(Event) /\ Queue(t) = b \o a
      /\ Queue(t) \in Seq(Event)
  BY RunType, QueueTypes DEF Queue
<1>2. /\ batch'[t] = Tail(b) /\ tasks'[t] = a \o p
      /\ \A u \in Threads : u # t => batch'[u] = batch[u] /\ tasks'[u] = tasks[u]
  BY DEF TypeOK, RunTask
<1>3. \A u \in Threads : u # t => Queue(u)' = Queue(u)
  BY <1>2 DEF Queue
<1>4. Queue(t)' = Tail(b) \o (a \o p)
  BY <1>2 DEF Queue
<1> HIDE DEF a, b
<1>5. Tail(b) \in Seq(Event)
  BY <1>1, HeadTailProperties
<1>6. Queue(t)' = (Tail(b) \o a) \o p
  BY SMTT(30), <1>1, <1>4, <1>5, ConcatAssociative
<1>7. Queue(t) # <<>> /\ Tail(Queue(t)) = Tail(b) \o a /\ Head(Queue(t)) = Head(b)
  BY <1>1, ConcatHeadTail
<1>8. Follows(Queue(t), Queue(t)', 1, p)
  BY <1>1, <1>6, <1>7, TailFollows
<1>9. 1 \in 1..Len(Queue(t)) /\ Queue(t)[1] = Head(Queue(t))
  <2>1. Len(Queue(t)) \in Nat /\ Len(Queue(t)) # 0
    BY <1>1, <1>7, EmptySeq, LenProperties
  <2> QED
    BY <2>1
<1> QED
  BY <1>3, <1>7, <1>8, <1>9 DEF Moves, Positions, Task, b

LEMMA TaskOnly ==
  ASSUME TypeOK, NEW t \in Threads, NEW op, RunTask(t, op), UNCHANGED tasks
  PROVE  /\ Moves(t, 1, <<>>)
         /\ 1 \in Positions(t) /\ Queue(t)[1] = Task(t)
<1>1. tasks[t] \in Seq(Event) /\ <<>> \in Seq(Event)
  BY QueueTypes, EmptySeq
<1>2. tasks[t] \o <<>> = tasks[t]
  BY <1>1, ConcatEmptySeq
<1>3. tasks' = [tasks EXCEPT ![t] = @ \o <<>>]
  BY <1>2 DEF TypeOK
<1> QED
  BY <1>1, <1>3, TaskMoves

LEMMA TaskPosts ==
  ASSUME TypeOK, NEW t \in Threads, NEW op, RunTask(t, op), NEW e \in Event,
         PostEvent(t, e)
  PROVE  /\ Moves(t, 1, <<e>>)
         /\ 1 \in Positions(t) /\ Queue(t)[1] = Task(t)
<1>1. tasks[t] \in Seq(Event) /\ <<e>> \in Seq(Event)
  BY QueueTypes
<1>2. Append(tasks[t], e) = tasks[t] \o <<e>>
  BY <1>1, AppendIsConcat
<1>3. tasks' = [tasks EXCEPT ![t] = @ \o <<e>>]
  BY <1>2 DEF PostEvent
<1> QED
  BY <1>1, <1>3, TaskMoves

\* The swap leaves what is still to be done.
LEMMA SwapStays ==
  ASSUME TypeOK, LoopInv, NEW t \in Threads, SwapTasks(t)
  PROVE  \A u \in Threads : Queue(u)' = Queue(u)
<1>1. batch[t] = <<>> /\ tasks[t] \in Seq(Event)
  BY QueueTypes DEF LoopInv, SwapTasks
<1>2. /\ batch'[t] = tasks[t] /\ tasks'[t] = <<>>
      /\ \A u \in Threads : u # t => batch'[u] = batch[u] /\ tasks'[u] = tasks[u]
  BY DEF TypeOK, SwapTasks
<1>3. Queue(t)' = tasks[t] \o <<>> /\ Queue(t) = <<>> \o tasks[t]
  BY <1>1, <1>2 DEF Queue
<1>4. Queue(t)' = Queue(t)
  BY <1>1, <1>3, ConcatEmptySeq
<1> QED
  BY <1>2, <1>4 DEF Queue
-----------------------------------------------------------------------------
(* What the tasks find, over a step.                                       *)

\* Tasks that stay, sound after the step, with tasks that are new.
LEMMA TasksStep ==
  ASSUME TypeOK, TasksSound, TasksFit, NEW t \in Threads, NEW k \in {0, 1},
         NEW p \in Seq(Event), Moves(t, k, p),
         \A u \in Threads : \A e \in Event :
           /\ Sound(e, u)
           /\ u = t /\ k = 1 => Fits(Queue(t)[1], e)
           => Sound(e, u)',
         \A j \in 1..Len(p) : Sound(p[j], t)',
         \A e \in Event : Sound(e, t) /\ (k = 1 => Fits(Queue(t)[1], e)) =>
           \A j \in 1..Len(p) : Fits(e, p[j]),
         \A i, j \in 1..Len(p) : i < j => Fits(p[i], p[j])
  PROVE  TasksSound' /\ TasksFit'
<1> DEFINE q == Queue(t)
           r == Queue(t)'
           n == Len(q)
           m == Len(p)
           Old(i) == i + k \in 1..n /\ r[i] = q[i + k]
           New(i, j) == j \in 1..m /\ i = n - k + j /\ r[i] = p[j]
<1>1. /\ r \in Seq(Event) /\ n \in Nat /\ Len(r) \in Nat /\ m \in Nat
      /\ \A i \in 1..Len(r) : Old(i) \/ \E j \in 1..m : New(i, j)
  BY QueueTypes, LenProperties DEF Moves, Follows
<1>2. Positions(t) = 1..n /\ Positions(t)' = 1..Len(r)
  BY DEF Positions
<1>3. \A i \in 1..n : Sound(q[i], t) /\ q[i] \in Event
  BY <1>2, QueueTypes DEF TasksSound
<1>4. \A i, j \in 1..n : i < j => Fits(q[i], q[j])
  BY <1>2 DEF TasksFit
<1> HIDE DEF q, r, n, m
<1>5. \A i \in 1..n : i > k => (k = 1 => Fits(Queue(t)[1], q[i]))
  <2> SUFFICES ASSUME NEW i \in 1..n, i > k, k = 1 PROVE Fits(q[1], q[i])
    BY DEF q
  <2>1. 1 \in 1..n /\ 1 < i
    BY <1>1
  <2> QED
    BY <1>4, <2>1
<1>6. \A i \in 1..Len(r) : i + k > k /\ i \in Int
  OBVIOUS
<1>7. ASSUME NEW i \in 1..Len(r), Old(i)
      PROVE  /\ r[i] \in Event /\ Sound(r[i], t)
             /\ k = 1 => Fits(Queue(t)[1], r[i])
  BY <1>3, <1>5, <1>6, <1>7
<1>8. ASSUME NEW u \in Threads, NEW i \in Positions(u)' PROVE Sound(Queue(u)[i], u)'
  <2>1. CASE u # t
    <3>1. Queue(u)' = Queue(u) /\ i \in Positions(u)
      BY <2>1 DEF Moves, Positions
    <3> DEFINE e == Queue(u)[i]
    <3>2. e \in Event /\ Sound(e, u)
      BY <3>1, QueueTypes DEF TasksSound
    <3>3. PICK c : c = Queue(u)[i]
      OBVIOUS
    <3>4. Sound(c, u)'
      BY <2>1, <3>2, <3>3
    <3>5. Queue(u)'[i] = c
      BY <3>1, <3>3
    <3> QED
      BY <3>4, <3>5
  <2>2. CASE u = t
    <3>1. i \in 1..Len(r)
      BY <1>2, <2>2
    <3>2. PICK c : c = r[i]
      OBVIOUS
    <3>3. Sound(c, t)'
      <4>1. CASE Old(i)
        BY <1>7, <3>1, <3>2, <4>1
      <4>2. CASE \E j \in 1..m : New(i, j)
        BY <3>2, <4>2 DEF m
      <4> QED
        BY <1>1, <3>1, <4>1, <4>2
    <3>4. Queue(u)'[i] = c
      BY <2>2, <3>2 DEF r
    <3> QED
      BY <2>2, <3>3, <3>4
  <2> QED
    BY <2>1, <2>2
<1>9. ASSUME NEW i \in 1..Len(r), NEW j \in 1..Len(r), i < j PROVE Fits(r[i], r[j])
  <2>0. i \in Int /\ j \in Int
    OBVIOUS
  <2>1. CASE Old(i) /\ Old(j)
    <3>1. i + k < j + k
      BY <1>9, <2>0
    <3> QED
      BY <1>4, <2>1, <3>1
  <2>2. CASE Old(i) /\ \E h \in 1..m : New(j, h)
    BY <1>7, <2>2 DEF m
  <2>3. ASSUME NEW g \in 1..m, New(i, g), NEW h \in 1..m, New(j, h) PROVE Fits(r[i], r[j])
    <3>1. g < h
      BY <1>1, <1>9, <2>3
    <3> QED
      BY <2>3, <3>1 DEF m
  <2>4. ~(\E g \in 1..m : New(i, g) /\ Old(j))
    <3> SUFFICES ASSUME NEW g \in 1..m, New(i, g), Old(j) PROVE FALSE
      OBVIOUS
    <3>1. i > n - k /\ j <= n - k
      BY <1>1
    <3> QED
      BY <1>1, <1>9, <2>0, <3>1
  <2>5. Old(i) \/ \E g \in 1..m : New(i, g)
    BY <1>1
  <2>6. Old(j) \/ \E g \in 1..m : New(j, g)
    BY <1>1
  <2> QED
    BY <2>1, <2>2, <2>3, <2>4, <2>5, <2>6
<1>10. ASSUME NEW u \in Threads, NEW i \in Positions(u)', NEW j \in Positions(u)', i < j
       PROVE  Fits(Queue(u)'[i], Queue(u)'[j])
  <2>1. CASE u # t
    BY <1>10, <2>1 DEF Moves, Positions, TasksFit
  <2>2. CASE u = t
    BY <1>2, <1>9, <1>10, <2>2 DEF r
  <2> QED
    BY <2>1, <2>2
<1>11. TasksSound'
  BY <1>8 DEF TasksSound
<1>12. TasksFit'
  BY <1>10 DEF TasksFit, Fits
<1> QED
  BY <1>11, <1>12

\* A queued write stays unless it is run, and is there when it is posted.
LEMMA WaitsStep ==
  ASSUME TypeOK, NEW t \in Threads, NEW k \in {0, 1}, NEW p \in Seq(Event),
         Moves(t, k, p), NEW s \in Ids
  PROVE  /\ Waits(s) /\ ~(k = 1 /\ Queue(t)[1].op = "write" /\ Queue(t)[1].s = s)
              => Waits(s)'
         /\ ThreadOf(s) = t /\ (\E j \in 1..Len(p) : p[j].op = "write" /\ p[j].s = s)
              => Waits(s)'
<1>0. ThreadOf(s) \in Threads
  BY Small
<1>1. ASSUME Waits(s), ~(k = 1 /\ Queue(t)[1].op = "write" /\ Queue(t)[1].s = s)
      PROVE  Waits(s)'
  <2>1. PICK i \in Positions(ThreadOf(s)) :
          Queue(ThreadOf(s))[i].op = "write" /\ Queue(ThreadOf(s))[i].s = s
    BY <1>1 DEF Waits
  <2>2. CASE ThreadOf(s) # t
    BY <1>0, <2>1, <2>2 DEF Moves, Waits, Positions
  <2>3. CASE ThreadOf(s) = t
    <3>1. i \in 1..Len(Queue(t)) /\ i > k
      BY <1>1, <2>1, <2>3 DEF Positions
    <3>2. i - k \in 1..Len(Queue(t)') /\ Queue(t)'[i - k] = Queue(t)[i]
      BY <3>1 DEF Moves, Follows
    <3> QED
      BY <2>1, <2>3, <3>2 DEF Waits, Positions
  <2> QED
    BY <2>2, <2>3
<1>2. ASSUME ThreadOf(s) = t, NEW j \in 1..Len(p), p[j].op = "write", p[j].s = s
      PROVE  Waits(s)'
  <2> DEFINE i == Len(Queue(t)) - k + j
  <2>1. i \in 1..Len(Queue(t)') /\ Queue(t)'[i] = p[j]
    BY DEF Moves, Follows
  <2> HIDE DEF i
  <2> QED
    BY <1>2, <2>1 DEF Waits, Positions
<1> QED
  BY <1>1, <1>2
-----------------------------------------------------------------------------
(* WriteData.                                                              *)

Idle(S) == {s \in S : ~pending[s]}

\* One write task for each session without a pending write.
LEMMA WriteDataPosts ==
  ASSUME TypeOK, NEW t \in Threads, NEW S \in SUBSET Ids, NEW d, WriteData(t, S, d)
  PROVE  \E p \in Seq(Event) :
           /\ tasks' = [tasks EXCEPT ![t] = @ \o p]
           /\ \A j \in 1..Len(p) : p[j].op = "write" /\ p[j].s \in Idle(S)
           /\ \A s \in Idle(S) : \E j \in 1..Len(p) : p[j].op = "write" /\ p[j].s = s
           /\ \A i, j \in 1..Len(p) : i < j => p[i].s # p[j].s
<1> DEFINE n == Cardinality(Idle(S))
<1>1. Idle(S) \subseteq Ids /\ IsFiniteSet(Idle(S)) /\ n \in Nat
  <2>1. IsFiniteSet(Ids)
    BY FS_Interval, UvAssumption DEF Ids
  <2>2. Idle(S) \in SUBSET Ids
    BY DEF Idle
  <2> QED
    BY <2>1, <2>2, FS_Subset, FS_CardinalityType
<1>2. PICK order \in [1..n -> Idle(S)] :
        /\ \A i, j \in DOMAIN order : i < j => order[i] < order[j]
        /\ tasks' = [tasks EXCEPT ![t] =
                       @ \o [i \in DOMAIN order |-> Ev("write", order[i], 0)]]
  BY DEF WriteData, Idle
<1> HIDE DEF n
<1>3. \A i \in 1..n : order[i] \in Ids /\ order[i] \in Nat
  BY <1>1, <1>2, Small
<1>4. \A i, j \in 1..n : i # j => order[i] # order[j]
  <2> SUFFICES ASSUME NEW i \in 1..n, NEW j \in 1..n, i # j PROVE order[i] # order[j]
    OBVIOUS
  <2>1. i < j \/ j < i
    BY <1>1
  <2> QED
    BY <1>2, <1>3, <2>1
<1>5. \A s \in Idle(S) : \E j \in 1..n : order[j] = s
  <2>1. order \in Injection(1..n, Idle(S))
    BY <1>2, <1>4 DEF Injection, IsInjective
  <2>2. Cardinality(1..n) = n
    BY <1>1, FS_Interval
  <2>3. order \in Surjection(1..n, Idle(S))
    BY <1>1, <2>1, <2>2, FS_Injection DEF n
  <2> QED
    BY <2>3 DEF Surjection
<1> DEFINE p == [i \in 1..n |-> Ev("write", order[i], 0)]
<1>6. \A i \in 1..n : /\ p[i] \in Event /\ p[i].op = "write" /\ p[i].s = order[i]
  BY <1>3, Small, EvTypes DEF Ops
<1>7. p \in Seq(Event) /\ Len(p) = n
  <2>1. p \in [1..n -> Event]
    BY <1>6
  <2> QED
    BY <1>1, <2>1, SeqDef, LenProperties
<1>8. tasks' = [tasks EXCEPT ![t] = @ \o p]
  BY <1>2
<1> HIDE DEF p
<1>9. \A j \in 1..Len(p) : p[j].op = "write" /\ p[j].s \in Idle(S)
  BY <1>2, <1>6, <1>7
<1>10. \A s \in Idle(S) : \E j \in 1..Len(p) : p[j].op = "write" /\ p[j].s = s
  BY <1>5, <1>6, <1>7
<1>11. \A i, j \in 1..Len(p) : i < j => p[i].s # p[j].s
  <2> TAKE i \in 1..Len(p), j \in 1..Len(p)
  <2> HAVE i < j
  <2>1. i \in 1..n /\ j \in 1..n /\ i # j
    BY <1>1, <1>7
  <2> QED
    BY <1>4, <1>6, <2>1
<1> QED
  BY <1>7, <1>8, <1>9, <1>10, <1>11

\* What WriteData does to the data of a session.
LEMMA WriteDataTypes ==
  ASSUME TypeOK, NEW t \in Threads, NEW S \in SUBSET Ids, NEW d \in Messages,
         WriteData(t, S, d)
  PROVE  /\ tasks' \in [Threads -> Seq(Event)]
         /\ pending' \in [Ids -> BOOLEAN]
         /\ sendQueue' \in [Ids -> Seq(Messages)] /\ sendBuf' \in [Ids -> Seq(Messages)]
         /\ accepted' \in [Ids -> Seq(Messages)]
         /\ UNCHANGED <<inFlight, written>>
<1>1. PICK p \in Seq(Event) : tasks' = [tasks EXCEPT ![t] = @ \o p]
  BY WriteDataPosts
<1>2. tasks[t] \o p \in Seq(Event)
  BY QueueTypes, ConcatProperties
<1>3. tasks' \in [Threads -> Seq(Event)]
  BY <1>1, <1>2 DEF TypeOK
<1>4. \A s \in Ids : /\ sendQueue[s] \in Seq(Messages) /\ sendBuf[s] \in Seq(Messages)
                     /\ accepted[s] \in Seq(Messages) /\ pending[s] \in BOOLEAN
  BY DEF TypeOK
<1>5. \A s \in Ids : /\ Append(sendQueue[s], d) \in Seq(Messages)
                     /\ Append(accepted[s], d) \in Seq(Messages)
  BY <1>4, AppendProperties
<1>6. \A s \in Ids : sendBuf[s] \o Append(sendQueue[s], d) \in Seq(Messages)
  BY <1>4, <1>5, ConcatProperties
<1>7. <<>> \in Seq(Messages)
  BY EmptySeq
<1>8. sendQueue' \in [Ids -> Seq(Messages)]
  BY <1>4, <1>5, <1>7 DEF WriteData
<1>9. sendBuf' \in [Ids -> Seq(Messages)]
  BY <1>4, <1>6 DEF WriteData
<1>10. accepted' \in [Ids -> Seq(Messages)]
  BY <1>4, <1>5 DEF WriteData
<1>11. pending' \in [Ids -> BOOLEAN]
  BY <1>4 DEF WriteData
<1> QED
  BY <1>3, <1>8, <1>9, <1>10, <1>11 DEF WriteData
-----------------------------------------------------------------------------
(* Types.                                                                  *)

LEMMA TypeInit == Init => TypeOK
<1> SUFFICES ASSUME Init PROVE TypeOK
  OBVIOUS
<1>1. Ev("listen", 0, 0) \in Event /\ <<Ev("listen", 0, 0)>> \in Seq(Event)
  BY Small, EvTypes DEF Ops
<1>2. <<>> \in Seq(Event) /\ <<>> \in Seq(Messages)
  BY EmptySeq
<1>3. tasks \in [Threads -> Seq(Event)] /\ batch \in [Threads -> Seq(Event)]
  BY <1>1, <1>2 DEF Init
<1>4. 0 \in 0..ThreadCount /\ 0 \in 0..MaxIds /\ 0 \in 0..MaxSends /\ 0 \in 0..MaxCloses
      /\ 0 \in Threads
  BY UvAssumption, Small
<1> QED
  BY <1>2, <1>3, <1>4 DEF Init, TypeOK

\* The application and TryStopNetWork.
LEMMA TypeUser ==
  ASSUME TypeOK, LoopInv,
         \/ DoSendDataAll \/ TryStopNetWork \/ StopThread \/ JoinThread
         \/ \E s \in Ids : DoSendData(s) \/ DoCloseSession(s) \/ PeerGone(s)
  PROVE  TypeOK'
<1> USE DEF threadVars, stopVars, acceptVars, lifeVars, sendVars, userVars
<1>1. ASSUME NEW s \in Ids, DoSendData(s) PROVE TypeOK'
  <2>1. sends + 1 \in Messages /\ sends' \in 0..MaxSends
    BY <1>1, Small DEF DoSendData, TypeOK
  <2>2. ThreadOf(s) \in Threads /\ Ev("send", s, sends + 1) \in Event
    BY <2>1, Small, EvTypes DEF Ops
  <2>3. tasks' \in [Threads -> Seq(Event)]
    BY <1>1, <2>2, PostType DEF DoSendData
  <2> QED
    BY <1>1, <2>1, <2>3 DEF DoSendData, TypeOK
<1>2. CASE DoSendDataAll
  <2>0. broadcast[1] \in 0..MaxSends /\ broadcast[2] \in Threads
    BY DEF TypeOK
  <2>1. CASE broadcast[1] = 0 /\ sends < MaxSends
    <3>1. sends + 1 \in 0..MaxSends /\ 0 \in Threads
      BY <2>1, Small DEF TypeOK
    <3>2. UNCHANGED tasks /\ sends' = sends + 1 /\ broadcast' = <<sends + 1, 0>>
      BY <1>2, <2>1 DEF DoSendDataAll
    <3> QED
      BY <1>2, <3>1, <3>2 DEF DoSendDataAll, TypeOK
  <2>2. CASE broadcast[1] # 0
    <3>1. PostEvent(broadcast[2], Ev("sendAll", 0, broadcast[1])) /\ UNCHANGED sends
          /\ broadcast' = IF broadcast[2] + 1 = ThreadCount THEN <<0, 0>>
                          ELSE <<broadcast[1], broadcast[2] + 1>>
      BY <1>2, <2>2 DEF DoSendDataAll
    <3>2. Ev("sendAll", 0, broadcast[1]) \in Event
      BY <2>0, Small, EvTypes DEF Ops
    <3>3. tasks' \in [Threads -> Seq(Event)]
      BY <2>0, <3>1, <3>2, PostType
    <3>4. broadcast[2] + 1 # ThreadCount => broadcast[2] + 1 \in Threads
      BY <2>0, UvAssumption DEF Threads
    <3>5. broadcast' \in (0..MaxSends) \X Threads
      BY <2>0, <3>1, <3>4, Small
    <3> QED
      BY <1>2, <3>1, <3>3, <3>5 DEF DoSendDataAll, TypeOK
  <2> QED
    BY <1>2, <2>1, <2>2 DEF DoSendDataAll
<1>3. ASSUME NEW s \in Ids, DoCloseSession(s) PROVE TypeOK'
  <2>1. closes' \in 0..MaxCloses
    BY <1>3, UvAssumption DEF DoCloseSession, TypeOK
  <2>2. ThreadOf(s) \in Threads /\ Ev("close", s, 0) \in Event
    BY Small, EvTypes DEF Ops
  <2>3. tasks' \in [Threads -> Seq(Event)]
    BY <1>3, <2>2, PostType DEF DoCloseSession
  <2> QED
    BY <1>3, <2>1, <2>3 DEF DoCloseSession, TypeOK
<1>4. CASE TryStopNetWork
  <2>1. 0 \in Threads /\ Ev("closeListen", 0, 0) \in Event
    BY Small, EvTypes DEF Ops
  <2>2. tasks' \in [Threads -> Seq(Event)]
    BY <1>4, <2>1, PostType DEF TryStopNetWork
  <2> QED
    BY <1>4, <2>2 DEF TryStopNetWork, TypeOK
<1>5. CASE StopThread
  BY <1>5 DEF StopThread, TypeOK
<1>6. CASE JoinThread
  <2>1. at' \in 0..ThreadCount /\ stop' \in {"no", "flag", "join", "done"}
    BY <1>6, UvAssumption DEF JoinThread, TypeOK, LoopInv
  <2> QED
    BY <1>6, <2>1 DEF JoinThread, TypeOK
<1>7. ASSUME NEW s \in Ids, PeerGone(s) PROVE TypeOK'
  BY <1>7 DEF PeerGone, TypeOK
<1> QED
  BY <1>1, <1>2, <1>3, <1>4, <1>5, <1>6, <1>7

\* The task that is run is the first of the queue.
LEMMA HeadTask ==
  ASSUME TypeOK, TasksSound, NEW t \in Threads, NEW op, RunTask(t, op)
  PROVE  /\ 1 \in Positions(t) /\ Queue(t)[1] = Task(t)
         /\ Task(t) \in Event /\ Task(t).op = op /\ Sound(Task(t), t)
<1> DEFINE b == batch[t]
           a == tasks[t]
<1>1. b \in Seq(Event) /\ b # <<>> /\ a \in Seq(Event) /\ Queue(t) = b \o a
      /\ Queue(t) \in Seq(Event)
  BY RunType, QueueTypes DEF Queue
<1> HIDE DEF a, b
<1>2. Queue(t) # <<>> /\ Head(Queue(t)) = Head(b)
  BY <1>1, ConcatHeadTail
<1>3. 1 \in 1..Len(Queue(t)) /\ Queue(t)[1] = Head(Queue(t))
  <2>1. Len(Queue(t)) \in Nat /\ Len(Queue(t)) # 0
    BY <1>1, <1>2, EmptySeq, LenProperties
  <2> QED
    BY <2>1
<1>4. 1 \in Positions(t) /\ Queue(t)[1] = Task(t)
  BY <1>2, <1>3 DEF Positions, Task, b
<1>5. Sound(Task(t), t)
  BY <1>4 DEF TasksSound
<1> QED
  BY <1>4, <1>5, RunType

\* The session of a task that is about one.
LEMMA TaskSession ==
  ASSUME TypeOK, TasksSound, NEW t \in Threads, NEW op \in Targeted, RunTask(t, op)
  PROVE  Task(t).s \in Ids /\ ThreadOf(Task(t).s) = t /\ Task(t).s \in 0..MaxIds
BY HeadTask, Small DEF Sound

LEMMA TypeHandle ==
  ASSUME TypeOK, TasksSound, NEW t \in Threads, Handle(t)
  PROVE  TypeOK'
<1> USE DEF stopVars, acceptVars, lifeVars, sendVars, userVars
<1> DEFINE s == Task(t).s
           Read == {"open", "closing", "freed", "none"}
<1>0. \A op : RunTask(t, op) => /\ batch' \in [Threads -> Seq(Event)]
                                /\ UNCHANGED <<stopVars, peer, wire, userVars>>
  BY RunType DEF RunTask
<1>1. CASE HandleListen(t)
  <2>1. batch' \in [Threads -> Seq(Event)] /\ UNCHANGED <<stopVars, peer, wire, userVars>>
    BY <1>0, <1>1 DEF HandleListen
  <2>2. listener' \in {"none", "open", "failed", "closed"}
    BY <1>1 DEF HandleListen
  <2> QED
    BY <1>1, <2>1, <2>2 DEF HandleListen, TypeOK
<1>2. CASE CloseListen(t)
  <2>1. batch' \in [Threads -> Seq(Event)] /\ UNCHANGED <<stopVars, peer, wire, userVars>>
    BY <1>0, <1>2 DEF CloseListen
  <2> QED
    BY <1>2, <2>1 DEF CloseListen, TypeOK
<1>3. CASE HandleAccept(t)
  <2>1. batch' \in [Threads -> Seq(Event)] /\ UNCHANGED <<stopVars, peer, wire, userVars>>
    BY <1>0, <1>3 DEF HandleAccept
  <2>2. s \in Ids /\ s \in 0..MaxIds
    BY <1>3, TaskSession DEF HandleAccept, Targeted
  <2>3. Ev(IF waiting THEN "add" ELSE "close", s, 0) \in Event
    BY <2>2, Small, EvTypes DEF Ops
  <2>4. tasks' \in [Threads -> Seq(Event)]
    BY <1>3, <2>3, PostType DEF HandleAccept
  <2>5. obj' \in [Ids -> {"none", "open", "closing", "freed"}] /\ waiting' \in BOOLEAN
    BY <1>3, <2>2 DEF HandleAccept, TypeOK
  <2> QED
    BY <1>3, <2>1, <2>4, <2>5 DEF HandleAccept, TypeOK
<1>4. CASE HandleAddSession(t)
  <2>1. batch' \in [Threads -> Seq(Event)] /\ UNCHANGED <<stopVars, peer, wire, userVars>>
    BY <1>0, <1>4 DEF HandleAddSession
  <2>2. s \in Ids /\ s \in 0..MaxIds
    BY <1>4, TaskSession DEF HandleAddSession, Targeted
  <2>3. Ev("read", s, 0) \in Event
    BY <2>2, Small, EvTypes DEF Ops
  <2>4. tasks' \in [Threads -> Seq(Event)]
    BY <1>4, <2>3, PostType DEF HandleAddSession
  <2>5. members' \subseteq Ids /\ added' \in [Ids -> Nat]
    <3>1. added \in [Ids -> Nat] /\ added[s] + 1 \in Nat
      <4>1. added \in [Ids -> Nat]
        BY DEF TypeOK
      <4> HIDE DEF s
      <4>2. added[s] \in Nat
        BY <2>2, <4>1
      <4> QED
        BY <4>1, <4>2
    <3>2. added' = [added EXCEPT ![s] = added[s] + 1] /\ members' = members \cup {s}
      BY <1>4 DEF HandleAddSession
    <3> QED
      BY <2>2, <3>1, <3>2 DEF TypeOK
  <2> QED
    BY <1>4, <2>1, <2>4, <2>5 DEF HandleAddSession, TypeOK
<1>5. CASE StartReceive(t)
  <2>1. batch' \in [Threads -> Seq(Event)] /\ UNCHANGED <<stopVars, peer, wire, userVars>>
    BY <1>0, <1>5 DEF StartReceive
  <2>2. reading' \in [Ids -> BOOLEAN]
    BY <1>5 DEF StartReceive, TypeOK
  <2>3. loop' \in [Threads -> {"check", "tasks", "io", "drain", "spin", "done",
                               "undefined"}]
    BY <1>5 DEF StartReceive, TypeOK
  <2> QED
    BY <1>5, <2>1, <2>2, <2>3 DEF StartReceive, TypeOK
<1>6. CASE HandleCloseSession(t)
  <2>1. batch' \in [Threads -> Seq(Event)] /\ UNCHANGED <<stopVars, peer, wire, userVars>>
    BY <1>0, <1>6 DEF HandleCloseSession
  <2>2. s \in Ids /\ s \in 0..MaxIds
    BY <1>6, TaskSession DEF HandleCloseSession, Targeted
  <2>3. CASE s \in members
    <3>1. /\ obj' = [obj EXCEPT ![s] = "closing"]
          /\ reading' = [reading EXCEPT ![s] = FALSE]
          /\ members' = members \ {s} /\ closed' = [closed EXCEPT ![s] = @ + 1]
      BY <1>6, <2>3 DEF HandleCloseSession
    <3>2. closed \in [Ids -> Nat] /\ closed[s] + 1 \in Nat
      <4>1. closed \in [Ids -> Nat]
        BY DEF TypeOK
      <4> HIDE DEF s
      <4>2. closed[s] \in Nat
        BY <2>2, <4>1
      <4> QED
        BY <4>1, <4>2
    <3>3. closed' \in [Ids -> Nat]
      BY <2>2, <3>1, <3>2
    <3>4. obj' \in [Ids -> {"none", "open", "closing", "freed"}]
          /\ reading' \in [Ids -> BOOLEAN] /\ members' \subseteq Ids
      BY <3>1 DEF TypeOK
    <3> QED
      BY <1>6, <2>1, <3>3, <3>4 DEF HandleCloseSession, TypeOK
  <2>4. CASE s \notin members
    <3>1. UNCHANGED <<obj, reading, members, closed>>
      BY <1>6, <2>4 DEF HandleCloseSession
    <3> QED
      BY <1>6, <2>1, <3>1 DEF HandleCloseSession, TypeOK
  <2> QED
    BY <2>3, <2>4
<1>7. ASSUME NEW op \in {"send", "sendAll"}, RunTask(t, op), NEW S \in SUBSET Ids,
             WriteData(t, S, Task(t).d), UNCHANGED <<loop, acceptVars, lifeVars>>
      PROVE  TypeOK'
  <2>1. batch' \in [Threads -> Seq(Event)] /\ UNCHANGED <<stopVars, peer, wire, userVars>>
    BY <1>0, <1>7
  <2>2. Task(t).d \in Messages
    BY <1>7, HeadTask DEF Sound
  <2>3. /\ tasks' \in [Threads -> Seq(Event)]
        /\ pending' \in [Ids -> BOOLEAN]
        /\ sendQueue' \in [Ids -> Seq(Messages)] /\ sendBuf' \in [Ids -> Seq(Messages)]
        /\ accepted' \in [Ids -> Seq(Messages)]
        /\ UNCHANGED <<inFlight, written>>
    BY <1>7, <2>2, WriteDataTypes
  <2> QED
    BY <1>7, <2>1, <2>3 DEF TypeOK
<1>8. CASE HandleSendData(t)
  <2>1. {Task(t).s} \cap members \in SUBSET Ids
    BY DEF TypeOK
  <2> QED
    BY <1>7, <1>8, <2>1 DEF HandleSendData
<1>9. CASE HandleSendDataAll(t)
  <2>1. Of(t) \cap members \in SUBSET Ids
    BY DEF TypeOK
  <2> QED
    BY <1>7, <1>9, <2>1 DEF HandleSendDataAll
<1>10. CASE WriteTask(t)
  <2>1. batch' \in [Threads -> Seq(Event)] /\ UNCHANGED <<stopVars, peer, wire, userVars>>
    BY <1>0, <1>10 DEF WriteTask
  <2>2. s \in Ids
    BY <1>10, TaskSession DEF WriteTask, Targeted
  <2>3. inFlight \in [Ids -> BOOLEAN] /\ (inFlight[s] \/ obj[s] = "open") \in BOOLEAN
    BY DEF TypeOK
  <2>4. inFlight' = [inFlight EXCEPT ![s] = inFlight[s] \/ obj[s] = "open"]
    BY <1>10 DEF WriteTask
  <2>5. inFlight' \in [Ids -> BOOLEAN]
    BY <2>2, <2>3, <2>4
  <2>6. loop' \in [Threads -> {"check", "tasks", "io", "drain", "spin", "done",
                               "undefined"}]
    BY <1>10 DEF WriteTask, TypeOK
  <2> QED
    BY <1>10, <2>1, <2>5, <2>6 DEF WriteTask, TypeOK
<1> QED
  BY <1>1, <1>2, <1>3, <1>4, <1>5, <1>6, <1>8, <1>9, <1>10 DEF Handle

\* The rest of a network thread.
LEMMA TypeLoop ==
  ASSUME TypeOK, NEW t \in Threads,
         \/ SwapTasks(t) \/ BatchEnd(t) \/ EndRun(t) \/ ConnectCB(t)
         \/ \E s \in Ids :
              \/ ReadEnd(t, s) \/ Transmit(t, s) \/ OnWriteDataCB(t, s)
              \/ \E to \in Ids : ReadReply(t, s, to)
  PROVE  TypeOK'
<1> USE DEF stopVars, acceptVars, lifeVars, sendVars, userVars
<1>0. <<>> \in Seq(Event) /\ <<>> \in Seq(Messages)
  BY EmptySeq
<1>1. CASE SwapTasks(t)
  <2>1. tasks' \in [Threads -> Seq(Event)] /\ batch' \in [Threads -> Seq(Event)]
    BY <1>0, <1>1 DEF SwapTasks, TypeOK
  <2>2. loop' \in [Threads -> {"check", "tasks", "io", "drain", "spin", "done",
                               "undefined"}]
    BY <1>1 DEF SwapTasks, TypeOK
  <2> QED
    BY <1>1, <2>1, <2>2 DEF SwapTasks, TypeOK
<1>2. CASE BatchEnd(t)
  <2>1. loop' \in [Threads -> {"check", "tasks", "io", "drain", "spin", "done",
                               "undefined"}]
    <3>1. \E l \in {"io", "spin"} : loop' = [loop EXCEPT ![t] = l]
      BY <1>2 DEF BatchEnd
    <3> QED
      BY <3>1 DEF TypeOK
  <2>2. obj' \in [Ids -> {"none", "open", "closing", "freed"}] /\ members' \subseteq Ids
    <3>1. \/ UNCHANGED <<obj, members>>
          \/ /\ members' = members \ Of(t)
             /\ obj' = [s \in Ids |-> IF s \in Of(t) \cap members THEN "closing"
                                      ELSE obj[s]]
      BY <1>2 DEF BatchEnd
    <3>2. /\ obj \in [Ids -> {"none", "open", "closing", "freed"}]
          /\ members \subseteq Ids
      BY DEF TypeOK
    <3> QED
      BY ONLY <3>1, <3>2
  <2>3. reading' \in [Ids -> BOOLEAN]
    BY <1>2 DEF BatchEnd, TypeOK
  <2> QED
    BY <1>2, <2>1, <2>2, <2>3 DEF BatchEnd, TypeOK
<1>3. CASE EndRun(t)
  <2>1. loop' \in [Threads -> {"check", "tasks", "io", "drain", "spin", "done",
                               "undefined"}]
    <3>1. \E l \in {"check", "done"} : loop' = [loop EXCEPT ![t] = l]
      BY <1>3 DEF EndRun
    <3> QED
      BY <3>1 DEF TypeOK
  <2>2. obj' \in [Ids -> {"none", "open", "closing", "freed"}]
    BY <1>3 DEF EndRun, TypeOK
  <2>3. pending' \in [Ids -> BOOLEAN] /\ inFlight' \in [Ids -> BOOLEAN]
    BY <1>3 DEF EndRun, TypeOK
  <2>4. written' \in [Ids -> Nat]
    BY <1>3 DEF EndRun, TypeOK
  <2>5. sendQueue' \in [Ids -> Seq(Messages)] /\ sendBuf' \in [Ids -> Seq(Messages)]
    BY <1>0, <1>3 DEF EndRun, TypeOK
  <2> QED
    BY <1>3, <2>1, <2>2, <2>3, <2>4, <2>5 DEF EndRun, TypeOK
<1>4. CASE ConnectCB(t)
  <2>1. ids' \in 0..MaxIds /\ ids + 1 \in Ids
    BY <1>4, UvAssumption DEF ConnectCB, TypeOK, Ids
  <2>2. ThreadOf(ids + 1) \in Threads /\ Ev("accept", ids + 1, 0) \in Event
    BY <2>1, Small, EvTypes DEF Ops
  <2>3. tasks' \in [Threads -> Seq(Event)] /\ waiting' \in BOOLEAN
    <3>1. CASE waiting' = TRUE /\ PostEvent(ThreadOf(ids + 1), Ev("accept", ids + 1, 0))
      BY <2>2, <3>1, PostType
    <3>2. CASE UNCHANGED <<waiting, tasks>>
      BY <3>2 DEF TypeOK
    <3> QED
      BY <1>4, <3>1, <3>2 DEF ConnectCB
  <2> QED
    BY <1>4, <2>1, <2>3 DEF ConnectCB, Callback, TypeOK
<1>5. ASSUME NEW s \in Ids, ReadEnd(t, s) PROVE TypeOK'
  <2>1. Ev("close", s, 0) \in Event
    BY Small, EvTypes DEF Ops
  <2>2. tasks' \in [Threads -> Seq(Event)] /\ reading' \in [Ids -> BOOLEAN]
    BY <1>5, <2>1, PostType DEF ReadEnd, TypeOK
  <2> QED
    BY <1>5, <2>2 DEF ReadEnd, Callback, TypeOK
<1>6. ASSUME NEW s \in Ids, Transmit(t, s) PROVE TypeOK'
  <2>1. sendBuf[s] \in Seq(Messages) /\ wire[s] \in Seq(Messages) /\ written[s] \in Nat
    BY DEF TypeOK
  <2>2. written[s] + 1 \in 1..Len(sendBuf[s])
    BY <1>6, <2>1, LenProperties DEF Transmit
  <2>3. sendBuf[s][written[s] + 1] \in Messages
    BY <2>1, <2>2, ElementOfSeq
  <2>4. Append(wire[s], sendBuf[s][written[s] + 1]) \in Seq(Messages)
    BY <2>1, <2>3, AppendProperties
  <2>5. wire' \in [Ids -> Seq(Messages)]
    BY <1>6, <2>4 DEF Transmit, TypeOK
  <2>6. written' \in [Ids -> Nat]
    <3>1. written[s] + 1 \in Nat
      BY <2>1
    <3>2. written \in [Ids -> Nat] /\ written' = [written EXCEPT ![s] = written[s] + 1]
      BY <1>6 DEF Transmit, TypeOK
    <3> QED
      BY <3>1, <3>2
  <2> QED
    BY <1>6, <2>5, <2>6 DEF Transmit, Callback, TypeOK
<1>7. ASSUME NEW s \in Ids, OnWriteDataCB(t, s) PROVE TypeOK'
  <2>1. inFlight' \in [Ids -> BOOLEAN] /\ pending' \in [Ids -> BOOLEAN]
        /\ written' \in [Ids -> Nat]
    BY <1>7 DEF OnWriteDataCB, TypeOK
  <2>2. sendBuf' \in [Ids -> Seq(Messages)]
    BY <1>0, <1>7 DEF OnWriteDataCB, TypeOK
  <2> QED
    BY <1>7, <2>1, <2>2 DEF OnWriteDataCB, Callback, TypeOK
<1>8. ASSUME NEW s \in Ids, NEW to \in Ids, ReadReply(t, s, to) PROVE TypeOK'
  <2>1. sends + 1 \in Messages /\ sends' \in 0..MaxSends
    BY <1>8, Small DEF ReadReply, TypeOK
  <2>2. ThreadOf(to) \in Threads /\ Ev("send", to, sends + 1) \in Event
    BY <2>1, Small, EvTypes DEF Ops
  <2>3. CASE Gone(ThreadOf(to))
    BY <1>8, <2>1, <2>3 DEF ReadReply, Callback, TypeOK
  <2>4. CASE ~Gone(ThreadOf(to))
    <3>1. tasks' \in [Threads -> Seq(Event)]
      BY <1>8, <2>2, <2>4, PostType DEF ReadReply
    <3> QED
      BY <1>8, <2>1, <2>4, <3>1 DEF ReadReply, Callback, TypeOK
  <2> QED
    BY <2>3, <2>4
<1> QED
  BY <1>1, <1>2, <1>3, <1>4, <1>5, <1>6, <1>7, <1>8
-----------------------------------------------------------------------------
(* Steps that change no session.                                           *)

\* What a step leaves of a session.
Unmoved(s) ==
  /\ s \in members' <=> s \in members
  /\ obj'[s] = obj[s] /\ added'[s] = added[s] /\ closed'[s] = closed[s]
  /\ pending'[s] = pending[s] /\ inFlight'[s] = inFlight[s]
  /\ written'[s] = written[s] /\ sendQueue'[s] = sendQueue[s]
  /\ sendBuf'[s] = sendBuf[s] /\ wire'[s] = wire[s] /\ accepted'[s] = accepted[s]
  /\ reading'[s] => reading[s] \/ added[s] # 0
  /\ peer'[s] = "up" => peer[s] = "up"

LEMMA UnmovedSession ==
  ASSUME TypeOK, TypeOK', ids <= ids', NEW s \in Ids, Session(s), Unmoved(s),
         Waits(s) => Waits(s)'
  PROVE  Session(s)'
<1>1. Fresh(s)'
  <2>1. s \in Int /\ ids \in Int /\ ids' \in Int
    BY Small, UvAssumption DEF TypeOK
  <2>2. obj'[s] # "none" => s <= ids'
    BY <2>1 DEF Session, Fresh, Unmoved
  <2> QED
    BY <2>2 DEF Session, Fresh, Unmoved
<1>2. Matches(s)'
  BY DEF Session, Matches, Unmoved
<1>3. Writing(s)'
  BY DEF Session, Writing, Unmoved
<1>4. Intact(s)'
  BY DEF Session, Intact, Unmoved, Rest
<1> QED
  BY <1>1, <1>2, <1>3, <1>4 DEF Session

\* A step of the queues that leaves every session, and what it is to write.
LEMMA QuietStep ==
  ASSUME TypeOK, TypeOK', TasksSound, TasksFit, SessionInv,
         NEW t \in Threads, NEW k \in {0, 1}, NEW p \in Seq(Event), Moves(t, k, p),
         ids <= ids', \A s \in Ids : Unmoved(s),
         \A u \in Threads : loop'[u] \notin {"spin", "done"} =>
                              loop[u] \notin {"spin", "done"},
         k = 1 => Queue(t)[1].op # "write",
         \A j \in 1..Len(p) : Sound(p[j], t)',
         \A e \in Event : Sound(e, t) /\ (k = 1 => Fits(Queue(t)[1], e)) =>
           \A j \in 1..Len(p) : Fits(e, p[j]),
         Len(p) <= 1
  PROVE  TasksSound' /\ TasksFit' /\ SessionInv'
<1>1. ASSUME NEW u \in Threads, NEW e \in Event, Sound(e, u) PROVE Sound(e, u)'
  <2>1. e.op \in Targeted => e.s \in Of(u) /\ e.s \in Ids
    BY <1>1, Small DEF Sound
  <2>2. e.op \in Targeted => Unmoved(e.s)
    BY <2>1
  <2>3. e.op = "accept" => e.s <= ids'
    <3>1. e.s \in Int /\ ids \in Int /\ ids' \in Int
      <4>1. e.s \in 0..MaxIds /\ ids \in 0..MaxIds /\ ids' \in 0..MaxIds
        BY EvTypes DEF TypeOK
      <4> QED
        BY <4>1, UvAssumption
    <3> QED
      BY <1>1, <3>1 DEF Sound
  <2> QED
    BY <1>1, <2>1, <2>2, <2>3 DEF Sound, Unmoved, Targeted
<1>2. \A i, j \in 1..Len(p) : i < j => Fits(p[i], p[j])
  <2>1. Len(p) \in Nat
    BY LenProperties
  <2>2. \A i, j \in 1..Len(p) : ~(i < j)
    BY <2>1
  <2> QED
    BY <2>2
<1>3. TasksSound' /\ TasksFit'
  BY <1>1, <1>2, TasksStep
<1>4. ASSUME NEW s \in Ids PROVE Session(s)'
  <2>1. Waits(s) => Waits(s)'
    BY WaitsStep
  <2> QED
    BY <2>1, UnmovedSession DEF SessionInv
<1> QED
  BY <1>3, <1>4 DEF SessionInv

\* One task, or none, joins a queue.
LEMMA QuietPost ==
  ASSUME TypeOK, TypeOK', TasksSound, TasksFit, SessionInv,
         NEW t \in Threads, NEW k \in {0, 1}, NEW x \in Event, Moves(t, k, <<x>>),
         ids <= ids', \A s \in Ids : Unmoved(s),
         \A u \in Threads : loop'[u] \notin {"spin", "done"} =>
                              loop[u] \notin {"spin", "done"},
         k = 1 => Queue(t)[1].op # "write",
         Sound(x, t)',
         \A e \in Event : Sound(e, t) /\ (k = 1 => Fits(Queue(t)[1], e)) => Fits(e, x)
  PROVE  TasksSound' /\ TasksFit' /\ SessionInv'
<1> DEFINE p == <<x>>
<1>1. p \in Seq(Event) /\ Len(p) = 1 /\ \A j \in 1..Len(p) : p[j] = x
  OBVIOUS
<1>2. Moves(t, k, p)
  OBVIOUS
<1> HIDE DEF p
<1>3. \A j \in 1..Len(p) : Sound(p[j], t)'
  BY <1>1
<1>4. \A e \in Event : Sound(e, t) /\ (k = 1 => Fits(Queue(t)[1], e)) =>
        \A j \in 1..Len(p) : Fits(e, p[j])
  BY <1>1
<1>5. Len(p) <= 1
  BY <1>1
<1> QED
  BY <1>1, <1>2, <1>3, <1>4, <1>5, QuietStep

LEMMA QuietNone ==
  ASSUME TypeOK, TypeOK', TasksSound, TasksFit, SessionInv,
         NEW t \in Threads, NEW k \in {0, 1}, Moves(t, k, <<>>),
         ids <= ids', \A s \in Ids : Unmoved(s),
         \A u \in Threads : loop'[u] \notin {"spin", "done"} =>
                              loop[u] \notin {"spin", "done"},
         k = 1 => Queue(t)[1].op # "write"
  PROVE  TasksSound' /\ TasksFit' /\ SessionInv'
<1> DEFINE p == <<>>
<1>1. p \in Seq(Event) /\ Len(p) = 0 /\ \A j \in 1..Len(p) : FALSE
  BY EmptySeq
<1>2. Moves(t, k, p)
  OBVIOUS
<1> HIDE DEF p
<1>3. Len(p) <= 1
  BY <1>1
<1> QED
  BY <1>1, <1>2, <1>3, QuietStep

LEMMA FitsCases ==
  ASSUME NEW e, NEW x
  PROVE  Fits(e, x) <=>
           \/ e.s # x.s
           \/ /\ ~(e.op = "accept" /\ x.op = "accept") /\ ~(e.op = "add" /\ x.op = "add")
              /\ ~(e.op = "add" /\ x.op = "close") /\ ~(e.op = "close" /\ x.op = "add")
              /\ ~(e.op = "close" /\ x.op = "read") /\ ~(e.op = "write" /\ x.op = "write")
<1>1. \A a, b, c, d : <<a, b>> = <<c, d>> <=> a = c /\ b = d
  OBVIOUS
<1> QED
  BY <1>1 DEF Fits, Clashes

\* What the sound tasks of a session say of each other.
LEMMA SessionFacts ==
  ASSUME TypeOK, SessionInv, NEW s \in Ids
  PROVE  /\ obj[s] = "none" => added[s] = 0
         /\ obj[s] # "none" => s <= ids
         /\ added[s] \in {0, 1} /\ closed[s] \in {0, 1}
         /\ added[s] = 0 =>
              /\ ~reading[s] /\ ~pending[s] /\ ~inFlight[s] /\ written[s] = 0
              /\ sendQueue[s] = <<>> /\ sendBuf[s] = <<>>
              /\ wire[s] = <<>> /\ accepted[s] = <<>>
         /\ s \in members <=> added[s] = 1 /\ obj[s] = "open"
<1>1. added[s] \in Nat /\ closed[s] \in Nat
  BY DEF TypeOK
<1>2. Fresh(s) /\ Matches(s)
  BY DEF SessionInv, Session
<1>3. added[s] \in {0, 1} /\ closed[s] \in {0, 1}
  BY <1>1, <1>2 DEF Matches
<1> QED
  BY <1>2, <1>3 DEF Fresh, Matches

\* The application and TryStopNetWork.
LEMMA UserStep ==
  ASSUME TypeOK, TypeOK', LoopInv, TasksSound, TasksFit, SessionInv,
         \/ DoSendDataAll \/ TryStopNetWork \/ StopThread \/ JoinThread
         \/ \E s \in Ids : DoSendData(s) \/ DoCloseSession(s) \/ PeerGone(s)
  PROVE  TasksSound' /\ TasksFit' /\ SessionInv'
<1>1. UNCHANGED <<lifeVars, sendVars, wire, ids, batch, loop>> => ids <= ids'
  BY UvAssumption DEF TypeOK
<1>2. UNCHANGED <<lifeVars, sendVars, wire, peer>> => \A s \in Ids : Unmoved(s)
  BY DEF lifeVars, sendVars, Unmoved
<1>3. ASSUME NEW s \in Ids, DoSendData(s) PROVE TasksSound' /\ TasksFit' /\ SessionInv'
  <2> DEFINE t == ThreadOf(s)
  <2>1. sends + 1 \in Messages
    BY <1>3, Small DEF DoSendData, TypeOK
  <2>2. PICK d \in Messages : d = sends + 1
    BY <2>1
  <2>3. PICK x : x = Ev("send", s, d)
    OBVIOUS
  <2>4. t \in Threads /\ s \in Of(t) /\ x \in Event /\ x.op = "send" /\ x.s = s /\ x.d = d
    BY <2>3, Small, EvTypes DEF Ops
  <2>5. PostEvent(t, x) /\ UNCHANGED <<lifeVars, sendVars, wire, ids, batch, loop, peer>>
    BY <1>3, <2>2, <2>3 DEF DoSendData, acceptVars
  <2> HIDE DEF t
  <2>6. Moves(t, 0, <<x>>)
    BY <2>4, <2>5, PostMoves
  <2>7. Sound(x, t)'
    BY <2>4 DEF Sound
  <2>8. \A e \in Event : Fits(e, x)
    BY <2>4, FitsCases
  <2> QED
    BY <1>1, <1>2, <2>4, <2>5, <2>6, <2>7, <2>8, QuietPost
<1>4. CASE DoSendDataAll
  <2>0. broadcast[1] \in 0..MaxSends /\ broadcast[2] \in Threads
    BY DEF TypeOK
  <2>1. UNCHANGED <<lifeVars, sendVars, wire, ids, batch, loop, peer>>
    BY <1>4 DEF DoSendDataAll, acceptVars
  <2>2. CASE UNCHANGED tasks
    <3>1. Moves(0, 0, <<>>)
      BY <2>1, <2>2, Small, StayMoves DEF Queue
    <3> QED
      BY <1>1, <1>2, <2>1, <3>1, Small, QuietNone
  <2>3. CASE broadcast[1] # 0 /\ PostEvent(broadcast[2], Ev("sendAll", 0, broadcast[1]))
    <3>1. PICK t \in Threads : t = broadcast[2]
      BY <2>0
    <3>2. PICK d \in Messages : d = broadcast[1]
      BY <2>0, <2>3, UvAssumption DEF Messages
    <3>3. PICK x : x = Ev("sendAll", 0, d)
      OBVIOUS
    <3>4. x \in Event /\ x.op = "sendAll" /\ x.d = d
      BY <3>3, Small, EvTypes DEF Ops
    <3>5. Moves(t, 0, <<x>>)
      BY <2>1, <2>3, <3>1, <3>2, <3>3, <3>4, PostMoves
    <3>6. Sound(x, t)'
      BY <3>4 DEF Sound, Targeted
    <3>7. \A e \in Event : Fits(e, x)
      BY <3>4, FitsCases
    <3> QED
      BY <1>1, <1>2, <2>1, <3>4, <3>5, <3>6, <3>7, QuietPost
  <2> QED
    BY <1>4, <2>2, <2>3 DEF DoSendDataAll
<1>5. ASSUME NEW s \in Ids, DoCloseSession(s) PROVE TasksSound' /\ TasksFit' /\ SessionInv'
  <2> DEFINE t == ThreadOf(s)
  <2>1. PICK x : x = Ev("close", s, 0)
    OBVIOUS
  <2>2. t \in Threads /\ s \in Of(t) /\ x \in Event /\ x.op = "close" /\ x.s = s
    BY <2>1, Small, EvTypes DEF Ops
  <2>3. PostEvent(t, x) /\ UNCHANGED <<lifeVars, sendVars, wire, ids, batch, loop, peer>>
    BY <1>5, <2>1 DEF DoCloseSession, acceptVars
  <2> HIDE DEF t
  <2>4. Moves(t, 0, <<x>>)
    BY <2>2, <2>3, PostMoves
  <2>5. added[s] = 1 /\ obj[s] # "none"
    BY <1>5, SessionFacts DEF DoCloseSession
  <2>6. Sound(x, t)'
    BY <2>2, <2>3, <2>5 DEF Sound, lifeVars
  <2>7. \A e \in Event : Sound(e, t) => Fits(e, x)
    BY <2>2, <2>5, FitsCases DEF Sound
  <2> QED
    BY <1>1, <1>2, <2>2, <2>3, <2>4, <2>6, <2>7, QuietPost
<1>6. CASE TryStopNetWork
  <2>1. PICK x : x = Ev("closeListen", 0, 0)
    OBVIOUS
  <2>2. 0 \in Threads /\ x \in Event /\ x.op = "closeListen"
    BY <2>1, Small, EvTypes DEF Ops
  <2>3. PostEvent(0, x) /\ UNCHANGED <<lifeVars, sendVars, wire, ids, batch, loop, peer>>
    BY <1>6, <2>1 DEF TryStopNetWork, acceptVars
  <2>4. Moves(0, 0, <<x>>)
    BY <2>2, <2>3, PostMoves
  <2>5. Sound(x, 0)'
    BY <2>2 DEF Sound, Targeted
  <2>6. \A e \in Event : Fits(e, x)
    BY <2>2, FitsCases
  <2> QED
    BY <1>1, <1>2, <2>2, <2>3, <2>4, <2>5, <2>6, QuietPost
<1>7. ASSUME \/ StopThread \/ JoinThread \/ \E s \in Ids : PeerGone(s)
      PROVE  TasksSound' /\ TasksFit' /\ SessionInv'
  <2>1. UNCHANGED <<lifeVars, sendVars, wire, ids, tasks, batch, loop>>
    BY <1>7 DEF StopThread, JoinThread, PeerGone, threadVars, acceptVars
  <2>2. \A s \in Ids : peer'[s] = "up" => peer[s] = "up"
    <3>1. CASE StopThread \/ JoinThread
      BY <3>1 DEF StopThread, JoinThread
    <3>2. ASSUME NEW s \in Ids, PeerGone(s)
          PROVE  \A x \in Ids : peer'[x] = "up" => peer[x] = "up"
      <4>1. peer' = [peer EXCEPT ![s] = "gone"] /\ peer \in [Ids -> {"up", "gone"}]
        BY <3>2 DEF PeerGone, TypeOK
      <4> QED
        BY <4>1
    <3> QED
      BY <1>7, <3>1, <3>2
  <2>3. \A s \in Ids : Unmoved(s)
    BY <2>1, <2>2 DEF lifeVars, sendVars, Unmoved
  <2>4. Moves(0, 0, <<>>)
    BY <2>1, Small, StayMoves DEF Queue
  <2> QED
    BY <1>1, <2>1, <2>3, <2>4, Small, QuietNone
<1> QED
  BY <1>3, <1>4, <1>5, <1>6, <1>7

\* The steps of a network thread and its callbacks that leave every session,
\* or take nothing but the reading from it.
LEMMA QuietLoopStep ==
  ASSUME TypeOK, TypeOK', LoopInv, TasksSound, TasksFit, SessionInv, NEW t \in Threads,
         \/ SwapTasks(t) \/ HandleListen(t) \/ CloseListen(t) \/ ConnectCB(t)
         \/ StartReceive(t)
         \/ \E s \in Ids : ReadEnd(t, s) \/ \E to \in Ids : ReadReply(t, s, to)
  PROVE  TasksSound' /\ TasksFit' /\ SessionInv'
<1>0. ids \in Int /\ ids' \in Int
  BY UvAssumption DEF TypeOK
<1>1. UNCHANGED ids => ids <= ids'
  BY <1>0
<1>2. UNCHANGED <<lifeVars, sendVars, wire, peer>> => \A s \in Ids : Unmoved(s)
  BY DEF lifeVars, sendVars, Unmoved
<1>3. CASE SwapTasks(t)
  <2>1. UNCHANGED <<lifeVars, sendVars, wire, ids, peer>>
    BY <1>3 DEF SwapTasks, acceptVars
  <2>2. Moves(t, 0, <<>>)
    BY <1>3, SwapStays, StayMoves
  <2>3. \A u \in Threads : loop'[u] \notin {"spin", "done"} =>
                             loop[u] \notin {"spin", "done"}
    BY SMTT(30), <1>3 DEF SwapTasks, TypeOK
  <2> QED
    BY <1>1, <1>2, <2>1, <2>2, <2>3, QuietNone
<1>4. CASE HandleListen(t) \/ CloseListen(t)
  <2>1. PICK op \in {"listen", "closeListen"} : RunTask(t, op)
    BY <1>4 DEF HandleListen, CloseListen
  <2>2. UNCHANGED <<lifeVars, sendVars, wire, ids, peer, tasks, loop>>
    BY <1>4 DEF HandleListen, CloseListen, RunTask
  <2>3. Moves(t, 1, <<>>)
    BY <2>1, <2>2, TaskOnly
  <2>4. Queue(t)[1].op # "write"
    BY <2>1, HeadTask
  <2> QED
    BY <1>1, <1>2, <2>2, <2>3, <2>4, QuietNone
<1>5. CASE ConnectCB(t)
  <2>1. UNCHANGED <<lifeVars, sendVars, wire, peer, loop, batch>> /\ ids <= ids'
    BY <1>0, <1>5 DEF ConnectCB, Callback
  <2>2. CASE UNCHANGED tasks
    <3>1. Moves(t, 0, <<>>)
      BY <2>1, <2>2, StayMoves DEF Queue
    <3> QED
      BY <1>2, <2>1, <3>1, QuietNone
  <2>3. CASE PostEvent(ThreadOf(ids + 1), Ev("accept", ids + 1, 0))
    <3>1. ids + 1 \in Ids
      BY <1>5, UvAssumption DEF ConnectCB, TypeOK, Ids
    <3>2. PICK s \in Ids : s = ids + 1
      BY <3>1
    <3>3. PICK u \in Threads : u = ThreadOf(s) /\ s \in Of(u)
      BY Small
    <3>4. PICK x : x = Ev("accept", s, 0)
      OBVIOUS
    <3>5. x \in Event /\ x.op = "accept" /\ x.s = s
      BY <3>4, Small, EvTypes DEF Ops
    <3>6. Moves(u, 0, <<x>>)
      BY <2>1, <2>3, <3>2, <3>3, <3>4, <3>5, PostMoves
    <3>7. obj[s] = "none" /\ ids' = s
      BY <1>0, <1>5, <3>2, SessionFacts DEF ConnectCB
    <3>8. Sound(x, u)'
      BY <1>0, <2>1, <3>3, <3>5, <3>7 DEF Sound, lifeVars
    <3>9. \A e \in Event : Sound(e, u) => Fits(e, x)
      BY <1>0, <3>2, <3>5, FitsCases DEF Sound
    <3> QED
      BY <1>2, <2>1, <3>5, <3>6, <3>8, <3>9, QuietPost
  <2> QED
    BY <1>5, <2>2, <2>3 DEF ConnectCB
<1>6. CASE StartReceive(t)
  <2>1. RunTask(t, "read") /\ UNCHANGED <<tasks, ids, members, obj, added, closed,
                                          sendVars, wire, peer>>
    BY <1>6 DEF StartReceive, RunTask, acceptVars
  <2>2. Moves(t, 1, <<>>)
    BY <2>1, TaskOnly
  <2>3. Queue(t)[1].op # "write" /\ added[Task(t).s] = 1
    BY <2>1, HeadTask DEF Sound
  <2>4. \A s \in Ids : reading'[s] => reading[s] \/ added[s] # 0
    <3>1. \/ reading' = reading
          \/ reading' = [reading EXCEPT ![Task(t).s] = (obj[Task(t).s] = "open")]
      BY <1>6 DEF StartReceive
    <3>2. \A s \in Ids : s # Task(t).s => reading'[s] = reading[s]
      BY <3>1 DEF TypeOK
    <3>3. \A s \in Ids : s = Task(t).s => added[s] # 0
      BY <2>3
    <3> QED
      BY <3>2, <3>3
  <2>5. \A s \in Ids : Unmoved(s)
    BY <2>1, <2>4 DEF Unmoved, sendVars
  <2>6. \A u \in Threads : loop'[u] \notin {"spin", "done"} =>
                             loop[u] \notin {"spin", "done"}
    <3>1. loop[t] \notin {"spin", "done"}
      BY <2>1 DEF RunTask
    <3> QED
      BY <1>6, <3>1 DEF StartReceive, TypeOK
  <2> QED
    BY <1>1, <2>1, <2>2, <2>3, <2>5, <2>6, QuietNone
<1>7. ASSUME NEW s \in Ids, ReadEnd(t, s) PROVE TasksSound' /\ TasksFit' /\ SessionInv'
  <2>1. PICK x : x = Ev("close", s, 0)
    OBVIOUS
  <2>2. x \in Event /\ x.op = "close" /\ x.s = s /\ s \in Of(t)
    BY <1>7, <2>1, Small, EvTypes DEF ReadEnd, Ops
  <2>3. PostEvent(t, x) /\ UNCHANGED <<members, obj, added, closed, sendVars, wire, ids,
                                       batch, loop, peer>>
    BY <1>7, <2>1 DEF ReadEnd, Callback, acceptVars
  <2>4. Moves(t, 0, <<x>>)
    BY <2>2, <2>3, PostMoves
  <2>5. added[s] = 1 /\ obj[s] # "none"
    BY <1>7, SessionFacts DEF ReadEnd
  <2>6. Sound(x, t)'
    BY <2>2, <2>3, <2>5 DEF Sound
  <2>7. \A e \in Event : Sound(e, t) => Fits(e, x)
    BY <2>2, <2>5, FitsCases DEF Sound
  <2>8. \A r \in Ids : reading'[r] => reading[r]
    BY <1>7 DEF ReadEnd, TypeOK
  <2>9. \A r \in Ids : Unmoved(r)
    BY <2>3, <2>8 DEF Unmoved, sendVars
  <2> QED
    BY <1>1, <2>2, <2>3, <2>4, <2>6, <2>7, <2>9, QuietPost
<1>8. ASSUME NEW s \in Ids, NEW to \in Ids, ReadReply(t, s, to)
      PROVE  TasksSound' /\ TasksFit' /\ SessionInv'
  <2>1. UNCHANGED <<lifeVars, sendVars, wire, ids, batch, peer>>
    BY <1>8 DEF ReadReply, Callback, acceptVars
  <2>2. CASE Gone(ThreadOf(to))
    <3>1. UNCHANGED tasks /\ loop' = [loop EXCEPT ![t] = "undefined"] /\ loop[t] = "io"
      BY <1>8, <2>2 DEF ReadReply, Callback
    <3>2. Moves(t, 0, <<>>)
      BY <2>1, <3>1, StayMoves DEF Queue
    <3>3. \A u \in Threads : loop'[u] \notin {"spin", "done"} =>
                               loop[u] \notin {"spin", "done"}
      BY <3>1 DEF TypeOK
    <3> QED
      BY <1>1, <1>2, <2>1, <3>2, <3>3, QuietNone
  <2>3. CASE ~Gone(ThreadOf(to))
    <3>1. sends + 1 \in Messages
      BY <1>8, Small DEF ReadReply, TypeOK
    <3>2. PICK d \in Messages : d = sends + 1
      BY <3>1
    <3>3. PICK x : x = Ev("send", to, d)
      OBVIOUS
    <3>4. PICK u \in Threads : u = ThreadOf(to) /\ to \in Of(u)
      BY Small
    <3>5. x \in Event /\ x.op = "send" /\ x.s = to /\ x.d = d
      BY <3>3, Small, EvTypes DEF Ops
    <3>6. PostEvent(u, x) /\ UNCHANGED loop
      BY <1>8, <2>3, <3>2, <3>3, <3>4 DEF ReadReply
    <3>7. Moves(u, 0, <<x>>)
      BY <2>1, <3>5, <3>6, PostMoves
    <3>8. Sound(x, u)'
      BY <3>4, <3>5 DEF Sound
    <3>9. \A e \in Event : Fits(e, x)
      BY <3>5, FitsCases
    <3> QED
      BY <1>1, <1>2, <2>1, <3>5, <3>6, <3>7, <3>8, <3>9, QuietPost
  <2> QED
    BY <2>2, <2>3
<1> QED
  BY <1>3, <1>4, <1>5, <1>6, <1>7, <1>8
-----------------------------------------------------------------------------
(* Steps of one session's life.                                            *)

\* A task whose session a step leaves.
LEMMA SoundKept ==
  ASSUME TypeOK, TypeOK', NEW u \in Threads, NEW e \in Event, Sound(e, u), ids' = ids,
         e.op \in Targeted => Unmoved(e.s),
         loop'[u] \notin {"spin", "done"} => loop[u] \notin {"spin", "done"}
  PROVE  Sound(e, u)'
BY DEF Sound, Unmoved, Targeted

\* A thread that runs a task has not closed its sessions, and goes on.
LEMMA LoopKept ==
  ASSUME TypeOK, NEW t \in Threads,
         loop[t] \notin {"spin", "done"},
         loop' = loop \/ \E l \in {"check", "tasks", "undefined"} :
                           loop' = [loop EXCEPT ![t] = l]
  PROVE  \A u \in Threads : loop'[u] \notin {"spin", "done"} =>
                              loop[u] \notin {"spin", "done"}
BY DEF TypeOK

\* A step that leaves all sessions but s: what is to be shown of s.
LEMMA SessionStep ==
  ASSUME TypeOK, TypeOK', TasksSound, TasksFit, SessionInv,
         NEW t \in Threads, NEW k \in {0, 1}, NEW p \in Seq(Event), Moves(t, k, p),
         NEW s \in Of(t), ids' = ids, \A r \in Ids : r # s => Unmoved(r),
         \A u \in Threads : loop'[u] \notin {"spin", "done"} =>
                              loop[u] \notin {"spin", "done"},
         k = 1 /\ Queue(t)[1].op = "write" => Queue(t)[1].s = s,
         \A e \in Event :
           /\ Sound(e, t) /\ e.op \in Targeted /\ e.s = s
           /\ k = 1 => Fits(Queue(t)[1], e)
           => Sound(e, t)',
         \A j \in 1..Len(p) : Sound(p[j], t)',
         \A e \in Event : Sound(e, t) /\ (k = 1 => Fits(Queue(t)[1], e)) =>
           \A j \in 1..Len(p) : Fits(e, p[j]),
         Len(p) <= 1,
         Session(s)'
  PROVE  TasksSound' /\ TasksFit' /\ SessionInv'
<1>1. ASSUME NEW u \in Threads, NEW e \in Event, Sound(e, u),
             u = t /\ k = 1 => Fits(Queue(t)[1], e)
      PROVE  Sound(e, u)'
  <2>1. CASE e.op \in Targeted /\ e.s = s
    <3>1. e.s \in Of(u) /\ u = t
      BY <1>1, <2>1, Small DEF Sound
    <3> QED
      BY <1>1, <2>1, <3>1
  <2>2. CASE ~(e.op \in Targeted /\ e.s = s)
    <3>1. e.op \in Targeted => e.s \in Ids
      BY <1>1, Small DEF Sound
    <3> QED
      BY <1>1, <2>2, <3>1, SoundKept
  <2> QED
    BY <2>1, <2>2
<1>2. \A i, j \in 1..Len(p) : i < j => Fits(p[i], p[j])
  <2>1. Len(p) \in Nat
    BY LenProperties
  <2>2. \A i, j \in 1..Len(p) : ~(i < j)
    BY <2>1
  <2> QED
    BY <2>2
<1>3. TasksSound' /\ TasksFit'
  BY <1>1, <1>2, TasksStep
<1>4. ASSUME NEW r \in Ids, r # s PROVE Session(r)'
  <2>1. Waits(r) => Waits(r)'
    BY <1>4, WaitsStep
  <2>2. ids <= ids'
    BY UvAssumption DEF TypeOK
  <2> QED
    BY <1>4, <2>1, <2>2, UnmovedSession DEF SessionInv
<1> QED
  BY <1>3, <1>4 DEF SessionInv

LEMMA SessionPost ==
  ASSUME TypeOK, TypeOK', TasksSound, TasksFit, SessionInv,
         NEW t \in Threads, NEW k \in {0, 1}, NEW x \in Event, Moves(t, k, <<x>>),
         NEW s \in Of(t), ids' = ids, \A r \in Ids : r # s => Unmoved(r),
         \A u \in Threads : loop'[u] \notin {"spin", "done"} =>
                              loop[u] \notin {"spin", "done"},
         k = 1 /\ Queue(t)[1].op = "write" => Queue(t)[1].s = s,
         \A e \in Event :
           /\ Sound(e, t) /\ e.op \in Targeted /\ e.s = s
           /\ k = 1 => Fits(Queue(t)[1], e)
           => Sound(e, t)',
         Sound(x, t)',
         \A e \in Event : Sound(e, t) /\ (k = 1 => Fits(Queue(t)[1], e)) => Fits(e, x),
         Session(s)'
  PROVE  TasksSound' /\ TasksFit' /\ SessionInv'
<1> DEFINE p == <<x>>
<1>1. p \in Seq(Event) /\ Len(p) = 1 /\ \A j \in 1..Len(p) : p[j] = x
  OBVIOUS
<1>2. Moves(t, k, p)
  OBVIOUS
<1> HIDE DEF p
<1>3. \A j \in 1..Len(p) : Sound(p[j], t)'
  BY <1>1
<1>4. \A e \in Event : Sound(e, t) /\ (k = 1 => Fits(Queue(t)[1], e)) =>
        \A j \in 1..Len(p) : Fits(e, p[j])
  BY <1>1
<1>5. Len(p) <= 1
  BY <1>1
<1> QED
  BY <1>1, <1>2, <1>3, <1>4, <1>5, SessionStep

LEMMA SessionNone ==
  ASSUME TypeOK, TypeOK', TasksSound, TasksFit, SessionInv,
         NEW t \in Threads, NEW k \in {0, 1}, Moves(t, k, <<>>),
         NEW s \in Of(t), ids' = ids, \A r \in Ids : r # s => Unmoved(r),
         \A u \in Threads : loop'[u] \notin {"spin", "done"} =>
                              loop[u] \notin {"spin", "done"},
         k = 1 /\ Queue(t)[1].op = "write" => Queue(t)[1].s = s,
         \A e \in Event :
           /\ Sound(e, t) /\ e.op \in Targeted /\ e.s = s
           /\ k = 1 => Fits(Queue(t)[1], e)
           => Sound(e, t)',
         Session(s)'
  PROVE  TasksSound' /\ TasksFit' /\ SessionInv'
<1> DEFINE p == <<>>
<1>1. p \in Seq(Event) /\ Len(p) = 0 /\ \A j \in 1..Len(p) : FALSE
  BY EmptySeq
<1>2. Moves(t, k, p)
  OBVIOUS
<1> HIDE DEF p
<1>3. Len(p) <= 1
  BY <1>1
<1> QED
  BY <1>1, <1>2, <1>3, SessionStep
-----------------------------------------------------------------------------
(* The stream of one session.                                              *)

LEMMA PrefixOfConcat ==
  ASSUME NEW S, NEW w \in Seq(S), NEW v \in Seq(S)
  PROVE  IsPrefix(w, w \o v)
<1> DEFINE a == w \o v
<1>1. /\ a \in Seq(S) /\ Len(a) = Len(w) + Len(v) /\ Len(w) \in Nat /\ Len(v) \in Nat
      /\ \A i \in 1..Len(w) + Len(v) : a[i] = IF i <= Len(w) THEN w[i] ELSE v[i - Len(w)]
  BY ConcatProperties, LenProperties
<1> HIDE DEF a
<1>2. \A i \in 1..Len(w) : i \in 1..Len(a) /\ a[i] = w[i]
  BY <1>1
<1>3. \A i \in 1..Len(w) : w[i] \in S /\ a[i] \in S
  BY <1>1, <1>2, ElementOfSeq
<1>4. /\ SubSeq(w, 1, Len(w)) = w
      /\ SubSeq(a, 1, Len(w)) \in Seq(S)
      /\ Len(SubSeq(a, 1, Len(w))) = IF 1 <= Len(w) THEN Len(w) - 1 + 1 ELSE 0
      /\ \A i \in 1..Len(w) - 1 + 1 : SubSeq(a, 1, Len(w))[i] = a[1 + i - 1]
  BY <1>1, <1>3, SubSeqFull, SubSeqProperties
<1>5. Len(SubSeq(a, 1, Len(w))) = Len(w)
  BY <1>1, <1>4
<1>6. \A i \in 1..Len(w) : SubSeq(a, 1, Len(w))[i] = w[i]
  <2> TAKE i \in 1..Len(w)
  <2>1. i \in 1..Len(w) - 1 + 1 /\ 1 + i - 1 = i
    BY <1>1
  <2> QED
    BY <1>2, <1>4, <2>1
<1>7. SubSeq(a, 1, Len(w)) = w
  BY <1>4, <1>5, <1>6, SeqEqual
<1>8. Len(w) <= Len(a)
  BY <1>1
<1> QED
  BY <1>4, <1>7, <1>8 DEF IsPrefix, a

\* A prefix stays one when the sequence grows.
LEMMA PrefixGrows ==
  ASSUME NEW S, NEW w \in Seq(S), NEW a \in Seq(S), NEW d \in S, IsPrefix(w, a)
  PROVE  IsPrefix(w, Append(a, d))
<1>1. /\ Append(a, d) \in Seq(S) /\ Len(Append(a, d)) = Len(a) + 1
      /\ \A i \in 1..Len(a) : Append(a, d)[i] = a[i]
      /\ Len(a) \in Nat /\ Len(w) \in Nat /\ Len(w) <= Len(a)
      /\ SubSeq(w, 1, Len(w)) = SubSeq(a, 1, Len(w))
  BY AppendProperties, LenProperties DEF IsPrefix
<1> DEFINE b == Append(a, d)
           n == Len(w)
<1>2. \A i \in 1..n : i \in 1..Len(a) /\ i \in 1..Len(b) /\ b[i] = a[i]
  BY <1>1
<1>3. \A i \in 1..n : a[i] \in S /\ b[i] \in S
  BY <1>1, <1>2, ElementOfSeq
<1> HIDE DEF b
<1>4. /\ SubSeq(a, 1, n) \in Seq(S) /\ SubSeq(b, 1, n) \in Seq(S)
      /\ Len(SubSeq(a, 1, n)) = Len(SubSeq(b, 1, n))
      /\ Len(SubSeq(a, 1, n)) = IF 1 <= n THEN n - 1 + 1 ELSE 0
      /\ \A i \in 1..n - 1 + 1 : SubSeq(a, 1, n)[i] = a[1 + i - 1]
                                 /\ SubSeq(b, 1, n)[i] = b[1 + i - 1]
  BY <1>1, <1>3, SubSeqProperties
<1>5. Len(SubSeq(a, 1, n)) = n
  BY <1>1, <1>4
<1>6. \A i \in 1..n : SubSeq(a, 1, n)[i] = SubSeq(b, 1, n)[i]
  <2> TAKE i \in 1..n
  <2>1. i \in 1..n - 1 + 1 /\ 1 + i - 1 = i
    BY <1>1
  <2> QED
    BY <1>2, <1>4, <2>1
<1>7. SubSeq(a, 1, n) = SubSeq(b, 1, n)
  BY <1>4, <1>5, <1>6, SeqEqual
<1>8. n <= Len(b)
  BY <1>1 DEF b
<1> QED
  BY <1>1, <1>7, <1>8 DEF IsPrefix, b

\* The rest of a buffer of which n messages were taken.
After(b, n) == SubSeq(b, n + 1, Len(b))

LEMMA AfterTypes ==
  ASSUME NEW S, NEW b \in Seq(S), NEW n \in Nat, n <= Len(b)
  PROVE  /\ After(b, n) \in Seq(S)
         /\ n = Len(b) => After(b, n) = <<>>
         /\ n < Len(b) => /\ b[n + 1] \in S
                          /\ After(b, n) = <<b[n + 1]>> \o After(b, n + 1)
                          /\ After(b, n + 1) \in Seq(S)
<1> DEFINE m == Len(b)
<1>1. m \in Nat
  BY LenProperties
<1>2. \A i \in 1..m : b[i] \in S
  BY ElementOfSeq
<1> HIDE DEF m
<1>3. ASSUME NEW k \in Nat PROVE SubSeq(b, k + 1, m) \in Seq(S)
  <2>1. \A i \in k + 1..m : i \in 1..m
    BY <1>1
  <2>2. \A i \in k + 1..m : b[i] \in S
    BY <1>2, <2>1
  <2> QED
    BY <1>1, <2>2, SubSeqProperties
<1>4. ASSUME n = m PROVE SubSeq(b, n + 1, m) = <<>>
  BY <1>1, <1>4, SubSeqEmpty
<1>5. ASSUME n < m
      PROVE  /\ b[n + 1] \in S
             /\ SubSeq(b, n + 1, m) = <<b[n + 1]>> \o SubSeq(b, n + 1 + 1, m)
  <2>1. n + 1 \in 1..m /\ m \in n + 1..m
    BY <1>1, <1>5
  <2> QED
    BY <1>2, <2>1, SubSeqRecursiveFirst DEF m
<1> QED
  BY <1>3, <1>4, <1>5 DEF After, m

\* A message goes from the buffer to the wire.
LEMMA TransmitStream ==
  ASSUME NEW S, NEW w \in Seq(S), NEW b \in Seq(S), NEW q \in Seq(S), NEW n \in Nat,
         n < Len(b)
  PROVE  /\ Append(w, b[n + 1]) \o After(b, n + 1) \o q = w \o After(b, n) \o q
         /\ IsPrefix(Append(w, b[n + 1]), w \o After(b, n) \o q)
<1> DEFINE c == b[n + 1]
           v == After(b, n + 1)
           u == After(b, n)
<1>1. /\ c \in S /\ u = <<c>> \o v /\ v \in Seq(S) /\ u \in Seq(S) /\ <<c>> \in Seq(S)
  BY AfterTypes, LenProperties
<1> HIDE DEF c, v, u
<1>2. Append(w, c) = w \o <<c>> /\ Append(w, c) \in Seq(S)
  BY <1>1, AppendIsConcat, AppendProperties
<1>3. (w \o <<c>>) \o v = w \o u
  BY SMTT(60), <1>1, ConcatAssociative
<1>4. Append(w, c) \o v \o q = w \o u \o q
  BY <1>2, <1>3
<1>5. Append(w, c) \o v \o q = Append(w, c) \o (v \o q) /\ v \o q \in Seq(S)
  <2> DEFINE x == Append(w, c)
  <2>1. x \in Seq(S)
    BY <1>2
  <2> HIDE DEF x
  <2>2. (x \o v) \o q = x \o (v \o q)
    BY SMTT(60), <1>1, <2>1, ConcatAssociative
  <2>3. v \o q \in Seq(S)
    BY <1>1, ConcatProperties
  <2> QED
    BY <2>2, <2>3 DEF x
<1>6. IsPrefix(Append(w, c), w \o u \o q)
  BY <1>2, <1>4, <1>5, PrefixOfConcat
<1> QED
  BY <1>4, <1>6 DEF c, v, u

\* What is written after the buffer comes last.
LEMMA AfterConcat ==
  ASSUME NEW S, NEW b \in Seq(S), NEW e \in Seq(S), NEW n \in Nat, n <= Len(b),
         Len(e) >= 1
  PROVE  /\ b \o e \in Seq(S) /\ Len(b \o e) = Len(b) + Len(e)
         /\ After(b \o e, n) = After(b, n) \o e
<1> DEFINE c == b \o e
           m == Len(b)
           l == Len(e)
<1>1. c \in Seq(S) /\ Len(c) = m + l /\ m \in Nat /\ l \in Nat /\ l >= 1 /\ n <= m
  BY ConcatProperties, LenProperties
<1>2. m + l \in m + 1..m + l /\ m + 1 \in m + 1..m + l /\ m + 1 - m = 1 /\ m + l - m = l
      /\ n + 1 \in 1..m + l + 1 /\ m \in (n + 1) - 1..m + l /\ m + l \in m..m + l
  BY <1>1
<1>3. SubSeq(c, m + 1, m + l) = SubSeq(e, m + 1 - m, m + l - m)
  BY <1>2, SubSeqOfConcat2
<1>4. SubSeq(e, 1, l) = e
  BY SubSeqFull
<1>5. SubSeq(c, n + 1, m) = SubSeq(b, n + 1, m)
  <2>1. CASE n = m
    <3>1. n + 1 > m /\ n + 1 \in Int
      BY <1>1, <2>1
    <3>2. SubSeq(c, n + 1, m) = <<>> /\ SubSeq(b, n + 1, m) = <<>>
      BY <1>1, <3>1, SubSeqEmpty
    <3> QED
      BY <3>2
  <2>2. CASE n # m
    <3>1. n + 1 \in 1..m /\ m \in 1..m
      BY <1>1, <2>2
    <3> QED
      BY <3>1, SubSeqOfConcat1
  <2> QED
    BY <2>1, <2>2
<1> HIDE DEF c, m, l
<1>6. SubSeq(c, n + 1, m) \o SubSeq(c, m + 1, m + l) = SubSeq(c, n + 1, m + l)
  BY <1>1, <1>2, ConcatAdjacentSubSeq
<1>7. SubSeq(c, m + 1, m + l) = e
  BY <1>2, <1>3, <1>4
<1> QED
  BY <1>1, <1>5, <1>6, <1>7 DEF After, c, m, l

\* A message d joins the end of queue q, or with the queue buffer b: what is
\* on wire w and what is still to go there grow by d.
Accepts(w, b, q, n, d) ==
  /\ w \o After(b, n) \o Append(q, d) = Append(w \o After(b, n) \o q, d)
  /\ w \o After(b \o Append(q, d), n) \o <<>> = Append(w \o After(b, n) \o q, d)
  /\ After(b \o Append(q, d), n) = After(b, n) \o Append(q, d)
  /\ n <= Len(b \o Append(q, d))

LEMMA AcceptStream ==
  ASSUME NEW S, NEW w \in Seq(S), NEW b \in Seq(S), NEW q \in Seq(S), NEW n \in Nat,
         n <= Len(b), NEW d \in S
  PROVE  Accepts(w, b, q, n, d)
<1> DEFINE u == After(b, n)
           e == Append(q, d)
           m == Len(b)
           c == b \o e
<1>1. u \in Seq(S) /\ e \in Seq(S) /\ w \o u \in Seq(S) /\ m \in Nat
  BY AfterTypes, AppendProperties, ConcatProperties, LenProperties
<1>2. w \o u \o e = Append(w \o u \o q, d)
  <2> HIDE DEF u
  <2> QED
    BY <1>1, ConcatAppend
<1>3. Len(e) \in Nat /\ Len(e) >= 1
  <2>1. Len(e) = Len(q) + 1 /\ Len(q) \in Nat
    BY AppendProperties, LenProperties
  <2> QED
    BY <2>1
<1>4. c \in Seq(S) /\ Len(c) = m + Len(e) /\ After(c, n) = u \o e
  <2> HIDE DEF e
  <2> QED
    BY <1>1, <1>3, AfterConcat
<1> HIDE DEF u, e, c, m
<1>5. w \o After(c, n) \o <<>> = w \o u \o e
  <2>1. w \o (u \o e) = (w \o u) \o e
    BY SMTT(60), <1>1, ConcatAssociative
  <2> DEFINE x == w \o u \o e
  <2>2. x \in Seq(S)
    BY <1>1, ConcatProperties
  <2> HIDE DEF x
  <2>3. x \o <<>> = x
    BY <2>2, ConcatEmptySeq
  <2> QED
    BY <1>4, <2>1, <2>3 DEF x
<1>6. n <= Len(c)
  BY <1>1, <1>3, <1>4 DEF m
<1> QED
  BY <1>2, <1>4, <1>5, <1>6 DEF u, e, c, Accepts
-----------------------------------------------------------------------------
(* The tasks of one session.                                               *)

LEMMA AcceptStep ==
  ASSUME TypeOK, TypeOK', TasksSound, TasksFit, SessionInv, NEW t \in Threads,
         HandleAccept(t)
  PROVE  TasksSound' /\ TasksFit' /\ SessionInv'
<1>1. RunTask(t, "accept")
  BY DEF HandleAccept
<1>2. PICK s \in Of(t) : s = Task(t).s
  BY <1>1, HeadTask DEF Sound, Targeted
<1>3. s \in Ids /\ s \in 0..MaxIds
  BY Small
<1>4. PICK op \in {"add", "close"} : PostEvent(t, Ev(op, s, 0))
  BY <1>2 DEF HandleAccept
<1>5. PICK x : x = Ev(op, s, 0)
  OBVIOUS
<1>6. x \in Event /\ x.op = op /\ x.s = s /\ PostEvent(t, x)
  BY <1>3, <1>4, <1>5, Small, EvTypes DEF Ops
<1>7. /\ obj' = [obj EXCEPT ![s] = "open"]
      /\ UNCHANGED <<loop, ids, members, reading, added, closed, sendVars, peer, wire>>
  BY <1>2 DEF HandleAccept, RunTask
<1>8. /\ Moves(t, 1, <<x>>)
      /\ Queue(t)[1].op = "accept" /\ Queue(t)[1].s = s
  BY <1>1, <1>2, <1>6, TaskPosts, RunType
<1>9. obj[s] = "none" /\ s <= ids
  BY <1>1, <1>2, HeadTask DEF Sound
<1>10. /\ added[s] = 0 /\ closed[s] \in {0, 1} /\ s \notin members
       /\ ~reading[s] /\ ~pending[s] /\ ~inFlight[s] /\ written[s] = 0
       /\ sendQueue[s] = <<>> /\ sendBuf[s] = <<>> /\ wire[s] = <<>> /\ accepted[s] = <<>>
  BY <1>3, <1>9, SessionFacts
<1>11. obj'[s] = "open"
  BY <1>3, <1>7 DEF TypeOK
<1>12. \A r \in Ids : r # s => Unmoved(r)
  <2>1. \A r \in Ids : r # s => obj'[r] = obj[r]
    BY <1>7 DEF TypeOK
  <2> QED
    BY <1>7, <2>1 DEF Unmoved, sendVars
<1>13. ASSUME NEW e \in Event, Sound(e, t), e.op \in Targeted, e.s = s,
              Fits(Queue(t)[1], e)
       PROVE  Sound(e, t)'
  <2>1. e.op = "send"
    BY <1>8, <1>9, <1>10, <1>13, FitsCases DEF Sound, Targeted
  <2> QED
    BY <1>13, <2>1 DEF Sound
<1>14. Sound(x, t)'
  BY <1>6, <1>7, <1>10, <1>11 DEF Sound
<1>15. ASSUME NEW e \in Event, Sound(e, t), Fits(Queue(t)[1], e) PROVE Fits(e, x)
  BY <1>6, <1>9, <1>10, <1>15, FitsCases DEF Sound
<1>16. Session(s)'
  <2>1. Fresh(s)'
    BY <1>7, <1>9, <1>10 DEF Fresh, sendVars
  <2>2. Matches(s)'
    BY <1>3, <1>7, <1>9, <1>10, <1>11 DEF Matches, SessionInv, Session
  <2>3. Writing(s)'
    BY <1>3, <1>7, <1>10 DEF Writing, SessionInv, Session, sendVars
  <2>4. Intact(s)'
    <3>1. IsPrefix(wire[s], accepted[s])
      BY <1>3 DEF SessionInv, Session, Intact
    <3>2. Rest(s)' = SubSeq(<<>>, 0 + 1, Len(<<>>))
      BY <1>7, <1>10 DEF Rest, sendVars
    <3>3. SubSeq(<<>>, 0 + 1, Len(<<>>)) = <<>>
      OBVIOUS
    <3>4. (wire[s] \o Rest(s) \o sendQueue[s])' = <<>> \o <<>> \o <<>>
      BY <1>7, <1>10, <3>2, <3>3 DEF sendVars
    <3>5. <<>> \o <<>> \o <<>> = <<>>
      OBVIOUS
    <3> QED
      BY <1>7, <1>10, <3>1, <3>4, <3>5 DEF Intact, sendVars
  <2> QED
    BY <2>1, <2>2, <2>3, <2>4 DEF Session
<1>17. \A u \in Threads : loop'[u] \notin {"spin", "done"} =>
                            loop[u] \notin {"spin", "done"}
  BY <1>7
<1> QED
  BY <1>6, <1>7, <1>8, <1>12, <1>13, <1>14, <1>15, <1>16, <1>17, SessionPost

LEMMA AddStep ==
  ASSUME TypeOK, TypeOK', TasksSound, TasksFit, SessionInv, NEW t \in Threads,
         HandleAddSession(t)
  PROVE  TasksSound' /\ TasksFit' /\ SessionInv'
<1>1. RunTask(t, "add")
  BY DEF HandleAddSession
<1>2. PICK s \in Of(t) : s = Task(t).s
  BY <1>1, HeadTask DEF Sound, Targeted
<1>3. s \in Ids /\ s \in 0..MaxIds
  BY Small
<1>4. PICK x : x = Ev("read", s, 0)
  OBVIOUS
<1>5. x \in Event /\ x.op = "read" /\ x.s = s /\ PostEvent(t, x)
  BY <1>2, <1>3, <1>4, Small, EvTypes DEF Ops, HandleAddSession
<1>6. /\ members' = members \cup {s} /\ added' = [added EXCEPT ![s] = @ + 1]
      /\ UNCHANGED <<loop, ids, obj, reading, closed, sendVars, peer, wire>>
  BY <1>2 DEF HandleAddSession, RunTask, acceptVars
<1>7. /\ Moves(t, 1, <<x>>)
      /\ Queue(t)[1].op = "add" /\ Queue(t)[1].s = s
  BY <1>1, <1>2, <1>5, TaskPosts, RunType
<1>8. obj[s] = "open" /\ added[s] = 0
  BY <1>1, <1>2, HeadTask DEF Sound
<1>9. closed[s] = 0
  <2>1. Matches(s) /\ closed[s] \in {0, 1}
    BY <1>3, SessionFacts DEF SessionInv, Session
  <2> QED
    BY <1>8, <2>1 DEF Matches
<1>10. added'[s] = 1 /\ \A r \in Ids : r # s => added'[r] = added[r]
  BY <1>3, <1>6, <1>8 DEF TypeOK
<1>11. \A r \in Ids : r # s => Unmoved(r)
  BY <1>6, <1>10 DEF Unmoved, sendVars
<1>12. ASSUME NEW e \in Event, Sound(e, t), e.op \in Targeted, e.s = s,
              Fits(Queue(t)[1], e)
       PROVE  Sound(e, t)'
  <2>1. e.op = "send"
    BY <1>7, <1>8, <1>12, FitsCases DEF Sound, Targeted
  <2> QED
    BY <1>12, <2>1 DEF Sound
<1>13. Sound(x, t)'
  BY <1>5, <1>6, <1>8, <1>10 DEF Sound
<1>14. ASSUME NEW e \in Event, Sound(e, t), Fits(Queue(t)[1], e) PROVE Fits(e, x)
  BY <1>5, <1>7, <1>14, FitsCases
<1>15. Session(s)'
  <2>0. Session(s)
    BY <1>3 DEF SessionInv
  <2>1. Fresh(s)'
    BY <1>6, <1>8, <1>10, <2>0 DEF Session, Fresh
  <2>2. Matches(s)'
    BY <1>6, <1>8, <1>9, <1>10 DEF Matches
  <2>3. Writing(s)'
    BY <1>6, <1>8, <2>0 DEF Session, Fresh, Writing, sendVars
  <2>4. Intact(s)'
    BY <1>6, <2>0 DEF Session, Intact, Rest, sendVars
  <2> QED
    BY <2>1, <2>2, <2>3, <2>4 DEF Session
<1>16. \A u \in Threads : loop'[u] \notin {"spin", "done"} =>
                            loop[u] \notin {"spin", "done"}
  BY <1>6
<1> QED
  BY <1>5, <1>6, <1>7, <1>11, <1>12, <1>13, <1>14, <1>15, <1>16, SessionPost

LEMMA CloseStep ==
  ASSUME TypeOK, TypeOK', TasksSound, TasksFit, SessionInv, NEW t \in Threads,
         HandleCloseSession(t)
  PROVE  TasksSound' /\ TasksFit' /\ SessionInv'
<1>1. RunTask(t, "close")
  BY DEF HandleCloseSession
<1>2. PICK s \in Of(t) : s = Task(t).s
  BY <1>1, HeadTask DEF Sound, Targeted
<1>3. s \in Ids
  BY Small
<1>4. UNCHANGED <<tasks, loop, ids, added, sendVars, peer, wire>>
  BY DEF HandleCloseSession, RunTask, acceptVars
<1>5. Moves(t, 1, <<>>) /\ Queue(t)[1].op = "close" /\ Queue(t)[1].s = s
  BY <1>1, <1>2, <1>4, TaskOnly, RunType
<1>6. \A u \in Threads : loop'[u] \notin {"spin", "done"} =>
                           loop[u] \notin {"spin", "done"}
  BY <1>4
<1>7. CASE s \in members
  <2>1. /\ obj' = [obj EXCEPT ![s] = "closing"]
        /\ reading' = [reading EXCEPT ![s] = FALSE]
        /\ members' = members \ {s} /\ closed' = [closed EXCEPT ![s] = @ + 1]
    BY <1>2, <1>7 DEF HandleCloseSession
  <2>2. Session(s) /\ added[s] = 1 /\ obj[s] = "open"
    BY <1>3, <1>7, SessionFacts DEF SessionInv
  <2>3. closed[s] = 0
    <3>1. Matches(s) /\ closed[s] \in {0, 1}
      BY <1>3, <2>2, SessionFacts DEF Session
    <3> QED
      BY <2>2, <3>1 DEF Matches
  <2>4. obj'[s] = "closing" /\ closed'[s] = 1 /\ ~reading'[s]
    BY <1>3, <2>1, <2>3 DEF TypeOK
  <2>5. \A r \in Ids : r # s => Unmoved(r)
    <3>1. \A r \in Ids : r # s => obj'[r] = obj[r] /\ reading'[r] = reading[r]
                                  /\ closed'[r] = closed[r]
      BY <2>1 DEF TypeOK
    <3> QED
      BY <1>4, <2>1, <3>1 DEF Unmoved, sendVars
  <2>6. ASSUME NEW e \in Event, Sound(e, t), e.op \in Targeted, e.s = s,
               Fits(Queue(t)[1], e)
        PROVE  Sound(e, t)'
    <3>1. e.op \in {"close", "send", "write"}
      BY <1>5, <2>2, <2>6, FitsCases DEF Sound, Targeted
    <3> QED
      BY <1>4, <2>4, <2>6, <3>1 DEF Sound
  <2>7. Session(s)'
    <3>1. Fresh(s)'
      BY <1>4, <2>2, <2>4 DEF Session, Fresh
    <3>2. Matches(s)'
      BY <1>4, <2>1, <2>2, <2>4 DEF Matches
    <3>3. Writing(s)'
      BY <1>4, <2>2, <2>4 DEF Session, Writing, sendVars
    <3>4. Intact(s)'
      BY <1>4, <2>2, <2>4 DEF Session, Intact, sendVars
    <3> QED
      BY <3>1, <3>2, <3>3, <3>4 DEF Session
  <2> QED
    BY <1>4, <1>5, <1>6, <2>5, <2>6, <2>7, SessionNone
<1>8. CASE s \notin members
  <2>1. UNCHANGED <<obj, reading, members, closed>>
    BY <1>2, <1>8 DEF HandleCloseSession
  <2>2. \A r \in Ids : Unmoved(r)
    BY <1>4, <2>1 DEF Unmoved, sendVars
  <2>3. ids <= ids'
    BY <1>4, UvAssumption DEF TypeOK
  <2> QED
    BY <1>4, <1>5, <1>6, <2>2, <2>3, QuietNone
<1> QED
  BY <1>7, <1>8

LEMMA WriteStep ==
  ASSUME TypeOK, TypeOK', TasksSound, TasksFit, SessionInv, NEW t \in Threads,
         WriteTask(t)
  PROVE  TasksSound' /\ TasksFit' /\ SessionInv'
<1>1. RunTask(t, "write")
  BY DEF WriteTask
<1>2. PICK s \in Of(t) : s = Task(t).s
  BY <1>1, HeadTask DEF Sound, Targeted
<1>3. s \in Ids /\ Session(s)
  BY Small DEF SessionInv
<1>4. /\ inFlight' = [inFlight EXCEPT ![s] = @ \/ obj[s] = "open"]
      /\ UNCHANGED <<tasks, ids, members, obj, reading, added, closed, pending, sendQueue,
                     sendBuf, written, accepted, peer, wire>>
  BY <1>2 DEF WriteTask, RunTask, acceptVars, lifeVars
<1>5. Moves(t, 1, <<>>) /\ Queue(t)[1].op = "write" /\ Queue(t)[1].s = s
  BY <1>1, <1>2, <1>4, TaskOnly, RunType
<1>6. added[s] = 1 /\ (obj[s] = "open" => pending[s] /\ ~inFlight[s])
  BY <1>1, <1>2, HeadTask DEF Sound
<1>7. \A u \in Threads : loop'[u] \notin {"spin", "done"} =>
                           loop[u] \notin {"spin", "done"}
  <2>1. loop[t] \notin {"spin", "done"}
    BY <1>1 DEF RunTask
  <2>2. loop' = loop \/ loop' = [loop EXCEPT ![t] = "undefined"]
    BY DEF WriteTask
  <2> QED
    BY <2>1, <2>2, LoopKept
<1>8. /\ inFlight'[s] <=> inFlight[s] \/ obj[s] = "open"
      /\ \A r \in Ids : r # s => inFlight'[r] = inFlight[r]
  BY ZenonT(60), <1>3, <1>4 DEF TypeOK
<1>9. \A r \in Ids : r # s => Unmoved(r)
  BY <1>4, <1>8 DEF Unmoved
<1>10. ASSUME NEW e \in Event, Sound(e, t), e.op \in Targeted, e.s = s,
              Fits(Queue(t)[1], e)
       PROVE  Sound(e, t)'
  <2>1. e.op # "write"
    BY <1>5, <1>10, FitsCases
  <2> QED
    BY <1>4, <1>7, <1>10, <2>1 DEF Sound
<1>11. Session(s)'
  <2>1. Fresh(s)'
    BY <1>3, <1>4, <1>6 DEF Session, Fresh
  <2>2. Matches(s)'
    BY <1>3, <1>4 DEF Session, Matches
  <2>3. Writing(s)'
    BY <1>3, <1>4, <1>6, <1>8 DEF Session, Writing
  <2>4. Intact(s)'
    BY <1>3, <1>4 DEF Session, Intact, Rest
  <2> QED
    BY <2>1, <2>2, <2>3, <2>4 DEF Session
<1> QED
  BY <1>4, <1>5, <1>7, <1>9, <1>10, <1>11, SessionNone
-----------------------------------------------------------------------------
(* The writes of one session.                                              *)

\* The parts of a session's stream.
LEMMA StreamTypes ==
  ASSUME TypeOK, SessionInv, NEW s \in Ids
  PROVE  /\ wire[s] \in Seq(Messages) /\ sendBuf[s] \in Seq(Messages)
         /\ sendQueue[s] \in Seq(Messages) /\ accepted[s] \in Seq(Messages)
         /\ written[s] \in Nat /\ written[s] <= Len(sendBuf[s])
         /\ Rest(s) = After(sendBuf[s], written[s])
BY DEF TypeOK, SessionInv, Session, Writing, Rest, After

LEMMA TransmitStep ==
  ASSUME TypeOK, TypeOK', TasksSound, TasksFit, SessionInv, NEW t \in Threads,
         NEW s \in Ids, Transmit(t, s)
  PROVE  TasksSound' /\ TasksFit' /\ SessionInv'
<1>1. /\ s \in Of(t) /\ inFlight[s] /\ obj[s] = "open" /\ peer[s] = "up"
      /\ written[s] < Len(sendBuf[s])
      /\ wire' = [wire EXCEPT ![s] = Append(@, sendBuf[s][written[s] + 1])]
      /\ written' = [written EXCEPT ![s] = @ + 1]
      /\ UNCHANGED <<tasks, batch, loop, ids, lifeVars, peer, pending, sendQueue, sendBuf,
                     inFlight, accepted>>
  BY DEF Transmit, Callback, acceptVars
<1>2. Moves(t, 0, <<>>)
  BY <1>1, StayMoves DEF Queue
<1>3. Session(s)
  BY DEF SessionInv
<1>4. /\ wire'[s] = Append(wire[s], sendBuf[s][written[s] + 1])
      /\ written'[s] = written[s] + 1
      /\ \A r \in Ids : r # s => wire'[r] = wire[r] /\ written'[r] = written[r]
  BY <1>1 DEF TypeOK
<1>5. \A r \in Ids : r # s => Unmoved(r)
  BY <1>1, <1>4 DEF Unmoved, lifeVars
<1>6. ASSUME NEW e \in Event, Sound(e, t) PROVE Sound(e, t)'
  BY <1>1, <1>6 DEF Sound, lifeVars
<1>7. Session(s)'
  <2>1. PICK w \in Seq(Messages), b \in Seq(Messages), q \in Seq(Messages), n \in Nat :
          w = wire[s] /\ b = sendBuf[s] /\ q = sendQueue[s] /\ n = written[s]
    BY StreamTypes
  <2>2. n < Len(b) /\ Rest(s) = After(b, n) /\ accepted[s] = w \o After(b, n) \o q
    BY <1>1, <1>3, <2>1, StreamTypes DEF Session, Intact
  <2>3. Rest(s)' = After(b, n + 1)
    BY <1>1, <1>4, <2>1 DEF Rest, After
  <2>4. Fresh(s)'
    BY <1>1, <1>3 DEF Session, Fresh, lifeVars
  <2>5. Matches(s)'
    BY <1>1, <1>3 DEF Session, Matches, lifeVars
  <2>6. Writing(s)'
    <3>1. n + 1 <= Len(b)
      BY <2>2, LenProperties
    <3> QED
      BY <1>1, <1>3, <1>4, <2>1, <3>1 DEF Session, Writing, lifeVars
  <2>7. Intact(s)'
    <3>1. /\ Append(w, b[n + 1]) \o After(b, n + 1) \o q = w \o After(b, n) \o q
          /\ IsPrefix(Append(w, b[n + 1]), w \o After(b, n) \o q)
      BY <2>2, TransmitStream
    <3>2. wire'[s] = Append(w, b[n + 1]) /\ sendQueue'[s] = q
          /\ accepted'[s] = w \o After(b, n) \o q
      BY <1>1, <1>4, <2>1, <2>2
    <3> QED
      BY <2>3, <3>1, <3>2 DEF Intact
  <2> QED
    BY <2>4, <2>5, <2>6, <2>7 DEF Session
<1> QED
  BY <1>1, <1>2, <1>5, <1>6, <1>7, SessionNone

LEMMA WrittenStep ==
  ASSUME TypeOK, TypeOK', TasksSound, TasksFit, SessionInv, NEW t \in Threads,
         NEW s \in Ids, OnWriteDataCB(t, s)
  PROVE  TasksSound' /\ TasksFit' /\ SessionInv'
<1>1. /\ s \in Of(t) /\ inFlight[s] /\ obj[s] = "open"
      /\ written[s] = Len(sendBuf[s]) \/ peer[s] = "gone"
      /\ inFlight' = [inFlight EXCEPT ![s] = FALSE]
      /\ sendBuf' = [sendBuf EXCEPT ![s] = <<>>]
      /\ written' = [written EXCEPT ![s] = 0]
      /\ pending' = [pending EXCEPT ![s] = FALSE]
      /\ UNCHANGED <<tasks, batch, loop, ids, lifeVars, peer, sendQueue, wire, accepted>>
  BY DEF OnWriteDataCB, Callback, acceptVars
<1>2. Moves(t, 0, <<>>)
  BY <1>1, StayMoves DEF Queue
<1>3. Session(s)
  BY DEF SessionInv
<1>4. /\ ~inFlight'[s] /\ sendBuf'[s] = <<>> /\ written'[s] = 0 /\ ~pending'[s]
      /\ \A r \in Ids : r # s =>
           /\ inFlight'[r] = inFlight[r] /\ sendBuf'[r] = sendBuf[r]
           /\ written'[r] = written[r] /\ pending'[r] = pending[r]
  BY <1>1 DEF TypeOK
<1>5. \A r \in Ids : r # s => Unmoved(r)
  BY <1>1, <1>4 DEF Unmoved, lifeVars
<1>6. ASSUME NEW e \in Event, Sound(e, t), e.op \in Targeted, e.s = s
      PROVE  Sound(e, t)'
  <2>1. e.op # "write"
    BY <1>1, <1>6 DEF Sound
  <2> QED
    BY <1>1, <1>6, <2>1 DEF Sound, lifeVars
<1>7. Session(s)'
  <2>1. Fresh(s)'
    BY <1>1, <1>3, <1>4 DEF Session, Fresh, lifeVars
  <2>2. Matches(s)'
    BY <1>1, <1>3 DEF Session, Matches, lifeVars
  <2>3. Writing(s)'
    <3>1. 0 <= Len(<<>>)
      OBVIOUS
    <3> QED
      BY <1>4, <3>1 DEF Writing
  <2>4. Intact(s)'
    <3>1. Rest(s)' = SubSeq(<<>>, 0 + 1, Len(<<>>))
      BY <1>4 DEF Rest
    <3>2. SubSeq(<<>>, 0 + 1, Len(<<>>)) = <<>>
      OBVIOUS
    <3>3. written[s] = Len(sendBuf[s]) => Rest(s) = <<>>
      BY StreamTypes, AfterTypes
    <3> QED
      BY <1>1, <1>3, <3>1, <3>2, <3>3 DEF Session, Intact
  <2> QED
    BY <2>1, <2>2, <2>3, <2>4 DEF Session
<1> QED
  BY <1>1, <1>2, <1>5, <1>6, <1>7, SessionNone

\* WriteData leaves the wire, and appends to what a session was given.
LEMMA WriteDataSession ==
  ASSUME TypeOK, TypeOK', SessionInv, NEW t \in Threads, NEW S \in SUBSET Ids,
         NEW d \in Messages, WriteData(t, S, d), NEW s \in S,
         s \in members, UNCHANGED <<ids, lifeVars, peer, wire>>,
         s \in Idle(S) \/ Waits(s) => Waits(s)'
  PROVE  Session(s)'
<1>1. /\ s \in Ids /\ Session(s) /\ added[s] = 1 /\ obj[s] = "open"
  BY SessionFacts DEF SessionInv
<1>2. PICK w \in Seq(Messages), b \in Seq(Messages), q \in Seq(Messages), n \in Nat,
           a \in Seq(Messages) :
        w = wire[s] /\ b = sendBuf[s] /\ q = sendQueue[s] /\ n = written[s]
        /\ a = accepted[s]
  BY <1>1, StreamTypes
<1>3. /\ n <= Len(b) /\ Rest(s) = After(b, n) /\ IsPrefix(w, a)
      /\ peer[s] = "up" => a = w \o After(b, n) \o q
  BY <1>1, <1>2, StreamTypes DEF Session, Intact
<1>4. /\ wire'[s] = w /\ accepted'[s] = Append(a, d) /\ written'[s] = n
      /\ inFlight'[s] = inFlight[s] /\ peer'[s] = peer[s]
      /\ s \in Idle(S) => /\ sendBuf'[s] = b \o Append(q, d) /\ sendQueue'[s] = <<>>
                          /\ pending'[s]
      /\ s \notin Idle(S) => /\ sendBuf'[s] = b /\ sendQueue'[s] = Append(q, d)
                             /\ pending'[s] /\ pending[s]
  BY <1>1, <1>2 DEF WriteData, Idle, TypeOK
<1>5. Fresh(s)'
  BY <1>1 DEF Session, Fresh, lifeVars
<1>6. Matches(s)'
  BY <1>1 DEF Session, Matches, lifeVars
<1>7. Accepts(w, b, q, n, d)
  BY <1>3, AcceptStream
<1>8. Writing(s)'
  <2>1. n <= Len(b \o Append(q, d))
    BY <1>7 DEF Accepts
  <2>2. written'[s] <= Len(sendBuf'[s])
    BY <1>3, <1>4, <2>1
  <2>3. inFlight'[s] => pending'[s]
    BY <1>4
  <2>4. pending'[s] /\ ~inFlight'[s] => Waits(s)'
    BY <1>1, <1>4 DEF Session, Writing
  <2> QED
    BY <2>2, <2>3, <2>4 DEF Writing
<1>9. Intact(s)'
  <2>1. IsPrefix(w, Append(a, d))
    BY <1>3, PrefixGrows
  <2>2. /\ w \o After(b, n) \o Append(q, d) = Append(w \o After(b, n) \o q, d)
        /\ w \o After(b \o Append(q, d), n) \o <<>> = Append(w \o After(b, n) \o q, d)
    BY <1>7 DEF Accepts
  <2>3. Rest(s)' = IF s \in Idle(S) THEN After(b \o Append(q, d), n) ELSE After(b, n)
    BY <1>4 DEF Rest, After
  <2>4. peer'[s] = "up" => (wire[s] \o Rest(s) \o sendQueue[s])' = Append(a, d)
    BY <1>3, <1>4, <2>2, <2>3
  <2> QED
    BY <1>4, <2>1, <2>4 DEF Intact
<1> QED
  BY <1>5, <1>6, <1>8, <1>9 DEF Session

LEMMA WriteDataStep ==
  ASSUME TypeOK, TypeOK', TasksSound, TasksFit, SessionInv, NEW t \in Threads,
         NEW op \in {"send", "sendAll"}, RunTask(t, op), NEW S \in SUBSET Of(t),
         S \subseteq members, NEW d \in Messages, WriteData(t, S, d),
         UNCHANGED <<loop, acceptVars, lifeVars>>
  PROVE  TasksSound' /\ TasksFit' /\ SessionInv'
<1>0. S \in SUBSET Ids /\ Idle(S) \subseteq S
  BY Small DEF Idle
<1>1. PICK p \in Seq(Event) :
        /\ tasks' = [tasks EXCEPT ![t] = @ \o p]
        /\ \A j \in 1..Len(p) : p[j].op = "write" /\ p[j].s \in Idle(S)
        /\ \A s \in Idle(S) : \E j \in 1..Len(p) : p[j].op = "write" /\ p[j].s = s
        /\ \A i, j \in 1..Len(p) : i < j => p[i].s # p[j].s
  BY ZenonT(60), <1>0, WriteDataPosts
<1>2. Moves(t, 1, p) /\ Queue(t)[1].op # "write"
  BY ZenonT(60), <1>1, TaskMoves, RunType
<1>3. UNCHANGED <<ids, loop, lifeVars, members, obj, added, peer, wire, inFlight, written>>
  BY DEF acceptVars, lifeVars, RunTask, WriteData
<1>4. /\ \A s \in Ids : pending[s] => pending'[s]
      /\ \A s \in Idle(S) : pending'[s] /\ ~pending[s]
  BY <1>0 DEF WriteData, Idle, TypeOK
<1>5. \A s \in S : s \in Of(t) /\ s \in Ids /\ obj[s] = "open" /\ added[s] = 1
  BY <1>0, SessionFacts
<1>6. ASSUME NEW u \in Threads, NEW e \in Event, Sound(e, u) PROVE Sound(e, u)'
  <2>1. e.op = "write" => e.s \in Ids
    BY <1>6, Small DEF Sound, Targeted
  <2> QED
    BY <1>3, <1>4, <1>6, <2>1 DEF Sound
<1>7. ASSUME NEW j \in 1..Len(p) PROVE Sound(p[j], t)'
  <2>1. PICK e : e = p[j]
    OBVIOUS
  <2>2. e.op = "write" /\ e.s \in Idle(S)
    BY <1>1, <2>1
  <2>3. ~pending[e.s] /\ e.s \in S
    BY <1>0, <1>4, <2>2
  <2>4. ~inFlight[e.s]
    BY <1>5, <2>3 DEF SessionInv, Session, Writing
  <2>5. Sound(e, t)'
    BY <1>3, <1>4, <1>5, <2>2, <2>3, <2>4 DEF Sound
  <2> QED
    BY <2>1, <2>5
<1>8. ASSUME NEW e \in Event, Sound(e, t), NEW j \in 1..Len(p) PROVE Fits(e, p[j])
  <2>1. p[j].op = "write" /\ p[j].s \in S /\ ~pending[p[j].s]
    BY <1>0, <1>1, <1>4
  <2>2. ~(e.s = p[j].s /\ e.op = "write")
    BY <1>5, <1>8, <2>1 DEF Sound
  <2> QED
    BY <2>1, <2>2, FitsCases
<1>9. \A i, j \in 1..Len(p) : i < j => Fits(p[i], p[j])
  BY <1>1 DEF Fits
<1>10. TasksSound' /\ TasksFit'
  BY <1>2, <1>6, <1>7, <1>8, <1>9, TasksStep
<1>11. ASSUME NEW s \in Ids PROVE Session(s)'
  <2>1. Waits(s) => Waits(s)'
    BY <1>2, WaitsStep
  <2>2. s \in Idle(S) => Waits(s)'
    <3>1. s \in Idle(S) => ThreadOf(s) = t
      BY <1>0, Small
    <3> QED
      BY <1>1, <1>2, <3>1, WaitsStep
  <2>3. CASE s \in S
    BY <1>0, <1>3, <2>1, <2>2, <2>3, WriteDataSession
  <2>4. CASE s \notin S
    <3>1. /\ sendQueue'[s] = sendQueue[s] /\ sendBuf'[s] = sendBuf[s]
          /\ accepted'[s] = accepted[s] /\ pending'[s] = pending[s]
      BY <2>4 DEF WriteData, TypeOK
    <3>2. Unmoved(s)
      BY <1>3, <3>1 DEF Unmoved, lifeVars
    <3>3. ids <= ids'
      BY <1>3, UvAssumption DEF TypeOK
    <3> QED
      BY <2>1, <3>2, <3>3, UnmovedSession DEF SessionInv
  <2> QED
    BY <2>3, <2>4
<1> QED
  BY <1>10, <1>11 DEF SessionInv

LEMMA SendStep ==
  ASSUME TypeOK, TypeOK', TasksSound, TasksFit, SessionInv, NEW t \in Threads,
         HandleSendData(t) \/ HandleSendDataAll(t)
  PROVE  TasksSound' /\ TasksFit' /\ SessionInv'
<1>1. CASE HandleSendData(t)
  <2>1. RunTask(t, "send") /\ WriteData(t, {Task(t).s} \cap members, Task(t).d)
        /\ UNCHANGED <<loop, acceptVars, lifeVars>>
    BY <1>1 DEF HandleSendData
  <2>2. Task(t).s \in Of(t) /\ Task(t).d \in Messages
    BY <2>1, HeadTask DEF Sound, Targeted
  <2>3. PICK S : S = {Task(t).s} \cap members
    OBVIOUS
  <2>4. PICK d \in Messages : d = Task(t).d
    BY <2>2
  <2>5. S \in SUBSET Of(t) /\ S \subseteq members /\ WriteData(t, S, d)
    BY <2>1, <2>2, <2>3, <2>4
  <2> QED
    BY <2>1, <2>5, WriteDataStep
<1>2. CASE HandleSendDataAll(t)
  <2>1. RunTask(t, "sendAll") /\ WriteData(t, Of(t) \cap members, Task(t).d)
        /\ UNCHANGED <<loop, acceptVars, lifeVars>>
    BY <1>2 DEF HandleSendDataAll
  <2>2. Task(t).d \in Messages
    BY <2>1, HeadTask DEF Sound
  <2>3. PICK S : S = Of(t) \cap members
    OBVIOUS
  <2>4. PICK d \in Messages : d = Task(t).d
    BY <2>2
  <2>5. S \in SUBSET Of(t) /\ S \subseteq members /\ WriteData(t, S, d)
    BY <2>1, <2>3, <2>4
  <2> QED
    BY <2>1, <2>5, WriteDataStep
<1> QED
  BY <1>1, <1>2
-----------------------------------------------------------------------------
(* The end of a batch and of a round of libuv.                             *)

LEMMA WaitsStay ==
  ASSUME TypeOK, NEW t \in Threads, Moves(t, 0, <<>>), NEW s \in Ids, Waits(s)
  PROVE  Waits(s)'
<1> DEFINE p == <<>>
<1>1. p \in Seq(Event) /\ Moves(t, 0, p)
  BY EmptySeq
<1> HIDE DEF p
<1> QED
  BY <1>1, WaitsStep

LEMMA BatchEndStep ==
  ASSUME TypeOK, TypeOK', LoopInv, TasksSound, TasksFit, SessionInv, NEW t \in Threads,
         BatchEnd(t)
  PROVE  TasksSound' /\ TasksFit' /\ SessionInv'
<1>1. UNCHANGED <<tasks, batch, ids, added, closed, peer, sendVars, wire>>
  BY DEF BatchEnd, acceptVars
<1>2. Moves(t, 0, <<>>)
  BY <1>1, StayMoves DEF Queue
<1>3. ids <= ids'
  BY <1>1, UvAssumption DEF TypeOK
<1>4. CASE loop[t] = "tasks"
  <2>1. loop' = [loop EXCEPT ![t] = "io"] /\ UNCHANGED <<members, obj, reading>>
    BY <1>4 DEF BatchEnd
  <2>2. \A s \in Ids : Unmoved(s)
    BY <1>1, <2>1 DEF Unmoved, sendVars
  <2>3. \A u \in Threads : loop'[u] \notin {"spin", "done"} =>
                             loop[u] \notin {"spin", "done"}
    BY <1>4, <2>1 DEF TypeOK
  <2> QED
    BY <1>1, <1>2, <1>3, <2>2, <2>3, QuietNone
<1>5. CASE loop[t] = "drain"
  <2>1. /\ loop' = [loop EXCEPT ![t] = "spin"] /\ members' = members \ Of(t)
        /\ obj' = [s \in Ids |-> IF s \in Of(t) \cap members THEN "closing" ELSE obj[s]]
        /\ reading' = [s \in Ids |-> reading[s] /\ s \notin Of(t)]
    BY <1>5 DEF BatchEnd
  <2>2. loop'[t] = "spin" /\ \A u \in Threads : u # t => loop'[u] = loop[u]
    BY <2>1 DEF TypeOK
  <2>3. ASSUME NEW s \in Ids, ~(s \in Of(t) /\ s \in members) PROVE Unmoved(s)
    BY <1>1, <2>1, <2>3 DEF Unmoved, sendVars
  <2>4. ASSUME NEW s \in Ids, s \in Of(t), s \in members
        PROVE  /\ obj[s] = "open" /\ added[s] = 1 /\ added'[s] = 1
               /\ obj'[s] = "closing" /\ s \notin members'
    BY <1>1, <2>1, <2>4, SessionFacts
  <2>5. ASSUME NEW u \in Threads, NEW e \in Event, Sound(e, u) PROVE Sound(e, u)'
    <3>1. e.op \in Targeted => e.s \in Of(u) /\ e.s \in Ids
      BY <2>5, Small DEF Sound
    <3>2. CASE u # t
      <4>1. e.op \in Targeted => Unmoved(e.s)
        BY <2>3, <3>1, <3>2, Small
      <4> QED
        BY <1>1, <2>2, <2>5, <3>2, <4>1, SoundKept
    <3>3. CASE u = t /\ (e.op \in Targeted => e.s \notin members)
      <4>1. e.op \in Targeted => Unmoved(e.s)
        BY <2>3, <3>1, <3>3
      <4> QED
        BY <1>1, <2>2, <2>5, <3>3, <4>1, SoundKept
    <3>4. CASE u = t /\ e.op \in Targeted /\ e.s \in members
      <4>1. obj[e.s] = "open" /\ added[e.s] = 1 /\ added'[e.s] = 1 /\ obj'[e.s] = "closing"
        BY <2>4, <3>1, <3>4
      <4> QED
        BY <2>2, <2>5, <3>4, <4>1 DEF Sound
    <3> QED
      BY <3>2, <3>3, <3>4
  <2>6. TasksSound' /\ TasksFit'
    <3> DEFINE p == <<>>
    <3>1. p \in Seq(Event) /\ Len(p) = 0 /\ \A j \in 1..Len(p) : FALSE
      BY EmptySeq
    <3>2. Moves(t, 0, p)
      BY <1>2
    <3> HIDE DEF p
    <3> QED
      BY <2>5, <3>1, <3>2, TasksStep
  <2>7. ASSUME NEW s \in Ids PROVE Session(s)'
    <3>1. Session(s)
      BY DEF SessionInv
    <3>2. CASE ~(s \in Of(t) /\ s \in members)
      <4>1. Waits(s) => Waits(s)'
        BY <1>2, WaitsStay
      <4> QED
        BY <1>3, <2>3, <3>1, <3>2, <4>1, UnmovedSession
    <3>3. CASE s \in Of(t) /\ s \in members
      <4>1. obj[s] = "open" /\ added[s] = 1 /\ obj'[s] = "closing" /\ s \notin members'
            /\ added'[s] = 1
        BY <2>4, <3>3
      <4>2. Fresh(s)'
        BY <1>1, <3>1, <4>1 DEF Session, Fresh
      <4>3. Matches(s)'
        BY <1>1, <3>1, <4>1 DEF Session, Matches
      <4>4. Writing(s)'
        BY <1>1, <3>1, <4>1 DEF Session, Writing, sendVars
      <4>5. Intact(s)'
        BY <1>1, <3>1, <4>1 DEF Session, Intact, sendVars
      <4> QED
        BY <4>2, <4>3, <4>4, <4>5 DEF Session
    <3> QED
      BY <3>2, <3>3
  <2> QED
    BY <2>6, <2>7 DEF SessionInv
<1> QED
  BY <1>4, <1>5 DEF BatchEnd

LEMMA EndRunStep ==
  ASSUME TypeOK, TypeOK', LoopInv, TasksSound, TasksFit, SessionInv, NEW t \in Threads,
         EndRun(t)
  PROVE  TasksSound' /\ TasksFit' /\ SessionInv'
<1> DEFINE S == {s \in Of(t) : obj[s] = "closing"}
<1>1. UNCHANGED <<tasks, batch, ids, members, reading, added, closed, peer, wire, accepted>>
  BY DEF EndRun, acceptVars
<1>2. /\ obj' = [s \in Ids |-> IF s \in S THEN "freed" ELSE obj[s]]
      /\ pending' = [s \in Ids |-> IF s \in S THEN FALSE ELSE pending[s]]
      /\ sendQueue' = [s \in Ids |-> IF s \in S THEN <<>> ELSE sendQueue[s]]
      /\ sendBuf' = [s \in Ids |-> IF s \in S THEN <<>> ELSE sendBuf[s]]
      /\ inFlight' = [s \in Ids |-> IF s \in S THEN FALSE ELSE inFlight[s]]
      /\ written' = [s \in Ids |-> IF s \in S THEN 0 ELSE written[s]]
  BY DEF EndRun
<1>3. \A s \in S : obj[s] = "closing"
  OBVIOUS
<1> HIDE DEF S
<1>4. \A u \in Threads : loop'[u] \notin {"spin", "done"} => loop[u] \notin {"spin", "done"}
  <2>1. \/ loop[t] = "io" /\ loop' = [loop EXCEPT ![t] = "check"]
        \/ loop[t] = "spin" /\ loop' = [loop EXCEPT ![t] = "done"]
    BY DEF EndRun
  <2>2. \A u \in Threads : u # t => loop'[u] = loop[u]
    BY <2>1 DEF TypeOK
  <2>3. loop'[t] \in {"spin", "done"} \/ loop[t] \notin {"spin", "done"}
    BY <2>1 DEF TypeOK
  <2> QED
    BY <2>2, <2>3
<1>5. Moves(t, 0, <<>>)
  BY <1>1, StayMoves DEF Queue
<1>6. ids <= ids'
  BY <1>1, UvAssumption DEF TypeOK
<1>7. ASSUME NEW s \in Ids, s \notin S PROVE Unmoved(s)
  BY <1>1, <1>2, <1>7 DEF Unmoved
<1>8. ASSUME NEW s \in Ids, s \in S
      PROVE  /\ obj[s] = "closing" /\ obj'[s] = "freed" /\ ~pending'[s] /\ ~inFlight'[s]
             /\ sendQueue'[s] = <<>> /\ sendBuf'[s] = <<>> /\ written'[s] = 0
  BY <1>2, <1>3, <1>8
<1>9. ASSUME NEW u \in Threads, NEW e \in Event, Sound(e, u) PROVE Sound(e, u)'
  <2>1. e.op \in Targeted => e.s \in Ids
    BY <1>9, Small DEF Sound
  <2>2. CASE e.op \in Targeted => e.s \notin S
    <3>1. e.op \in Targeted => Unmoved(e.s)
      BY <1>7, <2>1, <2>2
    <3> QED
      BY <1>1, <1>4, <1>9, <3>1, SoundKept
  <2>3. CASE e.op \in Targeted /\ e.s \in S
    <3>1. obj[e.s] = "closing" /\ obj'[e.s] = "freed"
      BY <1>8, <2>1, <2>3
    <3> QED
      BY <1>1, <1>4, <1>9, <2>3, <3>1 DEF Sound
  <2> QED
    BY <2>2, <2>3
<1>10. TasksSound' /\ TasksFit'
  <2> DEFINE p == <<>>
  <2>1. p \in Seq(Event) /\ Len(p) = 0 /\ \A j \in 1..Len(p) : FALSE
    BY EmptySeq
  <2>2. Moves(t, 0, p)
    BY <1>5
  <2> HIDE DEF p
  <2> QED
    BY <1>9, <2>1, <2>2, TasksStep
<1>11. ASSUME NEW s \in Ids PROVE Session(s)'
  <2>1. Session(s)
    BY DEF SessionInv
  <2>2. CASE s \notin S
    <3>1. Waits(s) => Waits(s)'
      BY <1>5, WaitsStay
    <3> QED
      BY <1>6, <1>7, <2>1, <2>2, <3>1, UnmovedSession
  <2>3. CASE s \in S
    <3>1. /\ obj[s] = "closing" /\ obj'[s] = "freed" /\ ~pending'[s] /\ ~inFlight'[s]
          /\ sendQueue'[s] = <<>> /\ sendBuf'[s] = <<>> /\ written'[s] = 0
      BY <1>8, <2>3
    <3>2. Fresh(s)'
      BY <1>1, <2>1, <3>1 DEF Session, Fresh
    <3>3. Matches(s)'
      BY <1>1, <2>1, <3>1 DEF Session, Matches
    <3>4. Writing(s)'
      BY <3>1, EmptySeq DEF Writing
    <3>5. Intact(s)'
      BY <1>1, <2>1, <3>1 DEF Session, Intact
    <3> QED
      BY <3>2, <3>3, <3>4, <3>5 DEF Session
  <2> QED
    BY <2>2, <2>3
<1> QED
  BY <1>10, <1>11 DEF SessionInv
-----------------------------------------------------------------------------
(* The inductive invariant.                                                *)

LEMMA TasksInit == Init => TasksSound /\ TasksFit
<1> SUFFICES ASSUME Init PROVE TasksSound /\ TasksFit
  OBVIOUS
<1> DEFINE x == Ev("listen", 0, 0)
           first == <<x>>
<1>1. x \in Event /\ x.op = "listen"
  BY Small, EvTypes DEF Ops
<1>2. first \in Seq(Event) /\ Len(first) = 1 /\ first[1] = x
  BY <1>1
<1>3. <<>> \in Seq(Event) /\ <<>> \o <<>> = <<>> /\ Len(<<>>) = 0
  OBVIOUS
<1> HIDE DEF x, first
<1>4. ASSUME NEW t \in Threads PROVE Queue(t) = IF t = 0 THEN first ELSE <<>>
  <2>1. batch[t] = <<>> /\ tasks[t] = IF t = 0 THEN first ELSE <<>>
    BY DEF Init, first, x
  <2>2. <<>> \o first = first
    BY <1>2, ConcatEmptySeq
  <2> QED
    BY <1>3, <2>1, <2>2 DEF Queue
<1>5. ASSUME NEW t \in Threads, NEW i \in Positions(t)
      PROVE  i = 1 /\ Queue(t)[i] = x
  <2>1. CASE t = 0
    <3>1. Queue(t) = first /\ i \in 1..1
      BY <1>2, <1>4, <2>1 DEF Positions
    <3> QED
      BY <1>2, <3>1
  <2>2. CASE t # 0
    BY <1>3, <1>4, <2>2 DEF Positions
  <2> QED
    BY <2>1, <2>2
<1>6. ASSUME NEW t \in Threads PROVE Sound(x, t)
  BY <1>1 DEF Sound, Targeted
<1>7. TasksSound
  BY <1>5, <1>6 DEF TasksSound
<1>8. TasksFit
  BY <1>5 DEF TasksFit
<1> QED
  BY <1>7, <1>8

LEMMA SessionsInit == Init => SessionInv
<1> SUFFICES ASSUME Init, NEW s \in Ids PROVE Session(s)
  BY DEF SessionInv
<1>1. /\ s \notin members /\ obj[s] = "none" /\ peer[s] = "up" /\ ~reading[s]
      /\ ~pending[s] /\ ~inFlight[s] /\ written[s] = 0 /\ sendQueue[s] = <<>>
      /\ sendBuf[s] = <<>> /\ wire[s] = <<>> /\ accepted[s] = <<>>
      /\ added[s] = 0 /\ closed[s] = 0
  BY DEF Init
<1>2. Fresh(s)
  BY <1>1 DEF Fresh
<1>3. Matches(s)
  BY <1>1 DEF Matches
<1>4. Writing(s)
  <2>1. 0 <= Len(<<>>)
    OBVIOUS
  <2> QED
    BY <1>1, <2>1 DEF Writing
<1>5. Intact(s)
  <2> DEFINE e == <<>>
  <2>1. e \in Seq(Messages) /\ e \o e = e
    OBVIOUS
  <2> HIDE DEF e
  <2>2. IsPrefix(e, e)
    <3>1. IsPrefix(e, e \o e)
      BY <2>1, PrefixOfConcat
    <3> QED
      BY <2>1, <3>1
  <2>3. IsPrefix(wire[s], accepted[s])
    BY <1>1, <2>2 DEF e
  <2> QED
    BY <1>1, <2>3 DEF Intact
<1> QED
  BY <1>2, <1>3, <1>4, <1>5 DEF Session

LEMMA LoopUser ==
  ASSUME TypeOK, LoopInv,
         \/ DoSendDataAll \/ TryStopNetWork \/ StopThread \/ JoinThread
         \/ \E s \in Ids : DoSendData(s) \/ DoCloseSession(s) \/ PeerGone(s)
  PROVE  LoopInv'
<1>1. ThreadCount \in Nat /\ ThreadCount > 0 /\ at \in 0..ThreadCount
  BY UvAssumption DEF TypeOK
<1>2. CASE UNCHANGED <<batch, loop, stopVars>>
  BY <1>2 DEF LoopInv, stopVars
<1>3. CASE TryStopNetWork
  <2>1. UNCHANGED <<batch, loop>> /\ at' = 0 /\ stop' = "flag"
    BY <1>3 DEF TryStopNetWork, LoopInv
  <2>2. at' < ThreadCount
    BY <1>1, <2>1
  <2> QED
    BY <2>1, <2>2 DEF LoopInv
<1>4. CASE StopThread
  <2>1. UNCHANGED <<batch, loop>> /\ at' = at /\ stop = "flag" /\ stop' = "join"
    BY <1>4 DEF StopThread, threadVars
  <2> QED
    BY <2>1 DEF LoopInv
<1>5. CASE JoinThread
  <2>1. /\ UNCHANGED <<batch, loop>> /\ stop = "join" /\ at' = at + 1
        /\ stop' = IF at + 1 = ThreadCount THEN "done" ELSE "flag"
    BY <1>5 DEF JoinThread, threadVars
  <2>2. at < ThreadCount
    BY <2>1 DEF LoopInv
  <2>3. stop' = "flag" => at' < ThreadCount
    BY <1>1, <2>1, <2>2
  <2> QED
    BY <2>1, <2>3 DEF LoopInv
<1> QED
  BY <1>2, <1>3, <1>4, <1>5
     DEF DoSendDataAll, DoSendData, DoCloseSession, PeerGone, threadVars

\* Where a step of thread t leaves its loop.
LEMMA LoopLoop ==
  ASSUME TypeOK, LoopInv, NEW t \in Threads,
         \/ ThreadFunc(t) \/ ConnectCB(t)
         \/ \E s \in Ids :
              \/ ReadEnd(t, s) \/ Transmit(t, s) \/ OnWriteDataCB(t, s)
              \/ \E to \in Ids : ReadReply(t, s, to)
  PROVE  LoopInv'
<1>1. UNCHANGED stopVars
  BY DEF ThreadFunc, Handle, SwapTasks, BatchEnd, EndRun, HandleListen, CloseListen,
         HandleAccept, HandleAddSession, StartReceive, HandleCloseSession, HandleSendData,
         HandleSendDataAll, WriteTask, RunTask, ConnectCB, ReadEnd, Transmit,
         OnWriteDataCB, ReadReply, Callback
<1>2. ASSUME \A u \in Threads : u # t => batch'[u] = batch[u] /\ loop'[u] = loop[u],
             loop'[t] \in {"check", "io"} => batch'[t] = <<>>
      PROVE  LoopInv'
  <2>1. \A u \in Threads : loop'[u] \in {"check", "io"} => batch'[u] = <<>>
    BY <1>2 DEF LoopInv
  <2> QED
    BY <1>1, <2>1 DEF LoopInv, stopVars
<1>3. CASE SwapTasks(t)
  <2>1. loop'[t] \in {"drain", "tasks"}
        /\ \A u \in Threads : u # t => batch'[u] = batch[u] /\ loop'[u] = loop[u]
    BY <1>3 DEF SwapTasks, TypeOK
  <2> QED
    BY <1>2, <2>1
<1>4. CASE Handle(t)
  <2>1. \/ UNCHANGED loop \/ loop' = [loop EXCEPT ![t] = "undefined"]
    BY <1>4 DEF Handle, HandleListen, CloseListen, HandleAccept, HandleAddSession,
         StartReceive, HandleCloseSession, HandleSendData, HandleSendDataAll, WriteTask
  <2>2. \E op : RunTask(t, op)
    BY <1>4 DEF Handle, HandleListen, CloseListen, HandleAccept, HandleAddSession,
         StartReceive, HandleCloseSession, HandleSendData, HandleSendDataAll, WriteTask
  <2>3. loop[t] \in {"tasks", "drain"} /\ batch' = [batch EXCEPT ![t] = Tail(@)]
    BY <2>2 DEF RunTask
  <2>4. loop'[t] \notin {"check", "io"}
    BY <2>1, <2>3 DEF TypeOK
  <2>5. \A u \in Threads : u # t => batch'[u] = batch[u] /\ loop'[u] = loop[u]
    BY <2>1, <2>3 DEF TypeOK
  <2> QED
    BY <1>2, <2>4, <2>5
<1>5. CASE BatchEnd(t)
  <2>1. batch[t] = <<>> /\ UNCHANGED batch
        /\ \E l \in {"io", "spin"} : loop' = [loop EXCEPT ![t] = l]
    BY <1>5 DEF BatchEnd
  <2>2. \A u \in Threads : u # t => loop'[u] = loop[u]
    BY <2>1 DEF TypeOK
  <2> QED
    BY <1>2, <2>1, <2>2
<1>6. CASE EndRun(t)
  <2>1. /\ UNCHANGED batch
        /\ \/ loop[t] = "io" /\ loop' = [loop EXCEPT ![t] = "check"]
           \/ loop[t] = "spin" /\ loop' = [loop EXCEPT ![t] = "done"]
    BY <1>6 DEF EndRun
  <2>2. \A u \in Threads : u # t => loop'[u] = loop[u]
    BY <2>1 DEF TypeOK
  <2>3. loop'[t] = "check" => batch[t] = <<>>
    BY <2>1 DEF TypeOK, LoopInv
  <2>4. loop'[t] \in {"check", "done"}
    BY <2>1 DEF TypeOK
  <2> QED
    BY <1>2, <2>1, <2>2, <2>3, <2>4
<1>7. CASE \/ ConnectCB(t)
           \/ \E s \in Ids :
                \/ ReadEnd(t, s) \/ Transmit(t, s) \/ OnWriteDataCB(t, s)
                \/ \E to \in Ids : ReadReply(t, s, to)
  <2>1. /\ loop[t] = "io" /\ UNCHANGED batch
        /\ UNCHANGED loop \/ loop' = [loop EXCEPT ![t] = "undefined"]
    BY <1>7 DEF ConnectCB, ReadEnd, Transmit, OnWriteDataCB, ReadReply, Callback
  <2>2. batch[t] = <<>>
    BY <2>1 DEF LoopInv
  <2>3. \A u \in Threads : u # t => loop'[u] = loop[u]
    BY <2>1 DEF TypeOK
  <2> QED
    BY <1>2, <2>1, <2>2, <2>3
<1> QED
  BY <1>3, <1>4, <1>5, <1>6, <1>7 DEF ThreadFunc

LEMMA Initial == Init => IInv
<1>1. Init => LoopInv
  BY DEF Init, LoopInv
<1> QED
  BY <1>1, TypeInit, TasksInit, SessionsInit DEF IInv

LEMMA Preserved == IInv /\ [Next]_vars => IInv'
<1> SUFFICES ASSUME IInv, [Next]_vars PROVE IInv'
  OBVIOUS
<1>1. TypeOK /\ LoopInv /\ TasksSound /\ TasksFit /\ SessionInv
  BY DEF IInv
<1>2. CASE \/ DoSendDataAll \/ TryStopNetWork \/ StopThread \/ JoinThread
           \/ \E s \in Ids : DoSendData(s) \/ DoCloseSession(s) \/ PeerGone(s)
  <2>1. TypeOK'
    BY <1>1, <1>2, TypeUser
  <2>2. LoopInv'
    BY <1>1, <1>2, LoopUser
  <2>3. TasksSound' /\ TasksFit' /\ SessionInv'
    BY <1>1, <1>2, <2>1, UserStep
  <2> QED
    BY <2>1, <2>2, <2>3 DEF IInv
<1>3. ASSUME NEW t \in Threads, ThreadFunc(t) PROVE IInv'
  <2>1. TypeOK'
    BY <1>1, <1>3, TypeHandle, TypeLoop DEF ThreadFunc
  <2>2. LoopInv'
    BY <1>1, <1>3, LoopLoop
  <2>3. TasksSound' /\ TasksFit' /\ SessionInv'
    <3>1. CASE SwapTasks(t) \/ HandleListen(t) \/ CloseListen(t) \/ StartReceive(t)
      BY <1>1, <2>1, <3>1, QuietLoopStep
    <3>2. CASE HandleAccept(t)
      BY <1>1, <2>1, <3>2, AcceptStep
    <3>3. CASE HandleAddSession(t)
      BY <1>1, <2>1, <3>3, AddStep
    <3>4. CASE HandleCloseSession(t)
      BY <1>1, <2>1, <3>4, CloseStep
    <3>5. CASE WriteTask(t)
      BY <1>1, <2>1, <3>5, WriteStep
    <3>6. CASE HandleSendData(t) \/ HandleSendDataAll(t)
      BY <1>1, <2>1, <3>6, SendStep
    <3>7. CASE BatchEnd(t)
      BY <1>1, <2>1, <3>7, BatchEndStep
    <3>8. CASE EndRun(t)
      BY <1>1, <2>1, <3>8, EndRunStep
    <3> QED
      BY <1>3, <3>1, <3>2, <3>3, <3>4, <3>5, <3>6, <3>7, <3>8 DEF ThreadFunc, Handle
  <2> QED
    BY <2>1, <2>2, <2>3 DEF IInv
<1>4. ASSUME NEW t \in Threads,
             \/ ConnectCB(t)
             \/ \E s \in Ids :
                  \/ ReadEnd(t, s) \/ Transmit(t, s) \/ OnWriteDataCB(t, s)
                  \/ \E to \in Ids : ReadReply(t, s, to)
      PROVE  IInv'
  <2>1. TypeOK'
    BY <1>1, <1>4, TypeLoop
  <2>2. LoopInv'
    BY <1>1, <1>4, LoopLoop
  <2>3. TasksSound' /\ TasksFit' /\ SessionInv'
    <3>1. CASE \/ ConnectCB(t)
               \/ \E s \in Ids : ReadEnd(t, s) \/ \E to \in Ids : ReadReply(t, s, to)
      BY <1>1, <2>1, <3>1, QuietLoopStep
    <3>2. ASSUME NEW s \in Ids, Transmit(t, s) PROVE TasksSound' /\ TasksFit' /\ SessionInv'
      BY <1>1, <2>1, <3>2, TransmitStep
    <3>3. ASSUME NEW s \in Ids, OnWriteDataCB(t, s)
          PROVE  TasksSound' /\ TasksFit' /\ SessionInv'
      BY SMTT(30), <1>1, <2>1, <3>3, WrittenStep
    <3> QED
      BY <1>4, <3>1, <3>2, <3>3
  <2> QED
    BY <2>1, <2>2, <2>3 DEF IInv
<1>5. CASE UNCHANGED vars
  <2>1. UNCHANGED <<tasks, batch, loop, stop, at, ids, lifeVars, peer, sendVars, wire>>
    BY <1>5 DEF vars, threadVars, stopVars, acceptVars
  <2>2. TypeOK'
    BY <1>1, <1>5
       DEF vars, threadVars, stopVars, acceptVars, lifeVars, sendVars, userVars, TypeOK
  <2>3. LoopInv'
    BY <1>1, <2>1 DEF LoopInv
  <2>4. \A s \in Ids : Unmoved(s)
    BY <2>1 DEF Unmoved, lifeVars, sendVars
  <2>5. PICK t \in Threads : Moves(t, 0, <<>>)
    BY <1>1, <2>1, Small, StayMoves DEF Queue
  <2>6. ids <= ids'
    BY <1>1, <2>1, UvAssumption DEF TypeOK
  <2>7. TasksSound' /\ TasksFit' /\ SessionInv'
    BY <1>1, <2>1, <2>2, <2>4, <2>5, <2>6, QuietNone
  <2> QED
    BY <2>2, <2>3, <2>7 DEF IInv
<1> QED
  BY <1>2, <1>3, <1>4, <1>5 DEF Next

\* The invariant from which the rest follows: the types, where the loops and
\* the stop stand, what each queued task finds of its session, and for each
\* session what its object, its place in m_sessions, its flags and its data
\* say of each other.
THEOREM NetInductive == Spec => []IInv
BY Initial, Preserved, PTL DEF Spec

\* The types of the variables.
THEOREM TypeCorrect == Spec => []TypeOK
<1>1. IInv => TypeOK
  BY DEF IInv
<1> QED
  BY <1>1, NetInductive, PTL

\* m_sessions holds the sessions that were announced and whose closing has not
\* begun; OnCloseSession is called at most once for each.
THEOREM MapMatchesAlways == Spec => []MapMatches
<1>1. IInv => MapMatches
  BY DEF IInv, SessionInv, Session, Matches, MapMatches
<1> QED
  BY <1>1, NetInductive, PTL

\* What goes to the peer is what WriteData was given, in its order, and as long
\* as the session lives nothing is lost or duplicated on the way.
THEOREM StreamIntactAlways == Spec => []StreamIntact
<1>1. IInv => StreamIntact
  BY DEF IInv, SessionInv, Session, Intact, StreamIntact
<1> QED
  BY <1>1, NetInductive, PTL

\* m_req and m_sendBuf serve one write at a time, and m_pending says whether
\* there is one.
THEOREM OneWriteAlways == Spec => []OneWriteAtATime
<1>1. ASSUME IInv, NEW s \in Ids, obj[s] = "open"
      PROVE  IF pending[s] THEN \E w \in Writes(s) : Writes(s) = {w} ELSE Writes(s) = {}
  <2> DEFINE t == ThreadOf(s)
             W == {i \in Positions(t) : Queue(t)[i].op = "write" /\ Queue(t)[i].s = s}
  <2>1. /\ TypeOK /\ TasksSound /\ TasksFit /\ Writing(s) /\ t \in Threads
    BY <1>1, Small DEF IInv, SessionInv, Session
  <2>2. Writes(s) = W \cup (IF inFlight[s] THEN {0} ELSE {})
    BY <2>1, QueueTypes DEF Writes
  <2>3. \A i \in W : Sound(Queue(t)[i], t) /\ pending[s] /\ ~inFlight[s]
    BY <1>1, <2>1 DEF TasksSound, Sound
  <2>4. \A i, j \in W : i = j
    <3> SUFFICES ASSUME NEW i \in W, NEW j \in W, i < j PROVE FALSE
      BY DEF Positions
    <3>1. Fits(Queue(t)[i], Queue(t)[j])
      BY <2>1 DEF TasksFit
    <3> QED
      BY <3>1, FitsCases
  <2>5. inFlight[s] => pending[s]
    BY <1>1, <2>1 DEF Writing
  <2>6. pending[s] /\ ~inFlight[s] => \E i \in W : TRUE
    BY <1>1, <2>1 DEF Writing, Waits
  <2> HIDE DEF W
  <2>7. CASE inFlight[s]
    <3>1. W = {}
      BY <2>3, <2>7
    <3> QED
      BY <2>2, <2>5, <2>7, <3>1
  <2>8. CASE ~inFlight[s] /\ pending[s]
    <3>1. PICK i \in W : TRUE
      BY <2>6, <2>8
    <3>2. W = {i}
      BY <2>4, <3>1
    <3> QED
      BY <2>2, <2>8, <3>1, <3>2
  <2>9. CASE ~inFlight[s] /\ ~pending[s]
    <3>1. W = {}
      BY <2>3, <2>9
    <3> QED
      BY <2>2, <2>9, <3>1
  <2> QED
    BY <2>7, <2>8, <2>9
<1>2. IInv => OneWriteAtATime
  BY <1>1 DEF OneWriteAtATime
<1> QED
  BY <1>2, NetInductive, PTL

\* Of the tasks that hold the raw pointer only the write task can run after its
\* session was deleted.
THEOREM OnlyWriteDanglesAlways == Spec => []OnlyWriteDangles
<1>1. IInv => OnlyWriteDangles
  <2> SUFFICES ASSUME IInv, NEW t \in Threads, loop[t] \notin {"spin", "done"},
                      NEW i \in DOMAIN Queue(t)
               PROVE  /\ Queue(t)[i].op = "add" => obj[Queue(t)[i].s] = "open"
                      /\ Queue(t)[i].op = "read" => obj[Queue(t)[i].s] # "freed"
    BY DEF OnlyWriteDangles
  <2>1. i \in Positions(t) /\ TasksSound
    BY QueueTypes DEF IInv
  <2>2. Sound(Queue(t)[i], t)
    BY <2>1 DEF TasksSound
  <2> QED
    BY <2>2 DEF Sound
<1> QED
  BY <1>1, NetInductive, PTL
-----------------------------------------------------------------------------
(* The sessions are streams.                                               *)

\* Unsent and Up of one session.
Alive(s) == obj[s] \in {"none", "open"} /\ peer[s] = "up"
Unwritten(s) == IF Alive(s) THEN Rest(s) \o sendQueue[s] ELSE <<>>

LEMMA StreamVars ==
  /\ Unsent = [s \in Ids |-> Unwritten(s)]
  /\ Up = [s \in Ids |-> Alive(s)]
  /\ \A s \in Ids : Unsent[s] = Unwritten(s) /\ (Up[s] <=> Alive(s))
<1>1. \A s \in Ids : Up[s] <=> Alive(s)
  BY DEF Up, Alive
<1>2. \A s \in Ids : Unsent[s] = Unwritten(s)
  BY <1>1 DEF Unsent, Unwritten
<1>3. Unsent = [s \in Ids |-> Unwritten(s)]
  BY <1>1 DEF Unsent, Unwritten
<1> QED
  BY <1>1, <1>2, <1>3 DEF Up, Alive

LEMMA StreamVarsNext ==
  /\ Unsent' = [s \in Ids |-> Unwritten(s)']
  /\ Up' = [s \in Ids |-> Alive(s)']
<1>1. \A s \in Ids : Up'[s] <=> Alive(s)'
  BY DEF Up, Alive
<1>2. Unsent' = [s \in Ids |-> Unwritten(s)']
  BY <1>1 DEF Unsent, Unwritten
<1> QED
  BY <1>2 DEF Up, Alive

LEMMA Stutters ==
  ASSUME UNCHANGED wire,
         \A s \in Ids : Unwritten(s)' = Unwritten(s) /\ (Alive(s)' <=> Alive(s))
  PROVE  UNCHANGED Stream!vars
<1>1. Unsent' = Unsent
  BY StreamVars, StreamVarsNext
<1>2. Up' = Up
  BY DEF Up, Alive
<1> QED
  BY <1>1, <1>2 DEF Stream!vars

LEMMA Breaks ==
  ASSUME UNCHANGED wire, NEW S \in SUBSET Ids,
         \A s \in Ids : Unwritten(s)' = IF s \in S THEN <<>> ELSE Unwritten(s),
         \A s \in Ids : Alive(s)' <=> Alive(s) /\ s \notin S
  PROVE  Stream!Next
<1>1. Unsent' = [s \in Ids |-> IF s \in S THEN <<>> ELSE Unsent[s]]
  BY StreamVars, StreamVarsNext
<1>2. Up' = [s \in Ids |-> Up[s] /\ s \notin S]
  BY DEF Up, Alive
<1>3. Stream!Break(S)
  BY <1>1, <1>2 DEF Stream!Break
<1> QED
  BY <1>3 DEF Stream!Next

LEMMA Sends ==
  ASSUME UNCHANGED wire, NEW S \in SUBSET Ids, NEW m \in Messages,
         \A s \in S : Alive(s),
         \A s \in Ids :
           Unwritten(s)' = IF s \in S THEN Append(Unwritten(s), m) ELSE Unwritten(s),
         \A s \in Ids : Alive(s)' <=> Alive(s)
  PROVE  Stream!Next
<1>1. Unsent' = [s \in Ids |-> IF s \in S THEN Append(Unsent[s], m) ELSE Unsent[s]]
  BY StreamVars, StreamVarsNext
<1>2. Up' = Up
  BY DEF Up, Alive
<1>3. \A s \in S : Up[s]
  BY StreamVars
<1>4. Stream!Send(S, m)
  BY <1>1, <1>2, <1>3 DEF Stream!Send
<1> QED
  BY <1>4 DEF Stream!Next

LEMMA Transmits ==
  ASSUME NEW s \in Ids, Alive(s), Unwritten(s) # <<>>,
         wire' = [wire EXCEPT ![s] = Append(@, Head(Unwritten(s)))],
         \A x \in Ids : Unwritten(x)' = IF x = s THEN Tail(Unwritten(s)) ELSE Unwritten(x),
         \A x \in Ids : Alive(x)' <=> Alive(x)
  PROVE  Stream!Next
<1>1. Unsent' = [Unsent EXCEPT ![s] = Tail(@)]
  BY StreamVars, StreamVarsNext
<1>2. Up' = Up
  BY DEF Up, Alive
<1>3. Up[s] /\ Unsent[s] = Unwritten(s)
  BY StreamVars
<1>4. wire' = [wire EXCEPT ![s] = Append(@, Head(Unsent[s]))]
  BY <1>3
<1>5. Stream!Write(s)
  BY <1>1, <1>2, <1>3, <1>4 DEF Stream!Write
<1> QED
  BY <1>5 DEF Stream!Next

\* The streams begin empty.
LEMMA StreamInit == Init => Stream!Init
<1> SUFFICES ASSUME Init PROVE Stream!Init
  OBVIOUS
<1>1. \A s \in Ids : /\ obj[s] = "none" /\ peer[s] = "up" /\ sendBuf[s] = <<>>
                     /\ written[s] = 0 /\ sendQueue[s] = <<>>
  BY DEF Init
<1>2. SubSeq(<<>>, 0 + 1, Len(<<>>)) = <<>> /\ <<>> \o <<>> = <<>>
  OBVIOUS
<1>3. \A s \in Ids : Unwritten(s) = <<>> /\ Alive(s)
  BY <1>1, <1>2 DEF Unwritten, Alive, Rest
<1>4. Up = [s \in Ids |-> TRUE]
  BY <1>1 DEF Up
<1>5. Unsent = [s \in Ids |-> <<>>]
  BY <1>3, StreamVars
<1> QED
  BY <1>4, <1>5 DEF Stream!Init, Init

\* A step that leaves what the streams are made of.
LEMMA SameStream ==
  ASSUME UNCHANGED <<obj, peer, sendBuf, written, sendQueue, wire>>
  PROVE  UNCHANGED Stream!vars
<1>1. \A s \in Ids : Unwritten(s)' = Unwritten(s) /\ (Alive(s)' <=> Alive(s))
  BY DEF Unwritten, Alive, Rest
<1> QED
  BY <1>1, Stutters

\* Sessions of which the object is closed, or the peer lost.
LEMMA StreamBreak ==
  ASSUME UNCHANGED <<sendBuf, written, sendQueue, wire>>, NEW S \in SUBSET Ids,
         \A s \in S : obj'[s] \notin {"none", "open"} \/ peer'[s] # "up",
         \A s \in Ids \ S : obj'[s] = obj[s] /\ peer'[s] = peer[s],
         \A s \in Ids : Alive(s)' => Alive(s)
  PROVE  Stream!Next
<1>1. \A s \in Ids : Alive(s)' <=> Alive(s) /\ s \notin S
  BY DEF Alive
<1>2. \A s \in Ids : Unwritten(s)' = IF s \in S THEN <<>> ELSE Unwritten(s)
  BY <1>1 DEF Unwritten, Rest
<1> QED
  BY <1>1, <1>2, Breaks

\* WriteData accepts the message for those of its sessions that are up.
LEMMA StreamAccept ==
  ASSUME TypeOK, SessionInv, NEW t \in Threads, NEW S \in SUBSET Ids, S \subseteq members,
         NEW d \in Messages, WriteData(t, S, d), UNCHANGED <<obj, peer, wire>>
  PROVE  Stream!Next
<1> DEFINE U == {s \in S : Alive(s)}
<1>1. \A s \in Ids : Alive(s)' <=> Alive(s)
  BY DEF Alive
<1>2. ASSUME NEW s \in Ids, s \notin S PROVE Unwritten(s)' = Unwritten(s)
  <2>1. sendQueue'[s] = sendQueue[s] /\ sendBuf'[s] = sendBuf[s] /\ written' = written
    BY <1>2 DEF WriteData
  <2> QED
    BY <1>1, <2>1 DEF Unwritten, Rest
<1>3. ASSUME NEW s \in Ids, ~Alive(s) PROVE Unwritten(s)' = Unwritten(s)
  BY <1>1, <1>3 DEF Unwritten
<1>4. ASSUME NEW s \in S, Alive(s) PROVE Unwritten(s)' = Append(Unwritten(s), d)
  <2>1. s \in Ids
    OBVIOUS
  <2>2. PICK w \in Seq(Messages), b \in Seq(Messages), q \in Seq(Messages), n \in Nat :
          w = <<>> /\ b = sendBuf[s] /\ q = sendQueue[s] /\ n = written[s]
    BY <2>1, StreamTypes, EmptySeq
  <2>3. n <= Len(b) /\ Rest(s) = After(b, n)
    BY <2>1, <2>2, StreamTypes
  <2>4. /\ written'[s] = n
        /\ s \in Idle(S) => sendBuf'[s] = b \o Append(q, d) /\ sendQueue'[s] = <<>>
        /\ s \notin Idle(S) => sendBuf'[s] = b /\ sendQueue'[s] = Append(q, d)
    BY <2>1, <2>2 DEF WriteData, Idle
  <2>5. Accepts(w, b, q, n, d)
    BY <2>3, AcceptStream
  <2>6. After(b \o Append(q, d), n) = After(b, n) \o Append(q, d)
    BY <2>5 DEF Accepts
  <2>7. PICK u \in Seq(Messages), e \in Seq(Messages) : u = After(b, n) /\ e = Append(q, d)
    BY <2>3, AfterTypes, AppendProperties
  <2>8. u \o e = Append(u \o q, d) /\ u \o e \in Seq(Messages)
    BY <2>7, ConcatAppend, ConcatProperties
  <2>9. (u \o e) \o <<>> = u \o e
    BY <2>8, ConcatEmptySeq
  <2>10. Unwritten(s) = u \o q
    BY <1>4, <2>2, <2>3, <2>7 DEF Unwritten
  <2>11. Unwritten(s)' = Rest(s)' \o sendQueue'[s]
    BY <1>1, <1>4, <2>1 DEF Unwritten
  <2>12. CASE s \in Idle(S)
    <3>1. Rest(s)' = u \o e
      BY <2>4, <2>6, <2>7, <2>12 DEF Rest, After
    <3> QED
      BY <2>4, <2>8, <2>9, <2>10, <2>11, <2>12, <3>1
  <2>13. CASE s \notin Idle(S)
    <3>1. Rest(s)' = u
      BY <2>4, <2>7, <2>13 DEF Rest, After
    <3> QED
      BY <2>4, <2>7, <2>8, <2>10, <2>11, <2>13, <3>1
  <2> QED
    BY <2>12, <2>13
<1>5. \A s \in Ids : Unwritten(s)' = IF s \in U THEN Append(Unwritten(s), d) ELSE Unwritten(s)
  BY <1>2, <1>3, <1>4
<1>6. U \in SUBSET Ids /\ \A s \in U : Alive(s)
  OBVIOUS
<1> HIDE DEF U
<1> QED
  BY <1>1, <1>5, <1>6, Sends

\* The kernel takes the first message that waits.
LEMMA StreamTransmit ==
  ASSUME TypeOK, SessionInv, NEW t \in Threads, NEW s \in Ids, Transmit(t, s)
  PROVE  Stream!Next
<1>1. /\ obj[s] = "open" /\ peer[s] = "up" /\ written[s] < Len(sendBuf[s])
      /\ wire' = [wire EXCEPT ![s] = Append(@, sendBuf[s][written[s] + 1])]
      /\ written' = [written EXCEPT ![s] = @ + 1]
      /\ UNCHANGED <<obj, peer, sendBuf, sendQueue>>
  BY DEF Transmit, lifeVars
<1>2. PICK b \in Seq(Messages), q \in Seq(Messages), n \in Nat :
        b = sendBuf[s] /\ q = sendQueue[s] /\ n = written[s]
  BY StreamTypes
<1>3. n < Len(b) /\ n <= Len(b) /\ Rest(s) = After(b, n)
  BY <1>1, <1>2, StreamTypes
<1>4. written'[s] = n + 1 /\ \A x \in Ids : x # s => written'[x] = written[x]
  BY <1>1, <1>2 DEF TypeOK
<1>5. PICK c \in Messages, u \in Seq(Messages), v \in Seq(Messages) :
        c = b[n + 1] /\ u = After(b, n) /\ v = After(b, n + 1)
  BY <1>3, AfterTypes
<1>6. u = <<c>> \o v
  BY <1>3, <1>5, AfterTypes
<1>7. u # <<>> /\ Head(u) = c /\ Tail(u) = v
  BY SMTT(30), <1>5, <1>6
<1>8. u \o q # <<>> /\ Head(u \o q) = c /\ Tail(u \o q) = v \o q
  BY <1>7, ConcatHeadTail
<1>9. Alive(s) /\ \A x \in Ids : Alive(x)' <=> Alive(x)
  BY <1>1 DEF Alive
<1>10. Unwritten(s) = u \o q
  BY <1>2, <1>3, <1>5, <1>9 DEF Unwritten
<1>11. Unwritten(s)' = v \o q
  <2>1. Rest(s)' = v
    BY <1>1, <1>2, <1>4, <1>5 DEF Rest, After
  <2> QED
    BY <1>1, <1>2, <1>9, <2>1 DEF Unwritten
<1>12. \A x \in Ids : Unwritten(x)' = IF x = s THEN Tail(Unwritten(s)) ELSE Unwritten(x)
  <2> TAKE x \in Ids
  <2>1. CASE x # s
    BY <1>1, <1>4, <1>9, <2>1 DEF Unwritten, Rest
  <2> QED
    BY <1>8, <1>10, <1>11, <2>1
<1>13. wire' = [wire EXCEPT ![s] = Append(@, Head(Unwritten(s)))]
  BY <1>1, <1>2, <1>5, <1>8, <1>10
<1>14. Unwritten(s) # <<>>
  BY <1>8, <1>10
<1> QED
  BY <1>9, <1>12, <1>13, <1>14, Transmits

\* The end of a write leaves nothing of it, as did the kernel.
LEMMA StreamWritten ==
  ASSUME TypeOK, SessionInv, NEW t \in Threads, NEW s \in Ids, OnWriteDataCB(t, s)
  PROVE  UNCHANGED Stream!vars
<1>1. /\ written[s] = Len(sendBuf[s]) \/ peer[s] = "gone"
      /\ sendBuf' = [sendBuf EXCEPT ![s] = <<>>] /\ written' = [written EXCEPT ![s] = 0]
      /\ UNCHANGED <<obj, peer, sendQueue, wire>>
  BY DEF OnWriteDataCB, lifeVars
<1>2. /\ sendBuf'[s] = <<>> /\ written'[s] = 0
      /\ \A x \in Ids : x # s => sendBuf'[x] = sendBuf[x] /\ written'[x] = written[x]
  BY <1>1 DEF TypeOK
<1>3. \A x \in Ids : Alive(x)' <=> Alive(x)
  BY <1>1 DEF Alive
<1>4. Alive(s) => Rest(s) = <<>>
  BY <1>1, StreamTypes, AfterTypes DEF Alive
<1>5. Rest(s)' = <<>>
  <2>1. SubSeq(<<>>, 0 + 1, Len(<<>>)) = <<>>
    OBVIOUS
  <2> QED
    BY <1>2, <2>1 DEF Rest
<1>6. \A x \in Ids : Unwritten(x)' = Unwritten(x)
  <2> TAKE x \in Ids
  <2>1. CASE x = s
    BY <1>1, <1>3, <1>4, <1>5, <2>1 DEF Unwritten
  <2>2. CASE x # s
    BY <1>1, <1>2, <1>3, <2>2 DEF Unwritten, Rest
  <2> QED
    BY <2>1, <2>2
<1> QED
  BY <1>1, <1>3, <1>6, Stutters

\* A new session was up before it had an object, and is now.
LEMMA StreamOpen ==
  ASSUME TypeOK, TasksSound, NEW t \in Threads, HandleAccept(t)
  PROVE  UNCHANGED Stream!vars
<1>1. RunTask(t, "accept")
  BY DEF HandleAccept
<1>2. PICK s \in Ids : s = Task(t).s /\ obj[s] = "none"
  BY <1>1, TaskSession, HeadTask DEF Sound, Targeted
<1>3. /\ obj' = [obj EXCEPT ![s] = "open"]
      /\ UNCHANGED <<peer, sendBuf, written, sendQueue, wire>>
  BY <1>2 DEF HandleAccept, RunTask, sendVars
<1>4. obj'[s] = "open" /\ \A x \in Ids : x # s => obj'[x] = obj[x]
  BY <1>3 DEF TypeOK
<1>5. \A x \in Ids : Alive(x)' <=> Alive(x)
  BY <1>2, <1>3, <1>4 DEF Alive
<1>6. \A x \in Ids : Unwritten(x)' = Unwritten(x)
  BY <1>3, <1>5 DEF Unwritten, Rest
<1> QED
  BY <1>3, <1>5, <1>6, Stutters

\* What is deleted was closed before.
LEMMA StreamDelete ==
  ASSUME NEW t \in Threads, EndRun(t)
  PROVE  UNCHANGED Stream!vars
<1> DEFINE S == {s \in Of(t) : obj[s] = "closing"}
<1>1. /\ obj' = [s \in Ids |-> IF s \in S THEN "freed" ELSE obj[s]]
      /\ sendQueue' = [s \in Ids |-> IF s \in S THEN <<>> ELSE sendQueue[s]]
      /\ sendBuf' = [s \in Ids |-> IF s \in S THEN <<>> ELSE sendBuf[s]]
      /\ written' = [s \in Ids |-> IF s \in S THEN 0 ELSE written[s]]
      /\ UNCHANGED <<peer, wire>>
  BY DEF EndRun
<1>2. \A s \in S : obj[s] = "closing"
  OBVIOUS
<1> HIDE DEF S
<1>3. \A x \in Ids : x \in S => ~Alive(x) /\ ~Alive(x)'
  BY <1>1, <1>2 DEF Alive
<1>4. \A x \in Ids : x \notin S => (Alive(x)' <=> Alive(x))
  BY <1>1 DEF Alive
<1>5. \A x \in Ids : Unwritten(x)' = Unwritten(x)
  <2> TAKE x \in Ids
  <2>1. CASE x \in S
    BY <1>3, <2>1 DEF Unwritten
  <2>2. CASE x \notin S
    BY <1>1, <1>4, <2>2 DEF Unwritten, Rest
  <2> QED
    BY <2>1, <2>2
<1> QED
  BY <1>1, <1>3, <1>4, <1>5, Stutters

\* Every step is one of the streams, or changes none.
LEMMA StreamStep ==
  ASSUME IInv, [Next]_vars
  PROVE  [Stream!Next]_(Stream!vars)
<1>0. TypeOK /\ LoopInv /\ TasksSound /\ SessionInv
  BY DEF IInv
<1>1. CASE UNCHANGED <<obj, peer, sendBuf, written, sendQueue, wire>>
  BY <1>1, SameStream
<1>2. CASE UNCHANGED vars
  BY <1>1, <1>2 DEF vars, lifeVars, sendVars
<1>3. CASE \/ DoSendDataAll \/ TryStopNetWork \/ StopThread \/ JoinThread
           \/ \E s \in Ids : DoSendData(s) \/ DoCloseSession(s)
  <2>1. UNCHANGED <<obj, peer, sendBuf, written, sendQueue, wire>>
    BY <1>3 DEF DoSendDataAll, TryStopNetWork, StopThread, JoinThread, DoSendData,
         DoCloseSession, lifeVars, sendVars
  <2> QED
    BY <1>1, <2>1
<1>4. ASSUME NEW s \in Ids, PeerGone(s) PROVE Stream!Next
  <2>1. /\ peer' = [peer EXCEPT ![s] = "gone"] /\ peer[s] = "up" /\ obj[s] = "open"
        /\ UNCHANGED <<obj, sendBuf, written, sendQueue, wire>>
    BY <1>4 DEF PeerGone, lifeVars, sendVars
  <2>2. peer'[s] = "gone" /\ \A x \in Ids : x # s => peer'[x] = peer[x]
    BY <1>0, <2>1 DEF TypeOK
  <2>3. PICK S \in SUBSET Ids : S = {s}
    OBVIOUS
  <2>4. \A x \in S : peer'[x] # "up"
    BY <2>2, <2>3
  <2>5. \A x \in Ids \ S : obj'[x] = obj[x] /\ peer'[x] = peer[x]
    BY <2>1, <2>2, <2>3
  <2>6. \A x \in Ids : Alive(x)' => Alive(x)
    BY <2>1, <2>2 DEF Alive
  <2> QED
    BY <2>1, <2>4, <2>5, <2>6, StreamBreak
<1>5. ASSUME NEW t \in Threads,
             \/ SwapTasks(t) \/ HandleListen(t) \/ CloseListen(t) \/ HandleAddSession(t)
             \/ StartReceive(t) \/ WriteTask(t) \/ ConnectCB(t)
             \/ \E s \in Ids : ReadEnd(t, s) \/ \E to \in Ids : ReadReply(t, s, to)
      PROVE  [Stream!Next]_(Stream!vars)
  <2>1. UNCHANGED <<obj, peer, sendBuf, written, sendQueue, wire>>
    BY <1>5 DEF SwapTasks, HandleListen, CloseListen, HandleAddSession, StartReceive,
         WriteTask, RunTask, ConnectCB, ReadEnd, ReadReply, lifeVars, sendVars
  <2> QED
    BY <1>1, <2>1
<1>6. ASSUME NEW t \in Threads, HandleCloseSession(t) PROVE [Stream!Next]_(Stream!vars)
  <2>1. RunTask(t, "close")
    BY <1>6 DEF HandleCloseSession
  <2>2. PICK s \in Ids : s = Task(t).s
    BY <1>0, <2>1, TaskSession DEF Targeted
  <2>3. UNCHANGED <<peer, sendBuf, written, sendQueue, wire>>
    BY <1>6 DEF HandleCloseSession, RunTask, sendVars
  <2>4. CASE UNCHANGED obj
    BY <1>1, <2>3, <2>4
  <2>5. CASE obj' = [obj EXCEPT ![s] = "closing"]
    <3>1. obj'[s] = "closing" /\ \A x \in Ids : x # s => obj'[x] = obj[x]
      BY <1>0, <2>5 DEF TypeOK
    <3>2. PICK S \in SUBSET Ids : S = {s}
      OBVIOUS
    <3>3. \A x \in S : obj'[x] \notin {"none", "open"}
      BY <3>1, <3>2
    <3>4. \A x \in Ids \ S : obj'[x] = obj[x] /\ peer'[x] = peer[x]
      BY <2>3, <3>1, <3>2
    <3>5. \A x \in Ids : Alive(x)' => Alive(x)
      BY <2>3, <3>1 DEF Alive
    <3> QED
      BY <2>3, <3>3, <3>4, <3>5, StreamBreak
  <2> QED
    BY <1>6, <2>2, <2>4, <2>5 DEF HandleCloseSession
<1>7. ASSUME NEW t \in Threads, BatchEnd(t) PROVE [Stream!Next]_(Stream!vars)
  <2>1. UNCHANGED <<peer, sendBuf, written, sendQueue, wire>>
    BY <1>7 DEF BatchEnd, sendVars
  <2>2. CASE UNCHANGED obj
    BY <1>1, <2>1, <2>2
  <2>3. CASE obj' = [s \in Ids |-> IF s \in Of(t) \cap members THEN "closing" ELSE obj[s]]
    <3>1. PICK S \in SUBSET Ids : S = Of(t) \cap members
      BY <1>0 DEF TypeOK
    <3>2. \A x \in S : obj'[x] \notin {"none", "open"}
      BY <2>3, <3>1
    <3>3. \A x \in Ids \ S : obj'[x] = obj[x] /\ peer'[x] = peer[x]
      BY <2>1, <2>3, <3>1
    <3>4. \A x \in Ids : Alive(x)' => Alive(x)
      BY <2>1, <2>3 DEF Alive
    <3> QED
      BY <2>1, <3>2, <3>3, <3>4, StreamBreak
  <2> QED
    BY <1>7, <2>2, <2>3 DEF BatchEnd
<1>8. ASSUME NEW t \in Threads, HandleSendData(t) \/ HandleSendDataAll(t)
      PROVE  Stream!Next
  <2>1. PICK op \in {"send", "sendAll"} :
          /\ RunTask(t, op)
          /\ \E S \in {{Task(t).s} \cap members, Of(t) \cap members} :
               WriteData(t, S, Task(t).d)
          /\ UNCHANGED <<obj, peer, wire>>
    BY <1>8 DEF HandleSendData, HandleSendDataAll, RunTask, lifeVars
  <2>2. PICK S : S \subseteq members /\ WriteData(t, S, Task(t).d)
    BY <2>1
  <2>3. PICK d \in Messages : d = Task(t).d
    BY <1>0, <2>1, HeadTask DEF Sound
  <2>4. S \in SUBSET Ids /\ S \subseteq members
    BY <1>0, <2>2 DEF TypeOK
  <2>5. WriteData(t, S, d)
    BY <2>2, <2>3
  <2> QED
    BY <1>0, <2>1, <2>4, <2>5, StreamAccept
<1>9. ASSUME NEW t \in Threads, HandleAccept(t) \/ EndRun(t) PROVE UNCHANGED Stream!vars
  BY <1>0, <1>9, StreamOpen, StreamDelete
<1>10. ASSUME NEW t \in Threads, NEW s \in Ids, Transmit(t, s) PROVE Stream!Next
  BY <1>0, <1>10, StreamTransmit
<1>11. ASSUME NEW t \in Threads, NEW s \in Ids, OnWriteDataCB(t, s)
       PROVE  UNCHANGED Stream!vars
  BY <1>0, <1>11, StreamWritten
<1>12. ASSUME NEW t \in Threads, ThreadFunc(t) PROVE [Stream!Next]_(Stream!vars)
  BY <1>5, <1>6, <1>7, <1>8, <1>9, <1>12 DEF ThreadFunc, Handle
<1>13. ASSUME NEW t \in Threads, NEW s \in Ids,
              \/ ReadEnd(t, s) \/ Transmit(t, s) \/ OnWriteDataCB(t, s)
              \/ \E to \in Ids : ReadReply(t, s, to)
       PROVE  [Stream!Next]_(Stream!vars)
  BY <1>5, <1>10, <1>11, <1>13
<1>14. ASSUME NEW t \in Threads, ConnectCB(t) PROVE [Stream!Next]_(Stream!vars)
  BY <1>5, <1>14
<1> QED
  BY <1>2, <1>3, <1>4, <1>12, <1>13, <1>14 DEF Next

\* Every session is a stream: what WriteData is given for it reaches the peer
\* in that order, without a gap, however its writes are merged and split.
THEOREM SessionsAreStreams == Spec => IsSendStream
<1>1. IInv /\ [Next]_vars => [Stream!Next]_(Stream!vars)
  BY StreamStep
<1> QED
  BY <1>1, StreamInit, NetInductive, PTL DEF Spec, IsSendStream, Stream!Spec
=============================================================================
