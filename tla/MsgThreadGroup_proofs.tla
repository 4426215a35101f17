------------------------ MODULE MsgThreadGroup_proofs ------------------------
(***************************************************************************)
(* Proofs about MsgThreadGroup, for any set of callers, any size of the    *)
(* group, any number of messages and of calls of Exit.                     *)
(***************************************************************************)
EXTENDS MsgThreadGroup, SequenceTheorems, FiniteSetTheorems, TLAPS

\* The messages that are not a STOP: among the first n of a list, and in all
\* of it.
WorksIn(q, n) == Cardinality({i \in 1..n : q[i] = "work"})
Works(q) == WorksIn(q, Len(q))

HasStop(q) == "STOP" \in Range(q)

\* The controller is at a thread of the group while it waits for it.
ControlInv ==
  /\ control = "join" => at < count
  /\ control # "idle" => at <= count

\* Every message pushed is dispatched or waits in one of the two lists; those
\* the worker has dispatched of its batch are still in the list.
BooksInv(t) ==
  /\ pos[t] <= Len(Batch(t))
  /\ sent[t] + WorksIn(Batch(t), pos[t])
       = handled[t] + Works(Batch(t)) + Works(Active(t))

\* Between batches the list to iterate is empty; m_exit is set only by a STOP
\* of the batch, and a worker ends only when it is set.
WorkerInv(t) ==
  /\ worker[t] # "batch" => Batch(t) = <<>>
  /\ worker[t] = "done" => exit[t]
  /\ worker[t] = "batch" /\ exit[t] => HasStop(Batch(t))

\* What came behind a STOP is at least what is behind it in the lists, and
\* what is left once m_exit is set.
LateInv(t) ==
  /\ \A k \in DOMAIN Active(t) : Active(t)[k] = "STOP" =>
       Works(Active(t)) <= late[t] + WorksIn(Active(t), k)
  /\ \A k \in DOMAIN Batch(t) : Batch(t)[k] = "STOP" =>
       Works(Batch(t)) + Works(Active(t)) <= late[t] + WorksIn(Batch(t), k)
  /\ exit[t] =>
       Works(Batch(t)) + Works(Active(t)) <= late[t] + WorksIn(Batch(t), pos[t])

\* Where no Exit came before the worker there is at most one STOP, and it is
\* there only while Exit waits for the thread.
StopInv(t) ==
  ~early[t] =>
    /\ HasStop(Batch(t)) \/ exit[t] => ~HasStop(Active(t))
    /\ HasStop(Batch(t)) \/ HasStop(Active(t)) =>
         control = "join" /\ at = t /\ worker[t] # "none"

ThreadInv(t) == BooksInv(t) /\ WorkerInv(t) /\ LateInv(t)

IInv ==
  /\ TypeOK
  /\ ControlInv
  /\ \A t \in Threads : ThreadInv(t) /\ StopInv(t)
  /\ ExitInOrder
-----------------------------------------------------------------------------
(* Counting the messages of a list.                                        *)

Msg == {"work", "STOP"}

LEMMA WorksInType ==
  ASSUME NEW q, NEW n \in Nat
  PROVE  IsFiniteSet({i \in 1..n : q[i] = "work"}) /\ WorksIn(q, n) \in Nat
<1>1. IsFiniteSet(1..n)
  BY FS_Interval
<1>2. {i \in 1..n : q[i] = "work"} \in SUBSET (1..n)
  OBVIOUS
<1>3. IsFiniteSet({i \in 1..n : q[i] = "work"})
  BY ONLY <1>1, <1>2, FS_Subset
<1> QED
  BY <1>3, FS_CardinalityType DEF WorksIn

LEMMA WorksInZero ==
  ASSUME NEW q
  PROVE  WorksIn(q, 0) = 0
<1>1. {i \in 1..0 : q[i] = "work"} = {}
  OBVIOUS
<1> QED
  BY <1>1, FS_EmptySet DEF WorksIn

LEMMA WorksInNext ==
  ASSUME NEW q, NEW n \in Nat
  PROVE  WorksIn(q, n + 1) = WorksIn(q, n) + IF q[n + 1] = "work" THEN 1 ELSE 0
<1> DEFINE S == {i \in 1..n : q[i] = "work"}
           T == {i \in 1..(n + 1) : q[i] = "work"}
<1>1. \A i : i \in 1..(n + 1) <=> i \in 1..n \/ i = n + 1
  OBVIOUS
<1>2. n + 1 \notin S
  OBVIOUS
<1>3. IsFiniteSet(S) /\ Cardinality(S) \in Nat
  BY WorksInType DEF WorksIn
<1>4. CASE q[n + 1] = "work"
  <2>1. T = S \cup {n + 1}
    BY <1>1, <1>4
  <2>2. Cardinality(S \cup {n + 1}) = Cardinality(S) + 1
    <3> HIDE DEF S
    <3> QED
      BY <1>2, <1>3, FS_AddElement
  <2> QED
    BY <1>4, <2>1, <2>2 DEF WorksIn
<1>5. CASE q[n + 1] # "work"
  <2>1. T = S
    BY <1>1, <1>5
  <2>2. WorksIn(q, n + 1) = WorksIn(q, n) /\ WorksIn(q, n) \in Nat
    BY <1>3, <2>1 DEF WorksIn
  <2> QED
    BY <1>5, <2>2
<1> QED
  BY <1>4, <1>5

\* The rest of a list behind a place is not less than nothing.
LEMMA WorksInBound ==
  ASSUME NEW q \in Seq(Msg), NEW n \in 0..Len(q)
  PROVE  WorksIn(q, n) \in Nat /\ Works(q) \in Nat /\ WorksIn(q, n) <= Works(q)
<1>1. Len(q) \in Nat /\ n \in Nat /\ n <= Len(q)
  BY LenProperties
<1> DEFINE S == {i \in 1..n : q[i] = "work"}
           T == {i \in 1..Len(q) : q[i] = "work"}
<1>2. S \in SUBSET T
  BY <1>1
<1>3. IsFiniteSet(S) /\ IsFiniteSet(T) /\ WorksIn(q, n) \in Nat /\ Works(q) \in Nat
  BY <1>1, WorksInType DEF Works
<1>4. Cardinality(S) <= Cardinality(T)
  <2> HIDE DEF S, T
  <2> QED
    BY ONLY <1>2, <1>3, FS_Subset
<1> QED
  BY <1>3, <1>4 DEF Works, WorksIn

LEMMA WorksEmpty == Works(<<>>) = 0
BY WorksInZero DEF Works

LEMMA WorksAppend ==
  ASSUME NEW q \in Seq(Msg), NEW m \in Msg
  PROVE  /\ Works(Append(q, m)) = Works(q) + IF m = "work" THEN 1 ELSE 0
         /\ \A k \in DOMAIN q : WorksIn(Append(q, m), k) = WorksIn(q, k)
<1>1. /\ Len(q) \in Nat /\ DOMAIN q = 1..Len(q)
      /\ Len(Append(q, m)) = Len(q) + 1
      /\ \A i \in 1..Len(q) : Append(q, m)[i] = q[i]
      /\ Append(q, m)[Len(q) + 1] = m
  BY AppendProperties, LenProperties
<1>2. ASSUME NEW k \in 0..Len(q)
      PROVE  WorksIn(Append(q, m), k) = WorksIn(q, k)
  <2>1. \A i \in 1..k : Append(q, m)[i] = q[i]
    BY <1>1, <1>2
  <2>2. {i \in 1..k : Append(q, m)[i] = "work"} = {i \in 1..k : q[i] = "work"}
    BY ONLY <2>1
  <2> QED
    BY <2>2 DEF WorksIn
<1>3. Works(Append(q, m))
        = WorksIn(Append(q, m), Len(q)) + IF m = "work" THEN 1 ELSE 0
  BY <1>1, WorksInNext DEF Works
<1>4. WorksIn(Append(q, m), Len(q)) = WorksIn(q, Len(q))
  BY <1>1, <1>2
<1> QED
  BY <1>1, <1>2, <1>3, <1>4 DEF Works

\* What was sent and what is dispatched, with a message of the batch or of
\* the other list on each side.
LEMMA Sums ==
  ASSUME NEW s \in Nat, NEW w \in Nat, NEW h \in Nat, NEW b \in Nat,
         NEW a \in Nat, NEW d \in Nat
  PROVE  /\ s + w = h + b + a => /\ (s + d) + w = h + b + (a + d)
                                 /\ s + (w + d) = (h + d) + b + a
OBVIOUS

\* The bound on what is late, with a message more on either side.
LEMMA LateGrows ==
  ASSUME NEW x \in Nat, NEW a \in Nat, NEW d \in Nat, NEW l \in Nat,
         NEW m \in Nat, NEW w \in Nat, m >= l + d
  PROVE  /\ a <= l + w => a + d <= m + w
         /\ x + a <= l + w => x + (a + d) <= m + w
OBVIOUS

LEMMA SumsEmpty ==
  ASSUME NEW s \in Nat, NEW h \in Nat, NEW b \in Nat, NEW a \in Nat
  PROVE  s + b = h + b + a => s = h + a
OBVIOUS

LEMMA StopAppend ==
  ASSUME NEW q \in Seq(Msg), NEW m \in Msg
  PROVE  HasStop(Append(q, m)) <=> HasStop(q) \/ m = "STOP"
<1>1. /\ Len(q) \in Nat /\ DOMAIN q = 1..Len(q)
      /\ DOMAIN Append(q, m) = 1..(Len(q) + 1)
      /\ \A i \in 1..Len(q) : Append(q, m)[i] = q[i]
      /\ Append(q, m)[Len(q) + 1] = m
  BY AppendProperties, LenProperties
<1>2. \A i : i \in 1..(Len(q) + 1) <=> i \in 1..Len(q) \/ i = Len(q) + 1
  BY <1>1
<1> QED
  BY ONLY <1>1, <1>2 DEF HasStop, Range

LEMMA StopEmpty == ~HasStop(<<>>)
BY DEF HasStop, Range

-----------------------------------------------------------------------------
LEMMA TypeStep ==
  ASSUME TypeOK, ControlInv, Next
  PROVE  TypeOK' /\ ControlInv'
<1> USE GroupAssumption DEF TypeOK, ControlInv, threads, groupVars, controlVars, history
<1>1. CASE SetThreadGroupNum
  BY <1>1 DEF SetThreadGroupNum
<1>2. CASE Start
  <2>1. worker' \in [Threads -> {"none", "run", "batch", "done"}]
    BY <1>2 DEF Start
  <2> QED
    BY <1>2, <2>1 DEF Start
<1>3. CASE Exit \/ Clear
  <2>1. PICK clear \in BOOLEAN : BeginExit(clear)
    BY <1>3 DEF Exit, Clear
  <2>2. exits' \in 0..MaxExits /\ at' \in 0..MaxCount /\ at' <= count
    BY <2>1 DEF BeginExit
  <2> QED
    BY <2>1, <2>2 DEF BeginExit
<1>4. CASE ExitThread
  <2>1. at \in Threads /\ at + 1 \in 0..MaxCount /\ at + 1 <= count
    BY <1>4 DEF ExitThread, Threads
  <2>2. msgs' = msgs \/ Push(at, "STOP")
    BY <1>4 DEF ExitThread
  <2>3. Append(msgs[at][offset[at]], "STOP") \in Seq({"work", "STOP"})
    BY <2>1
  <2>a. [msgs[at] EXCEPT ![offset[at]] = Append(@, "STOP")] \in [Lists -> Seq({"work", "STOP"})]
    BY <2>1, <2>3
  <2>4. msgs' \in [Threads -> [Lists -> Seq({"work", "STOP"})]]
    BY <2>2, <2>a DEF Push
  <2>5. early' \in [Threads -> BOOLEAN]
    BY <1>4 DEF ExitThread
  <2> HIDE DEF Threads, Lists
  <2> QED
    BY <1>4, <2>1, <2>4, <2>5 DEF ExitThread
<1>5. CASE Join
  <2>1. at \in Threads /\ at + 1 \in 0..MaxCount /\ at + 1 <= count
    BY <1>5 DEF Join, Threads
  <2> QED
    BY <1>5, <2>1 DEF Join
<1>6. CASE ExitReturn
  BY <1>6 DEF ExitReturn
<1>7. CASE ClearReturn
  <2>1. <<>> \in Seq({"work", "STOP"})
    OBVIOUS
  <2> QED
    BY <1>7, <2>1 DEF ClearReturn, Lists
<1>17. CASE ClearUndefined
  BY <1>17 DEF ClearUndefined
<1>8. ASSUME NEW c \in Callers, ReadFirst(c)
      PROVE  TypeOK' /\ ControlInv'
  <2>1. msgs[0][1] \in Seq({"work", "STOP"}) /\ 0 \in Threads
    BY DEF Threads, Lists
  <2>2. GetMsgCount(0) \in Nat
    BY <2>1, LenProperties DEF GetMsgCount
  <2>3. caller' \in [Callers -> [i : 0..MaxCount, total : Nat, idx : Threads]]
    BY <1>8, <2>1, <2>2 DEF ReadFirst
  <2>4. misread' \in BOOLEAN
    BY <1>8 DEF ReadFirst
  <2> QED
    BY <1>8, <2>3, <2>4 DEF ReadFirst
<1>9. ASSUME NEW c \in Callers, ReadNext(c)
      PROVE  TypeOK' /\ ControlInv'
  <2> DEFINE s == caller[c]
  <2>a. s \in [i : 0..MaxCount, total : Nat, idx : Threads]
    OBVIOUS
  <2>b. s.i \in 1..(count - 1)
    BY <1>9 DEF ReadNext
  <2>1. s.i \in Threads /\ s.i + 1 \in 0..MaxCount /\ s \in [i : 0..MaxCount, total : Nat, idx : Threads]
    <3> DEFINE i == s.i
    <3>1. i \in 1..(count - 1) /\ count \in 0..MaxCount /\ MaxCount \in Nat
      BY <2>b
    <3> HIDE DEF i
    <3>2. i \in 0..(MaxCount - 1) /\ i + 1 \in 0..MaxCount
      BY <3>1
    <3> QED
      BY <2>a, <3>2 DEF i, Threads
  <2>2. msgs[s.i][1] \in Seq({"work", "STOP"})
    BY <2>1 DEF Lists
  <2>3. GetMsgCount(s.i) \in Nat
    BY <2>2, LenProperties DEF GetMsgCount
  <2>4. caller' = [caller EXCEPT ![c] =
                     IF s.total > GetMsgCount(s.i)
                     THEN [i |-> s.i + 1, total |-> GetMsgCount(s.i), idx |-> s.i]
                     ELSE [s EXCEPT !.i = s.i + 1]]
    BY <1>9 DEF ReadNext
  <2>5. [s EXCEPT !.i = s.i + 1] \in [i : 0..MaxCount, total : Nat, idx : Threads]
    BY <2>1
  <2>6. [i |-> s.i + 1, total |-> GetMsgCount(s.i), idx |-> s.i]
          \in [i : 0..MaxCount, total : Nat, idx : Threads]
    BY <2>1, <2>3
  <2>7. caller' \in [Callers -> [i : 0..MaxCount, total : Nat, idx : Threads]]
    BY <2>4, <2>5, <2>6
  <2>8. misread' \in BOOLEAN
    BY <1>9 DEF ReadNext
  <2> QED
    BY <1>9, <2>7, <2>8 DEF ReadNext
<1>10. ASSUME NEW t \in Threads, PushWork(t)
       PROVE  /\ UNCHANGED <<groupVars, offset, exit, worker, pos, controlVars,
                              handled, early>>
              /\ posts' \in 0..MaxPosts
              /\ msgs' \in [Threads -> [Lists -> Seq({"work", "STOP"})]]
              /\ sent' \in [Threads -> Nat] /\ late' \in [Threads -> Nat]
  <2>1. Append(msgs[t][offset[t]], "work") \in Seq({"work", "STOP"})
    OBVIOUS
  <2> QED
    BY <1>10, <2>1 DEF PushWork, Push
<1>11. ASSUME NEW t \in Threads, PostMsg(t)
       PROVE  TypeOK' /\ ControlInv'
  BY <1>10, <1>11 DEF PostMsg
<1>12. ASSUME NEW c \in Callers, PostMin(c)
       PROVE  TypeOK' /\ ControlInv'
  <2>1. caller[c].idx \in Threads
    OBVIOUS
  <2>2. Idle \in [i : 0..MaxCount, total : Nat, idx : Threads]
    BY DEF Idle, Threads
  <2>3. caller' \in [Callers -> [i : 0..MaxCount, total : Nat, idx : Threads]]
    BY <1>12, <2>2 DEF PostMin
  <2> QED
    BY <1>10, <1>12, <2>1, <2>3 DEF PostMin
<1>13. ASSUME NEW t \in Threads, Take(t)
       PROVE  TypeOK' /\ ControlInv'
  <2>1. offset[t] \in {0, 1}
    BY DEF Lists
  <2>2. 1 - offset[t] \in Lists
    BY <2>1 DEF Lists
  <2>3. /\ offset' \in [Threads -> Lists]
        /\ worker' \in [Threads -> {"none", "run", "batch", "done"}]
    BY <1>13, <2>2 DEF Take
  <2> QED
    BY <1>13, <2>3 DEF Take
<1>14. ASSUME NEW t \in Threads, Dispatch(t)
       PROVE  TypeOK' /\ ControlInv'
  <2>1. pos[t] \in Nat /\ handled[t] \in Nat
    OBVIOUS
  <2>2. pos' \in [Threads -> Nat]
    BY <1>14, <2>1 DEF Dispatch
  <2>3. exit' \in [Threads -> BOOLEAN]
    BY <1>14 DEF Dispatch
  <2>4. handled[t] + 1 \in Nat
    BY <2>1
  <2>5. handled' = handled \/ handled' = [handled EXCEPT ![t] = handled[t] + 1]
    BY <1>14 DEF Dispatch
  <2>6. handled' \in [Threads -> Nat]
    BY <2>4, <2>5
  <2> QED
    BY <1>14, <2>2, <2>3, <2>6 DEF Dispatch
<1>15. ASSUME NEW t \in Threads, EndBatch(t)
       PROVE  TypeOK' /\ ControlInv'
  <2>1. offset[t] \in {0, 1}
    BY DEF Lists
  <2>2. 1 - offset[t] \in Lists
    BY <2>1 DEF Lists
  <2>3. <<>> \in Seq({"work", "STOP"})
    OBVIOUS
  <2>4. msgs' \in [Threads -> [Lists -> Seq({"work", "STOP"})]]
    BY <1>15, <2>2, <2>3 DEF EndBatch
  <2>5. /\ worker' \in [Threads -> {"none", "run", "batch", "done"}]
        /\ pos' \in [Threads -> Nat]
    BY <1>15 DEF EndBatch
  <2> QED
    BY <1>15, <2>4, <2>5 DEF EndBatch
<1>16. ASSUME NEW t \in Threads, Leave(t)
       PROVE  TypeOK' /\ ControlInv'
  <2>1. worker' \in [Threads -> {"none", "run", "batch", "done"}]
    BY <1>16 DEF Leave
  <2> QED
    BY <1>16, <2>1 DEF Leave
<1> QED
  BY <1>1, <1>2, <1>3, <1>4, <1>5, <1>6, <1>7, <1>8, <1>9, <1>11, <1>12, <1>13,
     <1>14, <1>15, <1>16, <1>17
  DEF Next, Controller, Caller, Worker
-----------------------------------------------------------------------------
(* One thread.                                                             *)

LEMMA TwoLists ==
  ASSUME TypeOK, NEW t \in Threads
  PROVE  /\ offset[t] \in Lists /\ 1 - offset[t] \in Lists /\ offset[t] # 1 - offset[t]
         /\ Active(t) \in Seq(Msg) /\ Batch(t) \in Seq(Msg)
         /\ Works(Active(t)) \in Nat /\ Works(Batch(t)) \in Nat
         /\ pos[t] \in Nat /\ WorksIn(Batch(t), pos[t]) \in Nat
         /\ sent[t] \in Nat /\ handled[t] \in Nat /\ late[t] \in Nat
<1>1. offset[t] \in {0, 1}
  BY DEF TypeOK, Lists
<1>2. 1 - offset[t] \in {0, 1} /\ offset[t] # 1 - offset[t]
  BY <1>1
<1>3. msgs[t] \in [Lists -> Seq(Msg)]
  BY DEF TypeOK, Msg
<1>4. offset[t] \in Lists /\ 1 - offset[t] \in Lists
  BY <1>1, <1>2 DEF Lists
<1>5. Active(t) \in Seq(Msg) /\ Batch(t) \in Seq(Msg)
  BY ONLY <1>3, <1>4 DEF Active, Batch
<1>6. /\ pos[t] \in Nat
      /\ sent[t] \in Nat /\ handled[t] \in Nat /\ late[t] \in Nat
  BY DEF TypeOK
<1>7. Len(Active(t)) \in Nat /\ Len(Batch(t)) \in Nat
  BY <1>5, LenProperties
<1> QED
  BY <1>2, <1>4, <1>5, <1>6, <1>7, WorksInType DEF Works

\* A message joins the list PostMsg appends to.
LEMMA PushSound ==
  ASSUME TypeOK, NEW t \in Threads, NEW m \in Msg, Push(t, m), offset' = offset
  PROVE  /\ \A u \in Threads : u # t => msgs'[u] = msgs[u]
         /\ Batch(t)' = Batch(t)
         /\ Active(t)' = Append(Active(t), m)
<1>1. /\ offset[t] \in Lists /\ 1 - offset[t] \in Lists /\ offset[t] # 1 - offset[t]
  BY TwoLists
<1>2. msgs' = [msgs EXCEPT ![t] = [msgs[t] EXCEPT ![offset[t]] =
                                     Append(msgs[t][offset[t]], m)]]
  BY DEF Push
<1>3. /\ msgs'[t] = [msgs[t] EXCEPT ![offset[t]] = Append(msgs[t][offset[t]], m)]
      /\ \A u \in Threads : u # t => msgs'[u] = msgs[u]
  BY <1>2 DEF TypeOK
<1>4. msgs[t] \in [Lists -> Seq(Msg)]
  BY DEF TypeOK, Msg
<1>5. /\ msgs'[t][offset[t]] = Append(msgs[t][offset[t]], m)
      /\ msgs'[t][1 - offset[t]] = msgs[t][1 - offset[t]]
  BY ONLY <1>1, <1>3, <1>4
<1> QED
  BY <1>3, <1>5 DEF Batch, Active

\* A step that leaves a thread alone.
LEMMA ThreadStays ==
  ASSUME NEW t \in Threads, ThreadInv(t),
         msgs'[t] = msgs[t], offset'[t] = offset[t], exit'[t] = exit[t],
         worker'[t] = worker[t], pos'[t] = pos[t],
         sent'[t] = sent[t], late'[t] = late[t], handled'[t] = handled[t]
  PROVE  ThreadInv(t)'
<1>1. Batch(t)' = Batch(t) /\ Active(t)' = Active(t)
  BY DEF Batch, Active
<1> QED
  BY <1>1 DEF ThreadInv, BooksInv, WorkerInv, LateInv

\* A step that moves only the worker of a thread, outside of a batch.
LEMMA WorkerMoves ==
  ASSUME NEW t \in Threads, ThreadInv(t),
         msgs'[t] = msgs[t], offset'[t] = offset[t], exit'[t] = exit[t],
         pos'[t] = pos[t],
         sent'[t] = sent[t], late'[t] = late[t], handled'[t] = handled[t],
         worker[t] # "batch", worker'[t] # "batch",
         worker'[t] = "done" => exit[t]
  PROVE  ThreadInv(t)'
<1>1. Batch(t)' = Batch(t) /\ Active(t)' = Active(t)
  BY DEF Batch, Active
<1>2. BooksInv(t)' /\ LateInv(t)'
  BY <1>1 DEF ThreadInv, BooksInv, LateInv
<1>3. WorkerInv(t)'
  BY <1>1 DEF ThreadInv, WorkerInv
<1> QED
  BY <1>2, <1>3 DEF ThreadInv

\* A message pushed to one thread, a STOP or work, which counts as late when
\* there is a STOP before it.
LEMMA PushStep ==
  ASSUME TypeOK, NEW t \in Threads, ThreadInv(t), NEW m \in Msg, Push(t, m),
         UNCHANGED <<offset, exit, worker, pos, handled>>,
         sent'[t] = sent[t] + IF m = "work" THEN 1 ELSE 0,
         late'[t] \in Nat, late'[t] >= late[t],
         m = "work" /\ (exit[t] \/ HasStop(Active(t)) \/ HasStop(Batch(t)))
           => late'[t] = late[t] + 1
  PROVE  ThreadInv(t)'
<1> DEFINE A == Active(t)  B == Batch(t)  d == IF m = "work" THEN 1 ELSE 0
<1>1. Batch(t)' = B /\ Active(t)' = Append(A, m)
  BY PushSound
<1>2. /\ A \in Seq(Msg) /\ B \in Seq(Msg)
      /\ Works(A) \in Nat /\ Works(B) \in Nat
      /\ pos[t] \in Nat /\ WorksIn(B, pos[t]) \in Nat
      /\ sent[t] \in Nat /\ handled[t] \in Nat /\ late[t] \in Nat
  BY TwoLists
<1>3. /\ Works(Append(A, m)) = Works(A) + d
      /\ \A k \in DOMAIN A : WorksIn(Append(A, m), k) = WorksIn(A, k)
  BY <1>2, WorksAppend
<1>4. d \in {0, 1} /\ (d = 1 <=> m = "work")
  OBVIOUS
<1>5. /\ BooksInv(t) /\ WorkerInv(t) /\ LateInv(t)
  BY DEF ThreadInv
<1>6. BooksInv(t)'
  <2>1. /\ pos[t] <= Len(B)
        /\ sent[t] + WorksIn(B, pos[t]) = handled[t] + Works(B) + Works(A)
    BY <1>5 DEF BooksInv
  <2>2. sent'[t] + WorksIn(B, pos[t]) = handled[t] + Works(B) + Works(Append(A, m))
    <3>1. sent'[t] = sent[t] + d /\ d \in Nat
      OBVIOUS
    <3> DEFINE a == Works(A)  b == Works(B)  w == WorksIn(B, pos[t])
               c == Works(Append(A, m))
    <3>2. /\ sent[t] \in Nat /\ handled[t] \in Nat /\ a \in Nat /\ b \in Nat /\ w \in Nat
          /\ sent[t] + w = handled[t] + b + a /\ c = a + d
      BY <1>2, <1>3, <2>1
    <3>3. sent'[t] + w = handled[t] + b + c
      <4> HIDE DEF a, b, c, d, w
      <4> QED
        BY ONLY <3>1, <3>2, Sums
    <3> QED
      BY <3>3
  <2> QED
    BY <1>1, <2>1, <2>2 DEF BooksInv
<1>7. WorkerInv(t)'
  BY <1>1, <1>5 DEF WorkerInv
<1>8. LateInv(t)'
  <2>1. \A k \in DOMAIN B : B[k] = "STOP" => HasStop(B)
    BY DEF HasStop, Range
  <2>2. \A k \in DOMAIN A : A[k] = "STOP" => HasStop(A)
    BY DEF HasStop, Range
  <2>3. ASSUME exit[t] \/ HasStop(A) \/ HasStop(B)
        PROVE  late'[t] >= late[t] + d
    <3>1. m = "work" => late'[t] = late[t] + 1
      BY <2>3
    <3> HIDE DEF A, B, d
    <3> QED
      BY <3>1, <1>2, <1>4
  <2>4. ASSUME NEW k \in DOMAIN Append(A, m), Append(A, m)[k] = "STOP"
        PROVE  Works(Append(A, m)) <= late'[t] + WorksIn(Append(A, m), k)
    <3>1. /\ Len(A) \in Nat /\ DOMAIN A = 1..Len(A)
          /\ DOMAIN Append(A, m) = 1..(Len(A) + 1)
          /\ Len(Append(A, m)) = Len(A) + 1
          /\ \A i \in 1..Len(A) : Append(A, m)[i] = A[i]
      BY <1>2, AppendProperties, LenProperties
    <3>2. CASE k \in DOMAIN A
      <4>1. A[k] = "STOP"
        BY <2>4, <3>1, <3>2
      <4>2. Works(A) <= late[t] + WorksIn(A, k)
        BY <1>5, <3>2, <4>1 DEF LateInv
      <4>3. late'[t] >= late[t] + d
        BY <2>2, <2>3, <3>2, <4>1
      <4>4. WorksIn(A, k) \in Nat
        <5>1. k \in Nat
          BY <3>1, <3>2
        <5> QED
          BY <5>1, WorksInType
      <4>5. WorksIn(Append(A, m), k) = WorksIn(A, k)
        BY <1>3, <3>2
      <4> DEFINE a == Works(A)  w == WorksIn(A, k)  l == late[t]  n == late'[t]
      <4>6. /\ a \in Nat /\ w \in Nat /\ l \in Nat /\ n \in Nat /\ d \in Nat
            /\ n >= l + d /\ a <= l + w
        BY <4>2, <4>3, <4>4, <1>2
      <4>7. a + d <= n + w
        <5> HIDE DEF a, w, l, n, d
        <5> QED
          BY ONLY <4>6, LateGrows
      <4> QED
        BY <4>5, <4>7, <1>3
    <3>3. CASE k = Len(A) + 1
      <4>1. WorksIn(Append(A, m), k) = Works(Append(A, m))
        BY <3>1, <3>3 DEF Works
      <4>2. Works(Append(A, m)) \in Nat
        <5> HIDE DEF A, B, d
        <5> QED
          BY ONLY <1>2, <1>3, <1>4
      <4> QED
        BY ONLY <4>1, <4>2, late'[t] \in Nat
    <3> QED
      BY <2>4, <3>1, <3>2, <3>3
  <2>5. ASSUME NEW k \in DOMAIN B, B[k] = "STOP"
        PROVE  Works(B) + Works(Append(A, m)) <= late'[t] + WorksIn(B, k)
    <3>1. Works(B) + Works(A) <= late[t] + WorksIn(B, k)
      BY <1>5, <2>5 DEF LateInv
    <3>2. late'[t] >= late[t] + d
      BY <2>1, <2>3, <2>5
    <3>3. WorksIn(B, k) \in Nat
      <4>1. k \in Nat
        BY <1>2, LenProperties
      <4> QED
        BY <4>1, WorksInType
    <3> DEFINE a == Works(A)  b == Works(B)  w == WorksIn(B, k)
               l == late[t]  n == late'[t]
    <3>4. /\ a \in Nat /\ b \in Nat /\ w \in Nat /\ l \in Nat /\ n \in Nat /\ d \in Nat
          /\ n >= l + d /\ b + a <= l + w
      BY <3>1, <3>2, <3>3, <1>2
    <3>5. b + (a + d) <= n + w
      <4> HIDE DEF a, b, w, l, n, d
      <4> QED
        BY ONLY <3>4, LateGrows
    <3> QED
      BY <3>5, <1>3
  <2>6. ASSUME exit[t]
        PROVE  Works(B) + Works(Append(A, m)) <= late'[t] + WorksIn(B, pos[t])
    <3>1. Works(B) + Works(A) <= late[t] + WorksIn(B, pos[t])
      BY <1>5, <2>6 DEF LateInv
    <3>2. late'[t] >= late[t] + d
      BY <2>3, <2>6
    <3> DEFINE a == Works(A)  b == Works(B)  w == WorksIn(B, pos[t])
               l == late[t]  n == late'[t]
    <3>4. /\ a \in Nat /\ b \in Nat /\ w \in Nat /\ l \in Nat /\ n \in Nat /\ d \in Nat
          /\ n >= l + d /\ b + a <= l + w
      BY <3>1, <3>2, <1>2
    <3>5. b + (a + d) <= n + w
      <4> HIDE DEF a, b, w, l, n, d
      <4> QED
        BY ONLY <3>4, LateGrows
    <3> QED
      BY <3>5, <1>3
  <2> HIDE DEF A, B, d
  <2>7. /\ \A k \in DOMAIN Append(A, m) : Append(A, m)[k] = "STOP" =>
             Works(Append(A, m)) <= late'[t] + WorksIn(Append(A, m), k)
        /\ \A k \in DOMAIN B : B[k] = "STOP" =>
             Works(B) + Works(Append(A, m)) <= late'[t] + WorksIn(B, k)
        /\ exit[t] =>
             Works(B) + Works(Append(A, m)) <= late'[t] + WorksIn(B, pos[t])
    BY <2>4, <2>5, <2>6
  <2> QED
    BY <1>1, <2>7 DEF LateInv
<1> QED
  BY <1>6, <1>7, <1>8 DEF ThreadInv

LEMMA PushWorkStep ==
  ASSUME TypeOK, TypeOK', \A t \in Threads : ThreadInv(t),
         NEW t \in Threads, PushWork(t)
  PROVE  \A u \in Threads : ThreadInv(u)'
<1>1. /\ Push(t, "work") /\ UNCHANGED <<offset, exit, worker, pos, handled>>
      /\ sent' = [sent EXCEPT ![t] = @ + 1]
      /\ late' = late \/ late' = [late EXCEPT ![t] = @ + 1]
      /\ exit[t] \/ (\E l \in Lists : "STOP" \in Range(msgs[t][l]))
           => late' = [late EXCEPT ![t] = @ + 1]
  BY DEF PushWork
<1>2. \A u \in Threads : u # t => msgs'[u] = msgs[u]
  BY <1>1, PushSound DEF Msg
<1>3. ASSUME NEW u \in Threads, u # t
      PROVE  ThreadInv(u)'
  <2>1. /\ msgs'[u] = msgs[u] /\ sent'[u] = sent[u] /\ late'[u] = late[u]
        /\ offset'[u] = offset[u] /\ exit'[u] = exit[u] /\ worker'[u] = worker[u]
        /\ pos'[u] = pos[u] /\ handled'[u] = handled[u]
    BY <1>1, <1>2, <1>3 DEF TypeOK
  <2> QED
    BY <2>1, ThreadStays
<1>4. sent'[t] = sent[t] + 1 /\ late[t] \in Nat /\ late'[t] \in Nat /\ late'[t] >= late[t]
  <2>1. sent[t] \in Nat /\ late[t] \in Nat
    BY DEF TypeOK
  <2>2. sent'[t] = sent[t] + 1
    BY <1>1 DEF TypeOK
  <2>3. late'[t] = late[t] \/ late'[t] = late[t] + 1
    BY <1>1 DEF TypeOK
  <2> QED
    BY <2>1, <2>2, <2>3
<1>5. HasStop(Active(t)) \/ HasStop(Batch(t)) => \E l \in Lists : "STOP" \in Range(msgs[t][l])
  BY TwoLists DEF HasStop, Active, Batch
<1>6. exit[t] \/ HasStop(Active(t)) \/ HasStop(Batch(t)) => late'[t] = late[t] + 1
  BY <1>1, <1>5 DEF TypeOK
<1>7. ThreadInv(t)'
  BY <1>1, <1>4, <1>6, PushStep DEF Msg
<1> QED
  BY <1>3, <1>7

LEMMA TakeStep ==
  ASSUME TypeOK, \A u \in Threads : ThreadInv(u), NEW t \in Threads, Take(t)
  PROVE  \A u \in Threads : ThreadInv(u)'
<1>1. /\ UNCHANGED <<msgs, exit, pos, sent, late, handled>>
      /\ worker[t] = "run" /\ ~exit[t]
      /\ worker'[t] = "batch" /\ offset'[t] = 1 - offset[t]
      /\ \A u \in Threads : u # t => worker'[u] = worker[u] /\ offset'[u] = offset[u]
  BY DEF Take, history, TypeOK
<1>2. ASSUME NEW u \in Threads, u # t
      PROVE  ThreadInv(u)'
  BY <1>1, <1>2, ThreadStays
<1>3. /\ offset[t] \in {0, 1} /\ pos[t] \in Nat
      /\ Active(t) \in Seq(Msg) /\ Works(Active(t)) \in Nat
      /\ sent[t] \in Nat /\ handled[t] \in Nat /\ late[t] \in Nat
  BY TwoLists DEF Lists
<1>4. Active(t)' = Batch(t) /\ Batch(t)' = Active(t)
  <2>1. 1 - offset'[t] = offset[t]
    BY <1>1, <1>3
  <2> QED
    BY <1>1, <2>1 DEF Active, Batch
<1>5. Batch(t) = <<>> /\ pos[t] = 0
  <2>1. Batch(t) = <<>> /\ pos[t] <= Len(Batch(t))
    BY <1>1 DEF ThreadInv, WorkerInv, BooksInv
  <2> QED
    BY <1>3, <2>1
<1>6. BooksInv(t)'
  <2>1. sent[t] = handled[t] + Works(Active(t))
    <3>1. sent[t] + WorksIn(<<>>, 0) = handled[t] + Works(<<>>) + Works(Active(t))
      BY <1>5 DEF ThreadInv, BooksInv
    <3> QED
      BY <1>3, <3>1, WorksEmpty, WorksInZero
  <2>2. 0 <= Len(Active(t))
    BY <1>3, LenProperties
  <2> QED
    BY <1>1, <1>3, <1>4, <1>5, <2>1, <2>2, WorksInZero, WorksEmpty DEF BooksInv
<1>7. WorkerInv(t)'
  BY <1>1 DEF WorkerInv
<1>8. LateInv(t)'
  <2>1. \A k \in DOMAIN Active(t) : Active(t)[k] = "STOP" =>
          Works(Active(t)) <= late[t] + WorksIn(Active(t), k)
    BY DEF ThreadInv, LateInv
  <2>2. DOMAIN <<>> = {}
    OBVIOUS
  <2>3. Works(Active(t)) + 0 = Works(Active(t))
    BY <1>3
  <2> QED
    BY <1>1, <1>4, <1>5, <2>1, <2>2, <2>3, WorksEmpty DEF LateInv
<1> QED
  BY <1>2, <1>6, <1>7, <1>8 DEF ThreadInv

LEMMA DispatchStep ==
  ASSUME TypeOK, \A u \in Threads : ThreadInv(u), NEW t \in Threads, Dispatch(t)
  PROVE  \A u \in Threads : ThreadInv(u)'
<1> DEFINE A == Active(t)  B == Batch(t)  n == pos[t]
           stop == B[n + 1] = "STOP"
<1>1. /\ UNCHANGED <<msgs, offset, worker, sent, late>>
      /\ worker[t] = "batch" /\ n < Len(B)
      /\ pos'[t] = n + 1
      /\ exit'[t] = (exit[t] \/ stop)
      /\ handled'[t] = handled[t] + IF stop THEN 0 ELSE 1
      /\ \A u \in Threads : u # t => /\ pos'[u] = pos[u] /\ exit'[u] = exit[u]
                                     /\ handled'[u] = handled[u]
  <2>1. /\ UNCHANGED <<msgs, offset, worker, sent, late>>
        /\ worker[t] = "batch" /\ n < Len(B)
        /\ pos'[t] = n + 1
        /\ \A u \in Threads : u # t => pos'[u] = pos[u]
    BY DEF Dispatch, TypeOK
  <2>2. CASE stop
    <3>1. exit' = [exit EXCEPT ![t] = TRUE] /\ handled' = handled
      BY <2>2 DEF Dispatch
    <3>2. handled[t] \in Nat
      BY DEF TypeOK
    <3>3. /\ exit'[t] = TRUE /\ handled'[t] = handled[t] + 0
          /\ \A u \in Threads : u # t => exit'[u] = exit[u] /\ handled'[u] = handled[u]
      BY <3>1, <3>2 DEF TypeOK
    <3> HIDE DEF stop, n
    <3> QED
      BY <2>1, <2>2, <3>3
  <2>3. CASE ~stop
    <3>1. handled' = [handled EXCEPT ![t] = handled[t] + 1] /\ exit' = exit
      BY <2>3 DEF Dispatch
    <3> QED
      BY <2>1, <2>3, <3>1 DEF TypeOK
  <2> QED
    BY <2>2, <2>3
<1>2. ASSUME NEW u \in Threads, u # t
      PROVE  ThreadInv(u)'
  BY <1>1, <1>2, ThreadStays
<1>3. Batch(t)' = B /\ Active(t)' = A
  BY <1>1 DEF Batch, Active
<1>4. /\ A \in Seq(Msg) /\ B \in Seq(Msg)
      /\ Works(A) \in Nat /\ Works(B) \in Nat
      /\ n \in Nat /\ WorksIn(B, n) \in Nat
      /\ sent[t] \in Nat /\ handled[t] \in Nat /\ late[t] \in Nat
  BY TwoLists
<1>5. n + 1 \in DOMAIN B /\ B[n + 1] \in Msg /\ n + 1 <= Len(B)
  BY <1>1, <1>4, LenProperties
<1>6. WorksIn(B, n + 1) = WorksIn(B, n) + IF stop THEN 0 ELSE 1
  BY <1>4, <1>5, WorksInNext DEF Msg
<1>7. BooksInv(t) /\ WorkerInv(t) /\ LateInv(t)
  BY DEF ThreadInv
<1>8. BooksInv(t)'
  <2>1. sent[t] + WorksIn(B, n) = handled[t] + Works(B) + Works(A)
    BY <1>7 DEF BooksInv
  <2>2. sent[t] + WorksIn(B, n + 1) = handled'[t] + Works(B) + Works(A)
    <3> DEFINE d == IF stop THEN 0 ELSE 1
    <3>1. d \in Nat /\ handled'[t] = handled[t] + d /\ WorksIn(B, n + 1) = WorksIn(B, n) + d
      BY <1>1, <1>6
    <3> DEFINE a == Works(A)  b == Works(B)  w == WorksIn(B, n)  x == WorksIn(B, n + 1)
    <3>2. /\ sent[t] \in Nat /\ handled[t] \in Nat /\ a \in Nat /\ b \in Nat /\ w \in Nat
          /\ sent[t] + w = handled[t] + b + a /\ x = w + d
      BY <1>4, <2>1, <3>1
    <3>3. sent[t] + x = handled'[t] + b + a
      <4> HIDE DEF a, b, d, w, x
      <4> QED
        BY ONLY <3>1, <3>2, Sums
    <3> QED
      BY <3>3
  <2> QED
    BY <1>1, <1>3, <1>5, <2>2 DEF BooksInv
<1>9. WorkerInv(t)'
  <2>1. stop => HasStop(B)
    BY <1>5 DEF HasStop, Range
  <2>2. exit'[t] => HasStop(B)
    BY <1>1, <1>7, <2>1 DEF WorkerInv
  <2> QED
    BY <1>1, <1>3, <2>2 DEF WorkerInv
<1>10. LateInv(t)'
  <2>1. ASSUME exit'[t]
        PROVE  Works(B) + Works(A) <= late[t] + WorksIn(B, n + 1)
    <3>1. CASE stop
      BY <1>5, <1>7, <3>1 DEF LateInv
    <3>2. CASE exit[t]
      <4>1. Works(B) + Works(A) <= late[t] + WorksIn(B, n)
        BY <1>7, <3>2 DEF LateInv
      <4> HIDE DEF A, B, n, stop
      <4> QED
        BY ONLY <1>4, <1>6, <4>1
    <3> QED
      BY <1>1, <2>1, <3>1, <3>2
  <2> QED
    BY <1>1, <1>3, <1>7, <2>1 DEF LateInv
<1> QED
  BY <1>2, <1>8, <1>9, <1>10 DEF ThreadInv

LEMMA EndBatchStep ==
  ASSUME TypeOK, \A u \in Threads : ThreadInv(u), NEW t \in Threads, EndBatch(t)
  PROVE  /\ \A u \in Threads : ThreadInv(u)'
         /\ Batch(t)' = <<>> /\ Active(t)' = Active(t)
<1> DEFINE A == Active(t)  B == Batch(t)
<1>1. /\ UNCHANGED <<offset, exit, sent, late, handled>>
      /\ worker[t] = "batch" /\ worker'[t] = "run" /\ pos[t] = Len(B) /\ pos'[t] = 0
      /\ msgs' = [msgs EXCEPT ![t] = [msgs[t] EXCEPT ![1 - offset[t]] = <<>>]]
      /\ \A u \in Threads : u # t => worker'[u] = worker[u] /\ pos'[u] = pos[u]
  BY DEF EndBatch, history, TypeOK
<1>2. /\ offset[t] \in Lists /\ 1 - offset[t] \in Lists /\ offset[t] # 1 - offset[t]
      /\ A \in Seq(Msg) /\ B \in Seq(Msg)
      /\ Works(A) \in Nat /\ Works(B) \in Nat
      /\ sent[t] \in Nat /\ handled[t] \in Nat /\ late[t] \in Nat
  BY TwoLists
<1>3. /\ msgs'[t] = [msgs[t] EXCEPT ![1 - offset[t]] = <<>>]
      /\ \A u \in Threads : u # t => msgs'[u] = msgs[u]
  BY <1>1 DEF TypeOK
<1>4. ASSUME NEW u \in Threads, u # t
      PROVE  ThreadInv(u)'
  BY <1>1, <1>3, <1>4, ThreadStays
<1>5. Batch(t)' = <<>> /\ Active(t)' = A
  <2>1. msgs[t] \in [Lists -> Seq(Msg)]
    BY DEF TypeOK, Msg
  <2>2. msgs'[t][1 - offset[t]] = <<>> /\ msgs'[t][offset[t]] = msgs[t][offset[t]]
    BY ONLY <1>2, <1>3, <2>1
  <2> QED
    BY <1>1, <2>2 DEF Batch, Active
<1>6. WorksIn(B, pos[t]) = Works(B)
  BY <1>1 DEF Works
<1>7. BooksInv(t)'
  <2>1. sent[t] + Works(B) = handled[t] + Works(B) + Works(A)
    BY <1>6 DEF ThreadInv, BooksInv
  <2>2. sent[t] = handled[t] + Works(A)
    <3> DEFINE a == Works(A)  b == Works(B)
    <3>1. /\ sent[t] \in Nat /\ handled[t] \in Nat /\ a \in Nat /\ b \in Nat
          /\ sent[t] + b = handled[t] + b + a
      BY <1>2, <2>1
    <3>2. sent[t] = handled[t] + a
      <4> HIDE DEF a, b, A, B
      <4> QED
        BY ONLY <3>1, SumsEmpty
    <3> QED
      BY <3>2
  <2>3. 0 <= Len(<<>>)
    OBVIOUS
  <2>4. /\ sent'[t] + WorksIn(Batch(t)', pos'[t]) = sent[t]
        /\ handled'[t] + Works(Batch(t)') + Works(Active(t)') = handled[t] + Works(A)
    BY <1>1, <1>2, <1>5, WorksEmpty, WorksInZero
  <2> QED
    BY <1>1, <1>5, <2>2, <2>3, <2>4 DEF BooksInv
<1>8. WorkerInv(t)'
  BY <1>1, <1>5 DEF WorkerInv
<1>9. LateInv(t)'
  <2>1. exit[t] => 0 + Works(A) <= late[t] + 0
    <3>1. exit[t] => Works(B) + Works(A) <= late[t] + Works(B)
      BY <1>6 DEF ThreadInv, LateInv
    <3> HIDE DEF A, B
    <3> QED
      BY ONLY <1>2, <3>1
  <2>2. DOMAIN <<>> = {}
    OBVIOUS
  <2>3. \A k \in DOMAIN A : A[k] = "STOP" => Works(A) <= late[t] + WorksIn(A, k)
    BY DEF ThreadInv, LateInv
  <2> QED
    BY <1>1, <1>5, <2>1, <2>2, <2>3, WorksEmpty, WorksInZero DEF LateInv
<1> QED
  BY <1>4, <1>5, <1>7, <1>8, <1>9 DEF ThreadInv

LEMMA LeaveStep ==
  ASSUME TypeOK, \A u \in Threads : ThreadInv(u), NEW t \in Threads, Leave(t)
  PROVE  \A u \in Threads : ThreadInv(u)'
<1>1. /\ UNCHANGED <<msgs, offset, exit, pos, sent, late, handled>>
      /\ worker[t] = "run" /\ exit[t] /\ worker'[t] = "done"
      /\ \A u \in Threads : u # t => worker'[u] = worker[u]
  BY DEF Leave, history, TypeOK
<1>2. ASSUME NEW u \in Threads, u # t
      PROVE  ThreadInv(u)'
  BY <1>1, <1>2, ThreadStays
<1>3. ThreadInv(t)'
  BY <1>1, WorkerMoves
<1> QED
  BY <1>2, <1>3

\* The controller tells a thread to stop.
LEMMA TellStop ==
  ASSUME TypeOK, ControlInv, ExitThread, ~exit[at]
  PROVE  /\ at \in Threads /\ Push(at, "STOP")
         /\ UNCHANGED <<offset, exit, worker, pos, sent, late, handled>>
         /\ control = "exit" /\ control' = "join" /\ at' = at
         /\ early'[at] = (early[at] \/ worker[at] = "none")
         /\ \A u \in Threads : u # at => early'[u] = early[u]
<1>1. at \in Threads
  BY GroupAssumption DEF ExitThread, TypeOK, Threads
<1> QED
  BY <1>1 DEF ExitThread, TypeOK

LEMMA ThreadStep ==
  ASSUME TypeOK, TypeOK', ControlInv, \A t \in Threads : ThreadInv(t), Next
  PROVE  \A t \in Threads : ThreadInv(t)'
<1> USE DEF threads, groupVars, controlVars, history
<1>1. CASE SetThreadGroupNum \/ Exit \/ Clear \/ ExitReturn \/ ClearUndefined
           \/ \E c \in Callers : ReadFirst(c) \/ ReadNext(c)
  <2>1. UNCHANGED <<msgs, offset, exit, worker, pos, sent, late, handled>>
    BY <1>1 DEF SetThreadGroupNum, Exit, Clear, BeginExit, ExitReturn, ClearUndefined,
                ReadFirst, ReadNext
  <2> QED
    BY <2>1, ThreadStays
<1>2. CASE Start
  <2> TAKE t \in Threads
  <2>1. UNCHANGED <<msgs, offset, exit, pos, sent, late, handled>>
    BY <1>2 DEF Start
  <2>2. CASE worker'[t] = worker[t]
    BY <2>1, <2>2, ThreadStays
  <2>3. CASE worker[t] = "none" /\ worker'[t] = "run"
    BY <2>1, <2>3, WorkerMoves
  <2> QED
    BY <1>2, <2>2, <2>3 DEF Start
<1>3. CASE ExitThread
  <2>1. CASE exit[at]
    <3>1. UNCHANGED <<msgs, offset, exit, worker, pos, sent, late, handled>>
      BY <1>3, <2>1 DEF ExitThread
    <3> QED
      BY <3>1, ThreadStays
  <2>2. CASE ~exit[at]
    <3> PICK t \in Threads : t = at
      BY <1>3, <2>2, TellStop
    <3>1. /\ Push(t, "STOP")
          /\ UNCHANGED <<offset, exit, worker, pos, sent, late, handled>>
      BY <1>3, <2>2, TellStop
    <3>2. ASSUME NEW u \in Threads, u # t
          PROVE  ThreadInv(u)'
      BY <3>1, <3>2, PushSound, ThreadStays DEF Msg
    <3>3. sent[t] \in Nat /\ late[t] \in Nat
      BY TwoLists
    <3>4. /\ sent'[t] = sent[t] + 0
          /\ late'[t] \in Nat /\ late'[t] >= late[t]
      BY <3>1, <3>3
    <3>5. ThreadInv(t)'
      BY <3>1, <3>4, PushStep DEF Msg
    <3> QED
      BY <3>2, <3>5
  <2> QED
    BY <2>1, <2>2
<1>4. CASE Join
  <2> TAKE t \in Threads
  <2>1. /\ UNCHANGED <<msgs, offset, exit, pos, sent, late, handled>>
        /\ worker'[t] = worker[t] \/ (worker[t] = "done" /\ worker'[t] = "none")
    BY <1>4 DEF Join, Ended, TypeOK
  <2>2. CASE worker'[t] = worker[t]
    BY <2>1, <2>2, ThreadStays
  <2>3. CASE worker[t] = "done" /\ worker'[t] = "none"
    BY <2>1, <2>3, WorkerMoves
  <2> QED
    BY <2>1, <2>2, <2>3
<1>5. CASE ClearReturn
  <2> TAKE t \in Threads
  <2>1. /\ Batch(t)' = <<>> /\ Active(t)' = <<>> /\ ~exit'[t]
        /\ worker'[t] = "none" /\ pos'[t] = 0 /\ sent'[t] = 0 /\ handled'[t] = 0
    BY <1>5 DEF ClearReturn, Lists, Batch, Active
  <2>2. DOMAIN <<>> = {} /\ 0 <= Len(<<>>)
    OBVIOUS
  <2> QED
    BY <2>1, <2>2, WorksEmpty, WorksInZero DEF ThreadInv, BooksInv, WorkerInv, LateInv
<1>6. ASSUME NEW t \in Threads, PostMsg(t)
      PROVE  \A u \in Threads : ThreadInv(u)'
  BY <1>6, PushWorkStep DEF PostMsg
<1>7. ASSUME NEW c \in Callers, PostMin(c)
      PROVE  \A u \in Threads : ThreadInv(u)'
  <2>1. caller[c].idx \in Threads
    BY DEF TypeOK
  <2> QED
    BY <1>7, <2>1, PushWorkStep DEF PostMin
<1>8. ASSUME NEW t \in Threads, Worker(t)
      PROVE  \A u \in Threads : ThreadInv(u)'
  BY <1>8, TakeStep, DispatchStep, EndBatchStep, LeaveStep DEF Worker
<1> QED
  BY <1>1, <1>2, <1>3, <1>4, <1>5, <1>6, <1>7, <1>8 DEF Next, Controller, Caller
-----------------------------------------------------------------------------
(* The STOPs.                                                              *)

\* A step that leaves the lists and m_exit of a thread, and does not take its
\* worker away while Exit waits for it.
LEMMA StopStays ==
  ASSUME NEW t \in Threads, StopInv(t),
         msgs'[t] = msgs[t], offset'[t] = offset[t], exit'[t] = exit[t],
         early'[t] = early[t],
         \/ ~HasStop(Batch(t)) /\ ~HasStop(Active(t))
         \/ control' = control /\ at' = at /\ (worker[t] # "none" => worker'[t] # "none")
         \/ control # "join" \/ at # t
  PROVE  StopInv(t)'
<1>1. Batch(t)' = Batch(t) /\ Active(t)' = Active(t)
  BY DEF Batch, Active
<1> QED
  BY <1>1 DEF StopInv

\* A message of a caller is no STOP.
LEMMA StopPush ==
  ASSUME TypeOK, \A u \in Threads : StopInv(u), NEW t \in Threads, PushWork(t)
  PROVE  \A u \in Threads : StopInv(u)'
<1>1. /\ Push(t, "work") /\ UNCHANGED <<offset, exit, worker, early, control, at>>
  BY DEF PushWork, controlVars
<1>2. /\ \A u \in Threads : u # t => msgs'[u] = msgs[u]
      /\ Batch(t)' = Batch(t) /\ Active(t)' = Append(Active(t), "work")
  BY <1>1, PushSound DEF Msg
<1>3. HasStop(Append(Active(t), "work")) <=> HasStop(Active(t))
  BY TwoLists, StopAppend DEF Msg
<1>4. StopInv(t)'
  BY <1>1, <1>2, <1>3 DEF StopInv
<1>5. ASSUME NEW u \in Threads, u # t
      PROVE  StopInv(u)'
  BY <1>1, <1>2, <1>5, StopStays
<1> QED
  BY <1>4, <1>5

LEMMA StopStep ==
  ASSUME TypeOK, ControlInv, \A t \in Threads : ThreadInv(t) /\ StopInv(t), Next
  PROVE  \A t \in Threads : StopInv(t)'
<1> USE DEF threads, groupVars, controlVars, history
<1>1. CASE SetThreadGroupNum \/ Start \/ Exit \/ Clear \/ ExitReturn \/ ClearUndefined
  <2>1. UNCHANGED <<msgs, offset, exit, early>> /\ control # "join"
    BY <1>1 DEF SetThreadGroupNum, Start, Exit, Clear, BeginExit, ExitReturn,
                ClearUndefined
  <2> QED
    BY <2>1, StopStays
<1>2. CASE \E c \in Callers : ReadFirst(c) \/ ReadNext(c)
  <2>1. UNCHANGED <<msgs, offset, exit, worker, early, control, at>>
    BY <1>2 DEF ReadFirst, ReadNext
  <2> QED
    BY <2>1, StopStays
<1>3. CASE ExitThread
  <2>1. CASE exit[at]
    <3>1. UNCHANGED <<msgs, offset, exit, early>> /\ control # "join"
      BY <1>3, <2>1 DEF ExitThread
    <3> QED
      BY <3>1, StopStays
  <2>2. CASE ~exit[at]
    <3> PICK t \in Threads : t = at
      BY <1>3, <2>2, TellStop
    <3>1. /\ Push(t, "STOP") /\ UNCHANGED <<offset, exit, worker>> /\ ~exit[t]
          /\ control = "exit" /\ control' = "join" /\ at' = t
          /\ early'[t] = (early[t] \/ worker[t] = "none")
          /\ \A u \in Threads : u # t => early'[u] = early[u]
      BY <1>3, <2>2, TellStop
    <3>2. /\ \A u \in Threads : u # t => msgs'[u] = msgs[u]
          /\ Batch(t)' = Batch(t)
      BY <3>1, PushSound DEF Msg
    <3>3. ASSUME NEW u \in Threads, u # t
          PROVE  StopInv(u)'
      BY <3>1, <3>2, <3>3, StopStays
    <3>4. ~early[t] => ~HasStop(Batch(t))
      BY <3>1 DEF StopInv
    <3>5. StopInv(t)'
      BY <3>1, <3>2, <3>4 DEF StopInv
    <3> QED
      BY <3>3, <3>5
  <2> QED
    BY <2>1, <2>2
<1>4. CASE Join
  <2> TAKE t \in Threads
  <2>1. /\ UNCHANGED <<msgs, offset, exit, early>> /\ control = "join"
        /\ Ended(at)
    BY <1>4 DEF Join
  <2>2. CASE at # t
    BY <2>1, <2>2, StopStays
  <2>3. CASE at = t /\ early[t]
    BY <2>1, <2>3 DEF StopInv
  <2>4. CASE at = t /\ ~early[t]
    <3>1. worker[t] # "batch" => ~HasStop(Batch(t))
      BY StopEmpty DEF ThreadInv, WorkerInv
    <3>2. worker[t] = "done" => ~HasStop(Active(t))
      BY <2>4 DEF ThreadInv, WorkerInv, StopInv
    <3>3. worker[t] = "none" => ~HasStop(Active(t))
      BY <2>4 DEF StopInv
    <3>4. ~HasStop(Batch(t)) /\ ~HasStop(Active(t))
      BY <2>1, <2>4, <3>1, <3>2, <3>3 DEF Ended
    <3> QED
      BY <2>1, <3>4, StopStays
  <2> QED
    BY <2>2, <2>3, <2>4
<1>5. CASE ClearReturn
  <2> TAKE t \in Threads
  <2>1. Batch(t)' = <<>> /\ Active(t)' = <<>> /\ ~exit'[t]
    BY <1>5 DEF ClearReturn, Lists, Batch, Active
  <2> QED
    BY <2>1, StopEmpty DEF StopInv
<1>6. ASSUME NEW t \in Threads, PostMsg(t)
      PROVE  \A u \in Threads : StopInv(u)'
  BY <1>6, StopPush DEF PostMsg
<1>7. ASSUME NEW c \in Callers, PostMin(c)
      PROVE  \A u \in Threads : StopInv(u)'
  <2>1. caller[c].idx \in Threads
    BY DEF TypeOK
  <2> QED
    BY <1>7, <2>1, StopPush DEF PostMin
<1>8. ASSUME NEW t \in Threads, Worker(t)
      PROVE  \A u \in Threads : StopInv(u)'
  <2>1. /\ UNCHANGED <<early, control, at>>
        /\ worker[t] # "none" /\ worker'[t] # "none"
        /\ \A u \in Threads : u # t => /\ msgs'[u] = msgs[u] /\ offset'[u] = offset[u]
                                       /\ exit'[u] = exit[u] /\ worker'[u] = worker[u]
    BY <1>8 DEF Worker, Take, Dispatch, EndBatch, Leave, TypeOK
  <2>2. ASSUME NEW u \in Threads, u # t
        PROVE  StopInv(u)'
    BY <2>1, <2>2, StopStays
  <2>3. CASE Take(t)
    <3>1. /\ ~exit[t] /\ exit' = exit /\ Batch(t) = <<>> /\ msgs' = msgs
          /\ offset'[t] = 1 - offset[t] /\ offset[t] \in {0, 1}
      BY <2>3 DEF Take, ThreadInv, WorkerInv, TypeOK, Lists
    <3>2. 1 - offset'[t] = offset[t]
      BY <3>1
    <3>3. Active(t)' = <<>> /\ Batch(t)' = Active(t)
      BY <3>1, <3>2 DEF Active, Batch
    <3> QED
      BY <2>1, <2>2, <3>1, <3>3, StopEmpty DEF StopInv
  <2>4. CASE Dispatch(t)
    <3>1. /\ Batch(t)' = Batch(t) /\ Active(t)' = Active(t)
          /\ pos[t] < Len(Batch(t))
          /\ exit'[t] = (exit[t] \/ Batch(t)[pos[t] + 1] = "STOP")
      BY <2>4 DEF Dispatch, Batch, Active, TypeOK
    <3>2. Batch(t) \in Seq(Msg) /\ pos[t] \in Nat
      BY TwoLists
    <3>3. pos[t] + 1 \in DOMAIN Batch(t)
      BY <3>1, <3>2, LenProperties
    <3>4. exit'[t] => exit[t] \/ HasStop(Batch(t))
      BY <3>1, <3>3 DEF HasStop, Range
    <3> QED
      BY <2>1, <2>2, <3>1, <3>4 DEF StopInv
  <2>5. CASE EndBatch(t)
    <3>1. exit' = exit
      BY <2>5 DEF EndBatch
    <3>2. Batch(t)' = <<>> /\ Active(t)' = Active(t)
      BY <2>5, EndBatchStep
    <3> QED
      BY <2>1, <2>2, <3>1, <3>2, StopEmpty DEF StopInv
  <2>6. CASE Leave(t)
    <3>1. UNCHANGED <<msgs, offset, exit>>
      BY <2>6 DEF Leave
    <3> QED
      BY <2>1, <2>2, <3>1, StopStays
  <2> QED
    BY <1>8, <2>3, <2>4, <2>5, <2>6 DEF Worker
<1> QED
  BY <1>1, <1>2, <1>3, <1>4, <1>5, <1>6, <1>7, <1>8 DEF Next, Controller, Caller

-----------------------------------------------------------------------------
\* Exit passes only what dispatches nothing more or met an early STOP.
LEMMA OrderStep ==
  ASSUME TypeOK, ControlInv, ExitInOrder,
         \A t \in Threads : ThreadInv(t) /\ StopInv(t), Next
  PROVE  ExitInOrder'
<1> USE DEF threads, groupVars, controlVars, history
<1> DEFINE Passed(t) == Ended(t) \/ (exit[t] /\ (worker[t] = "run" \/ early[t]))
<1>1. CASE SetThreadGroupNum \/ Start \/ ExitReturn \/ ClearReturn \/ ClearUndefined
  <2>1. control' \in {"idle", "undefined"}
    BY <1>1 DEF SetThreadGroupNum, Start, ExitReturn, ClearReturn, ClearUndefined
  <2> QED
    BY <2>1 DEF ExitInOrder
<1>2. CASE Exit \/ Clear
  <2>1. at' = 0
    BY <1>2 DEF Exit, Clear, BeginExit
  <2> QED
    BY <2>1 DEF ExitInOrder, Threads
<1>3. CASE ExitThread \/ Join
  <2>1. /\ control \in {"exit", "join"} /\ at \in Nat /\ UNCHANGED exit
        /\ at' = at \/ (at' = at + 1 /\ control = "exit" /\ exit[at])
                    \/ (at' = at + 1 /\ Ended(at))
        /\ \A t \in Threads : worker'[t] = worker[t] \/ worker'[t] = "none"
        /\ \A t \in Threads : early[t] => early'[t]
    <3>1. CASE ExitThread
      <4>1. /\ control = "exit" /\ at \in Nat /\ UNCHANGED <<exit, worker>>
            /\ at' = at \/ (at' = at + 1 /\ exit[at])
            /\ early' = early \/ early' = [early EXCEPT ![at] = @ \/ worker[at] = "none"]
        BY <3>1 DEF ExitThread, TypeOK
      <4> QED
        BY <4>1 DEF TypeOK
    <3>2. CASE Join
      BY <3>2 DEF Join, TypeOK
    <3> QED
      BY <1>3, <3>1, <3>2
  <2> SUFFICES ASSUME NEW t \in Threads, t < at'
               PROVE  Passed(t)'
    BY DEF ExitInOrder
  <2>2. t < at \/ (t = at /\ at' = at + 1)
    BY <2>1 DEF Threads
  <2>3. CASE t < at
    <3>1. Passed(t)
      BY <2>1, <2>3 DEF ExitInOrder
    <3> QED
      BY <2>1, <3>1 DEF Ended
  <2>4. CASE t = at /\ Ended(at)
    BY <2>1, <2>4 DEF Ended
  <2>5. CASE t = at /\ control = "exit" /\ exit[at]
    <3>1. worker[t] = "batch" => early[t]
      BY <2>5 DEF ThreadInv, WorkerInv, StopInv
    <3>2. worker[t] \in {"none", "run", "batch", "done"}
      BY DEF TypeOK
    <3> QED
      BY <2>1, <2>5, <3>1, <3>2 DEF Ended
  <2> QED
    BY <2>1, <2>2, <2>3, <2>4, <2>5 DEF Threads
<1>4. ASSUME UNCHANGED <<control, at>>,
             \A t \in Threads : Passed(t) => Passed(t)'
      PROVE  ExitInOrder'
  BY <1>4 DEF ExitInOrder
<1>5. CASE \/ \E c \in Callers : ReadFirst(c) \/ ReadNext(c) \/ PostMin(c)
           \/ \E t \in Threads : PostMsg(t)
  <2>1. UNCHANGED <<worker, exit, early, control, at>>
    BY <1>5 DEF ReadFirst, ReadNext, PostMin, PostMsg, PushWork
  <2>2. \A t \in Threads : Passed(t) => Passed(t)'
    BY <2>1 DEF Ended
  <2> QED
    BY <1>4, <2>1, <2>2
<1>6. ASSUME NEW t \in Threads, Worker(t)
      PROVE  ExitInOrder'
  <2>1. /\ UNCHANGED <<control, at, early>>
        /\ worker[t] \in {"run", "batch"}
        /\ \A u \in Threads : u # t => worker'[u] = worker[u] /\ exit'[u] = exit[u]
    BY <1>6 DEF Worker, Take, Dispatch, EndBatch, Leave, TypeOK
  <2>2. Passed(t) => Passed(t)'
    <3> SUFFICES ASSUME exit[t], worker[t] = "run" \/ early[t]
                 PROVE  Passed(t)'
      BY <2>1 DEF Ended
    <3>1. ~Take(t)
      BY DEF Take
    <3>2. CASE Dispatch(t)
      <4>1. worker[t] = "batch" /\ exit'[t]
        BY <3>2 DEF Dispatch, TypeOK
      <4> QED
        BY <2>1, <4>1
    <3>3. CASE EndBatch(t)
      <4>1. worker'[t] = "run" /\ exit'[t]
        BY <3>3 DEF EndBatch, TypeOK
      <4> QED
        BY <4>1
    <3>4. CASE Leave(t)
      <4>1. worker'[t] = "done"
        BY <3>4 DEF Leave, TypeOK
      <4> QED
        BY <4>1 DEF Ended
    <3> QED
      BY <1>6, <3>1, <3>2, <3>3, <3>4 DEF Worker
  <2> QED
    BY <1>4, <2>1, <2>2 DEF Ended
<1> QED
  BY <1>1, <1>2, <1>3, <1>5, <1>6 DEF Next, Controller, Caller

LEMMA InitIInv == Init => IInv
<1> SUFFICES ASSUME Init
             PROVE  IInv
  OBVIOUS
<1> USE GroupAssumption DEF Init
<1>1. TypeOK
  <2>1. <<>> \in Seq({"work", "STOP"})
    OBVIOUS
  <2>2. Idle \in [i : 0..MaxCount, total : Nat, idx : Threads]
    BY DEF Idle, Threads
  <2>3. /\ msgs \in [Threads -> [Lists -> Seq({"work", "STOP"})]]
        /\ caller \in [Callers -> [i : 0..MaxCount, total : Nat, idx : Threads]]
    BY <2>1, <2>2
  <2>4. offset \in [Threads -> Lists]
    BY DEF Lists
  <2>5. /\ count \in 0..MaxCount /\ at \in 0..MaxCount /\ exits \in 0..MaxExits
        /\ posts \in 0..MaxPosts
    OBVIOUS
  <2> QED
    BY <2>3, <2>4, <2>5 DEF TypeOK
<1>2. ControlInv /\ ExitInOrder
  BY DEF ControlInv, ExitInOrder
<1>3. ASSUME NEW t \in Threads
      PROVE  ThreadInv(t) /\ StopInv(t)
  <2>1. Batch(t) = <<>> /\ Active(t) = <<>>
    BY DEF Lists, Batch, Active
  <2>2. DOMAIN <<>> = {} /\ 0 <= Len(<<>>)
    OBVIOUS
  <2>3. ThreadInv(t)
    BY <2>1, <2>2, WorksEmpty, WorksInZero DEF ThreadInv, BooksInv, WorkerInv, LateInv
  <2>4. StopInv(t)
    BY <2>1, StopEmpty DEF StopInv
  <2> QED
    BY <2>3, <2>4
<1> QED
  BY <1>1, <1>2, <1>3 DEF IInv

LEMMA NextIInv == IInv /\ [Next]_vars => IInv'
<1> SUFFICES ASSUME IInv, [Next]_vars
             PROVE  IInv'
  OBVIOUS
<1>1. /\ TypeOK /\ ControlInv /\ ExitInOrder
      /\ \A t \in Threads : ThreadInv(t) /\ StopInv(t)
  BY DEF IInv
<1>2. CASE Next
  <2>1. TypeOK' /\ ControlInv'
    BY <1>1, <1>2, TypeStep
  <2>2. \A t \in Threads : ThreadInv(t)'
    BY <1>1, <1>2, <2>1, ThreadStep
  <2>3. \A t \in Threads : StopInv(t)'
    BY <1>1, <1>2, StopStep
  <2>4. ExitInOrder'
    BY <1>1, <1>2, OrderStep
  <2>5. \A t \in Threads : (ThreadInv(t) /\ StopInv(t))'
    BY <2>2, <2>3
  <2> QED
    BY <2>1, <2>4, <2>5 DEF IInv
<1>3. CASE UNCHANGED vars
  <2> USE <1>3 DEF vars, threads, groupVars, controlVars, history
  <2>1. TypeOK'
    BY <1>1 DEF TypeOK
  <2>2. ControlInv' /\ ExitInOrder'
    BY <1>1 DEF ControlInv, ExitInOrder, Ended
  <2>3. \A t \in Threads : ThreadInv(t)'
    BY <1>1, ThreadStays
  <2>4. \A t \in Threads : StopInv(t)'
    BY <1>1, StopStays
  <2>5. \A t \in Threads : (ThreadInv(t) /\ StopInv(t))'
    BY <2>3, <2>4
  <2> QED
    BY <2>1, <2>2, <2>5 DEF IInv
<1> QED
  BY <1>2, <1>3

\* The inductive invariant of the group: what each thread was sent, has
\* dispatched of its batch and still holds, where a STOP may be, and how far
\* Exit has come.
THEOREM GroupInductive == Spec => []IInv
  BY InitIInv, NextIInv, PTL DEF Spec

\* Every variable of the group, its threads and its callers keeps its type.
THEOREM TypeCorrect == Spec => []TypeOK
<1>1. IInv => TypeOK
  BY DEF IInv
<1> QED
  BY GroupInductive, <1>1, PTL

\* From the moment a thread sets m_exit it has dispatched everything that was
\* posted to it before its STOP, from whatever caller, by whichever index.
THEOREM StoppedDrainedAlways == Spec => []StoppedDrained
<1>1. IInv => StoppedDrained
  <2> SUFFICES ASSUME IInv, NEW t \in Threads, exit[t]
               PROVE  sent[t] - handled[t] <= late[t]
    BY DEF StoppedDrained
  <2>1. /\ sent[t] + WorksIn(Batch(t), pos[t])
             = handled[t] + Works(Batch(t)) + Works(Active(t))
        /\ Works(Batch(t)) + Works(Active(t)) <= late[t] + WorksIn(Batch(t), pos[t])
    BY DEF IInv, ThreadInv, BooksInv, LateInv
  <2>2. /\ Works(Active(t)) \in Nat /\ Works(Batch(t)) \in Nat
        /\ WorksIn(Batch(t), pos[t]) \in Nat
        /\ sent[t] \in Nat /\ handled[t] \in Nat /\ late[t] \in Nat
    BY TwoLists DEF IInv
  <2> QED
    BY ONLY <2>1, <2>2
<1> QED
  BY GroupInductive, <1>1, PTL

\* Exit passes a thread only when it has ended or will dispatch nothing more,
\* but for one that met the STOP of an Exit made before it was started.
THEOREM ExitInOrderAlways == Spec => []ExitInOrder
<1>1. IInv => ExitInOrder
  BY DEF IInv
<1> QED
  BY GroupInductive, <1>1, PTL
=============================================================================
