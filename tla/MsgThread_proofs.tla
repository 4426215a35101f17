--------------------------- MODULE MsgThread_proofs ---------------------------
(***************************************************************************)
(* Proofs about MsgThread for any set of producers, any number of messages *)
(* and any interleaving.                                                   *)
(***************************************************************************)
EXTENDS MsgThread, SequenceTheorems, TLAPS

\* What a producer or the owner pushes is a message.
LEMMA PushedIsMsg ==
  ASSUME TypeOK
  PROVE  /\ [kind |-> "STOP", from |-> Owner, n |-> 0] \in Msg
         /\ \A p \in Producers : posts[p] < MaxPosts =>
              /\ posts[p] + 1 \in 0..MaxPosts
              /\ \A k \in Kinds :
                   [kind |-> k, from |-> p, n |-> posts[p] + 1] \in Msg
BY KindsAssumption, BoundsAssumption DEF TypeOK, Msg, Senders

\* The object as its constructors leave it is well typed.
LEMMA TypeCorrectInit == Init => TypeOK
<1> SUFFICES ASSUME Init PROVE TypeOK
  OBVIOUS
<1>1. <<>> \in Seq(Msg)
  BY EmptySeq
<1>2. msgs \in [Lists -> Seq(Msg)]
  BY <1>1 DEF Init
<1>3. 0 \in 0..MaxPosts
  BY BoundsAssumption
<1>4. posts \in [Producers -> 0..MaxPosts]
  BY <1>3 DEF Init
<1>5. producer \in [Producers -> {"idle", "notify"}]
  BY DEF Init
<1> QED
  BY <1>1, <1>2, <1>4, <1>5 DEF Init, TypeOK, Lists, WorkerAt, OwnerAt

\* No operation of a producer, the owner or the worker breaks a type.
LEMMA TypeCorrectStep == TypeOK /\ [Next]_vars => TypeOK'
<1> SUFFICES ASSUME TypeOK, [Next]_vars PROVE TypeOK'
  OBVIOUS
<1> USE DEF TypeOK
<1>a. ASSUME NEW m \in Msg, Push(m)
      PROVE  /\ msgs' \in [Lists -> Seq(Msg)]
             /\ posted' \in Seq(Msg)
  BY <1>a DEF Push
<1>1. CASE \E p \in Producers : PostMsg(p)
  <2>1. PICK p \in Producers, k \in Kinds :
          /\ PostMsg(p)
          /\ Push([kind |-> k, from |-> p, n |-> posts[p] + 1])
    BY <1>1 DEF PostMsg
  <2>2. /\ [kind |-> k, from |-> p, n |-> posts[p] + 1] \in Msg
        /\ posts[p] + 1 \in 0..MaxPosts
    BY <2>1, PushedIsMsg DEF PostMsg
  <2>3. /\ msgs' \in [Lists -> Seq(Msg)]
        /\ posted' \in Seq(Msg)
    BY <2>1, <2>2, <1>a
  <2> QED
    BY <2>1, <2>2, <2>3 DEF PostMsg, Push, workerVars, ownerVars
<1>2. CASE \E p \in Producers : PostMsgNotify(p)
  BY <1>2 DEF PostMsgNotify, NotifyAll, lists, ownerVars, WorkerAt
<1>3. CASE StartThread
  BY <1>3 DEF StartThread, lists, producerVars, WorkerAt
<1>4. ASSUME PushStop PROVE TypeOK'
  <2>1. /\ msgs' \in [Lists -> Seq(Msg)]
        /\ posted' \in Seq(Msg)
    BY <1>4, <1>a, PushedIsMsg DEF PushStop
  <2> QED
    BY <1>4, <2>1 DEF PushStop, Push, workerVars, producerVars, OwnerAt
<1>5. CASE ExitThread
  BY <1>4, <1>5 DEF ExitThread
<1>6. CASE Destroy
  BY <1>6 DEF Destroy, lists, workerVars, producerVars, OwnerAt
<1>7. CASE OwnerFinish
  <2>1. CASE ExitNotify
    BY <2>1 DEF ExitNotify, NotifyAll, lists, producerVars, OwnerAt, WorkerAt
  <2>2. CASE ExitJoin
    BY <2>2 DEF ExitJoin, StopThread, lists, producerVars, OwnerAt, WorkerAt
  <2>3. CASE DtorExit
    BY <1>4, <2>3 DEF DtorExit, lists, workerVars, producerVars, OwnerAt
  <2>4. CASE BaseJoin
    BY <2>4 DEF BaseJoin, StopThread, lists, producerVars, OwnerAt, WorkerAt
  <2> QED
    BY <1>7, <2>1, <2>2, <2>3, <2>4 DEF OwnerFinish
<1>8. CASE ThreadFunc
  <2> USE DEF lists, ownerVars, producerVars, WorkerAt
  <2>1. CASE WorkerCheck
    BY <2>1 DEF WorkerCheck
  <2>2. CASE WorkerWait
    BY <2>2 DEF WorkerWait
  <2>3. CASE WorkerTake
    BY <2>3 DEF WorkerTake, Lists
  <2>4. ASSUME NEW k, AtMessage(k) PROVE handled' \in Seq(Msg)
    <3>1. msgs[tmpList] \in Seq(Msg) /\ itr \in 1..Len(msgs[tmpList])
      BY <2>4 DEF AtMessage
    <3> QED
      BY <2>4, <3>1, ElementOfSeq DEF AtMessage
  <2>5. CASE WorkerStop
    BY <2>4, <2>5 DEF WorkerStop
  <2>6. CASE WorkerHandle
    BY <2>4, <2>6 DEF WorkerHandle
  <2>7. CASE WorkerClear
    BY <2>4, <2>7 DEF WorkerClear
  <2>8. CASE WorkerBatchEnd
    BY <2>8 DEF WorkerBatchEnd
  <2> QED
    BY <1>8, <2>1, <2>2, <2>3, <2>5, <2>6, <2>7, <2>8 DEF ThreadFunc
<1>9. CASE WorkerSpurious
  BY <1>9 DEF WorkerSpurious, lists, ownerVars, producerVars, WorkerAt
<1>10. CASE UNCHANGED vars
  BY <1>10 DEF vars, lists, workerVars, ownerVars, producerVars
<1> QED
  BY <1>1, <1>2, <1>3, <1>5, <1>6, <1>7, <1>8, <1>9, <1>10
     DEF Next, Terminated

\* Every variable keeps its type in every reachable state.
THEOREM TypeCorrect == Spec => []TypeOK
BY TypeCorrectInit, TypeCorrectStep, PTL DEF Spec

-----------------------------------------------------------------------------
(* The inductive invariant, one lemma per part.                            *)


\* The flip of m_offset names the other list.
LEMMA Flip ==
  ASSUME TypeOK
  PROVE  /\ (offset + 1) % 2 = 1 - offset
         /\ 1 - offset \in Lists
         /\ 1 - offset # offset
         /\ \A l \in Lists : l # offset => l = 1 - offset
<1>1. CASE offset = 0
  BY <1>1 DEF Lists
<1>2. CASE offset = 1
  BY <1>2 DEF Lists
<1> QED
  BY <1>1, <1>2 DEF TypeOK, Lists

\* A push leaves the other list alone.
LEMMA PushLists ==
  ASSUME TypeOK, NEW m \in Msg, Push(m)
  PROVE  /\ msgs'[offset] = Append(msgs[offset], m)
         /\ \A l \in Lists : l # offset => msgs'[l] = msgs[l]
         /\ offset' = offset
         /\ exit' = exit
         /\ posted' = Append(posted, m)
BY DEF TypeOK, Push

\* The two ways to push.
LEMMA Pushes ==
  ASSUME TypeOK, PushStop \/ \E p \in Producers : PostMsg(p)
  PROVE  /\ \E m \in Msg : Push(m)
         /\ UNCHANGED <<workerVars, alive, thread, joined>>
         /\ owner' = "notify" \/ \E p \in Producers : producer'[p] = "notify"
<1>1. CASE PushStop
  BY <1>1, PushedIsMsg DEF PushStop
<1>2. ASSUME NEW p \in Producers, PostMsg(p)
      PROVE  /\ \E m \in Msg : Push(m)
             /\ UNCHANGED <<workerVars, alive, thread, joined>>
             /\ producer'[p] = "notify"
  BY <1>2, PushedIsMsg DEF PostMsg, ownerVars, TypeOK
<1> QED
  BY <1>1, <1>2

-----------------------------------------------------------------------------
(* The inductive invariant, one lemma per part.                            *)

\* Thread, worker, m_exit and the history flags keep to the life cycle.
LEMMA LifeStep ==
  ASSUME TypeOK, LifeCycle, [Next]_vars
  PROVE  LifeCycle'
<1> USE DEF LifeCycle
<1>1. CASE PushStop \/ \E p \in Producers : PostMsg(p)
  BY <1>1, Pushes, PushLists DEF workerVars
<1>2. CASE \E p \in Producers : PostMsgNotify(p)
  BY <1>2 DEF PostMsgNotify, NotifyAll, ownerVars
<1>3. CASE StartThread
  BY <1>3 DEF StartThread
<1>4. CASE Destroy
  BY <1>4 DEF Destroy, workerVars
<1>5. CASE ExitNotify
  BY <1>5 DEF ExitNotify, NotifyAll
<1>6. CASE ExitJoin
  BY <1>6 DEF ExitJoin, StopThread
<1>7. CASE DtorExit
  BY <1>1, <1>7 DEF DtorExit, workerVars
<1>8. CASE BaseJoin
  BY <1>8 DEF BaseJoin, StopThread
<1>9. CASE ThreadFunc
  <2> USE DEF ownerVars
  <2>1. CASE WorkerCheck
    BY <2>1 DEF WorkerCheck
  <2>2. CASE WorkerWait \/ WorkerTake
    BY <2>2 DEF WorkerWait, WorkerTake
  <2>3. CASE WorkerStop
    BY <2>3 DEF WorkerStop, AtMessage
  <2>4. CASE WorkerHandle
    BY <2>4 DEF WorkerHandle, AtMessage
  <2>5. CASE WorkerClear
    BY <2>5 DEF WorkerClear, AtMessage
  <2>6. CASE WorkerBatchEnd
    BY <2>6 DEF WorkerBatchEnd
  <2> QED
    BY <1>9, <2>1, <2>2, <2>3, <2>4, <2>5, <2>6 DEF ThreadFunc
<1>10. CASE WorkerSpurious
  BY <1>10 DEF WorkerSpurious, ownerVars
<1>11. CASE UNCHANGED vars
  BY <1>11 DEF vars, workerVars, ownerVars
<1> QED
  BY <1>1, <1>2, <1>3, <1>4, <1>5, <1>6, <1>7, <1>8, <1>9, <1>10, <1>11
     DEF Next, ExitThread, OwnerFinish, Terminated

\* The worker's list stays private and its iterator stays inside it.
LEMMA BatchStep ==
  ASSUME TypeOK, BatchIsPrivate, BatchShape, LifeCycle, [Next]_vars
  PROVE  BatchIsPrivate' /\ BatchShape'
<1> USE Flip DEF BatchIsPrivate, BatchShape
<1>0. tmpList \in Lists /\ itr \in Nat \ {0} /\ offset \in Lists
  BY DEF TypeOK
<1>1. CASE PushStop \/ \E p \in Producers : PostMsg(p)
  BY <1>0, <1>1, Pushes, PushLists DEF workerVars
<1>2. CASE \E p \in Producers : PostMsgNotify(p)
  BY <1>2 DEF PostMsgNotify, NotifyAll, lists
<1>3. CASE StartThread
  BY <1>3 DEF StartThread, LifeCycle, lists
<1>4. CASE Destroy
  BY <1>4 DEF Destroy, workerVars, lists
<1>5. CASE ExitNotify
  BY <1>5 DEF ExitNotify, NotifyAll, lists
<1>6. CASE ExitJoin
  BY <1>6 DEF ExitJoin, StopThread, lists
<1>7. CASE DtorExit
  BY <1>1, <1>7 DEF DtorExit, workerVars, lists
<1>8. CASE BaseJoin
  BY <1>8 DEF BaseJoin, StopThread, lists
<1>9. CASE ThreadFunc
  <2>1. CASE WorkerCheck \/ WorkerWait
    BY <2>1 DEF WorkerCheck, WorkerWait, lists
  <2>2. CASE WorkerTake
    BY <1>0, <2>2 DEF WorkerTake, TypeOK
  <2>3. CASE WorkerStop \/ WorkerHandle
    BY <1>0, <2>3 DEF WorkerStop, WorkerHandle, AtMessage, lists
  <2>4. CASE WorkerClear
    BY <1>0, <2>4 DEF WorkerClear, AtMessage
  <2>5. CASE WorkerBatchEnd
    BY <1>0, <2>5 DEF WorkerBatchEnd, TypeOK
  <2> QED
    BY <1>9, <2>1, <2>2, <2>3, <2>4, <2>5 DEF ThreadFunc
<1>10. CASE WorkerSpurious
  BY <1>10 DEF WorkerSpurious, lists
<1>11. CASE UNCHANGED vars
  BY <1>11 DEF vars, workerVars, lists
<1> QED
  BY <1>1, <1>2, <1>3, <1>4, <1>5, <1>6, <1>7, <1>8, <1>9, <1>10, <1>11
     DEF Next, ExitThread, OwnerFinish, Terminated

\* A wakeup is never lost: the waiting worker saw an empty list under the
\* lock, and who fills it afterwards still has to notify.
LEMMA WakeupStep ==
  ASSUME TypeOK, NoLostWakeup, LifeCycle, [Next]_vars
  PROVE  NoLostWakeup'
<1> USE DEF NoLostWakeup
<1>1. CASE PushStop \/ \E p \in Producers : PostMsg(p)
  BY <1>1, Pushes
<1>2. CASE \E p \in Producers : PostMsgNotify(p)
  BY <1>2 DEF PostMsgNotify, NotifyAll
<1>3. CASE StartThread
  BY <1>3 DEF StartThread
<1>4. CASE Destroy
  BY <1>4 DEF Destroy, workerVars, lists, producerVars
<1>5. CASE ExitNotify
  BY <1>5 DEF ExitNotify, NotifyAll
<1>6. CASE ExitJoin
  BY <1>6 DEF ExitJoin, StopThread, lists, producerVars
<1>7. CASE DtorExit
  BY <1>1, <1>7 DEF DtorExit, workerVars, lists, producerVars
<1>8. CASE BaseJoin
  BY <1>8 DEF BaseJoin, StopThread, lists, producerVars
<1>9. CASE ThreadFunc
  BY <1>9 DEF ThreadFunc, WorkerCheck, WorkerWait, WorkerTake, WorkerStop,
     WorkerHandle, WorkerClear, WorkerBatchEnd, AtMessage, lists
<1>10. CASE WorkerSpurious
  BY <1>10 DEF WorkerSpurious
<1>11. CASE UNCHANGED vars
  BY <1>11 DEF vars, workerVars, ownerVars, producerVars, lists
<1> QED
  BY <1>1, <1>2, <1>3, <1>4, <1>5, <1>6, <1>7, <1>8, <1>9, <1>10, <1>11
     DEF Next, ExitThread, OwnerFinish, Terminated

-----------------------------------------------------------------------------
(* Exactly once, in order.                                                 *)

\* Appending at the end of a concatenation.
LEMMA ConcatAppend ==
  ASSUME NEW S, NEW s \in Seq(S), NEW t \in Seq(S), NEW e \in S
  PROVE  s \o Append(t, e) = Append(s \o t, e)
<1>1. s \o t \in Seq(S) /\ <<e>> \in Seq(S)
  BY ConcatProperties
<1>2. s \o (t \o <<e>>) = (s \o t) \o <<e>>
  BY <1>1, ConcatAssociative
<1> QED
  BY <1>1, <1>2, AppendIsConcat

\* What is left of the batch is a sequence of messages.
LEMMA RestType ==
  ASSUME TypeOK
  PROVE  Rest \in Seq(Msg)
<1>1. CASE worker = "batch"
  <2>1. /\ msgs[tmpList] \in Seq(Msg)
        /\ itr \in Nat \ {0}
        /\ Len(msgs[tmpList]) \in Nat
    BY LenProperties DEF TypeOK
  <2>2. \A i \in itr..Len(msgs[tmpList]) : msgs[tmpList][i] \in Msg
    BY <2>1, ElementOfSeq
  <2> QED
    BY <1>1, <2>1, <2>2, SubSeqProperties DEF Rest
<1>2. CASE worker # "batch"
  BY <1>2, EmptySeq DEF Rest
<1> QED
  BY <1>1, <1>2

\* The message dispatched is the first of what is left of the batch.
LEMMA Dispatch ==
  ASSUME TypeOK, NEW k, AtMessage(k)
  PROVE  /\ msgs[tmpList][itr] \in Msg
         /\ itr \in 1..Len(msgs[tmpList])
         /\ SubSeq(msgs[tmpList], itr + 1, Len(msgs[tmpList])) \in Seq(Msg)
         /\ Rest = <<msgs[tmpList][itr]>>
                     \o SubSeq(msgs[tmpList], itr + 1, Len(msgs[tmpList]))
<1>1. /\ msgs[tmpList] \in Seq(Msg)
      /\ Len(msgs[tmpList]) \in Nat
      /\ itr \in 1..Len(msgs[tmpList])
  BY LenProperties DEF TypeOK, AtMessage
<1>2. \A i \in itr + 1..Len(msgs[tmpList]) : msgs[tmpList][i] \in Msg
  BY <1>1, ElementOfSeq
<1>3. SubSeq(msgs[tmpList], itr + 1, Len(msgs[tmpList])) \in Seq(Msg)
  BY <1>1, <1>2, SubSeqProperties
<1>4. Rest = <<msgs[tmpList][itr]>>
               \o SubSeq(msgs[tmpList], itr + 1, Len(msgs[tmpList]))
  <2> DEFINE L == msgs[tmpList]
  <2>1. L \in Seq(Msg) /\ itr \in 1..Len(L) /\ Len(L) \in itr..Len(L)
    BY <1>1
  <2>2. Rest = SubSeq(L, itr, Len(L))
    BY DEF Rest, AtMessage
  <2> HIDE DEF L
  <2>3. SubSeq(L, itr, Len(L)) = <<L[itr]>> \o SubSeq(L, itr + 1, Len(L))
    BY <2>1, SubSeqRecursiveFirst
  <2> QED
    BY <2>2, <2>3 DEF L
<1> QED
  BY <1>1, <1>3, <1>4, ElementOfSeq

\* Moving the first message of the rest to the end of what was handled leaves
\* the concatenation as it is.
LEMMA DispatchConcat ==
  ASSUME NEW S, NEW h \in Seq(S), NEW e \in S, NEW r \in Seq(S),
         NEW q \in Seq(S)
  PROVE  Append(h, e) \o r \o q = h \o (<<e>> \o r) \o q
<1>1. <<e>> \in Seq(S)
  OBVIOUS
<1>2. Append(h, e) = h \o <<e>>
  BY AppendIsConcat
<1> QED
  BY <1>1, <1>2, ConcatAssociative

\* A step that touches neither the lists nor the batch.
LEMMA QuietRest ==
  ASSUME UNCHANGED <<lists, tmpList, itr>>, worker = "batch" <=> worker' = "batch"
  PROVE  Rest' = Rest
BY DEF Rest, lists

\* Every step keeps dispatched, left in the batch and waiting together equal
\* to what was posted: a push appends to both sides, a dispatch and the flip
\* move a message or a list within the left side.
LEMMA FifoStep ==
  ASSUME TypeOK, BatchIsPrivate, BatchShape, LifeCycle, FifoExactlyOnce,
         [Next]_vars
  PROVE  FifoExactlyOnce'
<1> USE DEF FifoExactlyOnce
<1>0. /\ handled \in Seq(Msg)
      /\ msgs \in [Lists -> Seq(Msg)]
      /\ offset \in Lists
      /\ tmpList \in Lists
      /\ Rest \in Seq(Msg)
      /\ itr \in Nat \ {0}
  BY RestType DEF TypeOK
<1>1. CASE PushStop \/ \E p \in Producers : PostMsg(p)
  <2> SUFFICES ASSUME worker' # "undefined"
               PROVE  handled' \o Rest' \o msgs'[offset'] = posted'
    OBVIOUS
  <2>1. PICK m \in Msg : Push(m)
    BY <1>1, Pushes
  <2>2. UNCHANGED <<worker, tmpList, itr, handled>>
    BY <1>1, Pushes DEF workerVars
  <2>3. /\ msgs'[offset'] = Append(msgs[offset], m)
        /\ posted' = Append(posted, m)
        /\ worker = "batch" => msgs'[tmpList] = msgs[tmpList]
    BY <1>0, <2>1, PushLists DEF BatchIsPrivate
  <2>4. Rest' = Rest
    BY <2>2, <2>3 DEF Rest
  <2> DEFINE s == handled \o Rest
             q == msgs[offset]
  <2>5. s \in Seq(Msg) /\ q \in Seq(Msg)
    BY <1>0, ConcatProperties
  <2>6. s \o q = posted
    BY <2>2
  <2> HIDE DEF s, q
  <2>7. s \o Append(q, m) = Append(s \o q, m)
    BY <2>5, ConcatAppend
  <2>8. s \o Append(q, m) = posted'
    BY <2>3, <2>6, <2>7
  <2> QED
    BY <2>2, <2>3, <2>4, <2>8 DEF s, q
<1>2. CASE \E p \in Producers : PostMsgNotify(p)
  BY <1>2, QuietRest DEF PostMsgNotify, NotifyAll, lists
<1>3. CASE StartThread
  BY <1>3, QuietRest DEF StartThread, LifeCycle, lists
<1>4. CASE Destroy
  BY <1>4, QuietRest DEF Destroy, workerVars, lists
<1>5. CASE ExitNotify
  BY <1>5, QuietRest DEF ExitNotify, NotifyAll, lists
<1>6. CASE ExitJoin
  BY <1>6, QuietRest DEF ExitJoin, StopThread, lists
<1>7. CASE DtorExit
  BY <1>1, <1>7, QuietRest DEF DtorExit, workerVars, lists
<1>8. CASE BaseJoin
  BY <1>8, QuietRest DEF BaseJoin, StopThread, lists
<1>9. CASE ThreadFunc
  <2>1. CASE WorkerCheck \/ WorkerWait
    BY <2>1, QuietRest DEF WorkerCheck, WorkerWait, lists
  <2>2. CASE WorkerTake
    <3>1. /\ Rest = <<>>
          /\ worker # "undefined"
          /\ msgs'[offset'] = <<>>
      BY <1>0, <2>2, Flip DEF WorkerTake, BatchShape, Rest
    <3>2. Rest' = msgs[offset]
      BY <1>0, <2>2, SubSeqFull DEF WorkerTake, Rest
    <3>3. handled \o msgs[offset] \in Seq(Msg)
      BY <1>0, ConcatProperties
    <3>4. /\ handled \o <<>> = handled
          /\ (handled \o msgs[offset]) \o <<>> = handled \o msgs[offset]
      BY <1>0, <3>3, ConcatEmptySeq
    <3> QED
      BY <2>2, <3>1, <3>2, <3>4 DEF WorkerTake
  <2>3. CASE WorkerStop \/ WorkerHandle
    <3>1. PICK k : AtMessage(k)
      BY <2>3 DEF WorkerStop, WorkerHandle
    <3>2. /\ UNCHANGED <<lists, worker, tmpList, posted>>
          /\ itr' = itr + 1
      BY <2>3 DEF WorkerStop, WorkerHandle
    <3> DEFINE e == msgs[tmpList][itr]
               r == SubSeq(msgs[tmpList], itr + 1, Len(msgs[tmpList]))
               q == msgs[offset]
    <3>3. Rest' = r /\ Rest = <<e>> \o r /\ handled' = Append(handled, e)
      BY <3>1, <3>2, Dispatch DEF Rest, AtMessage, lists
    <3>4. /\ e \in Msg /\ r \in Seq(Msg)
          /\ handled \in Seq(Msg) /\ q \in Seq(Msg)
      BY <1>0, <3>1, Dispatch
    <3>5. q' = q
      BY <3>2 DEF lists
    <3> HIDE DEF e, r, q
    <3>6. Append(handled, e) \o r \o q = handled \o (<<e>> \o r) \o q
      BY <3>4, DispatchConcat
    <3> QED
      BY <3>1, <3>2, <3>3, <3>5, <3>6 DEF AtMessage, q
  <2>4. CASE WorkerClear
    BY <2>4 DEF WorkerClear
  <2>5. CASE WorkerBatchEnd
    <3>1. Rest = <<>>
      BY <1>0, <2>5, SubSeqEmpty, LenProperties DEF WorkerBatchEnd, Rest
    <3>2. Rest' = <<>>
      BY <2>5 DEF WorkerBatchEnd, Rest
    <3>3. msgs'[offset'] = msgs[offset]
      BY <1>0, <2>5 DEF WorkerBatchEnd, BatchIsPrivate
    <3> QED
      BY <2>5, <3>1, <3>2, <3>3 DEF WorkerBatchEnd
  <2> QED
    BY <1>9, <2>1, <2>2, <2>3, <2>4, <2>5 DEF ThreadFunc
<1>10. CASE WorkerSpurious
  BY <1>10, QuietRest DEF WorkerSpurious, lists
<1>11. CASE UNCHANGED vars
  BY <1>11, QuietRest DEF vars, workerVars, lists
<1> QED
  BY <1>1, <1>2, <1>3, <1>4, <1>5, <1>6, <1>7, <1>8, <1>9, <1>10, <1>11
     DEF Next, ExitThread, OwnerFinish, Terminated

-----------------------------------------------------------------------------
(* What a stop promises.                                                   *)

\* What was dispatched is a prefix of what was posted.
HandledPrefix ==
  /\ Len(handled) <= Len(posted)
  /\ \A j \in 1..Len(handled) : handled[j] = posted[j]

\* As long as no CLEAR was dispatched, what was dispatched is a prefix of what
\* was posted.
LEMMA HandledIsPrefix ==
  TypeOK /\ FifoExactlyOnce /\ worker # "undefined" => HandledPrefix
<1> SUFFICES ASSUME TypeOK, FifoExactlyOnce, worker # "undefined"
             PROVE  HandledPrefix
  OBVIOUS
<1> DEFINE q == msgs[offset]
<1>1. handled \in Seq(Msg) /\ Rest \in Seq(Msg) /\ q \in Seq(Msg)
  BY RestType DEF TypeOK
<1>2. (handled \o Rest) \o q = posted
  BY DEF FifoExactlyOnce
<1> HIDE DEF q
<1>3. /\ handled \o Rest \in Seq(Msg)
      /\ Len(handled \o Rest) = Len(handled) + Len(Rest)
      /\ \A j \in 1..Len(handled) : (handled \o Rest)[j] = handled[j]
  BY <1>1, ConcatProperties, LenProperties
<1> DEFINE s == handled \o Rest
<1>4. s \in Seq(Msg) /\ s \o q = posted
  BY <1>2, <1>3
<1> HIDE DEF s
<1>5. /\ Len(posted) = Len(s) + Len(q)
      /\ \A j \in 1..Len(s) : posted[j] = s[j]
  BY <1>1, <1>4, ConcatProperties, LenProperties
<1>6. Len(handled) \in Nat /\ Len(Rest) \in Nat /\ Len(q) \in Nat
  BY <1>1, LenProperties
<1> QED
  BY <1>3, <1>5, <1>6 DEF s, HandledPrefix

\* A dispatch and a push only append to the two histories.
LEMMA Histories ==
  ASSUME TypeOK, [Next]_vars
  PROVE  /\ \/ handled' = handled
            \/ \E e \in Msg : handled' = Append(handled, e)
         /\ \/ posted' = posted
            \/ \E e \in Msg : posted' = Append(posted, e)
<1>1. CASE PushStop \/ \E p \in Producers : PostMsg(p)
  BY <1>1, Pushes, PushLists DEF workerVars
<1>2. CASE \E p \in Producers : PostMsgNotify(p)
  BY <1>2 DEF PostMsgNotify, NotifyAll
<1>3. CASE StartThread \/ Destroy \/ ExitNotify \/ ExitJoin \/ BaseJoin
  BY <1>3 DEF StartThread, Destroy, ExitNotify, NotifyAll, ExitJoin, BaseJoin,
     StopThread, workerVars
<1>4. CASE DtorExit
  BY <1>1, <1>4 DEF DtorExit, workerVars
<1>5. CASE ThreadFunc
  <2>1. ASSUME NEW k, AtMessage(k)
        PROVE  \E e \in Msg : handled' = Append(handled, e)
    BY <2>1, Dispatch DEF AtMessage
  <2> QED
    BY <1>5, <2>1 DEF ThreadFunc, WorkerCheck, WorkerWait, WorkerTake,
       WorkerStop, WorkerHandle, WorkerClear, WorkerBatchEnd
<1>6. CASE WorkerSpurious
  BY <1>6 DEF WorkerSpurious
<1>7. CASE UNCHANGED vars
  BY <1>7 DEF vars, workerVars
<1> QED
  BY <1>1, <1>2, <1>3, <1>4, <1>5, <1>6, <1>7
     DEF Next, ExitThread, OwnerFinish, Terminated

\* Only the dispatch of a STOP sets m_exit.
LEMMA ExitSet ==
  ASSUME TypeOK, [Next]_vars
  PROVE  exit' = exit \/ WorkerStop
<1>1. CASE PushStop \/ \E p \in Producers : PostMsg(p)
  BY <1>1, Pushes, PushLists
<1>2. CASE \E p \in Producers : PostMsgNotify(p)
  BY <1>2 DEF PostMsgNotify, NotifyAll
<1>3. CASE StartThread \/ Destroy \/ ExitNotify \/ ExitJoin \/ BaseJoin
  BY <1>3 DEF StartThread, Destroy, ExitNotify, NotifyAll, ExitJoin, BaseJoin,
     StopThread
<1>4. CASE DtorExit
  BY <1>1, <1>4 DEF DtorExit
<1>5. CASE ThreadFunc
  BY <1>5 DEF ThreadFunc, WorkerCheck, WorkerWait, WorkerTake, WorkerHandle,
     WorkerClear, WorkerBatchEnd
<1>6. CASE WorkerSpurious \/ UNCHANGED vars
  BY <1>6 DEF WorkerSpurious, vars
<1> QED
  BY <1>1, <1>2, <1>3, <1>4, <1>5, <1>6
     DEF Next, ExitThread, OwnerFinish, Terminated

\* m_exit keeps having a dispatched STOP behind it, and the messages before
\* that STOP stay those posted before it.
LEMMA StopStep ==
  ASSUME TypeOK, StopDrains, TypeOK', FifoExactlyOnce', [Next]_vars
  PROVE  StopDrains'
<1>1. CASE WorkerStop
  <2>1. worker' # "undefined"
    BY <1>1 DEF WorkerStop, AtMessage
  <2>0. (TypeOK /\ FifoExactlyOnce /\ worker # "undefined" => HandledPrefix)'
    BY HandledIsPrefix, PTL
  <2>2. HandledPrefix'
    BY <2>0, <2>1
  <2> DEFINE e == msgs[tmpList][itr]
  <2>3. e \in Msg /\ e.kind = "STOP" /\ handled' = Append(handled, e)
    BY <1>1, Dispatch DEF WorkerStop, AtMessage
  <2> HIDE DEF e
  <2>4. /\ Len(handled') = Len(handled) + 1
        /\ handled'[Len(handled) + 1] = e
        /\ Len(handled) \in Nat
    BY <2>3, AppendProperties, LenProperties DEF TypeOK
  <2> QED
    BY <2>2, <2>3, <2>4 DEF StopDrains, HandledPrefix
<1>2. CASE exit' = exit
  <2> SUFFICES ASSUME exit PROVE StopDrains'
    BY <1>2 DEF StopDrains
  <2>1. PICK i \in 1..Len(handled) :
          /\ i <= Len(posted)
          /\ handled[i].kind = "STOP"
          /\ \A j \in 1..i : handled[j] = posted[j]
    BY DEF StopDrains
  <2>2. /\ handled \in Seq(Msg) /\ posted \in Seq(Msg)
        /\ Len(handled) \in Nat /\ Len(posted) \in Nat
    BY LenProperties DEF TypeOK
  <2>3. /\ Len(handled') >= Len(handled)
        /\ \A j \in 1..Len(handled) : handled'[j] = handled[j]
    BY SMTT(30), <2>2, Histories, AppendProperties
  <2>4. /\ Len(posted') >= Len(posted)
        /\ \A j \in 1..Len(posted) : posted'[j] = posted[j]
    BY <2>2, Histories, AppendProperties
  <2>5. /\ i \in 1..Len(handled') /\ i <= Len(posted')
        /\ handled'[i].kind = "STOP"
    BY <2>1, <2>2, <2>3, <2>4
  <2>6. \A j \in 1..i : handled'[j] = posted'[j]
    BY <2>1, <2>2, <2>3, <2>4
  <2> QED
    BY <2>5, <2>6 DEF StopDrains
<1> QED
  BY <1>1, <1>2, ExitSet

\* Once ExitThread has joined, no worker reaches a message again, so the
\* destructor that follows cannot orphan one.
LEMMA OrphanStep ==
  ASSUME TypeOK, LifeCycle, NoOrphanAfterExit, [Next]_vars
  PROVE  NoOrphanAfterExit'
<1> USE DEF NoOrphanAfterExit
<1>1. CASE PushStop \/ \E p \in Producers : PostMsg(p)
  BY <1>1, Pushes DEF workerVars
<1>2. CASE \E p \in Producers : PostMsgNotify(p)
  BY <1>2 DEF PostMsgNotify, NotifyAll, ownerVars
<1>3. CASE StartThread \/ Destroy \/ ExitNotify \/ BaseJoin
  BY <1>3 DEF StartThread, Destroy, ExitNotify, NotifyAll, BaseJoin,
     StopThread, workerVars
<1>4. CASE ExitJoin
  BY <1>4 DEF ExitJoin, StopThread, LifeCycle
<1>5. CASE DtorExit
  BY <1>1, <1>5 DEF DtorExit, workerVars
<1>6. CASE ThreadFunc
  BY <1>6 DEF ThreadFunc, WorkerCheck, WorkerWait, WorkerTake, WorkerStop,
     WorkerHandle, WorkerClear, WorkerBatchEnd, AtMessage, ownerVars, LifeCycle
<1>7. CASE WorkerSpurious \/ UNCHANGED vars
  BY <1>7 DEF WorkerSpurious, vars, workerVars, ownerVars
<1> QED
  BY <1>1, <1>2, <1>3, <1>4, <1>5, <1>6, <1>7
     DEF Next, ExitThread, OwnerFinish, Terminated

-----------------------------------------------------------------------------
\* The inductive invariant holds in every reachable state.
THEOREM Invariance == Spec => []IInv
<1>1. Init => IInv
  <2> SUFFICES ASSUME Init PROVE IInv
    OBVIOUS
  <2>1. TypeOK
    BY TypeCorrectInit
  <2>2. FifoExactlyOnce
    <3>1. /\ handled = <<>> /\ Rest = <<>> /\ posted = <<>>
          /\ msgs[offset] = <<>>
      BY DEF Init, Rest, Lists
    <3>2. <<>> \o <<>> \o <<>> = <<>>
      BY ConcatEmptySeq, EmptySeq
    <3> QED
      BY <3>1, <3>2 DEF FifoExactlyOnce
  <2>3. BatchShape
    BY DEF Init, BatchShape, Lists
  <2> QED
    BY <2>1, <2>2, <2>3 DEF Init, IInv, BatchIsPrivate, LifeCycle,
       NoLostWakeup, StopDrains, NoOrphanAfterExit
<1>2. IInv /\ [Next]_vars => IInv'
  <2> SUFFICES ASSUME IInv, [Next]_vars PROVE IInv'
    OBVIOUS
  <2>1. TypeOK'
    BY TypeCorrectStep DEF IInv
  <2>2. FifoExactlyOnce'
    BY FifoStep DEF IInv
  <2> QED
    BY <2>1, <2>2, BatchStep, LifeStep, WakeupStep, StopStep, OrphanStep
       DEF IInv
<1> QED
  BY <1>1, <1>2, PTL DEF Spec

\* Exactly once and in the order of the lock, for every producer set.
THEOREM Fifo == Spec => []FifoExactlyOnce
<1>1. IInv => FifoExactlyOnce
  BY DEF IInv
<1> QED
  BY <1>1, Invariance, PTL

\* The worker's unlocked list is never the one the producers push to.
THEOREM NoRace == Spec => []BatchIsPrivate
<1>1. IInv => BatchIsPrivate
  BY DEF IInv
<1> QED
  BY <1>1, Invariance, PTL

\* The wait without a predicate loses no wakeup.
THEOREM Wakeup == Spec => []NoLostWakeup
<1>1. IInv => NoLostWakeup
  BY DEF IInv
<1> QED
  BY <1>1, Invariance, PTL

\* A stop comes after everything posted before it.
THEOREM Drains == Spec => []StopDrains
<1>1. IInv => StopDrains
  BY DEF IInv
<1> QED
  BY <1>1, Invariance, PTL

\* Exit before delete keeps the half destroyed object silent.
THEOREM NoOrphan == Spec => []NoOrphanAfterExit
<1>1. IInv => NoOrphanAfterExit
  BY DEF IInv
<1> QED
  BY <1>1, Invariance, PTL

\* After a joined stop no step dispatches a message.
THEOREM Final == Spec => ExitIsFinal
<1>1. IInv /\ [Next]_vars => [joined => handled' = handled]_vars
  <2> SUFFICES ASSUME IInv, [Next]_vars, joined PROVE handled' = handled
    OBVIOUS
  <2>1. worker # "batch"
    BY DEF IInv, LifeCycle
  <2>2. CASE PushStop \/ \E p \in Producers : PostMsg(p)
    BY <2>2, Pushes DEF workerVars, IInv
  <2> QED
    BY <2>1, <2>2 DEF Next, ExitThread, OwnerFinish, Terminated, PostMsgNotify,
       NotifyAll, StartThread, Destroy, ExitNotify, ExitJoin, DtorExit,
       BaseJoin, StopThread, ThreadFunc, WorkerCheck, WorkerWait, WorkerTake,
       WorkerStop, WorkerHandle, WorkerClear, WorkerBatchEnd, AtMessage,
       WorkerSpurious, vars, workerVars
<1> QED
  BY <1>1, Invariance, PTL DEF Spec, ExitIsFinal

-----------------------------------------------------------------------------
(* The two lists implement one queue.                                      *)

\* The queue a dispatch leaves.
LEMMA HeadTailConcat ==
  ASSUME NEW S, NEW e \in S, NEW r \in Seq(S), NEW q \in Seq(S)
  PROVE  /\ (<<e>> \o r) \o q # <<>>
         /\ Head((<<e>> \o r) \o q) = e
         /\ Tail((<<e>> \o r) \o q) = r \o q
<1> DEFINE t == r \o q
<1>1. <<e>> \in Seq(S) /\ t \in Seq(S)
  BY ConcatProperties
<1>2. (<<e>> \o r) \o q = <<e>> \o t
  BY <1>1, ConcatAssociative
<1> HIDE DEF t
<1>3. /\ <<e>> \o t \in Seq(S)
      /\ Len(<<e>> \o t) = Len(t) + 1
      /\ (<<e>> \o t)[1] = e
      /\ \A i \in 1..Len(t) : (<<e>> \o t)[i + 1] = t[i]
      /\ Len(t) \in Nat
  BY <1>1, ConcatProperties, LenProperties
<1>4. <<e>> \o t # <<>>
  BY <1>3, EmptySeq
<1>5. Tail(<<e>> \o t) \in Seq(S) /\ Len(Tail(<<e>> \o t)) = Len(t)
  BY <1>3, <1>4, HeadTailProperties
<1>6. \A i \in 1..Len(t) : Tail(<<e>> \o t)[i] = t[i]
  BY <1>3, <1>4, <1>5, HeadTailProperties
<1>7. Tail(<<e>> \o t) = t
  BY <1>1, <1>5, <1>6, SeqEqual
<1>8. Head(<<e>> \o t) = e
  BY <1>3
<1> QED
  BY <1>2, <1>4, <1>7, <1>8 DEF t

\* A push accepts one message at the end of the queue.
LEMMA PushIsPost ==
  ASSUME IInv, PushStop \/ \E p \in Producers : PostMsg(p)
  PROVE  \E m \in Msg : MB!Post(m)
<1>0. /\ TypeOK /\ BatchIsPrivate
      /\ Rest \in Seq(Msg) /\ msgs[offset] \in Seq(Msg) /\ tmpList \in Lists
  BY RestType DEF IInv, TypeOK
<1>1. PICK m \in Msg : Push(m)
  BY <1>0, Pushes
<1>2. UNCHANGED <<worker, tmpList, itr, handled>>
  BY <1>0, Pushes DEF workerVars
<1>3. /\ msgs'[offset'] = Append(msgs[offset], m)
      /\ exit' = exit
      /\ worker = "batch" => msgs'[tmpList] = msgs[tmpList]
  BY <1>0, <1>1, PushLists DEF BatchIsPrivate
<1>4. Rest' = Rest
  BY <1>2, <1>3 DEF Rest
<1> DEFINE q == msgs[offset]
<1>5. q \in Seq(Msg)
  BY <1>0
<1> HIDE DEF q
<1>6. Rest \o Append(q, m) = Append(Rest \o q, m)
  BY <1>0, <1>5, ConcatAppend
<1>7. Queue' = Append(Queue, m)
  BY <1>3, <1>4, <1>6 DEF Queue, q
<1>8. State' = State
  BY <1>2, <1>3 DEF State
<1> QED
  BY <1>2, <1>7, <1>8 DEF MB!Post

\* A step that touches neither the lists nor the batch is a stutter.
LEMMA QuietQueue ==
  ASSUME UNCHANGED <<lists, tmpList, itr, handled>>,
         worker = "batch" <=> worker' = "batch",
         State' = State
  PROVE  UNCHANGED <<Queue, handled, State>>
BY QuietRest DEF Queue, lists

\* A dispatch serves the oldest message.
LEMMA DispatchIsServe ==
  ASSUME IInv, WorkerStop \/ WorkerHandle \/ WorkerClear
  PROVE  MB!Serve
<1>1. PICK k \in {"STOP", "work", "CLEAR"} : AtMessage(k)
  BY DEF WorkerStop, WorkerHandle, WorkerClear
<1> DEFINE e == msgs[tmpList][itr]
           r == SubSeq(msgs[tmpList], itr + 1, Len(msgs[tmpList]))
           q == msgs[offset]
<1>2. /\ e \in Msg /\ r \in Seq(Msg) /\ q \in Seq(Msg)
      /\ Queue = (<<e>> \o r) \o q
  BY <1>1, Dispatch DEF IInv, TypeOK, Queue
<1>3. worker = "batch" /\ e.kind = k /\ handled' = Append(handled, e)
  BY <1>1 DEF AtMessage
<1>4. State # "halted"
  BY <1>3 DEF State
<1>5. WorkerStop \/ WorkerHandle => Queue' = r \o q
  BY <1>3 DEF WorkerStop, WorkerHandle, Queue, Rest, lists
<1>6. WorkerClear => Queue' = <<>> /\ State' = "halted" /\ e.kind = "CLEAR"
  <2> SUFFICES ASSUME WorkerClear
               PROVE  Queue' = <<>> /\ State' = "halted" /\ e.kind = "CLEAR"
    OBVIOUS
  <2>1. Rest' = <<>> /\ msgs'[offset'] = <<>>
    BY DEF WorkerClear, Rest, IInv, TypeOK
  <2>2. <<>> \o <<>> = <<>>
    BY ConcatEmptySeq, EmptySeq
  <2> QED
    BY <2>1, <2>2 DEF WorkerClear, AtMessage, Queue, State
<1>7. WorkerStop => State' = "stopping" /\ e.kind = "STOP"
  BY <1>3 DEF WorkerStop, AtMessage, State
<1>8. WorkerHandle => State' = State /\ e.kind = "work"
  BY <1>3 DEF WorkerHandle, AtMessage, State
<1> HIDE DEF e, r, q
<1>9. Queue # <<>> /\ Head(Queue) = e /\ Tail(Queue) = r \o q
  BY SMTT(30), <1>2, HeadTailConcat
<1> QED
  BY <1>3, <1>4, <1>5, <1>6, <1>7, <1>8, <1>9 DEF MB!Serve

\* Every step of the thread is a step of the mailbox or a stutter.
LEMMA MailboxStep ==
  ASSUME IInv, [Next]_vars
  PROVE  [MB!Next]_<<Queue, handled, State>>
<1>0. /\ TypeOK /\ BatchIsPrivate /\ BatchShape /\ LifeCycle
      /\ Rest \in Seq(Msg)
      /\ msgs \in [Lists -> Seq(Msg)] /\ offset \in Lists /\ tmpList \in Lists
      /\ itr \in Nat \ {0}
  BY RestType DEF IInv, TypeOK
<1>1. CASE PushStop \/ \E p \in Producers : PostMsg(p)
  BY <1>1, PushIsPost DEF MB!Next
<1>2. CASE \E p \in Producers : PostMsgNotify(p)
  BY <1>2, QuietQueue DEF PostMsgNotify, NotifyAll, lists, State
<1>3. CASE StartThread
  BY <1>0, <1>3, QuietQueue DEF StartThread, LifeCycle, lists, State
<1>4. CASE Destroy
  BY <1>4, QuietQueue DEF Destroy, workerVars, lists, State
<1>5. CASE ExitNotify
  BY <1>5, QuietQueue DEF ExitNotify, NotifyAll, lists, State
<1>6. CASE ExitJoin
  BY <1>6, QuietQueue DEF ExitJoin, StopThread, lists, State
<1>7. CASE DtorExit
  BY <1>1, <1>7, QuietQueue DEF DtorExit, workerVars, lists, State
<1>8. CASE BaseJoin
  BY <1>8, QuietQueue DEF BaseJoin, StopThread, lists, State
<1>9. CASE ThreadFunc
  <2>1. CASE WorkerCheck \/ WorkerWait
    BY <2>1, QuietQueue DEF WorkerCheck, WorkerWait, lists, State
  <2>2. CASE WorkerTake
    <3>1. Rest = <<>> /\ msgs'[offset'] = <<>>
      BY <1>0, <2>2, Flip DEF WorkerTake, BatchShape, Rest
    <3>2. Rest' = msgs[offset]
      BY <1>0, <2>2, SubSeqFull DEF WorkerTake, Rest
    <3>3. Queue = msgs[offset] /\ Queue' = msgs[offset]
      BY <1>0, <3>1, <3>2, ConcatEmptySeq DEF Queue
    <3>4. State = "open" /\ State' = "open"
      BY <1>0, <2>2 DEF WorkerTake, LifeCycle, State
    <3> QED
      BY <2>2, <3>3, <3>4 DEF WorkerTake
  <2>3. CASE WorkerStop \/ WorkerHandle \/ WorkerClear
    BY <2>3, DispatchIsServe DEF MB!Next
  <2>4. CASE WorkerBatchEnd
    <3>1. Rest = <<>>
      BY <1>0, <2>4, SubSeqEmpty, LenProperties DEF WorkerBatchEnd, Rest
    <3>2. Rest' = <<>> /\ msgs'[offset'] = msgs[offset]
      BY <1>0, <2>4 DEF WorkerBatchEnd, BatchIsPrivate, Rest
    <3>3. Queue' = Queue /\ handled' = handled
      BY <2>4, <3>1, <3>2 DEF Queue, WorkerBatchEnd
    <3>4. CASE exit
      BY <2>4, <3>3, <3>4 DEF WorkerBatchEnd, State, MB!Halt, MB!Next
    <3>5. CASE ~exit
      BY <2>4, <3>3, <3>5 DEF WorkerBatchEnd, State
    <3> QED
      BY <3>4, <3>5
  <2> QED
    BY <1>9, <2>1, <2>2, <2>3, <2>4 DEF ThreadFunc
<1>10. CASE WorkerSpurious
  BY <1>10, QuietQueue DEF WorkerSpurious, lists, State
<1>11. CASE UNCHANGED vars
  BY <1>11, QuietQueue DEF vars, workerVars, lists, State
<1> QED
  BY <1>1, <1>2, <1>3, <1>4, <1>5, <1>6, <1>7, <1>8, <1>9, <1>10, <1>11
     DEF Next, ExitThread, OwnerFinish, Terminated

\* The message thread implements the mailbox.
THEOREM Refinement == Spec => IsMailbox
<1>1. Init => MB!Init
  <2> SUFFICES ASSUME Init PROVE MB!Init
    OBVIOUS
  <2>1. Rest = <<>> /\ msgs[offset] = <<>>
    BY DEF Init, Rest, Lists
  <2>2. <<>> \o <<>> = <<>>
    BY ConcatEmptySeq, EmptySeq
  <2>3. Queue = <<>> /\ State = "open"
    BY <2>1, <2>2 DEF Queue, State, Init
  <2> QED
    BY <2>3 DEF MB!Init, Init
<1>2. IInv /\ [Next]_vars => [MB!Next]_<<Queue, handled, State>>
  BY MailboxStep
<1> QED
  BY <1>1, <1>2, Invariance, PTL DEF Spec, IsMailbox, MB!Spec, MB!vars
=============================================================================
