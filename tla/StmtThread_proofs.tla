--------------------------- MODULE StmtThread_proofs --------------------------
(***************************************************************************)
(* Proofs about StmtThread, for any statements, messages and outcomes.     *)
(* AnswersRouted needs the queue only.  StmtFaithful follows a request     *)
(* through the code: what Unpack takes out of the message is what the      *)
(* client packed, as long as every string is still in the memory that was  *)
(* bound; what the fetch and GetResultsToBuffer write is one node for each *)
(* row; and FormatFrom and the iterator of the client find these nodes.    *)
(* The loops of the code are recursive functions of the model, so each is  *)
(* shown to exist and to step once, and then followed by induction.        *)
(***************************************************************************)
EXTENDS StmtThread, BufferLemmas

-----------------------------------------------------------------------------
(* Which request a response answers.                                        *)

Done == Len(asked) - Len(stmtInbox)        \* how many messages were taken

\* The queue is the end of what was asked.
QueueInv ==
  /\ asked \in Seq(StmtMessages) /\ stmtInbox \in Seq(StmtMessages)
  /\ Len(stmtInbox) <= Len(asked)
  /\ \A i \in 1..Len(stmtInbox) : stmtInbox[i] = asked[Done + i]

\* The books of the proof, and that nobody asks before the statements are
\* loaded, so that none is added to the map under a request.
BooksInv ==
  /\ \E S : served \in Seq(S)
  /\ Len(served) = Len(asked)
  /\ \E S : answers \in Seq(S)
  /\ stmtPhase = "load" => Len(asked) = 0

\* a answers a request that was taken and executed.
Fits(a) ==
  /\ a.n \in 1..Done
  /\ Request(a.n) /\ served[a.n].ok
  /\ a.client = asked[a.n].client /\ a.id = asked[a.n].id
  /\ asked[a.n].data # <<>> => a.param = Last(asked[a.n].data)

RoutedInv ==
  /\ \A k \in 1..Len(answers) : Fits(answers[k])
  /\ \A k \in 1..Len(answers) : \A j \in 1..(k - 1) : answers[j].n < answers[k].n

StmtInv == QueueInv /\ BooksInv /\ RoutedInv

LEMMA StmtInitially == StmtInit => StmtInv
<1> SUFFICES ASSUME StmtInit PROVE StmtInv
  OBVIOUS
<1>1. asked = <<>> /\ stmtInbox = <<>> /\ served = <<>> /\ answers = <<>>
  BY DEF StmtInit
<1>2. \E S : <<>> \in Seq(S)
  OBVIOUS
<1>3. QueueInv
  BY <1>1 DEF QueueInv
<1>4. BooksInv
  BY <1>1, <1>2 DEF BooksInv
<1>5. RoutedInv
  BY <1>1 DEF RoutedInv
<1> QED
  BY <1>3, <1>4, <1>5 DEF StmtInv

\* The lengths are numbers.
LEMMA StmtLengths ==
  ASSUME StmtInv
  PROVE  /\ Len(asked) \in Nat /\ Len(stmtInbox) \in Nat /\ Done \in Nat
         /\ Len(served) = Len(asked) /\ Len(answers) \in Nat
<1>1. Len(asked) \in Nat /\ Len(stmtInbox) \in Nat /\ Len(stmtInbox) <= Len(asked)
  BY LenProperties DEF StmtInv, QueueInv
<1>2. Done \in Nat
  <2> DEFINE a == Len(asked)
             b == Len(stmtInbox)
  <2> HIDE DEF a, b
  <2>1. a \in Nat /\ b \in Nat /\ b <= a
    BY <1>1 DEF a, b
  <2>2. a - b \in Nat
    BY ONLY <2>1
  <2> QED
    BY <2>2 DEF Done, a, b
<1>3. Len(answers) \in Nat /\ Len(served) = Len(asked)
  BY LenProperties DEF StmtInv, BooksInv
<1> QED
  BY <1>1, <1>2, <1>3

\* The message at hand is the one asked for next.
LEMMA MessageAtHand ==
  ASSUME StmtInv, StmtTake
  PROVE  /\ Current = Done + 1 /\ Current \in 1..Len(asked)
         /\ Head(stmtInbox) = asked[Current]
         /\ Done' = Done + 1
         /\ QueueInv'
<1> DEFINE a == Len(asked)
           b == Len(stmtInbox)
           q == stmtInbox
<1>1. /\ stmtInbox # <<>> /\ stmtInbox' = Tail(stmtInbox)
      /\ UNCHANGED <<stmtPhase, stmtMap, asked>>
  BY DEF StmtTake
<1>2. a \in Nat /\ b \in Nat /\ b <= a /\ Done = a - b /\ Done \in Nat
  BY StmtLengths DEF StmtInv, QueueInv, Done
<1>3. q \in Seq(StmtMessages) /\ asked \in Seq(StmtMessages)
  BY DEF StmtInv, QueueInv
<1>4. /\ Tail(q) \in Seq(StmtMessages) /\ Len(Tail(q)) = b - 1 /\ b >= 1
      /\ \A i \in 1..(b - 1) : Tail(q)[i] = q[i + 1]
      /\ Head(q) = q[1]
  BY <1>1, <1>3, <1>2, HeadTailProperties
<1>5. \A i \in 1..b : q[i] = asked[Done + i]
  BY DEF StmtInv, QueueInv
<1>6. Current = (a - b) + 1
  BY DEF Current
<1>7. Len(stmtInbox') = b - 1 /\ Len(asked') = a /\ Done' = a - (b - 1)
  BY <1>1, <1>4 DEF Done
<1> HIDE DEF a, b
<1>8. /\ Current = Done + 1 /\ Current \in 1..a /\ Done' = Done + 1 /\ b - 1 <= a
      /\ 1 \in 1..b
      /\ \A i \in 1..(b - 1) : i + 1 \in 1..b /\ Done' + i = Done + (i + 1)
  <2>1. a \in Nat /\ b \in Nat /\ b <= a /\ b >= 1 /\ Done = a - b
    BY <1>2, <1>4
  <2>2. Current = Done + 1 /\ Current \in 1..a /\ b - 1 <= a /\ 1 \in 1..b
    BY ONLY <2>1, <1>6
  <2>3. Done' = Done + 1
    BY ONLY <2>1, <1>7
  <2>4. \A i \in 1..(b - 1) : i + 1 \in 1..b /\ (a - b) + 1 + i = (a - b) + (i + 1)
    BY ONLY <2>1
  <2> QED
    BY <2>1, <2>2, <2>3, <2>4
<1>9. Head(q) = asked[Current]
  BY <1>4, <1>5, <1>8
<1>10. \A i \in 1..(b - 1) : Tail(q)[i] = asked[Done' + i]
  BY <1>4, <1>5, <1>8
<1>11. QueueInv'
  BY <1>1, <1>3, <1>4, <1>7, <1>8, <1>10 DEF QueueInv, a
<1> QED
  BY <1>8, <1>9, <1>11 DEF a

\* What a message may do to the books: its own entry is written, and a
\* response to it is sent or none.
Entered ==
  /\ \E S : served' \in Seq(S)
  /\ Len(served') = Len(served)
  /\ \A i \in 1..Len(served) : i # Current => served'[i] = served[i]

AnswersThis(a) ==
  LET m == Head(stmtInbox)
  IN  /\ m.op = "net" /\ Serves(m.id) /\ served'[Current].ok
      /\ a.n = Current /\ a.client = m.client /\ a.id = m.id
      /\ m.data # <<>> => a.param = Last(m.data)

LEMMA TakeKeeps ==
  ASSUME StmtInv, StmtTake, Entered,
         answers' = answers \/ \E a : answers' = Append(answers, a) /\ AnswersThis(a)
  PROVE  StmtInv'
<1>1. UNCHANGED <<stmtPhase, stmtMap, asked>>
  BY DEF StmtTake
<1>2. /\ Current = Done + 1 /\ Current \in 1..Len(asked)
      /\ Head(stmtInbox) = asked[Current] /\ Done' = Done + 1 /\ QueueInv'
  BY MessageAtHand
<1>3. /\ Done \in Nat /\ Len(asked) \in Nat /\ Len(served) = Len(asked)
      /\ Len(answers) \in Nat
  BY StmtLengths
<1>4. PICK S : answers \in Seq(S)
  BY DEF StmtInv, BooksInv
<1>5. ASSUME NEW a, Fits(a) PROVE Fits(a)' /\ a.n < Current
  <2>1. a.n \in 1..Done /\ a.n \in 1..Done' /\ a.n # Current /\ a.n < Current
        /\ a.n \in 1..Len(served)
    <3>1. a.n \in 1..Done
      BY <1>5 DEF Fits
    <3>2. Done + 1 \in 1..Len(served)
      BY <1>2, <1>3
    <3> DEFINE d == Done
               n == a.n
               l == Len(served)
    <3>3. n \in 1..d /\ d + 1 \in 1..l /\ d \in Nat /\ l \in Nat
      BY <3>1, <3>2, <1>3
    <3> HIDE DEF d, n, l
    <3>4. n \in 1..(d + 1) /\ n # d + 1 /\ n < d + 1 /\ n \in 1..l
      BY ONLY <3>3
    <3> QED
      BY <3>1, <3>4, <1>2 DEF d, n, l
  <2>2. served'[a.n] = served[a.n]
    BY <2>1 DEF Entered
  <2> QED
    BY <1>1, <1>5, <2>1, <2>2 DEF Fits, Request, Serves
<1>6. \A k \in 1..Len(answers) : Fits(answers[k])
  BY DEF StmtInv, RoutedInv
<1>7. \A k \in 1..Len(answers) : \A j \in 1..(k - 1) : answers[j].n < answers[k].n
  BY DEF StmtInv, RoutedInv
<1>8. CASE answers' = answers
  <2>1. RoutedInv'
    BY <1>5, <1>6, <1>7, <1>8 DEF RoutedInv
  <2>2. BooksInv'
    BY <1>1, <1>3, <1>4, <1>8 DEF BooksInv, Entered, StmtInv
  <2> QED
    BY <1>2, <2>1, <2>2 DEF StmtInv
<1>9. CASE \E a : answers' = Append(answers, a) /\ AnswersThis(a)
  <2>1. PICK a : answers' = Append(answers, a) /\ AnswersThis(a)
    BY <1>9
  <2> DEFINE l == Len(answers)
             T == S \cup {a}
  <2>2. answers \in Seq(T) /\ a \in T
    BY <1>4
  <2>3. /\ answers' \in Seq(T) /\ Len(answers') = l + 1 /\ answers'[l + 1] = a
        /\ \A k \in 1..l : answers'[k] = answers[k]
    BY <2>1, <2>2, AppendProperties
  <2>4. Fits(a)'
    <3>1. Current \in 1..Done'
      <4> DEFINE d == Done
      <4> HIDE DEF d
      <4>1. d \in Nat /\ Current = d + 1 /\ Done' = d + 1
        BY <1>2, <1>3 DEF d
      <4> QED
        BY ONLY <4>1
    <3>2. a.n = Current /\ a.n \in 1..Done'
      BY <2>1, <3>1 DEF AnswersThis
    <3>3. /\ asked'[a.n].op = "net" /\ Serves(asked[a.n].id)'
          /\ served'[a.n].ok /\ a.client = asked'[a.n].client
          /\ a.id = asked'[a.n].id
          /\ asked'[a.n].data # <<>> => a.param = Last(asked'[a.n].data)
      BY <1>1, <1>2, <2>1, <3>2 DEF AnswersThis, Serves
    <3> QED
      BY <3>2, <3>3 DEF Fits, Request, Serves
  <2> HIDE DEF T, l
  <2>5. l \in Nat /\ \A k \in 1..(l + 1) : k \in 1..l \/ k = l + 1
    <3>1. l \in Nat
      BY <1>3 DEF l
    <3> QED
      BY ONLY <3>1
  <2>6. \A k \in 1..(l + 1) : \E x : answers'[k] = x /\ Fits(x)'
    <3> TAKE k \in 1..(l + 1)
    <3>1. CASE k \in 1..l
      <4>1. PICK x : x = answers[k]
        OBVIOUS
      <4>2. answers'[k] = x /\ Fits(x)
        BY <3>1, <4>1, <2>3, <1>6 DEF l
      <4>3. Fits(x)'
        BY <4>2, <1>5
      <4> QED
        BY <4>2, <4>3
    <3>2. CASE k = l + 1
      BY <3>2, <2>3, <2>4
    <3> QED
      BY <2>5, <3>1, <3>2
  <2>7. ASSUME NEW k \in 1..(l + 1), NEW j \in 1..(k - 1)
        PROVE  answers'[j].n < answers'[k].n
    <3>1. j \in 1..l /\ j # l + 1
      BY <2>5
    <3>2. CASE k \in 1..l
      BY <3>1, <3>2, <2>3, <1>7 DEF l
    <3>3. CASE k = l + 1
      <4>1. answers[j].n < Current
        BY <3>1, <1>5, <1>6 DEF l
      <4>2. a.n = Current
        BY <2>1 DEF AnswersThis
      <4> QED
        BY <4>1, <4>2, <3>1, <3>3, <2>3
    <3> QED
      BY <2>5, <3>2, <3>3
  <2>8. RoutedInv'
    <3>1. Len(answers') = l + 1
      BY <2>3
    <3>2. (\A k \in 1..Len(answers) : Fits(answers[k]))'
      BY <3>1, <2>6 DEF Fits, Request, Serves, Done
    <3> QED
      BY <3>1, <3>2, <2>7 DEF RoutedInv
  <2>9. BooksInv'
    BY <1>1, <1>3, <2>3 DEF BooksInv, Entered, StmtInv
  <2> QED
    BY <1>2, <2>8, <2>9 DEF StmtInv
<1> QED
  BY <1>8, <1>9

\* An entry written at the message at hand.
LEMMA EntryIsWritten ==
  ASSUME StmtInv, StmtTake, NEW v, served' = [served EXCEPT ![Current] = v]
  PROVE  Entered
<1>1. PICK S : served \in Seq(S)
  BY DEF StmtInv, BooksInv
<1>2. Current \in 1..Len(served)
  BY MessageAtHand, StmtLengths
<1> DEFINE T == S \cup {v}
<1>3. served \in Seq(T) /\ v \in T
  BY <1>1
<1> HIDE DEF T
<1> DEFINE c == Current
           w == [served EXCEPT ![c] = v]
<1> HIDE DEF c
<1>4. c \in 1..Len(served)
  BY <1>2 DEF c
<1>5. /\ w \in Seq(T) /\ Len(w) = Len(served)
      /\ \A i \in 1..Len(served) : i # c => w[i] = served[i]
  BY <1>3, <1>4, ExceptSeq
<1> QED
  BY <1>5 DEF Entered, c

LEMMA NothingEntered ==
  ASSUME StmtInv, UNCHANGED served PROVE Entered
BY DEF Entered, StmtInv, BooksInv

LEMMA OnNewNetMsgRoutes ==
  ASSUME StmtInv, NEW o, OnNewNetMsg(o) PROVE StmtInv'
<1> DEFINE m == Head(stmtInbox)
           x == Unpack(stmts[m.id], m.data)
<1>1. /\ StmtTake /\ m.op = "net" /\ Serves(m.id)
      /\ Query(m.id, x, o) /\ Answer(m)
  BY DEF OnNewNetMsg
<1> HIDE DEF x
<1>2. Entered
  <2>1. \E v : served' = [served EXCEPT ![Current] = v]
    BY <1>1 DEF Query
  <2> QED
    BY <1>1, <2>1, EntryIsWritten
<1>3. answers' = answers \/ \E a : answers' = Append(answers, a) /\ AnswersThis(a)
  <2>1. ASSUME NEW c, NEW nodes, Respond(m, c, nodes), served'[Current].ok
        PROVE  \E a : answers' = Append(answers, a) /\ AnswersThis(a)
    <3> DEFINE a == [n |-> Current, client |-> m.client, id |-> m.id, rows |-> c,
                     param |-> IF m.data = <<>> THEN Junk ELSE Last(m.data),
                     nodes |-> nodes]
    <3>1. answers' = Append(answers, a)
      BY <2>1 DEF Respond
    <3>2. AnswersThis(a)
      BY <1>1, <2>1 DEF AnswersThis
    <3> HIDE DEF a
    <3> QED
      BY <3>1, <3>2
  <2>2. \/ UNCHANGED answers
        \/ served'[Current].ok /\ Respond(m, affected', <<>>)
        \/ served'[Current].ok /\ Respond(m, results'.count, <<>>)
        \/ served'[Current].ok /\ Respond(m, results'.count, Contents(results'.buf))
    BY <1>1 DEF Answer
  <2> HIDE DEF m
  <2> QED
    BY <2>1, <2>2
<1> QED
  BY <1>1, <1>2, <1>3, TakeKeeps

LEMMA AdHocQueryRoutes ==
  ASSUME StmtInv, NEW h, NEW o, AdHocQuery(h, o) PROVE StmtInv'
<1>1. StmtTake /\ UNCHANGED answers
  BY DEF AdHocQuery
<1>2. UNCHANGED served \/ \E v : served' = [served EXCEPT ![Current] = v]
  BY DEF AdHocQuery, Query
<1>3. Entered
  BY <1>1, <1>2, EntryIsWritten, NothingEntered
<1> QED
  BY <1>1, <1>3, TakeKeeps

LEMMA StmtPostRoutes ==
  ASSUME StmtInv, NEW m \in StmtMessages, StmtPost(m) PROVE StmtInv'
<1>1. /\ asked' = Append(asked, m) /\ stmtInbox' = Append(stmtInbox, m)
      /\ served' = Append(served, Unserved) /\ stmtPhase = "run"
      /\ UNCHANGED <<stmtPhase, stmtMap, answers>>
  BY DEF StmtPost
<1>2. PICK S : served \in Seq(S)
  BY DEF StmtInv, BooksInv
<1> DEFINE a == Len(asked)
           b == Len(stmtInbox)
           T == S \cup {Unserved}
<1>3. a \in Nat /\ b \in Nat /\ b <= a /\ Done = a - b /\ Done \in Nat /\ Len(served) = a
  BY StmtLengths DEF StmtInv, QueueInv, Done
<1>4. /\ asked' \in Seq(StmtMessages) /\ Len(asked') = a + 1 /\ asked'[a + 1] = m
      /\ \A i \in 1..a : asked'[i] = asked[i]
  BY <1>1, AppendProperties DEF StmtInv, QueueInv
<1>5. /\ stmtInbox' \in Seq(StmtMessages) /\ Len(stmtInbox') = b + 1
      /\ stmtInbox'[b + 1] = m /\ \A i \in 1..b : stmtInbox'[i] = stmtInbox[i]
  BY <1>1, AppendProperties DEF StmtInv, QueueInv
<1>6. /\ served' \in Seq(T) /\ Len(served') = a + 1
      /\ \A i \in 1..a : served'[i] = served[i]
  <2>1. served \in Seq(T) /\ Unserved \in T
    BY <1>2
  <2> HIDE DEF T
  <2> QED
    BY <1>1, <1>3, <2>1, AppendProperties
<1>7. Done' = (a + 1) - (b + 1)
  BY <1>4, <1>5 DEF Done
<1>8. \A i \in 1..b : stmtInbox[i] = asked[Done + i]
  BY DEF StmtInv, QueueInv
<1> DEFINE d == Done
<1> HIDE DEF a, b, T
<1>9. /\ Done' = d /\ d \in Nat /\ d <= a /\ b + 1 <= a + 1 /\ d + (b + 1) = a + 1
      /\ \A i \in 1..(b + 1) : \/ i \in 1..b /\ d + i \in 1..a
                               \/ i = b + 1 /\ d + i = a + 1
  <2>1. d = a - b /\ a \in Nat /\ b \in Nat /\ b <= a
    BY <1>3
  <2> HIDE DEF d
  <2>2. d \in Nat /\ d <= a /\ b + 1 <= a + 1 /\ d + (b + 1) = a + 1
    BY ONLY <2>1
  <2>3. \A i \in 1..(b + 1) : \/ i \in 1..b /\ d + i \in 1..a
                              \/ i = b + 1 /\ d + i = a + 1
    BY ONLY <2>1
  <2>4. Done' = d
    BY ONLY <2>1, <1>7
  <2> QED
    BY ONLY <2>2, <2>3, <2>4
<1>10. QueueInv'
  <2>1. \A i \in 1..(b + 1) : stmtInbox'[i] = asked'[Done' + i]
    BY <1>4, <1>5, <1>8, <1>9
  <2> QED
    BY <1>4, <1>5, <1>9, <2>1 DEF QueueInv
<1>11. BooksInv'
  BY <1>1, <1>4, <1>6 DEF BooksInv, StmtInv
<1>12. RoutedInv'
  <2>1. ASSUME NEW x, Fits(x) PROVE Fits(x)'
    <3>1. x.n \in 1..d /\ x.n \in 1..a
      <4>1. x.n \in 1..d
        BY <2>1 DEF Fits
      <4>2. d \in Nat /\ d <= a /\ a \in Nat
        BY <1>3, <1>9
      <4> DEFINE n == x.n
      <4> HIDE DEF n, d
      <4>3. n \in 1..d
        BY <4>1 DEF n
      <4>4. n \in 1..a
        BY ONLY <4>2, <4>3
      <4> QED
        BY <4>1, <4>4 DEF n
    <3>2. asked'[x.n] = asked[x.n] /\ served'[x.n] = served[x.n]
      BY <3>1, <1>4, <1>6
    <3> QED
      BY <1>1, <1>9, <2>1, <3>1, <3>2 DEF Fits, Request, Serves
  <2> QED
    BY <1>1, <2>1 DEF RoutedInv, StmtInv
<1> QED
  BY <1>10, <1>11, <1>12 DEF StmtInv

LEMMA StmtStep == StmtInv /\ [StmtNext]_stmtVars => StmtInv'
<1> SUFFICES ASSUME StmtInv, [StmtNext]_stmtVars PROVE StmtInv'
  OBVIOUS
<1>1. ASSUME NEW id \in StmtIds, NEW c \in StmtConfigs, NEW h,
             LoadStmtConfig(id, c, h)
      PROVE  StmtInv'
  <2>1. stmtPhase = "load" /\ UNCHANGED <<stmtPhase, stmtInbox, asked, served, answers>>
    BY <1>1 DEF LoadStmtConfig
  <2>2. QueueInv' /\ BooksInv'
    BY <2>1 DEF StmtInv, QueueInv, BooksInv, Done
  <2>3. Done = 0
    BY <2>1, StmtLengths DEF StmtInv, BooksInv, QueueInv, Done
  <2>4. ASSUME NEW k \in 1..Len(answers) PROVE FALSE
    <3>1. answers[k].n \in 1..Done
      BY DEF StmtInv, RoutedInv, Fits
    <3> QED
      BY <3>1, <2>3
  <2>5. RoutedInv'
    BY <2>1, <2>4 DEF RoutedInv
  <2> QED
    BY <2>2, <2>5 DEF StmtInv
<1>2. CASE StmtStart
  <2>1. stmtPhase' = "run" /\ UNCHANGED <<stmtMap, stmtInbox, asked, served, answers>>
    BY <1>2 DEF StmtStart
  <2>2. QueueInv' /\ BooksInv'
    BY <2>1 DEF StmtInv, QueueInv, BooksInv, Done
  <2>3. RoutedInv'
    BY <2>1 DEF StmtInv, RoutedInv, Fits, Request, Serves, Done
  <2> QED
    BY <2>2, <2>3 DEF StmtInv
<1>3. ASSUME NEW m \in StmtMessages, StmtPost(m) PROVE StmtInv'
  BY <1>3, StmtPostRoutes
<1>4. CASE NoSuchStmt \/ OverRead
  <2>1. StmtTake /\ UNCHANGED <<served, answers>>
    BY <1>4 DEF NoSuchStmt, OverRead
  <2> QED
    BY <2>1, NothingEntered, TakeKeeps
<1>5. ASSUME NEW o, OnNewNetMsg(o) PROVE StmtInv'
  BY <1>5, OnNewNetMsgRoutes
<1>6. ASSUME NEW h, NEW o, AdHocQuery(h, o) PROVE StmtInv'
  BY <1>6, AdHocQueryRoutes
<1>7. CASE UNCHANGED stmtVars
  <2>1. UNCHANGED <<stmtPhase, stmtMap, stmtInbox, asked, served, answers>>
    BY <1>7 DEF stmtVars
  <2>2. QueueInv' /\ BooksInv'
    BY <2>1 DEF StmtInv, QueueInv, BooksInv, Done
  <2>3. RoutedInv'
    BY <2>1 DEF StmtInv, RoutedInv, Fits, Request, Serves, Done
  <2> QED
    BY <2>2, <2>3 DEF StmtInv
<1> QED
  BY <1>1, <1>2, <1>3, <1>4, <1>5, <1>6, <1>7 DEF StmtNext

\* Whatever the statements, the requests and the server: each response answers
\* a request that was executed, no request is answered twice, the answers come
\* in the order of the requests, and each goes to the connection that asked
\* and gives its parameter back.
\* About: HandleMessage, OnNewNetMsg, On*Record.
THEOREM AnswersRoutedAlways == StmtSpec => []AnswersRouted
<1>1. StmtInit => StmtInv
  BY StmtInitially
<1>2. StmtInv /\ [StmtNext]_stmtVars => StmtInv'
  BY StmtStep
<1>3. StmtInv => AnswersRouted
  <2> SUFFICES ASSUME StmtInv, NEW k \in DOMAIN answers
               PROVE  LET a == answers[k]
                          m == asked[a.n]
                      IN  /\ Handled(a.n) /\ Request(a.n) /\ served[a.n].ok
                          /\ \A j \in 1..(k - 1) : answers[j].n < a.n
                          /\ a.client = m.client /\ a.id = m.id
                          /\ m.data # <<>> => a.param = Last(m.data)
    BY DEF AnswersRouted
  <2>1. k \in 1..Len(answers)
    BY LenProperties DEF StmtInv, BooksInv
  <2>2. Fits(answers[k]) /\ \A j \in 1..(k - 1) : answers[j].n < answers[k].n
    BY <2>1 DEF StmtInv, RoutedInv
  <2>3. Handled(answers[k].n)
    BY <2>2, StmtLengths DEF Fits, Handled, Done
  <2> QED
    BY <2>2, <2>3 DEF Fits
<1> QED
  BY <1>1, <1>2, <1>3, PTL DEF StmtSpec

-----------------------------------------------------------------------------
(* Buffers.                                                                 *)

Buffers == [mem : Seq(Int), size : Nat, moved : BOOLEAN, type : {"new", "external"}]

\* Nothing was written behind the end.
Filled(b) == b \in Buffers /\ b.size <= Len(b.mem)

\* What a parameter holds.
ParamValues == [type : ParamTypes, len : Nat, value : Buffers]
Stmts == [ins : Seq(ParamValues), outs : Seq(ParamValues), nIn : Nat, nOut : Nat,
          flag : SUBSET {"insert", "null", "one", "multi"},
          handle : {"none", "prepared"}]

\* A string that fits its parameter goes to the memory that was bound.
Ready(p) ==
  IsStr(p.type) /\ p.type.n > 0 =>
    p.value.type = "new" /\ ~p.value.moved /\ Len(p.value.mem) = p.type.n

\* The memory of a string is empty.
Cleared(p) == IsStr(p.type) => p.value.size = 0 /\ p.len = 0

\* The same statement, with other values in its parameters.
Kin(s, t) ==
  /\ s \in Stmts /\ t \in Stmts
  /\ t.nIn = s.nIn /\ t.nOut = s.nOut /\ t.flag = s.flag /\ t.handle = s.handle
  /\ Len(t.ins) = Len(s.ins) /\ \A i \in 1..Len(s.ins) : t.ins[i].type = s.ins[i].type
  /\ Len(t.outs) = Len(s.outs)
  /\ \A i \in 1..Len(s.outs) : t.outs[i].type = s.outs[i].type

\* How far the arguments of a message were taken.
Takes == [s : Stmts, d : Seq(Nat), at : Nat, ok : BOOLEAN, over : BOOLEAN]

\* Nodes in memory of their own, which never gets less.
Roomy(nb) ==
  /\ nb \in [buf : Buffers, count : Nat, offset : Nat \cup {NoOffset}]
  /\ Filled(nb.buf) /\ nb.buf.type = "new" /\ ResultRoom <= Len(nb.buf.mem)

\* A column holds all of the value that was fetched.
Whole(p) == IsStr(p.type) => p.len <= Len(p.value.mem)

\* What a column brings to a node.
Brings(p) == IF IsStr(p.type) THEN SubSeq(p.value.mem, 1, p.len) ELSE p.value.mem

LEMMA BlankIs ==
  ASSUME NEW n \in Nat PROVE Blank(n) \in Seq(Int) /\ Len(Blank(n)) = n
<1>1. Blank(n) \in [1..n -> Int]
  BY DEF Blank, Junk
<1> QED
  BY <1>1

\* Data put where it fits.
LEMMA PutIs ==
  ASSUME NEW b, Filled(b), NEW d \in Seq(Int), b.size + Len(d) <= Len(b.mem)
  PROVE  /\ Filled(Put(b, d)) /\ Put(b, d).size = b.size + Len(d)
         /\ Put(b, d).type = b.type /\ Put(b, d).moved = b.moved
         /\ Len(Put(b, d).mem) = Len(b.mem)
         /\ \A i \in 1..Len(b.mem) :
              Put(b, d).mem[i] = IF i <= b.size \/ i > b.size + Len(d) THEN b.mem[i]
                                 ELSE d[i - b.size]
<1> DEFINE m == Over(b.mem, b.size, d)
           n == b.size + Len(d)
<1>1. b \in Buffers /\ b.mem \in Seq(Int) /\ b.size \in Nat /\ b.size \in 0..Len(b.mem)
  BY DEF Filled, Buffers
<1>2. /\ m \in Seq(Int) /\ Len(m) = Len(b.mem)
      /\ \A i \in 1..Len(b.mem) :
           m[i] = IF i <= b.size \/ i > b.size + Len(d) THEN b.mem[i] ELSE d[i - b.size]
  BY SMTT(30), <1>1, OverIs
<1>3. Put(b, d) = [b EXCEPT !.mem = m, !.size = n]
  BY DEF Put
<1>4. n \in Nat
  BY <1>1
<1> HIDE DEF m, n
<1> DEFINE c == [b EXCEPT !.mem = m, !.size = n]
<1>5. c \in Buffers /\ c.mem = m /\ c.size = n /\ c.type = b.type /\ c.moved = b.moved
  BY <1>1, <1>2, <1>4 DEF Buffers
<1> HIDE DEF c
<1>6. Put(b, d) = c
  BY <1>3 DEF c
<1> QED
  BY <1>2, <1>5, <1>6 DEF Filled, n

LEMMA ContentsAre ==
  ASSUME NEW b, Filled(b)
  PROVE  /\ Contents(b) \in Seq(Int) /\ Len(Contents(b)) = b.size
         /\ \A i \in 1..b.size : Contents(b)[i] = b.mem[i]
<1> DEFINE n == b.size
           m == b.mem
<1>1. m \in Seq(Int) /\ n \in Nat /\ n <= Len(m)
  BY DEF Filled, Buffers
<1>2. Contents(b) = SubSeq(m, 1, n)
  BY DEF Contents
<1> HIDE DEF n, m
<1>3. \A i \in 1..n : m[i] \in Int
  BY <1>1
<1>4. /\ SubSeq(m, 1, n) \in Seq(Int)
      /\ Len(SubSeq(m, 1, n)) = IF 1 <= n THEN n - 1 + 1 ELSE 0
      /\ \A i \in 1..(n - 1 + 1) : SubSeq(m, 1, n)[i] = m[1 + i - 1]
  BY <1>1, <1>3, SubSeqProperties
<1>5. Len(SubSeq(m, 1, n)) = n /\ \A i \in 1..n : SubSeq(m, 1, n)[i] = m[i]
  BY <1>1, <1>4
<1> QED
  BY <1>2, <1>4, <1>5 DEF n, m

\* What a buffer contains after data was put there.
LEMMA PutAppends ==
  ASSUME NEW b, Filled(b), NEW d \in Seq(Int), b.size + Len(d) <= Len(b.mem)
  PROVE  Contents(Put(b, d)) = Contents(b) \o d
<1> DEFINE c == Put(b, d)
           x == Contents(b)
           y == Contents(c)
           n == b.size
           l == Len(d)
<1>1. /\ Filled(c) /\ c.size = n + l /\ Len(c.mem) = Len(b.mem) /\ n \in Nat /\ l \in Nat
      /\ n + l <= Len(b.mem) /\ Len(b.mem) \in Nat
      /\ \A i \in 1..Len(b.mem) :
           c.mem[i] = IF i <= n \/ i > n + l THEN b.mem[i] ELSE d[i - n]
  <2>1. n \in Nat /\ l \in Nat /\ n + l <= Len(b.mem) /\ Len(b.mem) \in Nat
    BY DEF Filled, Buffers
  <2>2. /\ Filled(c) /\ c.size = n + l /\ Len(c.mem) = Len(b.mem)
        /\ \A i \in 1..Len(b.mem) :
             c.mem[i] = IF i <= n \/ i > n + l THEN b.mem[i] ELSE d[i - n]
    BY PutIs
  <2> QED
    BY <2>1, <2>2
<1>2. x \in Seq(Int) /\ Len(x) = n /\ \A i \in 1..n : x[i] = b.mem[i]
  BY ContentsAre
<1>3. y \in Seq(Int) /\ Len(y) = n + l /\ \A i \in 1..(n + l) : y[i] = c.mem[i]
  BY <1>1, ContentsAre
<1> HIDE DEF c, x, y, n
<1>4. /\ x \o d \in Seq(Int) /\ Len(x \o d) = n + l
      /\ \A i \in 1..(n + l) : (x \o d)[i] = IF i <= n THEN x[i] ELSE d[i - n]
  BY <1>1, <1>2, ConcatProperties
<1> HIDE DEF l
<1>5. \A i \in 1..(n + l) : y[i] = (x \o d)[i]
  <2> TAKE i \in 1..(n + l)
  <2>1. i \in 1..Len(b.mem) /\ ~(i > n + l) /\ (i <= n => i \in 1..n)
    BY <1>1
  <2> QED
    BY <2>1, <1>1, <1>2, <1>3, <1>4
<1>6. y = x \o d
  BY <1>3, <1>4, <1>5, SeqEqual
<1> QED
  BY <1>6 DEF x, y, c

\* More memory, and what was written stays.
LEMMA ResizeIs ==
  ASSUME NEW b, Filled(b), b.type = "new", NEW n \in Nat, n > Len(b.mem)
  PROVE  LET c == Resize(b, n, TRUE)
         IN  /\ Filled(c) /\ c.size = b.size /\ c.type = "new" /\ Len(c.mem) = n
             /\ Contents(c) = Contents(b)
<1> DEFINE x == Contents(b)
           k == b.size
           c == Resize(b, n, TRUE)
<1>1. b \in Buffers /\ k \in Nat /\ k <= Len(b.mem) /\ Len(b.mem) \in Nat /\ k < n
      /\ MaxSize(b) = Len(b.mem)
  BY DEF Filled, Buffers, MaxSize
<1>2. x \in Seq(Int) /\ Len(x) = k /\ \A i \in 1..k : x[i] = b.mem[i]
  BY ContentsAre
<1>3. CASE k > 0
  <2> DEFINE m == x \o Blank(n - k)
  <2>1. n - k \in Nat /\ k + (n - k) = n
    BY <1>1
  <2>2. Blank(n - k) \in Seq(Int) /\ Len(Blank(n - k)) = n - k
    BY <2>1, BlankIs
  <2>3. /\ m \in Seq(Int) /\ Len(m) = k + (n - k)
        /\ \A i \in 1..(k + (n - k)) : i <= k => m[i] = x[i]
    <3> DEFINE y == Blank(n - k)
               h == k
               g == n - k
    <3> HIDE DEF x, y, h, g
    <3>1. x \in Seq(Int) /\ y \in Seq(Int) /\ Len(x) = h /\ Len(y) = g
      BY <1>2, <2>2 DEF y, g, h
    <3>2. /\ x \o y \in Seq(Int) /\ Len(x \o y) = h + g
          /\ \A i \in 1..(h + g) : i <= h => (x \o y)[i] = x[i]
      BY <3>1, ConcatProperties
    <3> QED
      BY <3>2 DEF y, g, h
  <2>4. c = [b EXCEPT !.mem = m, !.moved = TRUE]
    BY <1>1, <1>3 DEF Resize
  <2> HIDE DEF m, x
  <2> DEFINE e == [b EXCEPT !.mem = m, !.moved = TRUE]
  <2>5. e \in Buffers /\ e.mem = m /\ e.size = b.size /\ e.type = b.type
    BY <1>1, <2>3 DEF Buffers
  <2> HIDE DEF c, e, k
  <2>6. /\ Filled(c) /\ c.size = k /\ c.type = "new" /\ Len(c.mem) = n /\ c.mem = m
    <3>1. c = e
      BY <2>4 DEF e
    <3>2. k <= n
      BY <1>1
    <3> QED
      BY <3>1, <3>2, <2>1, <2>3, <2>5 DEF Filled, k
  <2>7. /\ Contents(c) \in Seq(Int) /\ Len(Contents(c)) = k
        /\ \A i \in 1..k : Contents(c)[i] = m[i]
    BY <2>6, ContentsAre
  <2>8. \A i \in 1..k : m[i] = x[i]
    <3>1. \A i \in 1..k : i \in 1..(k + (n - k)) /\ i <= k
      BY <1>1
    <3> QED
      BY <3>1, <2>3
  <2>9. Contents(c) = x
    BY <1>2, <2>7, <2>8, SeqEqual
  <2> QED
    BY <2>6, <2>9 DEF c, x, k
<1>4. CASE k = 0
  <2>1. c = [b EXCEPT !.mem = Blank(n), !.size = 0, !.moved = TRUE]
    BY <1>1, <1>4 DEF Resize
  <2>2. Blank(n) \in Seq(Int) /\ Len(Blank(n)) = n
    BY BlankIs
  <2> DEFINE m == Blank(n)
  <2> HIDE DEF m
  <2> DEFINE e == [b EXCEPT !.mem = m, !.size = 0, !.moved = TRUE]
  <2>5. e \in Buffers /\ e.mem = m /\ e.size = 0 /\ e.type = b.type
    BY <1>1, <2>2 DEF Buffers, m
  <2>3. c = e
    BY <2>1 DEF m
  <2> HIDE DEF c, e, x, k
  <2>6. /\ Filled(c) /\ c.size = k /\ c.type = "new" /\ Len(c.mem) = n
    BY <2>2, <2>3, <2>5, <1>4 DEF Filled, m
  <2>7. Contents(c) \in Seq(Int) /\ Len(Contents(c)) = 0
    BY <2>6, <1>4, ContentsAre
  <2>8. Contents(c) = <<>> /\ x = <<>>
    BY <2>7, <1>2, <1>4
  <2> QED
    BY <2>6, <2>8 DEF c, x, k
<1>5. k > 0 \/ k = 0
  BY <1>1
<1> QED
  BY <1>3, <1>4, <1>5, Zenon

\* Memory of its own takes whatever is written.
LEMMA WriteBufAppends ==
  ASSUME NEW b, Filled(b), b.type = "new", Len(b.mem) >= 1, NEW d \in Seq(Int)
  PROVE  LET c == WriteBuf(b, d)
         IN  /\ Filled(c) /\ c.type = "new" /\ c.size = b.size + Len(d)
             /\ Len(c.mem) >= Len(b.mem) /\ Contents(c) = Contents(b) \o d
<1> DEFINE n == (MaxSize(b) + Len(d)) * 2
           r == Resize(b, n, TRUE)
<1>1. /\ MaxSize(b) = Len(b.mem) /\ Len(b.mem) \in Nat /\ Len(d) \in Nat
      /\ b.size \in Nat /\ b.size <= Len(b.mem)
  BY DEF MaxSize, Filled, Buffers
<1>2. CanWrite(b, d)
  BY <1>1 DEF CanWrite
<1>3. CASE Len(d) > 0 /\ b.size + Len(d) <= MaxSize(b)
  <2>1. WriteBuf(b, d) = Put(b, d)
    BY <1>2, <1>3 DEF WriteBuf
  <2>2. b.size + Len(d) <= Len(b.mem)
    BY <1>1, <1>3
  <2>3. /\ Filled(Put(b, d)) /\ Put(b, d).size = b.size + Len(d)
        /\ Put(b, d).type = b.type /\ Len(Put(b, d).mem) = Len(b.mem)
    BY <2>2, PutIs
  <2>4. Contents(Put(b, d)) = Contents(b) \o d
    BY <2>2, PutAppends
  <2> QED
    BY <2>1, <2>3, <2>4, <1>1
<1>4. CASE ~(Len(d) > 0 /\ b.size + Len(d) <= MaxSize(b))
  <2>1. WriteBuf(b, d) = Put(r, d)
    BY <1>2, <1>4 DEF WriteBuf
  <2>2. n \in Nat /\ n > Len(b.mem) /\ b.size + Len(d) <= n
    BY <1>1
  <2> HIDE DEF n
  <2>3. /\ Filled(r) /\ r.size = b.size /\ r.type = "new" /\ Len(r.mem) = n
        /\ Contents(r) = Contents(b)
    BY <2>2, ResizeIs
  <2> HIDE DEF r
  <2>4. r.size + Len(d) <= Len(r.mem)
    BY <2>2, <2>3
  <2>5. /\ Filled(Put(r, d)) /\ Put(r, d).size = r.size + Len(d)
        /\ Put(r, d).type = r.type /\ Len(Put(r, d).mem) = Len(r.mem)
        /\ Contents(Put(r, d)) = Contents(r) \o d
    BY <2>3, <2>4, PutIs, PutAppends
  <2> QED
    BY <2>1, <2>2, <2>3, <2>5, <1>1
<1> QED
  BY <1>3, <1>4

\* Any buffer, any data.
LEMMA WriteBufFilled ==
  ASSUME NEW b, Filled(b), NEW d \in Seq(Int) PROVE Filled(WriteBuf(b, d))
<1> DEFINE n == (MaxSize(b) + Len(d)) * 2
           r == Resize(b, n, TRUE)
<1>1. /\ MaxSize(b) = Len(b.mem) /\ Len(b.mem) \in Nat /\ Len(d) \in Nat
      /\ b.size \in Nat /\ b.size <= Len(b.mem)
  BY DEF MaxSize, Filled, Buffers
<1>2. CASE ~CanWrite(b, d)
  BY <1>2 DEF WriteBuf
<1>3. CASE Len(d) > 0 /\ b.size + Len(d) <= MaxSize(b)
  <2>1. WriteBuf(b, d) = Put(b, d)
    BY <1>3 DEF WriteBuf, CanWrite
  <2> QED
    BY <1>1, <1>3, <2>1, PutIs
<1>4. CASE CanWrite(b, d) /\ ~(Len(d) > 0 /\ b.size + Len(d) <= MaxSize(b))
  <2>1. WriteBuf(b, d) = Put(r, d) /\ b.type = "new" /\ MaxSize(b) + Len(d) > 0
    BY <1>4 DEF WriteBuf, CanWrite
  <2>2. n \in Nat /\ n > Len(b.mem) /\ b.size + Len(d) <= n
    BY <1>1, <2>1
  <2> HIDE DEF n
  <2>3. Filled(r) /\ r.size = b.size /\ Len(r.mem) = n
    BY <2>1, <2>2, ResizeIs
  <2> HIDE DEF r
  <2> QED
    BY <2>1, <2>2, <2>3, PutIs
<1> QED
  BY <1>2, <1>3, <1>4

-----------------------------------------------------------------------------
(* Parameters.                                                              *)

LEMMA ParamFacts ==
  ASSUME NEW p \in ParamValues
  PROVE  /\ p.value \in Buffers /\ p.type \in ParamTypes /\ p.len \in Nat
         /\ p.type.n \in Nat /\ p.value.mem \in Seq(Int)
         /\ Len(p.value.mem) \in Nat
         /\ Cleared(p) /\ IsStr(p.type) => Filled(p.value) /\ p.value.size = 0
<1>1. /\ p.value \in Buffers /\ p.type \in ParamTypes /\ p.len \in Nat
  BY DEF ParamValues
<1>2. p.type.n \in Nat /\ p.value.mem \in Seq(Int)
  BY <1>1 DEF ParamTypes, Buffers
<1>3. Len(p.value.mem) \in Nat
  BY <1>2
<1> QED
  BY <1>1, <1>2, <1>3 DEF Cleared, Filled

\* What setData makes of a parameter.
LEMMA SetDataIs ==
  ASSUME NEW p \in ParamValues, Cleared(p), NEW d \in Seq(Int)
  PROVE  /\ SetData(p, d) \in ParamValues /\ SetData(p, d).type = p.type
         /\ IsStr(p.type) => /\ SetData(p, d).value = WriteBuf(p.value, d)
                             /\ SetData(p, d).len = Len(d)
         /\ ~IsStr(p.type) => SetData(p, d).value.mem = d
<1>1. CASE ~IsStr(p.type)
  <2> DEFINE v == [p.value EXCEPT !.mem = d]
  <2>1. SetData(p, d) = [p EXCEPT !.value = v]
    BY <1>1 DEF SetData
  <2>2. v \in Buffers /\ v.mem = d
    BY ParamFacts DEF Buffers
  <2> HIDE DEF v
  <2> QED
    BY <1>1, <2>1, <2>2 DEF ParamValues
<1>2. CASE IsStr(p.type)
  <2> DEFINE v == WriteBuf(p.value, d)
             l == Len(d)
  <2>1. SetData(p, d) = [p EXCEPT !.value = v, !.len = l]
    BY <1>2 DEF SetData
  <2>2. v \in Buffers /\ l \in Nat
    BY <1>2, ParamFacts, WriteBufFilled DEF Filled
  <2> HIDE DEF v, l
  <2>3. /\ SetData(p, d) \in ParamValues /\ SetData(p, d).type = p.type
        /\ SetData(p, d).value = v /\ SetData(p, d).len = l
    BY <2>1, <2>2 DEF ParamValues
  <2> QED
    BY <1>2, <2>3 DEF v, l
<1> QED
  BY <1>1, <1>2

\* An argument that fits its parameter is what the server gets.
LEMMA SetDataHolds ==
  ASSUME NEW p \in ParamValues, Cleared(p), Ready(p), NEW d \in Seq(Int),
         IsStr(p.type) => Len(d) \in 1..p.type.n
  PROVE  Ready(SetData(p, d)) /\ Sent(SetData(p, d)) = d
<1> DEFINE q == SetData(p, d)
<1>1. CASE ~IsStr(p.type)
  <2>1. q.type = p.type /\ q.value.mem = d
    BY <1>1, SetDataIs
  <2> HIDE DEF q
  <2> QED
    BY <1>1, <2>1 DEF Sent, Ready, q
<1>2. CASE IsStr(p.type)
  <2> DEFINE b == p.value
  <2>1. q.type = p.type /\ q.value = WriteBuf(b, d) /\ q.len = Len(d)
    BY <1>2, SetDataIs
  <2>2. /\ Filled(b) /\ b.size = 0 /\ Len(b.mem) = p.type.n /\ p.type.n \in Nat
        /\ b.type = "new" /\ ~b.moved /\ Len(d) \in 1..p.type.n /\ p.type.n > 0
    BY <1>2, ParamFacts DEF Ready
  <2>3. Len(d) > 0 /\ b.size + Len(d) <= Len(b.mem) /\ Len(d) \in Nat
    BY <2>2
  <2>4. WriteBuf(b, d) = Put(b, d)
    BY <2>3 DEF WriteBuf, CanWrite, MaxSize
  <2>5. /\ Put(b, d).type = b.type /\ Put(b, d).moved = b.moved
        /\ Len(Put(b, d).mem) = Len(b.mem)
        /\ \A i \in 1..Len(b.mem) :
              Put(b, d).mem[i] = IF i <= b.size \/ i > b.size + Len(d) THEN b.mem[i]
                                 ELSE d[i - b.size]
    BY <2>2, <2>3, PutIs
  <2> DEFINE v == Put(b, d)
             l == Len(d)
  <2>6. \A i \in 1..l : v.mem[i] = d[i]
    <3> TAKE i \in 1..l
    <3>1. i \in 1..Len(b.mem) /\ ~(i <= 0) /\ ~(i > 0 + l) /\ i - 0 = i
      BY <2>2, <2>3
    <3> QED
      BY <3>1, <2>2, <2>5
  <2> HIDE DEF q, v, b
  <2>7. q.value = v /\ v.type = "new" /\ ~v.moved /\ Len(v.mem) = p.type.n
    BY <2>1, <2>2, <2>4, <2>5 DEF v
  <2>8. Ready(q)
    BY <2>1, <2>7 DEF Ready
  <2>9. Sent(q) = [i \in 1..l |-> v.mem[i]]
    BY <1>2, <2>1, <2>7 DEF Sent
  <2>10. Sent(q) = [i \in 1..l |-> d[i]]
    BY <2>6, <2>9
  <2>11. d = [i \in 1..l |-> d[i]]
    OBVIOUS
  <2> QED
    BY <2>8, <2>10, <2>11 DEF q
<1> QED
  BY <1>1, <1>2

\* A parameter without its value.
LEMMA ResetIs ==
  ASSUME NEW p \in ParamValues
  PROVE  /\ ResetParam(p) \in ParamValues /\ ResetParam(p).type = p.type
         /\ Cleared(ResetParam(p)) /\ (Ready(p) => Ready(ResetParam(p)))
<1> DEFINE q == ResetParam(p)
<1>1. CASE ~IsStr(p.type)
  <2> DEFINE z == <<0>>
             b == p.value
             v == [b EXCEPT !.mem = z]
  <2>1. q = [p EXCEPT !.value = v]
    BY <1>1 DEF ResetParam
  <2>2. v \in Buffers
    <3>1. z \in Seq(Int) /\ b \in Buffers
      BY ParamFacts
    <3> HIDE DEF z, b
    <3> QED
      BY <3>1 DEF Buffers
  <2> HIDE DEF v, q
  <2>3. q \in ParamValues /\ q.type = p.type
    BY <2>1, <2>2 DEF ParamValues
  <2> QED
    BY <1>1, <2>3 DEF Cleared, Ready, q
<1>2. CASE IsStr(p.type)
  <2> DEFINE b == p.value
             v == [b EXCEPT !.size = 0]
  <2>1. q = [p EXCEPT !.value = v, !.len = 0]
    BY <1>2 DEF ResetParam, ResetBuffer
  <2>2. /\ v \in Buffers /\ v.size = 0 /\ v.type = b.type /\ v.moved = b.moved
        /\ v.mem = b.mem
    <3>1. b \in Buffers
      BY ParamFacts
    <3> HIDE DEF b
    <3> QED
      BY <3>1 DEF Buffers
  <2> HIDE DEF v, q
  <2>3. q \in ParamValues /\ q.type = p.type /\ q.value = v /\ q.len = 0
    BY <2>1, <2>2 DEF ParamValues
  <2>4. Cleared(q) /\ (Ready(p) => Ready(q))
    BY <2>2, <2>3 DEF Cleared, Ready
  <2> QED
    BY <2>3, <2>4 DEF q
<1> QED
  BY <1>1, <1>2

\* The parameters of a statement, each without its value.
LEMMA ResetAll ==
  ASSUME NEW ps \in Seq(ParamValues)
  PROVE  LET qs == [i \in DOMAIN ps |-> ResetParam(ps[i])]
         IN  /\ qs \in Seq(ParamValues) /\ Len(qs) = Len(ps)
             /\ \A i \in 1..Len(ps) : qs[i] = ResetParam(ps[i])
<1> DEFINE n == Len(ps)
           qs == [i \in 1..n |-> ResetParam(ps[i])]
<1>1. n \in Nat /\ DOMAIN ps = 1..n
  OBVIOUS
<1>2. \A i \in 1..n : ResetParam(ps[i]) \in ParamValues
  BY ResetIs
<1> HIDE DEF n
<1>3. qs \in [1..n -> ParamValues]
  BY <1>2
<1>4. qs \in Seq(ParamValues) /\ Len(qs) = n
  BY <1>1, <1>3, IsASeq
<1> QED
  BY <1>1, <1>4 DEF n

LEMMA ResetBindDataIs ==
  ASSUME NEW s \in Stmts
  PROVE  /\ Kin(s, ResetBindData(s))
         /\ \A i \in 1..Len(s.ins) : ResetBindData(s).ins[i] = ResetParam(s.ins[i])
         /\ \A i \in 1..Len(s.outs) : ResetBindData(s).outs[i] = ResetParam(s.outs[i])
<1> DEFINE ins == [i \in DOMAIN s.ins |-> ResetParam(s.ins[i])]
           outs == [i \in DOMAIN s.outs |-> ResetParam(s.outs[i])]
<1>1. s.ins \in Seq(ParamValues) /\ s.outs \in Seq(ParamValues)
  BY DEF Stmts
<1>2. ResetBindData(s) = [s EXCEPT !.ins = ins, !.outs = outs]
  BY DEF ResetBindData
<1>3. /\ ins \in Seq(ParamValues) /\ Len(ins) = Len(s.ins)
      /\ \A i \in 1..Len(s.ins) : ins[i] = ResetParam(s.ins[i])
  BY <1>1, ResetAll
<1>4. /\ outs \in Seq(ParamValues) /\ Len(outs) = Len(s.outs)
      /\ \A i \in 1..Len(s.outs) : outs[i] = ResetParam(s.outs[i])
  BY <1>1, ResetAll
<1> HIDE DEF ins, outs
<1> DEFINE r == [s EXCEPT !.ins = ins, !.outs = outs]
<1>5. /\ r \in Stmts /\ r.ins = ins /\ r.outs = outs /\ r.nIn = s.nIn /\ r.nOut = s.nOut
      /\ r.flag = s.flag /\ r.handle = s.handle
  BY <1>3, <1>4 DEF Stmts
<1> HIDE DEF r
<1>6. \A i \in 1..Len(s.ins) : r.ins[i].type = s.ins[i].type
  BY <1>1, <1>3, <1>5, ResetIs
<1>7. \A i \in 1..Len(s.outs) : r.outs[i].type = s.outs[i].type
  BY <1>1, <1>4, <1>5, ResetIs
<1>8. ResetBindData(s) = r
  BY <1>2 DEF r
<1> QED
  BY <1>3, <1>4, <1>5, <1>6, <1>7, <1>8 DEF Kin

LEMMA KinOf ==
  ASSUME NEW s \in Stmts
  PROVE  Kin(s, s)
BY DEF Kin

LEMMA KinAgain ==
  ASSUME NEW s, NEW t, NEW u, Kin(s, t), Kin(t, u) PROVE Kin(s, u)
BY DEF Kin

-----------------------------------------------------------------------------
(* Arguments that come packed in a message.                                 *)

\* A parameter of a statement gets another value.
SetTo(st, i, v, to, fits, over) ==
  [st EXCEPT !.s.ins[i] = v, !.at = to, !.ok = fits, !.over = over]

LEMMA TakenSet ==
  ASSUME NEW st \in Takes, NEW i \in 1..Len(st.s.ins), NEW v \in ParamValues,
         v.type = st.s.ins[i].type, NEW to, NEW fits, NEW over
  PROVE  LET x == SetTo(st, i, v, to, fits, over)
         IN  /\ x.at = to /\ x.ok = fits /\ x.over = over /\ x.d = st.d
             /\ Kin(st.s, x.s) /\ x.s.ins[i] = v
             /\ \A j \in 1..Len(st.s.ins) : j # i => x.s.ins[j] = st.s.ins[j]
             /\ x.s.outs = st.s.outs
             /\ to \in Nat /\ fits \in BOOLEAN /\ over \in BOOLEAN => x \in Takes
<1> DEFINE x == SetTo(st, i, v, to, fits, over)
           s == st.s
           ps == [s.ins EXCEPT ![i] = v]
           t == [s EXCEPT !.ins = ps]
<1>1. s \in Stmts /\ st.d \in Seq(Nat)
  BY DEF Takes
<1>2. s.ins \in Seq(ParamValues)
  BY <1>1 DEF Stmts
<1>3. /\ ps \in Seq(ParamValues) /\ Len(ps) = Len(s.ins)
      /\ \A j \in 1..Len(s.ins) : ps[j] = IF j = i THEN v ELSE s.ins[j]
  BY <1>2, ExceptSeq
<1>4. x = [st EXCEPT !.s = t, !.at = to, !.ok = fits, !.over = over]
  BY DEF Takes, SetTo
<1>5. /\ t \in Stmts /\ t.ins = ps /\ t.outs = s.outs /\ t.nIn = s.nIn /\ t.nOut = s.nOut
      /\ t.flag = s.flag /\ t.handle = s.handle
  <2> HIDE DEF ps, s
  <2> QED
    BY <1>1, <1>3 DEF Stmts
<1> HIDE DEF ps, t, x
<1>6. /\ x.s = t /\ x.at = to /\ x.ok = fits /\ x.over = over /\ x.d = st.d
      /\ to \in Nat /\ fits \in BOOLEAN /\ over \in BOOLEAN => x \in Takes
  <2> HIDE DEF s
  <2> DEFINE y == [st EXCEPT !.s = t, !.at = to, !.ok = fits, !.over = over]
  <2>1. /\ y.s = t /\ y.at = to /\ y.ok = fits /\ y.over = over /\ y.d = st.d
    BY DEF Takes
  <2>2. to \in Nat /\ fits \in BOOLEAN /\ over \in BOOLEAN => y \in Takes
    BY <1>5 DEF Takes
  <2> HIDE DEF y
  <2>3. x = y
    BY <1>4 DEF y
  <2> QED
    BY <2>1, <2>2, <2>3
<1>7. Kin(s, t)
  <2>1. \A j \in 1..Len(s.ins) : ps[j].type = s.ins[j].type
    BY <1>3
  <2> HIDE DEF s
  <2> QED
    BY <1>1, <1>3, <1>5, <2>1 DEF Kin
<1> QED
  BY <1>3, <1>5, <1>6, <1>7 DEF s, x

\* What Take reads of the data: the length in front of a string, and what
\* stands behind it.
TextOf(st, i) == IsStr(st.s.ins[i].type)
ToTake(st, i) == IF TextOf(st, i) /\ st.at < Len(st.d) THEN st.d[st.at + 1] ELSE 0
TakeFrom(st, i) == IF TextOf(st, i) THEN st.at + 1 ELSE st.at
TakeTo(st, i) == IF TextOf(st, i) THEN st.at + 1 + ToTake(st, i) ELSE st.at + 1
TakeFits(st, i) == st.at < Len(st.d) /\ TakeTo(st, i) <= Len(st.d)
Taken(st, i) ==
  [k \in 1..(TakeTo(st, i) - TakeFrom(st, i)) |->
     IF TakeFrom(st, i) + k <= Len(st.d) THEN st.d[TakeFrom(st, i) + k] ELSE Junk]

LEMMA TakeUnfolds ==
  ASSUME NEW st, NEW i
  PROVE  /\ ~st.ok => Take(st, i) = st
         /\ st.ok => Take(st, i) = [st EXCEPT !.s.ins[i] = SetData(@, Taken(st, i)),
                                      !.at = TakeTo(st, i), !.ok = TakeFits(st, i),
                                      !.over = TextOf(st, i) /\ ~TakeFits(st, i)]
BY DEF Take, TextOf, ToTake, TakeFrom, TakeTo, TakeFits, Taken

LEMMA TakenTyped ==
  ASSUME NEW st \in Takes, NEW i \in 1..Len(st.s.ins)
  PROVE  /\ Taken(st, i) \in Seq(Int) /\ TakeTo(st, i) \in Nat
         /\ TakeFits(st, i) \in BOOLEAN
<1> DEFINE d == st.d
           at == st.at
           n == ToTake(st, i)
           from == TakeFrom(st, i)
           to == TakeTo(st, i)
<1>1. d \in Seq(Nat) /\ at \in Nat
  BY DEF Takes
<1>2. n \in Nat
  <2>1. CASE TextOf(st, i) /\ at < Len(d)
    <3>1. n = d[at + 1] /\ at + 1 \in 1..Len(d)
      BY <1>1, <2>1 DEF ToTake
    <3> QED
      BY <1>1, <3>1
  <2>2. CASE ~(TextOf(st, i) /\ at < Len(d))
    BY <2>2 DEF ToTake
  <2> QED
    BY <2>1, <2>2
<1>3. from \in Nat /\ to \in Nat /\ to - from \in Nat
  <2> HIDE DEF from, to, n, at, d
  <2>1. \/ from = at + 1 /\ to = at + 1 + n
        \/ from = at /\ to = at + 1
    BY DEF TakeFrom, TakeTo, from, to, n, at
  <2> QED
    BY <1>1, <1>2, <2>1
<1>4. \A k \in 1..(to - from) : from + k <= Len(d) => d[from + k] \in Int
  <2> TAKE k \in 1..(to - from)
  <2> HAVE from + k <= Len(d)
  <2>1. from + k \in 1..Len(d)
    BY <1>1, <1>3
  <2> QED
    BY <1>1, <2>1
<1> HIDE DEF from, to, d, n, at
<1>5. Taken(st, i) = [k \in 1..(to - from) |->
                        IF from + k <= Len(d) THEN d[from + k] ELSE Junk]
  BY DEF Taken, from, to, d
<1> DEFINE r == [k \in 1..(to - from) |->
                        IF from + k <= Len(d) THEN d[from + k] ELSE Junk]
<1>6. r \in [1..(to - from) -> Int]
  BY <1>4 DEF Junk
<1> HIDE DEF r
<1>7. r \in Seq(Int)
  BY <1>3, <1>6
<1> QED
  BY <1>3, <1>5, <1>7 DEF r, to, TakeFits

LEMMA TakeIs ==
  ASSUME NEW st \in Takes, NEW i \in 1..Len(st.s.ins), Cleared(st.s.ins[i])
  PROVE  LET x == Take(st, i)
         IN  /\ x \in Takes /\ Kin(st.s, x.s) /\ x.d = st.d
             /\ \A j \in 1..Len(st.s.ins) : j # i => x.s.ins[j] = st.s.ins[j]
             /\ x.s.outs = st.s.outs
<1>1. st.s \in Stmts
  BY DEF Takes
<1>2. CASE ~st.ok
  <2>1. Take(st, i) = st /\ Kin(st.s, st.s)
    BY <1>1, <1>2, TakeUnfolds, KinOf
  <2> QED
    BY <2>1
<1>3. CASE st.ok
  <2> DEFINE v == SetData(st.s.ins[i], Taken(st, i))
             x == Take(st, i)
             over == TextOf(st, i) /\ ~TakeFits(st, i)
  <2>1. st.s.ins[i] \in ParamValues
    BY <1>1 DEF Stmts
  <2>2. v \in ParamValues /\ v.type = st.s.ins[i].type
    BY <2>1, SetDataIs, TakenTyped
  <2>3. x = [st EXCEPT !.s.ins[i] = v, !.at = TakeTo(st, i), !.ok = TakeFits(st, i),
                       !.over = over]
    BY <1>3, TakeUnfolds
  <2>4. TakeTo(st, i) \in Nat /\ TakeFits(st, i) \in BOOLEAN /\ over \in BOOLEAN
    BY TakenTyped DEF TextOf, IsStr
  <2> DEFINE to == TakeTo(st, i)
             fits == TakeFits(st, i)
  <2> HIDE DEF v, x, over, to, fits
  <2>6. x = SetTo(st, i, v, to, fits, over)
    BY <2>3 DEF to, fits, SetTo
  <2>7. to \in Nat /\ fits \in BOOLEAN
    BY <2>4 DEF to, fits
  <2>5. /\ x.d = st.d /\ Kin(st.s, x.s) /\ x.s.outs = st.s.outs /\ x \in Takes
        /\ \A j \in 1..Len(st.s.ins) : j # i => x.s.ins[j] = st.s.ins[j]
    BY <2>2, <2>6, <2>7, <2>4, TakenSet
  <2> QED
    BY <2>5 DEF x
<1> QED
  BY <1>2, <1>3

\* The data at a place are what was packed for the parameter.
PackedAt(d, at, isStr, v) ==
  IF isStr THEN /\ at + 1 + Len(v) <= Len(d) /\ d[at + 1] = Len(v)
                /\ \A k \in 1..Len(v) : d[at + 1 + k] = v[k]
  ELSE Len(v) = 1 /\ at + 1 <= Len(d) /\ d[at + 1] = v[1]

LEMMA TakePacked ==
  ASSUME NEW st \in Takes, NEW i \in 1..Len(st.s.ins), Cleared(st.s.ins[i]), st.ok,
         NEW v \in Seq(Int), Len(v) >= 1, PackedAt(st.d, st.at, TextOf(st, i), v)
  PROVE  LET x == Take(st, i)
         IN  /\ x.ok /\ ~x.over /\ x.s.ins[i] = SetData(st.s.ins[i], v)
             /\ x.at = st.at + (IF TextOf(st, i) THEN 1 + Len(v) ELSE 1)
<1> DEFINE d == st.d
           at == st.at
           n == ToTake(st, i)
           from == TakeFrom(st, i)
           to == TakeTo(st, i)
           l == Len(v)
           w == SetData(st.s.ins[i], Taken(st, i))
           x == Take(st, i)
           over == TextOf(st, i) /\ ~TakeFits(st, i)
<1>1. d \in Seq(Nat) /\ at \in Nat /\ l \in Nat /\ st.s \in Stmts
  BY DEF Takes
<1>2. /\ at < Len(d) /\ to <= Len(d) /\ from \in Nat /\ to = from + l
      /\ to = at + (IF TextOf(st, i) THEN 1 + Len(v) ELSE 1)
      /\ \A k \in 1..l : d[from + k] = v[k]
  <2>1. CASE TextOf(st, i)
    <3>1. /\ at + 1 + l <= Len(d) /\ d[at + 1] = l
          /\ \A k \in 1..l : d[at + 1 + k] = v[k]
      BY <2>1 DEF PackedAt
    <3>2. at < Len(d)
      BY <1>1, <3>1
    <3>3. n = l /\ from = at + 1 /\ to = at + 1 + l
      BY <2>1, <3>1, <3>2 DEF ToTake, TakeFrom, TakeTo
    <3> HIDE DEF n, from, to, d, at, l
    <3>4. from \in Nat /\ to = from + l /\ to = at + (1 + l)
      BY <1>1, <3>3
    <3> QED
      BY <2>1, <3>1, <3>2, <3>3, <3>4 DEF l
  <2>2. CASE ~TextOf(st, i)
    <3>1. l = 1 /\ at + 1 <= Len(d) /\ d[at + 1] = v[1]
      BY <2>2 DEF PackedAt
    <3>2. from = at /\ to = at + 1
      BY <2>2 DEF TakeFrom, TakeTo
    <3>3. \A k \in 1..l : k = 1
      BY <3>1
    <3> HIDE DEF from, to, d, at, l
    <3>4. from \in Nat /\ to = from + l /\ at < Len(d)
      BY <1>1, <3>1, <3>2
    <3> QED
      BY <2>2, <3>1, <3>2, <3>3, <3>4
  <2> QED
    BY <2>1, <2>2
<1>3. TakeFits(st, i)
  BY <1>2 DEF TakeFits
<1>4. Taken(st, i) = v
  <2> DEFINE t == Taken(st, i)
  <2>1. t = [k \in 1..(to - from) |-> IF from + k <= Len(d) THEN d[from + k] ELSE Junk]
    BY DEF Taken
  <2> HIDE DEF t, from, to, d, l, n, at
  <2>2. to - from = l /\ \A k \in 1..l : from + k <= Len(d)
    BY <1>1, <1>2
  <2>3. t = [k \in 1..l |-> IF from + k <= Len(d) THEN d[from + k] ELSE Junk]
    BY <2>1, <2>2
  <2>4. t = [k \in 1..l |-> v[k]]
    BY <2>2, <2>3, <1>2
  <2>5. v = [k \in 1..l |-> v[k]]
    BY DEF l
  <2> QED
    BY <2>4, <2>5 DEF t
<1>5. st.s.ins[i] \in ParamValues
  BY <1>1 DEF Stmts
<1>6. w \in ParamValues /\ w.type = st.s.ins[i].type
  BY <1>5, SetDataIs, TakenTyped
<1>7. x = [st EXCEPT !.s.ins[i] = w, !.at = to, !.ok = TakeFits(st, i), !.over = over]
  BY TakeUnfolds
<1>8. over = FALSE
  BY <1>3
<1> HIDE DEF w, x, over
<1>9. x.at = to /\ x.ok = TakeFits(st, i) /\ x.over = over /\ x.s.ins[i] = w
  <2> DEFINE fits == TakeFits(st, i)
  <2> HIDE DEF to, fits
  <2>1. x = SetTo(st, i, w, to, fits, over)
    BY <1>7 DEF fits, SetTo
  <2>2. x.at = to /\ x.ok = fits /\ x.over = over /\ x.s.ins[i] = w
    BY <1>6, <2>1, TakenSet
  <2> QED
    BY <2>2 DEF fits
<1> QED
  BY <1>2, <1>3, <1>4, <1>8, <1>9 DEF w, x

-----------------------------------------------------------------------------
(* Unpack.                                                                  *)

Untaken(s, d) ==
  [s |-> ResetBindData(s), d |-> d, at |-> 0, ok |-> TRUE, over |-> FALSE]

\* f takes n arguments, one after the other.
IsTaking(f, none, n) ==
  f = [i \in 0..n |-> IF i = 0 THEN none ELSE Take(f[i - 1], i)]

LEMMA TakingExists ==
  ASSUME NEW none, NEW n \in Nat PROVE \E f : IsTaking(f, none, n)
<1> DEFINE Good == {k \in Nat : \E f : IsTaking(f, none, k)}
<1>1. 0 \in Good
  <2> DEFINE f == [i \in 0..0 |-> none]
  <2>1. f = [i \in 0..0 |-> IF i = 0 THEN none ELSE Take(f[i - 1], i)]
    OBVIOUS
  <2> HIDE DEF f
  <2>2. IsTaking(f, none, 0)
    BY <2>1 DEF IsTaking
  <2> QED
    BY <2>2
<1>2. ASSUME NEW k \in Nat, k \in Good PROVE k + 1 \in Good
  <2>1. PICK f : IsTaking(f, none, k)
    BY <1>2
  <2> DEFINE v == Take(f[k], k + 1)
             g == [i \in 0..(k + 1) |-> IF i = k + 1 THEN v ELSE f[i]]
  <2>2. ASSUME NEW i \in 0..(k + 1)
        PROVE  g[i] = IF i = 0 THEN none ELSE Take(g[i - 1], i)
    <3>1. CASE i = k + 1
      <4>1. g[i] = v /\ g[i - 1] = f[k] /\ i # 0
        BY <3>1
      <4> QED
        BY <3>1, <4>1
    <3>2. CASE i # k + 1
      <4>1. i \in 0..k /\ g[i] = f[i] /\ (i # 0 => g[i - 1] = f[i - 1])
        BY <3>2
      <4>2. f[i] = IF i = 0 THEN none ELSE Take(f[i - 1], i)
        BY <4>1, <2>1 DEF IsTaking
      <4> HIDE DEF g
      <4> QED
        BY <4>1, <4>2
    <3> QED
      BY <3>1, <3>2
  <2>3. g = [i \in 0..(k + 1) |-> g[i]]
    OBVIOUS
  <2> HIDE DEF g
  <2>4. IsTaking(g, none, k + 1)
    BY <2>2, <2>3 DEF IsTaking
  <2> QED
    BY <2>4
<1> HIDE DEF Good
<1>3. Nat \subseteq Good
  BY <1>1, <1>2, SetInduction
<1> QED
  BY <1>3 DEF Good

LEMMA UnpackIs ==
  ASSUME NEW s, s.nIn \in Nat, NEW d
  PROVE  \E f : /\ f[0] = Untaken(s, d) /\ Unpack(s, d) = f[s.nIn]
                /\ \A i \in 1..s.nIn : f[i] = Take(f[i - 1], i)
<1> DEFINE none == Untaken(s, d)
           n == s.nIn
           f == CHOOSE h : IsTaking(h, none, n)
<1>1. Unpack(s, d) = f[n]
  BY DEF Unpack, IsTaking, Untaken
<1> HIDE DEF none
<1>2. IsTaking(f, none, n)
  BY TakingExists
<1> HIDE DEF f, n
<1>3. n \in Nat
  BY DEF n
<1>4. f[0] = none /\ \A i \in 1..n : f[i] = Take(f[i - 1], i)
  BY <1>2, <1>3 DEF IsTaking
<1> QED
  BY <1>1, <1>4 DEF none, n

LEMMA UntakenIs ==
  ASSUME NEW s \in Stmts, NEW d \in Seq(Nat)
  PROVE  Untaken(s, d) \in Takes
<1>1. ResetBindData(s) \in Stmts
  BY ResetBindDataIs DEF Kin
<1> QED
  BY <1>1 DEF Untaken, Takes

\* What x has left of the statement s, with arguments taken up to the i-th.
Taking(s, d, i, x) ==
  /\ x \in Takes /\ x.d = d /\ Kin(s, x.s)
  /\ x.s.outs = ResetBindData(s).outs
  /\ \A j \in 1..Len(s.ins) : j > i => x.s.ins[j] = ResetParam(s.ins[j])

LEMMA TakingStarts ==
  ASSUME NEW s \in Stmts, NEW d \in Seq(Nat)
  PROVE  Taking(s, d, 0, Untaken(s, d))
<1>1. Untaken(s, d) \in Takes
  BY UntakenIs
<1>2. Untaken(s, d).d = d /\ Untaken(s, d).s = ResetBindData(s)
  BY DEF Untaken
<1> QED
  BY <1>1, <1>2, ResetBindDataIs DEF Taking

LEMMA TakingCleared ==
  ASSUME NEW s \in Stmts, NEW d, NEW i \in Nat, NEW x, Taking(s, d, i, x),
         i + 1 \in 1..Len(s.ins)
  PROVE  /\ i + 1 \in 1..Len(x.s.ins) /\ Cleared(x.s.ins[i + 1])
         /\ x.s.ins[i + 1] = ResetParam(s.ins[i + 1])
<1>1. s.ins[i + 1] \in ParamValues
  BY DEF Stmts
<1>2. i + 1 > i
  OBVIOUS
<1>3. x.s.ins[i + 1] = ResetParam(s.ins[i + 1]) /\ Len(x.s.ins) = Len(s.ins)
  BY <1>2 DEF Taking, Kin
<1>4. Cleared(ResetParam(s.ins[i + 1]))
  BY <1>1, ResetIs
<1> QED
  BY <1>3, <1>4

LEMMA TakingGoesOn ==
  ASSUME NEW s \in Stmts, NEW d, NEW i \in Nat, NEW x, Taking(s, d, i, x),
         i + 1 \in 1..Len(s.ins)
  PROVE  Taking(s, d, i + 1, Take(x, i + 1))
<1> DEFINE y == Take(x, i + 1)
<1>1. x \in Takes /\ x.d = d /\ Kin(s, x.s) /\ x.s.outs = ResetBindData(s).outs
      /\ Len(x.s.ins) = Len(s.ins)
  BY DEF Taking, Kin
<1>2. i + 1 \in 1..Len(x.s.ins) /\ Cleared(x.s.ins[i + 1])
  BY TakingCleared
<1>3. /\ y \in Takes /\ Kin(x.s, y.s) /\ y.d = x.d
      /\ \A j \in 1..Len(x.s.ins) : j # i + 1 => y.s.ins[j] = x.s.ins[j]
      /\ y.s.outs = x.s.outs
  BY <1>1, <1>2, TakeIs
<1> HIDE DEF y
<1>4. Kin(s, y.s)
  BY <1>1, <1>3, KinAgain
<1>5. ASSUME NEW j \in 1..Len(s.ins), j > i + 1
      PROVE  y.s.ins[j] = ResetParam(s.ins[j])
  <2>1. j # i + 1 /\ j > i
    BY <1>5
  <2> QED
    BY <1>1, <1>3, <2>1 DEF Taking
<1> QED
  BY <1>1, <1>3, <1>4, <1>5 DEF Taking, y

\* Whatever the data: the statement is the same, its results are reset, and
\* nothing was taken for parameters it has not.
LEMMA UnpackTyped ==
  ASSUME NEW s \in Stmts, s.nIn = Len(s.ins), NEW d \in Seq(Nat)
  PROVE  Taking(s, d, s.nIn, Unpack(s, d))
<1> DEFINE n == s.nIn
<1>1. n \in Nat
  BY DEF Stmts
<1>2. PICK f : /\ f[0] = Untaken(s, d) /\ Unpack(s, d) = f[n]
               /\ \A i \in 1..n : f[i] = Take(f[i - 1], i)
  BY <1>1, UnpackIs
<1> DEFINE Good == {i \in Nat : i <= n => Taking(s, d, i, f[i])}
<1>3. 0 \in Good
  BY <1>2, TakingStarts
<1>4. ASSUME NEW i \in Nat, i \in Good PROVE i + 1 \in Good
  <2> SUFFICES ASSUME i + 1 <= n PROVE Taking(s, d, i + 1, f[i + 1])
    OBVIOUS
  <2>1. i + 1 \in 1..n /\ i + 1 - 1 = i /\ i <= n
    BY <1>1
  <2>2. f[i + 1] = Take(f[i], i + 1)
    BY <1>2, <2>1
  <2>3. Taking(s, d, i, f[i])
    BY <1>4, <2>1
  <2>4. Taking(s, d, i + 1, Take(f[i], i + 1))
    BY <2>1, <2>3, TakingGoesOn
  <2> QED
    BY <2>2, <2>4
<1> HIDE DEF Good
<1>5. Nat \subseteq Good
  BY <1>3, <1>4, SetInduction
<1> QED
  BY <1>1, <1>2, <1>5 DEF Good

-----------------------------------------------------------------------------
(* What was packed.                                                         *)

Piece(p, v) == IF IsStr(p.type) THEN <<Len(v)>> \o v ELSE v
Pieces(ps, vs) == [i \in DOMAIN vs |-> Piece(ps[i], vs[i])]

LEMMA PackedIs ==
  ASSUME NEW ps, NEW vs
  PROVE  Packed(ps, vs) = FlattenSeq(Pieces(ps, vs))
BY DEF Packed, Pieces, Piece

LEMMA PieceIs ==
  ASSUME NEW p, NEW v \in Seq(Int)
  PROVE  /\ Piece(p, v) \in Seq(Int)
         /\ IsStr(p.type) => /\ Len(Piece(p, v)) = Len(v) + 1 /\ Piece(p, v)[1] = Len(v)
                             /\ \A k \in 1..Len(v) : Piece(p, v)[k + 1] = v[k]
         /\ ~IsStr(p.type) => Piece(p, v) = v
<1>1. CASE ~IsStr(p.type)
  BY <1>1 DEF Piece
<1>2. CASE IsStr(p.type)
  <2> DEFINE l == Len(v)
             h == <<l>>
             x == h \o v
  <2>1. l \in Nat /\ h \in Seq(Int) /\ Len(h) = 1 /\ h[1] = l
    OBVIOUS
  <2> HIDE DEF h
  <2>2. /\ x \in Seq(Int) /\ Len(x) = 1 + l
        /\ \A i \in 1..(1 + l) : x[i] = IF i <= 1 THEN h[i] ELSE v[i - 1]
    <3>1. v \in Seq(Int) /\ Len(v) = l
      OBVIOUS
    <3> HIDE DEF l
    <3>2. /\ x \in Seq(Int) /\ Len(x) = Len(h) + Len(v)
          /\ \A i \in 1..(Len(h) + Len(v)) :
               x[i] = IF i <= Len(h) THEN h[i] ELSE v[i - Len(h)]
      BY ONLY <2>1, <3>1, ConcatProperties, Zenon
    <3> QED
      BY ONLY <2>1, <3>1, <3>2
  <2>3. Piece(p, v) = x
    BY <1>2 DEF Piece, h
  <2> HIDE DEF x, l
  <2>4. Len(x) = l + 1 /\ x[1] = l
    BY <2>1, <2>2
  <2>5. \A k \in 1..l : x[k + 1] = v[k]
    <3> TAKE k \in 1..l
    <3>1. k + 1 \in 1..(1 + l) /\ ~(k + 1 <= 1) /\ (k + 1) - 1 = k
      BY <2>1
    <3> QED
      BY <3>1, <2>2
  <2> QED
    BY <1>2, <2>2, <2>3, <2>4, <2>5 DEF l
<1> QED
  BY <1>1, <1>2

LEMMA PiecesAre ==
  ASSUME NEW ps, NEW vs \in Seq(Seq(Int))
  PROVE  /\ Pieces(ps, vs) \in Seq(Seq(Int)) /\ Len(Pieces(ps, vs)) = Len(vs)
         /\ \A i \in 1..Len(vs) : Pieces(ps, vs)[i] = Piece(ps[i], vs[i])
<1> DEFINE n == Len(vs)
           q == [i \in 1..n |-> Piece(ps[i], vs[i])]
<1>1. n \in Nat /\ DOMAIN vs = 1..n
  OBVIOUS
<1>2. \A i \in 1..n : Piece(ps[i], vs[i]) \in Seq(Int)
  BY PieceIs
<1>3. Pieces(ps, vs) = q
  BY <1>1 DEF Pieces
<1> HIDE DEF n
<1>4. q \in [1..n -> Seq(Int)]
  BY <1>2
<1>5. q \in Seq(Seq(Int)) /\ Len(q) = n
  BY <1>1, <1>4, IsASeq
<1> QED
  BY <1>3, <1>5 DEF n

LEMMA PrefixPlaces ==
  ASSUME NEW x \in Seq(Int), NEW d \in Seq(Int), IsPrefix(x, d)
  PROVE  Len(x) <= Len(d) /\ \A p \in 1..Len(x) : d[p] = x[p]
<1> DEFINE n == Len(x)
<1>1. n \in Nat /\ Len(d) \in Nat /\ n <= Len(d) /\ SubSeq(x, 1, n) = SubSeq(d, 1, n)
  BY DEF IsPrefix
<1> HIDE DEF n
<1>2. \A i \in 1..n : x[i] \in Int /\ d[i] \in Int
  BY <1>1 DEF n
<1>3. \A i \in 1..(n - 1 + 1) : SubSeq(x, 1, n)[i] = x[1 + i - 1]
  BY <1>1, <1>2, SubSeqProperties
<1>4. \A i \in 1..(n - 1 + 1) : SubSeq(d, 1, n)[i] = d[1 + i - 1]
  BY <1>1, <1>2, SubSeqProperties
<1>5. \A i \in 1..n : i \in 1..(n - 1 + 1) /\ 1 + i - 1 = i
  BY <1>1
<1>6. \A i \in 1..n : d[i] = x[i]
  <2> TAKE i \in 1..n
  <2>1. SubSeq(x, 1, n)[i] = x[i] /\ SubSeq(d, 1, n)[i] = d[i]
    BY <1>3, <1>4, <1>5
  <2> QED
    BY <1>1, <2>1
<1> QED
  BY <1>1, <1>6 DEF n

\* The values suit the parameters.
Suits(ps, vs) ==
  /\ vs \in Seq(Seq(Int)) /\ Len(vs) = Len(ps)
  /\ \A i \in 1..Len(ps) :
       Len(vs[i]) \in 1..(IF IsStr(ps[i].type) THEN ps[i].type.n ELSE 1)

LEMMA CutsAre ==
  ASSUME NEW d \in Seq(Nat)
  PROVE  Cuts(d) \subseteq Seq(Int)
<1>1. ASSUME NEW i \in DOMAIN d, NEW j \in DOMAIN d PROVE SubSeq(d, i, j) \in Seq(Int)
  <2>1. \A k \in i..j : d[k] \in Int
    OBVIOUS
  <2>2. i \in Int /\ j \in Int
    OBVIOUS
  <2> QED
    BY <2>1, <2>2, SubSeqProperties
<1>2. \A x \in Cuts(d) : \E i \in DOMAIN d, j \in DOMAIN d : x = SubSeq(d, i, j)
  BY DEF Cuts
<1> QED
  BY <1>1, <1>2

LEMMA WellPackedSuits ==
  ASSUME NEW ps \in Seq(ParamValues), NEW d \in Seq(Nat), WellPacked(ps, d)
  PROVE  \E vs : Suits(ps, vs) /\ IsPrefix(Packed(ps, vs), d)
<1>1. PICK vs \in [DOMAIN ps -> Cuts(d)] :
        /\ \A i \in DOMAIN ps :
             Len(vs[i]) \in 1..(IF IsStr(ps[i].type) THEN ps[i].type.n ELSE 1)
        /\ IsPrefix(Packed(ps, vs), d)
  BY Zenon DEF WellPacked
<1>2. DOMAIN ps = 1..Len(ps) /\ Len(ps) \in Nat
  OBVIOUS
<1>4. vs \in [1..Len(ps) -> Seq(Int)]
  <2>1. \A i \in DOMAIN ps : vs[i] \in Seq(Int)
    BY CutsAre
  <2> QED
    BY <1>2, <2>1
<1>5. vs \in Seq(Seq(Int)) /\ Len(vs) = Len(ps)
  BY SMTT(30), <1>2, <1>4, IsASeq
<1>6. Suits(ps, vs)
  <2>1. \A i \in 1..Len(ps) :
             Len(vs[i]) \in 1..(IF IsStr(ps[i].type) THEN ps[i].type.n ELSE 1)
    BY <1>1, <1>2, Zenon
  <2> QED
    BY <1>5, <2>1, Zenon DEF Suits
<1> QED
  BY <1>1, <1>6, Zenon

\* What stands in the data at the start of each value.
LEMMA SuitsPlaces ==
  ASSUME NEW ps \in Seq(ParamValues), NEW d \in Seq(Nat), NEW vs, Suits(ps, vs),
         IsPrefix(Packed(ps, vs), d), NEW i \in Nat, i + 1 \in 1..Len(ps)
  PROVE  LET q == Pieces(ps, vs)
             text == IsStr(ps[i + 1].type)
         IN  /\ PackedAt(d, StartOf(q, i), text, vs[i + 1])
             /\ StartOf(q, i + 1) = StartOf(q, i) + (IF text THEN 1 + Len(vs[i + 1]) ELSE 1)
<1> DEFINE q == Pieces(ps, vs)
           F == FlattenSeq(q)
           at == StartOf(q, i)
           v == vs[i + 1]
           text == IsStr(ps[i + 1].type)
           l == Len(v)
<1>1. /\ q \in Seq(Seq(Int)) /\ Len(q) = Len(ps) /\ q[i + 1] = Piece(ps[i + 1], v)
      /\ v \in Seq(Int) /\ l \in Nat /\ l >= 1 /\ (~text => l = 1) /\ Len(ps) \in Nat
  <2>1. vs \in Seq(Seq(Int)) /\ Len(vs) = Len(ps) /\ i + 1 \in 1..Len(vs)
        /\ Len(ps) \in Nat
    BY DEF Suits
  <2>2. q \in Seq(Seq(Int)) /\ Len(q) = Len(ps) /\ q[i + 1] = Piece(ps[i + 1], v)
    BY <2>1, PiecesAre
  <2>3. l \in 1..(IF text THEN ps[i + 1].type.n ELSE 1) /\ v \in Seq(Int)
    BY <2>1 DEF Suits
  <2>4. l \in Nat
    BY <2>3
  <2> HIDE DEF l, text
  <2>5. l >= 1 /\ (~text => l = 1)
    BY <2>3, <2>4
  <2> QED
    BY <2>1, <2>2, <2>3, <2>4, <2>5
<1>2. F \in Seq(Int) /\ Len(F) <= Len(d) /\ \A p \in 1..Len(F) : d[p] = F[p]
  <2>1. F \in Seq(Int)
    BY <1>1, FlattenType
  <2>2. Packed(ps, vs) = F
    BY PackedIs
  <2>3. d \in Seq(Int)
    OBVIOUS
  <2> HIDE DEF F
  <2> QED
    BY <2>1, <2>2, <2>3, PrefixPlaces
<1> HIDE DEF q, v
<1>3. i \in 0..(Len(q) - 1) /\ i \in 0..Len(q)
  BY <1>1
<1>4. /\ at \in Nat /\ StartOf(q, i + 1) = at + Len(q[i + 1])
  BY <1>1, <1>3, StartFacts
<1>5. \A k \in 1..Len(q[i + 1]) : at + k \in 1..Len(F) /\ F[at + k] = q[i + 1][k]
  BY <1>1, <1>3, FlattenPlace
<1>6. \A k \in 1..Len(q[i + 1]) : at + k <= Len(d) /\ d[at + k] = q[i + 1][k]
  <2> TAKE k \in 1..Len(q[i + 1])
  <2>1. at + k \in 1..Len(F) /\ F[at + k] = q[i + 1][k]
    BY <1>5
  <2> HIDE DEF F, at
  <2>2. Len(F) \in Nat /\ Len(d) \in Nat
    BY <1>2
  <2> QED
    BY SMTT(30), <2>1, <2>2, <1>2
<1> HIDE DEF at, F
<1>7. CASE text
  <2> DEFINE w == Piece(ps[i + 1], v)
  <2>1. /\ Len(w) = l + 1 /\ w[1] = l /\ \A k \in 1..l : w[k + 1] = v[k]
    BY <1>1, <1>7, PieceIs
  <2>2. q[i + 1] = w
    BY <1>1
  <2> HIDE DEF w, l, text
  <2>3. \A k \in 1..(l + 1) : at + k <= Len(d) /\ d[at + k] = w[k]
    BY <1>6, <2>1, <2>2
  <2>4. l \in Nat /\ at \in Nat /\ l >= 1
    BY <1>1, <1>4
  <2>5. at + (l + 1) <= Len(d) /\ at + (l + 1) = at + 1 + l /\ d[at + 1] = l
    <3>1. l + 1 \in 1..(l + 1) /\ 1 \in 1..(l + 1)
      BY <2>4
    <3>2. at + (l + 1) = at + 1 + l
      BY <2>4
    <3> QED
      BY <2>1, <2>3, <3>1, <3>2
  <2>6. \A k \in 1..l : d[at + 1 + k] = v[k]
    <3> TAKE k \in 1..l
    <3>1. k + 1 \in 1..(l + 1) /\ at + (k + 1) = at + 1 + k
      BY <2>4
    <3> QED
      BY <2>1, <2>3, <3>1
  <2>7. PackedAt(d, at, TRUE, v)
    BY <2>5, <2>6 DEF PackedAt, l
  <2>8. StartOf(q, i + 1) = at + (1 + l)
    <3>1. StartOf(q, i + 1) = at + Len(w) /\ Len(w) = l + 1
      BY <1>4, <2>1, <2>2
    <3> DEFINE lw == Len(w)
               so == StartOf(q, i + 1)
    <3> HIDE DEF lw, so
    <3>2. so = at + lw /\ lw = l + 1 /\ l \in Nat /\ at \in Nat
      BY <3>1, <2>4 DEF lw, so
    <3>3. so = at + (1 + l)
      BY ONLY <3>2
    <3> QED
      BY <3>3 DEF so
  <2>9. text = TRUE
    BY <1>7 DEF text, IsStr
  <2> QED
    BY <2>7, <2>8, <2>9 DEF at, v, l, q, text
<1>8. CASE ~text
  <2>1. q[i + 1] = v
    BY <1>1, <1>8, PieceIs
  <2>2. l = 1 /\ at + 1 <= Len(d) /\ d[at + 1] = v[1]
    <3>1. l = 1
      BY <1>1, <1>8
    <3>2. 1 \in 1..Len(q[i + 1])
      BY <2>1, <3>1
    <3> QED
      BY <1>6, <2>1, <3>1, <3>2
  <2>3. PackedAt(d, at, FALSE, v)
    BY <2>2 DEF PackedAt
  <2>4. StartOf(q, i + 1) = at + 1
    BY <1>4, <2>1, <2>2
  <2>5. text = FALSE
    BY <1>8 DEF text, IsStr
  <2> QED
    BY <2>3, <2>4, <2>5 DEF at, v, q, text
<1> QED
  BY <1>7, <1>8

\* The first i arguments were taken as they were packed.
TakingPacked(s, vs, i, x) ==
  /\ x.ok /\ ~x.over /\ x.at = StartOf(Pieces(s.ins, vs), i)
  /\ \A j \in 1..Len(s.ins) : j <= i => Ready(x.s.ins[j]) /\ Sent(x.s.ins[j]) = vs[j]

LEMMA PackedGoesOn ==
  ASSUME NEW s \in Stmts, NEW d \in Seq(Nat), NEW vs, Suits(s.ins, vs),
         IsPrefix(Packed(s.ins, vs), d), \A j \in 1..Len(s.ins) : Ready(s.ins[j]),
         NEW i \in Nat, i + 1 \in 1..Len(s.ins),
         NEW x, Taking(s, d, i, x), TakingPacked(s, vs, i, x)
  PROVE  TakingPacked(s, vs, i + 1, Take(x, i + 1))
<1> DEFINE q == Pieces(s.ins, vs)
           v == vs[i + 1]
           p == s.ins[i + 1]
           r == ResetParam(p)
           y == Take(x, i + 1)
<1>1. s.ins \in Seq(ParamValues) /\ p \in ParamValues
  BY DEF Stmts
<1>2. /\ r \in ParamValues /\ r.type = p.type /\ Cleared(r) /\ Ready(r)
  BY <1>1, ResetIs
<1>3. /\ x \in Takes /\ x.d = d /\ Kin(s, x.s) /\ x.ok
      /\ x.at = StartOf(q, i) /\ i + 1 \in 1..Len(x.s.ins) /\ x.s.ins[i + 1] = r
      /\ Len(x.s.ins) = Len(s.ins)
  BY TakingCleared DEF Taking, TakingPacked, Kin
<1>4. /\ PackedAt(d, StartOf(q, i), IsStr(p.type), v)
      /\ StartOf(q, i + 1) = StartOf(q, i) + (IF IsStr(p.type) THEN 1 + Len(v) ELSE 1)
  BY <1>1, SuitsPlaces
<1>5. /\ v \in Seq(Int) /\ Len(v) >= 1 /\ (IsStr(p.type) => Len(v) \in 1..p.type.n)
  <2>1. vs \in Seq(Seq(Int)) /\ i + 1 \in 1..Len(vs)
    BY DEF Suits
  <2>2. v \in Seq(Int)
    BY <2>1
  <2>3. Len(v) \in 1..(IF IsStr(p.type) THEN p.type.n ELSE 1)
    BY DEF Suits
  <2>4. Len(v) \in Nat
    BY <2>2
  <2> HIDE DEF v, p
  <2> QED
    BY <2>2, <2>3, <2>4
<1> HIDE DEF q, v, p, r
<1>6. TextOf(x, i + 1) = IsStr(p.type)
  BY <1>2, <1>3 DEF TextOf
<1>7. /\ y.ok /\ ~y.over /\ y.s.ins[i + 1] = SetData(r, v)
      /\ y.at = x.at + (IF IsStr(p.type) THEN 1 + Len(v) ELSE 1)
  <2>1. PackedAt(x.d, x.at, TextOf(x, i + 1), v)
    BY <1>3, <1>4, <1>6
  <2>2. Cleared(x.s.ins[i + 1])
    BY <1>2, <1>3
  <2> QED
    BY SMTT(30), <2>1, <2>2, <1>3, <1>5, <1>6, TakePacked
<1>8. \A j \in 1..Len(s.ins) : j # i + 1 => y.s.ins[j] = x.s.ins[j]
  BY <1>2, <1>3, TakeIs
<1> HIDE DEF y
<1>9. Ready(SetData(r, v)) /\ Sent(SetData(r, v)) = v
  BY <1>2, <1>5, SetDataHolds
<1>10. y.at = StartOf(q, i + 1)
  BY <1>3, <1>4, <1>7
<1>11. ASSUME NEW j \in 1..Len(s.ins), j <= i + 1
       PROVE  Ready(y.s.ins[j]) /\ Sent(y.s.ins[j]) = vs[j]
  <2>1. CASE j = i + 1
    BY <1>7, <1>9, <2>1 DEF v
  <2>2. CASE j # i + 1
    <3>1. j <= i /\ y.s.ins[j] = x.s.ins[j]
      BY <1>8, <1>11, <2>2
    <3> QED
      BY <3>1 DEF TakingPacked
  <2> QED
    BY <2>1, <2>2
<1> QED
  BY <1>7, <1>10, <1>11 DEF TakingPacked, q, y

\* A request that is well packed, for parameters that still have the memory
\* that was bound: every argument gets to the server.
LEMMA UnpackPacked ==
  ASSUME NEW s \in Stmts, s.nIn = Len(s.ins), NEW d \in Seq(Nat),
         \A j \in 1..Len(s.ins) : Ready(s.ins[j]), WellPacked(s.ins, d)
  PROVE  LET x == Unpack(s, d)
             args == [i \in DOMAIN x.s.ins |-> Sent(x.s.ins[i])]
         IN  /\ x.ok /\ ~x.over /\ \A j \in 1..Len(s.ins) : Ready(x.s.ins[j])
             /\ DOMAIN args = DOMAIN s.ins /\ IsPrefix(Packed(s.ins, args), d)
<1> DEFINE n == s.nIn
           x == Unpack(s, d)
           args == [i \in DOMAIN x.s.ins |-> Sent(x.s.ins[i])]
<1>1. n \in Nat /\ s.ins \in Seq(ParamValues)
  BY DEF Stmts
<1>2. PICK f : /\ f[0] = Untaken(s, d) /\ Unpack(s, d) = f[n]
               /\ \A i \in 1..n : f[i] = Take(f[i - 1], i)
  BY <1>1, UnpackIs
<1>3. PICK vs : Suits(s.ins, vs) /\ IsPrefix(Packed(s.ins, vs), d)
  BY <1>1, WellPackedSuits
<1> DEFINE Good == {i \in Nat : i <= n => Taking(s, d, i, f[i])
                                          /\ TakingPacked(s, vs, i, f[i])}
<1>4. 0 \in Good
  <2>1. Taking(s, d, 0, f[0])
    BY <1>2, TakingStarts
  <2>2. vs \in Seq(Seq(Int))
    BY <1>3 DEF Suits
  <2>3. StartOf(Pieces(s.ins, vs), 0) = 0
    BY <2>2, PiecesAre, StartFacts
  <2>4. f[0].ok /\ ~f[0].over /\ f[0].at = 0
    BY <1>2 DEF Untaken
  <2>5. \A j \in 1..Len(s.ins) : ~(j <= 0)
    OBVIOUS
  <2>6. TakingPacked(s, vs, 0, f[0])
    BY <2>3, <2>4, <2>5 DEF TakingPacked
  <2> QED
    BY <2>1, <2>6
<1>5. ASSUME NEW i \in Nat, i \in Good PROVE i + 1 \in Good
  <2> SUFFICES ASSUME i + 1 <= n
               PROVE  Taking(s, d, i + 1, f[i + 1]) /\ TakingPacked(s, vs, i + 1, f[i + 1])
    OBVIOUS
  <2>1. i + 1 \in 1..n /\ i + 1 - 1 = i /\ i <= n
    BY <1>1
  <2>2. f[i + 1] = Take(f[i], i + 1)
    BY <1>2, <2>1
  <2>3. Taking(s, d, i, f[i]) /\ TakingPacked(s, vs, i, f[i])
    BY <1>5, <2>1
  <2>4. i + 1 \in 1..Len(s.ins)
    BY <2>1
  <2> HIDE DEF n, Good
  <2>5. Taking(s, d, i + 1, Take(f[i], i + 1))
    BY <2>4, <2>3, TakingGoesOn
  <2>6. TakingPacked(s, vs, i + 1, Take(f[i], i + 1))
    BY <2>4, <2>3, <1>3, PackedGoesOn
  <2> QED
    BY <2>2, <2>5, <2>6
<1> HIDE DEF Good
<1>6. Nat \subseteq Good
  BY <1>4, <1>5, SetInduction
<1>7. Taking(s, d, n, x) /\ TakingPacked(s, vs, n, x)
  <2> HIDE DEF n, x
  <2>1. n \in Good /\ n <= n
    BY <1>1, <1>6
  <2> QED
    BY <2>1, <1>2 DEF Good, x
<1> HIDE DEF x
<1>8. x.ok /\ ~x.over /\ \A j \in 1..n : Ready(x.s.ins[j]) /\ Sent(x.s.ins[j]) = vs[j]
  BY <1>7 DEF TakingPacked
<1>9. x.s.ins \in Seq(ParamValues) /\ DOMAIN x.s.ins = 1..n /\ DOMAIN s.ins = 1..n
  <2>1. x.s \in Stmts /\ Len(x.s.ins) = n
    BY <1>7 DEF Taking, Kin
  <2> QED
    BY <1>1, <2>1 DEF Stmts
<1>10. args = [i \in 1..n |-> vs[i]]
  BY <1>8, <1>9
<1>11. vs = [i \in 1..n |-> vs[i]]
  BY <1>3 DEF Suits
<1> QED
  BY <1>3, <1>8, <1>9, <1>10, <1>11 DEF x

-----------------------------------------------------------------------------
(* Nodes.                                                                   *)

LEMMA InThree ==
  ASSUME NEW x \in Seq(Int), NEW y \in Seq(Int), NEW z \in Seq(Int)
  PROVE  (x \o y) \o z = x \o (y \o z)
<1> DEFINE a == Len(x)
           b == Len(y)
           c == Len(z)
           h == x \o y
           t == y \o z
           l == h \o z
           r == x \o t
<1>1. a \in Nat /\ b \in Nat /\ c \in Nat
  OBVIOUS
<1>2. /\ h \in Seq(Int) /\ Len(h) = a + b
      /\ \A i \in 1..(a + b) : h[i] = IF i <= a THEN x[i] ELSE y[i - a]
  BY ConcatProperties
<1>3. /\ t \in Seq(Int) /\ Len(t) = b + c
      /\ \A i \in 1..(b + c) : t[i] = IF i <= b THEN y[i] ELSE z[i - b]
  BY ConcatProperties
<1> HIDE DEF a, b, c, h, t
<1>4. /\ l \in Seq(Int) /\ Len(l) = (a + b) + c
      /\ \A i \in 1..((a + b) + c) : l[i] = IF i <= a + b THEN h[i] ELSE z[i - (a + b)]
  BY <1>2, ConcatProperties DEF c
<1>5. /\ r \in Seq(Int) /\ Len(r) = a + (b + c)
      /\ \A i \in 1..(a + (b + c)) : r[i] = IF i <= a THEN x[i] ELSE t[i - a]
  BY <1>3, ConcatProperties DEF a
<1> HIDE DEF l, r
<1>6. \A i \in 1..((a + b) + c) : l[i] = r[i]
  <2> TAKE i \in 1..((a + b) + c)
  <2>1. i \in 1..(a + (b + c)) /\ i \in Int
    BY ONLY <1>1
  <2>2. CASE i <= a
    <3>1. i \in 1..(a + b) /\ i <= a + b
      BY ONLY <1>1, <2>1, <2>2
    <3>2. l[i] = h[i] /\ h[i] = x[i] /\ r[i] = x[i]
      BY ONLY <3>1, <2>1, <2>2, <1>2, <1>4, <1>5
    <3> QED
      BY <3>2
  <2>3. CASE ~(i <= a) /\ i <= a + b
    <3>1. i \in 1..(a + b) /\ i - a \in 1..(b + c) /\ i - a <= b
      BY ONLY <1>1, <2>1, <2>3
    <3>2. l[i] = h[i] /\ h[i] = y[i - a] /\ r[i] = t[i - a] /\ t[i - a] = y[i - a]
      BY ONLY <3>1, <2>1, <2>3, <1>2, <1>3, <1>4, <1>5
    <3> QED
      BY <3>2
  <2>4. CASE ~(i <= a + b)
    <3>1. /\ ~(i <= a) /\ i - a \in 1..(b + c) /\ ~(i - a <= b)
          /\ (i - a) - b = i - (a + b)
      BY ONLY <1>1, <2>1, <2>4
    <3>2. l[i] = z[i - (a + b)] /\ r[i] = t[i - a] /\ t[i - a] = z[(i - a) - b]
      BY ONLY <3>1, <2>1, <2>4, <1>3, <1>4, <1>5
    <3> QED
      BY <3>1, <3>2
  <2> QED
    BY <2>2, <2>3, <2>4
<1>7. l = r
  <2> DEFINE n == (a + b) + c
  <2>1. a + (b + c) = n /\ n \in Nat
    BY ONLY <1>1
  <2> HIDE DEF n
  <2>2. Len(l) = n /\ Len(r) = n /\ l \in Seq(Int) /\ r \in Seq(Int)
    BY <2>1, <1>4, <1>5 DEF n
  <2>3. \A i \in 1..n : l[i] = r[i]
    BY <1>6 DEF n
  <2> QED
    BY <2>2, <2>3, SeqEqual
<1> QED
  BY <1>7 DEF l, r, h, t

\* Nodes with other memory.
NodesWith(nb, off, b) == [nb EXCEPT !.offset = off, !.buf = b]

LEMMA NodesWrite ==
  ASSUME NEW nb, Roomy(nb), NEW d \in Seq(Int), NEW off \in Nat \cup {NoOffset}
  PROVE  LET n == NodesWith(nb, off, WriteBuf(nb.buf, d))
         IN  /\ Roomy(n) /\ n.count = nb.count /\ n.offset = off
             /\ n.buf = WriteBuf(nb.buf, d)
             /\ n.buf.size = nb.buf.size + Len(d)
             /\ Contents(n.buf) = Contents(nb.buf) \o d
<1> DEFINE b == nb.buf
           c == WriteBuf(b, d)
           n == NodesWith(nb, off, c)
<1>1. Filled(b) /\ b.type = "new" /\ ResultRoom <= Len(b.mem) /\ Len(b.mem) \in Nat
      /\ ResultRoom >= 1 /\ ResultRoom \in Nat
  BY StmtAssumption DEF Roomy, Filled, Buffers
<1>2. Len(b.mem) >= 1
  BY <1>1
<1>3. /\ Filled(c) /\ c.type = "new" /\ c.size = b.size + Len(d)
      /\ Len(c.mem) >= Len(b.mem) /\ Contents(c) = Contents(b) \o d
  BY <1>1, <1>2, WriteBufAppends
<1> HIDE DEF c
<1>4. c \in Buffers /\ ResultRoom <= Len(c.mem)
  <2>1. c \in Buffers /\ Len(c.mem) \in Nat
    BY <1>3 DEF Filled, Buffers
  <2> QED
    BY <2>1, <1>1, <1>3
<1>5. /\ n.count = nb.count /\ n.offset = off /\ n.buf = c
      /\ n \in [buf : Buffers, count : Nat, offset : Nat \cup {NoOffset}]
  BY <1>4 DEF Roomy, NodesWith
<1> HIDE DEF n, b
<1>6. Roomy(n)
  BY <1>3, <1>4, <1>5 DEF Roomy
<1> QED
  BY <1>3, <1>5, <1>6 DEF n, c, b

LEMMA NodesFacts ==
  ASSUME NEW nb, Roomy(nb)
  PROVE  /\ nb.buf \in Buffers /\ Filled(nb.buf) /\ nb.buf.size \in Nat /\ nb.count \in Nat
         /\ nb.offset \in Nat \cup {NoOffset}
         /\ nb.buf.type = "new" /\ Len(nb.buf.mem) \in Nat
         /\ ResultRoom <= Len(nb.buf.mem) /\ ResultRoom \in Nat
         /\ nb.buf.size <= Len(nb.buf.mem)
         /\ Contents(nb.buf) \in Seq(Int) /\ Len(Contents(nb.buf)) = nb.buf.size
<1>1. Filled(nb.buf)
  BY DEF Roomy
<1>2. Contents(nb.buf) \in Seq(Int) /\ Len(Contents(nb.buf)) = nb.buf.size
  BY <1>1, ContentsAre
<1> QED
  BY <1>1, <1>2, StmtAssumption DEF Roomy, Filled, Buffers

LEMMA StartWriteIs ==
  ASSUME NEW nb, Roomy(nb)
  PROVE  LET n == StartWrite(nb)
         IN  /\ Roomy(n) /\ n.count = nb.count /\ n.offset = nb.buf.size
             /\ n.buf.size = nb.buf.size + 1
             /\ Contents(n.buf) = Contents(nb.buf) \o <<0>>
<1>1. CanWrite(nb.buf, <<0>>)
  <2>1. nb.buf.type = "new" /\ Len(nb.buf.mem) \in Nat
    BY NodesFacts
  <2>2. Len(<<0>>) = 1
    OBVIOUS
  <2> QED
    BY <2>1, <2>2 DEF CanWrite, MaxSize
<1> DEFINE h == <<0>>
           off == nb.buf.size
           n == NodesWith(nb, off, WriteBuf(nb.buf, h))
<1>2. StartWrite(nb) = n
  BY <1>1 DEF StartWrite, NodesWith
<1>3. off \in Nat \cup {NoOffset} /\ h \in Seq(Int) /\ Len(h) = 1
  BY NodesFacts
<1> HIDE DEF h, off
<1>4. /\ Roomy(n) /\ n.count = nb.count /\ n.offset = off
      /\ n.buf.size = nb.buf.size + Len(h)
      /\ Contents(n.buf) = Contents(nb.buf) \o h
  BY <1>3, NodesWrite
<1> HIDE DEF n
<1> QED
  BY <1>2, <1>3, <1>4 DEF h, off

\* Data written to the node that is open.
LEMMA WriteIs ==
  ASSUME NEW nb, Roomy(nb), nb.offset \in Nat, NEW d \in Seq(Int)
  PROVE  LET n == Write(nb, d)
         IN  /\ Roomy(n) /\ n.count = nb.count /\ n.offset = nb.offset
             /\ n.buf = WriteBuf(nb.buf, d)
             /\ n.buf.size = nb.buf.size + Len(d)
             /\ Contents(n.buf) = Contents(nb.buf) \o d
<1> DEFINE off == nb.offset
           c == WriteBuf(nb.buf, d)
           n == NodesWith(nb, off, c)
<1>1. off # NoOffset /\ off \in Nat \cup {NoOffset}
  BY DEF NoOffset
<1>2. Write(nb, d) = [nb EXCEPT !.buf = c]
  BY <1>1 DEF Write
<1>3. nb \in [buf : Buffers, count : Nat, offset : Nat \cup {NoOffset}]
  BY DEF Roomy
<1>4. Write(nb, d) = n
  <2> HIDE DEF c
  <2> QED
    BY <1>2, <1>3 DEF NodesWith
<1> HIDE DEF off
<1>5. /\ Roomy(n) /\ n.count = nb.count /\ n.offset = off /\ n.buf = c
      /\ n.buf.size = nb.buf.size + Len(d)
      /\ Contents(n.buf) = Contents(nb.buf) \o d
  BY <1>1, NodesWrite
<1> HIDE DEF n
<1> QED
  BY <1>4, <1>5 DEF off

LEMMA WriteSerializeIs ==
  ASSUME NEW nb, Roomy(nb), nb.offset \in Nat, NEW d \in Seq(Int)
  PROVE  LET n == WriteSerialize(nb, d)
         IN  /\ Roomy(n) /\ n.count = nb.count /\ n.offset = nb.offset
             /\ n.buf.size >= nb.buf.size
             /\ Len(d) + 1 + nb.buf.size <= Len(nb.buf.mem) =>
                  Contents(n.buf) = Contents(nb.buf) \o (<<Len(d)>> \o d)
<1> DEFINE n == WriteSerialize(nb, d)
           l == Len(d)
           h == <<l>>
<1>1. l \in Nat /\ h \in Seq(Int) /\ Len(h) = 1 /\ nb.buf.size \in Nat
      /\ MaxSize(nb.buf) = Len(nb.buf.mem) /\ nb.offset # NoOffset
  BY NodesFacts DEF MaxSize, NoOffset
<1>2. CASE l + 1 + nb.buf.size > Len(nb.buf.mem)
  <2>1. n = nb
    BY <1>1, <1>2 DEF WriteSerialize
  <2>2. ~(l + 1 + nb.buf.size <= Len(nb.buf.mem))
    BY <1>1, <1>2, NodesFacts
  <2> HIDE DEF n, l
  <2> QED
    BY <1>1, <2>1, <2>2 DEF n, l
<1>3. CASE ~(l + 1 + nb.buf.size > Len(nb.buf.mem))
  <2> DEFINE a == Write(nb, h)
             c == Write(a, d)
  <2>1. n = [nb EXCEPT !.buf = WriteBuf(WriteBuf(nb.buf, h), d)]
    BY <1>1, <1>3 DEF WriteSerialize
  <2>2. a = [nb EXCEPT !.buf = WriteBuf(nb.buf, h)]
    BY <1>1 DEF Write
  <2> HIDE DEF h
  <2>3. /\ Roomy(a) /\ a.count = nb.count /\ a.offset = nb.offset
        /\ a.buf.size = nb.buf.size + Len(h)
        /\ Contents(a.buf) = Contents(nb.buf) \o h
    BY <1>1, WriteIs
  <2>4. a.buf = WriteBuf(nb.buf, h)
    BY <1>1, WriteIs
  <2>5. c = [a EXCEPT !.buf = WriteBuf(a.buf, d)]
    BY <1>1, <2>3 DEF Write
  <2>6. c = n
    BY <2>1, <2>2, <2>4, <2>5 DEF Roomy
  <2> HIDE DEF a
  <2>7. /\ Roomy(c) /\ c.count = a.count /\ c.offset = a.offset
        /\ c.buf.size = a.buf.size + Len(d)
        /\ Contents(c.buf) = Contents(a.buf) \o d
    BY <2>3, WriteIs
  <2> HIDE DEF c, n
  <2>8. (Contents(nb.buf) \o h) \o d = Contents(nb.buf) \o (h \o d)
    <3> DEFINE e == Contents(nb.buf)
    <3>1. e \in Seq(Int)
      BY NodesFacts
    <3> HIDE DEF e
    <3>2. (e \o h) \o d = e \o (h \o d)
      BY <1>1, <3>1, InThree
    <3> QED
      BY <3>2 DEF e
  <2>9. n.buf.size >= nb.buf.size
    <3> DEFINE x == n.buf.size
               y == nb.buf.size
    <3>1. x = (y + 1) + l /\ y \in Nat /\ l \in Nat
      BY <1>1, <2>3, <2>6, <2>7
    <3> HIDE DEF x, y, l
    <3>2. x >= y
      BY ONLY <3>1
    <3> QED
      BY <3>2 DEF x, y
  <2> QED
    BY <2>3, <2>6, <2>7, <2>8, <2>9 DEF n, h, l
<1> QED
  BY <1>2, <1>3

\* The length of the node goes to the place that was left for it.
LEMMA EndWriteIs ==
  ASSUME NEW nb, Roomy(nb), nb.offset \in Nat, nb.offset + 1 <= nb.buf.size
  PROVE  LET n == EndWrite(nb)
         IN  /\ Roomy(n) /\ n.count = nb.count + 1 /\ n.offset = NoOffset
             /\ n.buf.size = nb.buf.size
             /\ n.buf.mem[nb.offset + 1] = nb.buf.size - nb.offset - 1
             /\ \A i \in 1..nb.buf.size : i # nb.offset + 1 => n.buf.mem[i] = nb.buf.mem[i]
<1> DEFINE b == nb.buf
           at == nb.offset + 1
           v == nb.buf.size - nb.offset - 1
           m == [b.mem EXCEPT ![at] = v]
           c == [b EXCEPT !.mem = m]
           k == nb.count + 1
           n == [nb EXCEPT !.buf = c, !.count = k, !.offset = NoOffset]
<1>1. /\ b \in Buffers /\ b.mem \in Seq(Int) /\ b.size \in Nat /\ nb.count \in Nat
      /\ b.type = "new" /\ Len(b.mem) \in Nat /\ b.size <= Len(b.mem)
      /\ ResultRoom <= Len(b.mem)
  BY NodesFacts DEF Buffers
<1>2. at \in 1..Len(b.mem) /\ v \in Int /\ k \in Nat /\ nb.offset # NoOffset
      /\ \A i \in 1..b.size : i \in 1..Len(b.mem)
  <2> DEFINE off == nb.offset
             size == b.size
             l == Len(b.mem)
             cnt == nb.count
  <2>1. off \in Nat /\ size \in Nat /\ l \in Nat /\ size <= l /\ off + 1 <= size /\ cnt \in Nat
    BY <1>1
  <2> HIDE DEF off, size, l, cnt
  <2>2. /\ off + 1 \in 1..l /\ size - off - 1 \in Int /\ cnt + 1 \in Nat /\ off # -1
        /\ \A i \in 1..size : i \in 1..l
    BY ONLY <2>1
  <2> QED
    BY <2>2 DEF off, size, l, cnt, NoOffset
<1>3. EndWrite(nb) = n
  BY <1>2 DEF EndWrite, Roomy, Buffers
<1> HIDE DEF at, v, k
<1>4. /\ m \in Seq(Int) /\ Len(m) = Len(b.mem)
      /\ \A i \in 1..Len(b.mem) : m[i] = IF i = at THEN v ELSE b.mem[i]
  BY SMTT(30), <1>1, <1>2, ExceptSeq
<1> HIDE DEF m
<1>5. c \in Buffers /\ c.mem = m /\ c.size = b.size /\ c.type = b.type
  <2> HIDE DEF b
  <2> QED
    BY <1>1, <1>4 DEF Buffers
<1> HIDE DEF c
<1>6. /\ n \in [buf : Buffers, count : Nat, offset : Nat \cup {NoOffset}]
      /\ n.buf = c /\ n.count = k /\ n.offset = NoOffset
  BY <1>2, <1>5 DEF Roomy
<1> HIDE DEF n
<1>7. Roomy(n)
  <2>1. Filled(c)
    BY <1>1, <1>4, <1>5 DEF Filled
  <2> QED
    BY <1>1, <1>4, <1>5, <1>6, <2>1 DEF Roomy
<1>8. /\ n.buf.mem[at] = v
      /\ \A i \in 1..b.size : i # at => n.buf.mem[i] = b.mem[i]
  BY <1>2, <1>4, <1>5, <1>6
<1> QED
  BY <1>3, <1>5, <1>6, <1>7, <1>8 DEF n, k, v, at, b

-----------------------------------------------------------------------------
(* Columns and rows.                                                        *)

LEMMA FirstAre ==
  ASSUME NEW m \in Seq(Int), NEW l \in Nat, l <= Len(m)
  PROVE  /\ SubSeq(m, 1, l) \in Seq(Int) /\ Len(SubSeq(m, 1, l)) = l
         /\ l = Len(m) => SubSeq(m, 1, l) = m
<1> DEFINE x == SubSeq(m, 1, l)
<1>1. Len(m) \in Nat /\ \A i \in 1..l : i \in 1..Len(m) /\ m[i] \in Int
  OBVIOUS
<1>2. /\ x \in Seq(Int) /\ Len(x) = IF 1 <= l THEN l - 1 + 1 ELSE 0
      /\ \A i \in 1..(l - 1 + 1) : x[i] = m[1 + i - 1]
  BY <1>1, SubSeqProperties
<1> HIDE DEF x
<1>3. x \in Seq(Int) /\ Len(x) = l /\ \A i \in 1..l : x[i] = m[i]
  BY <1>1, <1>2
<1>4. l = Len(m) => x = m
  BY <1>3, SeqEqual
<1> QED
  BY <1>3, <1>4 DEF x

LEMMA FetchColumnIs ==
  ASSUME NEW p \in ParamValues, NEW v \in Seq(Int)
  PROVE  LET c == FetchColumn(p, v)
         IN  /\ c \in ParamValues /\ c.type = p.type /\ (Whole(p) => Whole(c))
             /\ v # Null => Brings(c) = v
<1> DEFINE c == FetchColumn(p, v)
<1>1. CASE v = Null
  BY <1>1 DEF FetchColumn
<1>2. CASE v # Null
  <2> DEFINE b == [p.value EXCEPT !.mem = v]
             l == Len(v)
             e == [p EXCEPT !.value = b, !.len = l]
  <2>1. c = e
    BY <1>2 DEF FetchColumn
  <2>2. b \in Buffers /\ b.mem = v /\ l \in Nat
    <3>1. p.value \in Buffers
      BY ParamFacts
    <3>2. b \in Buffers /\ b.mem = v
      BY <3>1 DEF Buffers
    <3> QED
      BY <3>2
  <2> HIDE DEF b, l
  <2>3. e \in ParamValues /\ e.type = p.type /\ e.value = b /\ e.len = l
    BY <2>2 DEF ParamValues
  <2> HIDE DEF e, c
  <2>4. SubSeq(v, 1, l) = v
    BY FirstAre, <2>2 DEF l
  <2>5. l <= Len(v)
    BY <2>2 DEF l
  <2>6. Whole(c) /\ Brings(c) = v
    BY <2>1, <2>2, <2>3, <2>4, <2>5 DEF Whole, Brings
  <2> QED
    BY <2>1, <2>3, <2>6 DEF c
<1> QED
  BY <1>1, <1>2

LEMMA BringsTyped ==
  ASSUME NEW p \in ParamValues, Whole(p)
  PROVE  Brings(p) \in Seq(Int) /\ (IsStr(p.type) => Len(Brings(p)) = p.len)
<1>1. p.value.mem \in Seq(Int) /\ p.len \in Nat /\ Len(p.value.mem) \in Nat
  BY ParamFacts
<1>2. CASE IsStr(p.type)
  <2>1. p.len <= Len(p.value.mem)
    BY <1>2 DEF Whole
  <2> QED
    BY <1>1, <1>2, <2>1, FirstAre DEF Brings
<1>3. CASE ~IsStr(p.type)
  BY <1>1, <1>3 DEF Brings
<1> QED
  BY <1>2, <1>3

\* A column is written to the node that is open; a string only if it fits.
LEMMA WriteColumnIs ==
  ASSUME NEW nb, Roomy(nb), nb.offset \in Nat, NEW p \in ParamValues, Whole(p)
  PROVE  LET n == WriteColumn(nb, p)
         IN  /\ Roomy(n) /\ n.count = nb.count /\ n.offset = nb.offset
             /\ n.buf.size >= nb.buf.size
             /\ (IsStr(p.type) => Len(Brings(p)) + 1 + nb.buf.size <= Len(nb.buf.mem)) =>
                  Contents(n.buf) = Contents(nb.buf) \o Piece(p, Brings(p))
<1> DEFINE d == Brings(p)
<1>1. d \in Seq(Int) /\ Len(d) \in Nat /\ nb.buf.size \in Nat
  BY BringsTyped, NodesFacts
<1>2. CASE IsStr(p.type)
  <2>1. WriteColumn(nb, p) = WriteSerialize(nb, d) /\ Piece(p, d) = <<Len(d)>> \o d
    BY <1>2 DEF WriteColumn, Brings, Piece
  <2> HIDE DEF d
  <2> QED
    BY <1>1, <1>2, <2>1, WriteSerializeIs DEF d
<1>3. CASE ~IsStr(p.type)
  <2>1. WriteColumn(nb, p) = Write(nb, d) /\ Piece(p, d) = d
    BY <1>3 DEF WriteColumn, Brings, Piece
  <2> HIDE DEF d
  <2> DEFINE n == Write(nb, d)
  <2>2. /\ Roomy(n) /\ n.count = nb.count /\ n.offset = nb.offset
        /\ n.buf.size = nb.buf.size + Len(d)
        /\ Contents(n.buf) = Contents(nb.buf) \o d
    BY <1>1, WriteIs
  <2> HIDE DEF n
  <2>3. n.buf.size >= nb.buf.size
    BY <1>1, <2>2
  <2> QED
    BY <2>1, <2>2, <2>3 DEF n, d
<1> QED
  BY <1>2, <1>3

\* The first column of type f32.
Float(outs) == SelectInSeq(outs, LAMBDA p : p.type.t = "flt")

LEMMA FloatIs ==
  ASSUME NEW outs, Len(outs) \in Nat
  PROVE  /\ Float(outs) \in 0..Len(outs)
         /\ (\A i \in 1..Len(outs) : outs[i].type.t # "flt") => Float(outs) = 0
         /\ Float(outs) = 0 => \A i \in 1..Len(outs) : outs[i].type.t # "flt"
<1> DEFINE I == {i \in 1..Len(outs) : outs[i].type.t = "flt"}
<1>1. Float(outs) = IF I # {} THEN CHOOSE x \in I : \A y \in I : x <= y ELSE 0
  BY DEF Float, SelectInSeq, Min
<1>2. CASE I = {}
  <2>1. Float(outs) = 0 /\ \A i \in 1..Len(outs) : outs[i].type.t # "flt"
    BY <1>1, <1>2
  <2> QED
    BY <2>1
<1>3. CASE I # {}
  <2>1. I \subseteq Nat
    OBVIOUS
  <2>2. \E x \in I : \A y \in I : x <= y
    BY <1>3, <2>1, Least
  <2>3. Float(outs) \in I
    <3> HIDE DEF I
    <3> QED
      BY <1>1, <1>3, <2>2
  <2>4. Float(outs) \in 1..Len(outs) /\ outs[Float(outs)].type.t = "flt"
    BY <2>3
  <2> QED
    BY <2>4
<1> QED
  BY <1>2, <1>3

\* f writes n columns, one after the other.
IsWriting(f, nb, outs, n) ==
  f = [i \in 0..n |-> IF i = 0 THEN StartWrite(nb) ELSE WriteColumn(f[i - 1], outs[i])]

LEMMA WritingExists ==
  ASSUME NEW nb, NEW outs, NEW n \in Nat PROVE \E f : IsWriting(f, nb, outs, n)
<1> DEFINE Good == {k \in Nat : \E f : IsWriting(f, nb, outs, k)}
<1>1. 0 \in Good
  <2> DEFINE f == [i \in 0..0 |-> StartWrite(nb)]
  <2>1. f = [i \in 0..0 |-> IF i = 0 THEN StartWrite(nb) ELSE WriteColumn(f[i - 1], outs[i])]
    OBVIOUS
  <2> HIDE DEF f
  <2>2. IsWriting(f, nb, outs, 0)
    BY <2>1 DEF IsWriting
  <2> QED
    BY <2>2
<1>2. ASSUME NEW k \in Nat, k \in Good PROVE k + 1 \in Good
  <2>1. PICK f : IsWriting(f, nb, outs, k)
    BY <1>2
  <2> DEFINE v == WriteColumn(f[k], outs[k + 1])
             g == [i \in 0..(k + 1) |-> IF i = k + 1 THEN v ELSE f[i]]
  <2>2. ASSUME NEW i \in 0..(k + 1)
        PROVE  g[i] = IF i = 0 THEN StartWrite(nb) ELSE WriteColumn(g[i - 1], outs[i])
    <3>1. CASE i = k + 1
      <4>1. g[i] = v /\ g[i - 1] = f[k] /\ i # 0
        BY <3>1
      <4> QED
        BY <3>1, <4>1
    <3>2. CASE i # k + 1
      <4>1. i \in 0..k /\ g[i] = f[i] /\ (i # 0 => g[i - 1] = f[i - 1])
        BY <3>2
      <4>2. f[i] = IF i = 0 THEN StartWrite(nb) ELSE WriteColumn(f[i - 1], outs[i])
        BY <4>1, <2>1 DEF IsWriting
      <4> HIDE DEF g
      <4> QED
        BY <4>1, <4>2
    <3> QED
      BY <3>1, <3>2
  <2>3. g = [i \in 0..(k + 1) |-> g[i]]
    OBVIOUS
  <2> HIDE DEF g
  <2>4. IsWriting(g, nb, outs, k + 1)
    BY <2>2, <2>3 DEF IsWriting
  <2> QED
    BY <2>4
<1> HIDE DEF Good
<1>3. Nat \subseteq Good
  BY <1>1, <1>2, SetInduction
<1> QED
  BY <1>3 DEF Good

\* How many columns a row writes.
Columns(outs) == IF Float(outs) = 0 THEN Len(outs) ELSE Float(outs)

LEMMA WriteRowIs ==
  ASSUME NEW nb, NEW outs, Len(outs) \in Nat
  PROVE  \E f : /\ f[0] = StartWrite(nb)
                /\ \A i \in 1..Columns(outs) : f[i] = WriteColumn(f[i - 1], outs[i])
                /\ WriteRow(nb, outs) = IF Float(outs) = 0 THEN EndWrite(f[Columns(outs)])
                                        ELSE f[Columns(outs)]
<1> DEFINE n == Columns(outs)
           f == CHOOSE h : IsWriting(h, nb, outs, n)
<1>1. WriteRow(nb, outs) = IF Float(outs) = 0 THEN EndWrite(f[n]) ELSE f[n]
  BY DEF WriteRow, IsWriting, Columns, Float
<1>3. n \in Nat
  BY FloatIs DEF Columns
<1>2. IsWriting(f, nb, outs, n)
  <2> HIDE DEF n
  <2> QED
    BY <1>3, WritingExists
<1> HIDE DEF f, n
<1>4. f[0] = StartWrite(nb) /\ \A i \in 1..n : f[i] = WriteColumn(f[i - 1], outs[i])
  BY <1>2, <1>3 DEF IsWriting
<1> QED
  BY <1>1, <1>4 DEF n

LEMMA WholeRowIs ==
  ASSUME NEW nb, NEW outs, Len(outs) \in Nat, Float(outs) = 0
  PROVE  \E f : /\ f[0] = StartWrite(nb)
                /\ \A i \in 1..Len(outs) : f[i] = WriteColumn(f[i - 1], outs[i])
                /\ WriteRow(nb, outs) = EndWrite(f[Len(outs)])
<1> DEFINE n == Len(outs)
           f == CHOOSE h : IsWriting(h, nb, outs, n)
<1>1. WriteRow(nb, outs) = EndWrite(f[n])
  BY DEF WriteRow, IsWriting, Float
<1>2. IsWriting(f, nb, outs, n)
  <2> HIDE DEF n
  <2> QED
    BY WritingExists DEF n
<1> HIDE DEF f, n
<1>3. n \in Nat
  BY DEF n
<1>4. f[0] = StartWrite(nb) /\ \A i \in 1..n : f[i] = WriteColumn(f[i - 1], outs[i])
  BY <1>2, <1>3 DEF IsWriting
<1> QED
  BY <1>1, <1>4 DEF n

\* The node that StartWrite opened on nb, with some columns.
Writing(nb, x) ==
  /\ Roomy(x) /\ x.count = nb.count /\ x.offset = nb.buf.size
  /\ x.buf.size >= nb.buf.size + 1

LEMMA WritingStarts ==
  ASSUME NEW nb, Roomy(nb) PROVE Writing(nb, StartWrite(nb))
<1> DEFINE x == StartWrite(nb)
<1>1. /\ Roomy(x) /\ x.count = nb.count /\ x.offset = nb.buf.size
      /\ x.buf.size = nb.buf.size + 1 /\ nb.buf.size \in Nat
  BY StartWriteIs, NodesFacts
<1> HIDE DEF x
<1>2. x.buf.size >= nb.buf.size + 1
  BY <1>1
<1> QED
  BY <1>1, <1>2 DEF Writing, x

LEMMA WritingGoesOn ==
  ASSUME NEW nb, Roomy(nb), NEW x, Writing(nb, x), NEW p \in ParamValues, Whole(p)
  PROVE  Writing(nb, WriteColumn(x, p))
<1> DEFINE y == WriteColumn(x, p)
<1>1. nb.buf.size \in Nat /\ Roomy(x) /\ x.offset = nb.buf.size
      /\ x.count = nb.count /\ x.buf.size >= nb.buf.size + 1
  BY NodesFacts DEF Writing
<1>2. Roomy(y) /\ y.count = x.count /\ y.offset = x.offset /\ y.buf.size >= x.buf.size
  BY <1>1, WriteColumnIs
<1> HIDE DEF y
<1>3. y.buf.size \in Nat /\ x.buf.size \in Nat
  BY <1>1, <1>2, NodesFacts
<1>4. y.buf.size >= nb.buf.size + 1
  BY <1>1, <1>2, <1>3
<1> QED
  BY <1>1, <1>2, <1>4 DEF Writing, y

\* Whatever the row, the nodes stay in memory of their own.
LEMMA WriteRowTyped ==
  ASSUME NEW nb, Roomy(nb), NEW outs \in Seq(ParamValues),
         \A i \in 1..Len(outs) : Whole(outs[i])
  PROVE  Roomy(WriteRow(nb, outs))
<1> DEFINE n == Columns(outs)
<1>1. n \in Nat /\ n <= Len(outs) /\ Len(outs) \in Nat
  BY FloatIs DEF Columns
<1>2. PICK f : /\ f[0] = StartWrite(nb)
               /\ \A i \in 1..n : f[i] = WriteColumn(f[i - 1], outs[i])
               /\ WriteRow(nb, outs) = IF Float(outs) = 0 THEN EndWrite(f[n]) ELSE f[n]
  BY <1>1, WriteRowIs
<1> DEFINE Good == {i \in Nat : i <= n => Writing(nb, f[i])}
<1> HIDE DEF n
<1>3. 0 \in Good
  BY <1>2, WritingStarts
<1>4. ASSUME NEW i \in Nat, i \in Good PROVE i + 1 \in Good
  <2> SUFFICES ASSUME i + 1 <= n PROVE Writing(nb, f[i + 1])
    OBVIOUS
  <2>1. i + 1 \in 1..n /\ i + 1 - 1 = i /\ i <= n /\ i + 1 \in 1..Len(outs)
    BY <1>1
  <2>2. f[i + 1] = WriteColumn(f[i], outs[i + 1])
    BY <1>2, <2>1
  <2>3. Writing(nb, f[i])
    BY <1>4, <2>1
  <2>4. outs[i + 1] \in ParamValues /\ Whole(outs[i + 1])
    BY <2>1
  <2> QED
    BY <2>2, <2>3, <2>4, WritingGoesOn
<1> HIDE DEF Good
<1>5. Nat \subseteq Good
  BY <1>3, <1>4, SetInduction
<1>6. Writing(nb, f[n])
  BY <1>1, <1>5 DEF Good
<1> DEFINE x == f[n]
<1> HIDE DEF x
<1>7. Roomy(x) /\ x.offset \in Nat /\ x.offset + 1 <= x.buf.size
  <2>1. Roomy(x) /\ x.offset = nb.buf.size /\ x.buf.size >= nb.buf.size + 1
    BY <1>6 DEF Writing, x
  <2>2. nb.buf.size \in Nat /\ x.buf.size \in Nat
    BY <2>1, NodesFacts
  <2> QED
    BY <2>1, <2>2
<1>8. Roomy(EndWrite(x))
  BY <1>7, EndWriteIs
<1> QED
  BY <1>2, <1>7, <1>8 DEF x

\* The first i columns, whose pieces are those of q, are in the open node.
WritingPlain(nb, q, i, x) ==
  Contents(x.buf) = Contents(nb.buf) \o (<<0>> \o FlattenSeq(UpTo(q, i)))

LEMMA ConcatInts ==
  ASSUME NEW x \in Seq(Int), NEW y \in Seq(Int)
  PROVE  x \o y \in Seq(Int) /\ Len(x \o y) = Len(x) + Len(y)
BY ConcatProperties

\* What two sequences come to, by their lengths.
Joined(x, a, y, b) ==
  /\ x \o y \in Seq(Int) /\ Len(x \o y) = a + b
  /\ \A i \in 1..(a + b) : (x \o y)[i] = IF i <= a THEN x[i] ELSE y[i - a]

LEMMA JoinedIs ==
  ASSUME NEW x \in Seq(Int), NEW y \in Seq(Int)
  PROVE  Joined(x, Len(x), y, Len(y))
BY ConcatProperties DEF Joined

LEMMA UpToGrows ==
  ASSUME NEW q \in Seq(Seq(Int)), NEW i \in Nat, i + 1 \in 1..Len(q)
  PROVE  /\ FlattenSeq(UpTo(q, i)) \in Seq(Int) /\ q[i + 1] \in Seq(Int)
         /\ FlattenSeq(UpTo(q, i + 1)) = FlattenSeq(UpTo(q, i)) \o q[i + 1]
<1>1. i \in 0..Len(q) /\ i \in 0..(Len(q) - 1) /\ q[i + 1] \in Seq(Int)
  OBVIOUS
<1>2. UpTo(q, i) \in Seq(Seq(Int)) /\ UpTo(q, i + 1) = Append(UpTo(q, i), q[i + 1])
  BY <1>1, UpToFacts
<1>3. FlattenSeq(UpTo(q, i)) \in Seq(Int)
  BY <1>2, FlattenType
<1> DEFINE u == UpTo(q, i)
           v == q[i + 1]
<1>4. FlattenSeq(Append(u, v)) = FlattenSeq(u) \o v
  <2> HIDE DEF u, v
  <2>1. u \in Seq(Seq(Int)) /\ v \in Seq(Int)
    BY <1>1, <1>2 DEF u, v
  <2> QED
    BY <2>1, FlattenAppend
<1> QED
  BY <1>1, <1>2, <1>3, <1>4

LEMMA PlainGoesOn ==
  ASSUME NEW nb, Roomy(nb), NEW q \in Seq(Seq(Int)), \A k \in 1..Len(q) : Len(q[k]) >= 1,
         NEW i \in Nat, i + 1 \in 1..Len(q),
         NEW x, Writing(nb, x), WritingPlain(nb, q, i, x),
         NEW p \in ParamValues, Whole(p), q[i + 1] = Piece(p, Brings(p)),
         IsStr(p.type) => nb.buf.size + 1 + Len(FlattenSeq(q)) <= ResultRoom
  PROVE  WritingPlain(nb, q, i + 1, WriteColumn(x, p))
<1> DEFINE y == WriteColumn(x, p)
           v == Brings(p)
           C == Contents(nb.buf)
           Z == <<0>>
           F == FlattenSeq(UpTo(q, i))
           P == q[i + 1]
<1>1. /\ Roomy(x) /\ x.offset = nb.buf.size /\ nb.buf.size \in Nat
      /\ C \in Seq(Int) /\ Len(C) = nb.buf.size
      /\ Contents(x.buf) \in Seq(Int) /\ Len(Contents(x.buf)) = x.buf.size
      /\ ResultRoom <= Len(x.buf.mem) /\ Len(x.buf.mem) \in Nat /\ ResultRoom \in Nat
  BY NodesFacts DEF Writing
<1>2. /\ F \in Seq(Int) /\ P \in Seq(Int)
      /\ FlattenSeq(UpTo(q, i + 1)) = F \o P
  BY UpToGrows
<1>3. Contents(x.buf) = C \o (Z \o F)
  BY DEF WritingPlain
<1>4. v \in Seq(Int)
  BY BringsTyped
<1>5. IsStr(p.type) => Len(v) + 1 + x.buf.size <= Len(x.buf.mem)
  <2> SUFFICES ASSUME IsStr(p.type) PROVE Len(v) + 1 + x.buf.size <= Len(x.buf.mem)
    OBVIOUS
  <2> DEFINE c == Len(C)
             f == Len(F)
             l == Len(v)
             t == Len(FlattenSeq(q))
             s == x.buf.size
  <2>1. Len(P) = l + 1
    BY <1>4, PieceIs
  <2>2. f = StartOf(q, i)
    BY DEF StartOf
  <2>3. i \in 0..(Len(q) - 1) /\ i + 1 \in 0..Len(q) /\ Len(q) \in (i + 1)..Len(q)
        /\ Len(q) - (i + 1) >= 0 /\ Len(q) \in 0..Len(q)
    OBVIOUS
  <2>4. /\ StartOf(q, i + 1) = StartOf(q, i) + Len(P) /\ StartOf(q, Len(q)) = t
        /\ StartOf(q, i + 1) \in Nat /\ t \in Nat
    BY <2>3, StartFacts
  <2>5. StartOf(q, i + 1) + (Len(q) - (i + 1)) <= StartOf(q, Len(q))
    BY <2>3, StartGrows
  <2>6. s = c + (1 + f)
    <3>1. Z \in Seq(Int) /\ Len(Z) = 1
      OBVIOUS
    <3> HIDE DEF Z, F, C
    <3>2. Z \o F \in Seq(Int) /\ Len(Z \o F) = 1 + f
      BY <3>1, <1>2, ConcatInts
    <3> DEFINE T == Z \o F
    <3> HIDE DEF T
    <3>3. T \in Seq(Int) /\ Len(T) = 1 + f /\ Contents(x.buf) = C \o T
      BY <3>2, <1>3 DEF T
    <3>4. Len(C \o T) = c + Len(T)
      BY <3>3, <1>1, ConcatInts
    <3> QED
      BY <3>3, <3>4, <1>1
  <2>7. c \in Nat /\ f \in Nat /\ l \in Nat
    <3> HIDE DEF C, F, v
    <3>1. C \in Seq(Int) /\ F \in Seq(Int) /\ v \in Seq(Int)
      BY <1>1, <1>2, <1>4
    <3> QED
      BY ONLY <3>1, LenProperties
  <2>8. c + 1 + t <= ResultRoom
    BY <1>1
  <2> DEFINE w == StartOf(q, i + 1)
             g == Len(q) - (i + 1)
             M == Len(x.buf.mem)
  <2> HIDE DEF c, f, l, t, s, w, g, M
  <2>9. w = f + (l + 1) /\ w + g <= t /\ g >= 0 /\ w \in Nat /\ t \in Nat /\ g \in Int
    BY <2>1, <2>2, <2>3, <2>4, <2>5 DEF w, g
  <2>10. ResultRoom <= M /\ M \in Nat /\ ResultRoom \in Nat
    BY <1>1 DEF M
  <2>11. l + 1 + s <= M
    BY ONLY <2>6, <2>7, <2>8, <2>9, <2>10
  <2> QED
    BY <2>11 DEF l, s, M
<1>6. Contents(y.buf) = Contents(x.buf) \o P
  BY <1>1, <1>5, WriteColumnIs
<1>7. (C \o (Z \o F)) \o P = C \o (Z \o (F \o P))
  <2>1. Z \in Seq(Int)
    OBVIOUS
  <2> HIDE DEF C, Z, F, P
  <2> DEFINE T == Z \o F
  <2>2. T \in Seq(Int)
    BY <2>1, <1>2, ConcatInts
  <2> HIDE DEF T
  <2>3. (C \o T) \o P = C \o (T \o P)
    BY <2>2, <1>1, <1>2, InThree
  <2>4. T \o P = Z \o (F \o P)
    BY <2>1, <1>2, InThree DEF T
  <2> QED
    BY <2>3, <2>4 DEF T
<1> HIDE DEF y, C, Z, F, P
<1>8. Contents(y.buf) = C \o (Z \o FlattenSeq(UpTo(q, i + 1)))
  BY <1>2, <1>3, <1>6, <1>7
<1> QED
  BY <1>8 DEF WritingPlain, y, C, Z

\* A node that was open is closed: its length is where it starts.
LEMMA EndWritePlain ==
  ASSUME NEW nb, Roomy(nb), NEW x, Writing(nb, x), NEW P \in Seq(Int),
         Contents(x.buf) = Contents(nb.buf) \o (<< 0 >> \o P)
  PROVE  LET n == EndWrite(x)
         IN  /\ Roomy(n) /\ n.count = nb.count + 1
             /\ Contents(n.buf) = Contents(nb.buf) \o (<<Len(P)>> \o P)
<1> DEFINE n == EndWrite(x)
           C == Contents(nb.buf)
           Z == <<0>>
           l == Len(P)
           h == <<l>>
           c == nb.buf.size
           s == x.buf.size
           A == C \o (Z \o P)
           B == C \o (h \o P)
           D == Contents(n.buf)
<1>1. /\ Roomy(x) /\ x.offset = c /\ c \in Nat /\ s \in Nat /\ s >= c + 1
      /\ x.count = nb.count
      /\ C \in Seq(Int) /\ Len(C) = c
      /\ A \in Seq(Int) /\ Len(A) = s /\ A = Contents(x.buf)
  BY NodesFacts DEF Writing
<1>2. Z \in Seq(Int) /\ Len(Z) = 1 /\ h \in Seq(Int) /\ Len(h) = 1 /\ Z[1] = 0 /\ h[1] = l
      /\ l \in Nat
  OBVIOUS
<1> HIDE DEF C, Z, h
<1>3. /\ Z \o P \in Seq(Int) /\ Len(Z \o P) = 1 + l
      /\ \A i \in 1..(1 + l) : (Z \o P)[i] = IF i <= 1 THEN Z[i] ELSE P[i - 1]
  <2>1. Joined(Z, Len(Z), P, l)
    BY <1>2, JoinedIs
  <2>2. Joined(Z, 1, P, l)
    BY <1>2, <2>1
  <2> HIDE DEF l
  <2> QED
    BY ONLY <2>2 DEF Joined
<1>4. /\ h \o P \in Seq(Int) /\ Len(h \o P) = 1 + l
      /\ \A i \in 1..(1 + l) : (h \o P)[i] = IF i <= 1 THEN h[i] ELSE P[i - 1]
  <2>1. Joined(h, Len(h), P, l)
    BY <1>2, JoinedIs
  <2>2. Joined(h, 1, P, l)
    BY <1>2, <2>1
  <2> HIDE DEF l
  <2> QED
    BY ONLY <2>2 DEF Joined
<1> DEFINE T == Z \o P
           U == h \o P
           k == 1 + l
<1> HIDE DEF T, U, l, k
<1>5. /\ T \in Seq(Int) /\ Len(T) = k /\ U \in Seq(Int) /\ Len(U) = k /\ k \in Nat /\ k >= 1
      /\ \A i \in 1..k : i # 1 => T[i] = U[i]
      /\ U[1] = l /\ l = k - 1
  <2>1. k = 1 + l /\ l \in Nat
    BY <1>2 DEF k
  <2>2. k \in Nat /\ k >= 1 /\ l = k - 1 /\ 1 \in 1..(1 + l) /\ 1 <= 1
        /\ \A i \in 1..(1 + l) : i # 1 => ~(i <= 1)
    BY ONLY <2>1
  <2>3. U[1] = l
    BY <1>2, <1>4, <2>2 DEF U
  <2>4. \A i \in 1..k : i # 1 => T[i] = U[i]
    BY <2>1, <2>2, <1>3, <1>4 DEF T, U
  <2> QED
    BY <2>1, <2>2, <2>3, <2>4, <1>3, <1>4 DEF T, U
<1> HIDE DEF c
<1>6. /\ A = C \o T /\ Len(A) = c + k
      /\ \A i \in 1..(c + k) : A[i] = IF i <= c THEN C[i] ELSE T[i - c]
  <2>1. /\ Len(C \o T) = c + k
        /\ \A i \in 1..(c + k) : (C \o T)[i] = IF i <= c THEN C[i] ELSE T[i - c]
    <3>1. Joined(C, Len(C), T, Len(T))
      BY <1>1, <1>5, JoinedIs
    <3>2. Joined(C, c, T, k)
      BY <1>1, <1>5, <3>1
    <3> QED
      BY ONLY <3>2 DEF Joined
  <2> QED
    BY <2>1 DEF T
<1>7. /\ B = C \o U /\ B \in Seq(Int) /\ Len(B) = c + k
      /\ \A i \in 1..(c + k) : B[i] = IF i <= c THEN C[i] ELSE U[i - c]
  <2>1. /\ C \o U \in Seq(Int) /\ Len(C \o U) = c + k
        /\ \A i \in 1..(c + k) : (C \o U)[i] = IF i <= c THEN C[i] ELSE U[i - c]
    <3>1. Joined(C, Len(C), U, Len(U))
      BY <1>1, <1>5, JoinedIs
    <3>2. Joined(C, c, U, k)
      BY <1>1, <1>5, <3>1
    <3> QED
      BY ONLY <3>2 DEF Joined
  <2> QED
    BY <2>1 DEF U
<1> HIDE DEF A, B, s
<1>8. s = c + k
  BY <1>1, <1>6
<1>9. x.offset \in Nat /\ x.offset + 1 <= s
  BY <1>1
<1>10. /\ Roomy(n) /\ n.count = x.count + 1
       /\ n.buf.size = s /\ n.buf.mem[c + 1] = s - c - 1
       /\ \A i \in 1..s : i # c + 1 => n.buf.mem[i] = x.buf.mem[i]
  BY <1>1, <1>9, EndWriteIs DEF s
<1> HIDE DEF n
<1>11. D \in Seq(Int) /\ Len(D) = s /\ \A i \in 1..s : D[i] = n.buf.mem[i]
  BY <1>10, ContentsAre, NodesFacts
<1>12. \A i \in 1..s : A[i] = x.buf.mem[i]
  BY <1>1, ContentsAre, NodesFacts DEF s
<1> HIDE DEF D
<1>13. ASSUME NEW i \in 1..s PROVE D[i] = B[i]
  <2>1. i \in Int /\ c \in Nat /\ k \in Nat /\ s = c + k /\ k >= 1 /\ i \in 1..(c + k)
    BY <1>1, <1>5, <1>8
  <2>2. CASE i = c + 1
    <3>1. ~(i <= c) /\ i - c = 1 /\ s - c - 1 = k - 1
      BY ONLY <2>1, <2>2
    <3>2. B[i] = U[1]
      BY <1>7, <2>1, <3>1
    <3> QED
      BY <1>5, <1>10, <1>11, <2>2, <3>1, <3>2
  <2>3. CASE i <= c
    <3>1. i # c + 1
      BY ONLY <2>1, <2>3
    <3>2. D[i] = A[i] /\ A[i] = C[i] /\ B[i] = C[i]
      BY <1>6, <1>7, <1>10, <1>11, <1>12, <2>1, <2>3, <3>1
    <3> QED
      BY <3>2
  <2>4. CASE ~(i <= c) /\ i # c + 1
    <3>1. i - c \in 1..k /\ i - c # 1
      BY ONLY <2>1, <2>4
    <3>2. D[i] = A[i] /\ A[i] = T[i - c] /\ B[i] = U[i - c]
      BY <1>6, <1>7, <1>10, <1>11, <1>12, <2>1, <2>4
    <3> QED
      BY <3>1, <3>2, <1>5
  <2> QED
    BY <2>2, <2>3, <2>4
<1>14. D = B
  <2>1. Len(B) = s /\ s \in Nat
    BY <1>1, <1>7, <1>8
  <2> QED
    BY <1>7, <1>11, <1>13, <2>1, SeqEqual
<1> QED
  BY <1>1, <1>10, <1>14 DEF n, D, B, C, h, l

\* The columns hold the values of a row, and no column is of type f32.
Holds(outs, vs) ==
  /\ outs \in Seq(ParamValues) /\ vs \in Seq(Seq(Int)) /\ Len(vs) = Len(outs)
  /\ \A i \in 1..Len(outs) : /\ Whole(outs[i]) /\ Brings(outs[i]) = vs[i]
                             /\ outs[i].type.t # "flt"
                             /\ IsStr(outs[i].type) \/ Len(vs[i]) = 1

LEMMA WriteRowPlain ==
  ASSUME NEW nb, Roomy(nb), NEW outs, NEW vs, Holds(outs, vs),
         \/ \A i \in 1..Len(outs) : ~IsStr(outs[i].type)
         \/ nb.buf.size + 1 + Len(Packed(outs, vs)) <= ResultRoom
  PROVE  LET n == WriteRow(nb, outs)
             P == Packed(outs, vs)
         IN  /\ Roomy(n) /\ n.count = nb.count + 1 /\ P \in Seq(Int)
             /\ Contents(n.buf) = Contents(nb.buf) \o (<<Len(P)>> \o P)
<1> DEFINE q == Pieces(outs, vs)
           n == Len(outs)
<1>1. /\ outs \in Seq(ParamValues) /\ vs \in Seq(Seq(Int)) /\ Len(vs) = n /\ n \in Nat
  BY DEF Holds
<1>2. q \in Seq(Seq(Int)) /\ Len(q) = n /\ \A i \in 1..n : q[i] = Piece(outs[i], vs[i])
  BY <1>1, PiecesAre
<1>3. Packed(outs, vs) = FlattenSeq(q) /\ FlattenSeq(q) \in Seq(Int)
  BY <1>2, PackedIs, FlattenType
<1>4. Float(outs) = 0 /\ Columns(outs) = n
  BY <1>1, FloatIs DEF Holds, Columns
<1>5. PICK f : /\ f[0] = StartWrite(nb)
               /\ \A i \in 1..n : f[i] = WriteColumn(f[i - 1], outs[i])
               /\ WriteRow(nb, outs) = EndWrite(f[n])
  BY <1>1, <1>4, WholeRowIs
<1>6. \A k \in 1..Len(q) : Len(q[k]) >= 1
  <2> SUFFICES ASSUME NEW k \in 1..n PROVE Len(q[k]) >= 1
    BY <1>2
  <2> DEFINE v == vs[k]
  <2>1. v \in Seq(Int) /\ q[k] = Piece(outs[k], v) /\ (IsStr(outs[k].type) \/ Len(v) = 1)
    BY <1>1, <1>2 DEF Holds
  <2>2. Len(v) \in Nat
    BY <2>1
  <2> DEFINE p == outs[k]
             z == Piece(p, v)
  <2> HIDE DEF v, q, p
  <2>3. /\ IsStr(p.type) => Len(z) = Len(v) + 1
        /\ ~IsStr(p.type) => z = v
    BY <2>1, PieceIs
  <2>4. Len(z) >= 1
    <3>1. IsStr(p.type) \/ Len(v) = 1
      BY <2>1 DEF p
    <3> DEFINE a == Len(v)
               b == Len(z)
    <3>4. ASSUME IsStr(p.type) PROVE b = a + 1
      BY <2>3, <3>4
    <3>5. ASSUME ~IsStr(p.type) PROVE b = a /\ a = 1
      <4>1. a = 1
        BY <3>1, <3>5, Zenon
      <4>2. z = v
        BY <2>3, <3>5, Zenon
      <4> QED
        BY <4>1, <4>2
    <3>2. a \in Nat /\ (b = a + 1 \/ (b = a /\ a = 1))
      <4>1. b = a + 1 \/ (b = a /\ a = 1)
        BY <3>4, <3>5, Zenon
      <4> QED
        BY <2>2, <4>1
    <3> HIDE DEF a, b
    <3>3. b >= 1
      BY ONLY <3>2
    <3> QED
      BY <3>3 DEF b
  <2> QED
    BY <2>1, <2>4 DEF p
<1> DEFINE Good == {i \in Nat : i <= n => Writing(nb, f[i]) /\ WritingPlain(nb, q, i, f[i])}
<1> HIDE DEF q, n
<1>7. 0 \in Good
  <2>1. Writing(nb, f[0])
    BY <1>5, WritingStarts
  <2>2. Contents(f[0].buf) = Contents(nb.buf) \o <<0>>
    BY <1>5, StartWriteIs
  <2>3. FlattenSeq(UpTo(q, 0)) = <<>>
    BY <1>2, UpToFacts, FlattenEmpty
  <2>4. <<0>> \o <<>> = <<0>>
    OBVIOUS
  <2>5. WritingPlain(nb, q, 0, f[0])
    BY <2>2, <2>3, <2>4 DEF WritingPlain
  <2> QED
    BY <2>1, <2>5
<1>8. ASSUME NEW i \in Nat, i \in Good PROVE i + 1 \in Good
  <2> SUFFICES ASSUME i + 1 <= n
               PROVE  Writing(nb, f[i + 1]) /\ WritingPlain(nb, q, i + 1, f[i + 1])
    OBVIOUS
  <2> DEFINE p == outs[i + 1]
             x == f[i]
  <2>1. i + 1 \in 1..n /\ i + 1 - 1 = i /\ i <= n /\ i + 1 \in 1..Len(q)
    BY <1>1, <1>2
  <2>2. f[i + 1] = WriteColumn(x, p)
    BY <1>5, <2>1
  <2>3. Writing(nb, x) /\ WritingPlain(nb, q, i, x)
    BY <1>8, <2>1
  <2>4. p \in ParamValues /\ Whole(p) /\ Brings(p) = vs[i + 1]
    BY <2>1, <1>1 DEF Holds, n
  <2>5. q[i + 1] = Piece(p, Brings(p))
    BY <1>2, <2>1, <2>4
  <2>6. IsStr(p.type) => nb.buf.size + 1 + Len(FlattenSeq(q)) <= ResultRoom
    BY <2>1, <1>3 DEF n
  <2> HIDE DEF p, x, Good
  <2>7. Writing(nb, WriteColumn(x, p))
    BY <2>3, <2>4, WritingGoesOn
  <2>8. WritingPlain(nb, q, i + 1, WriteColumn(x, p))
    BY <1>2, <1>6, <2>1, <2>3, <2>4, <2>5, <2>6, PlainGoesOn
  <2> QED
    BY <2>2, <2>7, <2>8
<1> HIDE DEF Good
<1>9. Nat \subseteq Good
  BY <1>7, <1>8, SetInduction
<1> DEFINE x == f[n]
           P == Packed(outs, vs)
<1>10. Writing(nb, x) /\ WritingPlain(nb, q, n, x)
  BY <1>1, <1>9 DEF Good
<1>11. UpTo(q, n) = q
  BY <1>2, UpToFacts
<1> HIDE DEF x
<1>12. P \in Seq(Int) /\ Contents(x.buf) = Contents(nb.buf) \o (<<0>> \o P)
  BY <1>3, <1>10, <1>11 DEF WritingPlain
<1>13. WriteRow(nb, outs) = EndWrite(x)
  BY <1>5 DEF x
<1> HIDE DEF P
<1> DEFINE w == EndWrite(x)
<1>14. /\ Roomy(w) /\ w.count = nb.count + 1
       /\ Contents(w.buf) = Contents(nb.buf) \o (<<Len(P)>> \o P)
  <2>1. Roomy(nb) /\ Writing(nb, x) /\ P \in Seq(Int)
        /\ Contents(x.buf) = Contents(nb.buf) \o (<<0>> \o P)
    BY <1>10, <1>12
  <2> QED
    BY ONLY <2>1, EndWritePlain
<1> HIDE DEF w
<1>15. WriteRow(nb, outs) = w
  BY <1>13 DEF w
<1> QED
  BY <1>12, <1>14, <1>15 DEF P

-----------------------------------------------------------------------------
(* Fetching.                                                                *)

SameTypes(ps, qs) ==
  Len(ps) = Len(qs) /\ \A i \in 1..Len(ps) : ps[i].type = qs[i].type

\* What is fetched depends on the types of the parameters only.
LEMMA SamePacked ==
  ASSUME NEW ps, NEW qs, SameTypes(ps, qs), NEW vs, DOMAIN vs = 1..Len(ps)
  PROVE  Packed(ps, vs) = Packed(qs, vs)
<1>2. \A i \in DOMAIN vs : Piece(ps[i], vs[i]) = Piece(qs[i], vs[i])
  BY DEF Piece, SameTypes
<1>3. Pieces(ps, vs) = Pieces(qs, vs)
  BY <1>2 DEF Pieces
<1> QED
  BY <1>3, PackedIs

\* The state of a fetch for columns of the types of ps.
Fetching(ps, st) ==
  /\ Roomy(st.nb) /\ st.outs \in Seq(ParamValues) /\ SameTypes(ps, st.outs)
  /\ \A i \in 1..Len(ps) : Whole(st.outs[i])

Fetched(st, row) == [i \in DOMAIN st.outs |-> FetchColumn(st.outs[i], row[i])]

LEMMA FetchedIs ==
  ASSUME NEW ps, NEW st, Fetching(ps, st), NEW row \in Seq(Seq(Int)), Len(row) = Len(ps)
  PROVE  LET outs == Fetched(st, row)
         IN  /\ outs \in Seq(ParamValues) /\ SameTypes(ps, outs)
             /\ \A i \in 1..Len(ps) : Whole(outs[i])
             /\ \A i \in 1..Len(ps) : row[i] # Null => Brings(outs[i]) = row[i]
             /\ DOMAIN outs = 1..Len(ps)
<1> DEFINE n == Len(st.outs)
           outs == [i \in 1..n |-> FetchColumn(st.outs[i], row[i])]
<1>1. /\ n \in Nat /\ DOMAIN st.outs = 1..n /\ Len(ps) = n /\ st.outs \in Seq(ParamValues)
      /\ \A i \in 1..n : Whole(st.outs[i]) /\ ps[i].type = st.outs[i].type
  BY DEF Fetching, SameTypes
<1>2. ASSUME NEW i \in 1..n
      PROVE  /\ FetchColumn(st.outs[i], row[i]) \in ParamValues
             /\ FetchColumn(st.outs[i], row[i]).type = st.outs[i].type
             /\ Whole(FetchColumn(st.outs[i], row[i]))
             /\ row[i] # Null => Brings(FetchColumn(st.outs[i], row[i])) = row[i]
  <2> DEFINE p == st.outs[i]
             v == row[i]
  <2>1. p \in ParamValues /\ v \in Seq(Int) /\ Whole(p)
    BY <1>1
  <2> HIDE DEF p, v
  <2>2. /\ FetchColumn(p, v) \in ParamValues /\ FetchColumn(p, v).type = p.type
        /\ Whole(FetchColumn(p, v)) /\ (v # Null => Brings(FetchColumn(p, v)) = v)
    BY <2>1, FetchColumnIs
  <2> QED
    BY <2>2 DEF p, v
<1>3. Fetched(st, row) = outs
  BY <1>1 DEF Fetched
<1> HIDE DEF n
<1>4. outs \in [1..n -> ParamValues]
  BY <1>2
<1>5. outs \in Seq(ParamValues) /\ Len(outs) = n /\ DOMAIN outs = 1..n
  BY <1>1, <1>4, IsASeq
<1>6. \A i \in 1..n : outs[i] = FetchColumn(st.outs[i], row[i])
  OBVIOUS
<1> HIDE DEF outs
<1>7. SameTypes(ps, outs)
  BY <1>1, <1>2, <1>5, <1>6 DEF SameTypes
<1> QED
  BY <1>1, <1>2, <1>3, <1>5, <1>6, <1>7

LEMMA FetchRowTyped ==
  ASSUME NEW ps, NEW st, Fetching(ps, st), NEW row \in Seq(Seq(Int)), Len(row) = Len(ps)
  PROVE  Fetching(ps, FetchRow(st, row))
<1> DEFINE outs == Fetched(st, row)
<1>1. /\ outs \in Seq(ParamValues) /\ SameTypes(ps, outs)
      /\ \A i \in 1..Len(ps) : Whole(outs[i])
  BY FetchedIs
<1>2. \/ FetchRow(st, row) = st
      \/ FetchRow(st, row) = [st EXCEPT !.more = FALSE]
      \/ FetchRow(st, row) = [nb |-> WriteRow(st.nb, outs), outs |-> outs,
                              more |-> \A i \in DOMAIN outs : outs[i].type.t # "flt"]
  BY DEF FetchRow, Fetched
<1> HIDE DEF outs
<1>3. Roomy(WriteRow(st.nb, outs))
  BY <1>1, WriteRowTyped DEF Fetching, SameTypes
<1> DEFINE stop == [st EXCEPT !.more = FALSE]
           w == WriteRow(st.nb, outs)
           more == \A i \in DOMAIN outs : outs[i].type.t # "flt"
           next == [nb |-> w, outs |-> outs, more |-> more]
<1>4. stop.nb = st.nb /\ stop.outs = st.outs
  OBVIOUS
<1>5. next.nb = w /\ next.outs = outs
  OBVIOUS
<1> HIDE DEF stop, next, w
<1>6. Fetching(ps, stop)
  BY <1>4 DEF Fetching
<1>7. Fetching(ps, next)
  BY <1>1, <1>3, <1>5 DEF Fetching, w
<1> QED
  BY <1>2, <1>6, <1>7 DEF stop, next, w

\* The room for what has so many units, which only strings need.
Room(ps, size) == (\A i \in 1..Len(ps) : ~IsStr(ps[i].type)) \/ size <= ResultRoom

\* A row that comes over whole.
PlainRow(ps, row) ==
  \A i \in 1..Len(ps) : /\ row[i] # Null /\ ps[i].type.t # "flt"
                        /\ IF IsStr(ps[i].type) THEN Len(row[i]) <= ps[i].type.n
                           ELSE Len(row[i]) = 1

LEMMA FetchRowPlain ==
  ASSUME NEW ps, NEW st, Fetching(ps, st), NEW row \in Seq(Seq(Int)), Len(row) = Len(ps),
         st.more, PlainRow(ps, row), Room(ps, st.nb.buf.size + 1 + Len(Packed(ps, row)))
  PROVE  LET n == FetchRow(st, row)
             P == Packed(ps, row)
         IN  /\ n.more /\ n.nb.count = st.nb.count + 1 /\ P \in Seq(Int)
             /\ Contents(n.nb.buf) = Contents(st.nb.buf) \o (<<Len(P)>> \o P)
<1> DEFINE outs == Fetched(st, row)
<1>1. /\ outs \in Seq(ParamValues) /\ SameTypes(ps, outs)
      /\ \A i \in 1..Len(ps) : Whole(outs[i])
      /\ \A i \in 1..Len(ps) : row[i] # Null => Brings(outs[i]) = row[i]
      /\ DOMAIN outs = 1..Len(ps)
  BY FetchedIs
<1>2. ~Truncated(outs, row)
  <2> HIDE DEF outs
  <2> SUFFICES ASSUME NEW i \in 1..Len(ps), IsStr(outs[i].type), Len(row[i]) > outs[i].type.n
               PROVE  FALSE
    BY <1>1 DEF Truncated
  <2>1. outs[i].type = ps[i].type
    BY <1>1 DEF SameTypes
  <2>2. Len(row[i]) <= outs[i].type.n
    BY <2>1 DEF PlainRow
  <2>3. Len(row[i]) \in Nat /\ outs[i].type.n \in Nat
    <3>1. row[i] \in Seq(Int) /\ outs[i] \in ParamValues
      BY <1>1 DEF SameTypes
    <3>2. outs[i].type.n \in Nat
      BY <3>1, ParamFacts
    <3>3. Len(row[i]) \in Nat
      BY <3>1
    <3> QED
      BY <3>2, <3>3
  <2> QED
    BY <2>2, <2>3
<1>3. \A i \in DOMAIN outs : outs[i].type.t # "flt"
  <2> HIDE DEF outs
  <2> QED
    BY <1>1 DEF SameTypes, PlainRow
<1>4. FetchRow(st, row) = [nb |-> WriteRow(st.nb, outs), outs |-> outs, more |-> TRUE]
  BY <1>2, <1>3 DEF FetchRow, Fetched
<1> HIDE DEF outs
<1>5. Holds(outs, row)
  <2>1. Len(outs) = Len(ps) /\ \A i \in 1..Len(ps) : outs[i].type = ps[i].type
    BY <1>1 DEF SameTypes
  <2> QED
    BY <1>1, <2>1 DEF Holds, PlainRow
<1>6. Packed(outs, row) = Packed(ps, row)
  <2>1. DOMAIN row = 1..Len(ps)
    OBVIOUS
  <2> QED
    BY <1>1, <2>1, SamePacked
<1>7. \/ \A i \in 1..Len(outs) : ~IsStr(outs[i].type)
      \/ st.nb.buf.size + 1 + Len(Packed(outs, row)) <= ResultRoom
  BY <1>1, <1>6 DEF SameTypes, Room
<1> DEFINE n == WriteRow(st.nb, outs)
           P == Packed(outs, row)
<1>8. /\ n.count = st.nb.count + 1 /\ P \in Seq(Int)
      /\ Contents(n.buf) = Contents(st.nb.buf) \o (<<Len(P)>> \o P)
  BY <1>5, <1>7, WriteRowPlain DEF Fetching
<1> HIDE DEF n
<1> QED
  BY <1>4, <1>6, <1>8 DEF n

\* f fetches n rows, one after the other.
IsFetching(f, start, rows, n) ==
  f = [k \in 0..n |-> IF k = 0 THEN start ELSE FetchRow(f[k - 1], rows[k])]

LEMMA FetchingExists ==
  ASSUME NEW start, NEW rows, NEW n \in Nat PROVE \E f : IsFetching(f, start, rows, n)
<1> DEFINE Good == {k \in Nat : \E f : IsFetching(f, start, rows, k)}
<1>1. 0 \in Good
  <2> DEFINE f == [i \in 0..0 |-> start]
  <2>1. f = [i \in 0..0 |-> IF i = 0 THEN start ELSE FetchRow(f[i - 1], rows[i])]
    OBVIOUS
  <2> HIDE DEF f
  <2>2. IsFetching(f, start, rows, 0)
    BY <2>1 DEF IsFetching
  <2> QED
    BY <2>2
<1>2. ASSUME NEW k \in Nat, k \in Good PROVE k + 1 \in Good
  <2>1. PICK f : IsFetching(f, start, rows, k)
    BY <1>2
  <2> DEFINE v == FetchRow(f[k], rows[k + 1])
             g == [i \in 0..(k + 1) |-> IF i = k + 1 THEN v ELSE f[i]]
  <2>2. ASSUME NEW i \in 0..(k + 1)
        PROVE  g[i] = IF i = 0 THEN start ELSE FetchRow(g[i - 1], rows[i])
    <3>1. CASE i = k + 1
      <4>1. g[i] = v /\ g[i - 1] = f[k] /\ i # 0
        BY <3>1
      <4> QED
        BY <3>1, <4>1
    <3>2. CASE i # k + 1
      <4>1. i \in 0..k /\ g[i] = f[i] /\ (i # 0 => g[i - 1] = f[i - 1])
        BY <3>2
      <4>2. f[i] = IF i = 0 THEN start ELSE FetchRow(f[i - 1], rows[i])
        BY <4>1, <2>1 DEF IsFetching
      <4> HIDE DEF g
      <4> QED
        BY <4>1, <4>2
    <3> QED
      BY <3>1, <3>2
  <2>3. g = [i \in 0..(k + 1) |-> g[i]]
    OBVIOUS
  <2> HIDE DEF g
  <2>4. IsFetching(g, start, rows, k + 1)
    BY <2>2, <2>3 DEF IsFetching
  <2> QED
    BY <2>4
<1> HIDE DEF Good
<1>3. Nat \subseteq Good
  BY <1>1, <1>2, SetInduction
<1> QED
  BY <1>3 DEF Good

\* The turns of FetchRows: where the fetch stands after each.
FetchSteps(start, rows) == CHOOSE h : IsFetching(h, start, rows, Len(rows))

LEMMA FetchRowsIs ==
  ASSUME NEW start, NEW rows, Len(rows) \in Nat
  PROVE  /\ FetchSteps(start, rows)[0] = start
         /\ \A k \in 1..Len(rows) :
              FetchSteps(start, rows)[k] = FetchRow(FetchSteps(start, rows)[k - 1], rows[k])
         /\ FetchRows(start, rows) = FetchSteps(start, rows)[Len(rows)]
<1> DEFINE n == Len(rows)
           f == CHOOSE h : IsFetching(h, start, rows, n)
<1>1. FetchRows(start, rows) = f[n]
  BY DEF FetchRows, IsFetching
<1>2. IsFetching(f, start, rows, n)
  <2> HIDE DEF n
  <2> QED
    BY FetchingExists DEF n
<1> HIDE DEF f, n
<1>3. n \in Nat
  BY DEF n
<1>4. f[0] = start /\ \A i \in 1..n : f[i] = FetchRow(f[i - 1], rows[i])
  BY <1>2, <1>3 DEF IsFetching
<1>5. FetchSteps(start, rows) = f
  BY DEF FetchSteps, f, n
<1> QED
  BY <1>1, <1>4, <1>5 DEF n

\* Rows with a value for each of the columns ps.
RowsAre(ps, rows) ==
  /\ rows \in Seq(Seq(Seq(Int)))
  /\ \A j \in 1..Len(rows) : Len(rows[j]) = Len(ps)

LEMMA FetchRowsTyped ==
  ASSUME NEW ps, NEW start, Fetching(ps, start), NEW rows, RowsAre(ps, rows)
  PROVE  Fetching(ps, FetchRows(start, rows))
<1> DEFINE n == Len(rows)
<1>1. n \in Nat /\ rows \in Seq(Seq(Seq(Int)))
  BY DEF RowsAre
<1> DEFINE f == FetchSteps(start, rows)
<1>2. /\ f[0] = start
      /\ \A k \in 1..n : f[k] = FetchRow(f[k - 1], rows[k])
      /\ FetchRows(start, rows) = f[n]
  BY <1>1, FetchRowsIs
<1> HIDE DEF f
<1> DEFINE Good == {k \in Nat : k <= n => Fetching(ps, f[k])}
<1>3. 0 \in Good
  BY <1>2
<1>4. ASSUME NEW k \in Nat, k \in Good PROVE k + 1 \in Good
  <2> SUFFICES ASSUME k + 1 <= n PROVE Fetching(ps, f[k + 1])
    OBVIOUS
  <2>1. k + 1 \in 1..n /\ k + 1 - 1 = k /\ k <= n
    BY <1>1
  <2>2. f[k + 1] = FetchRow(f[k], rows[k + 1])
    BY <1>2, <2>1
  <2>3. Fetching(ps, f[k])
    BY <1>4, <2>1
  <2>4. rows[k + 1] \in Seq(Seq(Int)) /\ Len(rows[k + 1]) = Len(ps)
    BY <1>1, <2>1 DEF RowsAre
  <2> HIDE DEF n
  <2> QED
    BY <2>2, <2>3, <2>4, FetchRowTyped
<1> HIDE DEF Good
<1>5. Nat \subseteq Good
  BY <1>3, <1>4, SetInduction
<1> QED
  BY <1>1, <1>2, <1>5 DEF Good

\* Sequences of the same lengths start at the same places.
LEMMA SameStarts ==
  ASSUME NEW s \in Seq(Seq(Int)), NEW t \in Seq(Seq(Int)), Len(s) = Len(t),
         \A i \in 1..Len(s) : Len(s[i]) = Len(t[i])
  PROVE  Len(FlattenSeq(s)) = Len(FlattenSeq(t))
<1> DEFINE n == Len(s)
           Good == {k \in Nat : k <= n => StartOf(s, k) = StartOf(t, k)}
<1>1. n \in Nat
  OBVIOUS
<1>2. 0 \in Good
  BY StartFacts
<1>3. ASSUME NEW k \in Nat, k \in Good PROVE k + 1 \in Good
  <2> SUFFICES ASSUME k + 1 <= n PROVE StartOf(s, k + 1) = StartOf(t, k + 1)
    OBVIOUS
  <2>1. k \in 0..(n - 1) /\ k <= n /\ k + 1 \in 1..n
    BY <1>1
  <2>2. StartOf(s, k + 1) = StartOf(s, k) + Len(s[k + 1])
    BY <2>1, StartFacts
  <2>3. StartOf(t, k + 1) = StartOf(t, k) + Len(t[k + 1])
    BY <2>1, StartFacts
  <2>4. StartOf(s, k) = StartOf(t, k)
    BY <1>3, <2>1
  <2> QED
    BY <2>1, <2>2, <2>3, <2>4
<1> HIDE DEF Good
<1>4. Nat \subseteq Good
  BY <1>2, <1>3, SetInduction
<1>5. StartOf(s, n) = StartOf(t, n)
  BY <1>1, <1>4 DEF Good
<1>6. StartOf(s, n) = Len(FlattenSeq(s)) /\ StartOf(t, n) = Len(FlattenSeq(t))
  BY StartFacts
<1> QED
  BY <1>5, <1>6

\* A row as a node, and the nodes of rows; Plain counts them without their
\* lengths.
Node(P) == <<Len(P)>> \o P
RowNodes(ps, rows) == [j \in DOMAIN rows |-> Node(Packed(ps, rows[j]))]
RowSizes(ps, rows) == [j \in DOMAIN rows |-> <<0>> \o Packed(ps, rows[j])]

LEMMA NodeIs ==
  ASSUME NEW P \in Seq(Int)
  PROVE  /\ Node(P) \in Seq(Int) /\ Len(Node(P)) = Len(P) + 1 /\ Node(P)[1] = Len(P)
         /\ \A k \in 1..Len(P) : Node(P)[k + 1] = P[k]
         /\ <<0>> \o P \in Seq(Int) /\ Len(<<0>> \o P) = Len(P) + 1
<1> DEFINE l == Len(P)
           h == <<l>>
           z == <<0>>
<1>1. l \in Nat /\ h \in Seq(Int) /\ z \in Seq(Int) /\ Len(h) = 1 /\ Len(z) = 1 /\ h[1] = l
  OBVIOUS
<1> HIDE DEF h, z
<1>2. Joined(h, Len(h), P, l) /\ Joined(z, Len(z), P, l)
  BY <1>1, JoinedIs
<1> HIDE DEF l
<1>3. Joined(h, 1, P, l) /\ Joined(z, 1, P, l)
  BY <1>1, <1>2
<1> DEFINE n == h \o P
           y == z \o P
<1>4. /\ n \in Seq(Int) /\ Len(n) = 1 + l /\ y \in Seq(Int) /\ Len(y) = 1 + l
      /\ \A i \in 1..(1 + l) : n[i] = IF i <= 1 THEN h[i] ELSE P[i - 1]
  BY ONLY <1>3 DEF Joined
<1> HIDE DEF n, y
<1>5. /\ 1 \in 1..(1 + l) /\ 1 <= 1 /\ 1 + l = l + 1
      /\ \A k \in 1..l : k + 1 \in 1..(1 + l) /\ ~(k + 1 <= 1) /\ (k + 1) - 1 = k
  BY ONLY <1>1
<1>6. n[1] = l /\ \A k \in 1..l : n[k + 1] = P[k]
  BY <1>1, <1>4, <1>5
<1>7. Node(P) = n /\ y = <<0>> \o P
  BY DEF Node, n, h, l, y, z
<1>8. l = Len(P)
  BY DEF l
<1> QED
  BY <1>4, <1>5, <1>6, <1>7, <1>8

LEMMA PackedTyped ==
  ASSUME NEW ps, NEW vs \in Seq(Seq(Int)) PROVE Packed(ps, vs) \in Seq(Int)
<1>1. Pieces(ps, vs) \in Seq(Seq(Int))
  BY PiecesAre
<1> QED
  BY <1>1, PackedIs, FlattenType

LEMMA RowNodesAre ==
  ASSUME NEW ps, NEW rows, RowsAre(ps, rows)
  PROVE  LET q == RowNodes(ps, rows)
             z == RowSizes(ps, rows)
         IN  /\ q \in Seq(Seq(Int)) /\ Len(q) = Len(rows)
             /\ \A j \in 1..Len(rows) : /\ q[j] = Node(Packed(ps, rows[j]))
                                        /\ Packed(ps, rows[j]) \in Seq(Int)
                                        /\ Len(q[j]) >= 1
             /\ Len(FlattenSeq(q)) = Len(FlattenSeq(z))
<1> DEFINE n == Len(rows)
           q == [j \in 1..n |-> Node(Packed(ps, rows[j]))]
           z == [j \in 1..n |-> <<0>> \o Packed(ps, rows[j])]
<1>1. n \in Nat /\ rows \in Seq(Seq(Seq(Int))) /\ DOMAIN rows = 1..n
  BY DEF RowsAre
<1>2. ASSUME NEW j \in 1..n
      PROVE  /\ Packed(ps, rows[j]) \in Seq(Int) /\ Node(Packed(ps, rows[j])) \in Seq(Int)
             /\ <<0>> \o Packed(ps, rows[j]) \in Seq(Int)
             /\ Len(Node(Packed(ps, rows[j]))) = Len(<<0>> \o Packed(ps, rows[j]))
             /\ Len(Node(Packed(ps, rows[j]))) >= 1
  <2> DEFINE P == Packed(ps, rows[j])
  <2>1. rows[j] \in Seq(Seq(Int))
    BY <1>1
  <2>2. P \in Seq(Int)
    BY <2>1, PackedTyped
  <2>3. Len(P) \in Nat
    BY <2>2
  <2> HIDE DEF P
  <2>4. /\ Node(P) \in Seq(Int) /\ Len(Node(P)) = Len(P) + 1
        /\ <<0>> \o P \in Seq(Int) /\ Len(<<0>> \o P) = Len(P) + 1
    BY <2>2, NodeIs
  <2>5. Len(Node(P)) >= 1
    BY <2>3, <2>4
  <2> QED
    BY <2>2, <2>4, <2>5 DEF P
<1>3. RowNodes(ps, rows) = q /\ RowSizes(ps, rows) = z
  BY <1>1 DEF RowNodes, RowSizes
<1> HIDE DEF n
<1>4. q \in [1..n -> Seq(Int)] /\ z \in [1..n -> Seq(Int)]
  BY <1>2
<1>5. /\ q \in Seq(Seq(Int)) /\ Len(q) = n /\ z \in Seq(Seq(Int)) /\ Len(z) = n
  BY <1>1, <1>4, IsASeq
<1>6. \A j \in 1..n : q[j] = Node(Packed(ps, rows[j])) /\ z[j] = <<0>> \o Packed(ps, rows[j])
  OBVIOUS
<1> HIDE DEF q, z
<1>7. \A j \in 1..n : Len(q[j]) = Len(z[j]) /\ Len(q[j]) >= 1
  BY <1>2, <1>6
<1>8. Len(FlattenSeq(q)) = Len(FlattenSeq(z))
  BY <1>5, <1>7, SameStarts
<1> QED
  BY <1>2, <1>3, <1>5, <1>6, <1>7, <1>8 DEF n

\* The first k rows came over.
Came(q, k, st) ==
  /\ st.more /\ st.nb.count = k
  /\ Contents(st.nb.buf) = FlattenSeq(UpTo(q, k))

LEMMA CameGoesOn ==
  ASSUME NEW ps, NEW rows, RowsAre(ps, rows), NEW k \in Nat, k + 1 \in 1..Len(rows),
         PlainRow(ps, rows[k + 1]),
         Room(ps, Len(FlattenSeq(RowSizes(ps, rows)))),
         NEW st, Fetching(ps, st), Came(RowNodes(ps, rows), k, st)
  PROVE  Came(RowNodes(ps, rows), k + 1, FetchRow(st, rows[k + 1]))
<1> DEFINE q == RowNodes(ps, rows)
           row == rows[k + 1]
           P == Packed(ps, row)
           n == Len(rows)
           F == FlattenSeq(UpTo(q, k))
<1>1. /\ q \in Seq(Seq(Int)) /\ Len(q) = n /\ q[k + 1] = Node(P) /\ P \in Seq(Int)
      /\ \A j \in 1..n : Len(q[j]) >= 1
      /\ Len(FlattenSeq(q)) = Len(FlattenSeq(RowSizes(ps, rows)))
  BY RowNodesAre
<1>2. row \in Seq(Seq(Int)) /\ Len(row) = Len(ps) /\ n \in Nat
  BY DEF RowsAre
<1>3. /\ F \in Seq(Int)
      /\ FlattenSeq(UpTo(q, k + 1)) = F \o Node(P)
  <2>1. k + 1 \in 1..Len(q)
    BY <1>1
  <2> HIDE DEF q
  <2> QED
    BY <1>1, <2>1, UpToGrows
<1>4. Contents(st.nb.buf) = F /\ st.more /\ st.nb.count = k
  BY DEF Came
<1>5. \/ \A i \in 1..Len(ps) : ~IsStr(ps[i].type)
      \/ st.nb.buf.size + 1 + Len(P) <= ResultRoom
  <2> SUFFICES ASSUME Len(FlattenSeq(q)) <= ResultRoom
               PROVE  st.nb.buf.size + 1 + Len(P) <= ResultRoom
    BY <1>1 DEF Room
  <2> DEFINE f == Len(F)
             l == Len(P)
             t == Len(FlattenSeq(q))
             w == StartOf(q, k + 1)
             g == n - (k + 1)
             s == st.nb.buf.size
  <2> HIDE DEF q, P
  <2>1. Len(Node(P)) = l + 1
    BY <1>1, NodeIs
  <2>2. /\ k \in 0..(Len(q) - 1) /\ k + 1 \in 0..Len(q) /\ Len(q) \in (k + 1)..Len(q)
        /\ g >= 0 /\ g \in Int /\ Len(q) - (k + 1) = g /\ Len(q) \in 0..Len(q)
    BY <1>1, <1>2
  <2>3. /\ w = f + Len(q[k + 1]) /\ StartOf(q, Len(q)) = t /\ w \in Nat /\ t \in Nat
    BY <1>1, <2>2, StartFacts DEF StartOf
  <2>4. w + g <= t
    <3>1. StartOf(q, k + 1) + (Len(q) - (k + 1)) <= StartOf(q, Len(q))
      BY <1>1, <2>2, StartGrows
    <3> QED
      BY <3>1, <2>2, <2>3
  <2>5. s = f
    BY <1>4, NodesFacts DEF Fetching
  <2>6. f \in Nat /\ l \in Nat
    BY <1>1, <1>3
  <2>7. ResultRoom \in Nat /\ w = f + (l + 1)
    BY <1>1, <2>1, <2>3, StmtAssumption
  <2>8. t <= ResultRoom
    OBVIOUS
  <2> HIDE DEF f, l, t, w, g, s
  <2>9. s + 1 + l <= ResultRoom
    BY ONLY <2>2, <2>3, <2>4, <2>5, <2>6, <2>7, <2>8
  <2> QED
    BY <2>9 DEF s, l
<1> DEFINE y == FetchRow(st, row)
<1> HIDE DEF q, row
<1>6. PlainRow(ps, row)
  BY DEF row
<1>7. /\ y.more /\ y.nb.count = st.nb.count + 1
      /\ Contents(y.nb.buf) = Contents(st.nb.buf) \o Node(P)
  <2>1. Room(ps, st.nb.buf.size + 1 + Len(Packed(ps, row)))
    BY <1>5 DEF Room
  <2>2. /\ y.more /\ y.nb.count = st.nb.count + 1
        /\ Contents(y.nb.buf) = Contents(st.nb.buf)
                                   \o (<<Len(Packed(ps, row))>> \o Packed(ps, row))
    <3>1. /\ row \in Seq(Seq(Int)) /\ Len(row) = Len(ps) /\ st.more /\ Fetching(ps, st)
          /\ PlainRow(ps, row) /\ Room(ps, st.nb.buf.size + 1 + Len(Packed(ps, row)))
      BY <1>2, <1>4, <1>6, <2>1
    <3>2. LET z == FetchRow(st, row)
              Q == Packed(ps, row)
          IN  /\ z.more /\ z.nb.count = st.nb.count + 1 /\ Q \in Seq(Int)
              /\ Contents(z.nb.buf) = Contents(st.nb.buf) \o (<<Len(Q)>> \o Q)
      BY ONLY <3>1, FetchRowPlain, Zenon
    <3> QED
      BY <3>2
  <2> QED
    BY <2>2 DEF Node
<1> HIDE DEF y, P, F
<1>8. Came(q, k + 1, y)
  BY <1>3, <1>4, <1>7 DEF Came
<1> QED
  BY <1>8 DEF q, y, row

LEMMA FetchRowsPlain ==
  ASSUME NEW ps, NEW start, Fetching(ps, start), start.more, start.nb.count = 0,
         Contents(start.nb.buf) = <<>>, NEW rows, RowsAre(ps, rows),
         \A j \in 1..Len(rows) : PlainRow(ps, rows[j]),
         Room(ps, Len(FlattenSeq(RowSizes(ps, rows))))
  PROVE  LET n == FetchRows(start, rows)
         IN  /\ n.nb.count = Len(rows)
             /\ Contents(n.nb.buf) = FlattenSeq(RowNodes(ps, rows))
<1> DEFINE n == Len(rows)
           q == RowNodes(ps, rows)
<1>1. n \in Nat /\ rows \in Seq(Seq(Seq(Int)))
  BY DEF RowsAre
<1> DEFINE f == FetchSteps(start, rows)
<1>2. /\ f[0] = start
      /\ \A k \in 1..n : f[k] = FetchRow(f[k - 1], rows[k])
      /\ FetchRows(start, rows) = f[n]
  BY <1>1, FetchRowsIs
<1> HIDE DEF f
<1>3. q \in Seq(Seq(Int)) /\ Len(q) = n
  BY RowNodesAre
<1> HIDE DEF q
<1> DEFINE Good == {k \in Nat : k <= n => Fetching(ps, f[k]) /\ Came(q, k, f[k])}
<1>4. 0 \in Good
  <2>1. FlattenSeq(UpTo(q, 0)) = <<>>
    BY <1>3, UpToFacts, FlattenEmpty
  <2> QED
    BY <2>1, <1>2 DEF Came
<1>5. ASSUME NEW k \in Nat, k \in Good PROVE k + 1 \in Good
  <2> SUFFICES ASSUME k + 1 <= n PROVE Fetching(ps, f[k + 1]) /\ Came(q, k + 1, f[k + 1])
    OBVIOUS
  <2>1. k + 1 \in 1..n /\ k + 1 - 1 = k /\ k <= n
    BY <1>1
  <2>2. f[k + 1] = FetchRow(f[k], rows[k + 1])
    BY <1>2, <2>1
  <2>3. Fetching(ps, f[k]) /\ Came(q, k, f[k])
    BY <1>5, <2>1
  <2>4. rows[k + 1] \in Seq(Seq(Int)) /\ Len(rows[k + 1]) = Len(ps)
    BY <1>1, <2>1 DEF RowsAre
  <2>5. PlainRow(ps, rows[k + 1])
    BY <2>1
  <2>6. k + 1 \in 1..Len(rows)
    BY <2>1
  <2> HIDE DEF n, Good
  <2>7. Fetching(ps, FetchRow(f[k], rows[k + 1]))
    BY <2>3, <2>4, FetchRowTyped
  <2>8. Came(q, k + 1, FetchRow(f[k], rows[k + 1]))
    BY <2>3, <2>5, <2>6, CameGoesOn DEF q
  <2> QED
    BY <2>2, <2>7, <2>8
<1> HIDE DEF Good
<1>6. Nat \subseteq Good
  BY <1>4, <1>5, SetInduction
<1>7. Came(q, n, f[n])
  BY <1>1, <1>6 DEF Good
<1>8. UpTo(q, n) = q
  BY <1>3, UpToFacts
<1> QED
  BY <1>2, <1>7, <1>8 DEF Came, q

-----------------------------------------------------------------------------
(* Reading nodes back.                                                      *)

\* q has the values vs as nodes.
NodesOf(q, vs) ==
  /\ q \in Seq(Seq(Int)) /\ vs \in Seq(Seq(Int)) /\ Len(q) = Len(vs)
  /\ \A j \in 1..Len(q) : q[j] = Node(vs[j])

LEMMA NodePlaces ==
  ASSUME NEW q, NEW vs, NodesOf(q, vs), NEW k \in Nat, k + 1 \in 1..Len(q)
  PROVE  LET d == FlattenSeq(q)
             at == StartOf(q, k)
             v == vs[k + 1]
         IN  /\ at \in Nat /\ at < Len(d) /\ v \in Seq(Int) /\ Len(v) \in Nat
             /\ d[at + 1] = Len(v) /\ StartOf(q, k + 1) = at + 1 + Len(v)
             /\ at + 1 + Len(v) <= Len(d)
             /\ \A i \in 1..Len(v) : d[at + 1 + i] = v[i]
<1> DEFINE d == FlattenSeq(q)
           at == StartOf(q, k)
           v == vs[k + 1]
           l == Len(v)
           n == Len(q)
           g == n - (k + 1)
           t == Len(d)
<1>1. q \in Seq(Seq(Int)) /\ v \in Seq(Int) /\ q[k + 1] = Node(v) /\ n \in Nat
  <2>1. vs \in Seq(Seq(Int)) /\ k + 1 \in 1..Len(vs)
    BY DEF NodesOf
  <2> QED
    BY <2>1 DEF NodesOf
<1>2. l \in Nat
  BY <1>1
<1>3. /\ Len(q[k + 1]) = l + 1 /\ q[k + 1][1] = l
      /\ \A i \in 1..l : q[k + 1][i + 1] = v[i]
  <2> HIDE DEF v
  <2> QED
    BY <1>1, NodeIs
<1> HIDE DEF v
<1>4. /\ k \in 0..(n - 1) /\ k \in 0..n /\ k + 1 \in 0..n /\ n \in (k + 1)..n /\ g \in Nat
      /\ n \in 0..n
  BY <1>1
<1>5. at \in Nat /\ StartOf(q, k + 1) = at + (l + 1) /\ StartOf(q, n) = t
  <2>1. at \in Nat
    BY <1>1, <1>4, StartFacts
  <2>2. StartOf(q, k + 1) = at + Len(q[k + 1])
    BY <1>1, <1>4, StartFacts
  <2>3. StartOf(q, n) = t
    BY <1>1, StartFacts
  <2> QED
    BY <2>1, <2>2, <2>3, <1>3
<1>6. \A j \in 1..n : Len(q[j]) >= 1
  <2> SUFFICES ASSUME NEW j \in 1..n PROVE Len(q[j]) >= 1
    OBVIOUS
  <2> DEFINE w == vs[j]
  <2>1. w \in Seq(Int) /\ q[j] = Node(w)
    <3>1. vs \in Seq(Seq(Int)) /\ j \in 1..Len(vs)
      BY DEF NodesOf
    <3> QED
      BY <3>1 DEF NodesOf
  <2>2. Len(w) \in Nat
    BY <2>1
  <2> HIDE DEF w
  <2>3. Len(q[j]) = Len(w) + 1
    BY <2>1, NodeIs
  <2> QED
    BY <2>2, <2>3
<1>7. StartOf(q, k + 1) + g <= t
  BY <1>1, <1>4, <1>5, <1>6, StartGrows
<1>8. \A i \in 1..(l + 1) : d[at + i] = q[k + 1][i]
  BY SMTT(30), <1>1, <1>3, <1>4, FlattenPlace
<1> HIDE DEF l, n, g, at, d
<1>9. t \in Nat
  <2>1. d \in Seq(Int)
    BY <1>1, FlattenType DEF d
  <2> QED
    BY <2>1
<1> HIDE DEF t
<1>10. /\ at < t /\ at + 1 + l <= t /\ at + (l + 1) = at + 1 + l /\ 1 \in 1..(l + 1)
       /\ \A i \in 1..l : i + 1 \in 1..(l + 1) /\ at + (i + 1) = at + 1 + i
  <2>1. at \in Nat /\ l \in Nat /\ g \in Nat /\ t \in Nat /\ at + (l + 1) + g <= t
    BY <1>2, <1>4, <1>5, <1>7, <1>9
  <2> QED
    BY ONLY <2>1
<1>11. d[at + 1] = l /\ \A i \in 1..l : d[at + 1 + i] = v[i]
  BY <1>3, <1>8, <1>10
<1> QED
  BY <1>1, <1>2, <1>5, <1>10, <1>11 DEF v, l, d, t, at

IsEnds(f, d, n) ==
  f = [k \in 0..n |-> IF k = 0 THEN 0
                      ELSE IF f[k - 1] >= Len(d) THEN f[k - 1]
                      ELSE f[k - 1] + 1 + d[f[k - 1] + 1]]

LEMMA EndsExist ==
  ASSUME NEW d, NEW n \in Nat PROVE \E f : IsEnds(f, d, n)
<1> DEFINE Step(e) == IF e >= Len(d) THEN e ELSE e + 1 + d[e + 1]
           Good == {k \in Nat : \E f : IsEnds(f, d, k)}
<1>1. 0 \in Good
  <2> DEFINE f == [i \in 0..0 |-> 0]
  <2>1. f = [i \in 0..0 |-> IF i = 0 THEN 0
                            ELSE IF f[i - 1] >= Len(d) THEN f[i - 1]
                            ELSE f[i - 1] + 1 + d[f[i - 1] + 1]]
    OBVIOUS
  <2> HIDE DEF f
  <2>2. IsEnds(f, d, 0)
    BY <2>1 DEF IsEnds
  <2> QED
    BY <2>2
<1>2. ASSUME NEW k \in Nat, k \in Good PROVE k + 1 \in Good
  <2>1. PICK f : IsEnds(f, d, k)
    BY <1>2
  <2> DEFINE v == Step(f[k])
             g == [i \in 0..(k + 1) |-> IF i = k + 1 THEN v ELSE f[i]]
  <2>2. ASSUME NEW i \in 0..(k + 1) PROVE g[i] = IF i = 0 THEN 0 ELSE Step(g[i - 1])
    <3> HIDE DEF Step
    <3>1. CASE i = k + 1
      <4>1. g[i] = v /\ g[i - 1] = f[k] /\ i # 0
        BY <3>1
      <4> QED
        BY <3>1, <4>1
    <3>2. CASE i # k + 1
      <4>1. i \in 0..k /\ g[i] = f[i] /\ (i # 0 => g[i - 1] = f[i - 1])
        BY <3>2
      <4>2. f[i] = IF i = 0 THEN 0 ELSE Step(f[i - 1])
        BY <4>1, <2>1 DEF IsEnds, Step
      <4> HIDE DEF g
      <4> QED
        BY <4>1, <4>2
    <3> QED
      BY <3>1, <3>2
  <2>3. g = [i \in 0..(k + 1) |-> g[i]]
    OBVIOUS
  <2> HIDE DEF g
  <2>4. IsEnds(g, d, k + 1)
    BY <2>2, <2>3 DEF IsEnds
  <2> QED
    BY <2>4
<1> HIDE DEF Good
<1>3. Nat \subseteq Good
  BY <1>1, <1>2, SetInduction
<1> QED
  BY <1>3 DEF Good

LEMMA NodeEndsAre ==
  ASSUME NEW d, Len(d) \in Nat
  PROVE  LET E == NodeEnds(d)
         IN  /\ E[0] = 0
             /\ \A k \in 1..Len(d) : E[k] = IF E[k - 1] >= Len(d) THEN E[k - 1]
                                            ELSE E[k - 1] + 1 + d[E[k - 1] + 1]
<1> DEFINE n == Len(d)
           f == CHOOSE h : IsEnds(h, d, n)
<1>1. NodeEnds(d) = f
  BY DEF NodeEnds, IsEnds
<1>2. IsEnds(f, d, n)
  <2> HIDE DEF n
  <2> QED
    BY EndsExist DEF n
<1> HIDE DEF f
<1>3. f[0] = 0
  <2> HIDE DEF n
  <2>1. 0 \in 0..n
    BY DEF n
  <2> QED
    BY <1>2, <2>1 DEF IsEnds
<1>4. ASSUME NEW k \in 1..n
      PROVE  f[k] = IF f[k - 1] >= n THEN f[k - 1] ELSE f[k - 1] + 1 + d[f[k - 1] + 1]
  <2>1. k \in 0..n /\ k # 0
    OBVIOUS
  <2> QED
    BY <1>2, <2>1 DEF IsEnds
<1> QED
  BY <1>1, <1>3, <1>4

\* FormatFrom finds the nodes where they start, and the end of the data
\* behind the last.
LEMMA EndsOfNodes ==
  ASSUME NEW q, NEW vs, NodesOf(q, vs), Len(q) >= 1
  PROVE  LET d == FlattenSeq(q)
             E == NodeEnds(d)
             m == Len(q)
         IN  /\ m \in 1..Len(d) /\ d \in Seq(Int)
             /\ \A k \in 0..(m - 1) : E[k] \in Nat /\ E[k] < Len(d)
             /\ \A k \in m..Len(d) : E[k] = Len(d)
<1> DEFINE d == FlattenSeq(q)
           E == NodeEnds(d)
           m == Len(q)
           t == Len(d)
<1>1. q \in Seq(Seq(Int)) /\ m \in Nat /\ d \in Seq(Int) /\ t \in Nat
  <2>1. q \in Seq(Seq(Int))
    BY DEF NodesOf
  <2>2. d \in Seq(Int)
    BY <2>1, FlattenType
  <2> HIDE DEF d
  <2> QED
    BY <2>1, <2>2
<1>2. StartOf(q, 0) = 0 /\ StartOf(q, m) = t
  BY <1>1, StartFacts
<1>3. /\ E[0] = 0
      /\ \A k \in 1..t : E[k] = IF E[k - 1] >= t THEN E[k - 1]
                                ELSE E[k - 1] + 1 + d[E[k - 1] + 1]
  <2> HIDE DEF d
  <2> QED
    BY <1>1, NodeEndsAre
<1>4. ASSUME NEW k \in Nat, k + 1 \in 1..m
      PROVE  /\ StartOf(q, k) \in Nat /\ StartOf(q, k) < t
             /\ StartOf(q, k + 1) = StartOf(q, k) + 1 + d[StartOf(q, k) + 1]
             /\ StartOf(q, k + 1) >= StartOf(q, k) + 1 /\ StartOf(q, k + 1) <= t
  <2> DEFINE at == StartOf(q, k)
             v == vs[k + 1]
             l == Len(v)
  <2>1. /\ at \in Nat /\ at < t /\ l \in Nat
        /\ d[at + 1] = l /\ StartOf(q, k + 1) = at + 1 + l /\ at + 1 + l <= t
    BY <1>4, NodePlaces
  <2> HIDE DEF at, l, d, t
  <2>2. at + 1 + l >= at + 1
    BY ONLY <2>1
  <2> QED
    BY <2>1, <2>2 DEF at
<1> HIDE DEF E, d, m, t
<1> DEFINE Good == {k \in Nat : k <= m => k <= StartOf(q, k) /\ k <= t /\ E[k] = StartOf(q, k)}
<1>5. 0 \in Good
  BY <1>1, <1>2, <1>3
<1>6. ASSUME NEW k \in Nat, k \in Good PROVE k + 1 \in Good
  <2> SUFFICES ASSUME k + 1 <= m
               PROVE  k + 1 <= StartOf(q, k + 1) /\ k + 1 <= t /\ E[k + 1] = StartOf(q, k + 1)
    OBVIOUS
  <2> DEFINE at == StartOf(q, k)
             b == StartOf(q, k + 1)
  <2>1. k + 1 \in 1..m /\ k <= m /\ k + 1 - 1 = k
    BY <1>1
  <2>2. at \in Nat /\ at < t /\ b = at + 1 + d[at + 1] /\ b >= at + 1 /\ b <= t
    BY <1>4, <2>1
  <2>3. k <= at /\ E[k] = at
    BY <1>6, <2>1
  <2> HIDE DEF at, b
  <2>4. b \in Int
    <3>1. k + 1 \in 0..m
      BY <2>1
    <3> QED
      BY <1>1, <3>1, StartFacts DEF b, m
  <2>5. k + 1 <= b /\ k + 1 <= t /\ k + 1 \in 1..t /\ ~(at >= t)
    BY ONLY <2>2, <2>3, <2>4, <1>1, k \in Nat
  <2>6. E[k + 1] = b
    BY <1>3, <2>1, <2>2, <2>3, <2>5
  <2> QED
    BY <2>5, <2>6 DEF b
<1> HIDE DEF Good
<1>7. Nat \subseteq Good
  BY <1>5, <1>6, SetInduction
<1>8. \A k \in 0..m : k <= t /\ E[k] = StartOf(q, k)
  BY <1>1, <1>7 DEF Good
<1>9. m \in 1..t
  <2>1. m >= 1 /\ m \in 0..m
    BY <1>1 DEF m
  <2>2. m <= t
    BY <1>8, <2>1
  <2> QED
    BY ONLY <2>1, <2>2, <1>1
<1>10. \A k \in 0..(m - 1) : E[k] \in Nat /\ E[k] < t
  <2> SUFFICES ASSUME NEW k \in 0..(m - 1) PROVE E[k] \in Nat /\ E[k] < t
    OBVIOUS
  <2>1. k \in Nat /\ k + 1 \in 1..m /\ k \in 0..m
    BY <1>1
  <2> QED
    BY <1>4, <1>8, <2>1
<1> DEFINE Past == {k \in Nat : m + k <= t => E[m + k] = t}
<1>11. 0 \in Past
  <2>1. m \in 0..m /\ m + 0 = m
    BY <1>1
  <2> QED
    BY <1>2, <1>8, <2>1
<1>12. ASSUME NEW k \in Nat, k \in Past PROVE k + 1 \in Past
  <2> SUFFICES ASSUME m + (k + 1) <= t PROVE E[m + (k + 1)] = t
    OBVIOUS
  <2>1. m + (k + 1) \in 1..t /\ m + (k + 1) - 1 = m + k /\ m + k <= t /\ t >= t
    BY <1>1
  <2>2. E[m + k] = t
    BY <1>12, <2>1
  <2> DEFINE i == m + (k + 1)
  <2>3. i \in 1..t /\ i - 1 = m + k
    BY ONLY <1>1, <2>1, k \in Nat
  <2> HIDE DEF i
  <2>4. E[i - 1] = t /\ t >= t
    BY <2>2, <2>3, <1>1
  <2>5. E[i] = t
    BY <1>3, <2>3, <2>4
  <2> QED
    BY <2>5 DEF i
<1> HIDE DEF Past
<1>13. Nat \subseteq Past
  BY <1>11, <1>12, SetInduction
<1>14. \A k \in m..t : E[k] = t
  <2> SUFFICES ASSUME NEW k \in m..t PROVE E[k] = t
    OBVIOUS
  <2>1. k - m \in Nat /\ m + (k - m) = k /\ k <= t
    BY <1>1
  <2>2. k - m \in Past
    BY <1>13, <2>1
  <2> QED
    BY <2>1, <2>2 DEF Past
<1> QED
  BY <1>1, <1>9, <1>10, <1>14 DEF E, d, m, t

\* The buffer of a client that has got the nodes.
LEMMA FormatFromNodes ==
  ASSUME NEW q, NEW vs, NodesOf(q, vs), Len(q) >= 1
  PROVE  LET d == FlattenSeq(q)
             nb == FormatFrom([NewNodes(0) EXCEPT !.buf = NewBuffer], d)
         IN  nb.buf.mem = d /\ nb.buf.size = Len(d) /\ nb.count = Len(q)
<1> DEFINE d == FlattenSeq(q)
           E == NodeEnds(d)
           m == Len(q)
           t == Len(d)
           nb == [NewNodes(0) EXCEPT !.buf = NewBuffer]
           n == CHOOSE k \in 1..t : E[k] >= t /\ \A j \in 1..(k - 1) : E[j] < t
           c == SetSize(WrapBuffer(nb.buf, d), t)
<1>1. /\ m \in 1..t /\ d \in Seq(Int)
      /\ \A k \in 0..(m - 1) : E[k] \in Nat /\ E[k] < t
      /\ \A k \in m..t : E[k] = t
  BY EndsOfNodes
<1> HIDE DEF d, E, m
<1>2. t \in Nat /\ m \in Nat
  BY <1>1
<1>3. n = m
  <2>1. E[m] >= t /\ \A j \in 1..(m - 1) : E[j] < t
    <3>1. m \in m..t /\ \A j \in 1..(m - 1) : j \in 0..(m - 1)
      BY <1>1, <1>2
    <3> QED
      BY <1>1, <1>2, <3>1
  <2>2. ASSUME NEW k \in 1..t, E[k] >= t, \A j \in 1..(k - 1) : E[j] < t PROVE k = m
    <3>1. CASE k < m
      <4>1. k \in 0..(m - 1)
        BY <3>1, <1>2
      <4>2. E[k] \in Nat /\ E[k] < t /\ E[k] >= t
        BY <1>1, <2>2, <4>1
      <4> DEFINE e == E[k]
      <4>3. e \in Nat /\ e < t /\ e >= t
        BY <4>2
      <4> HIDE DEF e, t
      <4> QED
        BY ONLY <4>3, <1>2
    <3>2. CASE k > m
      <4>1. m \in 1..(k - 1) /\ m \in m..t
        BY <1>1, <1>2, <3>2
      <4>2. E[m] < t /\ E[m] = t
        BY <1>1, <2>2, <4>1
      <4> QED
        BY <4>2, <1>2
    <3> QED
      BY <1>2, <3>1, <3>2
  <2>3. \A k \in 1..t : E[k] >= t /\ (\A j \in 1..(k - 1) : E[j] < t) => k = m
    BY <2>2
  <2>4. m \in 1..t
    BY <1>1
  <2> HIDE DEF t
  <2> QED
    BY ONLY <2>1, <2>3, <2>4
<1>4. d # <<>> /\ E[t] = t /\ nb.buf.mem = <<>>
  <2>1. t \in m..t
    BY <1>1, <1>2
  <2>2. d # <<>>
    BY <1>1
  <2>3. nb.buf = NewBuffer /\ NewBuffer.mem = <<>>
    BY DEF NewNodes, NewBuffer
  <2> QED
    BY <1>1, <2>1, <2>2, <2>3
<1>5. nb \in [buf : {NewBuffer}, count : {0}, offset : {0}]
  BY DEF NewNodes
<1> HIDE DEF nb
<1>6. FormatFrom(nb, d) = [nb EXCEPT !.buf = c, !.count = n]
  BY <1>4 DEF FormatFrom, E
<1>7. /\ c.mem = d /\ c.size = t
  <2> DEFINE w == [NewBuffer EXCEPT !.mem = d, !.size = 0, !.type = "external"]
  <2>1. nb.buf = NewBuffer
    BY <1>5
  <2>2. WrapBuffer(nb.buf, d) = w
    BY <1>4, <2>1 DEF WrapBuffer, NewBuffer
  <2>3. w.mem = d
    BY DEF NewBuffer
  <2> HIDE DEF w
  <2>4. c = [w EXCEPT !.size = t]
    BY <1>2, <2>2, <2>3 DEF SetSize, MaxSize
  <2>5. DOMAIN w = {"mem", "size", "moved", "type"}
    BY DEF w, NewBuffer
  <2>6. [w EXCEPT !.size = t].mem = w.mem /\ [w EXCEPT !.size = t].size = t
    BY <2>5
  <2> QED
    BY <2>3, <2>4, <2>6
<1> HIDE DEF c, n
<1> DEFINE y == [nb EXCEPT !.buf = c, !.count = n]
<1>8. y.buf = c /\ y.count = n
  BY <1>5
<1> HIDE DEF y
<1>9. FormatFrom(nb, d) = y
  BY <1>6 DEF y
<1> QED
  BY <1>3, <1>7, <1>8, <1>9 DEF d, m, nb

IsWalk(f, nb, n) ==
  f = [k \in 1..n |-> IF k = 1 THEN Begin(nb) ELSE NextNode(nb, f[k - 1])]

LEMMA WalkExists ==
  ASSUME NEW nb, NEW n \in Nat PROVE \E f : IsWalk(f, nb, n)
<1> DEFINE Good == {k \in Nat : \E f : IsWalk(f, nb, k)}
<1>1. 0 \in Good
  <2> DEFINE f == [i \in 1..0 |-> Begin(nb)]
  <2>1. f = [i \in 1..0 |-> IF i = 1 THEN Begin(nb) ELSE NextNode(nb, f[i - 1])]
    OBVIOUS
  <2> HIDE DEF f
  <2>2. IsWalk(f, nb, 0)
    BY <2>1 DEF IsWalk
  <2> QED
    BY <2>2
<1>2. ASSUME NEW k \in Nat, k \in Good PROVE k + 1 \in Good
  <2>1. PICK f : IsWalk(f, nb, k)
    BY <1>2
  <2> DEFINE v == IF k = 0 THEN Begin(nb) ELSE NextNode(nb, f[k])
             g == [i \in 1..(k + 1) |-> IF i = k + 1 THEN v ELSE f[i]]
  <2>2. ASSUME NEW i \in 1..(k + 1)
        PROVE  g[i] = IF i = 1 THEN Begin(nb) ELSE NextNode(nb, g[i - 1])
    <3>1. CASE i = k + 1
      <4>1. g[i] = v /\ (i # 1 => g[i - 1] = f[k] /\ k # 0) /\ (i = 1 => k = 0)
        BY <3>1
      <4> HIDE DEF g
      <4> QED
        BY <4>1
    <3>2. CASE i # k + 1
      <4>1. i \in 1..k /\ g[i] = f[i] /\ (i # 1 => g[i - 1] = f[i - 1])
        BY <3>2
      <4>2. f[i] = IF i = 1 THEN Begin(nb) ELSE NextNode(nb, f[i - 1])
        BY <4>1, <2>1 DEF IsWalk
      <4> HIDE DEF g
      <4> QED
        BY <4>1, <4>2
    <3> QED
      BY <3>1, <3>2
  <2>3. g = [i \in 1..(k + 1) |-> g[i]]
    OBVIOUS
  <2> HIDE DEF g
  <2>4. IsWalk(g, nb, k + 1)
    BY <2>2, <2>3 DEF IsWalk
  <2> QED
    BY <2>4
<1> HIDE DEF Good
<1>3. Nat \subseteq Good
  BY <1>1, <1>2, SetInduction
<1> QED
  BY <1>3 DEF Good

LEMMA NodesAre ==
  ASSUME NEW nb, nb.count \in Nat
  PROVE  \E f : /\ \A k \in 1..nb.count :
                     f[k] = IF k = 1 THEN Begin(nb) ELSE NextNode(nb, f[k - 1])
                /\ Nodes(nb) = [k \in 1..nb.count |-> NodeAt(nb, f[k])]
<1> DEFINE n == nb.count
           f == CHOOSE h : IsWalk(h, nb, n)
<1>1. Nodes(nb) = [k \in 1..n |-> NodeAt(nb, f[k])]
  BY DEF Nodes, IsWalk
<1>2. IsWalk(f, nb, n)
  <2> HIDE DEF n
  <2> QED
    BY WalkExists DEF n
<1> HIDE DEF f
<1>3. ASSUME NEW k \in 1..n
      PROVE  f[k] = IF k = 1 THEN Begin(nb) ELSE NextNode(nb, f[k - 1])
  BY <1>2 DEF IsWalk
<1> QED
  BY <1>1, <1>3

\* The client reads the nodes that were written.
LEMMA ReadBackNodes ==
  ASSUME NEW q, NEW vs, NodesOf(q, vs), Len(q) >= 1, NEW a, a.nodes = FlattenSeq(q)
  PROVE  ReadBack(a) = vs
<1> DEFINE d == FlattenSeq(q)
           nb == FormatFrom([NewNodes(0) EXCEPT !.buf = NewBuffer], d)
           m == Len(q)
           t == Len(d)
<1>1. ReadBack(a) = Nodes(nb)
  BY DEF ReadBack
<1>2. nb.buf.mem = d /\ nb.buf.size = t /\ nb.count = m
  BY FormatFromNodes
<1>3. /\ m \in Nat /\ m >= 1 /\ d \in Seq(Int) /\ vs \in Seq(Seq(Int)) /\ Len(vs) = m
      /\ m \in 1..t /\ q \in Seq(Seq(Int))
  <2>1. d \in Seq(Int) /\ m \in 1..t
    BY EndsOfNodes
  <2>2. q \in Seq(Seq(Int)) /\ vs \in Seq(Seq(Int)) /\ Len(vs) = m
    BY DEF NodesOf
  <2>3. m \in Nat
    BY <2>2
  <2> QED
    BY <2>1, <2>2, <2>3
<1> HIDE DEF nb
<1>4. PICK f : /\ \A k \in 1..m : f[k] = IF k = 1 THEN Begin(nb) ELSE NextNode(nb, f[k - 1])
               /\ Nodes(nb) = [k \in 1..m |-> NodeAt(nb, f[k])]
  <2>1. nb.count \in Nat
    BY <1>2, <1>3
  <2>2. PICK f : /\ \A k \in 1..nb.count :
                      f[k] = IF k = 1 THEN Begin(nb) ELSE NextNode(nb, f[k - 1])
                 /\ Nodes(nb) = [k \in 1..nb.count |-> NodeAt(nb, f[k])]
    BY <2>1, NodesAre
  <2>3. /\ \A k \in 1..m : f[k] = IF k = 1 THEN Begin(nb) ELSE NextNode(nb, f[k - 1])
        /\ Nodes(nb) = [k \in 1..m |-> NodeAt(nb, f[k])]
    BY <1>2, <2>2
  <2> QED
    BY <2>3
<1>5. t \in Nat /\ t # 0
  BY <1>3
<1> DEFINE Itr(k) == [at |-> StartOf(q, k) + 1, size |-> Len(vs[k + 1]), count |-> k + 1]
           Good == {k \in Nat : k + 1 <= m => f[k + 1] = Itr(k)}
<1>6. ASSUME NEW k \in Nat, k + 1 \in 1..m
      PROVE  /\ StartOf(q, k) \in Nat /\ vs[k + 1] \in Seq(Int) /\ Len(vs[k + 1]) \in Nat
             /\ d[StartOf(q, k) + 1] = Len(vs[k + 1])
             /\ StartOf(q, k + 1) = StartOf(q, k) + 1 + Len(vs[k + 1])
             /\ StartOf(q, k) + 1 + Len(vs[k + 1]) <= t
             /\ \A i \in 1..Len(vs[k + 1]) : d[StartOf(q, k) + 1 + i] = vs[k + 1][i]
  <2> DEFINE at == StartOf(q, k)
             v == vs[k + 1]
  <2>1. /\ at \in Nat /\ v \in Seq(Int) /\ Len(v) \in Nat
        /\ d[at + 1] = Len(v) /\ StartOf(q, k + 1) = at + 1 + Len(v)
        /\ at + 1 + Len(v) <= Len(d)
        /\ \A i \in 1..Len(v) : d[at + 1 + i] = v[i]
    BY <1>6, NodePlaces
  <2> HIDE DEF at, v, d
  <2> QED
    BY <2>1 DEF at, v
<1> HIDE DEF d, m, t
<1>7. 0 \in Good
  <2>1. 0 + 1 \in 1..m /\ 0 + 1 = 1 /\ 1 \in 1..m
    BY <1>3
  <2>2. StartOf(q, 0) = 0
    BY <1>3, StartFacts
  <2>3. d[1] = Len(vs[1])
    BY <1>6, <2>1, <2>2
  <2>4. Begin(nb) = [at |-> 1, size |-> d[1], count |-> 1]
    BY <1>2, <1>5 DEF Begin
  <2>5. f[1] = Begin(nb)
    BY <1>4, <2>1
  <2> QED
    BY <2>1, <2>2, <2>3, <2>4, <2>5
<1>8. ASSUME NEW k \in Nat, k \in Good PROVE k + 1 \in Good
  <2> SUFFICES ASSUME k + 1 + 1 <= m PROVE f[k + 1 + 1] = Itr(k + 1)
    OBVIOUS
  <2> DEFINE j == k + 1
             at == StartOf(q, k)
             l == Len(vs[j])
             b == StartOf(q, j)
             itr == Itr(k)
  <2>1. /\ j \in Nat /\ j \in 1..m /\ j + 1 \in 1..m /\ j + 1 # 1 /\ j + 1 - 1 = j
        /\ ~(j >= m)
    BY <1>3
  <2>2. f[j] = itr
    BY <1>8, <2>1
  <2>3. f[j + 1] = NextNode(nb, itr)
    <3>1. f[j + 1] = NextNode(nb, f[j + 1 - 1])
      BY <1>4, <2>1
    <3> QED
      BY <2>1, <2>2, <3>1
  <2>4. /\ at \in Nat /\ l \in Nat /\ b = at + 1 + l /\ at + 1 + l <= t
    BY <1>6, <2>1
  <2>5. d[b + 1] = Len(vs[j + 1]) /\ b \in Nat
    BY <1>6, <2>1
  <2>6. itr.at = at + 1 /\ itr.size = l /\ itr.count = j
    OBVIOUS
  <2> HIDE DEF itr, at, l, b, j
  <2>7. ~(l > t) /\ at + 1 + l + 1 = b + 1
    BY ONLY <2>4, <1>5
  <2>8. ~(itr.count >= nb.count) /\ ~(itr.size > nb.buf.size)
    BY <1>2, <2>1, <2>6, <2>7
  <2>9. NextNode(nb, itr) = [at |-> b + 1, size |-> d[b + 1], count |-> j + 1]
    BY <1>2, <2>6, <2>7, <2>8 DEF NextNode
  <2>10. NextNode(nb, itr) = [at |-> b + 1, size |-> Len(vs[j + 1]), count |-> j + 1]
    BY <2>5, <2>9
  <2> QED
    BY <2>3, <2>10 DEF j, b
<1> HIDE DEF Good
<1>9. Nat \subseteq Good
  BY <1>7, <1>8, SetInduction
<1>10. ASSUME NEW n \in 1..m PROVE NodeAt(nb, f[n]) = vs[n]
  <2> DEFINE k == n - 1
             at == StartOf(q, k)
             v == vs[n]
             l == Len(v)
             x == SubSeq(d, at + 1 + 1, at + 1 + l)
  <2>1. k \in Nat /\ k + 1 = n /\ k + 1 \in 1..m /\ k + 1 <= m
    BY <1>3
  <2>2. f[n] = Itr(k)
    <3>1. f[k + 1] = Itr(k)
      BY <1>9, <2>1 DEF Good
    <3> QED
      BY <2>1, <3>1
  <2>3. NodeAt(nb, f[n]) = x
    <3>1. f[n].at = at + 1 /\ f[n].size = l
      BY <2>1, <2>2
    <3> HIDE DEF l, at
    <3> QED
      BY <1>2, <3>1 DEF NodeAt
  <2>4. /\ at \in Nat /\ v \in Seq(Int) /\ l \in Nat /\ at + 1 + l <= t
        /\ \A i \in 1..l : d[at + 1 + i] = v[i]
    BY <1>6, <2>1
  <2> HIDE DEF k, at, v, l
  <2>5. /\ at + 1 + 1 \in Int /\ at + 1 + l \in Int
        /\ \A i \in (at + 1 + 1)..(at + 1 + l) : i \in 1..t
        /\ (at + 1 + 1 <= at + 1 + l => at + 1 + l - (at + 1 + 1) + 1 = l)
        /\ (~(at + 1 + 1 <= at + 1 + l) => l = 0)
        /\ \A i \in 1..l : /\ at + 1 + 1 + i - 1 = at + 1 + i
                           /\ i \in 1..(at + 1 + l - (at + 1 + 1) + 1)
    BY ONLY <2>4, <1>5
  <2>6. \A i \in (at + 1 + 1)..(at + 1 + l) : d[i] \in Int
    BY <1>3, <2>5 DEF t
  <2> DEFINE lo == at + 1 + 1
             hi == at + 1 + l
  <2>7. /\ x \in Seq(Int) /\ Len(x) = (IF lo <= hi THEN hi - lo + 1 ELSE 0)
        /\ \A i \in 1..(hi - lo + 1) : x[i] = d[lo + i - 1]
    BY SMTT(30), <2>5, <2>6, <1>3, SubSeqProperties
  <2> HIDE DEF x
  <2>8. Len(x) = l
    <3> DEFINE w == Len(x)
    <3>1. w = (IF lo <= hi THEN hi - lo + 1 ELSE 0)
      BY <2>7
    <3>2. (lo <= hi => hi - lo + 1 = l) /\ (~(lo <= hi) => l = 0)
      BY ONLY <2>4
    <3> HIDE DEF w, lo, hi
    <3>3. w = l
      BY ONLY <3>1, <3>2
    <3> QED
      BY <3>3 DEF w
  <2>9. ASSUME NEW i \in 1..l PROVE x[i] = v[i]
    <3> DEFINE from == lo + i - 1
               to == at + 1 + i
    <3>0. at \in Nat /\ l \in Nat /\ i \in 1..l
      BY <2>4
    <3>1. i \in 1..(hi - lo + 1) /\ from = to
      BY ONLY <3>0
    <3>2. d[to] = v[i]
      BY <2>4
    <3>3. \A j \in 1..(hi - lo + 1) : x[j] = d[lo + j - 1]
      BY <2>7
    <3> HIDE DEF lo, hi, to
    <3>4. x[i] = d[from]
      BY <3>1, <3>3
    <3> QED
      BY <3>1, <3>2, <3>4
  <2>10. x = v
    BY <2>4, <2>7, <2>8, <2>9, SeqEqual DEF l
  <2> QED
    BY <2>3, <2>10 DEF v
<1>11. Nodes(nb) = [n \in 1..m |-> vs[n]]
  BY <1>4, <1>10
<1>12. [n \in 1..m |-> vs[n]] = vs
  BY <1>3
<1> QED
  BY <1>1, <1>11, <1>12

-----------------------------------------------------------------------------
(* Binding.                                                                 *)

LEMMA BindParamIs ==
  ASSUME NEW t \in ParamTypes
  PROVE  BindParam(t) \in ParamValues /\ Ready(BindParam(t)) /\ BindParam(t).type = t
<1> DEFINE v == IF IsStr(t) THEN InitBuffer(NewBuffer, t.n)
                ELSE SetSize(WrapBuffer(NewBuffer, <<0>>), 1)
           p == [type |-> t, len |-> 0, value |-> v]
<1>1. t.n \in Nat
  BY DEF ParamTypes
<1>2. NewBuffer \in Buffers /\ NewBuffer.mem = <<>> /\ NewBuffer.moved = FALSE
  BY DEF NewBuffer, Buffers
<1>3. v \in Buffers /\ (IsStr(t) /\ t.n > 0 => v.type = "new" /\ ~v.moved /\ Len(v.mem) = t.n)
  <2>1. CASE IsStr(t) /\ t.n > 0
    <3> DEFINE b == Blank(t.n)
               c == [NewBuffer EXCEPT !.mem = b, !.size = 0, !.type = "new"]
    <3>1. v = c
      BY <1>2, <2>1 DEF InitBuffer
    <3>2. b \in Seq(Int) /\ Len(b) = t.n
      BY <1>1, BlankIs
    <3> HIDE DEF b
    <3>3. c \in Buffers /\ c.mem = b /\ c.type = "new" /\ c.moved = FALSE
      BY <3>2 DEF NewBuffer, Buffers
    <3> HIDE DEF c, v
    <3> QED
      BY <3>1, <3>2, <3>3
  <2>2. CASE IsStr(t) /\ ~(t.n > 0)
    <3>1. v = NewBuffer
      BY <2>2 DEF InitBuffer
    <3> QED
      BY <1>2, <2>2, <3>1
  <2>3. CASE ~IsStr(t)
    <3> DEFINE z == <<0>>
               w == [NewBuffer EXCEPT !.mem = z, !.size = 0, !.type = "external"]
               c == [w EXCEPT !.size = 1]
    <3>1. z \in Seq(Int) /\ Len(z) = 1 /\ z # <<>>
      OBVIOUS
    <3> HIDE DEF z
    <3>2. w \in Buffers /\ w.mem = z
      BY <3>1 DEF NewBuffer, Buffers
    <3>3. WrapBuffer(NewBuffer, z) = w
      BY <1>2, <3>1 DEF WrapBuffer
    <3> HIDE DEF w
    <3>4. SetSize(w, 1) = c
      BY <3>1, <3>2 DEF SetSize, MaxSize
    <3>5. c \in Buffers
      BY <3>2 DEF Buffers
    <3> HIDE DEF c
    <3>6. v = c
      BY <2>3, <3>3, <3>4 DEF z
    <3> HIDE DEF v
    <3> QED
      BY <2>3, <3>5, <3>6
  <2> QED
    BY <2>1, <2>2, <2>3
<1>4. BindParam(t) = p
  BY DEF BindParam
<1> HIDE DEF v
<1>5. p \in ParamValues /\ p.type = t /\ p.value = v
  BY <1>3 DEF ParamValues
<1> HIDE DEF p
<1>6. Ready(p)
  BY <1>3, <1>5 DEF Ready
<1> QED
  BY <1>4, <1>5, <1>6

\* The first parameter of a type nobody knows.
Unknown(ts) == SelectInSeq(ts, LAMBDA t : t.t = "?")

LEMMA UnknownIs ==
  ASSUME NEW ts, Len(ts) \in Nat PROVE Unknown(ts) \in 0..Len(ts)
<1> DEFINE I == {i \in 1..Len(ts) : ts[i].t = "?"}
<1>1. Unknown(ts) = IF I # {} THEN CHOOSE x \in I : \A y \in I : x <= y ELSE 0
  BY DEF Unknown, SelectInSeq, Min
<1>2. CASE I = {}
  BY <1>1, <1>2
<1>3. CASE I # {}
  <2>1. I \subseteq Nat
    OBVIOUS
  <2>2. \E x \in I : \A y \in I : x <= y
    BY <1>3, <2>1, Least
  <2>3. Unknown(ts) \in I
    <3> HIDE DEF I
    <3> QED
      BY <1>1, <1>3, <2>2
  <2> QED
    BY <2>3
<1> QED
  BY <1>2, <1>3

LEMMA BindAllIs ==
  ASSUME NEW ts \in Seq(ParamTypes)
  PROVE  /\ BindAll(ts) \in Seq(ParamValues)
         /\ \A i \in 1..Len(BindAll(ts)) : Ready(BindAll(ts)[i])
<1> DEFINE bad == Unknown(ts)
           ok == IF bad = 0 THEN ts ELSE SubSeq(ts, 1, bad - 1)
           n == Len(ok)
           b == [i \in 1..n |-> BindParam(ok[i])]
<1>1. bad \in 0..Len(ts) /\ Len(ts) \in Nat
  BY UnknownIs
<1>2. BindAll(ts) = [i \in DOMAIN ok |-> BindParam(ok[i])]
  BY DEF BindAll, Unknown
<1> HIDE DEF bad
<1>3. ok \in Seq(ParamTypes)
  <2>1. CASE bad = 0
    BY <2>1
  <2>2. CASE bad # 0
    <3>1. bad - 1 \in Nat /\ bad - 1 <= Len(ts)
      BY <1>1, <2>2
    <3>2. \A i \in 1..(bad - 1) : ts[i] \in ParamTypes
      BY <3>1, <1>1
    <3>3. SubSeq(ts, 1, bad - 1) \in Seq(ParamTypes)
      BY <3>1, <3>2, SubSeqProperties
    <3> QED
      BY <2>2, <3>3
  <2> QED
    BY <2>1, <2>2
<1> HIDE DEF ok
<1>4. n \in Nat /\ DOMAIN ok = 1..n /\ \A i \in 1..n : ok[i] \in ParamTypes
  BY <1>3
<1>5. BindAll(ts) = b
  BY <1>2, <1>4
<1> HIDE DEF n
<1>6. \A i \in 1..n : BindParam(ok[i]) \in ParamValues /\ Ready(BindParam(ok[i]))
  BY <1>4, BindParamIs
<1>7. b \in [1..n -> ParamValues]
  BY <1>6
<1>8. b \in Seq(ParamValues) /\ Len(b) = n
  BY <1>4, <1>7, IsASeq
<1>9. \A i \in 1..n : Ready(b[i])
  BY <1>6
<1> QED
  BY <1>5, <1>8, <1>9

\* A statement that was prepared has a parameter for each that it counts.
LEMMA InitStmtIs ==
  ASSUME NEW c \in Configs, NEW h \in {"none", "prepared"}
  PROVE  LET s == InitStmtParams(NewStmt, c, h)
         IN  /\ s \in Stmts /\ s.flag = c.flag
             /\ s.handle = "prepared" => s.nIn = Len(s.ins)
             /\ \A i \in 1..Len(s.ins) : Ready(s.ins[i])
<1> DEFINE ins == BindAll(c.ins)
           outs == BindAll(c.outs)
           nIn == Len(c.ins)
           nOut == Len(c.outs)
           b == [NewStmt EXCEPT !.ins = ins, !.nIn = nIn, !.outs = outs, !.nOut = nOut,
                                !.flag = c.flag]
           known == Len(b.ins) = b.nIn /\ Len(b.outs) = b.nOut
           e == [b EXCEPT !.handle = h]
           s == InitStmtParams(NewStmt, c, h)
<1>1. /\ c.ins \in Seq(ParamTypes) /\ c.outs \in Seq(ParamTypes)
      /\ c.flag \in SUBSET {"insert", "null", "one", "multi"}
  BY DEF Configs
<1>2. s = IF known THEN e ELSE b
  BY DEF InitStmtParams
<1>3. /\ ins \in Seq(ParamValues) /\ \A i \in 1..Len(ins) : Ready(ins[i])
      /\ outs \in Seq(ParamValues) /\ nIn \in Nat /\ nOut \in Nat
  BY <1>1, BindAllIs
<1> HIDE DEF ins, outs, nIn, nOut
<1>4. /\ b \in Stmts /\ b.ins = ins /\ b.nIn = nIn /\ b.flag = c.flag
      /\ b.handle = "none"
  BY <1>1, <1>3 DEF NewStmt, Stmts
<1> HIDE DEF b
<1>5. /\ e \in Stmts /\ e.ins = ins /\ e.nIn = nIn /\ e.flag = c.flag
  BY <1>4 DEF Stmts
<1> HIDE DEF e
<1>6. CASE known
  BY <1>2, <1>3, <1>4, <1>5, <1>6
<1>7. CASE ~known
  BY <1>2, <1>3, <1>4, <1>7
<1> QED
  BY <1>6, <1>7

\* Arguments that are passed one by one; a statement without enough of them
\* is left alone.
LEMMA PassArgsIs ==
  ASSUME NEW s \in Stmts, s.nIn = Len(s.ins), NEW args \in Seq(Seq(Int))
  PROVE  LET x == PassArgs(s, args)
         IN  /\ x.s \in Stmts /\ Kin(s, x.s)
             /\ x.ok => \A i \in 1..Len(x.s.outs) : Whole(x.s.outs[i])
<1> DEFINE r == ResetBindData(s)
           n == Len(s.ins)
           ins == [i \in DOMAIN r.ins |-> SetData(r.ins[i], args[i])]
           t == [r EXCEPT !.ins = ins]
<1>1. /\ Kin(s, r) /\ r \in Stmts /\ Len(r.ins) = n /\ n \in Nat
      /\ \A i \in 1..n : r.ins[i] = ResetParam(s.ins[i])
      /\ \A i \in 1..Len(s.outs) : r.outs[i] = ResetParam(s.outs[i])
      /\ Len(r.outs) = Len(s.outs)
      /\ s.ins \in Seq(ParamValues) /\ s.outs \in Seq(ParamValues)
      /\ r.ins \in Seq(ParamValues)
  <2>1. /\ Kin(s, r)
        /\ \A i \in 1..n : r.ins[i] = ResetParam(s.ins[i])
        /\ \A i \in 1..Len(s.outs) : r.outs[i] = ResetParam(s.outs[i])
    BY ResetBindDataIs
  <2> HIDE DEF r
  <2> QED
    BY <2>1 DEF Kin, Stmts
<1> HIDE DEF r
<1>2. CASE Len(args) < s.nIn
  <2>1. PassArgs(s, args) = [s |-> s, ok |-> FALSE, over |-> FALSE]
    BY <1>2 DEF PassArgs
  <2> QED
    BY <2>1, KinOf
<1>3. CASE ~(Len(args) < s.nIn)
  <2>1. PassArgs(s, args) = [s |-> t, ok |-> TRUE, over |-> FALSE]
    BY <1>3 DEF PassArgs, r
  <2>2. ASSUME NEW i \in 1..n
        PROVE  /\ SetData(r.ins[i], args[i]) \in ParamValues
               /\ SetData(r.ins[i], args[i]).type = r.ins[i].type
    <3> DEFINE p == r.ins[i]
               v == args[i]
    <3>1. i \in 1..Len(args)
      BY <1>1, <1>3
    <3>2. v \in Seq(Int) /\ s.ins[i] \in ParamValues
      BY <3>1, <1>1
    <3>3. p \in ParamValues /\ Cleared(p)
      BY <1>1, <3>2, ResetIs
    <3> HIDE DEF p, v
    <3>4. SetData(p, v) \in ParamValues /\ SetData(p, v).type = p.type
      BY <3>2, <3>3, SetDataIs
    <3> QED
      BY <3>4 DEF p, v
  <2>3. DOMAIN r.ins = 1..n /\ n \in Nat
    BY <1>1
  <2> HIDE DEF n
  <2>4. ins \in [1..n -> ParamValues]
    BY <2>2, <2>3
  <2>6. \A i \in 1..n : ins[i].type = r.ins[i].type
    BY <2>2, <2>3
  <2> HIDE DEF ins
  <2>5. ins \in Seq(ParamValues) /\ Len(ins) = n
    BY ONLY <2>3, <2>4, IsASeq
  <2>7. /\ t \in Stmts /\ t.ins = ins /\ t.nIn = r.nIn /\ t.outs = r.outs /\ t.nOut = r.nOut
        /\ t.flag = r.flag /\ t.handle = r.handle
    BY <1>1, <2>5 DEF Stmts
  <2> HIDE DEF t
  <2>8. Kin(r, t)
    BY <1>1, <2>5, <2>6, <2>7 DEF Kin, n
  <2>9. Kin(s, t)
    BY <1>1, <2>8, KinAgain
  <2>10. ASSUME NEW i \in 1..Len(t.outs) PROVE Whole(t.outs[i])
    <3> DEFINE p == s.outs[i]
               o == ResetParam(p)
    <3>1. p \in ParamValues /\ t.outs[i] = o
      BY <1>1, <2>7
    <3> HIDE DEF p
    <3>2. o \in ParamValues /\ Cleared(o)
      BY <3>1, ResetIs
    <3> HIDE DEF o
    <3>3. Len(o.value.mem) \in Nat
      BY <3>2, ParamFacts
    <3>4. Whole(o)
      BY <3>2, <3>3 DEF Whole, Cleared
    <3> QED
      BY <3>1, <3>4
  <2> QED
    BY <2>1, <2>7, <2>9, <2>10
<1> QED
  BY <1>2, <1>3

\* The columns of a statement that got its arguments from a message.
LEMMA UnpackWhole ==
  ASSUME NEW s \in Stmts, s.nIn = Len(s.ins), NEW d \in Seq(Nat)
  PROVE  LET x == Unpack(s, d)
         IN  /\ x.s \in Stmts /\ Kin(s, x.s)
             /\ \A i \in 1..Len(x.s.outs) : Whole(x.s.outs[i])
<1> DEFINE x == Unpack(s, d)
<1>1. Taking(s, d, s.nIn, x)
  BY UnpackTyped
<1> HIDE DEF x
<1>2. x.s \in Stmts /\ Kin(s, x.s) /\ x.s.outs = ResetBindData(s).outs
      /\ Len(x.s.outs) = Len(s.outs) /\ s.outs \in Seq(ParamValues)
  BY <1>1 DEF Taking, Kin, Stmts
<1>3. ASSUME NEW i \in 1..Len(x.s.outs) PROVE Whole(x.s.outs[i])
  <2> DEFINE p == s.outs[i]
             o == ResetParam(p)
  <2>1. p \in ParamValues /\ x.s.outs[i] = o
    BY <1>2, ResetBindDataIs
  <2> HIDE DEF p
  <2>2. o \in ParamValues /\ Cleared(o)
    BY <2>1, ResetIs
  <2> HIDE DEF o
  <2>3. Len(o.value.mem) \in Nat
    BY <2>2, ParamFacts
  <2>4. Whole(o)
    BY <2>2, <2>3 DEF Whole, Cleared
  <2> QED
    BY <2>1, <2>4
<1> QED
  BY <1>2, <1>3 DEF x

-----------------------------------------------------------------------------
(* Results.                                                                 *)

LEMMA EmptyNodesIs ==
  ASSUME NEW nb, Roomy(nb)
  PROVE  LET n == EmptyNodes(nb)
         IN  Roomy(n) /\ n.count = 0 /\ n.buf.size = 0 /\ Contents(n.buf) = <<>>
<1> DEFINE b == [nb.buf EXCEPT !.size = 0]
           n == [buf |-> b, count |-> 0, offset |-> 0]
<1>1. EmptyNodes(nb) = n
  BY DEF EmptyNodes, ResetBuffer
<1>2. b \in Buffers /\ b.size = 0 /\ b.mem = nb.buf.mem /\ b.type = nb.buf.type
  BY NodesFacts DEF Buffers
<1> HIDE DEF b
<1>3. n \in [buf : Buffers, count : Nat, offset : Nat \cup {NoOffset}]
  BY <1>2
<1>4. n.buf = b /\ n.count = 0
  OBVIOUS
<1> HIDE DEF n
<1>5. Filled(b)
  <2>1. Len(b.mem) \in Nat
    BY <1>2, NodesFacts
  <2> QED
    BY <1>2, <2>1 DEF Filled
<1>6. Roomy(n)
  BY <1>2, <1>3, <1>4, <1>5, NodesFacts DEF Roomy
<1>7. Contents(b) \in Seq(Int) /\ Len(Contents(b)) = 0
  BY <1>2, <1>5, ContentsAre
<1>8. Contents(b) = <<>>
  BY <1>7
<1> QED
  BY <1>1, <1>2, <1>4, <1>6, <1>8

\* What Possible says of rows: a value of one unit for a column that is no
\* string.
FittingRows(ps, rows) ==
  /\ RowsAre(ps, rows)
  /\ \A j \in 1..Len(rows) : \A i \in 1..Len(ps) :
       rows[j][i] = Null \/ IsStr(ps[i].type) \/ Len(rows[j][i]) = 1

LEMMA PossibleFits ==
  ASSUME NEW s \in Stmts, NEW o \in StmtOutcomes, Possible(s, o)
  PROVE  FittingRows(s.outs, Received(o))
<1>1. o.rows \in Seq(Seq(Seq(Int)))
  BY StmtAssumption
<1> DEFINE rows == o.rows
<1>2. ASSUME NEW j \in 1..Len(rows)
      PROVE  /\ Len(rows[j]) = Len(s.outs)
             /\ \A i \in DOMAIN rows[j] :
                  rows[j][i] = Null \/ IsStr(s.outs[i].type) \/ Len(rows[j][i]) = 1
  <2>1. rows[j] \in ToSet(rows)
    BY <1>1 DEF ToSet
  <2> QED
    BY <2>1 DEF Possible
<1> HIDE DEF rows
<1>3. \A j \in 1..Len(rows) : DOMAIN rows[j] = 1..Len(s.outs)
  <2> SUFFICES ASSUME NEW j \in 1..Len(rows) PROVE DOMAIN rows[j] = 1..Len(s.outs)
    OBVIOUS
  <2>1. rows[j] \in Seq(Seq(Int))
    BY <1>1 DEF rows
  <2> QED
    BY <1>2, <2>1
<1>4. RowsAre(s.outs, rows)
  BY <1>1, <1>2 DEF RowsAre, rows
<1>5. FittingRows(s.outs, rows)
  BY <1>2, <1>3, <1>4 DEF FittingRows
<1>6. FittingRows(s.outs, <<>>)
  BY DEF FittingRows, RowsAre
<1> QED
  BY <1>5, <1>6 DEF Received, rows

LEMMA PlainRows ==
  ASSUME NEW s \in Stmts, NEW rows, FittingRows(s.outs, rows), Plain(s, rows)
  PROVE  /\ \A j \in 1..Len(rows) : PlainRow(s.outs, rows[j])
         /\ Room(s.outs, Len(FlattenSeq(RowSizes(s.outs, rows))))
<1> DEFINE ps == s.outs
<1>1. ps \in Seq(ParamValues) /\ rows \in Seq(Seq(Seq(Int)))
      /\ \A j \in 1..Len(rows) : Len(rows[j]) = Len(ps)
  BY DEF FittingRows, RowsAre, Stmts
<1>2. /\ \A p \in ToSet(ps) : p.type.t # "flt"
      /\ \A row \in ToSet(rows) : \A i \in DOMAIN row :
           /\ row[i] # Null
           /\ IsStr(ps[i].type) => Len(row[i]) <= ps[i].type.n
      /\ \/ \A p \in ToSet(ps) : ~IsStr(p.type)
         \/ Len(FlattenSeq(RowSizes(ps, rows))) <= ResultRoom
  BY DEF Plain, RowSizes
<1>3. \A i \in 1..Len(ps) : ps[i] \in ToSet(ps)
  BY <1>1 DEF ToSet
<1>4. Room(ps, Len(FlattenSeq(RowSizes(ps, rows))))
  <2> DEFINE z == Len(FlattenSeq(RowSizes(ps, rows)))
  <2>1. (\A p \in ToSet(ps) : ~IsStr(p.type)) \/ z <= ResultRoom
    BY <1>2
  <2> HIDE DEF z, ps
  <2>2. Room(ps, z)
    BY <1>3, <2>1 DEF Room
  <2> QED
    BY <2>2 DEF z
<1>5. ASSUME NEW j \in 1..Len(rows) PROVE PlainRow(ps, rows[j])
  <2> DEFINE row == rows[j]
  <2>1. row \in Seq(Seq(Int)) /\ row \in ToSet(rows) /\ Len(row) = Len(ps)
    BY <1>1 DEF ToSet
  <2>2. \A i \in 1..Len(ps) : row[i] = Null \/ IsStr(ps[i].type) \/ Len(row[i]) = 1
    BY DEF FittingRows
  <2> HIDE DEF row, ps
  <2>3. DOMAIN row = 1..Len(ps)
    BY <2>1
  <2> QED
    BY <1>2, <1>3, <2>1, <2>2, <2>3 DEF PlainRow, row
<1> QED
  BY <1>4, <1>5

-----------------------------------------------------------------------------
(* What is well packed, or plain, for a statement is so for its kin.        *)

LEMMA KinTypes ==
  ASSUME NEW s, NEW t, Kin(s, t)
  PROVE  /\ s \in Stmts /\ t \in Stmts /\ s.flag = t.flag
         /\ s.ins \in Seq(ParamValues) /\ t.ins \in Seq(ParamValues)
         /\ s.outs \in Seq(ParamValues) /\ t.outs \in Seq(ParamValues)
         /\ SameTypes(s.ins, t.ins) /\ SameTypes(t.ins, s.ins)
         /\ SameTypes(s.outs, t.outs) /\ SameTypes(t.outs, s.outs)
<1>1. s \in Stmts /\ t \in Stmts /\ s.flag = t.flag
  BY DEF Kin
<1>2. /\ s.ins \in Seq(ParamValues) /\ t.ins \in Seq(ParamValues)
      /\ s.outs \in Seq(ParamValues) /\ t.outs \in Seq(ParamValues)
  BY <1>1 DEF Stmts
<1> QED
  BY <1>1, <1>2 DEF Kin, SameTypes

LEMMA SameWellPacked ==
  ASSUME NEW ps \in Seq(ParamValues), NEW qs \in Seq(ParamValues), SameTypes(ps, qs),
         NEW d, WellPacked(qs, d)
  PROVE  WellPacked(ps, d)
<1>1. PICK vs \in [DOMAIN qs -> Cuts(d)] :
        /\ \A i \in DOMAIN qs :
             Len(vs[i]) \in 1..(IF IsStr(qs[i].type) THEN qs[i].type.n ELSE 1)
        /\ IsPrefix(Packed(qs, vs), d)
  BY Zenon DEF WellPacked
<1>2. DOMAIN ps = DOMAIN qs /\ DOMAIN qs = 1..Len(ps) /\ DOMAIN vs = 1..Len(ps)
  BY DEF SameTypes
<1>3. Packed(ps, vs) = Packed(qs, vs)
  BY <1>2, SamePacked
<1>4. \A i \in DOMAIN ps : ps[i].type = qs[i].type
  BY <1>2 DEF SameTypes
<1>5. \A i \in DOMAIN ps :
        Len(vs[i]) \in 1..(IF IsStr(ps[i].type) THEN ps[i].type.n ELSE 1)
  BY <1>1, <1>2, <1>4
<1>6. vs \in [DOMAIN ps -> Cuts(d)] /\ IsPrefix(Packed(ps, vs), d)
  BY <1>1, <1>2, <1>3
<1> QED
  BY <1>5, <1>6, Zenon DEF WellPacked

LEMMA SameFitting ==
  ASSUME NEW ps, NEW qs, SameTypes(ps, qs), NEW rows, FittingRows(ps, rows)
  PROVE  FittingRows(qs, rows)
BY DEF FittingRows, RowsAre, SameTypes

LEMMA SamePlain ==
  ASSUME NEW s, NEW t, Kin(s, t), NEW rows, FittingRows(s.outs, rows), Plain(t, rows)
  PROVE  Plain(s, rows)
<1> DEFINE ps == s.outs
           qs == t.outs
<1>1. /\ ps \in Seq(ParamValues) /\ qs \in Seq(ParamValues) /\ SameTypes(ps, qs)
      /\ rows \in Seq(Seq(Seq(Int))) /\ \A j \in 1..Len(rows) : Len(rows[j]) = Len(ps)
  BY KinTypes DEF FittingRows, RowsAre
<1>2. /\ \A p \in ToSet(qs) : p.type.t # "flt"
      /\ \A row \in ToSet(rows) : \A i \in DOMAIN row :
           /\ row[i] # Null
           /\ IsStr(qs[i].type) => Len(row[i]) <= qs[i].type.n
      /\ \/ \A p \in ToSet(qs) : ~IsStr(p.type)
         \/ Len(FlattenSeq([i \in DOMAIN rows |-> <<0>> \o Packed(qs, rows[i])]))
              <= ResultRoom
  BY DEF Plain
<1> HIDE DEF ps, qs
<1>3. \A p \in ToSet(ps) : \E q \in ToSet(qs) : p.type = q.type
  <2> SUFFICES ASSUME NEW p \in ToSet(ps) PROVE \E q \in ToSet(qs) : p.type = q.type
    OBVIOUS
  <2>1. PICK i \in 1..Len(ps) : p = ps[i]
    BY <1>1 DEF ToSet
  <2>2. i \in 1..Len(qs) /\ p.type = qs[i].type
    BY <1>1, <2>1 DEF SameTypes
  <2>3. qs[i] \in ToSet(qs)
    BY <1>1, <2>2 DEF ToSet
  <2> QED
    BY <2>2, <2>3
<1>4. ASSUME NEW j \in 1..Len(rows)
      PROVE  DOMAIN rows[j] = 1..Len(ps) /\ Packed(ps, rows[j]) = Packed(qs, rows[j])
  <2>1. rows[j] \in Seq(Seq(Int)) /\ Len(rows[j]) = Len(ps)
    BY <1>1
  <2>2. DOMAIN rows[j] = 1..Len(ps)
    BY <2>1
  <2> QED
    BY <1>1, <2>2, SamePacked
<1>5. [i \in DOMAIN rows |-> <<0>> \o Packed(ps, rows[i])]
        = [i \in DOMAIN rows |-> <<0>> \o Packed(qs, rows[i])]
  <2>1. DOMAIN rows = 1..Len(rows)
    BY <1>1
  <2> QED
    BY <1>4, <2>1
<1>6. \A p \in ToSet(ps) : p.type.t # "flt"
  BY <1>2, <1>3
<1>7. ASSUME NEW row \in ToSet(rows), NEW i \in DOMAIN row
      PROVE  row[i] # Null /\ (IsStr(ps[i].type) => Len(row[i]) <= ps[i].type.n)
  <2>1. PICK j \in 1..Len(rows) : row = rows[j]
    BY <1>1 DEF ToSet
  <2>2. ps[i].type = qs[i].type
    BY <1>1, <1>4, <2>1 DEF SameTypes
  <2> QED
    BY <1>2, <2>2
<1>8. \/ \A p \in ToSet(ps) : ~IsStr(p.type)
      \/ Len(FlattenSeq([i \in DOMAIN rows |-> <<0>> \o Packed(ps, rows[i])])) <= ResultRoom
  <2>1. CASE \A p \in ToSet(qs) : ~IsStr(p.type)
    BY <1>3, <2>1
  <2>2. CASE Len(FlattenSeq([i \in DOMAIN rows |-> <<0>> \o Packed(qs, rows[i])]))
               <= ResultRoom
    BY <1>5, <2>2
  <2> QED
    BY <1>2, <2>1, <2>2
<1> QED
  BY <1>6, <1>7, <1>8 DEF Plain, ps

-----------------------------------------------------------------------------
(* The results of an execution.                                             *)

\* Every column can hold what it has.
AllWhole(ps) == \A i \in 1..Len(ps) : Whole(ps[i])

\* The buffer holds the rows, and nothing else.
RowsIn(nb, ps, rows) ==
  nb.count = Len(rows) /\ Contents(nb.buf) = FlattenSeq(RowNodes(ps, rows))

LEMMA ResultsAre ==
  ASSUME NEW s \in Stmts, AllWhole(s.outs), NEW rows, FittingRows(s.outs, rows),
         Roomy(results)
  PROVE  LET g == GetResultsToBuffer(s, rows)
         IN  /\ Roomy(g.nb) /\ g.outs \in Seq(ParamValues) /\ SameTypes(s.outs, g.outs)
             /\ s.flag \cap {"one", "multi"} # {} /\ Plain(s, rows) =>
                  RowsIn(g.nb, s.outs, rows)
<1> DEFINE ps == s.outs
           nb == EmptyNodes(results)
           start == [nb |-> nb, outs |-> ps, more |-> TRUE]
           g == GetResultsToBuffer(s, rows)
<1>1. Roomy(nb) /\ nb.count = 0 /\ Contents(nb.buf) = <<>>
  BY EmptyNodesIs
<1>2. ps \in Seq(ParamValues) /\ SameTypes(ps, ps) /\ RowsAre(ps, rows)
  BY DEF Stmts, SameTypes, FittingRows
<1>3. g = IF s.flag \cap {"one", "multi"} = {} THEN start ELSE FetchRows(start, rows)
  BY DEF GetResultsToBuffer
<1> HIDE DEF nb, g
<1>4. start.nb = nb /\ start.outs = ps /\ start.more
  OBVIOUS
<1>5. \A i \in 1..Len(ps) : Whole(ps[i])
  BY DEF AllWhole
<1> HIDE DEF ps, start
<1>6. Fetching(ps, start)
  BY <1>1, <1>2, <1>4, <1>5 DEF Fetching
<1>7. CASE s.flag \cap {"one", "multi"} = {}
  BY <1>3, <1>6, <1>7 DEF Fetching, g, ps
<1>8. CASE s.flag \cap {"one", "multi"} # {}
  <2>1. g = FetchRows(start, rows)
    BY <1>3, <1>8
  <2>2. Fetching(ps, FetchRows(start, rows))
    BY <1>2, <1>6, FetchRowsTyped
  <2>3. Roomy(g.nb) /\ g.outs \in Seq(ParamValues) /\ SameTypes(ps, g.outs)
    BY <2>1, <2>2 DEF Fetching
  <2>4. ASSUME Plain(s, rows) PROVE RowsIn(g.nb, ps, rows)
    <3>1. /\ \A j \in 1..Len(rows) : PlainRow(ps, rows[j])
          /\ Room(ps, Len(FlattenSeq(RowSizes(ps, rows))))
      BY <2>4, PlainRows DEF ps
    <3>2. start.more /\ start.nb.count = 0 /\ Contents(start.nb.buf) = <<>>
      BY <1>1, <1>4
    <3>3. /\ FetchRows(start, rows).nb.count = Len(rows)
          /\ Contents(FetchRows(start, rows).nb.buf) = FlattenSeq(RowNodes(ps, rows))
      BY <1>2, <1>6, <3>1, <3>2, FetchRowsPlain
    <3> QED
      BY <2>1, <3>3 DEF RowsIn
  <2> QED
    BY <2>3, <2>4 DEF g, ps
<1> QED
  BY <1>7, <1>8

\* The statement as an execution leaves it.
LEMMA QueriedIs ==
  ASSUME NEW s \in Stmts, NEW x, Kin(s, x.s), x.ok => AllWhole(x.s.outs),
         NEW o, FittingRows(x.s.outs, Received(o)), Roomy(results), NEW who
  PROVE  /\ Kin(s, Queried(who, x, o)) /\ Queried(who, x, o).ins = x.s.ins
<1> DEFINE t == x.s
           g == GetResultsToBuffer(t, Received(o))
           u == [t EXCEPT !.outs = g.outs]
<1>1. t \in Stmts
  BY DEF Kin
<1>2. CASE Queried(who, x, o) = t
  BY <1>2
<1>3. CASE x.ok /\ Queried(who, x, o) = u
  <2>1. g.outs \in Seq(ParamValues) /\ SameTypes(t.outs, g.outs)
    BY <1>1, <1>3, ResultsAre
  <2> HIDE DEF g, t
  <2>2. /\ u \in Stmts /\ u.ins = t.ins /\ u.nIn = t.nIn /\ u.nOut = t.nOut
        /\ u.flag = t.flag /\ u.handle = t.handle /\ u.outs = g.outs
    BY <1>1, <2>1 DEF Stmts
  <2> HIDE DEF u
  <2>3. Kin(t, u)
    BY <1>1, <2>1, <2>2 DEF Kin, SameTypes
  <2>4. Kin(s, t)
    BY DEF t
  <2>5. Kin(s, u)
    BY <2>3, <2>4, KinAgain
  <2> QED
    BY <1>3, <2>2, <2>5 DEF t
<1>4. \/ Queried(who, x, o) = t
      \/ x.ok /\ Queried(who, x, o) = u
  BY DEF Queried
<1> QED
  BY <1>2, <1>3, <1>4

-----------------------------------------------------------------------------
(* What the client reads.                                                   *)

ReadsRows(a, ps, rows) ==
  /\ a.rows = Len(rows)
  /\ a.rows > 0 => ReadBack(a) = [i \in 1..a.rows |-> Packed(ps, rows[i])]

\* The response a brings the rows of an execution of s.
RowsHold(a, s, rows) ==
  /\ FittingRows(s.outs, rows)
  /\ "null" \notin s.flag /\ s.flag \cap {"one", "multi"} # {} /\ Plain(s, rows) =>
       ReadsRows(a, s.outs, rows)

LEMMA RowsReadBack ==
  ASSUME NEW ps, NEW rows, RowsAre(ps, rows), NEW nb, RowsIn(nb, ps, rows),
         NEW a, a.rows = nb.count, a.nodes = Contents(nb.buf)
  PROVE  ReadsRows(a, ps, rows)
<1> DEFINE q == RowNodes(ps, rows)
           n == Len(rows)
           vs == [i \in 1..n |-> Packed(ps, rows[i])]
<1>1. /\ q \in Seq(Seq(Int)) /\ Len(q) = n
      /\ \A j \in 1..n : q[j] = Node(Packed(ps, rows[j])) /\ Packed(ps, rows[j]) \in Seq(Int)
  BY RowNodesAre
<1>2. n \in Nat /\ a.rows = n /\ a.nodes = FlattenSeq(q)
  BY DEF RowsAre, RowsIn
<1> HIDE DEF q, n
<1>3. vs \in [1..n -> Seq(Int)] /\ \A j \in 1..n : vs[j] = Packed(ps, rows[j])
  BY <1>1
<1> HIDE DEF vs
<1>4. vs \in Seq(Seq(Int)) /\ Len(vs) = n
  BY ONLY <1>2, <1>3, IsASeq
<1>5. NodesOf(q, vs)
  BY <1>1, <1>3, <1>4 DEF NodesOf
<1>6. ASSUME n > 0 PROVE ReadBack(a) = vs
  <2>1. Len(q) >= 1
    BY <1>1, <1>2, <1>6
  <2> QED
    BY <1>2, <1>5, <2>1, ReadBackNodes
<1> QED
  BY <1>2, <1>6 DEF ReadsRows, vs, n

\* Without a unit in the buffer there was no row.
LEMMA NoRowsLeft ==
  ASSUME NEW ps, NEW rows, RowsAre(ps, rows), NEW nb, Roomy(nb), RowsIn(nb, ps, rows),
         nb.buf.size = 0
  PROVE  Len(rows) = 0
<1> DEFINE q == RowNodes(ps, rows)
           n == Len(rows)
           d == FlattenSeq(q)
<1>1. /\ q \in Seq(Seq(Int)) /\ Len(q) = n /\ n \in Nat
      /\ \A j \in 1..n : Len(q[j]) >= 1
  BY RowNodesAre DEF RowsAre
<1>2. Len(d) = 0
  <2>1. Contents(nb.buf) = d
    BY DEF RowsIn
  <2> HIDE DEF d
  <2> QED
    BY <2>1, NodesFacts
<1> HIDE DEF q, n
<1>3. StartOf(q, 0) = 0 /\ StartOf(q, n) = Len(d) /\ 0 \in 0..Len(q) /\ n \in 0..Len(q)
  BY <1>1, StartFacts
<1>4. StartOf(q, 0) + (n - 0) <= StartOf(q, n)
  BY <1>1, <1>3, StartGrows
<1> HIDE DEF d
<1>5. n <= 0
  <2>1. 0 + (n - 0) <= 0
    BY <1>2, <1>3, <1>4
  <2> QED
    BY ONLY <1>1, <2>1
<1> QED
  BY <1>1, <1>5 DEF n

\* A response that brings the rows of a statement brings those of its kin.
LEMMA SameRowsHold ==
  ASSUME NEW s, NEW t, Kin(s, t), NEW a, NEW rows, RowsHold(a, s, rows)
  PROVE  RowsHold(a, t, rows)
<1>1. FittingRows(s.outs, rows) /\ SameTypes(s.outs, t.outs) /\ s.flag = t.flag
  BY KinTypes DEF RowsHold
<1>2. FittingRows(t.outs, rows)
  BY <1>1, SameFitting
<1>3. ASSUME Plain(t, rows) /\ "null" \notin t.flag /\ t.flag \cap {"one", "multi"} # {}
      PROVE  ReadsRows(a, t.outs, rows)
  <2>1. Plain(s, rows)
    BY <1>1, <1>3, SamePlain
  <2>2. ReadsRows(a, s.outs, rows)
    BY <1>1, <1>3, <2>1 DEF RowsHold
  <2>3. rows \in Seq(Seq(Seq(Int))) /\ \A j \in 1..Len(rows) : Len(rows[j]) = Len(s.outs)
    BY <1>1 DEF FittingRows, RowsAre
  <2>4. ASSUME NEW j \in 1..Len(rows) PROVE Packed(s.outs, rows[j]) = Packed(t.outs, rows[j])
    <3>1. rows[j] \in Seq(Seq(Int)) /\ Len(rows[j]) = Len(s.outs)
      BY <2>3
    <3>2. DOMAIN rows[j] = 1..Len(s.outs)
      BY <3>1
    <3> QED
      BY <1>1, <3>2, SamePacked
  <2> QED
    BY <2>2, <2>4 DEF ReadsRows
<1> QED
  BY <1>2, <1>3 DEF RowsHold

-----------------------------------------------------------------------------
(* What a message leaves of the queries before it.                          *)

\* The first n messages of A have only well packed requests for the statement.
PackedUntil(A, n, id, ps) ==
  \A i \in 1..n : A[i].op = "net" /\ A[i].id = id => WellPacked(ps, A[i].data)

\* What the server saw of the n-th message, a request with the parameters ps.
ArgsHold(A, v, n, ps) ==
  PackedUntil(A, n, A[n].id, ps) =>
    /\ v.reached /\ DOMAIN v.args = DOMAIN ps
    /\ IsPrefix(Packed(ps, v.args), A[n].data)

LEMMA SamePackedUntil ==
  ASSUME NEW s, NEW t, Kin(s, t), NEW A, NEW B, NEW n \in Nat, NEW m \in 0..n,
         \A i \in 1..m : A[i] = B[i], NEW id, PackedUntil(B, n, id, t.ins)
  PROVE  PackedUntil(A, m, id, s.ins)
<1>1. /\ s.ins \in Seq(ParamValues) /\ t.ins \in Seq(ParamValues)
      /\ SameTypes(s.ins, t.ins)
  BY KinTypes
<1> SUFFICES ASSUME NEW i \in 1..m, A[i].op = "net" /\ A[i].id = id
             PROVE  WellPacked(s.ins, A[i].data)
  BY DEF PackedUntil
<1>2. i \in 1..n /\ A[i] = B[i]
  OBVIOUS
<1>3. WellPacked(t.ins, B[i].data)
  BY <1>2 DEF PackedUntil
<1> QED
  BY <1>1, <1>2, <1>3, SameWellPacked

LEMMA SameArgsHold ==
  ASSUME NEW s, NEW t, Kin(s, t), NEW A, NEW B, NEW n \in Nat, n >= 1,
         \A i \in 1..n : A[i] = B[i], NEW v, ArgsHold(A, v, n, s.ins)
  PROVE  ArgsHold(B, v, n, t.ins)
<1> SUFFICES ASSUME PackedUntil(B, n, B[n].id, t.ins)
             PROVE  /\ v.reached /\ DOMAIN v.args = DOMAIN t.ins
                    /\ IsPrefix(Packed(t.ins, v.args), B[n].data)
  BY DEF ArgsHold
<1>1. A[n] = B[n] /\ n \in 0..n
  OBVIOUS
<1>2. PackedUntil(A, n, A[n].id, s.ins)
  BY <1>1, SamePackedUntil
<1>3. /\ v.reached /\ DOMAIN v.args = DOMAIN s.ins
      /\ IsPrefix(Packed(s.ins, v.args), A[n].data)
  BY <1>2 DEF ArgsHold
<1>4. /\ s.ins \in Seq(ParamValues) /\ t.ins \in Seq(ParamValues)
      /\ SameTypes(s.ins, t.ins)
  BY KinTypes
<1>5. DOMAIN s.ins = DOMAIN t.ins /\ DOMAIN s.ins = 1..Len(s.ins)
  BY <1>4 DEF SameTypes
<1>6. Packed(s.ins, v.args) = Packed(t.ins, v.args)
  BY <1>3, <1>4, <1>5, SamePacked
<1> QED
  BY <1>1, <1>3, <1>5, <1>6

-----------------------------------------------------------------------------
(* What the statement threads keep.                                         *)

\* The buffer of results is fit for use, no result is left on the connection,
\* and a statement in the map is one that was prepared.
HeldInv ==
  /\ Roomy(results) /\ pending = NoOne
  /\ DOMAIN stmtMap \subseteq DOMAIN stmts
  /\ \A id \in DOMAIN stmtMap :
       /\ stmts[id] \in Stmts /\ stmts[id].nIn = Len(stmts[id].ins)
       /\ stmtMap[id] = stmts[id].flag

\* While the requests for a statement were well packed, its strings are where
\* they were bound.
ReadyInv ==
  \A id \in DOMAIN stmtMap :
    PackedUntil(asked, Done, id, stmts[id].ins) =>
      \A i \in 1..Len(stmts[id].ins) : Ready(stmts[id].ins[i])

ArgsInv ==
  \A n \in 1..Done :
    Request(n) => ArgsHold(asked, served[n], n, stmts[asked[n].id].ins)

RowsInv ==
  \A k \in 1..Len(answers) :
    RowsHold(answers[k], stmts[asked[answers[k].n].id], Received(served[answers[k].n]))

FaithfulInv == StmtInv /\ HeldInv /\ ReadyInv /\ ArgsInv /\ RowsInv

LEMMA FaithInitially == StmtInit => FaithfulInv
<1> SUFFICES ASSUME StmtInit PROVE FaithfulInv
  OBVIOUS
<1>1. StmtInv
  BY StmtInitially
<1>2. /\ asked = <<>> /\ stmtInbox = <<>> /\ answers = <<>> /\ stmtMap = <<>> /\ stmts = <<>>
      /\ results = NewNodes(ResultRoom) /\ pending = NoOne
  BY DEF StmtInit
<1>3. Done = 0
  BY <1>2 DEF Done
<1>4. Roomy(results)
  <2> DEFINE m == Blank(ResultRoom)
             b == [mem |-> m, size |-> 0, moved |-> FALSE, type |-> "new"]
             n == [buf |-> b, count |-> 0, offset |-> 0]
  <2>1. ResultRoom \in Nat /\ ResultRoom > 0
    BY StmtAssumption
  <2>2. InitBuffer(NewBuffer, ResultRoom) = b
    <3>1. InitBuffer(NewBuffer, ResultRoom)
            = [NewBuffer EXCEPT !.mem = m, !.size = 0, !.type = "new"]
      BY <2>1 DEF InitBuffer, NewBuffer
    <3> HIDE DEF m
    <3> QED
      BY <3>1 DEF NewBuffer
  <2>3. results = n
    BY <1>2, <2>2 DEF NewNodes
  <2>4. m \in Seq(Int) /\ Len(m) = ResultRoom
    BY <2>1, BlankIs
  <2> HIDE DEF m
  <2>5. b \in Buffers /\ b.mem = m /\ b.size = 0 /\ b.type = "new"
    BY <2>4 DEF Buffers
  <2> HIDE DEF b
  <2>6. /\ n \in [buf : Buffers, count : Nat, offset : Nat \cup {NoOffset}]
        /\ n.buf = b
    BY <2>5
  <2> HIDE DEF n
  <2> QED
    BY <2>1, <2>3, <2>4, <2>5, <2>6 DEF Roomy, Filled
<1>5. HeldInv
  BY <1>2, <1>4 DEF HeldInv
<1>6. ReadyInv /\ ArgsInv /\ RowsInv
  BY <1>2, <1>3 DEF ReadyInv, ArgsInv, RowsInv
<1> QED
  BY <1>1, <1>5, <1>6 DEF FaithfulInv

\* What was asked and served before a step.
Before ==
  /\ UNCHANGED stmtMap
  /\ \A id \in DOMAIN stmtMap : Kin(stmts[id], stmts'[id])
  /\ \A i \in 1..Done : asked'[i] = asked[i] /\ served'[i] = served[i]

LEMMA OldArgs ==
  ASSUME StmtInv, ArgsInv, Before, NEW n \in 1..Done, Request(n)'
  PROVE  ArgsHold(asked', served'[n], n, stmts'[asked'[n].id].ins)
<1> DEFINE id == asked[n].id
<1>1. asked'[n] = asked[n] /\ served'[n] = served[n] /\ Request(n) /\ id \in DOMAIN stmtMap
  BY DEF Before, Request, Serves
<1>2. Kin(stmts[id], stmts'[id])
  BY <1>1 DEF Before
<1>3. ArgsHold(asked, served[n], n, stmts[id].ins)
  BY <1>1 DEF ArgsInv
<1>4. n \in Nat /\ n >= 1 /\ \A i \in 1..n : i \in 1..Done
  <2> DEFINE d == Done
  <2>1. d \in Nat /\ n \in 1..d
    BY StmtLengths
  <2> HIDE DEF d
  <2>2. n \in Nat /\ n >= 1 /\ \A i \in 1..n : i \in 1..d
    BY ONLY <2>1
  <2> QED
    BY <2>2 DEF d
<1>5. \A i \in 1..n : asked[i] = asked'[i]
  BY <1>4 DEF Before
<1> DEFINE s == stmts[id]
           t == stmts'[id]
           A == asked
           B == asked'
           v == served[n]
<1>6. Kin(s, t) /\ ArgsHold(A, v, n, s.ins) /\ \A i \in 1..n : A[i] = B[i]
  BY <1>2, <1>3, <1>5
<1> HIDE DEF s, t, A, B, v
<1>7. ArgsHold(B, v, n, t.ins)
  BY <1>4, <1>6, SameArgsHold
<1> QED
  BY <1>1, <1>7 DEF t, B, v

LEMMA OldRows ==
  ASSUME StmtInv, Before, NEW a, Fits(a),
         RowsHold(a, stmts[asked[a.n].id], Received(served[a.n]))
  PROVE  RowsHold(a, stmts'[asked'[a.n].id], Received(served'[a.n]))
<1> DEFINE n == a.n
           id == asked[n].id
<1>1. n \in 1..Done /\ Request(n)
  BY DEF Fits
<1>2. asked'[n] = asked[n] /\ served'[n] = served[n] /\ id \in DOMAIN stmtMap
  BY <1>1 DEF Before, Request, Serves
<1>3. Kin(stmts[id], stmts'[id])
  BY <1>2 DEF Before
<1> DEFINE s == stmts[id]
           t == stmts'[id]
           rows == Received(served[n])
<1>4. Kin(s, t) /\ RowsHold(a, s, rows)
  BY <1>3
<1> HIDE DEF s, t, rows
<1>5. RowsHold(a, t, rows)
  BY <1>4, SameRowsHold
<1> QED
  BY <1>2, <1>5 DEF t, rows

\* A message is taken: its entry is right, and so is a response to it.
LEMMA ArgsGoOn ==
  ASSUME StmtInv, StmtTake, ArgsInv, Before, NEW c, c = Current,
         Request(c)' => ArgsHold(asked', served'[c], c, stmts'[asked'[c].id].ins)
  PROVE  ArgsInv'
<1>1. Done' = Done + 1 /\ Current = Done + 1 /\ Done \in Nat
  BY MessageAtHand, StmtLengths
<1> SUFFICES ASSUME NEW n \in 1..Done', Request(n)'
             PROVE  ArgsHold(asked', served'[n], n, stmts'[asked'[n].id].ins)
  BY DEF ArgsInv
<1>2. n \in 1..Done \/ n = Current
  <2> DEFINE d == Done
  <2>1. d \in Nat /\ n \in 1..(d + 1) /\ Current = d + 1
    BY <1>1
  <2> HIDE DEF d
  <2>2. n \in 1..d \/ n = d + 1
    BY ONLY <2>1
  <2> QED
    BY <2>1, <2>2 DEF d
<1>3. CASE n \in 1..Done
  BY <1>3, OldArgs
<1>4. CASE n = Current
  BY <1>4
<1> QED
  BY <1>2, <1>3, <1>4

LEMMA RowsStay ==
  ASSUME StmtInv, RowsInv, Before, UNCHANGED answers PROVE RowsInv'
<1> SUFFICES ASSUME NEW k \in 1..Len(answers)
             PROVE  RowsHold(answers[k], stmts'[asked'[answers[k].n].id],
                             Received(served'[answers[k].n]))
  BY DEF RowsInv
<1> DEFINE a == answers[k]
<1>1. Fits(a)
  BY DEF StmtInv, RoutedInv
<1>2. RowsHold(a, stmts[asked[a.n].id], Received(served[a.n]))
  BY DEF RowsInv
<1> HIDE DEF a
<1>3. RowsHold(a, stmts'[asked'[a.n].id], Received(served'[a.n]))
  BY <1>1, <1>2, OldRows
<1> QED
  BY <1>3 DEF a

LEMMA RowsGoOn ==
  ASSUME StmtInv, RowsInv, Before, NEW a, answers' = Append(answers, a),
         RowsHold(a, stmts'[asked'[a.n].id], Received(served'[a.n]))
  PROVE  RowsInv'
<1> DEFINE l == Len(answers)
<1>1. /\ Len(answers') = l + 1 /\ answers'[l + 1] = a /\ l \in Nat
      /\ \A k \in 1..l : answers'[k] = answers[k]
  <2>1. PICK S : answers \in Seq(S)
    BY DEF StmtInv, BooksInv
  <2> DEFINE T == S \cup {a}
  <2>2. answers \in Seq(T) /\ a \in T
    BY <2>1
  <2> HIDE DEF T
  <2> QED
    BY <2>2, AppendProperties, LenProperties
<1> SUFFICES ASSUME NEW k \in 1..(l + 1)
             PROVE  RowsHold(answers'[k], stmts'[asked'[answers'[k].n].id],
                             Received(served'[answers'[k].n]))
  BY <1>1 DEF RowsInv
<1>2. CASE k = l + 1
  BY <1>1, <1>2
<1>3. CASE k \in 1..l
  <2> DEFINE b == answers[k]
  <2>1. Fits(b) /\ answers'[k] = b
    BY <1>1, <1>3 DEF StmtInv, RoutedInv
  <2>2. RowsHold(b, stmts[asked[b.n].id], Received(served[b.n]))
    BY <1>3 DEF RowsInv
  <2> HIDE DEF b
  <2>3. RowsHold(b, stmts'[asked'[b.n].id], Received(served'[b.n]))
    BY <2>1, <2>2, OldRows
  <2> QED
    BY <2>1, <2>3
<1>4. k = l + 1 \/ k \in 1..l
  <2> HIDE DEF l
  <2>1. l \in Nat
    BY <1>1
  <2> QED
    BY ONLY <2>1
<1> QED
  BY <1>2, <1>3, <1>4

\* What was asked and served before a message is taken stays.
LEMMA TakeBefore ==
  ASSUME StmtInv, StmtTake, Entered, \A id \in DOMAIN stmtMap : Kin(stmts[id], stmts'[id])
  PROVE  Before
<1>1. UNCHANGED <<stmtMap, asked>>
  BY DEF StmtTake
<1>2. ASSUME NEW i \in 1..Done PROVE i # Current /\ i \in 1..Len(served)
  <2> DEFINE d == Done
             l == Len(served)
             c == Current
  <2>1. d \in Nat /\ l \in Nat /\ c = d + 1 /\ c \in 1..l /\ i \in 1..d
    BY MessageAtHand, StmtLengths
  <2> HIDE DEF d, l, c
  <2>2. i # c /\ i \in 1..l
    BY ONLY <2>1
  <2> QED
    BY <2>2 DEF c, l
<1> QED
  BY <1>1, <1>2 DEF Before, Entered

LEMMA KinBack ==
  ASSUME NEW s, NEW t, Kin(s, t)
  PROVE  Kin(t, s)
BY DEF Kin

\* What an execution writes down, and the buffer and the connection after it.
Entry(x, o) ==
  IF x.ok THEN [reached |-> TRUE, ok |-> o.ok, rows |-> o.rows,
                args |-> [i \in DOMAIN x.s.ins |-> Sent(x.s.ins[i])],
                stored |-> o.stored, count |-> o.count]
  ELSE Unserved

LEMMA QueryIs ==
  ASSUME StmtInv, StmtTake, pending = NoOne, NEW who, NEW x, NEW o, Query(who, x, o)
  PROVE  /\ \A c : c = Current => served'[c] = Entry(x, o)
         /\ Entered /\ pending' = NoOne
         /\ results' = IF x.ok /\ o.ok THEN GetResultsToBuffer(x.s, Received(o)).nb ELSE results
<1>1. served' = [served EXCEPT ![Current] = Entry(x, o)]
  BY DEF Query, Entry
<1>2. Entered
  BY <1>1, EntryIsWritten
<1>3. pending' = NoOne
  BY DEF Query, ClearResult
<1>4. results' = IF x.ok /\ o.ok THEN GetResultsToBuffer(x.s, Received(o)).nb ELSE results
  BY DEF Query
<1>5. Current \in DOMAIN served
  <2>1. PICK S : served \in Seq(S)
    BY DEF StmtInv, BooksInv
  <2>2. Current \in 1..Len(served)
    BY MessageAtHand, StmtLengths
  <2> QED
    BY <2>1, <2>2
<1>6. ASSUME NEW c, c = Current PROVE served'[c] = Entry(x, o)
  BY <1>1, <1>5, <1>6
<1> QED
  BY <1>2, <1>3, <1>4, <1>6

LEMMA ResultsStayRoomy ==
  ASSUME Roomy(results), NEW x, x.s \in Stmts, x.ok => AllWhole(x.s.outs),
         NEW o, FittingRows(x.s.outs, Received(o)),
         results' = IF x.ok /\ o.ok THEN GetResultsToBuffer(x.s, Received(o)).nb ELSE results
  PROVE  Roomy(results)'
<1>1. CASE x.ok /\ o.ok
  <2>1. Roomy(GetResultsToBuffer(x.s, Received(o)).nb)
    BY <1>1, ResultsAre
  <2>2. results' = GetResultsToBuffer(x.s, Received(o)).nb
    BY <1>1
  <2>3. \E nb : nb = results' /\ Roomy(nb)
    BY <2>1, <2>2
  <2> QED
    BY <2>3 DEF Roomy, Filled
<1>2. CASE ~(x.ok /\ o.ok)
  <2>1. results' = results
    BY <1>2
  <2> QED
    BY <2>1 DEF Roomy, Filled
<1> QED
  BY <1>1, <1>2

-----------------------------------------------------------------------------
(* A request that is served.                                                *)

\* What OnNewNetMsg works with: the statement s, the arguments x taken from
\* the data d, and the statement q that is left.
Requested(o, id, d, s, x, q) ==
  /\ id \in DOMAIN stmtMap /\ s = stmts[id] /\ d \in Seq(Nat)
  /\ s \in Stmts /\ s.nIn = Len(s.ins) /\ stmtMap[id] = s.flag
  /\ x = Unpack(s, d) /\ x.s \in Stmts /\ Kin(s, x.s) /\ AllWhole(x.s.outs)
  /\ FittingRows(x.s.outs, Received(o))
  /\ Kin(s, q) /\ q.ins = x.s.ins
  /\ stmts' = [stmts EXCEPT ![id] = q]

LEMMA RequestIs ==
  ASSUME StmtInv, HeldInv, NEW o \in StmtOutcomes, OnNewNetMsg(o),
         NEW c, c = Current
  PROVE  /\ asked[c].op = "net" /\ Head(stmtInbox) = asked[c]
         /\ \E s, x, q : /\ Requested(o, asked[c].id, asked[c].data, s, x, q)
                         /\ Query(asked[c].id, x, o)
<1> DEFINE m == asked[c]
           id == m.id
           d == m.data
           s == stmts[id]
           x == Unpack(s, d)
           q == Queried(id, x, o)
<1>1. Head(stmtInbox) = m /\ m \in StmtMessages
  <2>1. StmtTake
    BY DEF OnNewNetMsg
  <2>2. Head(stmtInbox) = asked[Current] /\ Current \in 1..Len(asked)
    BY <2>1, MessageAtHand
  <2> QED
    BY <2>2 DEF StmtInv, QueueInv
<1>2. /\ m.op = "net" /\ Serves(id) /\ Possible(x.s, o) /\ Query(id, x, o)
      /\ stmts' = [stmts EXCEPT ![id] = q]
  BY <1>1 DEF OnNewNetMsg
<1>3. d \in Seq(Nat)
  BY <1>1, <1>2, StmtAssumption
<1>4. id \in DOMAIN stmtMap /\ s \in Stmts /\ s.nIn = Len(s.ins) /\ stmtMap[id] = s.flag
      /\ Roomy(results)
  BY <1>2 DEF Serves, HeldInv
<1> HIDE DEF m
<1> HIDE DEF id, d, s
<1>5. /\ x.s \in Stmts /\ Kin(s, x.s)
      /\ \A i \in 1..Len(x.s.outs) : Whole(x.s.outs[i])
  BY <1>3, <1>4, UnpackWhole
<1> HIDE DEF x
<1>6. FittingRows(x.s.outs, Received(o))
  BY <1>2, <1>5, PossibleFits
<1>7. AllWhole(x.s.outs)
  BY <1>5 DEF AllWhole
<1>8. Kin(s, q) /\ q.ins = x.s.ins
  BY <1>4, <1>5, <1>6, <1>7, QueriedIs
<1> HIDE DEF q
<1>9. Requested(o, id, d, s, x, q)
  BY <1>2, <1>3, <1>4, <1>5, <1>6, <1>7, <1>8 DEF Requested, s, x
<1> QED
  BY <1>1, <1>2, <1>9 DEF m, id, d

\* The rows of the response, if there is one.
LEMMA RowsAnswered ==
  ASSUME NEW s \in Stmts, AllWhole(s.outs), NEW rows, FittingRows(s.outs, rows),
         Roomy(results), NEW nb, nb = GetResultsToBuffer(s, rows).nb,
         NEW a, a.rows = nb.count \/ "null" \in s.flag,
         \/ "null" \in s.flag
         \/ "one" \in s.flag /\ ~(nb.buf.size > 0)
         \/ a.nodes = Contents(nb.buf)
  PROVE  RowsHold(a, s, rows)
<1>1. /\ Roomy(nb)
      /\ s.flag \cap {"one", "multi"} # {} /\ Plain(s, rows) => RowsIn(nb, s.outs, rows)
  BY ResultsAre
<1>2. RowsAre(s.outs, rows)
  BY DEF FittingRows
<1> SUFFICES ASSUME Plain(s, rows), "null" \notin s.flag, s.flag \cap {"one", "multi"} # {}
             PROVE  ReadsRows(a, s.outs, rows)
  BY DEF RowsHold
<1>3. RowsIn(nb, s.outs, rows) /\ a.rows = nb.count
  BY <1>1
<1>4. CASE ~(nb.buf.size > 0)
  <2>1. nb.buf.size = 0
    <3>1. nb.buf.size \in Nat
      BY <1>1, NodesFacts
    <3> QED
      BY <1>4, <3>1
  <2>2. Len(rows) = 0
    BY <1>1, <1>2, <1>3, <2>1, NoRowsLeft
  <2>3. a.rows = 0
    BY <1>3, <2>2 DEF RowsIn
  <2> QED
    BY <2>2, <2>3 DEF ReadsRows
<1>5. CASE a.nodes = Contents(nb.buf)
  BY <1>2, <1>3, <1>5, RowsReadBack
<1> QED
  BY <1>4, <1>5

\* A response of Answer brings the rows of the execution.
LEMMA AnswerIs ==
  ASSUME HeldInv, NEW o, NEW id, NEW d, NEW s, NEW x, NEW q, Requested(o, id, d, s, x, q),
         NEW c, c = Current, served'[c] = Entry(x, o),
         results' = IF x.ok /\ o.ok THEN GetResultsToBuffer(x.s, Received(o)).nb ELSE results,
         NEW m, m.id = id, Answer(m)
  PROVE  \/ UNCHANGED answers
         \/ \E a : /\ answers' = Append(answers, a) /\ a.n = c
                   /\ RowsHold(a, q, Received(served'[c]))
<1> DEFINE flag == stmtMap[id]
           rows == Received(o)
           nb == GetResultsToBuffer(x.s, rows).nb
<1>1. /\ x.s \in Stmts /\ AllWhole(x.s.outs) /\ FittingRows(x.s.outs, rows)
      /\ flag = x.s.flag /\ Kin(x.s, q) /\ Roomy(results)
  <2>1. Kin(s, x.s) /\ Kin(s, q) /\ stmtMap[id] = s.flag
    BY DEF Requested
  <2>2. Kin(x.s, q) /\ x.s.flag = s.flag
    BY <2>1, KinBack, KinAgain, KinTypes
  <2> QED
    BY <2>1, <2>2 DEF Requested, HeldInv
<1>2. CASE UNCHANGED answers
  BY <1>2
<1>3. CASE served'[c].ok /\ \/ /\ {"null", "insert"} \subseteq flag
                               /\ Respond(m, affected', <<>>)
                            \/ /\ "null" \notin flag /\ "one" \in flag
                               /\ ~(results'.buf.size > 0)
                               /\ Respond(m, results'.count, <<>>)
                            \/ /\ flag \cap {"null", "one"} = {}
                               /\ Respond(m, results'.count, Contents(results'.buf))
  <2>1. x.ok /\ o.ok /\ Received(served'[c]) = rows
    BY <1>3 DEF Entry, Unserved, Received
  <2>2. results' = nb
    BY <2>1
  <2> HIDE DEF rows, nb, flag
  <2>3. \E a : /\ answers' = Append(answers, a) /\ a.n = c
               /\ a.rows = nb.count \/ "null" \in flag
               /\ \/ "null" \in flag
                  \/ "one" \in flag /\ ~(nb.buf.size > 0)
                  \/ a.nodes = Contents(nb.buf)
    <3>1. ASSUME NEW count, NEW nodes, Respond(m, count, nodes)
          PROVE  \E a : answers' = Append(answers, a) /\ a.n = c /\ a.rows = count
                        /\ a.nodes = nodes
      <4> DEFINE a == [n |-> Current, client |-> m.client, id |-> m.id, rows |-> count,
                       param |-> IF m.data = <<>> THEN Junk ELSE Last(m.data),
                       nodes |-> nodes]
      <4>1. answers' = Append(answers, a) /\ a.n = c /\ a.rows = count /\ a.nodes = nodes
        BY <3>1 DEF Respond
      <4> QED
        BY <4>1
    <3>2. CASE {"null", "insert"} \subseteq flag /\ Respond(m, affected', <<>>)
      <4>1. PICK a : answers' = Append(answers, a) /\ a.n = c /\ a.rows = affected'
        BY <3>1, <3>2
      <4> QED
        BY <3>2, <4>1
    <3>3. CASE /\ "null" \notin flag /\ "one" \in flag /\ ~(results'.buf.size > 0)
               /\ Respond(m, results'.count, <<>>)
      <4>1. PICK a : answers' = Append(answers, a) /\ a.n = c /\ a.rows = results'.count
        BY <3>1, <3>3
      <4> QED
        BY <2>2, <3>3, <4>1
    <3>4. CASE Respond(m, results'.count, Contents(results'.buf))
      <4>1. PICK a : answers' = Append(answers, a) /\ a.n = c /\ a.rows = results'.count
                     /\ a.nodes = Contents(results'.buf)
        BY <3>1, <3>4
      <4> QED
        BY <2>2, <4>1
    <3> QED
      BY <1>3, <3>2, <3>3, <3>4 DEF flag
  <2>4. PICK a : /\ answers' = Append(answers, a) /\ a.n = c
                 /\ a.rows = nb.count \/ "null" \in x.s.flag
                 /\ \/ "null" \in x.s.flag
                    \/ "one" \in x.s.flag /\ ~(nb.buf.size > 0)
                    \/ a.nodes = Contents(nb.buf)
    BY <1>1, <2>3 DEF flag
  <2>5. RowsHold(a, x.s, rows)
    <3>1. /\ x.s \in Stmts /\ AllWhole(x.s.outs) /\ FittingRows(x.s.outs, rows)
          /\ Roomy(results)
      BY <1>1 DEF rows
    <3>2. nb = GetResultsToBuffer(x.s, rows).nb
      BY DEF nb, rows
    <3> QED
      BY <2>4, <3>1, <3>2, RowsAnswered
  <2>6. RowsHold(a, q, rows)
    BY <1>1, <2>5, SameRowsHold
  <2> QED
    BY <2>1, <2>4, <2>6
<1> QED
  BY <1>2, <1>3 DEF Answer

\* The arguments the server saw.
LEMMA EntryArgs ==
  ASSUME NEW o, NEW id, NEW d, NEW s, NEW x, NEW q, Requested(o, id, d, s, x, q),
         WellPacked(s.ins, d), \A i \in 1..Len(s.ins) : Ready(s.ins[i])
  PROVE  /\ ~x.over /\ \A i \in 1..Len(q.ins) : Ready(q.ins[i])
         /\ Entry(x, o).reached /\ DOMAIN Entry(x, o).args = DOMAIN q.ins
         /\ IsPrefix(Packed(q.ins, Entry(x, o).args), d)
<1> DEFINE args == [i \in DOMAIN x.s.ins |-> Sent(x.s.ins[i])]
<1>1. /\ s \in Stmts /\ s.nIn = Len(s.ins) /\ d \in Seq(Nat) /\ x = Unpack(s, d)
      /\ Kin(s, q) /\ q.ins = x.s.ins
  BY DEF Requested
<1>2. /\ x.ok /\ ~x.over /\ \A j \in 1..Len(s.ins) : Ready(x.s.ins[j])
      /\ DOMAIN args = DOMAIN s.ins /\ IsPrefix(Packed(s.ins, args), d)
  BY <1>1, UnpackPacked
<1>3. Entry(x, o).reached /\ Entry(x, o).args = args
  BY <1>2 DEF Entry
<1> HIDE DEF args
<1>4. /\ s.ins \in Seq(ParamValues) /\ q.ins \in Seq(ParamValues)
      /\ SameTypes(s.ins, q.ins)
  BY <1>1, KinTypes
<1>5. DOMAIN s.ins = 1..Len(s.ins) /\ DOMAIN q.ins = DOMAIN s.ins /\ Len(q.ins) = Len(s.ins)
  BY <1>4 DEF SameTypes
<1>6. Packed(s.ins, args) = Packed(q.ins, args)
  BY <1>2, <1>4, <1>5, SamePacked
<1> QED
  BY <1>1, <1>2, <1>3, <1>5, <1>6

\* The statements after a request: one has other values in its parameters.
LEMMA StmtsAfter ==
  ASSUME StmtInv, HeldInv, NEW o, NEW id, NEW d, NEW s, NEW x, NEW q,
         Requested(o, id, d, s, x, q)
  PROVE  /\ stmts'[id] = q /\ DOMAIN stmts' = DOMAIN stmts
         /\ \A j \in DOMAIN stmtMap : j # id => stmts'[j] = stmts[j]
         /\ \A j \in DOMAIN stmtMap : Kin(stmts[j], stmts'[j])
<1>1. /\ id \in DOMAIN stmtMap /\ s = stmts[id] /\ Kin(s, q)
      /\ stmts' = [stmts EXCEPT ![id] = q]
  BY DEF Requested
<1>2. DOMAIN stmtMap \subseteq DOMAIN stmts /\ \A j \in DOMAIN stmtMap : stmts[j] \in Stmts
  BY DEF HeldInv
<1>3. /\ stmts'[id] = q /\ DOMAIN stmts' = DOMAIN stmts
      /\ \A j \in DOMAIN stmtMap : j # id => stmts'[j] = stmts[j]
  BY <1>1, <1>2
<1>4. ASSUME NEW j \in DOMAIN stmtMap PROVE Kin(stmts[j], stmts'[j])
  <2>1. CASE j = id
    BY <1>1, <1>3, <2>1
  <2>2. CASE j # id
    <3>1. stmts'[j] = stmts[j] /\ stmts[j] \in Stmts
      BY <1>2, <1>3, <2>2
    <3>2. Kin(stmts[j], stmts[j])
      BY <3>1, KinOf
    <3> QED
      BY <3>1, <3>2
  <2> QED
    BY <2>1, <2>2
<1> QED
  BY <1>3, <1>4

\* The rest of HeldInv follows.
LEMMA HeldOn ==
  ASSUME HeldInv, UNCHANGED stmtMap, Roomy(results)', pending' = NoOne,
         DOMAIN stmts' = DOMAIN stmts, \A j \in DOMAIN stmtMap : Kin(stmts[j], stmts'[j])
  PROVE  HeldInv'
<1>1. ASSUME NEW j \in DOMAIN stmtMap
      PROVE  /\ stmts'[j] \in Stmts /\ stmts'[j].nIn = Len(stmts'[j].ins)
             /\ stmtMap[j] = stmts'[j].flag
  <2>1. Kin(stmts[j], stmts'[j]) /\ stmts[j].nIn = Len(stmts[j].ins)
        /\ stmtMap[j] = stmts[j].flag
    BY DEF HeldInv
  <2> QED
    BY <2>1 DEF Kin
<1> QED
  BY <1>1 DEF HeldInv, Roomy, Filled

LEMMA ReadyGoOn ==
  ASSUME StmtInv, StmtTake, ReadyInv,
         \A j \in DOMAIN stmtMap :
           \/ stmts'[j] = stmts[j]
           \/ \A c : c = Current /\ PackedUntil(asked, c, j, stmts'[j].ins) =>
                       \A i \in 1..Len(stmts'[j].ins) : Ready(stmts'[j].ins[i])
  PROVE  ReadyInv'
<1>1. UNCHANGED <<stmtMap, asked>> /\ Current = Done + 1 /\ Done' = Done + 1 /\ Done \in Nat
  BY MessageAtHand, StmtLengths DEF StmtTake
<1> SUFFICES ASSUME NEW j \in DOMAIN stmtMap,
                    PackedUntil(asked, Done + 1, j, stmts'[j].ins)
             PROVE  \A i \in 1..Len(stmts'[j].ins) : Ready(stmts'[j].ins[i])
  BY <1>1 DEF ReadyInv
<1>2. CASE stmts'[j] = stmts[j]
  <2>1. PackedUntil(asked, Done, j, stmts[j].ins)
    <3> DEFINE d == Done
    <3>1. \A i \in 1..d : i \in 1..(d + 1)
      <4>1. d \in Nat
        BY <1>1
      <4> HIDE DEF d
      <4> QED
        BY ONLY <4>1
    <3> QED
      BY <1>2, <3>1 DEF PackedUntil
  <2> QED
    BY <1>2, <2>1 DEF ReadyInv
<1>3. CASE \A c : c = Current /\ PackedUntil(asked, c, j, stmts'[j].ins) =>
                    \A i \in 1..Len(stmts'[j].ins) : Ready(stmts'[j].ins[i])
  BY <1>1, <1>3
<1> QED
  BY <1>2, <1>3

LEMMA OnNewNetMsgKeeps ==
  ASSUME FaithfulInv, NEW o \in StmtOutcomes, OnNewNetMsg(o)
  PROVE  HeldInv' /\ ReadyInv' /\ ArgsInv' /\ RowsInv'
<1> DEFINE c == Current
           id == asked[c].id
           d == asked[c].data
<1>1. StmtInv /\ HeldInv /\ ReadyInv /\ ArgsInv /\ RowsInv
  BY DEF FaithfulInv
<1>2. StmtTake /\ UNCHANGED <<stmtMap, asked>> /\ Answer(Head(stmtInbox))
  BY DEF OnNewNetMsg, StmtTake
<1>3. asked[c].op = "net" /\ Head(stmtInbox) = asked[c]
  BY <1>1, RequestIs
<1>4. PICK s, x, q : Requested(o, id, d, s, x, q) /\ Query(id, x, o)
  BY <1>1, RequestIs
<1>5. /\ served'[c] = Entry(x, o) /\ Entered /\ pending' = NoOne
      /\ results' = IF x.ok /\ o.ok THEN GetResultsToBuffer(x.s, Received(o)).nb ELSE results
  BY <1>1, <1>2, <1>4, QueryIs DEF HeldInv
<1>6. /\ stmts'[id] = q /\ DOMAIN stmts' = DOMAIN stmts
      /\ \A j \in DOMAIN stmtMap : j # id => stmts'[j] = stmts[j]
      /\ \A j \in DOMAIN stmtMap : Kin(stmts[j], stmts'[j])
  BY <1>1, <1>4, StmtsAfter
<1>7. Before
  BY <1>1, <1>2, <1>5, <1>6, TakeBefore
<1>8. /\ id \in DOMAIN stmtMap /\ s = stmts[id] /\ Kin(s, q) /\ x.s \in Stmts
      /\ AllWhole(x.s.outs) /\ FittingRows(x.s.outs, Received(o))
  BY <1>4 DEF Requested
<1>9. c = Done + 1 /\ Done \in Nat /\ Done' = Done + 1
  BY <1>1, <1>2, MessageAtHand, StmtLengths
<1>10. HeldInv'
  <2>1. Roomy(results)'
    BY <1>1, <1>5, <1>8, ResultsStayRoomy DEF HeldInv
  <2> QED
    BY <1>1, <1>2, <1>5, <1>6, <2>1, HeldOn
\* The request and those before it were well packed.
<1>11. ASSUME PackedUntil(asked, c, id, q.ins)
       PROVE  /\ \A i \in 1..Len(q.ins) : Ready(q.ins[i])
              /\ Entry(x, o).reached /\ DOMAIN Entry(x, o).args = DOMAIN q.ins
              /\ IsPrefix(Packed(q.ins, Entry(x, o).args), d)
  <2> DEFINE n == Done
             A == asked
  <2>1. n \in Nat /\ c = n + 1
    BY <1>9
  <2>2. PackedUntil(A, c, id, q.ins)
    BY <1>11
  <2> HIDE DEF n, A, c, id, d
  <2>3. n + 1 \in Nat /\ n \in 0..(n + 1) /\ n + 1 \in 0..(n + 1) /\ n + 1 \in 1..(n + 1)
    BY ONLY <2>1
  <2>4. PackedUntil(A, n, id, s.ins) /\ PackedUntil(A, n + 1, id, s.ins)
    BY <1>8, <2>1, <2>2, <2>3, SamePackedUntil
  <2>5. WellPacked(s.ins, d)
    <3>1. A[n + 1].op = "net" /\ A[n + 1].id = id /\ A[n + 1].data = d
      BY <1>3, <2>1 DEF A, id, d
    <3> QED
      BY <2>3, <2>4, <3>1 DEF PackedUntil
  <2>6. \A i \in 1..Len(s.ins) : Ready(s.ins[i])
    BY <1>1, <1>8, <2>4 DEF ReadyInv, n, A
  <2> QED
    BY <1>4, <2>5, <2>6, EntryArgs
<1>12. ReadyInv'
  <2>1. ASSUME NEW j \in DOMAIN stmtMap
        PROVE  \/ stmts'[j] = stmts[j]
               \/ \A e : e = Current /\ PackedUntil(asked, e, j, stmts'[j].ins) =>
                           \A i \in 1..Len(stmts'[j].ins) : Ready(stmts'[j].ins[i])
    BY <1>6, <1>11
  <2> QED
    BY <1>1, <1>2, <2>1, ReadyGoOn
<1>13. ArgsInv'
  <2>1. ArgsHold(asked, Entry(x, o), c, q.ins)
    BY <1>11 DEF ArgsHold
  <2>2. ArgsHold(asked', served'[c], c, stmts'[asked'[c].id].ins)
    BY <1>2, <1>5, <1>6, <2>1
  <2>3. \E e : e = Current /\ ArgsHold(asked', served'[e], e, stmts'[asked'[e].id].ins)
    BY <2>2
  <2> HIDE DEF c
  <2>4. PICK e : e = Current /\ ArgsHold(asked', served'[e], e, stmts'[asked'[e].id].ins)
    BY <2>3
  <2> QED
    BY <1>1, <1>2, <1>7, <2>4, ArgsGoOn
<1>14. RowsInv'
  <2>1. \/ UNCHANGED answers
        \/ \E a : /\ answers' = Append(answers, a) /\ a.n = c
                  /\ RowsHold(a, q, Received(served'[c]))
    <3>1. Answer(asked[c]) /\ asked[c].id = id
      BY <1>2, <1>3
    <3> HIDE DEF id, d
    <3> QED
      BY <1>1, <1>4, <1>5, <3>1, AnswerIs
  <2>2. CASE UNCHANGED answers
    BY <1>1, <1>7, <2>2, RowsStay
  <2>3. CASE \E a : /\ answers' = Append(answers, a) /\ a.n = c
                    /\ RowsHold(a, q, Received(served'[c]))
    <3>1. PICK a : /\ answers' = Append(answers, a) /\ a.n = c
                   /\ RowsHold(a, q, Received(served'[c]))
      BY <2>3
    <3>2. stmts'[asked'[c].id] = q
      BY <1>2, <1>6
    <3>3. RowsHold(a, stmts'[asked'[a.n].id], Received(served'[a.n]))
      BY <3>1, <3>2
    <3> QED
      BY <1>1, <1>7, <3>1, <3>3, RowsGoOn
  <2> QED
    BY <2>1, <2>2, <2>3
<1> QED
  BY <1>10, <1>12, <1>13, <1>14

\* A message that is no request, or not well packed, leaves the statements.
LEMMA TakenOnly ==
  ASSUME FaithfulInv, StmtTake, HeldInv', Entered, UNCHANGED <<stmts, answers>>,
         NEW c, c = Current,
         Request(c) => ~PackedUntil(asked, c, asked[c].id, stmts[asked[c].id].ins)
  PROVE  HeldInv' /\ ReadyInv' /\ ArgsInv' /\ RowsInv'
<1>1. StmtInv /\ HeldInv /\ ReadyInv /\ ArgsInv /\ RowsInv
  BY DEF FaithfulInv
<1>2. UNCHANGED <<stmtMap, asked, stmts, answers>>
  BY DEF StmtTake
<1>3. \A j \in DOMAIN stmtMap : Kin(stmts[j], stmts'[j])
  BY <1>1, <1>2, KinOf DEF HeldInv
<1>4. Before
  BY <1>1, <1>3, TakeBefore
<1>5. ReadyInv'
  BY <1>1, <1>2, ReadyGoOn
<1>6. ArgsInv'
  <2>1. ASSUME Request(c)'
        PROVE  ArgsHold(asked', served'[c], c, stmts'[asked'[c].id].ins)
    <3>1. Request(c)
      BY <1>2, <2>1 DEF Request, Serves
    <3> QED
      BY <1>2, <3>1 DEF ArgsHold
  <2> QED
    BY <1>1, <1>4, <2>1, ArgsGoOn
<1>7. RowsInv'
  BY <1>1, <1>2, <1>4, RowsStay
<1> QED
  BY <1>5, <1>6, <1>7

LEMMA HeldStays ==
  ASSUME HeldInv, UNCHANGED <<stmts, stmtMap, results, pending>> PROVE HeldInv'
BY DEF HeldInv, Roomy, Filled

LEMMA NoSuchStmtKeeps ==
  ASSUME FaithfulInv, NoSuchStmt PROVE HeldInv' /\ ReadyInv' /\ ArgsInv' /\ RowsInv'
<1>1. /\ StmtTake /\ ~Serves(Head(stmtInbox).id)
      /\ UNCHANGED <<stmts, results, pending, served, answers>>
  BY DEF NoSuchStmt
<1>2. PICK c : c = Current
  OBVIOUS
<1>3. Head(stmtInbox) = asked[c]
  BY <1>1, <1>2, MessageAtHand DEF FaithfulInv
<1>4. ~Request(c)
  BY <1>1, <1>3 DEF Request
<1>5. HeldInv' /\ Entered
  BY <1>1, HeldStays, NothingEntered DEF FaithfulInv, StmtTake
<1> QED
  BY <1>1, <1>2, <1>4, <1>5, TakenOnly

LEMMA OverReadKeeps ==
  ASSUME FaithfulInv, OverRead PROVE HeldInv' /\ ReadyInv' /\ ArgsInv' /\ RowsInv'
<1>1. /\ StmtTake /\ Head(stmtInbox).op = "net" /\ Serves(Head(stmtInbox).id)
      /\ Unpack(stmts[Head(stmtInbox).id], Head(stmtInbox).data).over
      /\ UNCHANGED <<stmts, results, pending, served, answers>>
  BY DEF OverRead
<1>2. PICK c : c = Current
  OBVIOUS
<1>3. /\ Head(stmtInbox) = asked[c] /\ asked[c] \in StmtMessages
      /\ c = Done + 1 /\ Done \in Nat
  <2>1. Head(stmtInbox) = asked[c] /\ c \in 1..Len(asked) /\ c = Done + 1 /\ Done \in Nat
    BY <1>1, <1>2, MessageAtHand, StmtLengths DEF FaithfulInv
  <2> QED
    BY <2>1 DEF FaithfulInv, StmtInv, QueueInv
<1> DEFINE m == asked[c]
           s == stmts[m.id]
<1>4. m.op = "net" /\ m.id \in DOMAIN stmtMap /\ Unpack(s, m.data).over /\ m.data \in Seq(Nat)
  BY <1>1, <1>3, StmtAssumption DEF Serves
<1>5. s \in Stmts /\ s.nIn = Len(s.ins)
  BY <1>4 DEF FaithfulInv, HeldInv
<1>6. ASSUME PackedUntil(asked, c, m.id, s.ins) PROVE FALSE
  <2> DEFINE n == Done
  <2>1. n \in Nat /\ c = n + 1
    BY <1>3
  <2>2. PackedUntil(asked, n, m.id, s.ins) /\ WellPacked(s.ins, m.data)
    <3> HIDE DEF n
    <3>1. c \in 1..c /\ \A i \in 1..n : i \in 1..c
      BY ONLY <2>1
    <3> QED
      BY <1>4, <1>6, <3>1 DEF PackedUntil
  <2>3. \A i \in 1..Len(s.ins) : Ready(s.ins[i])
    BY <1>4, <2>2 DEF FaithfulInv, ReadyInv
  <2> HIDE DEF s, m
  <2>4. ~Unpack(s, m.data).over
    BY <1>4, <1>5, <2>2, <2>3, UnpackPacked
  <2> QED
    BY <1>4, <2>4
<1>7. HeldInv' /\ Entered
  BY <1>1, HeldStays, NothingEntered DEF FaithfulInv, StmtTake
<1> QED
  BY <1>1, <1>2, <1>6, <1>7, TakenOnly

LEMMA AdHocQueryKeeps ==
  ASSUME FaithfulInv, NEW h \in {"none", "prepared"}, NEW o \in StmtOutcomes, AdHocQuery(h, o)
  PROVE  HeldInv' /\ ReadyInv' /\ ArgsInv' /\ RowsInv'
<1>1. StmtInv /\ HeldInv
  BY DEF FaithfulInv
<1>2. PICK c : c = Current
  OBVIOUS
<1> DEFINE m == asked[c]
           s == InitStmtParams(NewStmt, m.q, h)
           x == IF s.handle = "prepared" THEN PassArgs(s, m.args)
                ELSE [s |-> s, ok |-> FALSE, over |-> FALSE]
<1>3. Head(stmtInbox) = m /\ m \in StmtMessages /\ StmtTake /\ m.op = "call"
  <2>1. StmtTake /\ Head(stmtInbox).op = "call"
    BY DEF AdHocQuery
  <2>2. Head(stmtInbox) = asked[c] /\ c \in 1..Len(asked)
    BY <1>1, <1>2, <2>1, MessageAtHand
  <2> QED
    BY <1>1, <2>1, <2>2 DEF StmtInv, QueueInv
<1>4. /\ UNCHANGED <<stmts, stmtMap, answers>>
      /\ \/ Possible(x.s, o) /\ Query(AdHoc, x, o)
         \/ UNCHANGED <<served, results, pending>>
  BY <1>3 DEF AdHocQuery, StmtTake
<1>5. m.q \in Configs /\ m.args \in Seq(Seq(Int))
  BY <1>3, StmtAssumption
<1>6. ~Request(c)
  BY <1>3 DEF Request
<1>7. x.s \in Stmts /\ (x.ok => AllWhole(x.s.outs))
  <2>1. s \in Stmts /\ (s.handle = "prepared" => s.nIn = Len(s.ins))
    BY <1>5, InitStmtIs
  <2> HIDE DEF s, m
  <2>2. CASE s.handle = "prepared"
    <3>1. x = PassArgs(s, m.args)
      BY <2>2
    <3>2. /\ PassArgs(s, m.args).s \in Stmts
          /\ PassArgs(s, m.args).ok =>
               \A i \in 1..Len(PassArgs(s, m.args).s.outs) :
                 Whole(PassArgs(s, m.args).s.outs[i])
      BY <1>5, <2>1, <2>2, PassArgsIs
    <3> QED
      BY <3>1, <3>2 DEF AllWhole
  <2>3. CASE s.handle # "prepared"
    BY <2>1, <2>3
  <2> QED
    BY <2>2, <2>3
<1> HIDE DEF x, m
<1>8. HeldInv' /\ Entered
  <2>1. CASE Possible(x.s, o) /\ Query(AdHoc, x, o)
    <3>1. /\ Entered /\ pending' = NoOne
          /\ results' = IF x.ok /\ o.ok THEN GetResultsToBuffer(x.s, Received(o)).nb ELSE results
      BY <1>1, <1>3, <2>1, QueryIs DEF HeldInv
    <3>2. FittingRows(x.s.outs, Received(o))
      BY <1>7, <2>1, PossibleFits
    <3>3. Roomy(results)'
      BY <1>1, <1>7, <3>1, <3>2, ResultsStayRoomy DEF HeldInv
    <3>4. \A j \in DOMAIN stmtMap : Kin(stmts[j], stmts'[j])
      BY <1>1, <1>4, KinOf DEF HeldInv
    <3> QED
      BY <1>1, <1>4, <3>1, <3>3, <3>4, HeldOn
  <2>2. CASE UNCHANGED <<served, results, pending>>
    BY <1>1, <1>4, <2>2, HeldStays, NothingEntered
  <2> QED
    BY <1>4, <2>1, <2>2
<1> QED
  BY <1>2, <1>3, <1>4, <1>6, <1>8, TakenOnly

LEMMA StmtPostKeeps ==
  ASSUME FaithfulInv, NEW m \in StmtMessages, StmtPost(m)
  PROVE  HeldInv' /\ ReadyInv' /\ ArgsInv' /\ RowsInv'
<1>1. StmtInv /\ HeldInv /\ ReadyInv /\ ArgsInv /\ RowsInv
  BY DEF FaithfulInv
<1>2. /\ asked' = Append(asked, m) /\ stmtInbox' = Append(stmtInbox, m)
      /\ served' = Append(served, Unserved)
      /\ UNCHANGED <<stmts, stmtMap, results, pending, answers>>
  BY DEF StmtPost
<1> DEFINE d == Done
           a == Len(asked)
           b == Len(stmtInbox)
<1>3. a \in Nat /\ b \in Nat /\ b <= a /\ d = a - b /\ Len(served) = a
  BY <1>1, StmtLengths DEF StmtInv, QueueInv, Done
<1>4. /\ Len(asked') = a + 1 /\ Len(stmtInbox') = b + 1
      /\ \A i \in 1..a : asked'[i] = asked[i] /\ served'[i] = served[i]
  <2>1. PICK S : served \in Seq(S)
    BY <1>1 DEF StmtInv, BooksInv
  <2> DEFINE T == S \cup {Unserved}
  <2>2. served \in Seq(T) /\ Unserved \in T
    BY <2>1
  <2> HIDE DEF T
  <2>3. \A i \in 1..a : served'[i] = served[i]
    BY <1>2, <1>3, <2>2, AppendProperties
  <2>4. /\ Len(asked') = a + 1 /\ Len(stmtInbox') = b + 1
        /\ \A i \in 1..a : asked'[i] = asked[i]
    BY <1>1, <1>2, AppendProperties DEF StmtInv, QueueInv
  <2> QED
    BY <2>3, <2>4
<1>5. Done' = (a + 1) - (b + 1)
  BY <1>4 DEF Done
<1> HIDE DEF a, b
<1>6. Done' = d /\ \A i \in 1..d : i \in 1..a
  <2>1. a \in Nat /\ b \in Nat /\ b <= a /\ d = a - b
    BY <1>3
  <2> HIDE DEF d
  <2>2. Done' = d
    BY ONLY <2>1, <1>5
  <2>3. \A i \in 1..d : i \in 1..a
    BY ONLY <2>1
  <2> QED
    BY ONLY <2>2, <2>3
<1>7. HeldInv'
  BY <1>1, <1>2, HeldStays
<1>8. Before
  <2>1. \A j \in DOMAIN stmtMap : Kin(stmts[j], stmts'[j])
    BY <1>1, <1>2, KinOf DEF HeldInv
  <2> QED
    BY <1>2, <1>4, <1>6, <2>1 DEF Before
<1>9. ReadyInv'
  <2> SUFFICES ASSUME NEW j \in DOMAIN stmtMap,
                      PackedUntil(asked', d, j, stmts[j].ins)
               PROVE  \A i \in 1..Len(stmts[j].ins) : Ready(stmts[j].ins[i])
    BY <1>2, <1>6 DEF ReadyInv
  <2>1. PackedUntil(asked, Done, j, stmts[j].ins)
    BY <1>4, <1>6 DEF PackedUntil
  <2> QED
    BY <1>1, <2>1 DEF ReadyInv
<1>10. ArgsInv'
  <2> SUFFICES ASSUME NEW n \in 1..Done, Request(n)'
               PROVE  ArgsHold(asked', served'[n], n, stmts'[asked'[n].id].ins)
    BY <1>6 DEF ArgsInv
  <2> QED
    BY <1>1, <1>8, OldArgs
<1>11. RowsInv'
  BY <1>1, <1>2, <1>8, RowsStay
<1> QED
  BY <1>7, <1>9, <1>10, <1>11

LEMMA LoadKeeps ==
  ASSUME FaithfulInv, NEW id \in StmtIds, NEW c \in StmtConfigs,
         NEW h \in {"none", "prepared"}, LoadStmtConfig(id, c, h)
  PROVE  HeldInv' /\ ReadyInv' /\ ArgsInv' /\ RowsInv'
<1>1. StmtInv /\ HeldInv /\ ReadyInv /\ ArgsInv /\ RowsInv
  BY DEF FaithfulInv
<1> DEFINE s == InitStmtParams(NewStmt, c, h)
           New(map, v) == [k \in DOMAIN map \cup {id} |-> IF k = id THEN v ELSE map[k]]
<1>2. /\ stmtPhase = "load" /\ UNCHANGED <<results, pending, stmtInbox, asked, served, answers>>
      /\ \/ UNCHANGED <<stmts, stmtMap>>
         \/ /\ id \notin DOMAIN stmts /\ stmts' = New(stmts, s)
            /\ stmtMap' = IF s.handle = "prepared" THEN New(stmtMap, c.flag) ELSE stmtMap
  BY DEF LoadStmtConfig
<1>3. s \in Stmts /\ s.flag = c.flag /\ (s.handle = "prepared" => s.nIn = Len(s.ins))
      /\ \A i \in 1..Len(s.ins) : Ready(s.ins[i])
  <2>1. c \in Configs
    BY StmtAssumption
  <2> QED
    BY <2>1, InitStmtIs
<1> HIDE DEF s
<1>4. Done = 0 /\ Done' = 0
  BY <1>1, <1>2, StmtLengths DEF StmtInv, BooksInv, QueueInv, Done
<1>5. \A j : PackedUntil(asked, Done, j, stmts[j].ins)
  BY <1>4 DEF PackedUntil
<1>6. ASSUME NEW j \in DOMAIN stmtMap'
      PROVE  /\ j \in DOMAIN stmts'
             /\ stmts'[j] \in Stmts /\ stmts'[j].nIn = Len(stmts'[j].ins)
             /\ stmtMap'[j] = stmts'[j].flag
             /\ \A i \in 1..Len(stmts'[j].ins) : Ready(stmts'[j].ins[i])
  <2>1. CASE j \in DOMAIN stmtMap /\ j \in DOMAIN stmts'
             /\ stmts'[j] = stmts[j] /\ stmtMap'[j] = stmtMap[j]
    BY <1>1, <1>5, <2>1 DEF HeldInv, ReadyInv
  <2>2. CASE j \in DOMAIN stmts' /\ stmts'[j] = s /\ stmtMap'[j] = c.flag
             /\ s.handle = "prepared"
    BY <1>3, <2>2
  <2>3. CASE UNCHANGED <<stmts, stmtMap>>
    BY <1>1, <2>1, <2>3 DEF HeldInv
  <2>4. CASE /\ id \notin DOMAIN stmts /\ stmts' = New(stmts, s)
             /\ stmtMap' = IF s.handle = "prepared" THEN New(stmtMap, c.flag)
                           ELSE stmtMap
    <3>1. /\ DOMAIN stmts' = DOMAIN stmts \cup {id} /\ stmts'[id] = s
          /\ \A i \in DOMAIN stmts : stmts'[i] = stmts[i]
      BY <2>4
    <3>2. DOMAIN stmtMap \subseteq DOMAIN stmts /\ id \notin DOMAIN stmtMap
      BY <1>1, <2>4 DEF HeldInv
    <3>3. CASE s.handle = "prepared"
      <4>1. /\ DOMAIN stmtMap' = DOMAIN stmtMap \cup {id} /\ stmtMap'[id] = c.flag
            /\ \A i \in DOMAIN stmtMap : stmtMap'[i] = stmtMap[i]
        BY <2>4, <3>2, <3>3
      <4> QED
        BY <2>1, <2>2, <3>1, <3>2, <3>3, <4>1
    <3>4. CASE s.handle # "prepared"
      BY <2>1, <2>4, <3>1, <3>2, <3>4
    <3> QED
      BY <3>3, <3>4
  <2> QED
    BY <1>2, <2>3, <2>4
<1>7. HeldInv'
  BY <1>1, <1>2, <1>6 DEF HeldInv, Roomy, Filled
<1>8. ReadyInv'
  BY <1>6 DEF ReadyInv
<1>9. ArgsInv'
  BY <1>4 DEF ArgsInv
<1>10. RowsInv'
  <2>1. ASSUME NEW k \in 1..Len(answers) PROVE FALSE
    <3>1. answers[k].n \in 1..Done
      BY <1>1 DEF StmtInv, RoutedInv, Fits
    <3> QED
      BY <3>1, <1>4
  <2> QED
    BY <1>2, <2>1 DEF RowsInv
<1> QED
  BY <1>7, <1>8, <1>9, <1>10

LEMMA FaithStep == FaithfulInv /\ [StmtNext]_stmtVars => FaithfulInv'
<1> SUFFICES ASSUME FaithfulInv, [StmtNext]_stmtVars PROVE FaithfulInv'
  OBVIOUS
<1>1. StmtInv'
  BY StmtStep DEF FaithfulInv
<1>2. ASSUME NEW id \in StmtIds, NEW c \in StmtConfigs, NEW h \in {"none", "prepared"},
             LoadStmtConfig(id, c, h)
      PROVE  FaithfulInv'
  BY <1>1, <1>2, LoadKeeps DEF FaithfulInv
<1>3. CASE UNCHANGED <<stmts, stmtMap, results, pending, stmtInbox, asked, served, answers>>
  <2>1. StmtInv /\ HeldInv /\ ReadyInv /\ ArgsInv /\ RowsInv /\ Done' = Done
    BY <1>3 DEF FaithfulInv, Done
  <2>2. HeldInv'
    BY <1>3, <2>1, HeldStays
  <2>3. ReadyInv'
    BY <1>3, <2>1 DEF ReadyInv
  <2>4. ArgsInv'
    BY <1>3, <2>1 DEF ArgsInv, Request, Serves
  <2>5. RowsInv'
    BY <1>3, <2>1 DEF RowsInv
  <2> QED
    BY <1>1, <2>2, <2>3, <2>4, <2>5 DEF FaithfulInv
<1>4. CASE StmtStart \/ UNCHANGED stmtVars
  BY <1>3, <1>4 DEF StmtStart, stmtVars
<1>5. ASSUME NEW m \in StmtMessages, StmtPost(m)
      PROVE  FaithfulInv'
  BY <1>1, <1>5, StmtPostKeeps DEF FaithfulInv
<1>6. CASE NoSuchStmt
  BY <1>1, <1>6, NoSuchStmtKeeps DEF FaithfulInv
<1>7. ASSUME NEW o \in StmtOutcomes, OnNewNetMsg(o)
      PROVE  FaithfulInv'
  BY <1>1, <1>7, OnNewNetMsgKeeps DEF FaithfulInv
<1>8. CASE OverRead
  BY <1>1, <1>8, OverReadKeeps DEF FaithfulInv
<1>9. ASSUME NEW h \in {"none", "prepared"}, NEW o \in StmtOutcomes, AdHocQuery(h, o)
      PROVE  FaithfulInv'
  BY <1>1, <1>9, AdHocQueryKeeps DEF FaithfulInv
<1> QED
  BY <1>2, <1>4, <1>5, <1>6, <1>7, <1>8, <1>9 DEF StmtNext

\* What the invariant says of the responses and of the arguments.
LEMMA FaithShown == FaithfulInv /\ AnswersRouted => StmtFaithful
<1> SUFFICES ASSUME FaithfulInv, AnswersRouted PROVE StmtFaithful
  OBVIOUS
<1>1. StmtInv /\ HeldInv /\ ReadyInv /\ ArgsInv /\ RowsInv
  BY DEF FaithfulInv
<1>2. ASSUME NEW k \in DOMAIN answers
      PROVE  LET a == answers[k]
                 s == stmts[asked[a.n].id]
                 rows == Received(served[a.n])
             IN  /\ "null" \notin s.flag /\ s.flag \cap {"one", "multi"} # {}
                 /\ Plain(s, rows)
                 =>
                   /\ a.rows = Len(rows)
                   /\ a.rows > 0 => ReadBack(a) =
                                     [i \in 1..a.rows |-> Packed(s.outs, rows[i])]
  <2>1. k \in 1..Len(answers)
    BY <1>1 DEF StmtInv, BooksInv
  <2> DEFINE a == answers[k]
             s == stmts[asked[a.n].id]
             rows == Received(served[a.n])
  <2>2. RowsHold(a, s, rows)
    BY <1>1, <2>1 DEF RowsInv
  <2> HIDE DEF a, s, rows
  <2>3. /\ "null" \notin s.flag /\ s.flag \cap {"one", "multi"} # {} /\ Plain(s, rows)
        =>
          /\ a.rows = Len(rows)
          /\ a.rows > 0 => ReadBack(a) = [i \in 1..a.rows |-> Packed(s.outs, rows[i])]
    BY <2>2 DEF RowsHold, ReadsRows
  <2> QED
    BY <2>3 DEF a, s, rows
<1>3. ASSUME NEW n \in DOMAIN asked, Handled(n), Request(n),
             \A i \in 1..n : Same(i, n) => WellPacked(stmts[asked[n].id].ins, asked[i].data)
      PROVE  LET s == stmts[asked[n].id]
             IN  /\ IsPrefix(Packed(s.ins, served[n].args), asked[n].data)
                 /\ served[n].reached
  <2>1. n \in 1..Len(asked)
    BY <1>1 DEF StmtInv, QueueInv
  <2>2. n \in 1..Done
    <3> DEFINE d == Done
               l == Len(asked)
    <3>1. n \in 1..l /\ l \in Nat /\ d \in Nat /\ n <= d
      BY <1>1, <1>3, <2>1, StmtLengths DEF Handled, Done
    <3> HIDE DEF d, l
    <3>2. n \in 1..d
      BY ONLY <3>1
    <3> QED
      BY <3>2 DEF d
  <2>3. PackedUntil(asked, n, asked[n].id, stmts[asked[n].id].ins)
    BY <1>3 DEF PackedUntil, Same
  <2>4. ArgsHold(asked, served[n], n, stmts[asked[n].id].ins)
    BY <1>1, <1>3, <2>2 DEF ArgsInv
  <2> QED
    BY <2>3, <2>4 DEF ArgsHold
<1> QED
  BY <1>2, <1>3 DEF StmtFaithful

\* Whatever the statements, the requests and the server: the rows a client
\* reads out of a response are those of the execution that answers its
\* request, each whole and at its place, or none if the client library could
\* not take them over; and the server executed with the arguments of the
\* request, unless a string of the statement was empty or too long before.
\* About: OnNewNetMsg, On*Record, QueryByID, ExecuteQuery, GetResultsToBuffer.
THEOREM StmtFaithfulAlways == StmtSpec => []StmtFaithful
<1>1. StmtInit => FaithfulInv
  BY FaithInitially
<1>2. FaithfulInv /\ [StmtNext]_stmtVars => FaithfulInv'
  BY FaithStep
<1>3. FaithfulInv /\ AnswersRouted => StmtFaithful
  BY FaithShown
<1> QED
  BY <1>1, <1>2, <1>3, AnswersRoutedAlways, PTL DEF StmtSpec
=============================================================================
