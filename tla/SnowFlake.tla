------------------------------ MODULE SnowFlake ------------------------------
(***************************************************************************)
(* asSnowFlake (code/algorithm): threads take identifiers from one         *)
(* generator, a second, a server and a sequence number packed into one     *)
(* word, in fields that do not overlap.  How many values a field has is a  *)
(* constant; the sign of the word is left out.  The clock belongs to the   *)
(* system and may be set back.                                             *)
(***************************************************************************)
EXTENDS Integers, Sequences

CONSTANTS IdThreads,   \* the threads
          MaxGiven,    \* bound: identifiers
          MaxTime,     \* the last second since m_timeBegin that fits its field
          ServerMax,   \* how many servers fit theirs, 2^12
          SeqMax,      \* AS_SNOW_SEQ_MAX, 2^20
          BitOr(_, _)  \* | of the machine

\* All the bits of an identifier.
Ones == (MaxTime + 1) * ServerMax * SeqMax - 1

\* Each field has one value at least, and | of numbers that have no bit in
\* common is their sum: fields are shifted to where the others have none.
ASSUME IdAssumption ==
  /\ MaxTime \in Nat /\ ServerMax \in Nat \ {0} /\ SeqMax \in Nat \ {0}
  /\ \A w \in {SeqMax, ServerMax * SeqMax} :
       \A high \in 0..((MaxTime + 1) * ServerMax), low \in 0..(w - 1) :
         high * w + low <= Ones => BitOr(high * w, low) = high * w + low

VARIABLES
  time,      \* time(0) - m_timeBegin
  m_curTime, m_seqId, m_serverId,
  m_lock,    \* the threads that hold it: none or one
  given,     \* history: the identifiers, in the order of the returns
  setBack    \* history: the clock was set back

idVars == <<time, m_curTime, m_seqId, m_serverId, m_lock, given, setBack>>

IdInit ==
  /\ time = 0 /\ m_curTime = 0 /\ m_seqId = 0 /\ m_serverId = 0
  /\ m_lock = {} /\ given = <<>> /\ setBack = FALSE

\* Init of the generator, before anybody uses it.  One beyond the limit is
\* refused.
SetServer(id) ==
  /\ given = <<>> /\ m_lock = {} /\ m_serverId = 0
  /\ m_serverId' = IF id >= ServerMax THEN m_serverId ELSE id
  /\ UNCHANGED <<time, m_curTime, m_seqId, m_lock, given, setBack>>

TimeGoes(t) ==
  /\ time' = t
  /\ t # time
  /\ setBack' = (setBack \/ t < time)
  /\ UNCHANGED <<m_curTime, m_seqId, m_serverId, m_lock, given>>

\* m_serverId << SeqBits is an int: the upper half of the servers makes it
\* negative, and the cast to the width of the identifier extends the sign.
Shifted(server) ==
  IF server < ServerMax \div 2 THEN server * SeqMax
  ELSE (Ones - (ServerMax * SeqMax - 1)) + server * SeqMax

Id(t, server, seq) ==
  BitOr(BitOr(t * (ServerMax * SeqMax), Shifted(server)), seq)

Lock(t) ==
  /\ m_lock = {} /\ Len(given) < MaxGiven
  /\ m_lock' = {t}
  /\ UNCHANGED <<time, m_curTime, m_seqId, m_serverId, given, setBack>>

\* A mutant: nobody waits for the next second.
ExhaustedNever(seq) == FALSE

\* The loop goes round while this holds, with the lock.
Exhausted(seq) == seq >= SeqMax

\* One turn of the loop of GetId, with the return if it is the last.
GetId(t) ==
  LET first == IF time # m_curTime THEN 0 ELSE m_seqId
  IN  /\ t \in m_lock
      /\ Len(given) < MaxGiven
      /\ m_curTime' = time
      /\ m_seqId' = IF Exhausted(first + 1) THEN SeqMax ELSE first + 1
      /\ IF Exhausted(first + 1) THEN UNCHANGED <<given, m_lock>>
         ELSE /\ given' = Append(given, Id(time, m_serverId, first))
              /\ m_lock' = {}
      /\ UNCHANGED <<time, m_serverId, setBack>>

IdNext ==
  \/ \E id \in 1..ServerMax : SetServer(id)
  \/ \E t \in 0..MaxTime : TimeGoes(t)
  \/ \E t \in IdThreads : Lock(t) \/ GetId(t)

IdSpec == IdInit /\ [][IdNext]_idVars

-----------------------------------------------------------------------------
\* No identifier is given twice, and each is greater than the one before,
\* also when a second's numbers run out (the last is never given: the thread
\* that meets it waits, with the lock, for the next second), as long as the
\* clock is not set back and the server is in the lower half.  A server of
\* the upper half, which Init accepts, overwrites the time: its identifiers
\* repeat every second.
\* About: GetId, Init.
IdsUnique ==
  ~setBack /\ m_serverId < ServerMax \div 2 =>
    \A i, j \in DOMAIN given : i < j => given[i] < given[j]
=============================================================================
