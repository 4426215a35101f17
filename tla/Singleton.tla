------------------------------ MODULE Singleton ------------------------------
(***************************************************************************)
(* asSingleton (code/single): threads ask for the instance, which the      *)
(* first makes, and main deletes it when it ends.  The first test reads    *)
(* the pointer without the lock, and so do the returns.  asSingle is the   *)
(* same with a shared pointer and no way to delete.                        *)
(***************************************************************************)
EXTENDS Integers, Sequences

CONSTANTS Callers,      \* the threads
          MaxAsked,     \* bound: calls of instance
          MaxDeletes    \* bound: calls of delete_instance

NoObject == 0

VARIABLES
  s_single,   \* an object, or NoObject
  s_mutex,    \* the threads that hold it: none or one
  at,         \* per thread: "out", "lock", "test", "new", "return", "delete"
  made,       \* objects made so far; they are numbered
  alive,      \* the objects that are not deleted
  handed,     \* history: what instance returned
  askedFor,   \* calls of instance so far
  deletes     \* calls of delete_instance so far

oneVars == <<s_single, s_mutex, at, made, alive, handed, askedFor, deletes>>

OneInit ==
  /\ s_single = NoObject /\ s_mutex = {} /\ at = [t \in Callers |-> "out"]
  /\ made = 0 /\ alive = {} /\ handed = <<>> /\ askedFor = 0 /\ deletes = 0

Goes(t, from, to) == at[t] = from /\ at' = [at EXCEPT ![t] = to]

Instance(t) ==
  /\ askedFor < MaxAsked /\ askedFor' = askedFor + 1
  /\ Goes(t, "out", IF s_single # NoObject THEN "return" ELSE "lock")
  /\ UNCHANGED <<s_single, s_mutex, made, alive, handed, deletes>>

LockForNew(t) ==
  /\ Goes(t, "lock", "test")
  /\ s_mutex = {} /\ s_mutex' = {t}
  /\ UNCHANGED <<s_single, made, alive, handed, askedFor, deletes>>

\* A mutant: whoever gets the lock makes an instance.
TestAgainNot(t) ==
  /\ Goes(t, "test", "new")
  /\ UNCHANGED <<s_single, s_mutex, made, alive, handed, askedFor, deletes>>

TestAgain(t) ==
  /\ Goes(t, "test", IF s_single # NoObject THEN "return" ELSE "new")
  /\ s_mutex' = IF s_single # NoObject THEN {} ELSE s_mutex
  /\ UNCHANGED <<s_single, made, alive, handed, askedFor, deletes>>

New(t) ==
  /\ Goes(t, "new", "return")
  /\ made' = made + 1 /\ s_single' = made + 1 /\ alive' = alive \cup {made + 1}
  /\ s_mutex' = {}
  /\ UNCHANGED <<handed, askedFor, deletes>>

\* The pointer is read once more.
Return(t) ==
  /\ Goes(t, "return", "out")
  /\ handed' = Append(handed, s_single)
  /\ UNCHANGED <<s_single, s_mutex, made, alive, askedFor, deletes>>

\* The object is deleted first, and the pointer cleared after it: who reads it
\* in between, without the lock, is handed what is gone.
DeleteInstance(t) ==
  /\ Goes(t, "out", "delete")
  /\ s_mutex = {} /\ s_mutex' = {t}
  /\ deletes < MaxDeletes /\ deletes' = deletes + 1
  /\ alive' = alive \ {s_single}
  /\ UNCHANGED <<s_single, made, handed, askedFor>>

ClearInstance(t) ==
  /\ Goes(t, "delete", "out")
  /\ s_single' = NoObject /\ s_mutex' = {}
  /\ UNCHANGED <<made, alive, handed, askedFor, deletes>>

OneNext ==
  \E t \in Callers :
    \/ Instance(t) \/ LockForNew(t) \/ TestAgain(t) \/ New(t) \/ Return(t)
    \/ DeleteInstance(t) \/ ClearInstance(t)

OneSpec == OneInit /\ [][OneNext]_oneVars

-----------------------------------------------------------------------------
\* At most one object is alive, however many threads race for the first, and
\* until it is deleted every caller is handed the same one, never a null
\* pointer.  (After delete_instance a caller may be handed null, by the
\* second read of the pointer, the deleted object, or a new one.)
\* About: instance, delete_instance.
OneInstance ==
  /\ \A a, b \in alive : a = b
  /\ deletes = 0 => \A i \in DOMAIN handed : handed[i] = 1
=============================================================================
