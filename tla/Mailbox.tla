------------------------------- MODULE Mailbox -------------------------------
(***************************************************************************)
(* What a message thread promises to those that post to it: one first-in   *)
(* first-out queue, from which the messages are served one at a time until *)
(* a STOP is served.  After it the thread may serve more, but it halts, and *)
(* a halted mailbox serves nothing again.  CLEAR drops what is queued; the *)
(* code gives it no defined continuation, so the mailbox halts.            *)
(***************************************************************************)
EXTENDS Naturals, Sequences

CONSTANT Message

VARIABLES queue,   \* posted and not yet served
          served,  \* history: what was served, in order
          state    \* "open", "stopping" after a STOP was served, "halted"

vars == <<queue, served, state>>

TypeOK ==
  /\ queue \in Seq(Message)
  /\ served \in Seq(Message)
  /\ state \in {"open", "stopping", "halted"}

Init ==
  /\ queue = <<>>
  /\ served = <<>>
  /\ state = "open"

Post(m) ==
  /\ queue' = Append(queue, m)
  /\ UNCHANGED <<served, state>>

Serve ==
  /\ state # "halted"
  /\ queue # <<>>
  /\ served' = Append(served, Head(queue))
  /\ \/ /\ Head(queue).kind = "work"
        /\ queue' = Tail(queue)
        /\ state' = state
     \/ /\ Head(queue).kind = "STOP"
        /\ queue' = Tail(queue)
        /\ state' = "stopping"
     \/ /\ Head(queue).kind = "CLEAR"
        /\ queue' = <<>>
        /\ state' = "halted"

Halt ==
  /\ state = "stopping"
  /\ state' = "halted"
  /\ UNCHANGED <<queue, served>>

Next == Serve \/ Halt \/ \E m \in Message : Post(m)

Spec == Init /\ [][Next]_vars
=============================================================================
