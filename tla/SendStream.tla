------------------------------ MODULE SendStream ------------------------------
(***************************************************************************)
(* What a network thread promises to those that send on its sessions: each *)
(* session is a stream, the messages it accepts reach the peer in the      *)
(* order of acceptance, without a gap, until the session breaks; then      *)
(* whatever still waits is dropped and nothing reaches the peer any more.  *)
(***************************************************************************)
EXTENDS Sequences

CONSTANTS Session, Message

VARIABLES waiting,  \* per session, accepted and not yet with the peer
          wire,     \* per session, what the peer got
          up        \* per session, whether it has not been broken or closed

vars == <<waiting, wire, up>>

TypeOK ==
  /\ waiting \in [Session -> Seq(Message)]
  /\ wire \in [Session -> Seq(Message)]
  /\ up \in [Session -> BOOLEAN]

Init ==
  /\ waiting = [s \in Session |-> <<>>]
  /\ wire = [s \in Session |-> <<>>]
  /\ up = [s \in Session |-> TRUE]

\* One message for several sessions, as a broadcast is.
Send(S, m) ==
  /\ \A s \in S : up[s]
  /\ waiting' = [s \in Session |-> IF s \in S THEN Append(waiting[s], m)
                                              ELSE waiting[s]]
  /\ UNCHANGED <<wire, up>>

Write(s) ==
  /\ up[s]
  /\ waiting[s] # <<>>
  /\ wire' = [wire EXCEPT ![s] = Append(@, Head(waiting[s]))]
  /\ waiting' = [waiting EXCEPT ![s] = Tail(@)]
  /\ UNCHANGED up

Break(S) ==
  /\ up' = [s \in Session |-> up[s] /\ s \notin S]
  /\ waiting' = [s \in Session |-> IF s \in S THEN <<>> ELSE waiting[s]]
  /\ UNCHANGED wire

Next ==
  \/ \E S \in SUBSET Session : Break(S) \/ \E m \in Message : Send(S, m)
  \/ \E s \in Session : Write(s)

Spec == Init /\ [][Next]_vars
=============================================================================
