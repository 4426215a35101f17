-------------------------- MODULE MCMsgThreadGroup --------------------------
(* Instances of MsgThreadGroup: groups of one or two threads, one caller. *)
EXTENDS MsgThreadGroup

CONSTANT c1
=============================================================================
