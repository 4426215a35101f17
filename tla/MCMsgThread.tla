----------------------------- MODULE MCMsgThread -----------------------------
(***************************************************************************)
(* Instances of MsgThread for TLC: two producers, at most two messages     *)
(* each, an owner that may stop, restart and delete the thread.  Only      *)
(* ExitThread posts AS_THREAD_STOP in this repository, so the producers    *)
(* post messages for the subclass and AS_THREAD_CLEAR.                     *)
(***************************************************************************)
EXTENDS MsgThread

CONSTANTS p1, p2, own
=============================================================================
