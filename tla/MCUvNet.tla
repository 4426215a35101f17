------------------------------- MODULE MCUvNet -------------------------------
(* Instances of UvNet: one or two network threads, one or two sessions.    *)
EXTENDS UvNet
=============================================================================
