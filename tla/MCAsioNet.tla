------------------------------ MODULE MCAsioNet ------------------------------
(* Instances of AsioNet for TLC: sessions that follow each other in one     *)
(* block of the pool, and messages that queue up behind a write.            *)
EXTENDS AsioNet
=============================================================================
