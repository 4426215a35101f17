----------------------------- MODULE MCMySQLPool -----------------------------
(* Instances of MySQLPool: one or two workers, a few statements.           *)
EXTENDS MySQLPool
=============================================================================
