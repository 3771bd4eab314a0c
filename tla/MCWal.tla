-------------------------------- MODULE MCWal --------------------------------
(* Model-checking instance of WalConsumer: the constants are set per run.  *)
EXTENDS WalConsumer
=============================================================================
