------------------------------ MODULE MCPipeline ------------------------------
(* Model-checking instance of Pipeline: the constants are set per run.     *)
EXTENDS Pipeline
===============================================================================
