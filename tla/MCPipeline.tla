------------------------------ MODULE MCPipeline ------------------------------
(* Pipeline on a small instance: one thing of each kind the inputs hold.     *)
EXTENDS Pipeline

MCSingles == {"reason", "reasoner", "abox"}
=============================================================================
