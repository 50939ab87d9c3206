-------------------------------- MODULE MCDvr --------------------------------
(* The two reconciliation tasks, alone in the queue.                          *)
EXTENDS DvrSync

MCNames == [k \in Kinds |-> k]
MCPriority == [k \in Kinds |-> 20]
=============================================================================
