--------------------------- MODULE MCLlamaCompute ---------------------------
EXTENDS LlamaCompute, TLC

CONSTANTS t1, t2, t3

\* Every thread asks for another number of cores, so that a release may free more
\* than the thread it wakes takes, and the graph has one, two or three threads.
MCGreed == (t1 :> 3) @@ (t2 :> 2) @@ (t3 :> 1)
=============================================================================
