---------------------------- MODULE MCGpuModule -----------------------------
EXTENDS GpuModule, TLC

CONSTANTS p1, p2

\* A Mac with Xcode, and a PC with both SDKs and a llamafile that carries the CUDA
\* module only.
MCMachine ==
    {[mac |-> TRUE, tools |-> {"metal"}, bundled |-> {}],
     [mac |-> FALSE, tools |-> {"rocm", "cuda"}, bundled |-> {"cuda"}]}

MCRequest ==
    {[gpu |-> "auto", nocompile |-> FALSE, recompile |-> r] : r \in BOOLEAN}
        \cup {[gpu |-> g, nocompile |-> TRUE, recompile |-> FALSE] : g \in {"amd", "apple"}}

\* Three runs on the Mac, two elsewhere.
MCMaxRuns == (TRUE :> 3) @@ (FALSE :> 2)

Processes == Permutations(Process)
=============================================================================
