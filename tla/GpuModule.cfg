CONSTANTS
    p1 = p1
    p2 = p2
    Process = {p1, p2}
    None = None
    Machine <- MCMachine
    Request <- MCRequest
    MaxRuns <- MCMaxRuns
SPECIFICATION Spec
SYMMETRY Processes
INVARIANTS LinkedWhole RecompileHonoured MetalFresh
CHECK_DEADLOCK FALSE
