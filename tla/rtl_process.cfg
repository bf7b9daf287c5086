SPECIFICATION Spec
CONSTANTS
    Processes <- MCProcesses
    MaxRun = 3
    MaxCycles = 6
INVARIANTS
    RunsOnTime
    SleepsUntilAnEdge
