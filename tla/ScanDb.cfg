CONSTANTS
    a1 = a1
    a2 = a2
    h1 = h1
    h2 = h2
    Agents <- MCAgents
    Hosts <- MCHosts
    MaxScans = 3
    MaxRows = 1
SYMMETRY Symmetry
SPECIFICATION Spec
INVARIANTS NeverHalfWritten ReturnIsTrue
PROPERTIES ReadsForward StoresWhole
