SPECIFICATION Spec
CONSTANTS
    Node = {1, 2, 3}
    Graphs <- AllGraphs
INVARIANTS
    CycleIsReal
    NoneIsAcyclic
    NamesAreTheCycle
PROPERTIES
    Terminates
