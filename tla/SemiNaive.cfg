\* Every graph on four nodes, every program and every strategy.
CONSTANTS
    Nodes = {n1, n2, n3, n4}
    Source = n1
SPECIFICATION Spec
INVARIANTS
    InductiveInvariant
    DerivationsExact
    ClosureIsReachability
PROPERTY ImplementsNaive
CHECK_DEADLOCK FALSE
