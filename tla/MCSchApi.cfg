SPECIFICATION Spec
CONSTANTS
    HBits = 2
    Qids <- MCQids
    Kinds <- MCKinds
    Builtin <- MCBuiltin
    Classful <- MCClassful
    Rated <- MCRated
    Minors <- MCMinors
    Requests <- MCRequests
    Tasks <- MCTasks
    Faults <- MCFaults
INVARIANT CountsAreHolders
INVARIANT NoLoops
INVARIANT HandlesUnique
VIEW KernelView
