SPECIFICATION Spec
CONSTANTS
    HBits = 2
    Qids <- MCQids
    Kinds <- MCKinds
    Builtin <- MCBuiltin
    Classful <- MCClassful
    Rated <- MCRated
    Minors <- MCMinors
    Requests <- MCRequestsIngress
    Tasks <- MCTasks
    Faults <- MCFaults
INVARIANT RefsAreAttachments
VIEW KernelView
