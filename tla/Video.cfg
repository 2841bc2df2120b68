SPECIFICATION Spec
CONSTANT Inputs <- AllStreams
CHECK_DEADLOCK FALSE
INVARIANT UnitsAreFound
INVARIANT HeadersAreRead
INVARIANT SlicesAreRead
