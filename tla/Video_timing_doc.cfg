SPECIFICATION Spec
CONSTANT Inputs <- TimedStreams
CHECK_DEADLOCK FALSE
INVARIANT TimingIsRead
