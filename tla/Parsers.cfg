SPECIFICATION Spec
CONSTANTS
  Buffers <- Inputs
CHECK_DEADLOCK FALSE
INVARIANT IntactIsReadBack
INVARIANT CursorFollowsLengths
INVARIANT BeginsBeforeCRC
INVARIANT LyingLengthsAreContained
