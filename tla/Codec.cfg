SPECIFICATION Spec
CONSTANTS
  Base = 8
  FixStr = 2
  FixCount = 1
  Values <- Sent
  HostValues <- Received
INVARIANT RoundTrip AnyWidth Smallest NothingInvented FailureIsRaised
CHECK_DEADLOCK FALSE
