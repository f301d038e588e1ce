SPECIFICATION Spec
CONSTANTS
  EventQueueSize = 2
  MaxEvents = 4
INVARIANTS NativesOwned EventsInOrder TerminalMeansReleased
PROPERTIES FollowsLife StartAndStopReturn FailureTerminates
CHECK_DEADLOCK FALSE
