SPECIFICATION MCSpec
CONSTANTS
  ClientSide = FALSE
  MaxStreamId = 3
  PeerIds = {0, 1, 2, 3}
  PeerLastIds = {0, 2}
  LastIds = {0}
  StreamLimits = {1}
  EnablePush = TRUE
INVARIANTS
  TypeOK
  ClosedOnlyInCallback
  DrainHasWork
  ShutdownCompleteOnce
  GoawayCoversStreams
  LocalIdsFresh
  GoawayMarksStreams
PROPERTIES
  HeaderBlockUnbroken
  ImplementsShutdown
  DrainCompletes
\* Cooperating sides that have drained have nothing left to do.
CHECK_DEADLOCK FALSE
