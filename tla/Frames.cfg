SPECIFICATION Spec
CONSTANTS
  Preface <- MCPreface
  MaxFrameSize = 12
  RemoteMax = 4
INVARIANTS
  PortionsDoNotMatter
  FramesSurvive
  ParsedIsThePayload
CHECK_DEADLOCK FALSE
