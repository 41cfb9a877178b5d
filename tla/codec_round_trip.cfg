CONSTANT Frames <- MCFrames
SPECIFICATION CodecSpec
INVARIANTS
  RoundTrip
  EncodedIsCanonical
  OnlyModelsRejectBare
PROPERTIES
  CanonicalIsFixed
  UnknownEventsSurvive
CHECK_DEADLOCK FALSE
