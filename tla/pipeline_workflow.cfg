SPECIFICATION PipelineSpec
CONSTANTS
  Schemas <- Supported
  Touched = {"models"}
INVARIANTS
  GeneratedIsClosed
  NothingDropped
  AdviceWorksButForStrays
