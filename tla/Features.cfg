CONSTANTS
  Shader = shader
  Header = header
  Served = {"hover", "commandContext", "effectiveContext", "inlayHints",
            "workspaceSymbols", "outgoingCalls", "incomingCalls"}
  First = shader
  RefreshSupport = TRUE
  Requested = {shader}
  MaxEvents = 2
  MaxRequests = 1
SPECIFICATION Spec
INVARIANTS
  AnswersAreOfOneAnalysis
  StaleHintsAreRefreshed
PROPERTIES
  AnswersAreCurrent
CHECK_DEADLOCK FALSE
