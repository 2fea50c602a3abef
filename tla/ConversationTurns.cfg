CONSTANTS
  Handlers = {h1, h2, h3, h4}
  Results <- MCResults
  MaxClarifications = 1
  MaxLive = 1
  MaxFaults = 1
  NoConversation = NoConversation
  NoMessage = NoMessage
  NoResult = NoResult
SPECIFICATION Spec
SYMMETRY MCSymmetry
INVARIANTS ConfirmedOnce
PROPERTIES StaysEscalated
CHECK_DEADLOCK FALSE
