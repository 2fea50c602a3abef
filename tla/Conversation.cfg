CONSTANTS
  Handlers = {h1, h2, h3}
  Results <- MCFewResults
  MaxClarifications = 1
  MaxLive = 2
  MaxFaults = 0
  NoConversation = NoConversation
  NoMessage = NoMessage
  NoResult = NoResult
SPECIFICATION Spec
SYMMETRY MCSymmetry
INVARIANTS TypeOK OneDraftPerMessage ConfirmationTakesTwoTurns QuestionsBeforeHandoff RepliesMatchDrafts
PROPERTIES ClosedConversationsStay
CHECK_DEADLOCK FALSE
