CONSTANTS
  NumMsgs <- MCFaultyNumMsgs
  Sizes <- MCSizes
  MaxItems <- MCMaxItems
  MaxSize <- MCMaxSize
  SingleReplies <- MCFaultySingleReplies
  BulkCallMayFail = TRUE
  ResultsMayBeShort = FALSE
  MaxAttachments = 0
  StaleMsgs = {}

SPECIFICATION Spec

PROPERTY SubmittedBatchWithinBounds

\* TransferFrom returns: the final state has no successor.
CHECK_DEADLOCK FALSE
