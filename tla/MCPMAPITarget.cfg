\* The bulk import always answers with one result per request.
CONSTANTS
  NumMsgs <- MCNumMsgs
  Sizes <- MCSizes
  MaxItems <- MCMaxItems
  MaxSize <- MCMaxSize
  SingleReplies <- MCSingleReplies
  BulkCallMayFail = FALSE
  ResultsMayBeShort = FALSE
  MaxAttachments <- MCMaxAttachments
  StaleMsgs <- MCStaleMsgs

SPECIFICATION Spec

INVARIANT TypeOK
INVARIANT NoDuplicateInAccount
INVARIANT NoStaleImport

PROPERTY SubmittedBatchWithinBounds
PROPERTY NoMessageLost
PROPERTY RefinesAbstract
PROPERTY NoImportAfterStop

\* TransferFrom returns: the final state has no successor.
CHECK_DEADLOCK FALSE
