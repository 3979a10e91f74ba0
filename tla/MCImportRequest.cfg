CONSTANTS
  InboxLabel = InboxLabel
  AllMailLabel = AllMailLabel
  ArchiveLabel = ArchiveLabel
  SentLabel = SentLabel
  DraftLabel = DraftLabel
  NoMailbox = NoMailbox
  Custom = Custom
  Imported = Imported
  CustomLabels <- MCCustomLabels
  GlobalMailboxes <- MCGlobalMailboxes
  FlagReceived = 1
  FlagSent = 2
  MaxTargets = 3

SPECIFICATION Spec

INVARIANT RequestMatchesReference
