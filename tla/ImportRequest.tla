--------------------------- MODULE ImportRequest ---------------------------
(***************************************************************************)
(* The pure parts of building an import request for one message           *)
(* (internal/transfer/provider_pmapi_target.go): isMessageDraft, the label *)
(* list of generateImportMsgReq and computeMessageFlags, each compared     *)
(* with a set-based reference definition taken from the specification.    *)
(*                                                                         *)
(* The state is one input: the message's target labels, in order, and the *)
(* global mailbox of the transfer rules.  It never changes.               *)
(***************************************************************************)
EXTENDS Naturals, FiniteSets, Sequences, SequencesExt, Bitwise

CONSTANTS
  InboxLabel, AllMailLabel, ArchiveLabel, SentLabel, DraftLabel,
  CustomLabels,     \* labels and folders created by the user
  NoMailbox,        \* rules.globalMailbox == nil
  GlobalMailboxes,  \* IDs the global mailbox may have
  FlagReceived,     \* pmapi.FlagReceived
  FlagSent,         \* pmapi.FlagSent
  MaxTargets        \* bound on the number of targets of a message

SystemLabels == {InboxLabel, AllMailLabel, ArchiveLabel, SentLabel, DraftLabel}
Labels == SystemLabels \cup CustomLabels

ASSUME
  /\ NoMailbox \notin Labels
  /\ GlobalMailboxes \subseteq CustomLabels
  /\ FlagReceived \in Nat \ {0} /\ FlagSent \in Nat \ {0}
  /\ FlagReceived & FlagSent = 0
  /\ MaxTargets \in Nat

VARIABLES
  targets,   \* msg.Targets, as label IDs
  global     \* rules.globalMailbox.ID, or NoMailbox

vars == <<targets, global>>

(***************************************************************************)
(* Translation of the code                                                 *)
(***************************************************************************)
\* isMessageDraft: any target is the Drafts label.
IsMessageDraft(t) == \E i \in DOMAIN t : t[i] = DraftLabel

\* generateImportMsgReq: the targets without All Mail, then the global
\* mailbox when there is one.
LabelIDs(t, g) ==
  SelectSeq(t, LAMBDA l : l # AllMailLabel)
    \o (IF g = NoMailbox THEN <<>> ELSE <<g>>)

\* Mutant: the case for Inbox is missing.
LabelFlagNoInbox(labelID) ==
  CASE labelID = SentLabel    -> FlagSent
    [] labelID = ArchiveLabel -> FlagReceived
    [] OTHER                  -> 0

\* The bit one label contributes in the switch of computeMessageFlags.
LabelFlag(labelID) ==
  CASE labelID = SentLabel                     -> FlagSent
    [] labelID \in {ArchiveLabel, InboxLabel}  -> FlagReceived
    [] OTHER                                   -> 0

\* computeMessageFlags: the bits of all labels, Received when none is set.
ComputeMessageFlags(labels) ==
  LET flag == FoldLeft(LAMBDA f, l : f | LabelFlag(l), 0, labels)
  IN IF flag = 0 THEN FlagReceived ELSE flag

(***************************************************************************)
(* Reference definitions, from the specification                          *)
(***************************************************************************)
\* The destination set: the targets except All Mail, plus the global one.
ReferenceLabels(t, g) ==
  (ToSet(t) \ {AllMailLabel}) \cup (IF g = NoMailbox THEN {} ELSE {g})

\* Sent membership sets the sent bit, Archive or Inbox membership the
\* received bit, and a message with neither is received.
ReferenceFlags(S) ==
  LET sent == IF SentLabel \in S THEN FlagSent ELSE 0
      recv == IF S \cap {ArchiveLabel, InboxLabel} # {} THEN FlagReceived ELSE 0
  IN IF sent + recv = 0 THEN FlagReceived ELSE sent + recv

(***************************************************************************)
(* Specification                                                           *)
(***************************************************************************)
\* transferMessage, and so generateImportMsgReq, only sees the messages
\* isMessageDraft sends down the import path.
Init ==
  /\ targets \in {t \in BoundedSeq(Labels, MaxTargets) : ~IsMessageDraft(t)}
  /\ global \in GlobalMailboxes \cup {NoMailbox}

Next == UNCHANGED vars

Spec == Init /\ [][Next]_vars

(***************************************************************************)
(* Properties                                                              *)
(***************************************************************************)
TypeOK ==
  /\ targets \in Seq(Labels)
  /\ global \in GlobalMailboxes \cup {NoMailbox}

(* The request's labels are exactly the message's destinations: All Mail  *)
(* is dropped, the global mailbox is added, nothing else changes; and the  *)
(* flags computeMessageFlags derives from that label list are the ones     *)
(* the destination set calls for.                                          *)
RequestMatchesReference ==
  LET labels == LabelIDs(targets, global)
  IN /\ ToSet(labels) = ReferenceLabels(targets, global)
     /\ ComputeMessageFlags(labels) = ReferenceFlags(ToSet(labels))
=============================================================================
