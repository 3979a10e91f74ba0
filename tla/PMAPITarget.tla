---------------------------- MODULE PMAPITarget ----------------------------
(***************************************************************************)
(* The transfer of a message stream into a ProtonMail account:            *)
(* PMAPIProvider.TransferFrom and the batching, bulk import and one-by-one *)
(* fallback it drives (internal/transfer/provider_pmapi_target.go).        *)
(*                                                                         *)
(* One pipeline goroutine runs TransferFrom; the only other actor is the   *)
(* owner of the Progress, who may set the stop flag at any moment.         *)
(* Message content is abstracted to what the control flow tells apart:     *)
(* whether it is a draft, whether parsing and encryption succeed, and the  *)
(* size of its encrypted body.  Replies of the API are nondeterministic.   *)
(***************************************************************************)
EXTENDS Naturals, FiniteSets, Sequences, Functions, TLC

CONSTANTS
  NumMsgs,          \* number of messages the source channel delivers
  Sizes,            \* possible sizes of an encrypted message body
  MaxItems,         \* pmapiImportBatchMaxItems
  MaxSize,          \* pmapiImportBatchMaxSize
  BulkCallMayFail,  \* whether the bulk import can fail or return no result
  ResultsMayBeShort, \* whether a result list may cover only part of a batch
  SingleReplies,    \* replies the API may give to a one-message import
  MaxAttachments,   \* most attachments a draft carries
  StaleMsgs         \* IDs a previous, cancelled run may have left cached

ASSUME
  /\ NumMsgs \in Nat \ {0}
  /\ Sizes \subseteq Nat \ {0}
  /\ MaxItems \in Nat \ {0}
  /\ MaxSize \in Nat \ {0}
  /\ BulkCallMayFail \in BOOLEAN
  /\ ResultsMayBeShort \in BOOLEAN
  /\ SingleReplies \subseteq {"ok", "refused", "noResult", "transportErr"}
  /\ MaxAttachments \in Nat
  /\ StaleMsgs \subseteq Nat \ (1..NumMsgs)

Msgs == 1..NumMsgs

\* Every message ID the provider may see: this run's and the stale ones.
Ids == Msgs \cup StaleMsgs

VARIABLES
  pc,        \* "start" (TransferFrom entered), "loop", "flush"
             \* (importMessages inside transferMessage), "final" (after
             \* the loop) or "done"
  next,      \* identifier of the next message the channel delivers
  stopped,   \* Progress stop flag, read by shouldStop()
  reqMap,    \* p.importMsgReqMap: message ID -> size of its request body
  reqSize,   \* p.importMsgReqSize
  pending,   \* request of transferMessage waiting for its flush to end
  outcomes,  \* outcomes[m]: every messageImported call made for m
  remote,    \* remote[m]: copies of m created in the account
  draft      \* draft[m]: attachments of draft m, and how many were uploaded

vars == <<pc, next, stopped, reqMap, reqSize, pending, outcomes, remote, draft>>

NoDraft == [attachments |-> 0, uploaded |-> 0]

NoReq == [id |-> 0, size |-> 0]
EmptyMap == [m \in {} |-> 0]

(* Outcome of a messageImported(msgID, importedID, err) call.              *)
\*   "imported": a remote ID and no error; "failed": an error.
Outcome == {"imported", "failed"}

(***************************************************************************)
(* Progress (spec-modelled: the type is not part of this source tree).    *)
(***************************************************************************)
MessageImported(o, m, kind) == [o EXCEPT ![m] = Append(@, kind)]

\* messageImported for every message of a batch, kinds: ID -> outcome
MessagesImported(o, kinds) ==
  [m \in DOMAIN o |-> IF m \in DOMAIN kinds THEN Append(o[m], kinds[m])
                                            ELSE o[m]]

Stop ==
  /\ ~stopped
  /\ stopped' = TRUE
  /\ UNCHANGED <<pc, next, reqMap, reqSize, pending, outcomes, remote, draft>>

(***************************************************************************)
(* Replies of the API.                                                     *)
(***************************************************************************)
\* importRequest for a whole batch: an error, or a list of results, one
\* per request, each with or without an error (the list is empty when the
\* batch is, and may be empty otherwise).  A list shorter than the batch
\* pairs its entries with a prefix of importMsgIDs, whose order is the
\* map's iteration order, so any proper subset of the batch may be the one
\* covered.
\* An error may also come after the server imported part of the batch (a
\* response lost to a timeout): applied is the part it imported.
BulkReplies(ids) ==
  (IF BulkCallMayFail
   THEN {[err |-> TRUE, res |-> EmptyMap, applied |-> A] : A \in SUBSET ids}
          \cup {[err |-> FALSE, res |-> EmptyMap, applied |-> {}]}
   ELSE {})
    \cup {[err |-> FALSE, res |-> r, applied |-> {}] : r \in [ids -> {"ok", "refused"}]}
    \cup (IF ResultsMayBeShort
         THEN UNION {{[err |-> FALSE, res |-> r, applied |-> {}] : r \in [S -> {"ok", "refused"}]} :
                       S \in SUBSET ids \ {{}, ids}}
         ELSE {})

\* importMessage: the outcome recorded for a reply to its one-message
\* importRequest.  A refusal or an empty result sets importedErr; a
\* transport error is returned to callWrap, which surfaces it as the
\* message's failure (specification, section 4.3).
ImportMessage(reply) ==
  IF reply = "ok" THEN "imported" ELSE "failed"

Created(reply) == IF reply = "ok" THEN 1 ELSE 0

\* remote after the API created made[m] copies of each message m
CopiesAdded(r, made) ==
  [m \in DOMAIN r |-> r[m] + IF m \in DOMAIN made THEN made[m] ELSE 0]

(***************************************************************************)
(* importMessages, as a function from the state it reads (b) to the state *)
(* it leaves.  b has fields map, size, outcomes and remote.                *)
(***************************************************************************)
\* Mutant: the one-by-one path reports only the messages that were imported.
ImportOneByOneSuccessesOnly(b, single) ==
  LET ids == {m \in DOMAIN b.map : single[m] = "ok"}
  IN [b EXCEPT
        !.outcomes = MessagesImported(@, [m \in ids |-> ImportMessage(single[m])]),
        !.remote   = CopiesAdded(@, [m \in ids |-> Created(single[m])])]

\* Whole request failed or returned nothing: every message alone, then an
\* early return that leaves the cache as it was.
ImportOneByOne(b, single) ==
  LET ids == DOMAIN b.map
  IN [b EXCEPT
        !.outcomes = MessagesImported(@, [m \in ids |-> ImportMessage(single[m])]),
        !.remote   = CopiesAdded(@, [m \in ids |-> Created(single[m])])]

\* Mutant: every item is imported alone again, not only those with an error.
ImportWithResultsRetryAll(b, bulk, single) ==
  LET ids == DOMAIN bulk
      kind(m) == ImportMessage(single[m])
      made(m) == (IF bulk[m] = "ok" THEN 1 ELSE 0) + Created(single[m])
  IN [b EXCEPT
        !.outcomes = MessagesImported(@, [m \in ids |-> kind(m)]),
        !.remote   = CopiesAdded(@, [m \in ids |-> made(m)]),
        !.map      = EmptyMap,
        !.size     = 0]

\* Per-item results, walked by index: items with an error are imported
\* alone, then the cache is cleared, whatever the list covered.
ImportWithResults(b, bulk, single) ==
  LET ids == DOMAIN bulk
      kind(m) == IF bulk[m] = "ok" THEN "imported" ELSE ImportMessage(single[m])
      made(m) == IF bulk[m] = "ok" THEN 1 ELSE Created(single[m])
  IN [b EXCEPT
        !.outcomes = MessagesImported(@, [m \in ids |-> kind(m)]),
        !.remote   = CopiesAdded(@, [m \in ids |-> made(m)]),
        !.map      = EmptyMap,
        !.size     = 0]

\* Mutant: importMessages without its shouldStop check.
ImportMessagesIgnoringStop(b, bulk, single) ==
  IF bulk.err \/ DOMAIN bulk.res = {}
  THEN ImportOneByOne([b EXCEPT !.remote = CopiesAdded(@, [m \in bulk.applied |-> 1])],
                      single)
  ELSE ImportWithResults(b, bulk.res, single)

\* importMessages: nothing when the run is stopped, else the bulk call and
\* the path its reply selects.
ImportMessages(b, bulk, single) ==
  IF stopped THEN b
  ELSE IF bulk.err \/ DOMAIN bulk.res = {}
       THEN ImportOneByOne([b EXCEPT !.remote = CopiesAdded(@, [m \in bulk.applied |-> 1])],
                           single)
       ELSE ImportWithResults(b, bulk.res, single)

\* The states importMessages may leave, over every reply of the API.
ImportResults(b) ==
  { ImportMessages(b, bulk, single) :
      bulk \in BulkReplies(DOMAIN b.map),
      single \in [DOMAIN b.map -> SingleReplies] }

Cache == [map |-> reqMap, size |-> reqSize, outcomes |-> outcomes,
          remote |-> remote]

(***************************************************************************)
(* TransferFrom                                                            *)
(***************************************************************************)
\* The provider as TransferFrom finds it: its cache may still hold requests
\* of a previous run that was cancelled before its last flush.
Init ==
  /\ pc = "start"
  /\ next = 1
  /\ stopped = FALSE
  /\ reqMap \in UNION {[S -> Sizes] : S \in SUBSET StaleMsgs}
  /\ reqSize = SumFunction(reqMap)
  /\ pending = NoReq
  /\ outcomes = [m \in Ids |-> <<>>]
  /\ remote = [m \in Ids |-> 0]
  /\ draft = [m \in Ids |-> NoDraft]

\* Mutant: TransferFrom keeps whatever the cache holds.
StartKeepingCache ==
  /\ pc = "start"
  /\ pc' = "loop"
  /\ UNCHANGED <<next, stopped, reqMap, reqSize, pending, outcomes, remote, draft>>

\* TransferFrom clears the cache before its loop.
Start ==
  /\ pc = "start"
  /\ pc' = "loop"
  /\ reqMap' = EmptyMap
  /\ reqSize' = 0
  /\ UNCHANGED <<next, stopped, pending, outcomes, remote, draft>>

\* Mutants: the loop runs one message past the end of the stream; the loop
\* does not check the stop flag.
LoopContinuesPastEnd == pc = "loop" /\ next <= NumMsgs + 1 /\ ~stopped
LoopContinuesIgnoringStop == pc = "loop" /\ next <= NumMsgs

\* The range loop takes the next message and goes on unless stopped.
LoopContinues == pc = "loop" /\ next <= NumMsgs /\ ~stopped

\* importDraft for a draft with n attachments: it fails before the draft
\* is created (parse, encrypt, create), or creates it and uploads
\* attachments in order until one fails to sign, encrypt or upload.
\* Uploaded attachments are not rolled back.
DraftReplies(n) ==
  {[created |-> FALSE, uploaded |-> 0]}
    \cup {[created |-> TRUE, uploaded |-> k] : k \in 0..n}

\* importDraft returns the draft ID only after the last attachment.
DraftOutcome(r, n) ==
  IF r.created /\ r.uploaded = n THEN "imported" ELSE "failed"

\* transferDraft: importDraft, then its outcome.  No other actor sees the
\* steps of importDraft in between, so the call is one step.
TransferDraft(m) ==
  /\ \E n \in 0..MaxAttachments : \E r \in DraftReplies(n) :
       /\ outcomes' = MessageImported(outcomes, m, DraftOutcome(r, n))
       /\ remote' = [remote EXCEPT ![m] = @ + IF r.created THEN 1 ELSE 0]
       /\ draft' = [draft EXCEPT ![m] = [attachments |-> n,
                                           uploaded |-> r.uploaded]]
  /\ UNCHANGED <<pc, reqMap, reqSize, pending>>

\* generateImportMsgReq fails: the parser returns an error, the parser
\* panics and parseMessage recovers it into an error, or BuildEncrypted
\* fails (a body that is already multipart/encrypted is passed through).
GenerateErrors == {"parseErr", "parsePanic", "encryptErr"}

\* Mutant: the item count is compared with > instead of ==.
NeedsFlushAfterMax(s) ==
  reqSize + s > MaxSize \/ Cardinality(DOMAIN reqMap) > MaxItems

\* The cache must be imported before a request of size s joins it.
NeedsFlush(s) ==
  reqSize + s > MaxSize \/ Cardinality(DOMAIN reqMap) = MaxItems

\* transferMessage up to its importMessages call.
TransferMessage(m) ==
  \/ /\ \E e \in GenerateErrors : outcomes' = MessageImported(outcomes, m, "failed")
     /\ UNCHANGED <<pc, reqMap, reqSize, pending, remote, draft>>
  \/ \E s \in Sizes :
       /\ NeedsFlush(s)
       /\ pc' = "flush"
       /\ pending' = [id |-> m, size |-> s]
       /\ UNCHANGED <<reqMap, reqSize, outcomes, remote, draft>>
  \/ \E s \in Sizes :
       /\ ~NeedsFlush(s)
       /\ reqMap' = (m :> s) @@ reqMap
       /\ reqSize' = reqSize + s
       /\ UNCHANGED <<pc, pending, outcomes, remote, draft>>

\* One iteration of the loop: isMessageDraft selects the path.
Receive ==
  /\ LoopContinues
  /\ next' = next + 1
  /\ TransferDraft(next) \/ TransferMessage(next)
  /\ UNCHANGED stopped

\* The rest of transferMessage: importMessages, then the new request joins
\* whatever the cache holds.
Flush ==
  /\ pc = "flush"
  /\ \E b \in ImportResults(Cache) :
       /\ reqMap' = (pending.id :> pending.size) @@ b.map
       /\ reqSize' = b.size + pending.size
       /\ outcomes' = b.outcomes
       /\ remote' = b.remote
  /\ pc' = "loop"
  /\ pending' = NoReq
  /\ UNCHANGED <<next, stopped, draft>>

\* The channel is drained, or a message arrives after the stop flag is set.
LoopExit ==
  /\ pc = "loop"
  /\ next > NumMsgs \/ stopped
  /\ pc' = "final"
  /\ UNCHANGED <<next, stopped, reqMap, reqSize, pending, outcomes, remote, draft>>

\* Mutant: TransferFrom returns without importing the last batch.
FinalFlushSkipped ==
  /\ pc = "final"
  /\ pc' = "done"
  /\ UNCHANGED <<next, stopped, reqMap, reqSize, pending, outcomes, remote, draft>>

\* After the loop: importMessages when the cache is not empty.
FinalFlush ==
  /\ pc = "final"
  /\ IF DOMAIN reqMap # {}
     THEN \E b \in ImportResults(Cache) :
            /\ reqMap' = b.map
            /\ reqSize' = b.size
            /\ outcomes' = b.outcomes
            /\ remote' = b.remote
     ELSE UNCHANGED <<reqMap, reqSize, outcomes, remote>>
  /\ pc' = "done"
  /\ UNCHANGED <<next, stopped, pending, draft>>

Pipeline == Start \/ Receive \/ Flush \/ LoopExit \/ FinalFlush

Next == Pipeline \/ Stop

\* The pipeline goroutine keeps running: every API call returns (the HTTP
\* client has timeouts) and the source closes its channel.  The stop flag
\* is set by the user, who is under no obligation to do so.
Spec == Init /\ [][Next]_vars /\ WF_vars(Pipeline)

(***************************************************************************)
(* Properties                                                              *)
(***************************************************************************)
Req == [id : Msgs, size : Sizes]

TypeOK ==
  /\ pc \in {"start", "loop", "flush", "final", "done"}
  /\ next \in 1..(NumMsgs + 1)
  /\ stopped \in BOOLEAN
  /\ DOMAIN reqMap \subseteq Ids
  /\ reqMap \in [DOMAIN reqMap -> Sizes]
  /\ reqSize \in Nat
  /\ pending \in Req \cup {NoReq}
  /\ outcomes \in [Ids -> Seq(Outcome)]
  /\ remote \in [Ids -> Nat]
  /\ draft \in [Ids -> [attachments : 0..MaxAttachments,
                        uploaded : 0..MaxAttachments]]

\* Bytes of the requests the cache holds.
BatchBytes == SumFunction(reqMap)

\* importMessages is about to send the cache to the API.
Submits == pc \in {"flush", "final"} /\ pc' # pc /\ ~stopped

(* Once the stop flag is set, no import call is made and nothing more is   *)
(* reported: the range loop (line 81) and importMessages (line 258) both   *)
(* read shouldStop before any import, so a message transferMessage took    *)
(* in before the stop only joins the cache.  A flush already under way     *)
(* when the flag is set runs to its end (the one-by-one loop does not read *)
(* the flag again), which the model counts as before the stop.             *)
NoImportAfterStop ==
  [][stopped => UNCHANGED <<remote, outcomes>>]_vars

(* Every bulk import request transferMessage and TransferFrom send holds   *)
(* at most pmapiImportBatchMaxItems requests and at most                   *)
(* pmapiImportBatchMaxSize bytes, unless it is a single request that is    *)
(* larger on its own.                                                      *)
SubmittedBatchWithinBounds ==
  [][Submits =>
       /\ Cardinality(DOMAIN reqMap) <= MaxItems
       /\ BatchBytes <= MaxSize \/ Cardinality(DOMAIN reqMap) <= 1]_vars

(* Unless the run is stopped, TransferFrom returns and every message the   *)
(* channel delivered has had its outcome reported to Progress, whichever   *)
(* path (draft, failed request, bulk, one-by-one) it took.                 *)
NoMessageLost ==
  <>(pc = "done" /\ (~stopped => \A m \in Msgs : outcomes[m] # <<>>))

(* messageImported is called at most once per message: a message whose    *)
(* outcome importMessages has reported is never submitted again.           *)
AtMostOneOutcome == \A m \in Msgs : Len(outcomes[m]) <= 1

(* The account never holds two copies of one source message: a message   *)
(* the bulk call created is not imported again alone, and a message a      *)
(* flush has imported is not sent to the API in a later batch.             *)
NoDuplicateInAccount == \A m \in Msgs : remote[m] <= 1

(* Requests a previous, cancelled run left in the provider's cache are     *)
(* never imported by this run nor reported to its Progress: TransferFrom    *)
(* clears the cache before reading the stream, and every later flush sees  *)
(* only this run's requests.                                               *)
NoStaleImport ==
  \A m \in StaleMsgs : remote[m] = 0 /\ outcomes[m] = <<>>

(***************************************************************************)
(* Refinement of TransferAbstract: read counts the messages taken from the *)
(* channel; a message is pending until its first outcome, and a second     *)
(* outcome is a status the abstract specification has no step to.         *)
(***************************************************************************)
AbstractStatus ==
  [m \in Msgs |->
     CASE m >= next                -> "unread"
       [] outcomes[m] = <<>>       -> "pending"
       [] Len(outcomes[m]) > 1     -> "reportedTwice"
       [] outcomes[m][1] = "failed" -> "failed"
       [] OTHER                    -> "imported"]

Abstract == INSTANCE TransferAbstract
              WITH read <- next - 1, status <- AbstractStatus,
                   cancelled <- stopped

(* The pipeline reads the stream in order, never after the stop flag is    *)
(* seen, and resolves each message read at most once.                      *)
RefinesAbstract == Abstract!Spec
=============================================================================
