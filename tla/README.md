# Model checking the Proton Bridge transfer pipeline

TLA+ models of the parts of this repository that have behaviour worth
exploring exhaustively, with the TLC configurations that check them. The
centre is the import of a message stream into a ProtonMail account,
`PMAPIProvider.TransferFrom` in `src/internal/transfer/provider_pmapi_target.go`.
It covers batching under item and size bounds, bulk import with one-by-one
fallback, drafts and cancellation. Around it are the application's crash
restart policy and single-instance lock (`internal/app/base`), log clearing
(`internal/logging/clear.go`), and the fake API the integration tests run
against (`test/fakeapi`).

Run everything from this directory:

    tlasany PMAPITarget.tla
    tlc -workers 2 -config MCPMAPITarget.cfg MCPMAPITarget

`PROJECT.json` lists the components, the runs, the mutants that show each
property can fail, the source lines each definition models, the findings, and
the hazards the properties are aimed at.

## 1. Inventory

### Components, their state and their operations

| Component | Source | State | Operations |
|---|---|---|---|
| Transfer pipeline | `transfer/provider_pmapi_target.go` | `importMsgReqMap` (message ID → request), `importMsgReqSize` (byte counter) | `TransferFrom`, `transferDraft`, `transferMessage`, `importMessages`, `importMessage` |
| Request building | same file | none (pure) | `isMessageDraft`, `generateImportMsgReq` (label list), `computeMessageFlags`, `parseMessage` (panic recovery), `encryptMessage` (pass-through of encrypted bodies) |
| Draft path | same file | the draft created remotely | `importDraft`: parse, encrypt, create draft, then sign, encrypt and upload each attachment |
| Mailbox creation | same file | the mailbox's remote ID | `CreateMailbox` (refuses a mailbox that already has an ID), `DefaultMailboxes` |
| Progress | not in this tree (specification §4.3) | stop flag, outcome per message | `shouldStop`, `messageImported`, `callWrap` |
| Crash restart policy | `app/base/base.go`, `app/base/restart.go` | `--restart N` in the process arguments, `Base.restart` | crash recovery action, `restartApp`, `incrementRestartFlag`, `SetToRestart` |
| Log clearing | `logging/clear.go` | files in the log directory | `clearLogs` (recursive), `removeOldLogs`, `removeLog` |
| Version removal | `versioner/remove_default.go` | installed versions | `RemoveOldVersions`, `RemoveOtherVersions` |
| Fake API (test double) | `test/fakeapi/user.go`, `counts.go` | key rings, address order, address events, messages | `Unlock`, `ReloadKeys`, `ReorderAddresses`, `getCounts` |
| Bootstrap, frontend, config and glue | `app/base/base.go` (`New`), `frontend/frontend.go`, `cmd/…/main.go`, `pkg/*`, `config/tls`, `keychain` | files, locks, clients | one-shot initialisation and dispatch |

### How the components interact

- `TransferFrom` runs on one goroutine and ranges over a channel filled by a
  source provider. For each message it checks `progress.shouldStop()` and
  uses `isMessageDraft` to choose a path. Drafts go to `transferDraft`, which
  reports one outcome. Other messages go to `transferMessage`. It builds a
  request, flushes the cache through `importMessages` when the new request
  would break a bound, then adds the request to the cache. After the loop,
  a non-empty cache is flushed.
- `importMessages` checks `shouldStop()`, then sends the whole cache in one
  API call. If that call fails or returns no result, it imports every
  message alone (`importMessage`, wrapped in `progress.callWrap`) and
  *returns early*. If the call returns per-item results, it imports the
  failed items alone and then clears the cache.
- Progress is shared with the owner of the run (the GUI or CLI), which may
  set the stop flag at any moment. This is the only concurrency the
  pipeline sees.
- The crash handler of `Base.run` calls a recovery action that restarts the
  process with an incremented `--restart` flag, up to `maxAllowedRestarts`.
  The new process reads the flag back and, in `base.New`, takes the
  single-instance lock file. The old process releases it in a deferred
  `Lock.Close`. A restart asked for with `SetToRestart` starts the new
  process from inside `run`, before that deferred call.
- At start-up `clearLogs` prunes the logs directory. It first recurses into
  the per-version subdirectories older releases left there.
- The fake API's `Unlock` walks the address list in its current order, and
  `ReorderAddresses` changes that order.

### Behaviours that are hard

- The stop flag can be set between any two steps of the pipeline. The loop
  and `importMessages` each check it once.
- Each API call can fail in its own way. The bulk call can return an error,
  no results, or a mix of per-item errors. The one-message call can return
  an error, no result, or a refusal.
- The fallback and retry paths reuse the cache, and whether the cache is
  cleared depends on which path ran.
- Bounds matter at their edges: a batch that is exactly full, and a single
  request larger than the size bound.
- A restart count is carried across process restarts in the command line.
- Two processes of the application compete for one lock file during a
  restart.
- Directory reads and file removals may fail part-way through a recursive
  walk.

### What makes each component correct

- Pipeline: every submitted batch is within the bounds, except for a
  single oversize request. Every message is reported at most once, and
  exactly once unless the run is stopped. Nothing is read or reported out of
  stream order, and nothing is read, imported or reported after the stop.
- Request building: the labels are the targets without All Mail, plus the
  global mailbox. The flags follow the specification's rules.
- Restart policy: at most `maxAllowedRestarts` crash restarts, with the
  counter advancing on every crash.
- Log clearing: the newest `maxLogs` of each kind are kept, and no non-log
  file is removed. When `clearLogs` returns nil, every directory it read is
  pruned.
- Fake API: an account that reports itself unlocked has every address key
  ring, and a reorder gives the requested order with consistent `Order`
  fields and events.

## 2. Modules

| Module | Models | Composes |
|---|---|---|
| `TransferAbstract` | What a run promises: messages read in order, each resolved at most once to imported or failed, and nothing read after cancellation | – |
| `PMAPITarget` | `TransferFrom` and everything it calls that changes state, with Progress modelled from the specification | instantiates `TransferAbstract` as `Abstract` |
| `MCPMAPITarget` | constants for TLC: 4 messages, sizes {1,2,4}, batches of at most 2 items and 3 units | extends `PMAPITarget` |
| `ImportRequest` | `isMessageDraft`, the label list of `generateImportMsgReq`, `computeMessageFlags`, and reference definitions from the specification | – |
| `MCImportRequest` | 5 system labels plus 2 custom labels, one of them also the global mailbox; every target list of length ≤ 3 | extends `ImportRequest` |
| `RestartFlag` | `incrementRestartFlag` as a recursive operator, and how the next process parses `--restart` back | – |
| `RestartPolicy` | the chain of processes of one launch: `base.New` and the lock, `Base.run`'s crash recovery, exit and requested restart, the deferred `Lock.Close` | instantiates `RestartFlag` as `Flag` on the newest process's arguments |
| `LogClearing` | `clearLogs`, `removeOldLogs` and `removeLog` over a logs directory with legacy subdirectories, with failing reads and removals | – |
| `FakeAPI` | `Unlock`, `ReloadKeys` and `ReorderAddresses` of the fake API | – |
| `FakeAPICounts` | `getCounts` (behind `CountMessages` and `getAllCounts`) against a reference count | – |
| `MCFakeAPI` | one fake server: four addresses, one without keys, and message lists of up to two messages | extends `FakeAPI`, instantiates `FakeAPICounts` |

### PMAPITarget: state and actions against the code

| Variable | Code |
|---|---|
| `pc` | where the goroutine is: just entered `TransferFrom` (`"start"`), in the range loop, inside the `importMessages` call of `transferMessage` (`"flush"`), after the loop, or returned |
| `next` | the next message the channel delivers (messages are `1..NumMsgs`) |
| `stopped` | the Progress stop flag |
| `reqMap`, `reqSize` | `p.importMsgReqMap` (ID → body size) and `p.importMsgReqSize` |
| `pending` | the request `transferMessage` holds while its flush runs |
| `outcomes` | the sequence of `messageImported` calls per message |
| `remote` | copies of each message created in the account (the API's state) |
| `draft` | for a draft: how many attachments it has and how many `importDraft` uploaded |

| Action | Code |
|---|---|
| `Start` | lines 75-78: the cache is cleared before the loop |
| `Receive` | one loop iteration (lines 80-90): `TransferDraft` (lines 106-156), or `TransferMessage` (lines 158-171) up to its flush decision |
| `Flush` | the `importMessages` call inside `transferMessage` and the insertion after it (lines 166-170) |
| `LoopExit` | channel closed, or a message seen after the stop (the `break`) |
| `FinalFlush` | lines 92-94 |
| `Stop` | the owner sets the stop flag |

`importMessages` is an operator from the cache to the state it leaves.
`ImportOneByOne` is lines 272-280, including the early return that keeps the
cache. `ImportWithResults` is lines 282-296, including the clear.
`ImportResults` ranges over every reply the API may give. A flush is one
step: the goroutine checks the stop flag only at its start, so setting the
flag during the flush is equivalent to setting it after. `transferMessage`
checks the stop flag twice (loop, then `importMessages`), so it is split at
the flush. That lets the stop fall between the two checks.

Message content is abstracted to what the control flow distinguishes. The
model keeps whether the message is a draft, which of the three build errors
occurs (parse error, recovered parser panic, encryption error), and the size
of the encrypted body. Replies of the API are nondeterministic: per item
`ok`/`refused` for the bulk call, plus an error and an empty list when
`BulkCallMayFail`, and a list covering only a proper subset of the batch
when `ResultsMayBeShort` (which subset depends on Go's map iteration order,
so any one may be). A one-message import gets `ok`, `refused`, `noResult` or
`transportErr`; the last is returned to `callWrap`, which, as the
specification's §4.3 describes it, records it as the message's failure. A draft has up to `MaxAttachments` attachments. It fails
before the draft is created, or the draft is created and its attachments
are uploaded in order until one fails to sign, encrypt or upload
(`DraftReplies`); what was uploaded stays. `DraftOutcome` returns the ID
only after the last attachment. `importDraft` is one step: it never checks
the stop flag, and no other actor sees its intermediate states.

`Init` is the provider as `TransferFrom` finds it. `StaleMsgs` are IDs a
previous run, cancelled between flushes, may have left in
`importMsgReqMap` (`importMessages` returns at once when stopped, so the
cache is not emptied; the map names those lines for `Init`). `Start` is the
reset the code's comment gives as the reason for lines 77-78.

A flush is one step. The one-by-one loop does not read the stop flag, so a
stop set while a flush runs takes effect after it; the specification's
rule (§4.3) that no per-message import starts after a stop is therefore
not modelled inside a flush, and `NoImportAfterStop` counts such a flush
as finished before the stop.

The refinement mapping gives `read = next - 1`. A message's status is pending
until its first outcome, imported or failed by that outcome, and
`"reportedTwice"` after a second one. The abstract specification has no step
to that last status, so a duplicate report breaks the refinement.

### RestartFlag and RestartPolicy

`RestartFlag` models an argument as a record: the executable, `--restart`,
a boolean flag such as `--cli`, a string flag such as `--log-level`, a
decimal number, or a word that is not a number. Which flags take a value
(`TakesValue`) follows the flag set `NewApp` declares (`base.go` 253-284):
`cpu-prof`, `mem-prof` and `cli` are boolean, `log-level`, `restart` and
`launcher` are strings. `strconv.Atoi` and `Itoa` become the field `n`. `Bump` is the new
value after a `--restart`, and `IncrementRestartFlag` is the range loop.
The loop reads `res[k]` after earlier iterations rewrote it, so a
`--restart` that was itself a flag's value has become a number by its turn.
When the flag is absent, `--restart 1` is appended. `ParseFlags` is the
reading side, which lives in urfave/cli and Go's `flag` package, not in
this tree. Flags are parsed left to right, a string flag takes the next
argument, the last occurrence wins, and parsing stops at a positional
argument or errors on a flag with no value. The `--restart=<n>` form is
left out: nothing in the application writes it.

| Variable | Code |
|---|---|
| `cur` | the newest process of the chain: where it is (`starting`: before `base.New` has taken the lock; `running`; `exited`; `refused`: `New` found the lock held and returned nil), its `os.Args`, and who started it (the user, a crash restart, a requested restart) |
| `prev` | `closing` while the process that asked for a restart has not yet run its deferred `Lock.Close` |
| `lock` | which process holds the single-instance lock file |
| `requests` | `SetToRestart` calls so far (bounded by `MaxRequests`) |
| `crashes` | crash restarts of the chain so far (a history variable: the code keeps no such count; the restart count is what the next process reads back from its arguments) |

| Action | Code |
|---|---|
| `NewBase` | `base.New` (`base.go` 87-244): an error before or after the lock (the process exits and the OS drops the lock), the lock held (`already running`), or the lock taken |
| `MainLoopPanics` | a panic in `appMainLoop`: the deferred `Lock.Close` (line 302), then `HandlePanic` and the recovery action (lines 325-336), which restarts unless `c.Int("restart") > maxAllowedRestarts` |
| `MainLoopExits` | `appMainLoop` returns with no restart asked for, or it or `doTeardown` fails |
| `RequestedRestart` | `SetToRestart`, then `restartApp(false)` at line 351, before `run` returns |
| `ParentCloses` | that process's deferred `Lock.Close` |

`Spawn` is `exec.Command(...).Start()` for the next process. It either
starts the process or fails, in which case the chain ends. `Init` is any
command line of up to `MaxArgs` arguments that the flags accept (`Launch`).
A line they reject ends in `app.Run` before `base.New`. A string flag's
value at launch is a word, as a user would type it. `PositionalArgs`
decides whether the launch line may contain a positional argument: the
application declares none, but urfave/cli accepts one and stops reading
flags there.

### LogClearing

An entry is a record: its directory (a path, `<<>>` for the logs directory),
its name, and its kind. The kind is `log` or `crash` (what `matchLogName`
and `matchStackTraceName` accept, neither in this tree), `other` (a file
they reject), or `dir`. Names are numbers. Their order is the one that
`sort.Strings` and `ioutil.ReadDir` give. `ClearLogs` is a recursive
operator returning the error flag and the entries left. It walks the
subdirectories in name order, returns at the first error (line 50), and
then runs `RemoveOldLogs` for logs and then crash dumps. `RemoveOldLogs`
removes the `count - maxLogs` first names, apart from those whose
`RemoveAll` fails (the error is only logged). The single action `Clear` is
the start-up call. It chooses which directories cannot be read and at most
one removal that fails.

### FakeAPI and FakeAPICounts

`addresses` is `*api.addresses`, a sequence of IDs with their `Order`.
`userKR` and `addrKR` are the key rings that are set. `lastEvent` is the
`Order` carried by each address's latest update event. `Unlock` returns nil
at once when the user key ring is set (line 37). Otherwise it sets that key
ring and then walks the addresses in order. It skips addresses with missing
keys and ones already unlocked, and the first address whose keys fail ends
the call with an error. `ReloadKeys` is `UpdateUser` (only a recorded call)
followed by `Unlock`. `ReorderStep` is one iteration of the reorder loop:
find the wanted address (index 0 when no address has the ID), swap it into
place, number it, and queue its event. `checkAndRecordCall` may fail a call
before it changes anything. That is a stuttering step. `FakeAPICounts`
folds over the message list with `SelectSeq` and `FoldLeft`, as `getCounts`
does.

## 3. Runs

| Run | Config | Expect | What it shows |
|---|---|---|---|
| `pmapi_transfer` | `MCPMAPITarget.cfg` | pass | Here the bulk call always answers per item. Every submitted batch is within bounds (`SubmittedBatchWithinBounds`). The run refines `TransferAbstract`: read in order, never after the stop, each message resolved at most once. The account never gets two copies of a message (`NoDuplicateInAccount`). Unless stopped, the run ends with every message reported (`NoMessageLost`). A request left in the cache by a cancelled earlier run is neither imported nor reported (`NoStaleImport`). Once the stop flag is set nothing is imported or reported (`NoImportAfterStop`). |
| `pmapi_transfer_fallback` | `MCPMAPITargetFaulty.cfg` | pass | The bulk call may fail or answer with nothing. The fallback still reports every message at least once (`NoMessageLost`). |
| `pmapi_duplicate_outcome` | `MCPMAPITargetDuplicate.cfg` | violation | `AtMostOneOutcome`: after a failed bulk call the cache is resubmitted and its messages are reported again. |
| `pmapi_batch_overflow` | `MCPMAPITargetOverflow.cfg` | violation | `SubmittedBatchWithinBounds`: after a failed bulk import the cache keeps its requests, an oversize request is added on top of them, and the next flush submits a batch over the size bound. |
| `import_request` | `MCImportRequest.cfg` | pass | For every target list that `isMessageDraft` sends down the import path, the label set and the flags match the reference definitions (`RequestMatchesReference`). |
| `restart_policy` | `MCRestartPolicy.cfg` | pass | From every accepted command line of up to five arguments, with `maxAllowedRestarts = 10` and up to two requested restarts, two things hold. A crash restart is never refused by the lock (`NoCrashRestartRefused`). Each command line in the chain is rewritten into an accepted one that reads back one restart higher (`RestartCountAdvances`). |
| `restart_budget` | `MCRestartPolicyBudget.cfg` | violation | `CrashRestartsWithinBudget`: the application restarts itself after a crash 11 times, where the comment on `maxAllowedRestarts` says it gives up after 10 crashes. |
| `restart_refused` | `MCRestartPolicyRefused.cfg` | violation | `NoRestartRefused`: the process started by a requested restart finds the lock still held and exits as "already running". |
| `restart_positional` | `MCRestartPolicyPositional.cfg` | violation | `CrashRestartsBounded` (the weaker bound `maxAllowedRestarts + 1` the code's test gives): launched with a positional argument (`exe 0`), every crash appends or bumps `--restart` after the point where flag parsing stops, so each new process reads a count of 0 and crash restarts never end. |
| `log_clearing` | `MCLogClearing.cfg` | pass | No non-log entry and none of the newest `maxLogs` of a kind is removed (`KeepsNewestAndForeign`). When `clearLogs` returns nil, every directory it read is pruned, apart from failed removals (`PrunedWhenOK`). |
| `log_clearing_legacy` | `MCLogClearingLegacy.cfg` | violation | `RootPrunedDespiteLegacyDirs`: an unreadable legacy subdirectory stops the logs directory itself from being pruned. |
| `fakeapi` | `MCFakeAPI.cfg` | pass | Unlock returning nil means every address with keys has a key ring (`UnlockedMeansAllAddressKeys`). A reorder by any order of the addresses gives that order, with matching `Order` fields and events (`ReorderedAsRequested`). `getCounts` matches the reference (`CountsMatchReference`). |

Each property of a passing run has a mutant in `PROJECT.json`. A mutant is
a plausible bug in the code it models, and TLC finds that property violated
with it:

- `NeedsFlush` compared with `>` instead of `==`.
- The flush after the loop forgotten.
- The loop not checking the stop flag.
- The loop running one message past the end.
- The fallback reporting only successes.
- The Inbox case missing from `computeMessageFlags`.
- `incrementRestartFlag` stopping after the first `--restart`.
- The recovery action running before the lock is closed.
- `removeOldLogs` removing one too many or one too few.
- `Unlock` not skipping, or stopping at, an address with missing keys.
- The reorder event queued before the swap.
- `getCounts` counting every later message as unread.
- `TransferFrom` not clearing the cache it finds.
- `importMessages` without its stop check.

### Findings

1. **Resubmission after a failed bulk import** (line 279). The fallback
   returns before the cache is cleared. The next flush imports and reports
   the same messages again, and the cache grows past both bounds. Once it
   holds more than `pmapiImportBatchMaxItems` entries, the test
   `len(map) == pmapiImportBatchMaxItems` can no longer fire. The
   specification says the batch is cleared after every flush attempt.
2. **Oversize batch after a failed bulk import** (line 279). The same
   early return keeps the old requests and their size, and
   `transferMessage` adds the new request on top (line 170). A request
   that was flushed because it did not fit is submitted together with the
   old ones, over `pmapiImportBatchMaxSize`.
3. **One crash restart more than the comment says** (`base.go:331`). The
   recovery action restarts unless `c.Int("restart") > maxAllowedRestarts`.
   The count starts at 0, so the process carrying `--restart 10` still
   restarts: 11 restarts, where the comment on `maxAllowedRestarts` says
   the application gives up after 10 crashes.
4. **Unbounded crash restarts after a positional argument**
   (`restart.go:75`). `incrementRestartFlag` appends `--restart 1` at the
   end of the arguments, or bumps the value in place. urfave/cli stops
   reading flags at the first positional argument, so a process launched
   with one never reads the count back: `c.Int("restart")` is 0 in every
   process and the recovery action restarts forever.
5. **Requested restart refused** (`base.go:351`). `restartApp(false)` starts
   the new process before `run` returns, and only then does the deferred
   `Lock.Close` run. A new process that reaches `CreateLockFile` first
   reports "already running" and exits, and the application does not come
   back. The window is short, because the new process first sets up
   logging and locations. A crash restart is safe, because its
   `Lock.Close` runs before `HandlePanic` (`NoCrashRestartRefused` holds).
6. **Legacy directory blocks pruning** (`clear.go:49`). An error from a
   legacy subdirectory is returned before the logs directory's own logs and
   crash dumps are pruned. A directory that stays unreadable stops pruning
   on every start.

The resubmission of finding 1 also creates each message again in the
account (`NoDuplicateInAccount` fails under `MCPMAPITargetFaulty.cfg`'s
constants). The finding's violation run checks the outcome side.

Three more disagreements show up when the model's fault switches are turned
on. No run keeps them, and `PROJECT.json` lists each as a hazard with a
note:

- Result lists shorter than the batch (`ResultsMayBeShort`) drop the
  uncovered messages, and whether the API can return one is not in this
  tree.
- In the fake API, an address key that fails to unlock (`BrokenKeys`)
  leaves a later `Unlock` returning nil with addresses still locked.
- A reorder request with an unknown ID (`UnknownIDs`) gives two addresses
  the same `Order`.

The tests never drive the fake into either of the last two cases.

One more path loses a requested restart: `run` returns `doTeardown`'s
error before it reads `b.restart` (`base.go:346`). `RestartPolicy` has the
step (`MainLoopExits`), but `restart_refused` already shows the lock race
for the same property, and the teardown actions are registered outside
this tree, so it is listed as a hazard with a note.

### Bounds and why they are enough

The code's bounds are scaled down to `MaxItems = 2` and `MaxSize = 3`. Body
sizes are {1, 2, 4}: 1+1 fills a batch by count, 2+2 overflows it by size,
and 4 exceeds the bound alone. With 4 messages there are two full batches,
a trailing partial batch, and the stop between any two steps. Every
one-message reply occurs. A draft has up to 2 attachments, so it can fail
at the first or at the second, and one stale request (ID 5) of each size
may be in the cache at the start (about 124,000 states, 20 s).

The fallback runs use 3 messages (`pmapi_transfer_fallback` reaches about
82,000 states in about two and a half minutes with lost responses on),
no attachments, no stale cache, and two one-message replies. A failed bulk
call resubmits whole batches, and each resubmission branches over the
replies for every message in it. Three messages are enough to fill a batch,
fail it, and submit it again with a third message inside.

`ImportRequest` enumerates all 800 pairs of a target list of length ≤ 3
over 7 labels and a global mailbox (none, or one of the custom labels).

The other modules use these bounds:

- **`RestartPolicy`**: `maxAllowedRestarts` is the code's 10, so the chain
  runs its full length. The launch enumerates every accepted command line
  of up to five arguments with numbers up to 2. That includes two
  `--restart` flags, a `--restart` whose value is `--restart`, a
  non-numeric value, and (in `MCRestartPolicyPositional.cfg`) a single
  positional argument. `Launch` gives `--log-level` and `--launcher` a
  word as their value, as a user or the launcher writes them, so a line
  like `exe --log-level --restart` is not launched: there the `--restart`
  is the level, `incrementRestartFlag` counts it as the flag and appends
  nothing, and the count would never advance. Two requested restarts let
  a requested restart follow another and carry the same count on. The
  refused and budget runs launch with no arguments.
- **`LogClearing`**: `maxLogs = 1`. The logs directory has up to three
  entries of any kind, and each legacy subdirectory up to two files, so
  there is a kind with more than `maxLogs` entries in both. Every set of
  unreadable directories and every single failing removal is tried.
- **`MCFakeAPI`**: four addresses, one without keys, under all 24 orders,
  plus every message list of up to two messages over two addresses and two
  labels. Two messages are enough for a label to be counted by both the
  create path and the increment path of `getCounts`.

### Fairness

`Spec` has weak fairness on the pipeline's actions and none on `Stop`. The
pipeline is one goroutine that never waits on another actor except the
source channel and the API. The properties assume the source eventually
closes the channel. The HTTP client's timeouts make every API call return.
Nobody has to press stop.

`RestartPolicy` has no fairness and no liveness property: that crash
restarts end is stated as the safety bounds `CrashRestartsWithinBudget` and
`CrashRestartsBounded` on the history variable `crashes`. The other modules check only
invariants.

`CHECK_DEADLOCK FALSE` is set only where the system stops:

- `TransferFrom` returns, so its final state has no successor.
  `NoMessageLost` checks that the final state is reached.
- The restart chain ends when its last process exits.
- `clearLogs` is called once at start-up.

## 4. Plan

Items 1-3, 6, 7, 9 and 11 are done. Item 4 is partly done, and item 8 was
looked at and left out.

1. `PMAPITarget` + `TransferAbstract`: the pipeline and its refinement.
2. `ImportRequest`: the pure request-building functions.
3. Violation runs for the findings above.
4. API fault switches in `PMAPITarget`:
   - Result lists shorter than the batch: modelled (`ResultsMayBeShort`).
     Longer lists, which panic at line 284, are still open.
   - A bulk call that fails after importing part of the batch: modelled.
     Under `BulkCallMayFail` an error reply carries the subset the server
     applied (`applied`), which the one-by-one fallback then imports again.
5. Mailbox creation, together with the rule layer that calls
   `CreateMailbox`: not done. That layer is not in this tree, and
   `CreateMailbox` alone is one guarded call.
6. `RestartFlag` and `RestartPolicy`.
7. `LogClearing`.
8. `Versioner`: not modelled (see §5).
9. `FakeAPI` and `FakeAPICounts`.
10. Next:
    - Duplicates caused by lost responses, once finding 1 no longer
      masks them (`NoDuplicateInAccount` fails first through finding 1).

11. The draft path with its attachments, and the cache left by a
    cancelled earlier run (`Start`, `NoStaleImport`).

## 5. Not modelled, and why

- **Bootstrap** (`base.New`, `main`): one-shot initialisation of files,
  keychain and clients. `RestartPolicy` keeps only what `New` decides about
  the process: an error exit, "already running", or the lock taken.
- **Frontend selection** (`frontend/frontend.go`): a stateless switch on a
  string that builds one of the frontends; nothing of it changes state.
- **Version removal** (`versioner/remove_default.go`): `ListVersions` and
  every caller are outside this tree. The test shows `ListVersions` returns
  newest first, and then `RemoveOldVersions` keeps `versions[0]` and removes
  the rest, logging each error: one loop with no interleaving or state a
  model checker would add anything to.
- **Log file names**: `matchLogName`, `matchStackTraceName` and the name
  format are outside this tree. `LogClearing` takes name order as age
  order, as the comment at `clear.go:71` does; the hazard list notes what
  happens if the format breaks that.
- **Mailbox creation** (`CreateMailbox`, `DefaultMailboxes`): the rule layer
  that decides when to create a mailbox is not in this tree.
- **Configuration, constants, TLS certificate commands, keychain helper
  registration, IMAP worker constants, store factory**: values and external
  commands, with no behaviour.
- **Message parsing and encryption** (`pkg/message`, gopenpgp): the
  libraries are not in this tree. Their effect is reduced to success or one
  of the errors. The parser panic recovered by `parseMessage` is one of
  those errors.
- **Progress**: not in this tree. Its stop flag and outcome log are modelled
  from the specification. `callWrap` is taken as §4.3 describes it: it runs
  the callback once and records a returned error as the message's failure.
- **Fake API reads**: `GetMailSettings`, `IsUnlocked`, `CurrentUser`,
  `GetAddresses` and `KeyRingForAddressID` only read state.
