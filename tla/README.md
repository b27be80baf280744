# Telesma: models, checks and proofs

Telesma is a desktop application for FIDO2 authenticators. A Go backend
(`service/`, `appconfig/`, `passkeydirectory/`, `internal/`) is called by, and
sends events to, a Svelte window (`frontend/src/lib`) through the Wails
runtime. The authenticators themselves are reached through
`github.com/telesma-app/kit`, which is not in the repository.

This directory holds TLA+ modules of the parts whose correctness depends on
the order of things, the configurations with which TLC checks them, and
proofs that TLAPS checks. `PROJECT.json` lists the runs, the theorems, the
hazards, and the lines of the source every definition stands for.

## 1. Inventory

| Component | State | Operations | What is hard | Status |
|---|---|---|---|---|
| Authenticator session: `service/{service,selection,discovery,operation_envelopes}.go` | gate, manager in use, selection, running operations, `closed` | Discover, SetSelection, SetEndpointSelection, ReconnectSelection, CancelOperation, every operation, one forwarder per manager, shutdown | RPCs, forwarders, operations and shutdown are goroutines; a replacement waits for operations, an operation may retire its own selection, shutdown meets a manager being opened | `SelectionService`, `SelectionLifecycle` |
| Interaction bridge: `service/service.go` | pending prompt of each operation | RequestInteraction, ResolveInteraction | rendezvous of two goroutines while either, or its operation, may be cancelled | `InteractionBridge` |
| Workbench session: stores of `frontend/src/lib` | session, status bar, prompt, retained inventories | discovery, progress and prompt events; calls and their answers; cancellation; navigation | every handler is cut at its awaits, and events and answers are not ordered with one another | `WorkbenchSession` |
| Reviewed mutations: `passkeys-controller.ts`, `confirmed-operation.ts` | mutation in the dialog, inventory, coroutines | load, select, preview, confirm, retry, close | destructive requests, late previews, retries of what may have been done | `PasskeyMutations` |
| Recovery of smart-card operations: `operation-recovery.ts` | the intent | offer, note removal, select again, retry, cancel | the user must take the card out and put it back; the window sees snapshots only | `OperationRecovery` |
| Preferences: `appconfig/`, `application-config.ts` | stores, queue of saves, file | load, first save, three setters | queue, failures, quits and crashes | `ConfigStore` |
| Replacement of files: `internal/atomicfile` | temporary file, target | WriteFile | crash or failure between any two calls | `AtomicFile`, `AtomicRegister` |
| Passkey directory: `passkeydirectory/`, its part of `passkeys-controller.ts` | catalogue in memory and in a cache file, the window's matches | lookup, refresh, parse | a mutex held over HTTP, failures and crashes between steps, a clock that moves, lookups that overtake each other, a map in random order | `PasskeyDirectory`, `PasskeyCatalog` |
| Log journal and its mirror: `logging.go`, `logs-controller.ts`, `features/logs` | records, cursor, selection | read, clear, append, select | overlapping reads and clears, limits on both sides | `LogMirror` |
| Window state: `internal/windowstate` | last normal size, state, file | three listeners, a hook at close, load | each event is a goroutine that reads a changing window by several calls | `WindowState` |
| Large blobs: `largeblobs-controller.ts`, `features/largeblobs` | array, open entry, passkey's blob, mutation | list, select, read, decode, check, reviewed writes, deletions and clean-ups | entries known by an index that changes, three screens that write the same array | `LargeBlobs` (partly) |
| Security screen: `security-controller.ts`, `features/security` | status, sensor, enrollments, mutation | loads, eight kinds of reviewed mutation, PIN | coroutines that load three resources one after another while the session changes | `Security` (partly) |
| Lab: `lab-controller.ts`, `features/lab` | one record of drafts, steps and results | preview, execute, verify, hand over | handlers that replace the whole record, one with what it read before its await | `Lab` (partly) |
| Start of the window, factory reset: `authenticator-controller.ts` | the wait for the first snapshot | bootstrap, rediscovery | the reset closes the authenticator under its own operation | rediscovery in `Security`, the start is not modelled |

Not modelled, and why: the kit is outside of the repository, and each module
says what it assumes of it; metadata and sources, and the verification of
WebAuthn responses, are calls of libraries that change no state of the
program; the presentation (`overview-*`, `*-presentation.ts`, formatting,
redaction, highlighting, the Svelte components beyond the guards of their
buttons) and the parsing of forms (`lab-input.ts`, `json-editor.ts`,
`largeblobs-payload.ts`) are pure functions from a value to another, where
nothing interleaves and where the repository's unit tests are the right tool;
window controls, clipboard and links are single calls of the runtime; bindings,
messages and packaging are generated or data. These are most of the lines of
the repository. The wait for the first snapshot (`bootstrapAuthenticatorSession`)
is one promise that one handler resolves.

How they interact: the window calls the service (`CancelOperation`,
`ResolveInteraction`, one call per operation) and awaits the answer; the service
emits `discovery-changed`, operation and prompt events without waiting. A
selection has an ID that the service makes; every operation envelope names the
selection it ran on, but no request does. Two modules therefore describe the
same events from both ends: `SelectionService` says what the service publishes,
and `WorkbenchSession` assumes of it only that operations end before their
selection is replaced unless the selection was given up, which is what
`SelectionLifecycle` states and `LifecycleImplemented` proves.

The hazards, each at its line, with the properties that cover it or the reason
why none does, are in `PROJECT.json`.

## 2. Modules

**SelectionLifecycle** is what callers may rely on: a selection is stopped,
its operations end, and only then another is activated; one whose authenticator
an operation found closed is given up, which nobody waits for; after shutdown
no selection appears.

**SelectionService** has one process per RPC, one per manager (its forwarder)
and one for shutdown, each with a program counter at the points where the code
locks, waits or calls the kit. `gate` is `selectionGate`, `selected` and
`devices` the fields of `Service`, `mgr`, `clientState` and `pending` the kit's
managers, their clients and their one-slot update channel. `cancelAndWait` is
`Await…` (cancel, remember who runs) and `Drain`/`…Drained`. Reductions, each of
which merges steps that no other goroutine can tell apart: taking the gate, the
second look at `closed` and the first section under `mu`; publishing a
snapshot, emitting it, starting the forwarder and releasing the gate. What is
assumed of the kit: a manager owns at most one open client, `Select` does not
wait for its reader, and closing a manager closes its clients and its channel.
The extra `!s.closed` tests of `reconcileSelection` and `ensureDeviceManager`
are in the model; by `StoppedStaysEmpty` the gate makes the first redundant.

**InteractionBridge** cuts `RequestInteraction` at the registration, the event
and the `select`, and `ResolveInteraction` at the deletion of the prompt and at
its own `select`; the unbuffered channel is a step of both. The `h.done` case
cannot be taken in `RequestInteraction` (its own operation ends only after it
returns). PIN bytes and their clearing are not modelled.

**WorkbenchSession** is the window as handlers between awaits, and the service
as far as the window sees it. Messages travel on `wire`; `Delivery` says which
may overtake which. Wails delivers events by one channel and answers of calls
by another, so nothing in the code orders an answer with an event or with the
answer of another call: what the passing runs show with `Delivery = "sent"`
holds for the order the service sends in. With `"lateResponses"`, where events
may overtake answers and answers one another, `LoadingHasLoad` still holds and
the other properties do not: they need that order. Prompts, progress, cancellation and the
operation life cycle are complete; of the inventories one stands for all, the
"other" screen loads nothing, attachments are one Boolean and there are no
smart cards here (they are in `OperationRecovery`).

**PasskeyMutations** follows `passkeys-controller.ts` through
`runConfirmedPreview` and `runConfirmedExecution`: what a coroutine captured
before its await is in `calls`, the store is `mutation`. The service runs a call
in one step (`Serve`), with any outcome, including a failure after the effect.
`previews`, `reviewed`, `executed` and the fields `begun` and `number` are
history. The skipped review of an unsupported authenticator is not modelled.

**OperationRecovery** has the kit (cards and keys that come, go and are opened,
the first device selected by itself), the service's selection, and the window's
intent, with snapshots in the order sent.

**AtomicFile** makes the calls of `WriteFile` one by one; each may fail, the
deferred `Remove` too, whose error nobody looks at; the process may end (`Kill`)
and the machine may crash (`Crash`) between any two. A crash tears what was not synced, and, because the directory is not synced, may
bring back any file the path named since the last one. **AtomicRegister** is the
promise: a write happens at one instant or not at all, and a crash leaves a
value the register has had. It is not durability: a write that had returned may
be undone by a crash (not by a quit). A temporary file may stay on the disk
(`litter`): after a call that failed and could not remove it, a call that was cut
off, or a crash, which may also bring one back. `TempIsAccounted` says that a
call which returns without an error leaves none; nothing removes those that
stay, which are harmless, for `CreateTemp` does not reuse a name.

**ConfigStore** extends `AtomicFile` with the window's stores, `saveTail`, and
starts that end at any moment. The mutex of `appconfig.Service` is the idle
writer. TOML is not modelled: a file that cannot be read or decoded is a load
that fails.

**PasskeyDirectory** is the service's lookup, cut where the server answers, the
clock moves or the application ends while the mutex is held, with the cache file
over restarts and crashes; and the window, whose `lookupID` tells an answer for
the inventory on the screen from one for an inventory that has gone. A data set
is its version. **PasskeyCatalog** is what is in a data set: entries are taken
in any order, one step each, as Go iterates over a map; a domain is the sequence
of its labels. Its properties compare the index and the search with a
definition that has neither index nor order (`Unusable`, `Closest`).

**LogMirror** has the journal with its limit and its announcements, the calls
that read and clear it, served and answered in any order or lost, and the
window's list with its limits in records and in bytes, cursor, selection and
runtime failures. `Bytes` is what it stores of each record; a record that is too
large by itself empties the list. `evicted` is history: the record that the list
evicted last since it was cleared.

**WindowState** has the window, which the user and the window manager change at
any time, a handler for each event cut at each of its calls, the close with its
hook, and the next start from the file. That the file may be written in one step
is what `RegisterImplemented` shows. `disturbed` is history: a handler recorded
a window that had changed since it began to read.

**LargeBlobs** keeps an array of targets with contents. What a coroutine read
before its await (index, credential, draft, the array's screen) is in `calls`.
Loads of the other screens and writes of the Lab are calls of their own, because
they hold the status bar or change the array; so is the deletion of a passkey,
which turns its entry into an orphan and leaves both stores alone
(`passkeys-controller.ts:410`; its preview and dialog are those of
`PasskeyMutations`). `deleted` is what was deleted of each authenticator.
`moved` is history: while an entry
was being read, the array was listed again and its row got another target.

**Security** writes each coroutine as steps from one await to the next
(`Awaits`): status, then the sensor, then what follows a change of the
configuration, which is where a selection or a boundary may come between. A
reset clears the window's session and asks for another manager. Always-UV stands
for all settings that are switched, one finger for all enrollments. `gaveUp` is
history: a rediscovery found nothing to restart.

**Lab** keeps of a run the selection it was made on; verification and the
derivation of a key are coroutines beside it.

The `MC…` modules give TLC symmetry, constants and instances. Several runs
cover instances of different shape: a variable (`shape`, `part`), set in the
initial state, says which one a behaviour is of, and an action constraint
(`Within`, `LabWithin`, `WindowWithin`, `SecurityWithin`) keeps it to the
bounds of that one. The state spaces add up instead of multiplying, and every
property is checked on all shapes unless its definition says on which.

## 3. Runs

| Run | Instance | Question |
|---|---|---|
| `selection_shapes` | 1 RPC, 1 manager with 2 authenticators, 2 operations, 2 selections; or 2 RPCs, 2 managers, no operation, 2 further updates | Does a replacement wait for operations, does the window know what is selected, is the selection of the manager in use, does no manager leak, is the lifecycle implemented? |
| `selection_restart` | 1 RPC, 2 managers, 1 operation that ignores cancellation, 3 selections (no behaviour uses a fourth), 1 further update | Restart and shutdown: nothing forgotten, nothing resurrected, both return |
| `selection_cancel` (violation) | 2 operations on one selection | Does `false` from CancelOperation mean that the operation is over? No |
| `interaction_bridge` | 2 operations, 2 prompts, 2 answers | Is an answer accepted exactly when it is used, and does nobody wait for ever? |
| `workbench` | 2 operations that overlap, with 2 selections; or 2 awaited one after the other, with 2 prompts, 4 snapshots and operations together, calls the runtime rejects; 3 messages in flight | Does the window come to rest with the session of the service, keep prompts and end its spinners? |
| `reselection` | recovery: 2 operations, 1 card, 1 key, 3 selections; security screen: 2 coroutines, 2 changes, or 1 with a failure, or another authenticator | Is a retry offered only after removal and reattachment, and always then? Does the security screen end its spinners and show what the authenticator holds? |
| `config_store` | 2 settings, 2 saves waiting, any number of starts | Is the file whole, with the last choice, and nothing else changed? |
| `passkeys` | 2 coroutines: answers in any order and half failures of 1 selection, or 2 authenticators in turn with answers in order | Is only what was reviewed written, and once; does nothing wait for an answer that does not come; is what is shown current when all is quiet? |
| `passkey_late_review` (violation) | 2 selections | Is the mutation in the dialog of the session? No |
| `large_blobs` | 1 credential beside an orphan, 2 contents, 2 coroutines: messages that overtake each other around 1 mutation, or 2 mutations, writes of the Lab or deletions of a passkey with 1 message at a time | Do all spinners end, and do the three screens show what the authenticator holds? |
| `app_services` | five parts: directory (2 lookups, 2 versions, interval 2 of 3 ticks), catalogue (up to 3 of 9 entries), log (3 records and 2 failures; 2 records in the journal, 2 records or 3 bytes in the list, where a command takes 1 and a failure 3 or 4), window (2 sizes, 2 handlers), Lab (2 selections, 2 runs) | Are lookups fresh, stored and for the inventory shown; does the order of a map matter; is the log's mirror right; does the window come back; are the Lab's results of its session? |
| `lab_handoff` (violation) | 1 run at a time, 2 selections, a derived key | Are the results on the Lab of the session? Not after a derivation |

The bounds are small where a third instance repeats the second: two operations
give one sibling, two managers one restart, two coroutines one overlap, two
sizes one change. Where a bound cuts behaviour (`MaxWire`, `MaxUpdates`,
`MaxPosts`, `MaxQueue`, `MaxSelections`, `MaxPreviews`, `MaxLookups`,
`MaxClock`, `MaxSequence`, `MaxPending` and their like) it stands in a guard and
only delays a message or ends the behaviour. `CHECK_DEADLOCK FALSE` is set where
a finite supply (selections, operations, snapshots, records) is used up;
`config_store` is checked for deadlock.

Every property has a mutant, a definition changed as a plausible bug would
change the code, that violates it under the same configuration.

### Fairness

`selection_restart` assumes that a goroutine that can go on does (weak), that
one that waits for the gate or for `mu` again and again gets it (strong: Go's
mutexes do not starve, and the gate is a channel whose waiters queue), that an
operation whose authenticator is closed returns, and one that heeds cancellation
returns when cancelled. It assumes nothing of the kit's updates and of the RPCs
that start. `interaction_bridge` assumes weak fairness of each goroutine that
can take a step, not of the user. `reselection` assumes of the recovery that
snapshots are delivered, that calls return, and strong fairness of opening and
selecting, because the bound on messages in flight may disable them again and
again. `config_store` assumes that the service and the file system go on while
the application runs, and nothing of the user.

The other runs check safety only and assume nothing.

### What the violations show

* `selection_cancel`: an operation that finds its authenticator closed retires
  the selection without its siblings, so that `CancelOperation` answers false
  for one that is still running, and the window says that it completed.
* `passkey_late_review`: a preview that returns after the session ended shows
  its review in the next session.
* `lab_handoff`: the hand-over of a derived key restores the Lab as it was before
  the derivation, with the results of an authenticator deselected meanwhile.

### What the passing properties except

Each exception is in the property, not in the model, and is a limit of the code
that was met while modelling:

* a restart that closes the manager and cannot open another publishes nothing
  (`selection.go:216`, `discovery.go:43`): nothing is selected, and the window
  goes on naming the selection that has ended (`WindowKnowsSelection`);
* a call of `WriteFile` that fails or is cut off may leave its temporary file for
  good (`write.go:25`, `TempIsAccounted`);
* messages in the order sent: with answers that overtake one another the status
  bar may keep a finished operation (`operation-controller.ts:13`), a report may
  fill the next inventory (`passkeys-controller.ts:142`), and reads of large
  blobs leave the older content (`SettledInOrder` is of one shape only);
* a large blob that is read late is shown for its index: if a clean-up has moved
  the rows meanwhile, in the row of another credential
  (`largeblobs-controller.ts:386`, excepted by `moved`);
* the deletion of a passkey invalidates neither store of the large blobs, as the
  Lab does (`lab-controller.ts:310`): its row and its blob stay on the screens
  until they are listed or looked at again (`Living` and `Gone` in `BlobsSettled`);
* with two operations at once the second envelope of a lost authenticator clears the
  session selected meanwhile, and the end of one takes the prompt of the other: both
  properties are of operations awaited one at a time (`SingleSessionAgrees`,
  `SinglePromptKept`);
* even then the answer to a prompt, or a cancellation, that comes back after its
  operation has ended clears the prompt of the next one
  (`interaction-controller.ts:22`, `operation-controller.ts:28`; `AnswerOfAnother`
  and `CancelReturns` in `PromptKept`);
* a card in a second reader counts as one put back (`operation-recovery.ts:46`,
  checked with one reader), and a second recovery offer forgets the first
  (`operation-recovery.ts:108`);
* a clear of the log whose answer is lost or overtaken (`clearLost`), a window
  changed under its handler (`disturbed`), and a reset whose selection was
  already given up (`gaveUp`), until the next event repairs them;
* after a failed call that had its effect, or one that failed beside a late list,
  nothing is read again (`SettledIsCurrent`, `SecuritySettled`).

## 4. Proofs

`SelectionServiceProofs` proves for any number of RPCs, managers,
authenticators, selections and operations:

* `ServiceType`: `Spec => []TypeOK`.
* `SelectionInvariant`: `Spec => []SelectionInv`. `SelectionFromCurrentManager`
  is not inductive: an update in the hands of a goroutine must be of its own
  manager, a forwarder must hold the gate when it applies one, and what is
  pending must be of its manager. `SelectionInv` is the conjunction of these
  parts (`GateExclusive`, `OwnManager`, `UpdatesFromManager`, …).
* `SelectionBelongsToManager`: hence `[]SelectionFromCurrentManager`.
* `NoOperationForgotten`: `[]NoForgottenOperation`, from `OperationInv`, which
  says where an operation that still runs is known: registered with the
  selection in use, awaited by a goroutine that is ending a selection, or of a
  selection that was given up.
* `LifecycleImplemented`: `Spec => ImplementsLifecycle`, every step maps to a
  step of `SelectionLifecycle` or to a stutter, with `OperationInv` for the step
  that activates a selection.

For the shutdown, `NoManagerIsLost` (`[]NoManagerLeak`) is inductive once it is
known that a forwarder only applies updates (`ForwarderPC`). `ShutdownIsFinal`
(`[]StoppedStaysEmpty`) follows from `ReachedInv`, what shutdown has reached at
each of its steps: from the moment it has detached the manager, nothing is
selected and nothing else is installed, and when it gives the gate back nobody
takes it any more. `WindowInformed` (`[]WindowKnowsSelection`) follows from
`PublishInv`: an applied update ends with a snapshot, and a teardown leaves no
manager, so the gate comes back with the window informed, or without a manager:
then `OperationInv` says that nothing runs on what the window still names.

`InteractionBridgeProofs`, for any number of operations, prompts and calls:
`WaitingAnswerable`, `RefusedOnlyIfTaken` and `MapHoldsRequests` are parts of
the inductive `IInv`, which adds that only prompts with an operation are known
or answered (`KnownPrompts`) and that a prompt takes one answer
(`ReceivedOnce`); `AcceptedExactlyIfUsed` follows from it.

`ConfigStoreProofs` is about both modules. For any number of writers and data,
`FileInv` says where a writer is from what is on the disk (`InStep`): its
temporary file exists, is complete, is synced, has got the real name. From it `PathNamesWholeFile`,
`LitterOnlyOfFailures` and `RegisterImplemented`: every call, failure, quit and
crash maps to a step of `AtomicRegister` or to a stutter. For any settings,
starts and length of the queue, `StoreInv` adds to `FileInv` that one save is at
the service at a time, none before the load, and the newest is last in the
queue. From it `ConfigWhole`, `LastChoiceIsSaved`, `UntouchedKept` (an action
property) and `ConfigIsRegister`.

`AppServicesProofs` is about the parts that `MCAppServices` checks side by side,
each for itself; `PartsKept` says that the composition keeps what is proved of
them:

* *The directory of passkeys*, for any number of lookups, versions and any
  interval: `DirectoryInvariant` (answers are fresh; memory is what is stored,
  because the mutex is held from the refresh to the answer: `MutexHeldBySent`)
  and `DirectoryFollowsReport`, from the fact that the lookup with the last ID
  captured the inventory on the screen (`LastLookupOfReport`).
* *The search in its data set*, for any domains, names and entries:
  `CatalogInvariant` (the index has for each domain that an indexed entry claims
  an entry of that name, and a data set is refused for a reason) and
  `CatalogAnswersClosest` (`[]CatalogAnswers`). What the loop over the parents of a
  domain returns is `Found` by least counterexamples: the shortest domain for which
  it were not would have a shorter parent (`LoopExists`, `LoopFinds`), and so for
  the matches of a list of any length (`ResultMatches`, `MatchOfName`).
* *The log*, for any limits and any order of serving and answering:
  `LogMirrored` (`[]LogInv`). `MirrorInv` orders the answers under way by what
  they tell of the journal, and says that a clear the window does not know of is
  in an answer before any read that starts after it (`ClearKnown`); so a read
  starts at or before the cursor, overlaps or continues what is shown, and only
  a truncated one leaves a gap. `EntriesAfterCursor` says what `AfterCursor`
  computes, `TotalIsSum` and `SumsGrow` what `TotalBytes` does, and `EndOfRange` that
  evicting the oldest of an unbroken range leaves an unbroken range; they argue with
  the least counterexample (`NatMin`, from the library's `WFMin`), which takes the
  place of an induction. `Evicted` and `Committed`: the list keeps its longest end
  that fits, so with the record evicted last before it, it does not fit, and as
  lists grow at their end (`BeginningFits`) it never will.
* *The window*, for any sizes, handlers and sessions: `WindowRestored`
  (`[]WindowComesBack`). `TrackerInv` says what a handler has already read: as
  long as the window has not changed since, its reads are what the window is
  (`ReadersCurrent`), and so is what is tracked (`TrackedCurrent`).
* *The Lab*, for any operations, calls and selections: `LabKeepsSession`
  (`[]LabInv`). Results belong to the session of the window because every
  successful answer arrives when the window has, by the messages before it, the
  session the result was made in (`LabView`).

`PasskeyMutationsProofs`, for any number of credentials, authenticators,
coroutines, previews and messages, delivered in any order: an answer under way
is the only one to its coroutine, which still awaits it (`AnswerAwaited`), and
the number of a preview is in one place, a coroutine or a dialog that may be
confirmed (`OnePlace`). With what coroutines ask for (`AskedAsShown`) that is
inductive (`DialogInv`), and gives `ReviewedOnce` (`WritesReviewedOnce`),
`DialogShowsRequest` and `DialogComesBack` (`MutationInv`). `InventoryIsCurrent`
(`[]SettledIsCurrent`) is about the shape with answers in order and failures
without effect. Its invariant `InTurnInv` compares each answer of a list under
way, and the inventory that is shown, with what the selected authenticator
holds: they are the same, or a later message makes them outdated (`Outdated`).
`IdsRight` says which selection the window will know when it handles a message,
which tells an answer of this session from one of the last.

`LargeBlobsProofs`, for any number of credentials, contents, coroutines, writes
and messages. In any order of delivery `BlobsInv` is inductive: what the stores
and the calls may be, that an answer under way is the only one to its call, of
the kind it asked for, and that whatever is shown as busy has its call
(`BlobsAreAwaited`, `[]BlobsWait`). For `BlobsEndRight` (`[]SettledInOrder`),
`TurnInv` is about the shape with one message at a time: what is shown of the
array, of an entry and of a passkey is what is stored, unless the message under
way ends the session or is the answer to a write, which makes the window read
again. A passkey that was deleted is none of the array's targets (`NoneDeleted`),
so nothing that is shown of another one is touched by its deletion (`Kept`).
That cleaning up an array removes what it should and keeps the rest
(`WithoutKeeps`, `WithoutHolds`) is shown by a least counterexample. The attempt
corrected the property: with two credentials a read that returns late may be
shown in the row of another, which the run's single credential could not show
(`moved`).

`WorkbenchSessionProofs`, for any number of operations, prompts, snapshots and
messages under way, proves everything the run checks. `TaskInvariant` (`TaskInv`:
one task, one call and one envelope of an operation) holds in any order of
delivery. With `Delivery = "sent"`, four more invariants follow the messages:
`ReportInv` compares the inventory with the *view of the wire*, the session the
window will have when the messages up to an envelope have been handled;
`AnnounceInv` and `PromptInv` say which messages of an operation may still come,
so that a prompt that is shown or answered is one the service has asked. Hence
`WorkbenchInvariant`, `NothingLeft` (any number of overlapping operations, if no
call is rejected), `IdleOfPair`, and for operations of which one is awaited at a
time, however many follow each other (`OneAwaited`; `NotLost`: none runs on a
selection given up before; `ViewAgrees`), `SessionOfOne` and `PromptOfOne`. The attempt corrected a property:
it had said that the report shown is that of the session even when the window
has no session, which three overlapping operations refute (the comment of
`ReportOfSession` says how).

`ReselectionProofs` is about the two that `MCReselection` checks side by side,
each for itself, and `BothKept` about the composition.

*The recovery of operations*, for any number of cards, keys, operations and
messages under way: `OfferIsAwaited` needs that an envelope under way is the
only one of its operation, which is still calling (`EnvelopeAwaited`).
`RetryNeedsRemoval` assumes one reader (`OneReader`). Its invariant,
`RemovalInv`, follows the snapshots through the wire: from the place where an
offer is or will be made, whoever sees another device selected than the card of
the offer knows that the card was removed since, and sees only later selections
(`LeftAfter`), and the window will by then have seen what is selected
(`LastSeen`).

*The security screen*, for any authenticators, coroutines, changes, failures and
messages under way: both properties of the screen. `ScreenInv` (an answer
on the wire is the only one of a call that is under way and was served:
`AnswersServed`) gives `SecurityWaitsForCalls`, and that the screen is never left
blank (`ScreenIsLoaded`). For `SecuritySettles`, `SettlingInv` says that there is
a function `V`, the session the window will have after each message on the wire,
such that (`AllRight`) the last session is the service's; and what is shown, or
is on its way to be shown, is what the authenticator holds, or a later message
clears it (`Cleared`: a snapshot of another session, a close, a reset), or a later
message makes the window read it again (`MutatedAfter`, `FingerChangedAfter`,
`Refreshing`). It is not enough that a mutation is on its way: it must find the
window attached, which then reads again (`MessageRight`). When nothing is under
way, only the first of these is left.

`V` has the domain `0..n`, and tlapm 1.4.5 hands its SMT solver an axiom that
gives whatever has a length the domain `1..Len`, which such a function contradicts
wherever a length is mentioned. The obligations of all modules were therefore run
through the solver again with that axiom limited to one direction, that of a
domain `1..n` which implies the length; what then needs the other direction is
about sequences alone.

Each step proof has one step for every action. The assumptions are the named
ASSUMEs of the modules: processes are different, marks such as `None` are none
of the values, bounds are natural numbers, and the parents of a domain are domains.

Every safety invariant that a run checks is proved. Only model-checked are the
liveness properties, which need fairness and ENABLED, out of the prover's reach:
`ShutdownCompletes` and `RestartReturns`, `WaitsEnd`, `SavesGoOn` and `OpeningEnds`.

## 5. Plan

1. *Compose:* `WorkbenchSession` with `InteractionBridge` (prompts of both
   ends) and with `OperationRecovery`; `Security` and `LargeBlobs` on one
   session.
2. *Model:* the start of the window, and the phases of an authenticator that
   lacks a feature ("unsupported").
3. *Prove:* that `WorkbenchSession` and `InteractionBridge` agree on prompts, once
   they are composed.
