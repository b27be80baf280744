----------------------------- MODULE LargeBlobs -----------------------------
(***************************************************************************)
(* The large blobs of an authenticator (largeblobs-controller.ts,          *)
(* features/largeblobs/state.ts): the array and the entry selected in it   *)
(* on a screen of their own, the blob of a passkey on the screen of the    *)
(* passkeys, and reviewed writes, deletions and clean-ups from both.  An   *)
(* entry is known by its index, which is only good until the array         *)
(* changes; a passkey is known by its credential.  The Lab writes blobs    *)
(* too (lab-controller.ts), and a passkey that is deleted leaves its blob  *)
(* behind (passkeys-controller.ts).                                        *)
(*                                                                         *)
(* The previews and executions are those of confirmed-operation.ts, as in  *)
(* PasskeyMutations; a request is run on the selection the service has.    *)
(***************************************************************************)
EXTENDS Naturals, Sequences, SequencesExt

CONSTANTS
  Credential,          \* targets of an entry
  Content, Empty,      \* what a blob may hold, no bytes among it
  Token, Arrays,       \* authenticators, and the array each of them may start with
  BlobCall,            \* coroutines of the window under way at one time
  InOrder,             \* messages reach the window in the order sent
  MaxSelections,       \* bound: selections made
  MaxWire,             \* bound: messages under way
  MaxPreviews,         \* bound: previews, writes of the Lab and passkeys deleted
  MaxEntries,          \* bound: entries of an array
  None

ASSUME BlobsAssumption ==
  /\ InOrder \in BOOLEAN /\ MaxSelections \in Nat /\ MaxWire \in Nat /\ MaxEntries \in Nat
  /\ MaxPreviews \in Nat
  /\ Empty \in Content
  /\ None \notin Credential \cup Content \cup Token
  /\ \A a \in Arrays : a \in Seq([target : Credential \cup {None}, content : Content])

VARIABLES
  \* Window
  session,  \* its selection: id, 0 if none; attached
  stores,   \* the stores of features/largeblobs/state.ts
  screen, busy,
  calls,    \* what each coroutine captured before its await
  \* Service and authenticators
  service, made, arrays,
  deleted,  \* the passkeys that were deleted from each authenticator
  wire,     \* snapshots and answers on their way to the window
  \* History
  previews, \* previews, writes of the Lab and deletions so far
  moved     \* an array was listed that has another target where one was being read

serviceVars == <<service, made, arrays, deleted>>
history == <<previews, moved>>
blobVars == <<session, stores, screen, busy, calls, serviceVars, wire, history>>

-----------------------------------------------------------------------------
(* The stores.  An index is counted from 1, and 0 is none.                  *)

Idle == [phase |-> "idle"]
At(phase, index) == [phase |-> phase, index |-> index]

EmptyStores ==
  [phase |-> "idle", report |-> None, selected |-> 0, read |-> Idle, decode |-> Idle,
   passkey |-> Idle, mutation |-> Idle]

ResetRead(s) == [s EXCEPT !.read = Idle, !.decode = Idle]

\* invalidateLargeBlobArrayInventory.
InvalidateArray(s) == [EmptyStores EXCEPT !.passkey = s.passkey]

Loading(s) == s.phase \in {"loading", "refreshing"}
BeginLoad(s) == [s EXCEPT !.phase = IF s.report = None THEN "loading" ELSE "refreshing"]

\* reportForActions, and the entry of it that has a target.
ActsOn(s, id) == ~Loading(s) /\ id # 0 /\ s.report # None
HasTarget(s, id, i) == ActsOn(s, id) /\ i \in DOMAIN s.report /\ s.report[i] # None

\* readLargeBlob up to its await.
StartRead(s, i) == [ResetRead(s) EXCEPT !.selected = i, !.read = At("loading", i)]
ReadCall(s, i) ==
  [stage |-> "read", index |-> i, credential |-> s.report[i], served |-> FALSE]

\* What was read says of which target it is; the row it is shown for is its index.
EntryBlob(i, c, content) ==
  [phase |-> "ready", index |-> i, credential |-> c, content |-> content]
PasskeyBlob(c, content) == [phase |-> "ready", credential |-> c, content |-> content]

NoCall == [stage |-> "none"]
Loads(stage) == [stage |-> stage, served |-> FALSE]
DecodeCall(i) == [stage |-> "decode", index |-> i, served |-> FALSE]
Asks(stage, base, request) ==
  [stage |-> stage, base |-> base, request |-> request, served |-> FALSE]
Free == {k \in BlobCall : calls[k].stage = "none"}

-----------------------------------------------------------------------------
(* The service and the authenticator.                                       *)

Send(m) == Len(wire) < MaxWire /\ wire' = Append(wire, m)

BlobsInit ==
  /\ session = [id |-> 0, attached |-> FALSE]
  /\ stores = EmptyStores
  /\ screen = "large-blobs" /\ busy = FALSE
  /\ calls = [k \in BlobCall |-> NoCall]
  /\ service = [id |-> 0, token |-> None] /\ made = 0
  /\ arrays \in [Token -> Arrays] /\ deleted = [t \in Token |-> {}]
  /\ wire = <<>> /\ previews = 0 /\ moved = FALSE

PublishSelection ==
  /\ \/ /\ made < MaxSelections
        /\ made' = made + 1
        /\ \E t \in Token : service' = [id |-> made + 1, token |-> t]
        /\ Send([kind |-> "snapshot", id |-> made + 1, attached |-> TRUE])
     \/ /\ service.id # 0
        /\ service' = [id |-> 0, token |-> None] /\ UNCHANGED made
        /\ \E att \in BOOLEAN : Send([kind |-> "snapshot", id |-> 0, attached |-> att])
  /\ UNCHANGED <<session, stores, screen, busy, calls, arrays, deleted, history>>

Targets(array) == [i \in DOMAIN array |-> array[i].target]

\* The blob of a credential; None if there is none.
BlobOf(array, c) ==
  IF \E i \in DOMAIN array : array[i].target = c
  THEN array[CHOOSE i \in DOMAIN array : array[i].target = c].content ELSE None

\* The entries whose target is not c, in their order.
Without(array, c) ==
  LET kept[n \in DOMAIN array] ==
        LET before == IF n = 1 THEN <<>> ELSE kept[n - 1]
        IN IF array[n].target = c THEN before ELSE Append(before, array[n])
  IN IF array = <<>> THEN <<>> ELSE kept[Len(array)]

\* What a successful request leaves: an entry is replaced, appended or removed, or
\* those without a target are.
Written(array, r) ==
  IF r.kind # "write" THEN Without(array, r.credential)
  ELSE IF BlobOf(array, r.credential) = None
  THEN Append(array, [target |-> r.credential, content |-> r.content])
  ELSE [i \in DOMAIN array |-> IF array[i].target = r.credential
                               THEN [array[i] EXCEPT !.content = r.content] ELSE array[i]]

\* The passkeys deleted from the authenticator that is selected.
Gone == IF service.id = 0 THEN {} ELSE deleted[service.token]

\* What a deleted passkey leaves of its entry: one that has no target.
Orphaned(array, c) ==
  [i \in DOMAIN array |-> IF array[i].target = c THEN [array[i] EXCEPT !.target = None]
                          ELSE array[i]]

\* The passkey that a call is about, None if about none.
PasskeyOf(call) ==
  CASE call.stage \in {"read", "check", "remove"} -> call.credential
    [] call.stage \in {"preview", "execute", "lab"} -> call.request.credential
    [] OTHER -> None

\* The answer to a call that succeeds on an array.
Answer(call, array) ==
  CASE call.stage = "list" -> Targets(array)
    [] call.stage \in {"read", "check"} -> BlobOf(array, call.credential)
    [] call.stage = "preview" -> Written(array, call.request) = array
    [] OTHER -> None

\* Decoding needs no authenticator, and a call about a passkey needs the passkey.  A
\* call that fails has no effect.
Serve(k) ==
  /\ calls[k].stage # "none" /\ ~calls[k].served
  /\ LET call == calls[k]
         array == IF service.id = 0 THEN <<>> ELSE arrays[service.token]
     IN \E ok, closed \in BOOLEAN :
          /\ IF call.stage = "decode" THEN ~closed ELSE service.id = 0 => ~ok /\ closed
          /\ ok => PasskeyOf(call) \notin Gone
          /\ service' = IF closed THEN [id |-> 0, token |-> None] ELSE service
          /\ calls' = [calls EXCEPT ![k].served = TRUE]
          /\ Send([kind |-> "answer", call |-> k, ok |-> ok, closed |-> closed,
                   value |-> IF ok THEN Answer(call, array) ELSE None])
          /\ arrays' = IF ok /\ call.stage \in {"execute", "lab"}
                       THEN [arrays EXCEPT ![service.token] = Written(@, call.request)]
                       ELSE IF ok /\ call.stage = "remove"
                       THEN [arrays EXCEPT ![service.token] = Orphaned(@, call.credential)]
                       ELSE arrays
          /\ deleted' = IF ok /\ call.stage = "remove"
                        THEN [deleted EXCEPT ![service.token] = @ \cup {call.credential}]
                        ELSE deleted
  /\ UNCHANGED <<session, stores, screen, busy, made, history>>

-----------------------------------------------------------------------------
(* The window: what the user does.                                          *)

\* The dialogs are modal, and both screens have them.
DialogPhases == {"editing", "review", "previewFailed", "executeFailed"}
DialogOpen ==
  screen \in {"large-blobs", "passkeys"} /\ session.attached /\ stores.mutation.phase \in DialogPhases
OnScreen(s) == screen = s /\ session.attached /\ ~DialogOpen

\* mutationDisabled, cleanupDisabled; largeBlobDisabled on the passkeys' screen.
MutationsEnabled == OnScreen("large-blobs") /\ ~busy /\ ActsOn(stores, session.id)
PasskeyEnabled == OnScreen("passkeys") /\ ~busy /\ session.id # 0 /\ stores.mutation = Idle

Begins(k, call) == k \in Free /\ calls' = [calls EXCEPT ![k] = call]
\* beginOperation, then the call.
Start(k, call) == Begins(k, call) /\ busy' = TRUE

\* selectLargeBlobEntry: another row, or none when the open one is closed.
SelectEntry(i) ==
  /\ OnScreen("large-blobs") /\ stores.report # None /\ i \in DOMAIN stores.report \cup {0}
  /\ ~Loading(stores) /\ stores.read.phase # "loading" /\ stores.mutation = Idle
  /\ i # stores.selected
  /\ IF i # 0 /\ HasTarget(stores, session.id, i)
     THEN /\ stores' = StartRead(stores, i)
          /\ \E k \in Free : Start(k, ReadCall(stores, i))
     ELSE /\ stores' = [ResetRead(stores) EXCEPT !.selected = i]
          /\ UNCHANGED <<busy, calls>>
  /\ UNCHANGED <<session, screen, serviceVars, wire, history>>

\* The blob of the open row.
Shown == IF stores.selected # 0 /\ stores.read.phase = "ready"
              /\ stores.read.index = stores.selected
         THEN stores.read.content ELSE None

\* decodeLargeBlob up to its await.
Decoding(s, i) == [s EXCEPT !.decode = At("loading", i)]

\* setLargeBlobsDecodeMode.
DecodeAgain(k) ==
  /\ OnScreen("large-blobs") /\ Shown # None
  /\ stores.decode # At("loading", stores.selected)
  /\ stores' = Decoding(stores, stores.selected)
  /\ Begins(k, DecodeCall(stores.selected))
  /\ UNCHANGED <<session, screen, busy, serviceVars, wire, history>>

\* checkPasskeyLargeBlob, for the row that is open or to try again.
CheckPasskey(k, c) ==
  /\ PasskeyEnabled
  /\ stores.passkey.phase # "idle" /\ stores.passkey.credential = c => stores.passkey.phase = "error"
  /\ stores' = [stores EXCEPT !.passkey = [phase |-> "loading", credential |-> c]]
  /\ Start(k, [stage |-> "check", credential |-> c, served |-> FALSE])
  /\ UNCHANGED <<session, screen, serviceVars, wire, history>>

\* What a mutation is about.
Base(kind, i, c, draft) == [kind |-> kind, index |-> i, credential |-> c, draft |-> draft]
Mutating(phase, base) == [phase |-> phase, base |-> base]
Request(base) == [kind |-> base.kind, credential |-> base.credential, content |-> base.draft]

\* beginLargeBlobWrite, beginPasskeyLargeBlobWrite.
BeginWrite ==
  /\ \/ /\ MutationsEnabled /\ Shown # None /\ HasTarget(stores, session.id, stores.selected)
        /\ stores' = [stores EXCEPT !.mutation = Mutating("editing",
             Base("write", stores.selected, stores.report[stores.selected], Shown))]
     \/ LET p == stores.passkey
        IN /\ PasskeyEnabled /\ p.phase = "ready"
           /\ stores' = [stores EXCEPT !.mutation = Mutating("editing",
                Base("write", 0, p.credential, IF p.content = None THEN Empty ELSE p.content))]
  /\ UNCHANGED <<session, screen, busy, calls, serviceVars, wire, history>>

\* updateLargeBlobWriteDraft: the fields are locked in the other phases.
UpdateDraft(v) ==
  /\ DialogOpen /\ stores.mutation.base.kind = "write"
  /\ stores.mutation.phase \in {"editing", "previewFailed"}
  /\ stores' = [stores EXCEPT !.mutation = Mutating("editing",
       [@.base EXCEPT !.draft = v])]
  /\ UNCHANGED <<session, screen, busy, calls, serviceVars, wire, history>>

EditWrite ==
  /\ DialogOpen /\ stores.mutation.base.kind = "write" /\ stores.mutation.phase = "review"
  /\ stores' = [stores EXCEPT !.mutation = Mutating("editing", @.base)]
  /\ UNCHANGED <<session, screen, busy, calls, serviceVars, wire, history>>

CloseMutation ==
  /\ DialogOpen
  /\ stores' = [stores EXCEPT !.mutation = Idle]
  /\ UNCHANGED <<session, screen, busy, calls, serviceVars, wire, history>>

\* runConfirmedPreview up to its await.
Preview(k, base) ==
  /\ stores' = [stores EXCEPT !.mutation = Mutating("previewing", base),
                              !.selected = IF base.kind = "delete" /\ base.index # 0
                                           THEN base.index ELSE @]
  /\ previews < MaxPreviews /\ previews' = previews + 1
  /\ Start(k, Asks("preview", base, Request(base)))
  /\ UNCHANGED <<session, screen, serviceVars, wire, moved>>

\* previewLargeBlobWrite, of a draft that can be parsed.
PreviewWrite(k) ==
  /\ DialogOpen /\ stores.mutation.base.kind = "write"
  /\ stores.mutation.phase \in {"editing", "previewFailed"}
  /\ Preview(k, stores.mutation.base)

\* The dialog of a failed preview that offers to try again.
Failed(kind) ==
  DialogOpen /\ stores.mutation.phase = "previewFailed" /\ stores.mutation.base.kind = kind

\* beginLargeBlobDelete, beginPasskeyLargeBlobDelete: from the buttons or again.
PreviewDelete(k) ==
  \/ LET i == IF Failed("delete") THEN stores.mutation.base.index ELSE stores.selected
     IN /\ MutationsEnabled \/ Failed("delete")
        /\ HasTarget(stores, session.id, i)
        /\ Preview(k, Base("delete", i, stores.report[i], None))
  \/ LET p == stores.passkey
     IN /\ p.phase = "ready" /\ p.content # None
        /\ PasskeyEnabled \/ (Failed("delete") /\ screen = "passkeys")
        /\ Failed("delete") => stores.mutation.base.index = 0 /\ stores.mutation.base.credential = p.credential
        /\ Preview(k, Base("delete", 0, p.credential, None))

\* beginLargeBlobCleanup.
PreviewCleanup(k) ==
  /\ MutationsEnabled \/ Failed("cleanup")
  /\ ActsOn(stores, session.id)
  /\ Preview(k, Base("cleanup", 0, None, None))

\* confirmLargeBlobWrite, -Delete, -Cleanup up to their await.
ConfirmMutation(k) ==
  /\ DialogOpen /\ stores.mutation.phase \in {"review", "executeFailed"}
  /\ stores' = [stores EXCEPT !.mutation.phase = "executing"]
  /\ Start(k, Asks("execute", stores.mutation.base, stores.mutation.request))
  /\ UNCHANGED <<session, screen, serviceVars, wire, history>>

ReloadBlobs(k) ==
  /\ OnScreen("large-blobs") /\ ~Loading(stores) /\ ~busy
  /\ stores' = BeginLoad(stores)
  /\ Start(k, Loads("list"))
  /\ UNCHANGED <<session, screen, serviceVars, wire, history>>

\* confirmLabGetAssertion up to its await, with the extension that writes a blob.
LabWrites(k, c, v) ==
  /\ OnScreen("lab") /\ ~busy /\ session.id # 0
  /\ previews < MaxPreviews /\ previews' = previews + 1
  /\ Start(k, [stage |-> "lab", served |-> FALSE,
               request |-> [kind |-> "write", credential |-> c, content |-> v]])
  /\ UNCHANGED <<session, stores, screen, serviceVars, wire, moved>>

\* confirmCredentialDelete up to its await: a deletion reviewed on the passkeys' screen.
DeletePasskey(k, c) ==
  /\ OnScreen("passkeys") /\ ~busy /\ session.id # 0
  /\ previews < MaxPreviews /\ previews' = previews + 1
  /\ Start(k, [stage |-> "remove", credential |-> c, served |-> FALSE])
  /\ UNCHANGED <<session, stores, screen, serviceVars, wire, moved>>

\* loadActiveScreen, given the stores: maybeLoadLargeBlobs; another screen loads
\* something of its own or nothing.
LoadActiveScreen(scr, id, s) ==
  LET missing == id # 0 /\ s.report = None /\ ~Loading(s)
  IN \/ /\ scr = "large-blobs" /\ missing
        /\ stores' = BeginLoad(s)
        /\ \E k \in Free : Start(k, Loads("list"))
     \/ /\ scr # "large-blobs"
        /\ stores' = s
        /\ \E k \in Free : Start(k, Loads("other"))
     \/ /\ scr # "large-blobs" \/ ~missing
        /\ stores' = s
        /\ UNCHANGED <<busy, calls>>

NavigateToScreen(s) ==
  /\ ~DialogOpen /\ s # screen
  /\ screen' = s
  /\ LoadActiveScreen(s, session.id, stores)
  /\ UNCHANGED <<session, serviceVars, wire, history>>

-----------------------------------------------------------------------------
(* The window: what arrives.                                                *)

Deliver(kind, i) ==
  /\ i \in DOMAIN wire /\ (InOrder => i = 1)
  /\ wire[i].kind = kind
  /\ wire' = RemoveAt(wire, i)

\* applySessionSnapshot and what handleDiscoveryChanged loads after it.
HandleDiscoveryChanged(i) ==
  /\ Deliver("snapshot", i)
  /\ LET next == [id |-> wire[i].id, attached |-> wire[i].attached]
         s == IF next = session THEN stores ELSE EmptyStores
     IN /\ session' = next
        /\ IF next.attached # session.attached \/ (next.id # 0 /\ next.id # session.id)
           THEN LoadActiveScreen(screen, next.id, s)
           ELSE stores' = s /\ UNCHANGED <<busy, calls>>
  /\ UNCHANGED <<screen, serviceVars, history>>

\* Mutant of ListReturns: what was read stays, though the indices may have changed.
ListKeepsRead(s, a) ==
  IF ~a.ok THEN [s EXCEPT !.phase = "error"]
  ELSE [s EXCEPT !.phase = "ready", !.report = a.value]

\* loadLargeBlobs after its await, with reconcileSelectedEntry.
ListReturns(s, a) ==
  LET loaded == [ResetRead(s) EXCEPT !.phase = "ready", !.report = a.value]
  IN IF ~a.ok THEN [s EXCEPT !.phase = "error"]
     ELSE IF s.selected \in DOMAIN a.value \cup {0} THEN loaded
     ELSE [loaded EXCEPT !.selected = 0, !.mutation = Idle]

\* Mutant of PreviewReturns: the dialog of what is not reviewed stays.
LeavesSkipped(s, call, a) ==
  LET r == call.request
  IN IF ~a.ok THEN [s EXCEPT !.mutation = Mutating("previewFailed", call.base)]
     ELSE IF r.kind # "write" /\ a.value THEN s
     ELSE [s EXCEPT !.mutation = [phase |-> "review", base |-> call.base, request |-> r]]

\* runConfirmedPreview after its await: a deletion or clean-up that would change
\* nothing is not reviewed.
PreviewReturns(s, call, a) ==
  LET r == call.request
  IN IF ~a.ok THEN [s EXCEPT !.mutation = Mutating("previewFailed", call.base)]
     ELSE IF r.kind # "write" /\ a.value
     THEN [s EXCEPT !.mutation = Idle,
                    !.passkey = IF r.kind = "delete" THEN PasskeyBlob(r.credential, None) ELSE @]
     ELSE [s EXCEPT !.mutation = [phase |-> "review", base |-> call.base, request |-> r]]

\* Mutant of ExecuteReturns: the blob of the passkey is not brought up to date.
LeavesPasskey(s, call, a) ==
  IF ~a.ok
  THEN [s EXCEPT !.mutation = [phase |-> "executeFailed", base |-> call.base, request |-> call.request]]
  ELSE s

\* runConfirmedExecution after its await; the dialog stays until the refresh.
ExecuteReturns(s, call, a) ==
  IF ~a.ok
  THEN [s EXCEPT !.mutation = [phase |-> "executeFailed", base |-> call.base, request |-> call.request]]
  ELSE IF call.request.kind = "cleanup" THEN s
  ELSE [s EXCEPT !.passkey = PasskeyBlob(call.request.credential, call.request.content)]

\* What a coroutine publishes first.  The deletion of a passkey leaves the stores of
\* the large blobs alone, unlike what the Lab does.
Returned(s, call, a) ==
  CASE call.stage = "list" -> ListReturns(s, a)
    [] call.stage = "read" ->
         [s EXCEPT !.read = IF a.ok THEN EntryBlob(call.index, call.credential, a.value)
                            ELSE At("error", call.index)]
    [] call.stage = "check" ->
         [s EXCEPT !.passkey = IF a.ok THEN PasskeyBlob(call.credential, a.value)
                               ELSE [phase |-> "error", credential |-> call.credential]]
    [] call.stage = "decode" -> [s EXCEPT !.decode = [phase |-> "ended"]]
    [] call.stage = "preview" -> PreviewReturns(s, call, a)
    [] call.stage = "execute" -> ExecuteReturns(s, call, a)
    [] call.stage = "lab" -> IF a.ok THEN EmptyStores ELSE s
    [] call.stage \in {"remove", "reload", "other"} -> s

\* Mutant of Refreshed: only the screen of the large blobs is brought up to date.
RefreshesOwnScreen(s) ==
  IF screen # "large-blobs" THEN [stores |-> [s EXCEPT !.mutation = Idle], then |-> NoCall]
  ELSE IF session.attached
  THEN [stores |-> BeginLoad([ResetRead(s) EXCEPT !.mutation = Idle, !.selected = 0]),
        then |-> Loads("list")]
  ELSE [stores |-> EmptyStores, then |-> NoCall]

\* refreshAfterMutation, and loadLargeBlobs up to its await.
Refreshed(s) ==
  IF screen # "large-blobs" THEN [stores |-> InvalidateArray(s), then |-> NoCall]
  ELSE IF session.attached
  THEN [stores |-> BeginLoad([ResetRead(s) EXCEPT !.mutation = Idle, !.selected = 0]),
        then |-> Loads("list")]
  ELSE [stores |-> EmptyStores, then |-> NoCall]

\* What the coroutine does next, after completeOperation left it the stores s: the
\* entry still selected is read again, what was read is decoded, what was written
\* is loaded, and after a deletion the passkeys are.
Continued(call, a, s, id) ==
  CASE a.ok /\ call.stage = "list" /\ s.selected # 0 /\ HasTarget(s, id, s.selected) ->
         [stores |-> StartRead(s, s.selected), then |-> ReadCall(s, s.selected)]
    [] a.ok /\ call.stage = "read" /\ a.value # None ->
         [stores |-> Decoding(s, call.index), then |-> DecodeCall(call.index)]
    [] a.ok /\ call.stage = "execute" -> Refreshed(s)
    [] a.ok /\ call.stage = "remove" /\ id # 0 -> [stores |-> s, then |-> Loads("reload")]
    [] OTHER -> [stores |-> s, then |-> NoCall]

\* Whether a read under way is of a row that the report has for another target.
Moves(call, report) ==
  call.stage = "read" /\ ~(call.index \in DOMAIN report /\ report[call.index] = call.credential)

CallReturns(i) ==
  /\ Deliver("answer", i)
  /\ LET a == wire[i]
         call == calls[a.call]
         next == IF a.closed THEN [session EXCEPT !.id = 0] ELSE session
         published == Returned(stores, call, a)
         continued == Continued(call, a, IF a.closed THEN EmptyStores ELSE published, next.id)
     IN /\ session' = next
        /\ stores' = continued.stores
        /\ calls' = [calls EXCEPT ![a.call] = continued.then]
        /\ busy' = CASE continued.then.stage \in {"list", "read", "reload"} -> TRUE
                     [] call.stage = "decode" -> busy
                     [] OTHER -> FALSE
        /\ moved' = \/ moved
                    \/ /\ call.stage = "list" /\ a.ok /\ ~a.closed
                       /\ \E k \in BlobCall : Moves(calls[k], a.value)
  /\ UNCHANGED <<screen, serviceVars, previews>>

BlobsNext ==
  \/ PublishSelection
  \/ \E i \in 0..Len(wire) : HandleDiscoveryChanged(i) \/ CallReturns(i)
  \/ \E i \in 0..MaxEntries : SelectEntry(i)
  \/ BeginWrite \/ EditWrite \/ CloseMutation
  \/ \E v \in Content : UpdateDraft(v)
  \/ \E s \in {"large-blobs", "passkeys", "lab"} : NavigateToScreen(s)
  \/ \E k \in BlobCall :
       \/ Serve(k) \/ DecodeAgain(k) \/ ReloadBlobs(k)
       \/ PreviewWrite(k) \/ PreviewDelete(k) \/ PreviewCleanup(k) \/ ConfirmMutation(k)
       \/ \E c \in Credential : CheckPasskey(k, c) \/ DeletePasskey(k, c)
       \/ \E c \in Credential, v \in Content : LabWrites(k, c, v)

BlobsSpec == BlobsInit /\ [][BlobsNext]_blobVars

-----------------------------------------------------------------------------
(* Properties.                                                              *)

UnderWay(stage) == \E k \in BlobCall : calls[k].stage = stage

\* Nothing shows as loading, previewing or executing unless the call it waits for
\* is under way, whatever was selected, cleared or begun meanwhile.
BlobsWait ==
  /\ Loading(stores) => UnderWay("list")
  /\ stores.read.phase = "loading" => UnderWay("read")
  /\ stores.decode.phase = "loading" => UnderWay("decode")
  /\ stores.passkey.phase = "loading" => UnderWay("check")
  /\ stores.mutation.phase = "previewing" => UnderWay("preview")
  /\ stores.mutation.phase = "executing" => UnderWay("execute")

\* What an array holds for a target.
Holds(array, c, content) ==
  IF content = None THEN \A i \in DOMAIN array : array[i].target # c
  ELSE \E i \in DOMAIN array : array[i] = [target |-> c, content |-> content]

\* A report without the passkeys that were deleted.
Living(report) == [i \in DOMAIN report |-> IF report[i] \in Gone THEN None ELSE report[i]]

\* When nothing is under way the screens show what the authenticator holds: the
\* array, the blob of the open entry and that of the passkey, whichever screen, or
\* the Lab, has written last.  The entry that was read is that of the open row,
\* unless the row got another target while it was being read: what returns late is
\* shown for its index.  Of a passkey that was deleted the row, the blob of the open
\* entry and that of the passkey are still shown, until the array is listed again or
\* another passkey is looked at: confirmCredentialDelete leaves these stores alone.
BlobsSettled ==
  wire = <<>> /\ Free = BlobCall =>
    LET array == IF service.id = 0 THEN <<>> ELSE arrays[service.token]
        read == stores.read
        passkey == stores.passkey
    IN /\ stores.phase = "ready" =>
            /\ service.id # 0 /\ Living(stores.report) = Targets(array)
            /\ Shown # None /\ read.credential \notin Gone =>
                 /\ Holds(array, read.credential, Shown)
                 /\ moved \/ (read.index \in DOMAIN array /\ array[read.index].target = read.credential)
       /\ passkey.phase = "ready" =>
            /\ service.id # 0
            /\ passkey.credential \in Gone \/ Holds(array, passkey.credential, passkey.content)

=============================================================================
