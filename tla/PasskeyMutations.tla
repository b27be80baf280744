-------------------------- MODULE PasskeyMutations --------------------------
(***************************************************************************)
(* Updating and deleting passkeys (passkeys-controller.ts on top of        *)
(* confirmed-operation.ts): a mutation is drafted, previewed by a dry run, *)
(* reviewed in a dialog, confirmed, executed, and the inventory reloaded.  *)
(* Each stage awaits the service, and while it does the dialog is hidden:  *)
(* the user may navigate, reload or start another mutation, the service    *)
(* may select another authenticator, and the session boundary may clear    *)
(* the window.  The continuation then publishes what it captured before    *)
(* the await.                                                              *)
(*                                                                         *)
(* A request does not name the selection it is for: the service runs it on *)
(* the selection it has when the request arrives.                          *)
(***************************************************************************)
EXTENDS Naturals, Sequences, FiniteSets, SequencesExt

CONSTANTS
  Credential, Name,  \* credential IDs, and what a credential may be called
  Token,             \* authenticators
  Call,              \* coroutines of the window under way at one time
  InOrder,           \* messages reach the window in the order sent
  MayHalfFail,       \* a failed call may have had its effect
  MaxSelections,      \* bound: selections made
  MaxPreviews,        \* bound: previews asked for
  MaxWire,            \* bound: messages under way
  None

ASSUME SwitchAssumption == InOrder \in BOOLEAN /\ MayHalfFail \in BOOLEAN
ASSUME BoundAssumption == MaxSelections \in Nat /\ MaxPreviews \in Nat /\ MaxWire \in Nat
ASSUME NoneIsFresh == None \notin Credential \cup Name \cup Token \cup Call

VARIABLES
  \* Stores of the window
  session,    \* the selection of the window: id, 0 if none; attached
  mutation,   \* passkeysMutation
  inventory,  \* passkeysInventoryState
  chosen,     \* passkeysSelectedCredentialID
  screen, busy,   \* activeScreen; an operation is in the status bar
  \* Coroutines: what each captured before its await
  calls,
  \* Service and authenticators
  service,    \* the selection of the service: id, 0 if none; token
  made,       \* selections made so far
  stored,     \* what every authenticator holds: the name of each credential
  wire,       \* snapshots and answers on their way to the window
  \* History
  previews,   \* previews asked for so far
  reviewed,   \* requests shown in a review dialog
  executed    \* requests executed

uiVars == <<session, mutation, inventory, chosen, screen, busy>>
serviceVars == <<service, made, stored>>
history == <<previews, reviewed, executed>>
vars == <<uiVars, calls, serviceVars, wire, history>>

Request == [kind : {"update", "delete"}, credential : Credential, name : Name \cup {None}]

\* What the stores and the coroutines keep of a mutation; "begun" is the
\* session it was begun in, which the code does not record.
Base(kind, c, current, form) ==
  [kind |-> kind, credential |-> c, current |-> current, form |-> form, begun |-> session.id]
Requested(base) == [kind |-> base.kind, credential |-> base.credential, name |-> base.form]
Idle == [phase |-> "idle"]
At(base, phase) == [phase |-> phase, base |-> base]
Review(call, phase) ==
  [phase |-> phase, base |-> call.base, request |-> call.request, number |-> call.number]

EmptyInventory == [phase |-> "idle", report |-> None]
Reported == IF inventory.report = None THEN {} ELSE {c \in Credential : inventory.report[c] # None}

\* A coroutine: the stage it awaits, and whether the service has served it.
NoCall == [stage |-> "none"]
Loads(stage) == [stage |-> stage, served |-> FALSE]
Asks(stage, base, request, number) ==
  [stage |-> stage, base |-> base, request |-> request, number |-> number, served |-> FALSE]
Free == {k \in Call : calls[k].stage = "none"}

Init ==
  /\ session = [id |-> 0, attached |-> FALSE]
  /\ mutation = Idle /\ inventory = EmptyInventory /\ chosen = None
  /\ screen = "passkeys" /\ busy = FALSE
  /\ calls = [k \in Call |-> NoCall]
  /\ service = [id |-> 0, token |-> None] /\ made = 0
  /\ stored \in [Token -> [Credential -> Name]]
  /\ wire = <<>>
  /\ previews = 0 /\ reviewed = {} /\ executed = {}

-----------------------------------------------------------------------------
(* The service.                                                             *)

Send(m) == Len(wire) < MaxWire /\ wire' = Append(wire, m)

\* The device manager opens an authenticator, or loses the one it has.
Publish ==
  /\ \/ /\ made < MaxSelections
        /\ made' = made + 1
        /\ \E t \in Token : service' = [id |-> made + 1, token |-> t]
        /\ Send([kind |-> "snapshot", id |-> made + 1, attached |-> TRUE])
     \/ /\ service.id # 0
        /\ service' = [id |-> 0, token |-> None]
        /\ \E att \in BOOLEAN : Send([kind |-> "snapshot", id |-> 0, attached |-> att])
        /\ UNCHANGED made
  /\ UNCHANGED <<uiVars, calls, stored, history>>

\* What a successful request leaves on the authenticator.
Applied(r, names) ==
  [names EXCEPT ![r.credential] = IF r.kind = "update" THEN r.name ELSE None]

\* The service runs the call on the selection it has.  A failed call may have
\* had its effect: a later step failed, or the runtime lost the answer.  An
\* operation that found its authenticator gone gives up the selection.
Serve(k) ==
  /\ calls[k].stage \in {"list", "preview", "execute", "other"} /\ ~calls[k].served
  /\ LET call == calls[k] IN
     \E ok, closed \in BOOLEAN :
       /\ service.id = 0 => ~ok /\ closed
       /\ ok /\ call.stage \in {"preview", "execute"} =>
            stored[service.token][call.request.credential] # None
       /\ service' = IF closed THEN [id |-> 0, token |-> None] ELSE service
       /\ calls' = [calls EXCEPT ![k].served = TRUE]
       /\ Send([kind |-> "answer", call |-> k, ok |-> ok, closed |-> closed, report |-> IF ok /\ call.stage = "list" THEN stored[service.token] ELSE None])
       /\ IF call.stage # "execute" THEN UNCHANGED <<stored, executed>>
          ELSE /\ executed' = executed \cup {call.request}
               /\ \/ /\ service.id # 0 /\ (ok \/ MayHalfFail)
                     /\ stored' = [stored EXCEPT ![service.token] = Applied(call.request, @)]
                  \/ ~ok /\ UNCHANGED stored
  /\ UNCHANGED <<uiVars, made, previews, reviewed>>

-----------------------------------------------------------------------------
(* The window: what its handlers share.                                     *)

\* resetDeviceState, as far as passkeys go.
ResetDeviceState == mutation' = Idle /\ inventory' = EmptyInventory /\ chosen' = None

Loading == inventory.phase \in {"loading", "refreshing"}

MutationsAvailable == ~Loading /\ session.id # 0 /\ inventory.report # None

\* The dialogs are modal while they show, and they belong to the screen.
DialogPhases == {"editing", "review", "previewFailed", "executeFailed"}
DialogOpen == screen = "passkeys" /\ session.attached /\ mutation.phase \in DialogPhases

\* The buttons of the screen that open a dialog.
MutationsBlocked == Loading \/ busy \/ session.id = 0 \/ DialogOpen \/ screen # "passkeys"

BeginLoad(i) == [i EXCEPT !.phase = IF i.report = None THEN "loading" ELSE "refreshing"]

\* beginOperation, then the call.
Start(k, call) == busy' = TRUE /\ calls' = [calls EXCEPT ![k] = call]

-----------------------------------------------------------------------------
(* The window: what the user does.                                          *)

BeginCredentialUpdate(c) ==
  /\ ~MutationsBlocked /\ MutationsAvailable
  /\ c \in Reported
  /\ chosen' = c
  /\ LET name == inventory.report[c] IN
     mutation' = At(Base("update", c, name, name), "editing")
  /\ UNCHANGED <<session, inventory, screen, busy, calls, serviceVars, wire, history>>

\* Not guarded by the phase; the form only shows in these.
UpdateCredentialDraft(n) ==
  /\ DialogOpen /\ mutation.phase \in {"editing", "previewFailed"}
  /\ mutation.base.kind = "update"
  /\ mutation' = At([mutation.base EXCEPT !.form = n], "editing")
  /\ UNCHANGED <<session, inventory, chosen, screen, busy, calls, serviceVars, wire, history>>

EditCredentialUpdate ==
  /\ DialogOpen /\ mutation.phase = "review" /\ mutation.base.kind = "update"
  /\ mutation' = At(mutation.base, "editing")
  /\ UNCHANGED <<session, inventory, chosen, screen, busy, calls, serviceVars, wire, history>>

\* runConfirmedPreview up to its await.
Preview(k, base) ==
  /\ k \in Free /\ previews < MaxPreviews
  /\ previews' = previews + 1
  /\ mutation' = At(base, "previewing")
  /\ Start(k, Asks("preview", base, Requested(base), previews + 1))

PreviewCredentialUpdate(k) ==
  /\ DialogOpen /\ mutation.phase \in {"editing", "previewFailed"}
  /\ mutation.base.kind = "update"
  /\ MutationsAvailable
  /\ IF mutation.base.form = mutation.base.current
     THEN /\ mutation' = At(mutation.base, "editing")
          /\ UNCHANGED <<busy, calls, previews>>
     ELSE Preview(k, mutation.base)
  /\ UNCHANGED <<session, inventory, chosen, screen, serviceVars, wire, reviewed, executed>>

\* From its button, or again from the dialog of a failed preview.
PreviewCredentialDelete(k, c) ==
  /\ \/ ~MutationsBlocked
     \/ DialogOpen /\ mutation.phase = "previewFailed" /\ mutation.base.kind = "delete"
        /\ mutation.base.credential = c
  /\ MutationsAvailable /\ c \in Reported
  /\ chosen' = c
  /\ Preview(k, Base("delete", c, None, None))
  /\ UNCHANGED <<session, inventory, screen, serviceVars, wire, reviewed, executed>>

\* confirmedOperationExecution: the request of the review, now or again.
Confirmable == mutation.phase \in {"review", "executeFailed"}

\* Mutant of Confirm: the stage is not published, so the dialog stays.
ConfirmsSilently(k) ==
  /\ k \in Free
  /\ DialogOpen /\ Confirmable
  /\ Start(k, Asks("execute", mutation.base, mutation.request, mutation.number))
  /\ UNCHANGED <<session, mutation, inventory, chosen, screen, serviceVars, wire, history>>

\* Mutant of Confirm: any failed stage may be confirmed, not only an execution.
ConfirmsAnyError(k) ==
  /\ k \in Free
  /\ DialogOpen /\ mutation.phase \in {"review", "previewFailed", "executeFailed"}
  /\ LET call == Asks("execute", mutation.base, Requested(mutation.base), 1)
     IN mutation' = Review(call, "executing") /\ Start(k, call)
  /\ UNCHANGED <<session, inventory, chosen, screen, serviceVars, wire, history>>

\* confirmCredentialUpdate, confirmCredentialDelete up to their await.
Confirm(k) ==
  /\ k \in Free
  /\ DialogOpen /\ Confirmable
  /\ mutation' = [mutation EXCEPT !.phase = "executing"]
  /\ Start(k, Asks("execute", mutation.base, mutation.request, mutation.number))
  /\ UNCHANGED <<session, inventory, chosen, screen, serviceVars, wire, history>>

ClosePasskeysMutation ==
  /\ DialogOpen
  /\ mutation' = Idle
  /\ UNCHANGED <<session, inventory, chosen, screen, busy, calls, serviceVars, wire, history>>

ReloadPasskeys(k) ==
  /\ k \in Free
  /\ screen = "passkeys" /\ ~DialogOpen /\ session.attached /\ ~Loading /\ ~busy
  /\ inventory' = BeginLoad(inventory)
  /\ Start(k, Loads("list"))
  /\ UNCHANGED <<session, mutation, chosen, screen, serviceVars, wire, history>>

\* loadActiveScreen, given the stores it reads: the inventory if it is missing;
\* another screen loads something or nothing.
LoadActiveScreen(scr, id, inv) ==
  LET missing == id # 0 /\ inv.report = None /\ inv.phase \notin {"loading", "refreshing"}
  IN \/ /\ scr = "passkeys" /\ missing
        /\ inventory' = BeginLoad(inv)
        /\ \E k \in Free : Start(k, Loads("list"))
     \/ /\ scr = "other"
        /\ inventory' = inv
        /\ \E k \in Free : Start(k, Loads("other"))
     \/ /\ scr = "other" \/ ~missing
        /\ inventory' = inv
        /\ UNCHANGED <<busy, calls>>

NavigateToScreen(s) ==
  /\ ~DialogOpen /\ s # screen
  /\ screen' = s
  /\ LoadActiveScreen(s, session.id, inventory)
  /\ UNCHANGED <<session, mutation, chosen, serviceVars, wire, history>>

-----------------------------------------------------------------------------
(* The window: what arrives.                                                *)

Deliver(kind, i) ==
  /\ i \in DOMAIN wire /\ (InOrder => i = 1)
  /\ wire[i].kind = kind
  /\ wire' = RemoveAt(wire, i)

\* applySessionSnapshot and what handleDiscoveryChanged loads after it.
HandleDiscoveryChanged(i) ==
  /\ Deliver("snapshot", i)
  /\ LET next == [id |-> wire[i].id, attached |-> wire[i].attached]
         boundary == next # session
         load == next.attached # session.attached \/ (next.id # 0 /\ next.id # session.id)
         inv == IF boundary THEN EmptyInventory ELSE inventory
     IN /\ session' = next
        /\ mutation' = IF boundary THEN Idle ELSE mutation
        /\ chosen' = IF boundary THEN None ELSE chosen
        /\ \/ load /\ LoadActiveScreen(screen, next.id, inv)
           \/ ~load /\ inventory' = inv /\ UNCHANGED <<busy, calls>>
  /\ UNCHANGED <<screen, serviceVars, history>>

\* What the continuation of a call leaves in the stores before the boundary.
Stores(m, i, c) == [mutation |-> m, inventory |-> i, chosen |-> c]

ListReturns(a) ==
  LET gone == chosen # None /\ a.report[chosen] = None
  IN IF ~a.ok THEN Stores(mutation, [inventory EXCEPT !.phase = "error"], chosen)
     ELSE Stores(IF gone THEN Idle ELSE mutation,
                 [phase |-> "ready", report |-> a.report],
                 IF gone THEN None ELSE chosen)

\* Mutant of PreviewReturns: the mutation of the store goes on, not the one
\* captured when the preview began.
ReviewsLiveMutation(call, a) ==
  LET live == [call EXCEPT !.base = IF mutation = Idle THEN @ ELSE mutation.base]
  IN Stores(IF a.ok THEN Review(live, "review") ELSE At(live.base, "previewFailed"),
            inventory, chosen)

\* Mutant of PreviewReturns: a failed preview is not published.
FailsSilently(call, a) ==
  Stores(IF a.ok THEN Review(call, "review") ELSE mutation, inventory, chosen)

PreviewReturns(call, a) ==
  Stores(IF a.ok THEN Review(call, "review")
                 ELSE At(call.base, "previewFailed"),
         inventory, chosen)

ExecuteReturns(call, a) ==
  IF ~a.ok
  THEN Stores(Review(call, "executeFailed"), inventory, chosen)
  ELSE Stores(Idle, inventory, IF call.base.kind = "update" THEN call.base.credential ELSE None)

Returns(call, a) ==
  CASE call.stage = "list" -> ListReturns(a)
    [] call.stage = "preview" -> PreviewReturns(call, a)
    [] call.stage = "execute" -> ExecuteReturns(call, a)
    [] call.stage = "other" -> Stores(mutation, inventory, chosen)

\* completeOperation: out of the status bar, and across the boundary if the
\* authenticator is closed.
Completed(stores, closed) ==
  IF closed THEN Stores(Idle, EmptyInventory, None) ELSE stores

\* Mutant of Reloads: nothing is loaded after a mutation.
NeverReloads(call, a) == FALSE

\* An execution that succeeded goes on as a load, if an attachment is selected.
Reloads(call, a) == call.stage = "execute" /\ a.ok

CallReturns(i) ==
  /\ Deliver("answer", i)
  /\ LET a == wire[i]
         call == calls[a.call]
         after == Completed(Returns(call, a), a.closed)
         reload == Reloads(call, a)
     IN /\ mutation' = IF reload /\ ~session.attached THEN Idle ELSE after.mutation
        /\ chosen' = IF reload /\ ~session.attached THEN None ELSE after.chosen
        /\ inventory' = CASE ~reload -> after.inventory
                          [] reload /\ session.attached -> BeginLoad(after.inventory)
                          [] OTHER -> EmptyInventory
        /\ IF reload /\ session.attached
           THEN Start(a.call, Loads("list"))
           ELSE busy' = FALSE /\ calls' = [calls EXCEPT ![a.call] = NoCall]
        /\ session' = IF a.closed THEN [session EXCEPT !.id = 0] ELSE session
        /\ reviewed' = IF mutation'.phase = "review" THEN reviewed \cup {mutation'.request}
                                                     ELSE reviewed
  /\ UNCHANGED <<screen, serviceVars, previews, executed>>

Service == Publish \/ \E k \in Call : Serve(k)

User ==
  \/ \E c \in Credential : BeginCredentialUpdate(c)
  \/ \E n \in Name : UpdateCredentialDraft(n)
  \/ EditCredentialUpdate
  \/ ClosePasskeysMutation
  \/ \E k \in Call : PreviewCredentialUpdate(k) \/ Confirm(k) \/ ReloadPasskeys(k)
  \/ \E k \in Call, c \in Credential : PreviewCredentialDelete(k, c)
  \/ \E s \in {"passkeys", "other"} : NavigateToScreen(s)

Arrives(i) == HandleDiscoveryChanged(i) \/ CallReturns(i)

Arrival == \E i \in DOMAIN wire : Arrives(i)

Next == Service \/ User \/ Arrival

Spec == Init /\ [][Next]_vars

-----------------------------------------------------------------------------
(* Properties.                                                              *)

BaseType == [kind : {"update", "delete"}, credential : Credential,
             current : Name \cup {None}, form : Name \cup {None}, begun : 1..MaxSelections]

MutationOK ==
  \/ mutation = Idle
  \/ /\ mutation.phase \in {"editing", "previewing", "previewFailed"}
     /\ mutation = At(mutation.base, mutation.phase)
     /\ mutation.base \in BaseType
  \/ /\ mutation.phase \in {"review", "executing", "executeFailed"}
     /\ mutation = Review(mutation, mutation.phase)
     /\ mutation.base \in BaseType /\ mutation.request \in Request
     /\ mutation.number \in 1..previews

\* The phases of the inventory and of the mutation stay those of
\* features/passkeys/state.ts, each with the fields the phase has.
TypeOK ==
  /\ session \in [id : 0..MaxSelections, attached : BOOLEAN]
  /\ session.id # 0 => session.attached
  /\ MutationOK
  /\ inventory.phase \in {"idle", "loading", "refreshing", "ready", "error"}
  /\ inventory.report \in [Credential -> Name \cup {None}] \cup {None}
  /\ inventory.report = None => inventory.phase # "refreshing"
  /\ chosen \in Credential \cup {None} /\ screen \in {"passkeys", "other"} /\ busy \in BOOLEAN
  /\ stored \in [Token -> [Credential -> Name \cup {None}]]

\* A mutation that shows as being previewed or executed has its call under
\* way: no dialog stays hidden for ever, whatever was cleared or begun
\* meanwhile (runConfirmedPreview, runConfirmedExecution).
MutationHasCall ==
  /\ mutation.phase = "previewing" => \E k \in Call : calls[k].stage = "preview"
  /\ mutation.phase = "executing" =>
       \E k \in Call : calls[k].stage = "execute" /\ calls[k].request = mutation.request

\* The stores keep the shapes of features/passkeys/state.ts, and no dialog stays
\* hidden for ever.
MutationInv == TypeOK /\ MutationHasCall

\* The dialog shows the form that the request it confirms was made of, although
\* another mutation may have been begun before the preview came back.
ReviewShowsRequest ==
  mutation.phase \in {"review", "executing", "executeFailed"} =>
    mutation.request = Requested(mutation.base)

\* README.md:129: nothing is written that was not reviewed, not even by a retry, and
\* what one preview showed is not executed twice at a time, however late the
\* answers come and however often the user confirms (confirmedOperationExecution).
WritesReviewedOnce ==
  /\ executed \subseteq reviewed
  /\ \A j, k \in Call :
       j # k /\ calls[j].stage = "execute" /\ calls[k].stage = "execute" =>
         calls[j].number # calls[k].number

\* When nothing is under way, an inventory that is not stale shows what the
\* authenticator holds, mutations included (the load after a confirm), unless
\* a mutation failed after it had its effect: nothing is loaded after a failure.
ReadyIsCurrent ==
  wire = <<>> /\ Free = Call /\ inventory.phase = "ready" =>
    service.id # 0 /\ inventory.report = stored[service.token]

\* features/passkeys/state.ts:178, "Clears state owned by one selected
\* authenticator": a mutation in the dialog is one of the window's selection.
MutationOfSession == mutation.phase # "idle" => mutation.base.begun = session.id

=============================================================================
