------------------------------ MODULE Security ------------------------------
(***************************************************************************)
(* The security screen (security-controller.ts, features/security, the     *)
(* components of screens/Security.svelte): the status, the sensor and the  *)
(* enrolled finger of an authenticator, its reviewed mutations, the PIN,   *)
(* and the factory reset with the rediscovery that follows it              *)
(* (authenticator-controller.ts).  Messages reach the window in the order  *)
(* sent.                                                                   *)
(*                                                                         *)
(* Always-UV stands for the settings that are switched (enterprise         *)
(* attestation and long touch can only be switched on), the minimum length *)
(* for the PIN policy, one finger for the enrollments.                     *)
(***************************************************************************)
EXTENDS Naturals, Sequences

CONSTANTS
  Authenticator,          \* what may be selected
  Sensing,                \* those of them with a sensor
  FingerName,             \* what a finger may be called
  Unnamed, NoFinger,      \* a finger that has no name yet; none enrolled
  SecurityCall,           \* coroutines of the window under way at one time
  MaxSecuritySelections,  \* bound: selections the user or the system makes
  MaxSecurityWire,        \* bound: messages under way
  MaxSecurityChanges,     \* bound: previews and PINs asked for
  MaxSecurityFailures,    \* bound: calls that fail
  NoReport

\* ConfigStatus, as far as the screen shows it.
ConfigStatus == [bio : BOOLEAN, configured : BOOLEAN, uv : BOOLEAN, length : 0..1, pin : BOOLEAN]

ASSUME SecurityAssumption ==
  /\ Sensing \subseteq Authenticator /\ NoFinger \notin FingerName \cup {Unnamed}
  /\ NoReport \notin ConfigStatus
  /\ {MaxSecuritySelections, MaxSecurityWire, MaxSecurityChanges, MaxSecurityFailures} \subseteq Nat

VARIABLES
  \* Window
  shown,         \* session (id, 0 if none; attached), screen and activeOperation
  secure,        \* the stores of features/security/state.ts
  secureCalls,   \* what each coroutine goes on with after its await
  \* Service and authenticators
  held,          \* the selection: id, 0 if none; key; what is attached
  heldMade, keys,
  secureWire,    \* snapshots and answers on their way to the window
  \* History
  changes, failures,
  gaveUp         \* the last rediscovery failed, or found no selection to restart, and
                 \* no snapshot was sent since

heldVars == <<held, heldMade, keys>>
secureHistory == <<changes, failures, gaveUp>>
securityVars == <<shown, secure, secureCalls, heldVars, secureWire, secureHistory>>

-----------------------------------------------------------------------------
(* The authenticator.                                                       *)

Fresh == [uv |-> FALSE, length |-> 0, pin |-> FALSE, finger |-> NoFinger]

\* What an authenticator reports.
StatusOf(t) ==
  [bio |-> t \in Sensing, configured |-> keys[t].finger # NoFinger, uv |-> keys[t].uv,
   length |-> keys[t].length, pin |-> keys[t].pin]

\* What a mutation leaves of an authenticator that accepts it.
Mutated(key, base) ==
  CASE base.kind = "alwaysUv" -> [key EXCEPT !.uv = base.value]
    [] base.kind = "pinPolicy" -> [key EXCEPT !.length = base.value]
    [] base.kind \in {"bioEnroll", "bioRename"} -> [key EXCEPT !.finger = base.value]
    [] base.kind = "bioRemove" -> [key EXCEPT !.finger = NoFinger]
    [] base.kind = "pin" -> [key EXCEPT !.pin = TRUE]
    [] base.kind = "reset" -> Fresh

Accepts(t, base) ==
  CASE base.kind = "pinPolicy" -> base.value > keys[t].length
    [] base.kind = "bioEnroll" -> t \in Sensing /\ keys[t].finger = NoFinger
    [] base.kind \in {"bioRename", "bioRemove"} -> keys[t].finger # NoFinger
    [] OTHER -> TRUE

-----------------------------------------------------------------------------
(* The stores.                                                              *)

EmptyResource == [phase |-> "idle", report |-> NoReport]
IdleMutation == [phase |-> "idle"]
EmptySecurity ==
  [status |-> EmptyResource, sensor |-> EmptyResource, enrollments |-> EmptyResource,
   mutation |-> IdleMutation]
Unselected == [id |-> 0, attached |-> FALSE]

LoadBegun(r) == [r EXCEPT !.phase = IF r.report = NoReport THEN "loading" ELSE "refreshing"]
LoadEnded(r, a) ==
  IF a.ok THEN [phase |-> "ready", report |-> a.value] ELSE [r EXCEPT !.phase = "error"]
IsLoading(r) == r.phase \in {"loading", "refreshing"}

\* currentStatusReport()?.bio.supported.
BioSupported(s) == s.status.report # NoReport /\ s.status.report.bio

InPhase(phase, base) == [phase |-> phase, base |-> base]

NoStage == [stage |-> "none"]
FreeCalls == {k \in SecurityCall : secureCalls[k] = NoStage}

\* The stores a coroutine leaves at its next await, and the call it awaits.
Awaits(s, call) == [stores |-> s, call |-> call]
Done(s) == Awaits(s, NoStage)

\* The steps of a coroutine from one await to the next.  then is what follows the
\* status: nothing, the refresh after a change of the configuration, or that and
\* the enrollments.
LoadEnrollments(s) ==
  IF ~BioSupported(s) THEN Done(s)
  ELSE IF ~s.status.report.configured THEN Done([s EXCEPT !.enrollments = EmptyResource])
  ELSE Awaits([s EXCEPT !.enrollments = LoadBegun(@)], [stage |-> "enrollments", served |-> FALSE])

AfterSources(s, then) == IF then = "enrollments" THEN LoadEnrollments(s) ELSE Done(s)

AfterStatus(s, then, attached) ==
  IF then # "nothing" /\ attached
  THEN Awaits(s, [stage |-> "sources", then |-> then, served |-> FALSE]) ELSE AfterSources(s, then)

LoadStatus(s, then, attached) ==
  IF attached
  THEN Awaits([s EXCEPT !.status = LoadBegun(@)], [stage |-> "status", then |-> then, served |-> FALSE])
  ELSE AfterStatus(s, then, attached)

StatusReturned(s, a, then, attached) ==
  IF a.ok /\ a.value.bio /\ BioSupported(s)
  THEN Awaits([s EXCEPT !.sensor = LoadBegun(@)], [stage |-> "sensor", then |-> then, served |-> FALSE])
  ELSE AfterStatus(IF a.ok THEN [s EXCEPT !.sensor = EmptyResource] ELSE s, then, attached)

\* Mutant of RefreshAfter: the enrollments are not read again.
RefreshesStatusOnly(kind) == "sources"

RefreshAfter(kind) == IF kind \in {"bioEnroll", "bioRename", "bioRemove"} THEN "enrollments" ELSE "sources"

\* canAutoLoadSecurity, then loadSecurityStatus.
CanAutoLoad(w, s) ==
  w.screen = "security" /\ w.session.attached /\ w.session.id # 0 /\ s.status.phase = "idle"
MaybeLoad(w, s) == IF CanAutoLoad(w, s) THEN LoadStatus(s, "nothing", TRUE) ELSE Done(s)

-----------------------------------------------------------------------------
(* The service.                                                             *)

Post(m) == Len(secureWire) < MaxSecurityWire /\ secureWire' = Append(secureWire, m)
SnapshotOf(h) == [kind |-> "snapshot", session |-> [id |-> h.id, attached |-> h.attached]]

SecurityInit ==
  /\ shown = [session |-> Unselected, screen |-> "security", busy |-> FALSE]
  /\ secure = EmptySecurity
  /\ secureCalls = [k \in SecurityCall |-> NoStage]
  /\ held = [id |-> 0, key |-> NoReport, attached |-> FALSE] /\ heldMade = 0
  /\ keys = [t \in Authenticator |-> Fresh]
  /\ secureWire = <<>>
  /\ changes = 0 /\ failures = 0 /\ gaveUp = FALSE

PublishHeld ==
  /\ \/ /\ heldMade < MaxSecuritySelections /\ heldMade' = heldMade + 1
        /\ \E t \in Authenticator : held' = [id |-> heldMade + 1, key |-> t, attached |-> TRUE]
     \/ /\ held.id # 0 /\ UNCHANGED heldMade
        /\ \E att \in BOOLEAN : held' = [id |-> 0, key |-> NoReport, attached |-> att]
  /\ Post(SnapshotOf(held'))
  /\ gaveUp' = FALSE
  /\ UNCHANGED <<shown, secure, secureCalls, keys, changes, failures>>

\* The answer to a call that succeeds.
Told(call) ==
  CASE call.stage = "status" -> StatusOf(held.key)
    [] call.stage = "enrollments" -> keys[held.key].finger
    [] OTHER -> NoReport

Answers(k, ok, closed, value) ==
  [kind |-> "answer", call |-> k, ok |-> ok, closed |-> closed, value |-> value]

\* A call that fails has no effect.  One that succeeds may find its authenticator
\* closed.
ServeCall(k) ==
  LET call == secureCalls[k]
      changing == call.stage \in {"preview", "execute", "pin"}
  IN /\ call.stage \notin {"none", "sources", "reconnect"} /\ ~call.served
     /\ \E ok, closed \in BOOLEAN :
          /\ held.id = 0 => ~ok /\ closed
          /\ ok /\ changing => Accepts(held.key, call.base)
          /\ ok /\ call.stage \in {"sensor", "enrollments"} => held.key \in Sensing
          /\ IF held.id = 0 \/ (ok /\ (closed => call.stage = "execute")) THEN UNCHANGED failures
             ELSE failures < MaxSecurityFailures /\ failures' = failures + 1
          /\ held' = IF closed THEN [held EXCEPT !.id = 0, !.key = NoReport] ELSE held
          /\ keys' = IF ok /\ call.stage \in {"execute", "pin"}
                     THEN [keys EXCEPT ![held.key] = Mutated(@, call.base)] ELSE keys
          /\ Post(Answers(k, ok, closed, IF ok THEN Told(call) ELSE NoReport))
     /\ secureCalls' = [secureCalls EXCEPT ![k].served = TRUE]
     /\ UNCHANGED <<shown, secure, heldMade, changes, gaveUp>>

\* ReadSources; its snapshots are of the same selection.
ServeSources(k) ==
  /\ secureCalls[k].stage = "sources" /\ ~secureCalls[k].served
  /\ Post(Answers(k, TRUE, FALSE, NoReport))
  /\ secureCalls' = [secureCalls EXCEPT ![k].served = TRUE]
  /\ UNCHANGED <<shown, secure, heldVars, secureHistory>>

\* ReconnectSelection: without a selection it does nothing; else another manager is
\* opened, which publishes what it finds selected, or cannot be opened.
ServeReconnect(k) ==
  /\ secureCalls[k].stage = "reconnect" /\ ~secureCalls[k].served
  /\ \/ /\ held.id = 0
        /\ gaveUp' = TRUE /\ UNCHANGED <<held, heldMade>>
        /\ Post(Answers(k, TRUE, FALSE, NoReport))
     \/ /\ held.id # 0 /\ heldMade' = heldMade + 1
        /\ held' = [held EXCEPT !.id = heldMade + 1] /\ UNCHANGED gaveUp
        /\ Len(secureWire) < MaxSecurityWire
        /\ secureWire' = secureWire \o <<SnapshotOf(held'), Answers(k, TRUE, FALSE, NoReport)>>
     \/ /\ held.id # 0 /\ gaveUp' = TRUE /\ UNCHANGED heldMade
        /\ held' = [id |-> 0, key |-> NoReport, attached |-> FALSE]
        /\ Post(Answers(k, FALSE, FALSE, NoReport))
  /\ secureCalls' = [secureCalls EXCEPT ![k].served = TRUE]
  /\ UNCHANGED <<shown, secure, keys, changes, failures>>

-----------------------------------------------------------------------------
(* The window: what the user does.                                          *)

OnSecurity == shown.screen = "security" /\ shown.session.attached
MutationBusy == secure.mutation.phase \in {"previewing", "executing"}
ReviewOpen ==
  /\ OnSecurity /\ secure.status.report # NoReport
  /\ \/ secure.mutation.phase \in {"review", "previewFailed", "executeFailed"}
     \/ secure.mutation.phase = "executing" /\ secure.mutation.base.kind = "bioEnroll"

\* controlsDisabled and reloadDisabled; the dialog is modal.
ControlsEnabled ==
  /\ OnSecurity /\ secure.status.report # NoReport
  /\ shown.session.id # 0 /\ ~MutationBusy /\ ~ReviewOpen
ReloadEnabled == OnSecurity /\ ~ReviewOpen /\ ~shown.busy /\ ~MutationBusy

\* A coroutine reaches its next await; service calls but those of the sources are
\* operations.
Continues(k, next, w) ==
  /\ secure' = next.stores
  /\ secureCalls' = [secureCalls EXCEPT ![k] = next.call]
  /\ shown' = [w EXCEPT !.busy = @ \/ next.call.stage \notin {"none", "sources", "reconnect"}]

ByUser(k, next) ==
  /\ k \in FreeCalls /\ Continues(k, next, shown)
  /\ UNCHANGED <<heldVars, secureWire, failures, gaveUp>>

\* loadActiveScreen of a window w; the other screens are in modules of their own.
LoadsSecurity(w, s) ==
  IF CanAutoLoad(w, s)
  THEN \E k \in FreeCalls : Continues(k, LoadStatus(s, "nothing", TRUE), w)
  ELSE secure' = s /\ shown' = w /\ UNCHANGED secureCalls

ReloadSecurity(k) ==
  /\ ReloadEnabled
  /\ IF secure.status.report = NoReport THEN ~IsLoading(secure.status) ELSE secure.sensor.phase = "error"
  /\ ByUser(k, LoadStatus(secure, "nothing", TRUE)) /\ UNCHANGED changes

ReloadEnrollments(k) ==
  /\ ReloadEnabled /\ BioSupported(secure) /\ secure.status.report.configured
  /\ ~IsLoading(secure.enrollments)
  /\ ByUser(k, LoadEnrollments(secure)) /\ UNCHANGED changes

Asks == changes < MaxSecurityChanges /\ changes' = changes + 1

\* begin.. with the tests each makes of the report, up to its await; a PIN policy
\* that is not valid is edited again, for which nothing is selected.
BeginChange(k, base) ==
  LET report == secure.status.report
  IN \/ /\ base.kind = "pinPolicy" /\ base.value <= report.length
        /\ secure' = [secure EXCEPT !.mutation = InPhase("editing", base)]
        /\ UNCHANGED <<shown, secureCalls, heldVars, secureWire, secureHistory>>
     \/ /\ base.kind = "pinPolicy" => base.value > report.length
        /\ base.kind = "alwaysUv" => base.value # report.uv
        /\ base.kind = "bioEnroll" => report.bio
        /\ shown.session.id # 0
        /\ Asks
        /\ ByUser(k, Awaits([secure EXCEPT !.mutation = InPhase("previewing", base)],
                            [stage |-> "preview", base |-> base, served |-> FALSE]))

\* The buttons of the screen; a finger is renamed or removed in the table.
IsOffered(base) ==
  base.kind \in {"bioRename", "bioRemove"} =>
    /\ secure.enrollments.report \in FingerName \cup {Unnamed}
    /\ BioSupported(secure) /\ secure.status.report.configured

BeginMutation(k, base) == ControlsEnabled /\ IsOffered(base) /\ BeginChange(k, base)

RestartPreview(k) ==
  /\ ReviewOpen /\ secure.mutation.phase = "previewFailed" /\ ~shown.busy
  /\ BeginChange(k, secure.mutation.base)

ConfirmSecurity(k) ==
  /\ ReviewOpen
  /\ \/ secure.mutation.phase = "review" /\ shown.session.id # 0
     \/ secure.mutation.phase = "executeFailed" /\ ~shown.busy
  /\ ByUser(k, Awaits([secure EXCEPT !.mutation.phase = "executing"],
                      [stage |-> "execute", base |-> secure.mutation.base, served |-> FALSE]))
  /\ UNCHANGED changes

\* The cancel button of the dialog, and an edit of the PIN policy's form.
CloseSecurityMutation ==
  /\ \/ ReviewOpen /\ secure.mutation.phase # "executing"
     \/ ControlsEnabled /\ secure.mutation.phase = "editing"
  /\ secure' = [secure EXCEPT !.mutation = IdleMutation]
  /\ UNCHANGED <<shown, secureCalls, heldVars, secureWire, secureHistory>>

\* setAuthenticatorPIN, changeAuthenticatorPIN.
EnterPIN(k) ==
  /\ ControlsEnabled /\ Asks
  /\ ByUser(k, Awaits(secure, [stage |-> "pin", base |-> [kind |-> "pin"], served |-> FALSE]))

ChangeScreen(screen) ==
  /\ ~ReviewOpen /\ screen # shown.screen
  /\ LoadsSecurity([shown EXCEPT !.screen = screen], secure)
  /\ UNCHANGED <<heldVars, secureWire, secureHistory>>

-----------------------------------------------------------------------------
(* The window: what arrives.                                                *)

NextOnWire(kind) ==
  /\ secureWire # <<>> /\ Head(secureWire).kind = kind
  /\ secureWire' = Tail(secureWire)

\* applySessionSnapshot, and what handleDiscoveryChanged loads after it.
SnapshotArrives ==
  /\ NextOnWire("snapshot")
  /\ LET next == Head(secureWire).session
         now == shown.session
         w == [shown EXCEPT !.session = next]
         s == IF next = now THEN secure ELSE EmptySecurity
     IN IF next.attached # now.attached \/ (next.id # 0 /\ next.id # now.id)
        THEN LoadsSecurity(w, s)
        ELSE secure' = s /\ shown' = w /\ UNCHANGED secureCalls
  /\ UNCHANGED <<heldVars, secureHistory>>

\* What a coroutine publishes after its await: completeSecurityResourceLoad and
\* failSecurityResource.., runConfirmedPreview and -Execution.
Published(s, call, a) ==
  CASE call.stage \in {"status", "sensor", "enrollments"} -> [s EXCEPT ![call.stage] = LoadEnded(@, a)]
    [] call.stage = "preview" ->
         [s EXCEPT !.mutation = InPhase(IF a.ok THEN "review" ELSE "previewFailed", call.base)]
    [] call.stage = "execute" /\ ~a.ok -> [s EXCEPT !.mutation = InPhase("executeFailed", call.base)]
    [] OTHER -> s

\* Mutant of Finished: the mutation is left to the refresh to end.
LeavesExecuting(s) == s
Finished(s) == [s EXCEPT !.mutation = IdleMutation]

\* What it does next, up to its next await, in the window w.
GoesOn(s, call, a, w) ==
  LET attached == w.session.attached
  IN CASE call.stage = "status" -> StatusReturned(s, a, call.then, attached)
       [] call.stage = "sensor" -> AfterStatus(s, call.then, attached)
       [] call.stage = "sources" -> AfterSources(s, call.then)
       [] call.stage = "pin" /\ a.ok -> LoadStatus(s, "sources", attached)
       [] call.stage = "execute" /\ a.ok ->
            LoadStatus(Finished(s), RefreshAfter(call.base.kind), attached)
       [] call.stage = "reconnect" -> MaybeLoad(w, s)
       [] OTHER -> Done(s)

\* finishOperation and the boundary of the envelope come between the two.
AnswerArrives ==
  /\ NextOnWire("answer")
  /\ LET a == Head(secureWire)
         call == secureCalls[a.call]
         ends == [shown EXCEPT !.busy = IF call.stage \in {"sources", "reconnect"} THEN @ ELSE FALSE,
                               !.session.id = IF a.closed THEN 0 ELSE @]
         s == IF a.closed THEN EmptySecurity ELSE Published(secure, call, a)
     IN IF call.stage = "execute" /\ a.ok /\ call.base.kind = "reset"
        \* rediscoverAfterFactoryReset
        THEN Continues(a.call, Awaits(EmptySecurity, [stage |-> "reconnect", served |-> FALSE]),
                       [ends EXCEPT !.session = Unselected])
        ELSE Continues(a.call, GoesOn(s, call, a, ends), ends)
  /\ UNCHANGED <<heldVars, secureHistory>>

Change == [kind : {"alwaysUv"}, value : BOOLEAN] \cup [kind : {"pinPolicy"}, value : 0..1]
          \cup [kind : {"bioEnroll"}, value : {Unnamed}] \cup [kind : {"bioRename"}, value : FingerName]
          \cup [kind : {"bioRemove", "reset"}, value : {NoReport}]

SecurityNext ==
  \/ PublishHeld \/ SnapshotArrives \/ AnswerArrives \/ CloseSecurityMutation
  \/ \E screen \in {"security", "other"} : ChangeScreen(screen)
  \/ \E k \in SecurityCall :
       \/ ServeCall(k) \/ ServeSources(k) \/ ServeReconnect(k)
       \/ ReloadSecurity(k) \/ ReloadEnrollments(k)
       \/ RestartPreview(k) \/ ConfirmSecurity(k) \/ EnterPIN(k)
       \/ \E base \in Change : BeginMutation(k, base)

SecuritySpec == SecurityInit /\ [][SecurityNext]_securityVars

-----------------------------------------------------------------------------
(* Properties.                                                              *)

Pending(stage) == \E k \in SecurityCall : secureCalls[k].stage = stage

\* Nothing of the screen is shown as loading, previewed or executed unless the call it
\* waits for is under way, whatever was cleared, closed or reset meanwhile.
SecurityWaits ==
  /\ \A resource \in {"status", "sensor", "enrollments"} :
       IsLoading(secure[resource]) => Pending(resource)
  /\ secure.mutation.phase = "previewing" => Pending("preview")
  /\ secure.mutation.phase = "executing" => Pending("execute")

\* When nothing is under way, the window has the service's session, the screen is not
\* blank, and what is shown as ready is what the authenticator holds now, whichever
\* mutation, PIN or reset came before; unless a rediscovery found nothing to restart.
\* After a failed call the list of enrollments may be older: one that arrives late is not
\* read again with a status that has failed.
SecuritySettled ==
  secureWire = <<>> /\ FreeCalls = SecurityCall =>
    /\ ~CanAutoLoad(shown, secure)
    /\ gaveUp \/
         /\ shown.session = [id |-> held.id, attached |-> held.attached]
         /\ secure.status.phase = "ready" => held.id # 0 /\ secure.status.report = StatusOf(held.key)
         /\ failures = 0 /\ secure.enrollments.phase = "ready" =>
              held.id # 0 /\ secure.enrollments.report = keys[held.key].finger
         /\ secure.sensor.phase = "ready" => held.id # 0 /\ held.key \in Sensing

=============================================================================
