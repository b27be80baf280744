-------------------------- MODULE WorkbenchSession --------------------------
(***************************************************************************)
(* The window's view of the authenticator session (frontend/src/lib): the  *)
(* session store, the operation in the status bar, the prompt in the       *)
(* dialog and the retained inventory of one screen, against events and     *)
(* responses of the service that arrive while its handlers await others.   *)
(*                                                                         *)
(* The service appears as far as the window can tell: it starts, prompts,  *)
(* cancels and ends operations on the selection it has, and replaces a     *)
(* selection as SelectionLifecycle promises.  What it sends is on the      *)
(* wire.  Delivery says in which order the runtime hands it to the window:  *)
(* events and the responses of calls use different paths (runtime events,  *)
(* fetch), so nothing in the code makes it the order of sending.           *)
(***************************************************************************)
EXTENDS Naturals, Sequences, SequencesExt

CONSTANTS
  Selection,    \* selection IDs
  Op,           \* calls of runOperation
  Delivery,     \* "sent", "lateResponses" or "any": the order of delivery
  MayReject,    \* the runtime may reject a call (bridge failure)
  MaxPrompts,   \* bound: prompts per operation
  MaxUpdates,   \* bound: snapshots the service publishes
  MaxWire,      \* bound: messages on the wire
  None

ASSUME SwitchAssumption == Delivery \in {"sent", "lateResponses", "any"} /\ MayReject \in BOOLEAN
ASSUME BoundAssumption == MaxPrompts \in Nat /\ MaxUpdates \in Nat /\ MaxWire \in Nat
ASSUME NoneIsFresh == None \notin Selection \cup Op

VARIABLES
  \* Stores of the window
  session,     \* selectionId of authenticatorSession; None when it is not ready
  attached,    \* an attachment is selected, opened or not
  active,      \* statusBar.activeOperation
  prompt,      \* pendingInteraction
  inventory,   \* retained inventory: phase, and the selection the report is of
  screen,      \* activeScreen: "inventory", or a screen that loads nothing
  \* Suspended handlers of the window
  task,        \* awaiting the response of an operation: "idle", "inventory", "other"
  cancelling,  \* operations with a CancelOperation call under way
  answering,   \* prompts with a ResolveInteraction call under way
  \* Service
  selected, made, lost,   \* selection, IDs used, selections given up
  run, runSel, prompts,   \* operations: state, selection, prompts so far
  updates,
  wire

windowVars  == <<session, attached, active, prompt, inventory, screen>>
taskVars    == <<task, cancelling, answering>>
serviceVars == <<selected, made, lost, run, runSel, prompts, updates>>
vars == <<windowVars, taskVars, serviceVars, wire>>

Activity == [op : Op \cup {None}, cancel : {"no", "pending", "requested"}]
Phase == {"idle", "loading", "refreshing", "ready", "error", "unsupported"}
EmptyInventory == [phase |-> "idle", report |-> None]

Snapshot(s, att) == [kind |-> "snapshot", sel |-> s, att |-> att]
Progress(o) == [kind |-> "progress", op |-> o]
Prompt(o, n) == [kind |-> "prompt", op |-> o, id |-> <<o, n>>]
Envelope(o, ok, closed) == [kind |-> "envelope", op |-> o, ok |-> ok, closed |-> closed]
CancelAnswer(o, r) == [kind |-> "cancel", op |-> o, answer |-> r]
PromptAnswer(p, r) == [kind |-> "answer", id |-> p, answer |-> r]

Send(m) == Len(wire) < MaxWire /\ wire' = Append(wire, m)

\* What may be overtaken: nothing, responses of calls, or everything.
MayBeOvertaken(m) ==
  \/ Delivery = "any"
  \/ Delivery = "lateResponses" /\ m.kind \in {"envelope", "cancel", "answer"}
Deliverable == {i \in DOMAIN wire : \A j \in 1..(i - 1) : MayBeOvertaken(wire[j])}
Deliver(kind, i) == i \in Deliverable /\ wire[i].kind = kind /\ wire' = RemoveAt(wire, i)

CancelAnswered(o) == \E i \in DOMAIN wire : wire[i].kind = "cancel" /\ wire[i].op = o
PromptAnswered(p) == \E i \in DOMAIN wire : wire[i].kind = "answer" /\ wire[i].id = p

Init ==
  /\ session = None /\ attached = FALSE
  /\ active = None /\ prompt = None
  /\ inventory = EmptyInventory /\ screen = "other"
  /\ task = [o \in Op |-> "idle"]
  /\ cancelling = {} /\ answering = {}
  /\ selected = None /\ made = {} /\ lost = {}
  /\ run = [o \in Op |-> "none"]
  /\ runSel = [o \in Op |-> None]
  /\ prompts = [o \in Op |-> 0]
  /\ updates = 0
  /\ wire = <<>>

-----------------------------------------------------------------------------
(* The service.                                                             *)

InFlight == {o \in Op : run[o] \in {"running", "prompting"}}
Fresh == CHOOSE s \in Selection \ made : TRUE

\* The device manager has news.  A selection is replaced when its operations
\* are over, but those of a selection given up may still run.
Publish ==
  /\ updates < MaxUpdates
  /\ updates' = updates + 1
  /\ \E s \in {selected, None} \cup (IF made = Selection THEN {} ELSE {Fresh}) :
       /\ s # selected => \A o \in InFlight : runSel[o] \in lost
       /\ selected' = s
       /\ made' = made \cup ({s} \ {None})
       /\ \E att \in BOOLEAN : (s # None => att) /\ Send(Snapshot(s, att))
  /\ UNCHANGED <<windowVars, taskVars, lost, run, runSel, prompts>>

\* The call arrives; without a selection it fails as authenticator-closed.
OpArrives(o) ==
  /\ run[o] = "sent"
  /\ IF selected = None
     THEN /\ run' = [run EXCEPT ![o] = "ended"]
          /\ Send(Envelope(o, FALSE, TRUE))
          /\ UNCHANGED runSel
     ELSE /\ run' = [run EXCEPT ![o] = "running"]
          /\ runSel' = [runSel EXCEPT ![o] = selected]
          /\ UNCHANGED wire
  /\ UNCHANGED <<windowVars, taskVars, selected, made, lost, prompts, updates>>

\* Progress events are for operations of the current selection only.
OpReports(o) ==
  /\ run[o] = "running" /\ runSel[o] = selected
  /\ \A i \in DOMAIN wire : wire[i].kind # "progress"   \* bound: one on the wire
  /\ Send(Progress(o))
  /\ UNCHANGED <<windowVars, taskVars, serviceVars>>

OpPrompts(o) ==
  /\ run[o] = "running" /\ prompts[o] < MaxPrompts
  /\ run' = [run EXCEPT ![o] = "prompting"]
  /\ prompts' = [prompts EXCEPT ![o] = @ + 1]
  /\ Send(Prompt(o, prompts[o] + 1))
  /\ UNCHANGED <<windowVars, taskVars, selected, made, lost, runSel, updates>>

\* execute returns.  An operation that still waits for the user was cancelled.
\* On a selection that was given up the authenticator is closed.
OpEnds(o) ==
  /\ o \in InFlight
  /\ \E ok, closed \in BOOLEAN :
       /\ run[o] = "prompting" => ~ok
       /\ runSel[o] \in lost => closed
       /\ run' = [run EXCEPT ![o] = "ended"]
       /\ IF closed /\ selected = runSel[o]
          THEN selected' = None /\ lost' = lost \cup {runSel[o]}
          ELSE UNCHANGED <<selected, lost>>
       /\ Send(Envelope(o, ok, closed))
  /\ UNCHANGED <<windowVars, taskVars, made, runSel, prompts, updates>>

CancelArrives(o) ==
  /\ o \in cancelling /\ ~CancelAnswered(o)
  /\ LET found == o \in InFlight /\ runSel[o] = selected
     IN  Send(CancelAnswer(o, IF found THEN "true" ELSE "false"))
  /\ UNCHANGED <<windowVars, taskVars, serviceVars>>

AnswerArrives(p) ==
  /\ p \in answering /\ ~PromptAnswered(p)
  /\ LET o == p[1]
         open == run[o] = "prompting" /\ prompts[o] = p[2]
     IN  /\ run' = IF open THEN [run EXCEPT ![o] = "running"] ELSE run
         /\ Send(PromptAnswer(p, IF open THEN "true" ELSE "false"))
  /\ UNCHANGED <<windowVars, taskVars, selected, made, lost, runSel, prompts, updates>>

-----------------------------------------------------------------------------
(* Stores: begin and end of an operation, the authenticator boundary.       *)

BeginLoad(inv) ==
  [inv EXCEPT !.phase = IF inv.report = None THEN "loading" ELSE "refreshing"]

\* shouldAutoLoadPasskeys, for the session and inventory a handler has just set.
ShouldAutoLoad(s, inv, scr) ==
  /\ scr = "inventory" /\ s # None /\ inv.report = None
  /\ inv.phase \notin {"loading", "refreshing", "unsupported"}

Idle == {o \in Op : run[o] = "none"}

\* beginOperation, and the call goes out.
StartOperation(o, kind) ==
  /\ task' = [task EXCEPT ![o] = kind]
  /\ run' = [run EXCEPT ![o] = "sent"]
  /\ active' = [op |-> None, cancel |-> "no"]

\* maybeLoad of the active screen, at the end of a handler that set session to
\* s and inventory to inv.  Bound: it does nothing when every Op is used.
LoadActiveScreen(s, inv, scr) ==
  IF ShouldAutoLoad(s, inv, scr) /\ Idle # {}
  THEN /\ StartOperation(CHOOSE o \in Idle : TRUE, "inventory")
       /\ inventory' = BeginLoad(inv)
  ELSE /\ inventory' = inv
       /\ UNCHANGED <<task, run, active>>

\* activeOperation with what an event tells of its operation.
Patched(o) == [op |-> o, cancel |-> IF active = None THEN "no" ELSE active.cancel]

-----------------------------------------------------------------------------
(* The user.                                                                *)

\* Mutant of NavigateToScreen: leaving a screen dismisses its dialogs.
NavigationDismisses(scr) ==
  /\ scr # screen
  /\ screen' = scr /\ prompt' = None
  /\ LoadActiveScreen(session, inventory, scr)
  /\ UNCHANGED <<session, attached, cancelling, answering, selected, made, lost,
                 runSel, prompts, updates, wire>>

\* navigateToScreen does not ask whether an operation is running.
NavigateToScreen(scr) ==
  /\ scr # screen
  /\ screen' = scr
  /\ LoadActiveScreen(session, inventory, scr)
  /\ UNCHANGED <<session, attached, prompt, cancelling, answering, selected, made, lost,
                 runSel, prompts, updates, wire>>

\* A control that starts an operation is disabled while one is shown, or while
\* the inventory loads; reloading needs no selection.
Reload(o) ==
  /\ o \in Idle /\ active = None /\ screen = "inventory" /\ attached
  /\ inventory.phase \notin {"loading", "refreshing"}
  /\ StartOperation(o, "inventory")
  /\ inventory' = BeginLoad(inventory)
  /\ UNCHANGED <<session, attached, prompt, screen, cancelling, answering, selected, made, lost,
                 runSel, prompts, updates, wire>>

RunOther(o) ==
  /\ o \in Idle /\ active = None /\ session # None
  /\ StartOperation(o, "other")
  /\ UNCHANGED <<session, attached, prompt, inventory, screen, cancelling, answering, selected,
                 made, lost, runSel, prompts, updates, wire>>

CancelActiveOperation ==
  /\ active # None
  /\ active.op # None /\ active.cancel = "no"
  /\ active.op \notin cancelling          \* bound: one call per operation
  /\ active' = [active EXCEPT !.cancel = "pending"]
  /\ cancelling' = cancelling \cup {active.op}
  /\ UNCHANGED <<session, attached, prompt, inventory, screen, task, answering, serviceVars, wire>>

AnswerPendingInteraction ==
  /\ prompt # None
  /\ prompt \notin answering              \* bound: one call per prompt
  /\ answering' = answering \cup {prompt}
  /\ UNCHANGED <<windowVars, task, cancelling, serviceVars, wire>>

\* Choosing another token hides the prompt; the manager's answer is a snapshot.
SelectToken ==
  /\ prompt # None
  /\ prompt' = None
  /\ UNCHANGED <<session, attached, active, inventory, screen, taskVars, serviceVars, wire>>

-----------------------------------------------------------------------------
(* Handlers of events and continuations of the calls.                       *)

\* Mutant of HandleDiscoveryChanged: only another attachment clears the inventory.
AttachmentIsBoundary(i) ==
  /\ Deliver("snapshot", i)
  /\ LET s == wire[i].sel
         att == wire[i].att
         inv == IF att # attached THEN EmptyInventory ELSE inventory
     IN  /\ session' = s /\ attached' = att
         /\ prompt' = IF s # session \/ att # attached THEN None ELSE prompt
         /\ IF att # attached \/ s \notin {session, None}
            THEN LoadActiveScreen(s, inv, screen)
            ELSE inventory' = inv /\ UNCHANGED <<task, run, active>>
  /\ UNCHANGED <<screen, cancelling, answering, selected, made, lost,
                 runSel, prompts, updates>>

\* handleDiscoveryChanged: the session is what the service says; a change of
\* the selection clears what belongs to it and loads the active screen.
HandleDiscoveryChanged(i) ==
  /\ Deliver("snapshot", i)
  /\ LET s == wire[i].sel
         att == wire[i].att
         boundaryChanged == s # session \/ att # attached
         inv == IF boundaryChanged THEN EmptyInventory ELSE inventory
     IN  /\ session' = s /\ attached' = att
         /\ prompt' = IF boundaryChanged THEN None ELSE prompt
         /\ IF att # attached \/ s \notin {session, None}
            THEN LoadActiveScreen(s, inv, screen)
            ELSE inventory' = inv /\ UNCHANGED <<task, run, active>>
  /\ UNCHANGED <<screen, cancelling, answering, selected, made, lost,
                 runSel, prompts, updates>>

HandleOperationProgress(i) ==
  /\ Deliver("progress", i)
  /\ active' = Patched(wire[i].op)
  /\ UNCHANGED <<session, attached, prompt, inventory, screen, taskVars, serviceVars>>

HandleInteractionRequested(i) ==
  /\ Deliver("prompt", i)
  /\ prompt' = wire[i].id
  /\ active' = Patched(wire[i].op)
  /\ UNCHANGED <<session, attached, inventory, screen, taskVars, serviceVars>>

\* The inventory after a load of it: the report is of the operation's selection.
Loaded(o, ok) ==
  IF ok THEN [phase |-> "ready", report |-> runSel[o]]
  ELSE [inventory EXCEPT !.phase = "error"]

\* Mutant of OperationReturns: a cancelled operation leaves its activity.
FinishesUncancelled(i) ==
  /\ Deliver("envelope", i)
  /\ LET m == wire[i]
         inv == IF task[m.op] = "inventory" THEN Loaded(m.op, m.ok) ELSE inventory
     IN  /\ inventory' = IF m.closed THEN EmptyInventory ELSE inv
         /\ session' = IF m.closed THEN None ELSE session
         /\ task' = [task EXCEPT ![m.op] = "idle"]
  /\ active' = IF active # None /\ active.cancel # "no" THEN active ELSE None
  /\ prompt' = None
  /\ UNCHANGED <<attached, screen, cancelling, answering, serviceVars>>

\* Mutant of OperationReturns: a closed authenticator is not a boundary.
IgnoresClosed(i) ==
  /\ Deliver("envelope", i)
  /\ LET m == wire[i]
     IN  /\ inventory' = IF task[m.op] = "inventory" THEN Loaded(m.op, m.ok) ELSE inventory
         /\ task' = [task EXCEPT ![m.op] = "idle"]
  /\ active' = None /\ prompt' = None
  /\ UNCHANGED <<session, attached, screen, cancelling, answering, serviceVars>>

\* The envelope: the feature takes its result, the operation is finished, and
\* a closed authenticator clears the session.
OperationReturns(i) ==
  /\ Deliver("envelope", i)
  /\ LET m == wire[i]
         inv == IF task[m.op] = "inventory" THEN Loaded(m.op, m.ok) ELSE inventory
     IN  /\ inventory' = IF m.closed THEN EmptyInventory ELSE inv
         /\ session' = IF m.closed THEN None ELSE session
         /\ task' = [task EXCEPT ![m.op] = "idle"]
  /\ active' = None /\ prompt' = None
  /\ UNCHANGED <<attached, screen, cancelling, answering, serviceVars>>

\* The runtime rejects the call of an operation that did not reach the service.
OperationRejected(o) ==
  /\ MayReject /\ task[o] # "idle" /\ run[o] = "sent"
  /\ inventory' = IF task[o] = "inventory" THEN Loaded(o, FALSE) ELSE inventory
  /\ task' = [task EXCEPT ![o] = "idle"]
  /\ run' = [run EXCEPT ![o] = "ended"]
  /\ active' = None /\ prompt' = None
  /\ UNCHANGED <<session, attached, screen, cancelling, answering, selected, made, lost,
                 runSel, prompts, updates, wire>>

\* cancelActiveOperation after its await: the operation shown then is patched,
\* or, when the service knew nothing of the operation, finished.
CancelReturns(i) ==
  /\ Deliver("cancel", i)
  /\ cancelling' = cancelling \ {wire[i].op}
  /\ LET shown == IF active = None THEN [op |-> None, cancel |-> "no"] ELSE active
     IN  active' = IF wire[i].answer = "true" THEN [shown EXCEPT !.cancel = "requested"]
                   ELSE None
  /\ prompt' = None
  /\ UNCHANGED <<session, attached, inventory, screen, task, answering, serviceVars>>

CancelRejected(o) ==
  /\ MayReject /\ o \in cancelling
  /\ ~CancelAnswered(o)
  /\ cancelling' = cancelling \ {o}
  /\ LET shown == IF active = None THEN [op |-> None, cancel |-> "no"] ELSE active
     IN  active' = [shown EXCEPT !.cancel = "no"]
  /\ UNCHANGED <<session, attached, prompt, inventory, screen, task, answering, serviceVars, wire>>

\* answerPendingInteraction after its await.
AnswerReturns(i) ==
  /\ Deliver("answer", i)
  /\ answering' = answering \ {wire[i].id}
  /\ prompt' = None
  /\ UNCHANGED <<session, attached, active, inventory, screen, task, cancelling, serviceVars>>

\* A rejected answer is summarised as the failure of the operation.
AnswerRejected(p) ==
  /\ MayReject /\ p \in answering
  /\ ~PromptAnswered(p)
  /\ answering' = answering \ {p}
  /\ active' = None /\ prompt' = None
  /\ UNCHANGED <<session, attached, inventory, screen, task, cancelling, serviceVars, wire>>

ServiceStep ==
  \/ Publish
  \/ \E o \in Op : OpArrives(o) \/ OpReports(o) \/ OpPrompts(o) \/ OpEnds(o) \/ CancelArrives(o)
  \/ \E p \in answering : AnswerArrives(p)

UserStep ==
  \/ \E scr \in {"inventory", "other"} : NavigateToScreen(scr)
  \/ \E o \in Op : Reload(o) \/ RunOther(o)
  \/ CancelActiveOperation \/ AnswerPendingInteraction \/ SelectToken

HandlerStep ==
  \/ \E i \in DOMAIN wire :
       \/ HandleDiscoveryChanged(i) \/ HandleOperationProgress(i)
       \/ HandleInteractionRequested(i) \/ OperationReturns(i)
       \/ CancelReturns(i) \/ AnswerReturns(i)

RejectionStep ==
  \/ \E o \in Op : OperationRejected(o) \/ CancelRejected(o)
  \/ \E p \in answering : AnswerRejected(p)

Next == ServiceStep \/ UserStep \/ HandlerStep \/ RejectionStep

Spec == Init /\ [][Next]_vars

-----------------------------------------------------------------------------
(* Properties.                                                              *)

\* Every variable has its type, and an operation is awaited exactly while it
\* is on its way to the service, in it, or on its way back.
TypeOK ==
  /\ attached \in BOOLEAN
  /\ session \in Selection \cup {None} /\ selected \in Selection \cup {None}
  /\ active \in Activity \cup {None}
  /\ prompt \in (Op \X (1..MaxPrompts)) \cup {None}
  /\ inventory \in [phase : Phase, report : Selection \cup {None}]
  /\ screen \in {"inventory", "other"}
  /\ task \in [Op -> {"idle", "inventory", "other"}]
  /\ cancelling \in SUBSET Op
  /\ answering \in SUBSET (Op \X (1..MaxPrompts))
  /\ run \in [Op -> {"none", "sent", "running", "prompting", "ended"}]
  /\ \A o \in Op : task[o] # "idle" <=>
       \/ run[o] \in {"sent", "running", "prompting"}
       \/ \E i \in DOMAIN wire : wire[i].kind = "envelope" /\ wire[i].op = o
  /\ prompts \in [Op -> 0..MaxPrompts]

\* The inventory shows that it loads only while a load is under way: otherwise
\* its screen would wait for ever and never load by itself again.
LoadingHasLoad ==
  inventory.phase \in {"loading", "refreshing"} => \E o \in Op : task[o] = "inventory"

\* Nothing is under way: no handler is suspended and nothing is on the wire.
Quiet ==
  /\ \A o \in Op : task[o] = "idle"
  /\ cancelling = {} /\ answering = {} /\ wire = <<>>

\* When nothing is under way the status bar shows no operation and the dialog no
\* prompt: an operation left there disables the controls of every screen.
IdleWhenDone == Quiet => active = None /\ prompt = None

\* The service waits for the answer to prompt p.
Waits(p) == run[p[1]] = "prompting" /\ prompts[p[1]] = p[2]

\* The answer to a prompt of another operation comes back, or could not be sent:
\* answerPendingInteraction does not ask whose prompt is in the dialog.
AnswerOfAnother ==
  \/ \E i \in DOMAIN wire : AnswerReturns(i) /\ wire[i].id[1] # prompt[1]
  \/ \E p \in answering : AnswerRejected(p) /\ p[1] # prompt[1]

\* A step takes a prompt that the service waits for out of the dialog only when
\* the user chose another token, a cancellation came back (of its operation or an
\* earlier one), its answer could not be sent, an answer to another operation came
\* back, or the session changed: no other handler takes away the user's only way
\* to go on.
PromptKept ==
  prompt # None /\ prompt' = None /\ Waits(prompt) =>
    \/ SelectToken
    \/ \E i \in DOMAIN wire : CancelReturns(i)
    \/ AnswerRejected(prompt) \/ AnswerOfAnother
    \/ session' # session \/ attached' # attached

\* The report on the screen is never of another selection than the window shows.
\* (It may show none: of three operations that overlap, one that lost its
\* authenticator may clear the session of the next, whose load then fills the
\* inventory.)
ReportOfSession == session # None => inventory.report \in {None, session}

\* What the window shows of its operations and its inventory has a cause.
WorkbenchInv == TypeOK /\ LoadingHasLoad /\ ReportOfSession

\* When nothing is under way, the window shows the selection the service has.
SessionAgrees == Quiet => session = selected

=============================================================================
