-------------------------- MODULE SelectionService --------------------------
(***************************************************************************)
(* The authenticator session of the Go backend (service/): which device    *)
(* manager is in use, which authenticator is selected, which operations    *)
(* run on it, and how Discover, SetSelection, ReconnectSelection, the      *)
(* update forwarder of each manager and ServiceShutdown interleave.        *)
(*                                                                         *)
(* A critical section of s.mu is one step.  selectionGate is a variable,   *)
(* because it is held across blocking calls.  Taking the gate, re-checking *)
(* s.closed and the first critical section under the gate are one step:    *)
(* nothing another goroutine reads changes in between.                     *)
(***************************************************************************)
EXTENDS Naturals

CONSTANTS
  Caller,     \* goroutines that serve RPCs of the window
  Manager,    \* device managers the service can open, each used once
  Key,        \* <<m, k>> is the k-th authenticator client opened by manager m
  Selection,  \* fresh selection IDs (UUIDs)
  Op,         \* calls of runOperation, each with a fresh operation ID
  Shutdown,   \* the goroutine that runs ServiceShutdown
  Stubborn,   \* operations that return only when their client is closed
  MaxPosts,   \* bound: updates that managers publish after their initial ones
  None

Process == Caller \cup Manager \cup {Shutdown}
Client  == Manager \X Key
Owner(c) == c[1]

ASSUME ProcessAssumption ==
  /\ Caller \cap Manager = {}
  /\ Shutdown \notin Caller \cup Manager
ASSUME NoneAssumption ==
  None \notin Process \cup Client \cup Selection \cup Op
ASSUME StubbornAssumption == Stubborn \subseteq Op
ASSUME BoundAssumption == MaxPosts \in Nat

VARIABLES
  \* Service fields
  closed,       \* Service.closed, and deviceContext is cancelled
  gate,         \* holder of selectionGate, or None
  devices,      \* Service.devices (devicesDone is closed when pc[devices] = "done")
  selected,     \* Service.selected
  selClient,    \* selection.runtime.lifecycle of every selection made so far
  published,    \* Selection of the last EventDiscoveryChanged snapshot
  \* Goroutines: the RPCs, one forwarder per manager, and shutdown
  pc,
  manager,      \* local: the manager a goroutine opened, closes or forwards for
  update,       \* local: the client of the update being applied
  retired,      \* local: the selection whose operations are being ended
  awaited,      \* local: operations cancelAndWait still waits for
  after,        \* local: what a caller does once ensureDeviceManager succeeds
  \* Operations
  op, opSel,    \* control state and captured selection of each operation
  cancelled,    \* operations whose context was cancelled
  abandoned,    \* history: selections retired by an operation of their own
  \* Kit (external): managers, their clients and their update channel
  mgr, clientState, pending, posts

serviceVars == <<closed, gate, devices, selected, selClient, published>>
localVars   == <<pc, manager, update, retired, awaited, after>>
opVars      == <<op, opSel, cancelled, abandoned>>
kitVars     == <<mgr, clientState, pending, posts>>
vars        == <<serviceVars, localVars, opVars, kitVars>>

CallerPC   == {"idle", "ensure", "open", "install", "restart", "select", "selecting"}
ApplyPC    == {"reconcile", "retire", "cancel", "await", "create", "publish"}
TeardownPC == {"closeManager", "cancelAll", "awaitAll"}
PC == CallerPC \cup ApplyPC \cup TeardownPC
        \cup {"drain", "off", "next", "gate", "done", "takeover", "stopped"}

\* Control points at which a goroutine owns selectionGate.
Gated == {"open", "install", "selecting"} \cup ApplyPC \cup TeardownPC

Registered == {o \in Op : op[o] \in {"running", "closing", "ending"}}
OpenClients(m) == {c \in Client : Owner(c) = m /\ clientState[c] = "open"}

Init ==
  /\ closed = FALSE /\ gate = None /\ devices = None
  /\ selected = None /\ published = None
  /\ selClient = [s \in Selection |-> None]
  /\ pc = [p \in Process |-> IF p \in Manager THEN "off" ELSE "idle"]
  /\ manager = [p \in Process |-> IF p \in Manager THEN p ELSE None]
  /\ update = [p \in Process |-> None]
  /\ retired = [p \in Process |-> None]
  /\ awaited = [p \in Process |-> {}]
  /\ after = [p \in Process |-> "idle"]
  /\ op = [o \in Op |-> "idle"]
  /\ opSel = [o \in Op |-> None]
  /\ cancelled = {} /\ abandoned = {}
  /\ mgr = [m \in Manager |-> "unopened"]
  /\ clientState = [c \in Client |-> "fresh"]
  /\ pending = [m \in Manager |-> {}]
  /\ posts = 0

Goto(p, l) == pc' = [pc EXCEPT ![p] = l]

-----------------------------------------------------------------------------
(* The kit's device manager, seen from the service.                        *)

\* A manager owns at most one open client: all but those in keep get closed.
LeaveOpen(m, keep) ==
  clientState' = [c \in Client |->
    IF c \in keep THEN "open"
    ELSE IF c \in OpenClients(m) THEN "closed" ELSE clientState[c]]

\* What an update of manager m may select: nothing, its open client, a new one.
Selectable(m) ==
  {None} \cup {c \in Client : Owner(c) = m /\ clientState[c] \in {"fresh", "open"}}

\* The manager publishes a new state on its one-slot update channel.
PostUpdate(m) ==
  /\ mgr[m] = "open" /\ pending[m] = {} /\ posts < MaxPosts
  /\ \E u \in Selectable(m) :
       /\ pending' = [pending EXCEPT ![m] = {u}]
       /\ LeaveOpen(m, {u} \ {None})
  /\ posts' = posts + 1
  /\ UNCHANGED <<serviceVars, localVars, opVars, mgr>>

\* An authenticator closes under an operation: a reset, a disconnect.
ClientLost(c) ==
  /\ clientState[c] = "open"
  /\ clientState' = [clientState EXCEPT ![c] = "closed"]
  /\ UNCHANGED <<serviceVars, localVars, opVars, mgr, pending, posts>>

\* A manager opened with deviceContext stops when shutdown cancels it.
ManagerStops(m) ==
  /\ closed /\ mgr[m] = "open"
  /\ mgr' = [mgr EXCEPT ![m] = "closed"]
  /\ LeaveOpen(m, {})
  /\ UNCHANGED <<serviceVars, localVars, opVars, pending, posts>>

-----------------------------------------------------------------------------
(* RPCs.                                                                   *)

Discover(p) ==
  /\ p \in Caller /\ pc[p] = "idle"
  /\ Goto(p, "ensure")
  /\ after' = [after EXCEPT ![p] = "idle"]
  /\ UNCHANGED <<serviceVars, manager, update, retired, awaited, opVars, kitVars>>

SetSelection(p) ==
  /\ p \in Caller /\ pc[p] = "idle"
  /\ Goto(p, "select")
  /\ UNCHANGED <<serviceVars, manager, update, retired, awaited, after, opVars, kitVars>>

\* The selected authenticator and the preferred device are read before the
\* gate is taken; without a selection the call returns at once.  preferred is
\* empty while the first update of a manager is being applied.
ReconnectSelection(p) ==
  /\ p \in Caller /\ pc[p] = "idle"
  /\ selected # None
  /\ Goto(p, "restart")
  /\ \E preferred \in {"idle", "select"} : after' = [after EXCEPT ![p] = preferred]
  /\ UNCHANGED <<serviceVars, manager, update, retired, awaited, opVars, kitVars>>

\* lockSelection fails: the request was cancelled while it waited, ...
LockCancelled(p) ==
  /\ p \in Caller /\ pc[p] \in {"ensure", "restart", "select"}
  /\ Goto(p, "idle")
  /\ UNCHANGED <<serviceVars, manager, update, retired, awaited, after, opVars, kitVars>>

\* ... or the service was closed when its turn came.
LockRefused(p) ==
  /\ p \in Caller /\ pc[p] \in {"ensure", "restart", "select"}
  /\ gate = None /\ closed
  /\ Goto(p, "idle")
  /\ UNCHANGED <<serviceVars, manager, update, retired, awaited, after, opVars, kitVars>>

\* Mutant of MayLock: closed is not checked again once the gate is taken.
LockIgnoresClosed(p, l) == pc[p] = l /\ gate = None

\* lockSelection succeeds for p waiting at control point l.
MayLock(p, l) == pc[p] = l /\ gate = None /\ ~closed

EndCall(p) ==
  /\ gate' = None
  /\ Goto(p, "idle")

-----------------------------------------------------------------------------
(* ensureDeviceManager.                                                    *)

EnsureRepublishes(p) ==
  /\ MayLock(p, "ensure") /\ devices # None
  /\ published' = selected
  /\ Goto(p, after[p])
  /\ UNCHANGED <<closed, gate, devices, selected, selClient,
                 manager, update, retired, awaited, after, opVars, kitVars>>

EnsureLocks(p) ==
  /\ MayLock(p, "ensure") /\ devices = None
  /\ gate' = p
  /\ Goto(p, "open")
  /\ UNCHANGED <<closed, devices, selected, selClient, published,
                 manager, update, retired, awaited, after, opVars, kitVars>>

\* One manager that was never open, or none is left: which one is no choice.
NewManager ==
  {m \in Manager : mgr[m] = "unopened" /\ m = CHOOSE n \in Manager : mgr[n] = "unopened"}

\* Opening fails, or the opened manager has no initial update and is closed.
OpenFails(p) ==
  /\ pc[p] = "open"
  /\ EndCall(p)
  /\ \/ UNCHANGED mgr
     \/ \E m \in NewManager : mgr' = [mgr EXCEPT ![m] = "closed"]
  /\ UNCHANGED <<closed, devices, selected, selClient, published, manager, update,
                 retired, awaited, after, opVars, clientState, pending, posts>>

OpenSucceeds(p) ==
  /\ pc[p] = "open"
  /\ \E m \in NewManager : \E u \in Selectable(m) :
       /\ mgr' = [mgr EXCEPT ![m] = "open"]
       /\ LeaveOpen(m, {u} \ {None})
       /\ manager' = [manager EXCEPT ![p] = m]
       /\ update' = [update EXCEPT ![p] = u]
  /\ Goto(p, "install")
  /\ UNCHANGED <<serviceVars, retired, awaited, after, opVars, pending, posts>>

InstallManager(p) ==
  /\ pc[p] = "install" /\ ~closed
  /\ devices' = manager[p]
  /\ Goto(p, "reconcile")
  /\ UNCHANGED <<closed, gate, selected, selClient, published,
                 manager, update, retired, awaited, after, opVars, kitVars>>

\* Mutant of InstallRefused: the manager opened during shutdown is not closed.
InstallForgetsManager(p) ==
  /\ pc[p] = "install" /\ closed
  /\ EndCall(p)
  /\ UNCHANGED <<closed, devices, selected, selClient, published, mgr, clientState,
                 manager, update, retired, awaited, after, opVars, pending, posts>>

InstallRefused(p) ==
  /\ pc[p] = "install" /\ closed
  /\ mgr' = [mgr EXCEPT ![manager[p]] = "closed"]
  /\ LeaveOpen(manager[p], {})
  /\ EndCall(p)
  /\ UNCHANGED <<closed, devices, selected, selClient, published,
                 manager, update, retired, awaited, after, opVars, pending, posts>>

-----------------------------------------------------------------------------
(* forwardDeviceUpdates: the goroutine of manager m.                       *)

ForwarderReceives(m) ==
  /\ pc[m] = "next"
  /\ \E u \in pending[m] : update' = [update EXCEPT ![m] = u]
  /\ pending' = [pending EXCEPT ![m] = {}]
  /\ Goto(m, "gate")
  /\ UNCHANGED <<serviceVars, manager, retired, awaited, after, opVars,
                 mgr, clientState, posts>>

\* Mutant of ForwarderApplies: whether m is still in use is not checked.
ForwarderAppliesAlways(m) ==
  /\ MayLock(m, "gate")
  /\ gate' = m
  /\ Goto(m, "reconcile")
  /\ UNCHANGED <<closed, devices, selected, selClient, published,
                 manager, update, retired, awaited, after, opVars, kitVars>>

ForwarderApplies(m) ==
  /\ MayLock(m, "gate") /\ devices = m
  /\ gate' = m
  /\ Goto(m, "reconcile")
  /\ UNCHANGED <<closed, devices, selected, selClient, published,
                 manager, update, retired, awaited, after, opVars, kitVars>>

\* The manager was replaced while the update waited for the gate.
ForwarderDrops(m) ==
  /\ MayLock(m, "gate") /\ devices # m
  /\ Goto(m, "next")
  /\ UNCHANGED <<serviceVars, manager, update, retired, awaited, after, opVars, kitVars>>

\* The channel is closed and empty, or the service was closed at the gate.
ForwarderEnds(m) ==
  /\ \/ pc[m] = "next" /\ mgr[m] = "closed" /\ pending[m] = {}
     \/ pc[m] = "gate" /\ closed
  /\ Goto(m, "done")
  /\ UNCHANGED <<serviceVars, manager, update, retired, awaited, after, opVars, kitVars>>

-----------------------------------------------------------------------------
(* applyDeviceUpdate and reconcileSelection, run by a caller or a forwarder. *)

\* Read the current selection; the same client keeps its selection.
Reconcile(p) ==
  /\ pc[p] = "reconcile"
  /\ retired' = [retired EXCEPT ![p] = selected]
  /\ Goto(p, IF selected = None THEN "create"
             ELSE IF selClient[selected] = update[p] THEN "publish" ELSE "retire")
  /\ UNCHANGED <<serviceVars, manager, update, awaited, after, opVars, kitVars>>

\* retireSelection: an operation may have retired the selection meanwhile.
Retire(p) ==
  /\ pc[p] = "retire"
  /\ selected' = IF selected = retired[p] THEN None ELSE selected
  /\ Goto(p, "cancel")
  /\ UNCHANGED <<closed, gate, devices, selClient, published,
                 manager, update, retired, awaited, after, opVars, kitVars>>

\* cancelAndWait collects and cancels the operations of the selection...
CancelOperations(p) ==
  /\ pc[p] \in {"cancel", "cancelAll"}
  /\ LET running == {o \in Registered : opSel[o] = retired[p]}
     IN  /\ awaited' = [awaited EXCEPT ![p] = running]
         /\ cancelled' = cancelled \cup running
  /\ Goto(p, IF pc[p] = "cancel" THEN "await" ELSE "awaitAll")
  /\ UNCHANGED <<serviceVars, manager, update, retired, after, op, opSel, abandoned, kitVars>>

\* ... and waits until each of them closed its done channel.
\* Mutant of AwaitReplaced: operations are cancelled but not waited for.
CancelWithoutWaiting(p) ==
  /\ pc[p] = "await"
  /\ awaited' = [awaited EXCEPT ![p] = {}]
  /\ Goto(p, "create")
  /\ UNCHANGED <<serviceVars, manager, update, retired, after, opVars, kitVars>>

AwaitReplaced(p) ==
  /\ pc[p] = "await" /\ awaited[p] \cap Registered = {}
  /\ awaited' = [awaited EXCEPT ![p] = {}]
  /\ Goto(p, "create")
  /\ UNCHANGED <<serviceVars, manager, update, retired, after, opVars, kitVars>>

\* A UUID nobody used before; which one makes no difference.
Unused == {s \in Selection : selClient[s] = None}
FreshSelection == CHOOSE s \in Unused : TRUE

CreateSelection(p) ==
  /\ pc[p] = "create"
  /\ IF update[p] = None \/ closed
     THEN UNCHANGED <<selected, selClient>>
     ELSE /\ Unused # {}
          /\ selClient' = [selClient EXCEPT ![FreshSelection] = update[p]]
          /\ selected' = FreshSelection
  /\ Goto(p, "publish")
  /\ UNCHANGED <<closed, gate, devices, published,
                 manager, update, retired, awaited, after, opVars, kitVars>>

\* Mutant of PublishSnapshot: the snapshot is taken before reconciling.
PublishStaleSnapshot(p) ==
  /\ pc[p] = "publish"
  /\ published' = IF closed THEN published ELSE retired[p]
  /\ gate' = None
  /\ pc' = IF p \in Manager THEN [pc EXCEPT ![p] = "next"]
           ELSE [pc EXCEPT ![p] = after[p], ![manager[p]] = "next"]
  /\ update' = [update EXCEPT ![p] = None]
  /\ retired' = [retired EXCEPT ![p] = None]
  /\ UNCHANGED <<closed, devices, selected, selClient, manager, awaited, after, opVars, kitVars>>

\* The snapshot is taken and emitted, a new manager gets its forwarder, and
\* the gate is released; emit drops the event once the service is closed.
PublishSnapshot(p) ==
  /\ pc[p] = "publish"
  /\ published' = IF closed THEN published ELSE selected
  /\ gate' = None
  /\ pc' = IF p \in Manager THEN [pc EXCEPT ![p] = "next"]
           ELSE [pc EXCEPT ![p] = after[p], ![manager[p]] = "next"]
  /\ update' = [update EXCEPT ![p] = None]
  /\ retired' = [retired EXCEPT ![p] = None]
  /\ UNCHANGED <<closed, devices, selected, selClient, manager, awaited, after, opVars, kitVars>>

-----------------------------------------------------------------------------
(* The gated call of SetSelection and SetEndpointSelection.                 *)

SelectLocks(p) ==
  /\ MayLock(p, "select") /\ devices # None
  /\ gate' = p
  /\ Goto(p, "selecting")
  /\ UNCHANGED <<closed, devices, selected, selClient, published,
                 manager, update, retired, awaited, after, opVars, kitVars>>

SelectWithoutManager(p) ==
  /\ MayLock(p, "select") /\ devices = None
  /\ Goto(p, "idle")
  /\ UNCHANGED <<serviceVars, manager, update, retired, awaited, after, opVars, kitVars>>

\* manager.Select returned; what it changed arrives as an update.
SelectReturns(p) ==
  /\ pc[p] = "selecting"
  /\ EndCall(p)
  /\ UNCHANGED <<closed, devices, selected, selClient, published,
                 manager, update, retired, awaited, after, opVars, kitVars>>

-----------------------------------------------------------------------------
(* restartDeviceManager and close.                                          *)

\* The manager and the selection are taken out of the service at once.
RestartDetaches(p) ==
  /\ MayLock(p, "restart")
  /\ gate' = p
  /\ manager' = [manager EXCEPT ![p] = devices]
  /\ retired' = [retired EXCEPT ![p] = selected]
  /\ devices' = None /\ selected' = None
  /\ Goto(p, "closeManager")
  /\ UNCHANGED <<closed, selClient, published, update, awaited, after, opVars, kitVars>>

BeginShutdown ==
  /\ pc[Shutdown] = "idle"
  /\ closed' = TRUE
  /\ Goto(Shutdown, "takeover")
  /\ UNCHANGED <<gate, devices, selected, selClient, published,
                 manager, update, retired, awaited, after, opVars, kitVars>>

\* close takes the gate whatever closed says and leaves devices in place.
ShutdownDetaches ==
  /\ pc[Shutdown] = "takeover" /\ gate = None
  /\ gate' = Shutdown
  /\ manager' = [manager EXCEPT ![Shutdown] = devices]
  /\ retired' = [retired EXCEPT ![Shutdown] = selected]
  /\ selected' = None
  /\ Goto(Shutdown, "closeManager")
  /\ UNCHANGED <<closed, devices, selClient, published, update, awaited, after, opVars, kitVars>>

\* Mutant of CloseManager: it waits for the operations before closing.
CloseManagerLast(p) ==
  /\ pc[p] = "closeManager"
  /\ \A o \in Registered : opSel[o] # retired[p]
  /\ IF manager[p] = None THEN UNCHANGED <<mgr, clientState>>
     ELSE /\ mgr' = [mgr EXCEPT ![manager[p]] = "closed"]
          /\ LeaveOpen(manager[p], {})
  /\ Goto(p, IF retired[p] = None THEN "awaitAll" ELSE "cancelAll")
  /\ UNCHANGED <<serviceVars, manager, update, retired, awaited, after, opVars, pending, posts>>

CloseManager(p) ==
  /\ pc[p] = "closeManager"
  /\ IF manager[p] = None THEN UNCHANGED <<mgr, clientState>>
     ELSE /\ mgr' = [mgr EXCEPT ![manager[p]] = "closed"]
          /\ LeaveOpen(manager[p], {})
  /\ Goto(p, IF retired[p] = None THEN "awaitAll" ELSE "cancelAll")
  /\ UNCHANGED <<serviceVars, manager, update, retired, awaited, after, opVars, pending, posts>>

\* Mutant of AwaitDetached: the gate is kept until the forwarder has ended.
AwaitForwarderUnderGate(p) ==
  /\ pc[p] = "awaitAll" /\ awaited[p] \cap Registered = {}
  /\ manager[p] # None => pc[manager[p]] = "done"
  /\ gate' = None
  /\ awaited' = [awaited EXCEPT ![p] = {}]
  /\ retired' = [retired EXCEPT ![p] = None]
  /\ Goto(p, "drain")
  /\ UNCHANGED <<closed, devices, selected, selClient, published,
                 manager, update, after, opVars, kitVars>>

\* The operations are done: release the gate.
AwaitDetached(p) ==
  /\ pc[p] = "awaitAll" /\ awaited[p] \cap Registered = {}
  /\ gate' = None
  /\ awaited' = [awaited EXCEPT ![p] = {}]
  /\ retired' = [retired EXCEPT ![p] = None]
  /\ Goto(p, "drain")
  /\ UNCHANGED <<closed, devices, selected, selClient, published,
                 manager, update, after, opVars, kitVars>>

\* Wait for the forwarder of the closed manager; a restart then reopens.
Drain(p) ==
  /\ pc[p] = "drain"
  /\ manager[p] # None => pc[manager[p]] = "done"
  /\ Goto(p, IF p = Shutdown THEN "stopped" ELSE "ensure")
  /\ UNCHANGED <<serviceVars, manager, update, retired, awaited, after, opVars, kitVars>>

-----------------------------------------------------------------------------
(* runOperation and CancelOperation.                                        *)

\* Mutant of OpCaptures: a missing selection is not noticed.
OpCapturesNothing(o) ==
  /\ op[o] = "idle"
  /\ op' = [op EXCEPT ![o] = "captured"]
  /\ opSel' = [opSel EXCEPT ![o] = selected]
  /\ UNCHANGED <<serviceVars, localVars, cancelled, abandoned, kitVars>>

OpCaptures(o) ==
  /\ op[o] = "idle" /\ selected # None
  /\ op' = [op EXCEPT ![o] = "captured"]
  /\ opSel' = [opSel EXCEPT ![o] = selected]
  /\ UNCHANGED <<serviceVars, localVars, cancelled, abandoned, kitVars>>

\* Mutant of OpRegisters: the captured selection is not compared again.
OpRegistersLate(o) ==
  /\ op[o] = "captured"
  /\ IF ~closed
     THEN op' = [op EXCEPT ![o] = "running"] /\ UNCHANGED opSel
     ELSE op' = [op EXCEPT ![o] = "done"] /\ opSel' = [opSel EXCEPT ![o] = None]
  /\ UNCHANGED <<serviceVars, localVars, cancelled, abandoned, kitVars>>

\* registerOperation refuses a selection that was replaced since the capture.
OpRegisters(o) ==
  /\ op[o] = "captured"
  /\ IF ~closed /\ selected = opSel[o]
     THEN op' = [op EXCEPT ![o] = "running"] /\ UNCHANGED opSel
     ELSE op' = [op EXCEPT ![o] = "done"] /\ opSel' = [opSel EXCEPT ![o] = None]
  /\ UNCHANGED <<serviceVars, localVars, cancelled, abandoned, kitVars>>

\* execute returns; the operation then asks whether its client was closed.
OpReturns(o) ==
  /\ op[o] = "running"
  /\ op' = [op EXCEPT ![o] =
       IF clientState[selClient[opSel[o]]] = "closed" THEN "closing" ELSE "ending"]
  /\ UNCHANGED <<serviceVars, localVars, opSel, cancelled, abandoned, kitVars>>

OpRetires(o) ==
  /\ op[o] = "closing"
  /\ op' = [op EXCEPT ![o] = "ending"]
  /\ IF selected = opSel[o]
     THEN selected' = None /\ abandoned' = abandoned \cup {opSel[o]}
     ELSE UNCHANGED <<selected, abandoned>>
  /\ UNCHANGED <<closed, gate, devices, selClient, published,
                 localVars, opSel, cancelled, kitVars>>

OpUnregisters(o) ==
  /\ op[o] = "ending"
  /\ op' = [op EXCEPT ![o] = "done"]
  /\ opSel' = [opSel EXCEPT ![o] = None]
  /\ cancelled' = cancelled \ {o}
  /\ UNCHANGED <<serviceVars, localVars, abandoned, kitVars>>

\* CancelOperation finds only the operations of the current selection.
CancelOperation(o) ==
  /\ o \in Registered /\ opSel[o] = selected
  /\ cancelled' = cancelled \cup {o}
  /\ UNCHANGED <<serviceVars, localVars, op, opSel, abandoned, kitVars>>

-----------------------------------------------------------------------------

CallerStep(p) ==
  \/ LockRefused(p) \/ EnsureRepublishes(p) \/ EnsureLocks(p)
  \/ OpenFails(p) \/ OpenSucceeds(p) \/ InstallManager(p) \/ InstallRefused(p)
  \/ SelectLocks(p) \/ SelectWithoutManager(p) \/ SelectReturns(p)
  \/ RestartDetaches(p)

ForwarderStep(m) ==
  \/ ForwarderReceives(m) \/ ForwarderApplies(m) \/ ForwarderDrops(m) \/ ForwarderEnds(m)

ApplyStep(p) ==
  \/ Reconcile(p) \/ Retire(p) \/ CancelOperations(p)
  \/ AwaitReplaced(p) \/ CreateSelection(p) \/ PublishSnapshot(p)

TeardownStep(p) == CloseManager(p) \/ AwaitDetached(p) \/ Drain(p)

OpStep(o) == OpRegisters(o) \/ OpReturns(o) \/ OpRetires(o) \/ OpUnregisters(o)

KitStep ==
  \/ \E m \in Manager : PostUpdate(m) \/ ManagerStops(m)
  \/ \E c \in Client : ClientLost(c)

Next ==
  \/ \E p \in Caller : Discover(p) \/ SetSelection(p) \/ ReconnectSelection(p)
                      \/ LockCancelled(p)
  \/ \E p \in Caller : CallerStep(p)
  \/ \E m \in Manager : ForwarderStep(m)
  \/ \E p \in Process : ApplyStep(p) \/ TeardownStep(p)
  \/ BeginShutdown \/ ShutdownDetaches
  \/ \E o \in Op : OpCaptures(o) \/ OpStep(o) \/ CancelOperation(o)
  \/ KitStep

Spec == Init /\ [][Next]_vars

\* Goroutines that can run do run.  A blocked sender on selectionGate is served
\* in arrival order, which no newcomer overtakes for ever: strong fairness on
\* the steps that take the gate.  An operation returns once its client is
\* closed, and, unless it is stubborn, once it is cancelled.
MustReturn(o) ==
  \/ clientState[selClient[opSel[o]]] = "closed"
  \/ o \in cancelled \ Stubborn

Fairness ==
  /\ \A p \in Caller : SF_vars(CallerStep(p))
  /\ \A m \in Manager : SF_vars(ForwarderStep(m))
  /\ \A p \in Process : WF_vars(ApplyStep(p) \/ TeardownStep(p))
  /\ SF_vars(ShutdownDetaches)
  /\ \A o \in Op : /\ WF_vars(OpRegisters(o) \/ OpRetires(o) \/ OpUnregisters(o))
                   /\ WF_vars(OpReturns(o) /\ MustReturn(o))

FairSpec == Spec /\ Fairness

-----------------------------------------------------------------------------
(* Properties.                                                              *)

\* Every variable has its type, and the selection in use has an
\* authenticator, as has the selection of every unfinished operation.
TypeOK ==
  /\ closed \in BOOLEAN
  /\ gate \in Process \cup {None}
  /\ devices \in Manager \cup {None}
  /\ selected \in Selection \cup {None}
  /\ selClient \in [Selection -> Client \cup {None}]
  /\ published \in Selection \cup {None}
  /\ pc \in [Process -> PC]
  /\ manager \in [Process -> Manager \cup {None}]
  /\ update \in [Process -> Client \cup {None}]
  /\ retired \in [Process -> Selection \cup {None}]
  /\ awaited \in [Process -> SUBSET Op]
  /\ after \in [Process -> {"idle", "select"}]
  /\ op \in [Op -> {"idle", "captured", "running", "closing", "ending", "done"}]
  /\ opSel \in [Op -> Selection \cup {None}]
  /\ \A o \in Op : op[o] \in {"captured", "running", "closing", "ending"} =>
       opSel[o] # None /\ selClient[opSel[o]] # None
  /\ selected # None => selClient[selected] # None
  /\ cancelled \in SUBSET Op
  /\ abandoned \in SUBSET Selection
  /\ mgr \in [Manager -> {"unopened", "open", "closed"}]
  /\ clientState \in [Client -> {"fresh", "open", "closed"}]
  /\ pending \in [Manager -> SUBSET (Client \cup {None})]
  /\ posts \in 0..MaxPosts

\* The selected authenticator always belongs to the manager in use: an update
\* that a replaced manager had already delivered to its forwarder must not
\* select one of its (closed) authenticators (forwardDeviceUpdates).
SelectionFromCurrentManager ==
  selected # None => /\ selClient[selected] \in Client
                     /\ devices = Owner(selClient[selected])

\* Why: only the holder of the gate touches devices and selected (apart from
\* operations, which only clear it), and what it applies comes from its manager.
GateExclusive == \A p \in Process : pc[p] \in Gated => gate = p

OwnManager == \A m \in Manager : manager[m] = m

UpdatesFromManager ==
  /\ \A m \in Manager : \A u \in pending[m] \ {None} : Owner(u) = m
  /\ \A p \in Process :
       pc[p] \in ApplyPC \cup {"install", "gate"} /\ update[p] # None
         => Owner(update[p]) = manager[p]

ApplyToDevices == \A p \in Process :
  /\ pc[p] \in {"open", "install"} => devices = None
  /\ pc[p] \in ApplyPC \cup {"install"} => manager[p] # None
  /\ pc[p] \in ApplyPC => devices = manager[p]

\* The inductive invariant behind SelectionFromCurrentManager.
SelectionInv ==
  /\ GateExclusive /\ OwnManager /\ UpdatesFromManager /\ ApplyToDevices
  /\ SelectionFromCurrentManager

\* A manager that is open is the one in use, or a goroutine is about to
\* install or close it: no path of ensure, restart or close loses one.
NoManagerLeak ==
  \A m \in Manager : mgr[m] = "open" =>
    \/ devices = m
    \/ \E p \in Process : manager[p] = m /\ pc[p] \in {"install", "closeManager"}

\* When ServiceShutdown has returned, nothing is selected, no manager is open
\* and the forwarder it waited for has ended; no late RPC or update undoes it.
StoppedStaysEmpty ==
  pc[Shutdown] = "stopped" =>
    /\ selected = None
    /\ \A m \in Manager : mgr[m] # "open"
    /\ devices # None => pc[devices] = "done"

\* Every running operation belongs to the current selection, or to a selection
\* whose retirement is about to cancel it or waits for it, or its selection
\* was given up by an operation: no reconcile, restart or close forgets one.
NoForgottenOperation ==
  \A o \in Registered :
    \/ opSel[o] = selected
    \/ opSel[o] \in abandoned
    \/ \E p \in Process :
         \/ retired[p] = opSel[o] /\ pc[p] \in {"cancel", "closeManager", "cancelAll"}
         \/ o \in awaited[p] /\ pc[p] \in {"await", "awaitAll"}

\* Why: while a selection is being retired nothing is selected, so no operation
\* can join it, and only a service that is not closed installs a selection.
RetireInv == \A p \in Process :
  /\ pc[p] = "retire" => retired[p] # None /\ selected \in {retired[p], None}
  /\ pc[p] \in {"cancel", "await", "create"} \cup TeardownPC => selected = None

ShutdownInv ==
  /\ ~closed => pc[Shutdown] = "idle"
  /\ pc[Shutdown] \in {"idle", "takeover", "drain", "stopped"} \cup TeardownPC

\* Between critical sections the window has been told of the current selection.
\* It may name one that is gone in two cases only: an operation gave it up and
\* told so in its own envelope, or a restart took the manager out and has not
\* opened another, or could not (restartDeviceManager publishes nothing before
\* ensureDeviceManager succeeds): then nothing is selected, and nothing runs any
\* more on what the window names.
WindowKnowsSelection ==
  gate = None /\ ~closed =>
    \/ published = selected
    \/ selected = None /\ published \in abandoned
    \/ selected = None /\ devices = None /\ \A o \in Registered : opSel[o] # published

\* CancelOperation answers FALSE only for operations that have finished: the
\* window then reports "Operation already finished".  Operations whose
\* selection is being ended are excepted, they are about to be cancelled.
FalseMeansFinished ==
  \A o \in {x \in Op : op[x] = "running"} \ cancelled :
    \/ opSel[o] = selected
    \/ \E p \in Process :
         retired[p] = opSel[o] /\ pc[p] \in {"retire", "cancel", "closeManager", "cancelAll"}

\* ServiceShutdown returns, whatever the RPCs and forwarders are doing.
ShutdownCompletes == closed ~> pc[Shutdown] = "stopped"

\* ReconnectSelection returns: waiting for the old forwarder, which may itself
\* wait for the gate, does not block for ever.
RestartReturns == \A p \in Caller : pc[p] = "restart" ~> pc[p] = "idle"

\* The service implements the selection life cycle.
Lifecycle == INSTANCE SelectionLifecycle WITH
  active  <- selected,
  ended   <- {s \in Selection : selClient[s] # None} \ {selected},
  lost    <- abandoned,
  work    <- [o \in Op |-> IF o \in Registered THEN opSel[o] ELSE None],
  stopped <- pc[Shutdown] \in TeardownPC \cup {"drain", "stopped"}

\* Every step of the service is a step of the life cycle or invisible in it: a
\* new selection is never installed while an operation of a selection the
\* service itself took away is still running.
ImplementsLifecycle == Lifecycle!Spec

=============================================================================
