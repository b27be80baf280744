-------------------------- MODULE OperationRecovery --------------------------
(***************************************************************************)
(* Recovery from a smart card that left the reader (operation-recovery.ts, *)
(* the loop of runOperation in operation-lifecycle.ts, and the part of     *)
(* handleDiscoveryChanged that opens the card put back).                   *)
(*                                                                         *)
(* An operation that failed for want of the card offers a recovery and     *)
(* waits for the user: remove the card, put it back, retry or cancel.      *)
(* There is one intent for the window; the snapshots of discovery and      *)
(* other operations, loads of the new session among them, go on meanwhile. *)
(***************************************************************************)
EXTENDS Naturals, Sequences

CONSTANTS
  Card, Key,      \* attachments: smart cards, and keys on USB
  Op,             \* calls of runOperation
  OneReader,      \* at most one card is present at a time
  MaxSelections,  \* bound: selections made
  MaxWire,        \* bound: messages under way
  None

Attachment == Card \cup Key

ASSUME KindAssumption == Card \cap Key = {} /\ OneReader \in BOOLEAN
ASSUME BoundAssumption == MaxSelections \in Nat /\ MaxWire \in Nat
ASSUME NoneIsFresh == None \notin Attachment \cup Op

VARIABLES
  \* Device manager and service
  present,     \* attachments there are
  target,      \* the endpoint the manager has selected
  service,     \* selection the service has opened on it; 0 if none
  made,        \* selections made so far
  asked,       \* endpoints of SetEndpointSelection calls under way
  wire,        \* snapshots and envelopes, in the order sent
  \* Window
  session,     \* endpoints, selected attachment, selection ID
  intent,      \* the recovery offered
  task,        \* runOperation: "idle", "calling", "waiting", "done"
  \* History
  failedOn,    \* the selection the last attempt of an operation ran on
  gone         \* attachments removed since that attempt ended

managerVars == <<present, target, service, made>>
windowVars == <<session, intent, task>>
history == <<failedOn, gone>>
vars == <<managerVars, asked, wire, windowVars, history>>

Snapshot(p, t, s) == [endpoints |-> p, selected |-> t, id |-> s]
NoSession == Snapshot({}, None, 0)

Init ==
  /\ present = {} /\ target = None /\ service = 0 /\ made = 0
  /\ asked = {} /\ wire = <<>>
  /\ session = NoSession /\ intent = None
  /\ task = [o \in Op |-> "idle"]
  /\ failedOn = [o \in Op |-> 0]
  /\ gone = [o \in Op |-> {}]

Send(m) == Len(wire) < MaxWire /\ wire' = Append(wire, m)

-----------------------------------------------------------------------------
(* The device manager, as the service shows it.                             *)

Publish == Send([kind |-> "snapshot", session |-> Snapshot(present', target', service')])

\* The first device is selected without being asked for.
Attach(a) ==
  /\ a \notin present
  /\ OneReader /\ a \in Card => present \cap Card = {}
  /\ present' = present \cup {a}
  /\ target' \in IF present = {} THEN {a} ELSE {target}
  /\ UNCHANGED <<service, made>>
  /\ Publish
  /\ UNCHANGED <<asked, windowVars, history>>

Detach(a) ==
  /\ a \in present
  /\ present' = present \ {a}
  /\ IF a # target THEN UNCHANGED <<target, service>>
     ELSE service' = 0 /\ target' \in {None} \cup present'
  /\ UNCHANGED made
  /\ gone' = [o \in Op |-> gone[o] \cup {a}]
  /\ Publish
  /\ UNCHANGED <<asked, windowVars, failedOn>>

Open ==
  /\ target # None /\ service = 0 /\ made < MaxSelections
  /\ made' = made + 1 /\ service' = made + 1
  /\ UNCHANGED <<present, target>>
  /\ Publish
  /\ UNCHANGED <<asked, windowVars, history>>

\* SetEndpointSelection: what is there and not yet selected is selected.
SelectEndpoint(a) ==
  /\ a \in asked
  /\ asked' = asked \ {a}
  /\ UNCHANGED <<present, made, windowVars, history>>
  /\ IF a \in present \ {target}
     THEN target' = a /\ service' = 0 /\ Publish
     ELSE UNCHANGED <<target, service, wire>>

\* An attempt of an operation ends on the selection there is: "card" stands
\* for the failures isCardPresenceRecoveryCandidate accepts.
Attempt(o) ==
  /\ task[o] = "calling"
  /\ \A i \in DOMAIN wire : wire[i].kind = "envelope" => wire[i].op # o
  /\ \E r \in IF service = 0 THEN {"closed"} ELSE {"ok", "card", "failed", "closed"} :
       /\ service' = IF r = "closed" THEN 0 ELSE service
       /\ Send([kind |-> "envelope", op |-> o, result |-> r])
  /\ failedOn' = [failedOn EXCEPT ![o] = service]
  /\ gone' = [gone EXCEPT ![o] = {}]
  /\ UNCHANGED <<present, target, made, asked, windowVars>>

-----------------------------------------------------------------------------
(* The window.                                                              *)

\* What the derived stores say of a session.
SelectedDevice(s) == IF s.selected \in s.endpoints THEN s.selected ELSE None
Ready(s) == s.id # 0

CanRetry ==
  /\ intent # None /\ intent.sawRemoval
  /\ SelectedDevice(session) \in Card
  /\ Ready(session)

\* Mutant of NoteRemoval: a selection that is not ready counts as removed.
NoteClosed(i, s) ==
  IF i = None \/ (SelectedDevice(s) = i.original /\ Ready(s)) THEN i
  ELSE [i EXCEPT !.sawRemoval = TRUE]

\* noteRemoval, run by its subscriptions when the session changes.
NoteRemoval(i, s) ==
  IF i = None \/ SelectedDevice(s) = i.original THEN i
  ELSE [i EXCEPT !.sawRemoval = TRUE]

\* offerOperationRecovery: for an operation that ended with a card selected.
Offered(result) == result = "card" /\ SelectedDevice(session) \in Card

Offer(o) == [op |-> o, original |-> SelectedDevice(session), sawRemoval |-> FALSE]

\* While the dialog of the recovery is open it is modal.
StartOperation(o) ==
  /\ intent = None /\ task[o] = "idle" /\ Ready(session)
  /\ task' = [task EXCEPT ![o] = "calling"]
  /\ UNCHANGED <<managerVars, asked, wire, session, intent, history>>

\* The card put back is selected if something else is; otherwise a new
\* session loads the screen, if the screen has something to load.
Reselects(s, c) == intent # None /\ c \in Card \cap s.endpoints /\ c # s.selected

\* Mutant of AfterDiscovery: the card put back is left to the manager.
OnlyLoads(s, loads) ==
  /\ UNCHANGED asked
  /\ \/ UNCHANGED task
     \/ /\ loads
        /\ \E o \in Op : task[o] = "idle" /\ task' = [task EXCEPT ![o] = "calling"]

AfterDiscovery(s, loads) ==
  \/ \E c \in Card : Reselects(s, c) /\ asked' = asked \cup {c} /\ UNCHANGED task
  \/ /\ intent = None \/ Card \cap s.endpoints = {} \/ s.selected \in Card \cap s.endpoints
     /\ UNCHANGED asked
     /\ \/ UNCHANGED task
        \/ /\ loads
           /\ \E o \in Op : task[o] = "idle" /\ task' = [task EXCEPT ![o] = "calling"]

HandleDiscoveryChanged ==
  /\ wire # <<>> /\ Head(wire).kind = "snapshot"
  /\ wire' = Tail(wire)
  /\ LET s == Head(wire).session IN
     /\ session' = s
     /\ intent' = NoteRemoval(intent, s)
     /\ AfterDiscovery(s, s.selected # session.selected \/ (Ready(s) /\ s.id # session.id))
  /\ UNCHANGED <<managerVars, history>>

\* The call of an attempt returns: to the user if a recovery is offered, to
\* the caller otherwise, which clears a session that is closed.
CallReturns ==
  /\ wire # <<>> /\ Head(wire).kind = "envelope"
  /\ wire' = Tail(wire)
  /\ LET o == Head(wire).op
         r == Head(wire).result
     IN IF Offered(r)
        THEN /\ intent' = Offer(o)
             /\ task' = [task EXCEPT ![o] = "waiting"]
             /\ UNCHANGED session
        ELSE /\ task' = [task EXCEPT ![o] = "done"]
             /\ session' = IF r = "closed" THEN [session EXCEPT !.id = 0] ELSE session
             /\ UNCHANGED intent
  /\ UNCHANGED <<managerVars, asked, history>>

\* Mutant of Cancel: the dialog stays.
CancelsSilently ==
  /\ intent # None
  /\ task' = [task EXCEPT ![intent.op] = "done"]
  /\ UNCHANGED <<managerVars, asked, wire, session, intent, history>>

\* cancelOperationRecovery: the caller gets the failure of the first attempt.
Cancel ==
  /\ intent # None
  /\ intent' = None
  /\ task' = [task EXCEPT ![intent.op] = "done"]
  /\ UNCHANGED <<managerVars, asked, wire, session, history>>

\* retryOperationRecovery: runOperation makes the call again.
Retry ==
  /\ CanRetry
  /\ intent' = None
  /\ task' = [task EXCEPT ![intent.op] = "calling"]
  /\ UNCHANGED <<managerVars, asked, wire, session, history>>

Next ==
  \/ \E a \in Attachment : Attach(a) \/ Detach(a) \/ SelectEndpoint(a)
  \/ Open
  \/ \E o \in Op : Attempt(o) \/ StartOperation(o)
  \/ HandleDiscoveryChanged \/ CallReturns \/ Cancel \/ Retry

\* Handlers of the window run, and the manager gets to open what is selected
\* and to serve a selection although other attachments come and go (strong,
\* because a full wire, which is a bound of the model, disables both).
Fairness ==
  /\ WF_vars(HandleDiscoveryChanged) /\ WF_vars(CallReturns) /\ SF_vars(Open)
  /\ \A a \in Attachment : SF_vars(SelectEndpoint(a))

Spec == Init /\ [][Next]_vars

FairSpec == Spec /\ Fairness

-----------------------------------------------------------------------------
(* Properties.                                                              *)

SessionType == [endpoints : SUBSET Attachment, selected : Attachment \cup {None},
                id : 0..MaxSelections]
IntentType == [op : Op, original : Card, sawRemoval : BOOLEAN]

\* Type invariant: an intent is for a smart card only (offerOperationRecovery).
TypeOK ==
  /\ session \in SessionType
  /\ intent \in IntentType \cup {None}
  /\ task \in [Op -> {"idle", "calling", "waiting", "done"}]
  /\ present \subseteq Attachment /\ target \in present \cup {None}
  /\ asked \subseteq Card

\* operation-recovery.test.ts:56, "requires removal and an explicitly ready
\* reattachment before retry": the card the operation failed on has left since,
\* and the selection the window would retry on was opened after the failure.
RetryAfterRemoval ==
  CanRetry => intent.original \in gone[intent.op] /\ session.id > failedOn[intent.op]

\* The intent is for an operation that waits for it; a decision is never given
\* to an operation that has gone on.
IntentIsAwaited == intent # None => task[intent.op] = "waiting"

\* An offer is for a smart card and for an operation that waits for it.
RecoveryInv == TypeOK /\ IntentIsAwaited

\* A card put back and left there can be retried, unless the user decides
\* first: the dialog does not show the card as opening for ever.
OpeningEnds ==
  \A c \in Card :
    (intent # None /\ intent.sawRemoval /\ c \in present) ~>
      (CanRetry \/ intent = None \/ c \notin present \/ made = MaxSelections)

=============================================================================
