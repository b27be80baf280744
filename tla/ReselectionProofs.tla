------------------------- MODULE ReselectionProofs -------------------------
(***************************************************************************)
(* Theorems about the two that select a key again: OperationRecovery, for  *)
(* any number of cards, keys, operations, selections and messages under    *)
(* way, and Security, for any authenticators, coroutines, changes,         *)
(* selections, failures and messages under way.                            *)
(***************************************************************************)
EXTENDS MCReselection, TLAPS

-----------------------------------------------------------------------------
(* Recovery of operations on a smart card.                                  *)

Result == {"ok", "card", "failed", "closed"}
Message == [kind : {"snapshot"}, session : SessionType]
           \cup [kind : {"envelope"}, op : Op, result : Result]

IsSnapshot(i) == wire[i].kind = "snapshot"
IsEnvelope(i) == wire[i].kind = "envelope"

MessageType == wire \in Seq(Message)
ManagerType ==
  /\ made \in 0..MaxSelections /\ service \in 0..made
  /\ failedOn \in [Op -> 0..made] /\ gone \in [Op -> SUBSET Attachment]

\* An envelope under way is the only one of its operation, which still waits for it.
EnvelopeAwaited ==
  \A i \in DOMAIN wire : IsEnvelope(i) =>
    /\ task[wire[i].op] = "calling"
    /\ \A j \in DOMAIN wire : IsEnvelope(j) /\ wire[j].op = wire[i].op => j = i

\* Inductive.
OfferInv == RecoveryInv /\ MessageType /\ ManagerType /\ EnvelopeAwaited

-----------------------------------------------------------------------------
(* The wire.                                                                *)

\* Messages of the two kinds are told apart.
LEMMA MessageKinds ==
  ASSUME MessageType, NEW i \in DOMAIN wire
  PROVE  /\ IsSnapshot(i) => wire[i].session \in SessionType
         /\ IsEnvelope(i) => wire[i].op \in Op /\ wire[i].result \in Result
         /\ IsSnapshot(i) \/ IsEnvelope(i)
         /\ ~(IsSnapshot(i) /\ IsEnvelope(i))
BY DEF MessageType, Message, IsSnapshot, IsEnvelope

\* What is sent comes last.
LEMMA Sent ==
  ASSUME MessageType, NEW m \in Message, Send(m)
  PROVE  /\ MessageType'
         /\ DOMAIN wire' = DOMAIN wire \cup {Len(wire) + 1}
         /\ wire'[Len(wire) + 1] = m
         /\ \A i \in DOMAIN wire : wire'[i] = wire[i] /\ i \in 1..Len(wire)
         /\ Len(wire) \in Nat
BY DEF MessageType, Send

LEMMA SnapshotSent ==
  ASSUME MessageType, Publish, Snapshot(present', target', service') \in SessionType
  PROVE  /\ MessageType'
         /\ DOMAIN wire' = DOMAIN wire \cup {Len(wire) + 1}
         /\ wire'[Len(wire) + 1].kind = "snapshot"
         /\ wire'[Len(wire) + 1].session = Snapshot(present', target', service')
         /\ \A i \in DOMAIN wire : wire'[i] = wire[i] /\ i \in 1..Len(wire)
         /\ Len(wire) \in Nat
<1> DEFINE m == [kind |-> "snapshot", session |-> Snapshot(present', target', service')]
<1>1. m \in Message
  BY DEF Message
<1>2. Send(m)
  BY DEF Publish
<1>3. m.kind = "snapshot" /\ m.session = Snapshot(present', target', service')
  OBVIOUS
<1>. HIDE DEF m
<1>. QED  BY <1>1, <1>2, <1>3, Sent DEF IsSnapshot

\* What is received was first, and the others move up.
LEMMA Received ==
  ASSUME MessageType, wire # <<>>, wire' = Tail(wire)
  PROVE  /\ MessageType'
         /\ Head(wire) = wire[1] /\ 1 \in DOMAIN wire
         /\ \A i \in DOMAIN wire' : wire'[i] = wire[i + 1] /\ i + 1 \in DOMAIN wire /\ i \in Nat \ {0}
         /\ \A i \in DOMAIN wire : i \in Nat \ {0} /\ (i # 1 => i - 1 \in DOMAIN wire')
BY DEF MessageType

-----------------------------------------------------------------------------
(* Offers and the operations they are for.                                  *)

\* A snapshot that is sent disturbs nothing the window waits for.
LEMMA PublishKeepsAwaited ==
  ASSUME MessageType, EnvelopeAwaited, Publish, UNCHANGED task,
         Snapshot(present', target', service') \in SessionType
  PROVE  MessageType' /\ EnvelopeAwaited'
BY SnapshotSent DEF EnvelopeAwaited, IsEnvelope

\* A decision is given to an operation that waits for it: an envelope is not for an
\* operation that is offered a retry, and there is no second one.
LEMMA OfferInvariant == Spec => []OfferInv
<1>1. ASSUME Init PROVE OfferInv
  BY <1>1, BoundAssumption DEF Init, OfferInv, RecoveryInv, TypeOK, IntentIsAwaited, MessageType,
     ManagerType, EnvelopeAwaited, SessionType, NoSession, Snapshot
<1>2. OfferInv /\ [Next]_vars => OfferInv'
  <2> SUFFICES ASSUME OfferInv, [Next]_vars PROVE OfferInv'
    OBVIOUS
  <2> USE BoundAssumption, NoneIsFresh
      DEF OfferInv, RecoveryInv, TypeOK, IntentIsAwaited, ManagerType,
          managerVars, windowVars, history
  <2>1. ASSUME NEW a \in Attachment, Attach(a) PROVE OfferInv'
    <3>1. Snapshot(present', target', service') \in SessionType
      BY <2>1 DEF Attach, Snapshot, SessionType
    <3>. QED  BY <2>1, <3>1, PublishKeepsAwaited DEF Attach
  <2>2. ASSUME NEW a \in Attachment, Detach(a) PROVE OfferInv'
    <3>1. Snapshot(present', target', service') \in SessionType
      BY <2>2 DEF Detach, Snapshot, SessionType
    <3>. QED  BY <2>2, <3>1, PublishKeepsAwaited DEF Detach
  <2>3. ASSUME NEW a \in Attachment, SelectEndpoint(a) PROVE OfferInv'
    <3>1. MessageType' /\ EnvelopeAwaited'
      <4>1. CASE a \in present \ {target}
        <5>1. Snapshot(present', target', service') \in SessionType
          BY <2>3, <4>1 DEF SelectEndpoint, Snapshot, SessionType
        <5>. QED  BY <2>3, <4>1, <5>1, PublishKeepsAwaited DEF SelectEndpoint
      <4>2. CASE a \notin present \ {target}
        BY <2>3, <4>2 DEF SelectEndpoint, MessageType, EnvelopeAwaited, IsEnvelope
      <4>. QED  BY <4>1, <4>2
    <3>. QED  BY <2>3, <3>1 DEF SelectEndpoint
  <2>4. CASE Open
    <3>1. Snapshot(present', target', service') \in SessionType
      BY <2>4 DEF Open, Snapshot, SessionType
    <3>2. made' \in 0..MaxSelections /\ service' \in 0..made' /\ failedOn' \in [Op -> 0..made']
      BY <2>4 DEF Open
    <3>. QED  BY <2>4, <3>1, <3>2, PublishKeepsAwaited DEF Open
  <2>5. ASSUME NEW o \in Op, Attempt(o) PROVE OfferInv'
    <3>1. PICK r \in Result : Send([kind |-> "envelope", op |-> o, result |-> r])
      BY <2>5 DEF Attempt, Result
    <3> DEFINE m == [kind |-> "envelope", op |-> o, result |-> r]
    <3>2. m \in Message /\ m.kind = "envelope" /\ m.op = o /\ Send(m)
      BY <3>1 DEF Message
    <3> HIDE DEF m
    <3>3. /\ MessageType'
          /\ DOMAIN wire' = DOMAIN wire \cup {Len(wire) + 1}
          /\ \A i \in DOMAIN wire : wire'[i] = wire[i] /\ i \in 1..Len(wire)
          /\ wire'[Len(wire) + 1] = m /\ Len(wire) \in Nat
      BY <3>2, Sent
    <3>4. EnvelopeAwaited'
      BY <2>5, <3>2, <3>3 DEF Attempt, EnvelopeAwaited, IsEnvelope
    <3>. QED  BY <2>5, <3>3, <3>4 DEF Attempt
  <2>6. ASSUME NEW o \in Op, StartOperation(o) PROVE OfferInv'
    <3>1. EnvelopeAwaited'
      BY <2>6, MessageKinds DEF StartOperation, EnvelopeAwaited, IsEnvelope
    <3>. QED  BY <2>6, <3>1 DEF StartOperation, MessageType
  <2>7. CASE HandleDiscoveryChanged
    <3> DEFINE s == Head(wire).session
    <3>1. /\ wire # <<>> /\ wire' = Tail(wire) /\ IsSnapshot(1)
          /\ 1 \in DOMAIN wire
      BY <2>7, Received DEF HandleDiscoveryChanged, IsSnapshot
    <3>2. s \in SessionType
      BY <3>1, Received, MessageKinds
    <3>3. /\ asked' \subseteq Card /\ task' \in [Op -> {"idle", "calling", "waiting", "done"}]
          /\ \A o \in Op : task'[o] = task[o] \/ (task[o] = "idle" /\ task'[o] = "calling")
      BY <2>7 DEF HandleDiscoveryChanged, AfterDiscovery
    <3>4. /\ intent' \in IntentType \cup {None}
          /\ intent' # None => intent # None /\ intent'.op = intent.op
      BY <2>7 DEF HandleDiscoveryChanged, NoteRemoval, IntentType
    <3>5. IntentIsAwaited'
      BY <3>3, <3>4 DEF IntentType
    <3>6. EnvelopeAwaited'
      BY <3>1, <3>3, Received, MessageKinds DEF EnvelopeAwaited, IsEnvelope
    <3>. QED  BY <2>7, <3>1, <3>2, <3>3, <3>4, <3>5, <3>6, Received DEF HandleDiscoveryChanged
  <2>8. CASE CallReturns
    <3> DEFINE o == Head(wire).op
    <3>1. wire # <<>> /\ wire' = Tail(wire) /\ IsEnvelope(1) /\ 1 \in DOMAIN wire
      BY <2>8, Received DEF CallReturns, IsEnvelope
    <3>2. o \in Op /\ o = wire[1].op /\ task[o] = "calling"
      BY <3>1, Received, MessageKinds DEF EnvelopeAwaited
    <3>3. session' \in SessionType
      <4>1. session' = session \/ session' = [session EXCEPT !.id = 0]
        BY <2>8 DEF CallReturns
      <4>2. [session EXCEPT !.id = 0] \in SessionType
        BY DEF SessionType
      <4>. QED  BY <4>1, <4>2
    <3>4. intent' \in IntentType \cup {None}
      <4>1. intent' = intent \/ (SelectedDevice(session) \in Card /\ intent' = Offer(o))
        BY <2>8 DEF CallReturns, Offered
      <4>2. SelectedDevice(session) \in Card => Offer(o) \in IntentType
        BY <3>2 DEF Offer, IntentType
      <4>. QED  BY <4>1, <4>2
    <3>5. /\ task' \in [Op -> {"idle", "calling", "waiting", "done"}]
          /\ \A p \in Op \ {o} : task'[p] = task[p]
      BY <2>8, <3>2 DEF CallReturns
    <3>6. IntentIsAwaited'
      BY <2>8, <3>2 DEF CallReturns, Offer, IntentType
    <3>7. ASSUME NEW i \in DOMAIN wire', IsEnvelope(i)'
          PROVE  /\ task'[wire'[i].op] = "calling"
                 /\ \A j \in DOMAIN wire' :
                      IsEnvelope(j)' /\ wire'[j].op = wire'[i].op => j = i
      <4>1. wire'[i] = wire[i + 1] /\ i + 1 \in DOMAIN wire /\ i + 1 # 1 /\ i \in Nat
        BY <3>1, Received
      <4>2. wire'[i].op \in Op \ {o} /\ task[wire'[i].op] = "calling"
        BY <3>1, <3>2, <3>7, <4>1, MessageKinds DEF EnvelopeAwaited, IsEnvelope
      <4>3. ASSUME NEW j \in DOMAIN wire', IsEnvelope(j)', wire'[j].op = wire'[i].op
            PROVE  j = i
        <5>1. wire'[j] = wire[j + 1] /\ j + 1 \in DOMAIN wire /\ j \in Nat
          BY <3>1, Received
        <5>2. j + 1 = i + 1
          BY <3>7, <4>1, <4>3, <5>1 DEF EnvelopeAwaited, IsEnvelope
        <5>. QED  BY <4>1, <5>1, <5>2
      <4>. QED  BY <3>5, <4>2, <4>3
    <3>8. EnvelopeAwaited'
      BY <3>7 DEF EnvelopeAwaited
    <3>. QED  BY <2>8, <3>1, <3>3, <3>4, <3>5, <3>6, <3>8, Received DEF CallReturns
  <2>9. ASSUME Cancel \/ Retry PROVE OfferInv'
    <3>1. intent \in IntentType /\ task[intent.op] = "waiting" /\ wire' = wire /\ intent' = None
      BY <2>9 DEF Cancel, Retry, CanRetry
    <3>2. /\ task' \in [Op -> {"idle", "calling", "waiting", "done"}]
          /\ \A p \in Op \ {intent.op} : task'[p] = task[p]
      BY <2>9, <3>1 DEF Cancel, Retry, IntentType
    <3>3. EnvelopeAwaited'
      BY <3>1, <3>2, MessageKinds DEF EnvelopeAwaited, IsEnvelope
    <3>. QED  BY <2>9, <3>1, <3>2, <3>3 DEF Cancel, Retry, MessageType
  <2>10. CASE UNCHANGED vars
    BY <2>10 DEF vars, MessageType, EnvelopeAwaited, IsEnvelope
  <2>. QED
    BY <2>1, <2>2, <2>3, <2>4, <2>5, <2>6, <2>7, <2>8, <2>9, <2>10 DEF Next
<1>. QED  BY <1>1, <1>2, PTL DEF Spec

\* A retry is offered for a smart card, to an operation that waits for the answer:
\* offerOperationRecovery, retryOperationRecovery and cancelOperationRecovery never
\* decide over an operation that has gone on.
THEOREM OfferIsAwaited == Spec => []RecoveryInv
BY OfferInvariant, PTL DEF OfferInv

-----------------------------------------------------------------------------
(* The card that was taken out.                                             *)

\* A selection that is closed, or was made after the last attempt of o.
NewFor(o, id) == id = 0 \/ id > failedOn[o]

\* From message i on whoever sees another device than c selected knows that c was
\* removed since the last attempt of o, and sees later selections only.
LeftAfter(o, c, i) ==
  /\ target # c => c \in gone[o]
  /\ c \in gone[o] => NewFor(o, service)
  /\ \A j \in DOMAIN wire :
       j > i /\ IsSnapshot(j) /\ SelectedDevice(wire[j].session) # c =>
         /\ c \in gone[o]
         /\ \A l \in DOMAIN wire : l >= j /\ IsSnapshot(l) => NewFor(o, wire[l].session.id)

\* Nothing but envelopes lies between two places of the wire.
OnlyEnvelopes(i, j) == \A l \in DOMAIN wire : i < l /\ l < j => IsEnvelope(l)

\* There is one reader.
OneCard == \A a, b \in present \cap Card : a = b

\* The window knows, once it has seen all that is under way, what is selected.
LastSeen ==
  /\ (\A l \in DOMAIN wire : IsEnvelope(l)) =>
       session.endpoints = present /\ session.selected = target
  /\ \A k \in DOMAIN wire :
       IsSnapshot(k) /\ (\A l \in DOMAIN wire : k < l => IsEnvelope(l)) =>
         wire[k].session.endpoints = present /\ wire[k].session.selected = target

\* The device of the offer on the table.
IntentFollows ==
  \A o \in Op, c \in Card : intent # None /\ intent.op = o /\ intent.original = c =>
    /\ LeftAfter(o, c, 0)
    /\ intent.sawRemoval =>
         /\ c \in gone[o] /\ NewFor(o, session.id)
         /\ \A l \in DOMAIN wire : IsSnapshot(l) => NewFor(o, wire[l].session.id)

\* The device of an offer that an envelope under way will make: the one selected in
\* the session that the window has seen by then.
SeenBefore(c, i) ==
  \/ OnlyEnvelopes(0, i) /\ SelectedDevice(session) = c
  \/ \E k \in DOMAIN wire :
       k < i /\ IsSnapshot(k) /\ OnlyEnvelopes(k, i) /\ SelectedDevice(wire[k].session) = c

OfferFollows ==
  \A i \in DOMAIN wire, o \in Op, c \in Card :
    IsEnvelope(i) /\ wire[i].op = o /\ SeenBefore(c, i) => LeftAfter(o, c, i)

\* Inductive, with OfferInv.
RemovalInv == OneCard /\ LastSeen /\ IntentFollows /\ OfferFollows

\* A snapshot that is sent shows what is selected: it is c, or c is known to be removed.
LEMMA PublishKeepsLeft ==
  ASSUME OfferInv, Publish, Snapshot(present', target', service') \in SessionType,
         target' \in present' \cup {None}, UNCHANGED failedOn,
         NEW o \in Op, NEW c \in Card, NEW i \in Nat, LeftAfter(o, c, i),
         c \in gone[o] => c \in gone'[o],
         target' # c => c \in gone'[o],
         c \in gone'[o] => NewFor(o, service)'
  PROVE  LeftAfter(o, c, i)'
<1> DEFINE n == Len(wire) + 1
<1>1. /\ DOMAIN wire' = DOMAIN wire \cup {n} /\ wire'[n].kind = "snapshot"
      /\ wire'[n].session = Snapshot(present', target', service')
      /\ \A l \in DOMAIN wire : wire'[l] = wire[l] /\ l \in 1..Len(wire)
      /\ Len(wire) \in Nat
  BY SnapshotSent DEF OfferInv
<1>2. SelectedDevice(wire'[n].session) = target' /\ wire'[n].session.id = service'
  BY <1>1 DEF Snapshot, SelectedDevice
<1>. HIDE DEF n
<1>3. ASSUME NEW j \in DOMAIN wire', j > i, IsSnapshot(j)', SelectedDevice(wire'[j].session) # c
      PROVE  /\ c \in gone'[o]
             /\ \A l \in DOMAIN wire' : l >= j /\ IsSnapshot(l)' => NewFor(o, wire[l].session.id)'
  <2>1. CASE j = n
    <3>1. c \in gone'[o] /\ NewFor(o, service)'
      BY <1>2, <1>3, <2>1
    <3>2. \A l \in DOMAIN wire' : l >= j => l = n
      BY <1>1, <2>1 DEF n
    <3>. QED  BY <1>2, <3>1, <3>2 DEF NewFor
  <2>2. CASE j \in DOMAIN wire
    <3>1. c \in gone[o] /\ \A l \in DOMAIN wire : l >= j /\ IsSnapshot(l) => NewFor(o, wire[l].session.id)
      BY <1>1, <1>3, <2>2 DEF LeftAfter, IsSnapshot
    <3>2. c \in gone'[o] /\ NewFor(o, service)'
      BY <3>1
    <3>. QED  BY <1>1, <1>2, <3>1, <3>2 DEF NewFor, IsSnapshot
  <2>. QED  BY <1>1, <2>1, <2>2
<1>. QED  BY <1>3 DEF LeftAfter

\* A step of the manager is shown to the window, unless nothing changes that it sees.
LEMMA ManagerSends ==
  ASSUME OfferInv, NEW a \in Attachment, Attach(a) \/ Detach(a) \/ SelectEndpoint(a) \/ Open
  PROVE  \/ /\ Publish /\ Snapshot(present', target', service') \in SessionType
            /\ target' \in present' \cup {None}
         \/ UNCHANGED <<wire, managerVars, gone>>
<1> USE BoundAssumption DEF OfferInv, RecoveryInv, TypeOK, ManagerType, managerVars, windowVars, history
<1>1. ASSUME Attach(a)
      PROVE  Publish /\ Snapshot(present', target', service') \in SessionType /\ target' \in present' \cup {None}
  BY <1>1 DEF Attach, Snapshot, SessionType
<1>2. ASSUME Detach(a)
      PROVE  Publish /\ Snapshot(present', target', service') \in SessionType /\ target' \in present' \cup {None}
  BY <1>2 DEF Detach, Snapshot, SessionType
<1>3. ASSUME SelectEndpoint(a), a \in present \ {target}
      PROVE  Publish /\ Snapshot(present', target', service') \in SessionType /\ target' \in present' \cup {None}
  BY <1>3 DEF SelectEndpoint, Snapshot, SessionType
<1>4. ASSUME SelectEndpoint(a), a \notin present \ {target}
      PROVE  UNCHANGED <<wire, managerVars, gone>>
  BY <1>4 DEF SelectEndpoint
<1>5. ASSUME Open
      PROVE  Publish /\ Snapshot(present', target', service') \in SessionType /\ target' \in present' \cup {None}
  BY <1>5 DEF Open, Snapshot, SessionType
<1>. QED  BY <1>1, <1>2, <1>3, <1>4, <1>5

\* Whatever the manager does, c is known to have been removed when it is not selected.
LEMMA ManagerKeepsLeft ==
  ASSUME OneReader, OfferInv, OneCard, NEW a \in Attachment,
         Attach(a) \/ Detach(a) \/ SelectEndpoint(a) \/ Open,
         NEW o \in Op, NEW c \in Card, NEW i \in Nat, LeftAfter(o, c, i)
  PROVE  LeftAfter(o, c, i)'
<1> USE BoundAssumption, NoneIsFresh
    DEF OfferInv, RecoveryInv, TypeOK, ManagerType, managerVars, windowVars, history
<1>1. c # None /\ c \in Attachment
  BY DEF Attachment
<1>2. (target # c => c \in gone[o]) /\ (c \in gone[o] => NewFor(o, service))
  BY DEF LeftAfter
<1>3. CASE UNCHANGED <<wire, managerVars, gone>>
  <2>1. UNCHANGED failedOn
    BY DEF Attach, Detach, SelectEndpoint, Open
  <2>. QED  BY <1>3, <2>1 DEF LeftAfter, IsSnapshot, NewFor
<1>4. CASE /\ Publish /\ Snapshot(present', target', service') \in SessionType
           /\ target' \in present' \cup {None}
  <2>1. CASE Attach(a)
    <3>1. (target # target' => target = None) /\ UNCHANGED <<failedOn, gone, service>>
      BY <2>1 DEF Attach
    <3>. QED  BY <1>1, <1>2, <1>4, <3>1, PublishKeepsLeft DEF NewFor
  <2>2. CASE Detach(a)
    <3>1. /\ gone'[o] = gone[o] \cup {a} /\ UNCHANGED failedOn
          /\ IF a = target THEN service' = 0 ELSE service' = service /\ target' = target
      BY <2>2 DEF Detach
    <3>. QED  BY <1>1, <1>2, <1>4, <3>1, PublishKeepsLeft DEF NewFor
  <2>3. CASE SelectEndpoint(a)
    <3>1. UNCHANGED <<failedOn, gone>>
      BY <2>3 DEF SelectEndpoint
    <3>2. CASE a \in present \ {target}
      <4>1. target # c /\ service' = 0
        BY <1>1, <2>3, <3>2 DEF SelectEndpoint, OneCard
      <4>. QED  BY <1>2, <1>4, <3>1, <4>1, PublishKeepsLeft DEF NewFor
    <3>3. CASE a \notin present \ {target}
      BY <1>2, <1>4, <2>3, <3>1, <3>3, PublishKeepsLeft DEF SelectEndpoint, NewFor
    <3>. QED  BY <3>2, <3>3
  <2>4. CASE Open
    <3>1. /\ service' = made + 1 /\ failedOn[o] \in 0..made
          /\ UNCHANGED <<failedOn, gone, target>>
      BY <2>4 DEF Open
    <3>. QED  BY <1>1, <1>2, <1>4, <3>1, PublishKeepsLeft DEF NewFor
  <2>. QED  BY <2>1, <2>2, <2>3, <2>4
<1>. QED  BY <1>3, <1>4, ManagerSends

\* What is received no longer lies ahead.
LEMMA ReceivedKeepsLeft ==
  ASSUME OfferInv, wire # <<>>, wire' = Tail(wire), UNCHANGED <<managerVars, history>>,
         NEW o \in Op, NEW c \in Card, NEW i \in Nat, LeftAfter(o, c, i + 1)
  PROVE  LeftAfter(o, c, i)'
<1>1. \A l \in DOMAIN wire' : wire'[l] = wire[l + 1] /\ l + 1 \in DOMAIN wire /\ l \in Nat
  BY Received DEF OfferInv
<1>2. UNCHANGED <<target, service, gone, failedOn>>
  BY DEF managerVars, history
<1>3. ASSUME NEW j \in DOMAIN wire', j > i, IsSnapshot(j)', SelectedDevice(wire'[j].session) # c
      PROVE  /\ c \in gone[o]
             /\ \A l \in DOMAIN wire' : l >= j /\ IsSnapshot(l)' => NewFor(o, wire'[l].session.id)
  <2>1. /\ j + 1 \in DOMAIN wire /\ j + 1 > i + 1 /\ IsSnapshot(j + 1)
        /\ SelectedDevice(wire[j + 1].session) # c
    BY <1>1, <1>3 DEF IsSnapshot
  <2>2. c \in gone[o] /\ \A l \in DOMAIN wire : l >= j + 1 /\ IsSnapshot(l) => NewFor(o, wire[l].session.id)
    BY <2>1 DEF LeftAfter
  <2>. QED  BY <1>1, <2>2 DEF IsSnapshot
<1>. QED  BY <1>2, <1>3 DEF LeftAfter, NewFor, IsSnapshot

\* A step of the manager keeps what the window knows, and will.
LEMMA ManagerKeepsRemoval ==
  ASSUME OneReader, OfferInv, RemovalInv, NEW a \in Attachment,
         Attach(a) \/ Detach(a) \/ SelectEndpoint(a) \/ Open
  PROVE  RemovalInv'
<1> USE NoneIsFresh DEF OfferInv, RecoveryInv, TypeOK, ManagerType, managerVars, windowVars, history
<1>1. \A o \in Op, c \in Card, i \in Nat : LeftAfter(o, c, i) => LeftAfter(o, c, i)'
  BY ManagerKeepsLeft DEF RemovalInv
<1>2. UNCHANGED <<session, intent, failedOn>>
  BY DEF Attach, Detach, SelectEndpoint, Open
<1>3. OneCard'
  BY DEF Attach, Detach, SelectEndpoint, Open, RemovalInv, OneCard
<1>4. CASE UNCHANGED <<wire, managerVars, gone>>
  <2>1. LastSeen'
    BY <1>2, <1>4 DEF RemovalInv, LastSeen, IsEnvelope, IsSnapshot
  <2>2. IntentFollows'
    BY <1>1, <1>2, <1>4 DEF RemovalInv, IntentFollows, NewFor, IsSnapshot
  <2>3. ASSUME NEW i \in DOMAIN wire, NEW o \in Op, NEW c \in Card,
               IsEnvelope(i), wire[i].op = o, SeenBefore(c, i)
        PROVE  LeftAfter(o, c, i)'
    <3>1. i \in Nat
      BY Received DEF MessageType
    <3>. QED  BY <1>1, <2>3, <3>1 DEF RemovalInv, OfferFollows
  <2>4. OfferFollows'
    <3>1. \A i \in DOMAIN wire, c \in Card : SeenBefore(c, i)' => SeenBefore(c, i)
      BY <1>2, <1>4 DEF SeenBefore, OnlyEnvelopes, IsEnvelope, IsSnapshot
    <3>. QED  BY <1>4, <2>3, <3>1 DEF OfferFollows, IsEnvelope
  <2>. QED  BY <1>3, <2>1, <2>2, <2>4 DEF RemovalInv
<1>5. CASE /\ Publish /\ Snapshot(present', target', service') \in SessionType
           /\ target' \in present' \cup {None}
  <2>0. PICK n \in Nat : n = Len(wire) + 1
    BY DEF MessageType
  <2>1. /\ DOMAIN wire' = DOMAIN wire \cup {n} /\ wire'[n].kind = "snapshot"
        /\ wire'[n].session = Snapshot(present', target', service')
        /\ \A l \in DOMAIN wire : wire'[l] = wire[l] /\ l \in Nat /\ 0 < l /\ l < n
    BY <1>5, <2>0, SnapshotSent
  <2>2. ~ IsEnvelope(n)' /\ IsSnapshot(n)'
    BY <2>1 DEF IsEnvelope, IsSnapshot
  <2>3. /\ wire'[n].session.endpoints = present' /\ wire'[n].session.selected = target'
        /\ wire'[n].session.id = service'
    BY <2>1 DEF Snapshot
  <2>4. LastSeen'
    BY <2>1, <2>2, <2>3 DEF LastSeen, IsEnvelope
  <2>5. ASSUME NEW o \in Op, NEW c \in Card, intent # None, intent.op = o, intent.original = c
        PROVE  /\ LeftAfter(o, c, 0)'
               /\ intent.sawRemoval =>
                    /\ c \in gone'[o] /\ NewFor(o, session.id)'
                    /\ \A l \in DOMAIN wire' : IsSnapshot(l)' => NewFor(o, wire[l].session.id)'
    <3>1. LeftAfter(o, c, 0) /\ LeftAfter(o, c, 0)'
      BY <1>1, <2>5 DEF RemovalInv, IntentFollows
    <3>2. ASSUME intent.sawRemoval
          PROVE  /\ c \in gone'[o] /\ NewFor(o, session.id)'
                 /\ \A l \in DOMAIN wire' : IsSnapshot(l)' => NewFor(o, wire[l].session.id)'
      <4>1. /\ c \in gone[o] /\ NewFor(o, session.id)
            /\ \A l \in DOMAIN wire : IsSnapshot(l) => NewFor(o, wire[l].session.id)
        BY <2>5, <3>2 DEF RemovalInv, IntentFollows
      <4>2. c \in gone'[o]
        BY <4>1 DEF Attach, Detach, SelectEndpoint, Open
      <4>3. NewFor(o, service)'
        BY <3>1, <4>2 DEF LeftAfter
      <4>. QED  BY <1>2, <2>1, <2>3, <4>1, <4>2, <4>3 DEF NewFor, IsSnapshot
    <3>. QED  BY <3>1, <3>2
  <2>6. IntentFollows'
    BY <1>2, <2>5 DEF IntentFollows
  <2>7. ASSUME NEW i \in DOMAIN wire', NEW o \in Op, NEW c \in Card,
               IsEnvelope(i)', wire'[i].op = o, SeenBefore(c, i)'
        PROVE  LeftAfter(o, c, i)'
    <3>1. i \in DOMAIN wire /\ IsEnvelope(i) /\ wire[i].op = o /\ i \in Nat /\ i < n
      BY <2>1, <2>2, <2>7 DEF IsEnvelope
    <3>2. \A k \in Nat : OnlyEnvelopes(k, i)' => OnlyEnvelopes(k, i)
      BY <2>1 DEF OnlyEnvelopes, IsEnvelope
    <3>3. \A k \in DOMAIN wire' : k < i => k \in DOMAIN wire /\ wire'[k] = wire[k] /\ k \in Nat
      BY <2>1, <3>1
    <3>4. SeenBefore(c, i)
      BY <1>2, <2>7, <3>2, <3>3 DEF SeenBefore, IsSnapshot
    <3>. QED  BY <1>1, <3>1, <3>4 DEF RemovalInv, OfferFollows
  <2>8. OfferFollows'
    BY <2>7 DEF OfferFollows
  <2>. QED  BY <1>3, <2>4, <2>6, <2>8 DEF RemovalInv
<1>. QED  BY <1>4, <1>5, ManagerSends

\* An attempt that ends is the last of its operation: what was known of an earlier one
\* of it is no longer asked for.
LEMMA AttemptKeepsRemoval ==
  ASSUME OfferInv, RemovalInv, NEW o \in Op, Attempt(o)
  PROVE  RemovalInv'
<1> USE NoneIsFresh DEF OfferInv, RecoveryInv, TypeOK, ManagerType, managerVars, windowVars, history
<1>1. PICK r \in Result : Send([kind |-> "envelope", op |-> o, result |-> r])
  BY DEF Attempt, Result
<1>2. PICK m \in Message : m.kind = "envelope" /\ m.op = o /\ Send(m)
  <2> DEFINE e == [kind |-> "envelope", op |-> o, result |-> r]
  <2>1. e \in Message /\ e.kind = "envelope" /\ e.op = o /\ Send(e)
    BY <1>1 DEF Message
  <2>. HIDE DEF e
  <2>. QED  BY <2>1
<1>3. PICK n \in Nat : n = Len(wire) + 1
  BY DEF MessageType
<1>4. /\ DOMAIN wire' = DOMAIN wire \cup {n} /\ wire'[n] = m
      /\ \A l \in DOMAIN wire : wire'[l] = wire[l] /\ l \in Nat /\ 0 < l /\ l < n
  <2>1. /\ DOMAIN wire' = DOMAIN wire \cup {Len(wire) + 1} /\ wire'[Len(wire) + 1] = m
        /\ \A l \in DOMAIN wire : wire'[l] = wire[l] /\ l \in 1..Len(wire)
    BY <1>2, Sent
  <2>. QED  BY <1>3, <2>1
<1>5. /\ UNCHANGED <<present, target, session, intent>> /\ service' \in {0, service}
      /\ task[o] = "calling" /\ gone'[o] = {}
      /\ \A p \in Op \ {o} : gone'[p] = gone[p] /\ failedOn'[p] = failedOn[p]
      /\ \A l \in DOMAIN wire : IsEnvelope(l) => wire[l].op # o
  BY DEF Attempt, IsEnvelope
<1>6. IsEnvelope(n)' /\ ~ IsSnapshot(n)'
  BY <1>2, <1>4 DEF IsEnvelope, IsSnapshot
<1>7. \A l \in DOMAIN wire : (IsEnvelope(l)' <=> IsEnvelope(l)) /\ (IsSnapshot(l)' <=> IsSnapshot(l))
  BY <1>4 DEF IsEnvelope, IsSnapshot
<1>8. ASSUME NEW p \in Op \ {o}, NEW c \in Card, NEW i \in Nat, LeftAfter(p, c, i)
      PROVE  LeftAfter(p, c, i)'
  <2>2. (target' # c => c \in gone'[p]) /\ (c \in gone'[p] => service' = 0 \/ service' > failedOn'[p])
    BY <1>5, <1>8 DEF LeftAfter, NewFor
  <2>3. ASSUME NEW j \in DOMAIN wire', j > i, IsSnapshot(j)', SelectedDevice(wire'[j].session) # c
        PROVE  /\ c \in gone'[p]
               /\ \A l \in DOMAIN wire' : l >= j /\ IsSnapshot(l)' =>
                    wire'[l].session.id = 0 \/ wire'[l].session.id > failedOn'[p]
    <3>1. j \in DOMAIN wire /\ IsSnapshot(j) /\ SelectedDevice(wire[j].session) # c
      BY <1>4, <1>6, <1>7, <2>3
    <3>2. c \in gone[p] /\ \A l \in DOMAIN wire : l >= j /\ IsSnapshot(l) =>
            wire[l].session.id = 0 \/ wire[l].session.id > failedOn[p]
      BY <1>8, <2>3, <3>1 DEF LeftAfter, NewFor
    <3>. QED  BY <1>4, <1>5, <1>6, <1>7, <3>2
  <2>. QED  BY <2>2, <2>3 DEF LeftAfter, NewFor
<1>9. OneCard' /\ LastSeen'
  <2>1. OneCard'
    BY <1>5 DEF RemovalInv, OneCard
  <2>2. LastSeen'
    BY <1>4, <1>5, <1>6, <1>7 DEF RemovalInv, LastSeen
  <2>. QED  BY <2>1, <2>2
<1>10. IntentFollows'
  <2> SUFFICES ASSUME NEW p \in Op, NEW c \in Card, intent # None, intent.op = p, intent.original = c
               PROVE  /\ LeftAfter(p, c, 0)'
                      /\ intent.sawRemoval =>
                           /\ c \in gone'[p] /\ NewFor(p, session.id)'
                           /\ \A l \in DOMAIN wire' : IsSnapshot(l)' => NewFor(p, wire[l].session.id)'
    BY <1>5 DEF IntentFollows
  <2>1. p # o
    BY <1>5 DEF IntentIsAwaited
  <2>2. LeftAfter(p, c, 0)'
    BY <1>8, <2>1 DEF RemovalInv, IntentFollows
  <2>3. intent.sawRemoval => /\ c \in gone[p] /\ NewFor(p, session.id)
                             /\ \A l \in DOMAIN wire : IsSnapshot(l) => NewFor(p, wire[l].session.id)
    BY DEF RemovalInv, IntentFollows
  <2>. QED  BY <1>4, <1>5, <1>6, <1>7, <2>1, <2>2, <2>3 DEF NewFor
<1>11. OfferFollows'
  <2> SUFFICES ASSUME NEW i \in DOMAIN wire', NEW p \in Op, NEW c \in Card,
                      IsEnvelope(i)', wire'[i].op = p, SeenBefore(c, i)'
               PROVE  LeftAfter(p, c, i)'
    BY DEF OfferFollows
  <2>1. \A k \in Nat : OnlyEnvelopes(k, i)' => OnlyEnvelopes(k, i)
    BY <1>4, <1>7 DEF OnlyEnvelopes
  <2>2. CASE i \in DOMAIN wire
    <3>1. IsEnvelope(i) /\ wire[i].op = p /\ p # o /\ i < n /\ i \in Nat
      BY <1>4, <1>5, <1>7, <2>2
    <3>2. \A k \in DOMAIN wire' : k < i => k \in DOMAIN wire /\ wire'[k] = wire[k] /\ k \in Nat
      BY <1>4, <3>1
    <3>3. SeenBefore(c, i)
      BY <1>5, <1>7, <2>1, <3>2 DEF SeenBefore
    <3>. QED  BY <1>8, <2>2, <3>1, <3>3 DEF RemovalInv, OfferFollows
  <2>3. CASE i = n
    <3>1. p = o
      BY <1>2, <1>4, <2>3
    <3>2. target = c
      <4>1. CASE OnlyEnvelopes(0, i)' /\ SelectedDevice(session)' = c
        <5>1. session.selected = target
          BY <1>4, <1>7, <2>3, <4>1 DEF OnlyEnvelopes, RemovalInv, LastSeen
        <5>. QED  BY <4>1, <5>1, <1>5 DEF SelectedDevice, Attachment
      <4>2. CASE \E k \in DOMAIN wire' :
                   k < i /\ IsSnapshot(k)' /\ OnlyEnvelopes(k, i)' /\ SelectedDevice(wire'[k].session) = c
        <5>1. PICK k \in DOMAIN wire' :
                k < i /\ IsSnapshot(k)' /\ OnlyEnvelopes(k, i)' /\ SelectedDevice(wire'[k].session) = c
          BY <4>2
        <5>2. k \in DOMAIN wire /\ IsSnapshot(k) /\ SelectedDevice(wire[k].session) = c
          BY <1>4, <1>6, <1>7, <5>1
        <5>3. wire[k].session.selected = target
          BY <1>4, <1>7, <2>3, <5>1, <5>2 DEF OnlyEnvelopes, RemovalInv, LastSeen
        <5>. QED  BY <5>2, <5>3 DEF SelectedDevice, Attachment
      <4>. QED  BY <4>1, <4>2 DEF SeenBefore
    <3>3. \A j \in DOMAIN wire' : ~(j > i)
      BY <1>4, <2>3
    <3>. QED  BY <1>5, <3>1, <3>2, <3>3 DEF LeftAfter
  <2>. QED  BY <1>4, <2>2, <2>3
<1>. QED  BY <1>9, <1>10, <1>11 DEF RemovalInv

\* What the window receives it then knows; an offer it makes is of what it knew.
LEMMA ReceiveKeepsRemoval ==
  ASSUME OfferInv, RemovalInv, HandleDiscoveryChanged \/ CallReturns
  PROVE  RemovalInv'
<1> USE NoneIsFresh DEF OfferInv, RecoveryInv, TypeOK, ManagerType
<1>1. /\ wire # <<>> /\ wire' = Tail(wire) /\ UNCHANGED <<managerVars, history>>
      /\ 1 \in DOMAIN wire /\ Head(wire) = wire[1]
      /\ \A l \in DOMAIN wire' : wire'[l] = wire[l + 1] /\ l + 1 \in DOMAIN wire /\ l \in Nat \ {0}
      /\ \A l \in DOMAIN wire : l \in Nat \ {0} /\ (l # 1 => l - 1 \in DOMAIN wire')
  BY Received DEF HandleDiscoveryChanged, CallReturns
<1>2. UNCHANGED <<present, target, service, gone, failedOn>>
  BY <1>1 DEF managerVars, history
<1>3. \A l \in DOMAIN wire' : /\ IsEnvelope(l)' <=> IsEnvelope(l + 1)
                              /\ IsSnapshot(l)' <=> IsSnapshot(l + 1)
  BY <1>1 DEF IsEnvelope, IsSnapshot
<1>4. \A o \in Op, c \in Card, i \in Nat : LeftAfter(o, c, i + 1) => LeftAfter(o, c, i)'
  BY <1>1, ReceivedKeepsLeft
<1>5. \A l \in DOMAIN wire : l # 1 =>
        /\ l \in Nat /\ l > 1 /\ l - 1 \in DOMAIN wire' /\ wire'[l - 1] = wire[l]
        /\ (IsEnvelope(l - 1)' <=> IsEnvelope(l)) /\ (IsSnapshot(l - 1)' <=> IsSnapshot(l))
  <2> SUFFICES ASSUME NEW l \in DOMAIN wire, l # 1
               PROVE  /\ l \in Nat /\ l > 1 /\ l - 1 \in DOMAIN wire' /\ wire'[l - 1] = wire[l]
                      /\ (IsEnvelope(l - 1)' <=> IsEnvelope(l))
                      /\ (IsSnapshot(l - 1)' <=> IsSnapshot(l))
    OBVIOUS
  <2>1. l \in Nat /\ l > 1 /\ l - 1 \in DOMAIN wire' /\ (l - 1) + 1 = l
    BY <1>1
  <2>2. wire'[l - 1] = wire[l]
    BY <1>1, <2>1
  <2>. QED  BY <2>1, <2>2 DEF IsEnvelope, IsSnapshot
<1>5a. ASSUME NEW k \in Nat, NEW i \in Nat, OnlyEnvelopes(k, i)'
       PROVE  OnlyEnvelopes(k + 1, i + 1)
  <2> SUFFICES ASSUME NEW l \in DOMAIN wire, k + 1 < l, l < i + 1
               PROVE  IsEnvelope(l)
    BY DEF OnlyEnvelopes
  <2>1. l # 1 /\ k < l - 1 /\ l - 1 < i
    BY <1>1
  <2>. QED  BY <1>5, <1>5a, <2>1 DEF OnlyEnvelopes
<1>5b. ASSUME NEW i \in Nat, OnlyEnvelopes(0, i)', IsEnvelope(1)
       PROVE  OnlyEnvelopes(0, i + 1)
  <2> SUFFICES ASSUME NEW l \in DOMAIN wire, 0 < l, l < i + 1, l # 1
               PROVE  IsEnvelope(l)
    BY <1>5b DEF OnlyEnvelopes
  <2>1. 0 < l - 1 /\ l - 1 < i
    BY <1>5
  <2>. QED  BY <1>5, <1>5b, <2>1 DEF OnlyEnvelopes
<1>6. OneCard'
  BY <1>2 DEF RemovalInv, OneCard
<1>7. IF IsSnapshot(1) THEN session' = wire[1].session
      ELSE /\ IsEnvelope(1)
           /\ session'.endpoints = session.endpoints /\ session'.selected = session.selected
           /\ session'.id \in {0, session.id}
  <2>1. CASE HandleDiscoveryChanged
    BY <1>1, <2>1 DEF HandleDiscoveryChanged, IsSnapshot
  <2>2. CASE CallReturns
    <3>1. session' = session \/ session' = [session EXCEPT !.id = 0]
      BY <2>2 DEF CallReturns
    <3>2. /\ [session EXCEPT !.id = 0].endpoints = session.endpoints
          /\ [session EXCEPT !.id = 0].selected = session.selected
          /\ [session EXCEPT !.id = 0].id = 0
      BY DEF SessionType
    <3>3. IsEnvelope(1) /\ ~ IsSnapshot(1)
      BY <1>1, <2>2 DEF CallReturns, IsEnvelope, IsSnapshot
    <3>. QED  BY <3>1, <3>2, <3>3
  <2>. QED  BY <2>1, <2>2
<1>8. SelectedDevice(session') = IF IsSnapshot(1) THEN SelectedDevice(wire[1].session)
                                 ELSE SelectedDevice(session)
  BY <1>7 DEF SelectedDevice
<1>9. LastSeen'
  <2>1. (\A l \in DOMAIN wire' : IsEnvelope(l)') =>
          session'.endpoints = present' /\ session'.selected = target'
    <3> SUFFICES ASSUME \A l \in DOMAIN wire' : IsEnvelope(l)'
                 PROVE  session'.endpoints = present' /\ session'.selected = target'
      OBVIOUS
    <3>1. \A l \in DOMAIN wire : l # 1 => IsEnvelope(l)
      BY <1>1, <1>5
    <3>. QED  BY <1>1, <1>2, <1>7, <3>1 DEF RemovalInv, LastSeen
  <2>2. ASSUME NEW k \in DOMAIN wire', IsSnapshot(k)', \A l \in DOMAIN wire' : k < l => IsEnvelope(l)'
        PROVE  wire'[k].session.endpoints = present' /\ wire'[k].session.selected = target'
    <3>1. \A l \in DOMAIN wire : k + 1 < l => IsEnvelope(l)
      BY <1>1, <1>5, <2>2
    <3>. QED  BY <1>1, <1>2, <1>3, <2>2, <3>1 DEF RemovalInv, LastSeen
  <2>. QED  BY <2>1, <2>2 DEF LastSeen
<1>10. OfferFollows'
  <2> SUFFICES ASSUME NEW i \in DOMAIN wire', NEW o \in Op, NEW c \in Card,
                      IsEnvelope(i)', wire'[i].op = o, SeenBefore(c, i)'
               PROVE  LeftAfter(o, c, i)'
    BY DEF OfferFollows
  <2>1. IsEnvelope(i + 1) /\ wire[i + 1].op = o /\ i + 1 \in DOMAIN wire /\ i \in Nat \ {0}
    BY <1>1, <1>3
  <2>2. SeenBefore(c, i + 1)
    <3>1. CASE OnlyEnvelopes(0, i)' /\ SelectedDevice(session)' = c
      <4>1. CASE IsSnapshot(1)
        BY <1>1, <1>8, <1>5a, <2>1, <3>1, <4>1 DEF SeenBefore
      <4>2. CASE ~ IsSnapshot(1)
        BY <1>7, <1>8, <1>5b, <2>1, <3>1, <4>2 DEF SeenBefore
      <4>. QED  BY <4>1, <4>2
    <3>2. CASE \E k \in DOMAIN wire' :
                 k < i /\ IsSnapshot(k)' /\ OnlyEnvelopes(k, i)' /\ SelectedDevice(wire'[k].session) = c
      BY <1>1, <1>3, <1>5a, <2>1, <3>2 DEF SeenBefore
    <3>. QED  BY <3>1, <3>2 DEF SeenBefore
  <2>. QED  BY <1>4, <2>1, <2>2 DEF RemovalInv, OfferFollows
<1>11. IntentFollows'
  <2> SUFFICES ASSUME NEW o \in Op, NEW c \in Card, intent' # None, intent'.op = o, intent'.original = c
               PROVE  /\ LeftAfter(o, c, 0)'
                      /\ intent'.sawRemoval =>
                           /\ c \in gone'[o] /\ NewFor(o, session.id)'
                           /\ \A l \in DOMAIN wire' : IsSnapshot(l)' => NewFor(o, wire[l].session.id)'
    BY DEF IntentFollows
  <2>1. CASE intent # None /\ intent.op = o /\ intent.original = c
             /\ (intent'.sawRemoval => intent.sawRemoval \/ (IsSnapshot(1) /\ SelectedDevice(wire[1].session) # c))
    <3>1. LeftAfter(o, c, 0)
      BY <2>1 DEF RemovalInv, IntentFollows
    <3>2. LeftAfter(o, c, 0)'
      <4>1. LeftAfter(o, c, 0 + 1)
        BY <1>1, <3>1 DEF LeftAfter
      <4>. QED  BY <1>4, <4>1
    <3>3. ASSUME intent.sawRemoval
          PROVE  /\ c \in gone[o] /\ NewFor(o, session.id)
                 /\ \A l \in DOMAIN wire : IsSnapshot(l) => NewFor(o, wire[l].session.id)
      BY <2>1, <3>3 DEF RemovalInv, IntentFollows
    <3>4. ASSUME IsSnapshot(1), SelectedDevice(wire[1].session) # c
          PROVE  /\ c \in gone[o]
                 /\ \A l \in DOMAIN wire : IsSnapshot(l) => NewFor(o, wire[l].session.id)
      BY <1>1, <3>1, <3>4 DEF LeftAfter
    <3>5. intent'.sawRemoval =>
            /\ c \in gone'[o] /\ NewFor(o, session.id)'
            /\ \A l \in DOMAIN wire' : IsSnapshot(l)' => NewFor(o, wire[l].session.id)'
      BY <1>1, <1>2, <1>3, <1>7, <2>1, <3>3, <3>4 DEF NewFor
    <3>. QED  BY <3>2, <3>5
  <2>2. CASE /\ IsEnvelope(1) /\ wire[1].op = o
             /\ SelectedDevice(session) = c /\ ~ intent'.sawRemoval
    <3>1. OnlyEnvelopes(0, 1)
      BY <1>1 DEF OnlyEnvelopes
    <3>2. LeftAfter(o, c, 0 + 1)
      BY <1>1, <2>2, <3>1 DEF RemovalInv, OfferFollows, SeenBefore
    <3>. QED  BY <1>4, <2>2, <3>2
  <2>3. CASE HandleDiscoveryChanged
    <3>1. intent' = NoteRemoval(intent, wire[1].session) /\ IsSnapshot(1)
      BY <1>1, <2>3 DEF HandleDiscoveryChanged, IsSnapshot
    <3>. QED  BY <2>1, <3>1 DEF NoteRemoval, IntentType
  <2>4. CASE CallReturns
    <3>1. IsEnvelope(1) /\ (intent' = Offer(wire[1].op) \/ intent' = intent)
      BY <1>1, <2>4 DEF CallReturns, IsEnvelope
    <3>. QED  BY <2>1, <2>2, <3>1 DEF Offer
  <2>. QED  BY <2>3, <2>4
<1>. QED  BY <1>6, <1>9, <1>10, <1>11 DEF RemovalInv

\* operation-recovery.test.ts:56: with one reader, a card on which an operation failed
\* must have been taken out since, and a selection made since, before a retry.
THEOREM RetryNeedsRemoval == ASSUME OneReader PROVE Spec => []RetryAfterRemoval
<1>1. ASSUME Init PROVE RemovalInv
  BY <1>1 DEF Init, RemovalInv, OneCard, LastSeen, IntentFollows, OfferFollows, NoSession, Snapshot
<1>2. OfferInv /\ RemovalInv /\ [Next]_vars => RemovalInv'
  <2> SUFFICES ASSUME OfferInv, RemovalInv, [Next]_vars PROVE RemovalInv'
    OBVIOUS
  <2>1. ASSUME NEW a \in Attachment, Attach(a) \/ Detach(a) \/ SelectEndpoint(a) PROVE RemovalInv'
    BY <2>1, ManagerKeepsRemoval
  <2>2. CASE Open
    <3>1. CASE \E a \in Attachment : TRUE
      BY <2>2, <3>1, ManagerKeepsRemoval
    <3>2. CASE Attachment = {}
      BY <2>2, <3>2 DEF Open, OfferInv, RecoveryInv, TypeOK
    <3>. QED  BY <3>1, <3>2
  <2>3. ASSUME NEW o \in Op, Attempt(o) PROVE RemovalInv'
    BY <2>3, AttemptKeepsRemoval
  <2>4. CASE HandleDiscoveryChanged \/ CallReturns
    BY <2>4, ReceiveKeepsRemoval
  <2>5. ASSUME UNCHANGED <<managerVars, wire, session, history>>, intent' \in {None, intent}
        PROVE  RemovalInv'
    BY <2>5 DEF RemovalInv, OneCard, LastSeen, IntentFollows, OfferFollows, SeenBefore, OnlyEnvelopes,
       LeftAfter, NewFor, IsEnvelope, IsSnapshot, managerVars, history
  <2>6. ASSUME NEW o \in Op, StartOperation(o) PROVE RemovalInv'
    BY <2>5, <2>6 DEF StartOperation
  <2>7. CASE Cancel \/ Retry \/ UNCHANGED vars
    BY <2>5, <2>7 DEF Cancel, Retry, vars, windowVars
  <2>. QED  BY <2>1, <2>2, <2>3, <2>4, <2>6, <2>7 DEF Next
<1>3. OfferInv /\ RemovalInv => RetryAfterRemoval
  BY DEF OfferInv, RecoveryInv, TypeOK, IntentType, RemovalInv, IntentFollows, NewFor,
     RetryAfterRemoval, CanRetry, Ready
<1>. QED  BY <1>1, <1>2, <1>3, OfferInvariant, PTL DEF Spec

-----------------------------------------------------------------------------
(* The security screen.                                                     *)

-----------------------------------------------------------------------------
(* Types.                                                                   *)

Finger == FingerName \cup {Unnamed, NoFinger}
KeyState == [uv : BOOLEAN, length : 0..1, pin : BOOLEAN, finger : Finger]
Session == [id : Nat, attached : BOOLEAN]
Value == ConfigStatus \cup Finger \cup {NoReport}
PinChange == [kind : {"pin"}]

Phase == {"idle", "loading", "refreshing", "ready", "error"}
Resource == [phase : Phase, report : Value]
StatusResource == [phase : Phase, report : ConfigStatus \cup {NoReport}]
Reviewed ==
  [phase : {"editing", "previewing", "review", "previewFailed", "executing", "executeFailed"},
   base : Change]
Stores ==
  [status : StatusResource, sensor : Resource, enrollments : Resource,
   mutation : {IdleMutation} \cup Reviewed]

Then == {"nothing", "sources", "enrollments"}
Coroutine ==
  {NoStage} \cup [stage : {"status", "sensor", "sources"}, then : Then, served : BOOLEAN]
  \cup [stage : {"enrollments", "reconnect"}, served : BOOLEAN]
  \cup [stage : {"preview", "execute"}, base : Change, served : BOOLEAN]
  \cup [stage : {"pin"}, base : PinChange, served : BOOLEAN]

Shown == [session : Session, screen : {"security", "other"}, busy : BOOLEAN]
SnapshotMessage == [kind : {"snapshot"}, session : Session]
Answer == [kind : {"answer"}, call : SecurityCall, ok : BOOLEAN, closed : BOOLEAN, value : Value]

\* The call that a message answers, and the answers that a store is loaded with.
CallOf(m) == secureCalls[m.call]
Loads(m, stage) ==
  m.kind = "answer" /\ m.ok /\ ~m.closed /\ CallOf(m).stage = stage

SecurityTypeOK ==
  /\ shown \in Shown
  /\ secure \in Stores
  /\ secureCalls \in [SecurityCall -> Coroutine]
  /\ held \in [id : Nat, key : Authenticator \cup {NoReport}, attached : BOOLEAN]
  /\ heldMade \in Nat
  /\ keys \in [Authenticator -> KeyState]
  /\ secureWire \in Seq(SnapshotMessage \cup Answer)
  /\ \A i \in 1..Len(secureWire) :
       /\ secureWire[i].kind = "answer"
       /\ CallOf(secureWire[i]).stage = "status" /\ secureWire[i].ok
       => secureWire[i].value \in ConfigStatus
  /\ changes \in Nat /\ failures \in Nat /\ gaveUp \in BOOLEAN

\* Who serves and what is selected: what is selected is attached, what was published
\* last is the newest, and after a rediscovery that gave up nothing is.
HeldOK ==
  /\ held.id <= heldMade
  /\ held.id # 0 => held.attached /\ held.key \in Authenticator
  /\ gaveUp => held.id = 0

\* An answer is of a call that is under way and was served, and the only one of it.
AnswersServed ==
  /\ \A i \in 1..Len(secureWire) : secureWire[i].kind = "answer" =>
       CallOf(secureWire[i]).stage # "none" /\ CallOf(secureWire[i]).served
  /\ \A i, j \in 1..Len(secureWire) :
       /\ secureWire[i].kind = "answer" /\ secureWire[j].kind = "answer"
       /\ secureWire[i].call = secureWire[j].call
       => i = j

-----------------------------------------------------------------------------
(* The steps of a coroutine.                                                *)

\* The fields of what a coroutine goes on with.
LEMMA CoroutineFields ==
  ASSUME NEW c \in Coroutine
  PROVE  /\ c.stage # "none" <=> c # NoStage
         /\ c # NoStage => c.served \in BOOLEAN
         /\ c.stage \in {"status", "sensor", "sources"} => c.then \in Then
         /\ c.stage \in {"preview", "execute"} => c.base \in Change
         /\ c.stage = "pin" => c.base \in PinChange
         /\ c.stage \in {"none", "status", "sensor", "sources", "enrollments", "reconnect",
                         "preview", "execute", "pin"}
         /\ c # NoStage => [c EXCEPT !.served = TRUE] \in Coroutine
<1>1. CASE c = NoStage
  BY <1>1 DEF NoStage
<1>2. CASE c \in [stage : {"status", "sensor", "sources"}, then : Then, served : BOOLEAN]
  <2>1. c.stage \in {"status", "sensor", "sources"} /\ c.then \in Then /\ c.served \in BOOLEAN
    BY <1>2
  <2>2. [c EXCEPT !.served = TRUE]
        \in [stage : {"status", "sensor", "sources"}, then : Then, served : BOOLEAN]
    BY <1>2
  <2>. QED  BY <2>1, <2>2 DEF NoStage, Coroutine
<1>3. CASE c \in [stage : {"enrollments", "reconnect"}, served : BOOLEAN]
  <2>1. c.stage \in {"enrollments", "reconnect"} /\ c.served \in BOOLEAN
    BY <1>3
  <2>2. [c EXCEPT !.served = TRUE] \in [stage : {"enrollments", "reconnect"}, served : BOOLEAN]
    BY <1>3
  <2>. QED  BY <2>1, <2>2 DEF NoStage, Coroutine
<1>4. CASE c \in [stage : {"preview", "execute"}, base : Change, served : BOOLEAN]
  <2>1. c.stage \in {"preview", "execute"} /\ c.base \in Change /\ c.served \in BOOLEAN
    BY <1>4
  <2>2. [c EXCEPT !.served = TRUE]
        \in [stage : {"preview", "execute"}, base : Change, served : BOOLEAN]
    BY <1>4
  <2>. QED  BY <2>1, <2>2 DEF NoStage, Coroutine
<1>5. CASE c \in [stage : {"pin"}, base : PinChange, served : BOOLEAN]
  <2>1. c.stage = "pin" /\ c.base \in PinChange /\ c.served \in BOOLEAN
    BY <1>5
  <2>2. [c EXCEPT !.served = TRUE] \in [stage : {"pin"}, base : PinChange, served : BOOLEAN]
    BY <1>5
  <2>. QED  BY <2>1, <2>2 DEF NoStage, Coroutine
<1>. QED  BY <1>1, <1>2, <1>3, <1>4, <1>5 DEF Coroutine

\* What a coroutine may do to the stores s on its way to the next await: it begins the
\* load of the call that it awaits, or empties the sensor and the enrollments.
Begun(next, new, stage) == IsLoading(new) /\ next.call.stage = stage
Follows(next, s) ==
  /\ next \in [stores : Stores, call : Coroutine]
  /\ next.call # NoStage => next.call.served = FALSE
  /\ next.stores.mutation = s.mutation
  /\ next.stores.status = s.status \/ Begun(next, next.stores.status, "status")
  /\ next.stores.status.report = s.status.report
  /\ \/ next.stores.sensor \in {s.sensor, EmptyResource}
     \/ Begun(next, next.stores.sensor, "sensor")
  /\ \/ next.stores.enrollments \in {s.enrollments, EmptyResource}
     \/ Begun(next, next.stores.enrollments, "enrollments")

\* A load begun.
LEMMA Begins ==
  /\ \A r \in Resource : /\ LoadBegun(r) \in Resource /\ IsLoading(LoadBegun(r))
                         /\ LoadBegun(r).report = r.report
  /\ \A r \in StatusResource : LoadBegun(r) \in StatusResource
  /\ StatusResource \subseteq Resource
  /\ EmptyResource \in StatusResource /\ EmptyResource \in Resource
  /\ EmptySecurity \in Stores
<1>1. ConfigStatus \cup {NoReport} \subseteq Value
  BY DEF Value
<1>2. StatusResource \subseteq Resource /\ EmptyResource \in StatusResource
  BY <1>1 DEF StatusResource, Resource, EmptyResource, Phase
<1>3. EmptySecurity \in Stores
  BY <1>2 DEF EmptySecurity, Stores
<1>. QED  BY <1>2, <1>3 DEF LoadBegun, IsLoading, Resource, StatusResource, Phase

\* The enrollments are read, emptied, or left alone when there is no sensor.
LEMMA EnrollmentsFollow ==
  ASSUME NEW s \in Stores
  PROVE  /\ Follows(LoadEnrollments(s), s)
         /\ LoadEnrollments(s).call.stage \in {"none", "enrollments"}
         /\ LoadEnrollments(s).stores.status = s.status
         /\ BioSupported(s) => LoadEnrollments(s).stores.enrollments.phase # "ready"
<1> DEFINE next == LoadEnrollments(s)
<1>0. /\ s.enrollments \in Resource /\ s.status \in StatusResource /\ s.sensor \in Resource
      /\ s = [status |-> s.status, sensor |-> s.sensor, enrollments |-> s.enrollments,
              mutation |-> s.mutation]
      /\ s.mutation \in {IdleMutation} \cup Reviewed
  BY DEF Stores
<1>1. CASE ~BioSupported(s)
  BY <1>1 DEF LoadEnrollments, Done, Awaits, Follows, Coroutine, NoStage
<1>2. CASE BioSupported(s) /\ ~s.status.report.configured
  <2>1. next = Done([s EXCEPT !.enrollments = EmptyResource])
    BY <1>2 DEF LoadEnrollments
  <2>. QED  BY <1>0, <2>1, Begins DEF Done, Awaits, Follows, Coroutine, NoStage, Stores, EmptyResource
<1>3. CASE BioSupported(s) /\ s.status.report.configured
  <2>1. next = Awaits([s EXCEPT !.enrollments = LoadBegun(@)], [stage |-> "enrollments", served |-> FALSE])
    BY <1>3 DEF LoadEnrollments
  <2>2. PICK r \in Resource : r = LoadBegun(s.enrollments)
    BY <1>0, Begins
  <2>3. IsLoading(r) /\ r.report = s.enrollments.report
    BY <1>0, <2>2, Begins
  <2>4. /\ next.call = [stage |-> "enrollments", served |-> FALSE]
        /\ next.stores = [s EXCEPT !.enrollments = r]
        /\ next = [stores |-> [s EXCEPT !.enrollments = r],
                   call |-> [stage |-> "enrollments", served |-> FALSE]]
    BY <2>1, <2>2 DEF Awaits
  <2>. QED  BY <1>0, <2>3, <2>4 DEF Follows, Coroutine, NoStage, Stores, Begun, IsLoading
<1>. QED  BY <1>1, <1>2, <1>3

\* A coroutine that awaits a call without touching the stores.
LEMMA AwaitsFollow ==
  ASSUME NEW s \in Stores, NEW c \in Coroutine, c # NoStage => c.served = FALSE
  PROVE  /\ Follows(Awaits(s, c), s)
         /\ Awaits(s, c).stores = s /\ Awaits(s, c).call = c
BY DEF Follows, Awaits

\* A coroutine that ends leaves the stores as they are.
LEMMA DoneFollows ==
  ASSUME NEW s \in Stores
  PROVE  Follows(Done(s), s) /\ Done(s).stores = s /\ Done(s).call = NoStage
<1>1. NoStage \in Coroutine
  BY DEF Coroutine
<1>. QED  BY <1>1, AwaitsFollow DEF Done

\* After the sources come the enrollments, if they are to be read.
LEMMA AfterSourcesFollows ==
  ASSUME NEW s \in Stores, NEW then
  PROVE  /\ Follows(AfterSources(s, then), s)
         /\ AfterSources(s, then).stores.status = s.status
         /\ then = "enrollments" /\ BioSupported(s)
            => AfterSources(s, then).stores.enrollments.phase # "ready"
BY DoneFollows, EnrollmentsFollow DEF AfterSources

\* After the status come the sources, and then the enrollments.
LEMMA AfterStatusFollows ==
  ASSUME NEW s \in Stores, NEW then \in Then, NEW attached \in BOOLEAN
  PROVE  LET next == AfterStatus(s, then, attached)
         IN /\ Follows(next, s) /\ next.stores.status = s.status
            /\ then = "enrollments" =>
                 \/ next.call.stage = "sources" /\ next.call.then = "enrollments"
                 \/ BioSupported(s) => next.stores.enrollments.phase # "ready"
<1> DEFINE c == [stage |-> "sources", then |-> then, served |-> FALSE]
<1>1. c \in Coroutine /\ c.served = FALSE /\ c.stage = "sources" /\ c.then = then
  BY DEF Coroutine
<1>2. AfterStatus(s, then, attached)
      = IF then # "nothing" /\ attached THEN Awaits(s, c) ELSE AfterSources(s, then)
  BY DEF AfterStatus
<1> HIDE DEF c
<1>3. Follows(Awaits(s, c), s) /\ Awaits(s, c).stores = s /\ Awaits(s, c).call = c
  BY <1>1, AwaitsFollow
<1>. QED  BY <1>1, <1>2, <1>3, AfterSourcesFollows

\* A status that is loaded.
LEMMA LoadStatusFollows ==
  ASSUME NEW s \in Stores, NEW then \in Then, NEW attached \in BOOLEAN
  PROVE  LET next == LoadStatus(s, then, attached)
         IN /\ Follows(next, s)
            /\ attached => /\ next.call.stage = "status" /\ next.call.then = then
                           /\ IsLoading(next.stores.status)
<1>1. CASE ~attached
  BY <1>1, AfterStatusFollows DEF LoadStatus
<1>2. CASE attached
  <2>1. PICK r \in StatusResource : r = LoadBegun(s.status)
    BY Begins DEF Stores
  <2>2. IsLoading(r) /\ r.report = s.status.report
    BY <2>1, Begins DEF Stores
  <2>3. PICK c \in Coroutine : c = [stage |-> "status", then |-> then, served |-> FALSE]
    BY DEF Coroutine
  <2>4. LoadStatus(s, then, attached) = [stores |-> [s EXCEPT !.status = r], call |-> c]
    BY <1>2, <2>1, <2>3 DEF LoadStatus, Awaits
  <2>5. PICK next : next = [stores |-> [s EXCEPT !.status = r], call |-> c]
    OBVIOUS
  <2>6. next.call = c /\ next.stores = [s EXCEPT !.status = r]
    BY <2>5
  <2>7. /\ next.stores \in Stores /\ next.stores.status = r /\ next.stores.mutation = s.mutation
        /\ next.stores.sensor = s.sensor /\ next.stores.enrollments = s.enrollments
    BY <2>6 DEF Stores
  <2>8. next \in [stores : Stores, call : Coroutine]
    BY <2>5, <2>6, <2>7
  <2>9. c.served = FALSE /\ c.stage = "status" /\ c.then = then
    BY <2>3
  <2>. QED  BY <2>2, <2>4, <2>5, <2>6, <2>7, <2>8, <2>9 DEF Follows, Begun
<1>. QED  BY <1>1, <1>2

\* What a coroutine awaits when the enrollments will be read.
Chained(next) ==
  /\ next.call.stage \in {"status", "sensor", "sources"} /\ next.call.then = "enrollments"
  /\ next.call.stage # "status" => next.stores.status.report # NoReport

\* After the status comes the sensor, if there is one.
LEMMA StatusReturnedFollows ==
  ASSUME NEW s \in Stores, NEW a, a.ok \in BOOLEAN,
         NEW then \in Then, NEW attached \in BOOLEAN
  PROVE  LET next == StatusReturned(s, a, then, attached)
         IN /\ Follows(next, s)
            /\ next.stores.status = s.status
            /\ then = "enrollments" /\ s.status.report # NoReport =>
                 \/ Chained(next)
                 \/ BioSupported(s) => next.stores.enrollments.phase # "ready"
<1> DEFINE next == StatusReturned(s, a, then, attached)
<1>1. CASE a.ok /\ a.value.bio /\ BioSupported(s)
  <2>1. PICK r \in Resource : r = LoadBegun(s.sensor)
    BY Begins DEF Stores
  <2>2. IsLoading(r) /\ r.report = s.sensor.report
    BY <2>1, Begins DEF Stores
  <2>3. PICK c \in Coroutine : c = [stage |-> "sensor", then |-> then, served |-> FALSE]
    BY DEF Coroutine
  <2>4. next = [stores |-> [s EXCEPT !.sensor = r], call |-> c]
    BY <1>1, <2>1, <2>3 DEF StatusReturned, Awaits
  <2>5. PICK nx : nx = [stores |-> [s EXCEPT !.sensor = r], call |-> c]
    OBVIOUS
  <2>6. nx.call = c /\ nx.stores = [s EXCEPT !.sensor = r]
    BY <2>5
  <2>7. /\ nx.stores \in Stores /\ nx.stores.status = s.status /\ nx.stores.mutation = s.mutation
        /\ nx.stores.sensor = r /\ nx.stores.enrollments = s.enrollments
    BY <2>6 DEF Stores
  <2>8. nx \in [stores : Stores, call : Coroutine]
    BY <2>5, <2>6, <2>7
  <2>9. c.served = FALSE /\ c.stage = "sensor" /\ c.then = then
    BY <2>3
  <2>. QED  BY <2>2, <2>4, <2>5, <2>6, <2>7, <2>8, <2>9 DEF Follows, Begun, Chained
<1>2. CASE ~(a.ok /\ a.value.bio /\ BioSupported(s))
  <2>1. PICK t \in Stores : t = IF a.ok THEN [s EXCEPT !.sensor = EmptyResource] ELSE s
    BY Begins DEF Stores
  <2>2. /\ t.status = s.status /\ t.mutation = s.mutation /\ t.enrollments = s.enrollments
        /\ t.sensor \in {s.sensor, EmptyResource}
    BY <2>1 DEF Stores
  <2>3. next = AfterStatus(t, then, attached)
    BY <1>2, <2>1 DEF StatusReturned
  <2>4. PICK nx : nx = next
    OBVIOUS
  <2>5. /\ Follows(nx, t) /\ nx.stores.status = t.status
        /\ then = "enrollments" =>
             \/ nx.call.stage = "sources" /\ nx.call.then = "enrollments"
             \/ BioSupported(t) => nx.stores.enrollments.phase # "ready"
    BY <2>3, <2>4, AfterStatusFollows
  <2>. QED  BY <2>2, <2>4, <2>5 DEF Follows, Begun, Chained, BioSupported
<1>. QED  BY <1>1, <1>2

\* What a coroutine does after each call.
LEMMA GoesOnFollows ==
  ASSUME NEW s \in Stores, NEW call \in Coroutine, NEW a, a.ok \in BOOLEAN,
         NEW w, w.session.attached \in BOOLEAN
  PROVE  LET next == GoesOn(s, call, a, w)
         IN /\ Follows(next, IF call.stage = "execute" /\ a.ok THEN Finished(s) ELSE s)
            /\ call.stage = "reconnect" /\ CanAutoLoad(w, s) => IsLoading(next.stores.status)
            /\ /\ call.stage \in {"status", "sensor", "sources"} /\ call.then = "enrollments"
               /\ s.status.report # NoReport
               => \/ Chained(next)
                  \/ BioSupported(s) => next.stores.enrollments.phase # "ready"
<1> DEFINE next == GoesOn(s, call, a, w)
           attached == w.session.attached
<1>0. /\ Finished(s) \in Stores /\ Finished(s).status = s.status
  BY DEF Stores, Finished
<1>1. CASE call.stage = "status"
  <2>1. next = StatusReturned(s, a, call.then, attached) /\ call.then \in Then
    BY <1>1, CoroutineFields DEF GoesOn
  <2>. QED  BY <1>1, <2>1, StatusReturnedFollows
<1>2. CASE call.stage = "sensor"
  <2>1. next = AfterStatus(s, call.then, attached) /\ call.then \in Then
    BY <1>2, CoroutineFields DEF GoesOn
  <2>. QED  BY <1>2, <2>1, AfterStatusFollows DEF Chained
<1>3. CASE call.stage = "sources"
  <2>1. next = AfterSources(s, call.then)
    BY <1>3 DEF GoesOn
  <2>. QED  BY <1>3, <2>1, AfterSourcesFollows
<1>4. CASE call.stage = "pin" /\ a.ok
  <2>1. next = LoadStatus(s, "sources", attached) /\ "sources" \in Then
    BY <1>4 DEF GoesOn, Then
  <2>. QED  BY <1>4, <2>1, LoadStatusFollows
<1>5. CASE call.stage = "execute" /\ a.ok
  <2>1. next = LoadStatus(Finished(s), RefreshAfter(call.base.kind), attached)
    BY <1>5 DEF GoesOn
  <2>2. RefreshAfter(call.base.kind) \in Then
    BY DEF RefreshAfter, Then
  <2>. QED  BY <1>0, <1>5, <2>1, <2>2, LoadStatusFollows
<1>6. CASE call.stage = "reconnect"
  <2>1. next = MaybeLoad(w, s) /\ "nothing" \in Then
    BY <1>6 DEF GoesOn, Then
  <2>2. CASE CanAutoLoad(w, s)
    <3>1. next = LoadStatus(s, "nothing", TRUE)
      BY <2>1, <2>2 DEF MaybeLoad
    <3>. QED  BY <1>6, <2>1, <3>1, LoadStatusFollows
  <2>3. CASE ~CanAutoLoad(w, s)
    <3>1. next = Done(s)
      BY <2>1, <2>3 DEF MaybeLoad
    <3>. QED  BY <1>6, <2>3, <3>1, DoneFollows
  <2>. QED  BY <2>2, <2>3
<1>7. CASE /\ call.stage \notin {"status", "sensor", "sources", "reconnect"}
           /\ call.stage \in {"pin", "execute"} => ~a.ok
  <2>1. next = Done(s)
    BY <1>7 DEF GoesOn
  <2>. QED  BY <1>7, <2>1, DoneFollows
<1>. QED  BY <1>1, <1>2, <1>3, <1>4, <1>5, <1>6, <1>7

\* What is published after a call: the resource that was read, or where the review is.
LEMMA Publishes ==
  ASSUME NEW s \in Stores, NEW call \in Coroutine, NEW a \in Answer,
         call.stage = "status" /\ a.ok => a.value \in ConfigStatus
  PROVE  LET t == Published(s, call, a)
         IN /\ t \in Stores
            /\ IF call.stage = "status" THEN t.status = LoadEnded(s.status, a)
               ELSE t.status = s.status
            /\ IF call.stage = "sensor" THEN t.sensor = LoadEnded(s.sensor, a)
               ELSE t.sensor = s.sensor
            /\ IF call.stage = "enrollments" THEN t.enrollments = LoadEnded(s.enrollments, a)
               ELSE t.enrollments = s.enrollments
            /\ t.mutation.phase = "previewing" =>
                 s.mutation.phase = "previewing" /\ call.stage # "preview"
            /\ t.mutation.phase = "executing" =>
                 s.mutation.phase = "executing" /\ (call.stage = "execute" => a.ok)
<1> DEFINE t == Published(s, call, a)
<1>0. a.ok \in BOOLEAN /\ a.value \in Value
  BY DEF Answer
<1>1. CASE call.stage = "status"
  <2>1. PICK r \in StatusResource : r = LoadEnded(s.status, a)
    BY <1>0, <1>1 DEF Stores, StatusResource, Phase, LoadEnded
  <2>2. t = [s EXCEPT !["status"] = LoadEnded(@, a)]
    BY <1>1 DEF Published
  <2>3. t = [s EXCEPT !.status = r]
    BY <2>1, <2>2
  <2>. QED  BY <1>1, <2>1, <2>3 DEF Stores
<1>2. CASE call.stage = "sensor"
  <2>1. PICK r \in Resource : r = LoadEnded(s.sensor, a)
    BY <1>0 DEF Stores, Resource, Phase, LoadEnded
  <2>2. t = [s EXCEPT !["sensor"] = LoadEnded(@, a)]
    BY <1>2 DEF Published
  <2>3. t = [s EXCEPT !.sensor = r]
    BY <2>1, <2>2
  <2>. QED  BY <1>2, <2>1, <2>3 DEF Stores
<1>3. CASE call.stage = "enrollments"
  <2>1. PICK r \in Resource : r = LoadEnded(s.enrollments, a)
    BY <1>0 DEF Stores, Resource, Phase, LoadEnded
  <2>2. t = [s EXCEPT !["enrollments"] = LoadEnded(@, a)]
    BY <1>3 DEF Published
  <2>3. t = [s EXCEPT !.enrollments = r]
    BY <2>1, <2>2
  <2>. QED  BY <1>3, <2>1, <2>3 DEF Stores
<1>4. CASE call.stage = "preview" \/ (call.stage = "execute" /\ ~a.ok)
  <2> DEFINE phase == IF call.stage = "execute" THEN "executeFailed"
                      ELSE IF a.ok THEN "review" ELSE "previewFailed"
  <2>1. t = [s EXCEPT !.mutation = InPhase(phase, call.base)]
    BY <1>0, <1>4 DEF Published
  <2>2. call.base \in Change
    BY <1>4, CoroutineFields
  <2>3. phase \in {"review", "previewFailed", "executeFailed"}
    OBVIOUS
  <2> HIDE DEF phase
  <2>4. InPhase(phase, call.base) \in Reviewed /\ InPhase(phase, call.base).phase = phase
    BY <2>2, <2>3 DEF InPhase, Reviewed
  <2>5. PICK m \in Reviewed : m = InPhase(phase, call.base)
    BY <2>4
  <2>6. t = [s EXCEPT !.mutation = m] /\ m.phase \in {"review", "previewFailed", "executeFailed"}
    BY <2>1, <2>3, <2>4, <2>5
  <2>. QED  BY <1>4, <2>6 DEF Stores
<1>5. CASE /\ call.stage \notin {"status", "sensor", "enrollments", "preview"}
           /\ call.stage = "execute" => a.ok
  <2>1. t = s
    BY <1>5 DEF Published
  <2>. QED  BY <1>5, <2>1
<1>. QED  BY <1>0, <1>1, <1>2, <1>3, <1>4, <1>5

-----------------------------------------------------------------------------
(* The steps of the window.                                                 *)

\* A coroutine begins, if any does, where there was none.
Starts(next) ==
  \/ \E k \in FreeCalls : secureCalls' = [secureCalls EXCEPT ![k] = next.call]
  \/ next.call = NoStage /\ secureCalls' = secureCalls

\* What the window w, with the stores s, becomes on the way to the next await.
Turns(next, s, w) ==
  /\ Follows(next, s) /\ secure' = next.stores
  /\ shown' \in Shown /\ shown'.session = w.session /\ shown'.screen = w.screen

\* A coroutine that goes on turns the window into what its step leaves.
LEMMA ContinuesTurns ==
  ASSUME NEW s \in Stores, NEW next, Follows(next, s), NEW w \in Shown, NEW k,
         Continues(k, next, w)
  PROVE  Turns(next, s, w) /\ secureCalls' = [secureCalls EXCEPT ![k] = next.call]
BY DEF Turns, Continues, Shown

\* The screen that is not blank any more, or need not be loaded.
LEMMA Loading ==
  ASSUME NEW s \in Stores, NEW w \in Shown, LoadsSecurity(w, s)
  PROVE  \E next : Turns(next, s, w) /\ Starts(next) /\ ~CanAutoLoad(shown', secure')
<1>1. CASE CanAutoLoad(w, s)
  <2>1. PICK k \in FreeCalls : Continues(k, LoadStatus(s, "nothing", TRUE), w)
    BY <1>1 DEF LoadsSecurity
  <2>2. PICK next : next = LoadStatus(s, "nothing", TRUE)
    OBVIOUS
  <2>3. Follows(next, s) /\ IsLoading(next.stores.status)
    BY <2>2, LoadStatusFollows DEF Then
  <2>4. Turns(next, s, w) /\ secureCalls' = [secureCalls EXCEPT ![k] = next.call]
    BY <2>1, <2>2, <2>3, ContinuesTurns
  <2>. QED  BY <2>1, <2>3, <2>4 DEF Starts, Turns, IsLoading, CanAutoLoad
<1>2. CASE ~CanAutoLoad(w, s)
  <2>1. PICK next : next = Done(s)
    OBVIOUS
  <2>2. secure' = s /\ shown' = w /\ secureCalls' = secureCalls
    BY <1>2 DEF LoadsSecurity
  <2>. QED  BY <1>2, <2>1, <2>2, DoneFollows DEF Starts, Turns
<1>. QED  BY <1>1, <1>2

\* What the user does leaves the resources to the coroutine that he starts, and the
\* mutation with a call that is awaited.
UserAwaits(next, s) ==
  /\ s \in Stores
  /\ s.status = secure.status /\ s.sensor = secure.sensor
  /\ s.enrollments = secure.enrollments
  /\ Follows(next, s) /\ secure' = next.stores
  /\ Starts(next)
  /\ s.mutation.phase = "previewing" =>
       secure.mutation.phase = "previewing" \/ next.call.stage = "preview"
  /\ s.mutation.phase = "executing" =>
       secure.mutation.phase = "executing" \/ next.call.stage = "execute"
ByTheUser ==
  /\ UNCHANGED <<heldVars, secureWire, failures, gaveUp>> /\ changes' \in Nat
  /\ \E next, s : UserAwaits(next, s)
  /\ shown' \in Shown /\ shown'.session = shown.session
  /\ CanAutoLoad(shown', secure') => CanAutoLoad(shown, secure)

\* A coroutine that the user starts.
LEMMA UserStarts ==
  ASSUME SecurityTypeOK, NEW next, NEW s \in Stores, Follows(next, s), NEW k, ByUser(k, next),
         s.status = secure.status, s.sensor = secure.sensor, s.enrollments = secure.enrollments,
         s.mutation.phase = "previewing" =>
           secure.mutation.phase = "previewing" \/ next.call.stage = "preview",
         s.mutation.phase = "executing" =>
           secure.mutation.phase = "executing" \/ next.call.stage = "execute",
         changes' \in Nat
  PROVE  ByTheUser
<1>1. Continues(k, next, shown) /\ k \in FreeCalls /\ shown \in Shown
  BY DEF ByUser, SecurityTypeOK
<1>2. Turns(next, s, shown) /\ secureCalls' = [secureCalls EXCEPT ![k] = next.call]
  BY <1>1, ContinuesTurns
<1>3. CanAutoLoad(shown', secure') => CanAutoLoad(shown, secure)
  BY <1>2 DEF CanAutoLoad, Turns, Follows, Begun, IsLoading
<1>4. Starts(next)
  BY <1>1, <1>2 DEF Starts
<1>5. shown' \in Shown /\ shown'.session = shown.session /\ Follows(next, s) /\ secure' = next.stores
  BY <1>2 DEF Turns
<1>. QED  BY <1>3, <1>4, <1>5 DEF ByTheUser, UserAwaits, ByUser

\* A mutation is edited or given up.
LEMMA UserEdits ==
  ASSUME SecurityTypeOK,
         NEW m \in {IdleMutation} \cup Reviewed, m.phase \notin {"previewing", "executing"},
         secure' = [secure EXCEPT !.mutation = m],
         UNCHANGED <<shown, secureCalls, heldVars, secureWire, secureHistory>>
  PROVE  ByTheUser
<1>1. PICK s \in Stores : s = [secure EXCEPT !.mutation = m]
  BY DEF SecurityTypeOK, Stores
<1>2. /\ s.status = secure.status /\ s.sensor = secure.sensor
      /\ s.enrollments = secure.enrollments /\ s.mutation = m
  BY <1>1 DEF SecurityTypeOK, Stores
<1>3. PICK next : next = Done(s)
  OBVIOUS
<1>4. Follows(next, s) /\ next.stores = s /\ next.call = NoStage
  BY <1>3, DoneFollows
<1>5. secure' = s
  BY <1>1
<1>6. Starts(next)
  BY <1>4 DEF Starts
<1>7. CanAutoLoad(shown', secure') => CanAutoLoad(shown, secure)
  BY <1>2, <1>5 DEF CanAutoLoad
<1>8. shown' \in Shown /\ shown'.session = shown.session /\ changes' \in Nat
  BY DEF SecurityTypeOK, secureHistory
<1>9. UNCHANGED <<heldVars, secureWire, failures, gaveUp>>
  BY DEF secureHistory
<1>. QED  BY <1>2, <1>4, <1>5, <1>6, <1>7, <1>8, <1>9 DEF ByTheUser, UserAwaits

\* A change that the user begins is previewed, or edited again.
LEMMA UserChanges ==
  ASSUME SecurityTypeOK, NEW base \in Change, NEW k, BeginChange(k, base)
  PROVE  ByTheUser
<1> USE DEF InPhase
<1>1. CASE /\ secure' = [secure EXCEPT !.mutation = InPhase("editing", base)]
           /\ UNCHANGED <<shown, secureCalls, heldVars, secureWire, secureHistory>>
  <2>1. PICK m \in Reviewed : m = InPhase("editing", base)
    BY DEF Reviewed
  <2>2. m.phase = "editing"
    BY <2>1
  <2>. QED  BY <1>1, <2>1, <2>2, UserEdits
<1>2. CASE /\ Asks
           /\ ByUser(k, Awaits([secure EXCEPT !.mutation = InPhase("previewing", base)],
                               [stage |-> "preview", base |-> base, served |-> FALSE]))
  <2>1. PICK m \in Reviewed : m = InPhase("previewing", base)
    BY DEF Reviewed
  <2>2. PICK s \in Stores : s = [secure EXCEPT !.mutation = m]
    BY DEF SecurityTypeOK, Stores
  <2>3. /\ s.status = secure.status /\ s.sensor = secure.sensor
        /\ s.enrollments = secure.enrollments /\ s.mutation = m
    BY <2>2 DEF SecurityTypeOK, Stores
  <2>4. PICK c \in Coroutine : c = [stage |-> "preview", base |-> base, served |-> FALSE]
    BY DEF Coroutine
  <2>5. PICK next : next = Awaits(s, c)
    OBVIOUS
  <2>6. Follows(next, s) /\ next.call = c
    BY <2>4, <2>5, AwaitsFollow
  <2>7. ByUser(k, next)
    BY <1>2, <2>1, <2>2, <2>4, <2>5
  <2>8. m.phase = "previewing" /\ c.stage = "preview" /\ changes' \in Nat
    BY <1>2, <2>1, <2>4 DEF Asks, SecurityTypeOK
  <2>. QED  BY <2>3, <2>6, <2>7, <2>8, UserStarts
<1>. QED  BY <1>1, <1>2 DEF BeginChange

\* The user reads the status or the enrollments again.
LEMMA UserReloads ==
  ASSUME SecurityTypeOK, NEW k, ReloadSecurity(k) \/ ReloadEnrollments(k)
  PROVE  ByTheUser
<1> secure \in Stores /\ changes \in Nat
  BY DEF SecurityTypeOK
<1>1. CASE ReloadSecurity(k)
  <2>1. PICK next : next = LoadStatus(secure, "nothing", TRUE)
    OBVIOUS
  <2>2. Follows(next, secure)
    BY <2>1, LoadStatusFollows DEF Then
  <2>3. ByUser(k, next) /\ changes' \in Nat
    BY <1>1, <2>1 DEF ReloadSecurity
  <2>. QED  BY <2>2, <2>3, UserStarts
<1>2. CASE ReloadEnrollments(k)
  <2>1. PICK next : next = LoadEnrollments(secure)
    OBVIOUS
  <2>2. Follows(next, secure)
    BY <2>1, EnrollmentsFollow
  <2>3. ByUser(k, next) /\ changes' \in Nat
    BY <1>2, <2>1 DEF ReloadEnrollments
  <2>. QED  BY <2>2, <2>3, UserStarts
<1>. QED  BY <1>1, <1>2

\* The user confirms what was reviewed.
LEMMA UserConfirms ==
  ASSUME SecurityTypeOK, NEW k, ConfirmSecurity(k)
  PROVE  ByTheUser
<1>1. secure.mutation.phase \in {"review", "executeFailed"}
  BY DEF ConfirmSecurity
<1>2. secure \in Stores /\ secure.mutation \in Reviewed /\ changes' \in Nat
  BY <1>1 DEF ConfirmSecurity, SecurityTypeOK, Stores, IdleMutation
<1>3. PICK base \in Change : base = secure.mutation.base
  BY <1>2 DEF Reviewed
<1>4. PICK m \in Reviewed : m = [secure.mutation EXCEPT !.phase = "executing"]
  BY <1>2 DEF Reviewed
<1>5. m.phase = "executing"
  BY <1>2, <1>4 DEF Reviewed
<1>6. PICK s \in Stores : s = [secure EXCEPT !.mutation = m]
  BY <1>2 DEF Stores
<1>7. /\ s.status = secure.status /\ s.sensor = secure.sensor
      /\ s.enrollments = secure.enrollments /\ s.mutation = m
  BY <1>2, <1>6 DEF Stores
<1>8. PICK c \in Coroutine : c = [stage |-> "execute", base |-> base, served |-> FALSE]
  BY DEF Coroutine
<1>9. PICK next : next = Awaits(s, c)
  OBVIOUS
<1>10. Follows(next, s) /\ next.call = c /\ c.stage = "execute"
  BY <1>8, <1>9, AwaitsFollow
<1>11. ByUser(k, Awaits([secure EXCEPT !.mutation.phase = "executing"],
                        [stage |-> "execute", base |-> secure.mutation.base, served |-> FALSE]))
  BY DEF ConfirmSecurity
<1>12. [secure EXCEPT !.mutation.phase = "executing"] = s
  BY <1>4, <1>6
<1>13. ByUser(k, next)
  BY <1>3, <1>8, <1>9, <1>11, <1>12
<1>. QED  BY <1>2, <1>5, <1>7, <1>10, <1>13, UserStarts

\* The user sets or changes the PIN.
LEMMA UserEntersPIN ==
  ASSUME SecurityTypeOK, NEW k, EnterPIN(k)
  PROVE  ByTheUser
<1>1. PICK c \in Coroutine : c = [stage |-> "pin", base |-> [kind |-> "pin"], served |-> FALSE]
  BY DEF Coroutine, PinChange
<1>2. PICK next : next = Awaits(secure, c)
  OBVIOUS
<1>3. secure \in Stores /\ changes' \in Nat
  BY DEF EnterPIN, Asks, SecurityTypeOK
<1>4. Follows(next, secure) /\ ByUser(k, next)
  BY <1>1, <1>2, <1>3, AwaitsFollow DEF EnterPIN
<1>. QED  BY <1>3, <1>4, UserStarts

\* The user turns to another screen, or to this one.
LEMMA UserTurns ==
  ASSUME SecurityTypeOK, NEW screen \in {"security", "other"}, ChangeScreen(screen),
         ~CanAutoLoad(shown, secure)
  PROVE  ByTheUser
<1>1. PICK w \in Shown : w = [shown EXCEPT !.screen = screen]
  BY DEF SecurityTypeOK, Shown
<1>2. w.session = shown.session
  BY <1>1 DEF SecurityTypeOK, Shown
<1>3. LoadsSecurity(w, secure) /\ secure \in Stores
  BY <1>1 DEF ChangeScreen, SecurityTypeOK
<1>4. PICK next : Turns(next, secure, w) /\ Starts(next) /\ ~CanAutoLoad(shown', secure')
  BY <1>3, Loading
<1>5. /\ Follows(next, secure) /\ secure' = next.stores
      /\ shown' \in Shown /\ shown'.session = shown.session
  BY <1>2, <1>4 DEF Turns
<1>6. UNCHANGED <<heldVars, secureWire, failures, gaveUp>> /\ changes' \in Nat
  BY DEF ChangeScreen, secureHistory, SecurityTypeOK
<1>. QED  BY <1>3, <1>4, <1>5, <1>6 DEF ByTheUser, UserAwaits

\* The user closes the review or the form.
LEMMA UserCloses ==
  ASSUME SecurityTypeOK, CloseSecurityMutation
  PROVE  ByTheUser
<1>1. IdleMutation.phase = "idle"
  BY DEF IdleMutation
<1>. QED  BY <1>1, UserEdits DEF CloseSecurityMutation

\* The user asks for a preview again after one that failed.
LEMMA UserRestarts ==
  ASSUME SecurityTypeOK, NEW k, RestartPreview(k)
  PROVE  ByTheUser
<1>1. secure.mutation.phase = "previewFailed" /\ BeginChange(k, secure.mutation.base)
  BY DEF RestartPreview
<1>2. secure.mutation \in Reviewed
  BY <1>1 DEF SecurityTypeOK, Stores, IdleMutation
<1>3. secure.mutation.base \in Change
  BY <1>2 DEF Reviewed
<1>. QED  BY <1>1, <1>3, UserChanges

\* Every step of the next-state relation: one of the user, or one of those that send or
\* take a message.
LEMMA SecuritySteps ==
  ASSUME SecurityTypeOK, ~CanAutoLoad(shown, secure), SecurityNext
  PROVE  \/ ByTheUser \/ PublishHeld \/ SnapshotArrives \/ AnswerArrives
         \/ \E k \in SecurityCall : ServeCall(k) \/ ServeSources(k) \/ ServeReconnect(k)
<1>1. CASE CloseSecurityMutation
  BY <1>1, UserCloses
<1>2. CASE \E screen \in {"security", "other"} : ChangeScreen(screen)
  BY <1>2, UserTurns
<1>3. ASSUME NEW k \in SecurityCall, ReloadSecurity(k) \/ ReloadEnrollments(k)
      PROVE  ByTheUser
  BY <1>3, UserReloads
<1>4. ASSUME NEW k \in SecurityCall, RestartPreview(k) \/ ConfirmSecurity(k) \/ EnterPIN(k)
      PROVE  ByTheUser
  BY <1>4, UserRestarts, UserConfirms, UserEntersPIN
<1>5. ASSUME NEW k \in SecurityCall, NEW base \in Change, BeginMutation(k, base)
      PROVE  ByTheUser
  BY <1>5, UserChanges DEF BeginMutation
<1>. QED  BY <1>1, <1>2, <1>3, <1>4, <1>5 DEF SecurityNext

-----------------------------------------------------------------------------
(* Messages that arrive.                                                    *)

\* The answer to a reset that succeeded, and the session that the window has after a
\* message.
Resets(m) ==
  /\ m.kind = "answer" /\ m.ok
  /\ CallOf(m).stage = "execute" /\ CallOf(m).base.kind = "reset"
SessionAfter(m, known) ==
  IF m.kind = "snapshot" THEN m.session
  ELSE IF Resets(m) THEN Unselected
  ELSE IF m.closed THEN [known EXCEPT !.id = 0] ELSE known

\* A message leaves the window with a session.
LEMMA SessionAfterTyped ==
  ASSUME NEW m \in SnapshotMessage \cup Answer, NEW known \in Session
  PROVE  SessionAfter(m, known) \in Session
<1>1. m.kind = "snapshot" => m.session \in Session
  BY DEF SnapshotMessage, Answer
<1>. QED  BY <1>1 DEF SessionAfter, Session, Unselected

\* What is left on the wire.
LEMMA Taken ==
  ASSUME SecurityTypeOK, NEW kind, NextOnWire(kind)
  PROVE  /\ secureWire[1] \in SnapshotMessage \cup Answer /\ secureWire[1].kind = kind
         /\ secureWire[1] = Head(secureWire)
         /\ secureWire' \in Seq(SnapshotMessage \cup Answer)
         /\ Len(secureWire) \in Nat /\ Len(secureWire) >= 1 /\ Len(secureWire') = Len(secureWire) - 1
         /\ \A i \in 1..Len(secureWire) - 1 : secureWire'[i] = secureWire[i + 1]
<1>1. secureWire \in Seq(SnapshotMessage \cup Answer) /\ secureWire # <<>> /\ secureWire' = Tail(secureWire)
      /\ Head(secureWire).kind = kind
  BY DEF SecurityTypeOK, NextOnWire
<1> HIDE DEF SnapshotMessage, Answer
<1>. QED  BY <1>1

\* What a snapshot does: the stores of another session are emptied, and what is shown is
\* loaded if it has to be.
LEMMA SnapshotComes ==
  ASSUME SecurityTypeOK, SnapshotArrives
  PROVE  LET m == secureWire[1]
         IN /\ m \in SnapshotMessage /\ NextOnWire("snapshot")
            /\ \E next : \E w \in Shown : \E s \in Stores :
                 /\ w.session = m.session
                 /\ s = IF m.session = shown.session THEN secure ELSE EmptySecurity
                 /\ Turns(next, s, w) /\ Starts(next)
            /\ ~CanAutoLoad(shown, secure) => ~CanAutoLoad(shown', secure')
            /\ UNCHANGED <<heldVars, secureHistory>>
<1> DEFINE m == secureWire[1]
<1>1. NextOnWire("snapshot") /\ UNCHANGED <<heldVars, secureHistory>>
  BY DEF SnapshotArrives
<1>2. m \in SnapshotMessage /\ m = Head(secureWire)
  BY <1>1, Taken DEF Answer
<1>3. PICK n \in Session : n = m.session
  BY <1>2 DEF SnapshotMessage
<1>4. PICK now \in Session : now = shown.session
  BY DEF SecurityTypeOK, Shown
<1>5. PICK w \in Shown : w = [shown EXCEPT !.session = n]
  BY DEF SecurityTypeOK, Shown
<1>6. w.session = n /\ w.screen = shown.screen
  BY <1>5 DEF SecurityTypeOK, Shown
<1>7. PICK s \in Stores : s = IF n = now THEN secure ELSE EmptySecurity
  BY Begins DEF SecurityTypeOK
<1>8. IF n.attached # now.attached \/ (n.id # 0 /\ n.id # now.id)
      THEN LoadsSecurity(w, s)
      ELSE secure' = s /\ shown' = w /\ UNCHANGED secureCalls
  BY <1>2, <1>3, <1>4, <1>5, <1>7 DEF SnapshotArrives
<1>9. CASE LoadsSecurity(w, s)
  <2>1. PICK next : Turns(next, s, w) /\ Starts(next) /\ ~CanAutoLoad(shown', secure')
    BY <1>9, Loading
  <2>. QED  BY <1>1, <1>2, <1>3, <1>4, <1>6, <1>7, <2>1
<1>10. CASE /\ n.attached = now.attached /\ (n.id = 0 \/ n.id = now.id)
            /\ secure' = s /\ shown' = w /\ UNCHANGED secureCalls
  <2>1. PICK next : next = Done(s)
    OBVIOUS
  <2>2. Turns(next, s, w) /\ Starts(next)
    BY <1>10, <2>1, DoneFollows DEF Turns, Starts
  <2>3. n = now \/ n.id = 0
    BY <1>10 DEF Session
  <2>4. ~CanAutoLoad(shown, secure) => ~CanAutoLoad(shown', secure')
    BY <1>4, <1>6, <1>7, <1>10, <2>3 DEF CanAutoLoad
  <2>. QED  BY <1>1, <1>2, <1>3, <1>4, <1>6, <1>7, <2>2, <2>4
<1>. QED  BY <1>8, <1>9, <1>10

\* What an answer does: the call it answers goes on, with the stores that were published,
\* or with empty ones after a close or a reset.
LEMMA AnswerComes ==
  ASSUME SecurityTypeOK, AnswersServed, AnswerArrives
  PROVE  LET a == secureWire[1]
         IN /\ a \in Answer /\ NextOnWire("answer")
            /\ CallOf(a) \in Coroutine /\ CallOf(a) # NoStage
            /\ CallOf(a).stage = "status" /\ a.ok => a.value \in ConfigStatus
            /\ \E next : \E w \in Shown :
                 /\ w.session = SessionAfter(a, shown.session) /\ w.screen = shown.screen
                 /\ Continues(a.call, next, w)
                 /\ next = IF Resets(a)
                           THEN Awaits(EmptySecurity, [stage |-> "reconnect", served |-> FALSE])
                           ELSE GoesOn(IF a.closed THEN EmptySecurity
                                       ELSE Published(secure, CallOf(a), a), CallOf(a), a, w)
            /\ UNCHANGED <<heldVars, secureHistory>>
<1> DEFINE a == secureWire[1]
           call == CallOf(a)
<1>1. NextOnWire("answer") /\ UNCHANGED <<heldVars, secureHistory>>
  BY DEF AnswerArrives
<1>2. a \in Answer /\ a = Head(secureWire) /\ 1 \in 1..Len(secureWire)
  BY <1>1, Taken DEF SnapshotMessage
<1>3. a.call \in SecurityCall /\ a.ok \in BOOLEAN /\ a.closed \in BOOLEAN /\ a.kind = "answer"
  BY <1>2 DEF Answer
<1>4. call \in Coroutine /\ call # NoStage
  BY <1>2, <1>3 DEF SecurityTypeOK, AnswersServed, CallOf, NoStage
<1>5. call.stage = "status" /\ a.ok => a.value \in ConfigStatus
  BY <1>2, <1>3 DEF SecurityTypeOK
<1>6. PICK ends : ends = [shown EXCEPT !.busy = IF call.stage \in {"sources", "reconnect"} THEN @ ELSE FALSE,
                                       !.session.id = IF a.closed THEN 0 ELSE @]
  OBVIOUS
<1>7. /\ ends \in Shown /\ ends.screen = shown.screen
      /\ ends.session = IF a.closed THEN [shown.session EXCEPT !.id = 0] ELSE shown.session
  <2>1. PICK busy \in BOOLEAN : busy = IF call.stage \in {"sources", "reconnect"} THEN shown.busy ELSE FALSE
    BY DEF SecurityTypeOK, Shown
  <2>2. PICK known \in Session :
          /\ known = [shown.session EXCEPT !.id = IF a.closed THEN 0 ELSE @]
          /\ known = IF a.closed THEN [shown.session EXCEPT !.id = 0] ELSE shown.session
    BY <1>3 DEF SecurityTypeOK, Shown, Session
  <2>3. ends = [[shown EXCEPT !.busy = busy] EXCEPT !.session = known]
    BY <1>6, <2>1, <2>2
  <2>. QED  BY <2>2, <2>3 DEF SecurityTypeOK, Shown
<1>8. CASE Resets(a)
  <2>1. PICK next : next = Awaits(EmptySecurity, [stage |-> "reconnect", served |-> FALSE])
    OBVIOUS
  <2>2. call.stage = "execute" /\ a.ok /\ call.base.kind = "reset"
    BY <1>8 DEF Resets
  <2>3. PICK w \in Shown : w = [ends EXCEPT !.session = Unselected]
    BY <1>7 DEF Shown, Session, Unselected
  <2>4. w.session = Unselected /\ w.screen = shown.screen
    BY <1>7, <2>3 DEF Shown
  <2>5. Continues(a.call, next, w)
    BY <1>2, <1>6, <2>1, <2>2, <2>3 DEF AnswerArrives, CallOf
  <2>6. w.session = SessionAfter(a, shown.session)
    BY <1>3, <1>8, <2>4 DEF SessionAfter
  <2>. QED  BY <1>1, <1>2, <1>4, <1>5, <1>8, <2>1, <2>4, <2>5, <2>6
<1>9. CASE ~Resets(a)
  <2>1. PICK s : s = IF a.closed THEN EmptySecurity ELSE Published(secure, call, a)
    OBVIOUS
  <2>2. PICK next : next = GoesOn(s, call, a, ends)
    OBVIOUS
  <2>3. ~(call.stage = "execute" /\ a.ok /\ call.base.kind = "reset")
    BY <1>3, <1>9 DEF Resets
  <2>4. Continues(a.call, next, ends)
    BY <1>2, <1>6, <2>1, <2>2, <2>3 DEF AnswerArrives, CallOf
  <2>5. ends.session = SessionAfter(a, shown.session)
    BY <1>3, <1>7, <1>9 DEF SessionAfter
  <2>. QED  BY <1>1, <1>2, <1>4, <1>5, <1>7, <1>9, <2>1, <2>2, <2>4, <2>5
<1>. QED  BY <1>8, <1>9

-----------------------------------------------------------------------------
(* Types, the calls that are awaited, and the screen that is never blank.   *)

ScreenInv ==
  /\ SecurityTypeOK /\ HeldOK /\ AnswersServed
  /\ SecurityWaits /\ ~CanAutoLoad(shown, secure)

\* SecurityWaits, resource by resource.
LEMMA WaitsParts ==
  SecurityWaits <=>
    /\ IsLoading(secure.status) => Pending("status")
    /\ IsLoading(secure.sensor) => Pending("sensor")
    /\ IsLoading(secure.enrollments) => Pending("enrollments")
    /\ secure.mutation.phase = "previewing" => Pending("preview")
    /\ secure.mutation.phase = "executing" => Pending("execute")
<1>1. /\ secure["status"] = secure.status /\ secure["sensor"] = secure.sensor
      /\ secure["enrollments"] = secure.enrollments
  OBVIOUS
<1>. QED  BY <1>1 DEF SecurityWaits

\* The same of the next state.
LEMMA WaitsNext ==
  ASSUME IsLoading(secure'.status) => Pending("status")',
         IsLoading(secure'.sensor) => Pending("sensor")',
         IsLoading(secure'.enrollments) => Pending("enrollments")',
         secure'.mutation.phase = "previewing" => Pending("preview")',
         secure'.mutation.phase = "executing" => Pending("execute")'
  PROVE  SecurityWaits'
<1>1. /\ secure'["status"] = secure'.status /\ secure'["sensor"] = secure'.sensor
      /\ secure'["enrollments"] = secure'.enrollments
  OBVIOUS
<1>. QED  BY <1>1 DEF SecurityWaits

\* A coroutine that starts leaves the others where they are.
LEMMA StartsKeep ==
  ASSUME SecurityTypeOK, NEW next, NEW s, Follows(next, s), Starts(next)
  PROVE  /\ secureCalls' \in [SecurityCall -> Coroutine]
         /\ \A k \in SecurityCall : secureCalls[k] # NoStage => secureCalls'[k] = secureCalls[k]
         /\ \A k \in SecurityCall :
              secureCalls[k] = NoStage => secureCalls'[k] \in {NoStage, next.call}
         /\ next.call # NoStage => \E k \in SecurityCall : secureCalls'[k] = next.call
<1>1. next.call \in Coroutine
  BY DEF Follows
<1>2. CASE \E k \in FreeCalls : secureCalls' = [secureCalls EXCEPT ![k] = next.call]
  BY <1>1, <1>2 DEF SecurityTypeOK, FreeCalls
<1>3. CASE next.call = NoStage /\ secureCalls' = secureCalls
  BY <1>1, <1>3 DEF SecurityTypeOK
<1>. QED  BY <1>2, <1>3 DEF Starts

\* Calls that are pending and go on to be.
LEMMA StaysPending ==
  ASSUME SecurityTypeOK, NEW stage, stage # "none", Pending(stage),
         \A k \in SecurityCall : secureCalls[k] # NoStage => secureCalls'[k] = secureCalls[k]
  PROVE  Pending(stage)'
BY DEF Pending, NoStage

\* The answers on the wire are of calls that nothing happens to.
LEMMA AnswersKept ==
  ASSUME SecurityTypeOK, AnswersServed, UNCHANGED secureWire,
         \A k \in SecurityCall : secureCalls[k] # NoStage => secureCalls'[k] = secureCalls[k]
  PROVE  /\ AnswersServed'
         /\ \A i \in 1..Len(secureWire) : secureWire[i].kind = "answer" =>
              secureWire[i].call \in SecurityCall /\ CallOf(secureWire[i])' = CallOf(secureWire[i])
<1>1. ASSUME NEW i \in 1..Len(secureWire), secureWire[i].kind = "answer"
      PROVE  /\ secureWire[i].call \in SecurityCall
             /\ CallOf(secureWire[i])' = CallOf(secureWire[i])
  <2>1. secureWire[i] \in Answer
    <3>1. secureWire[i] \in SnapshotMessage \cup Answer
      BY DEF SecurityTypeOK
    <3>. QED  BY <1>1, <3>1 DEF SnapshotMessage
  <2>2. secureWire[i].call \in SecurityCall /\ CallOf(secureWire[i]) # NoStage
    BY <1>1, <2>1 DEF AnswersServed, NoStage, Answer
  <2>. QED  BY <2>2 DEF CallOf
<1>2. AnswersServed'
  BY <1>1 DEF AnswersServed
<1>. QED  BY <1>1, <1>2

\* What the user does keeps the invariant of the screen.
LEMMA UserKeeps ==
  ASSUME ScreenInv, ByTheUser
  PROVE  ScreenInv'
<1>0. /\ SecurityTypeOK /\ HeldOK /\ AnswersServed
      /\ SecurityWaits /\ ~CanAutoLoad(shown, secure)
  BY DEF ScreenInv
<1>1. PICK next, s : UserAwaits(next, s)
  BY DEF ByTheUser
<1>2. /\ UNCHANGED <<heldVars, secureWire, failures, gaveUp>> /\ changes' \in Nat
      /\ shown' \in Shown /\ ~CanAutoLoad(shown', secure')
  BY <1>0 DEF ByTheUser
<1>3. /\ secureCalls' \in [SecurityCall -> Coroutine]
      /\ \A k \in SecurityCall : secureCalls[k] # NoStage => secureCalls'[k] = secureCalls[k]
      /\ next.call # NoStage => \E k \in SecurityCall : secureCalls'[k] = next.call
  BY <1>0, <1>1, StartsKeep DEF UserAwaits
<1>4. /\ AnswersServed'
      /\ \A i \in 1..Len(secureWire) : secureWire[i].kind = "answer" =>
           CallOf(secureWire[i])' = CallOf(secureWire[i])
  BY <1>0, <1>2, <1>3, AnswersKept
<1>5. SecurityTypeOK'
  BY <1>0, <1>1, <1>2, <1>3, <1>4 DEF SecurityTypeOK, UserAwaits, Follows, heldVars
<1>6. \A stage \in {"status", "sensor", "enrollments", "preview", "execute"} :
        Pending(stage) \/ next.call.stage = stage => Pending(stage)'
  <2>1. ASSUME NEW stage \in {"status", "sensor", "enrollments", "preview", "execute"},
               next.call.stage = stage
        PROVE  Pending(stage)'
    BY <1>3, <2>1 DEF Pending, NoStage
  <2>. QED  BY <1>0, <1>3, <2>1, StaysPending
<1>7. SecurityWaits'
  <2>1. /\ IsLoading(secure'.status) => IsLoading(secure.status) \/ next.call.stage = "status"
        /\ IsLoading(secure'.sensor) => IsLoading(secure.sensor) \/ next.call.stage = "sensor"
        /\ IsLoading(secure'.enrollments) =>
             IsLoading(secure.enrollments) \/ next.call.stage = "enrollments"
        /\ secure'.mutation = s.mutation
    BY <1>1 DEF UserAwaits, Follows, Begun, EmptyResource, IsLoading
  <2>. QED  BY <1>0, <1>1, <1>6, <2>1, WaitsParts, WaitsNext DEF UserAwaits
<1>8. HeldOK'
  BY <1>0, <1>2 DEF HeldOK, heldVars
<1>. QED  BY <1>2, <1>4, <1>5, <1>7, <1>8 DEF ScreenInv

\* What is left on the wire is what it was, of calls that nothing happens to.
LEMMA TakenKeeps ==
  ASSUME SecurityTypeOK, AnswersServed, NEW kind, NextOnWire(kind),
         secureCalls' \in [SecurityCall -> Coroutine],
         \A k \in SecurityCall :
           /\ secureCalls[k] # NoStage
           /\ secureWire[1].kind = "answer" => k # secureWire[1].call
           => secureCalls'[k] = secureCalls[k]
  PROVE  /\ AnswersServed'
         /\ \A i \in 1..Len(secureWire') :
              /\ i + 1 \in 1..Len(secureWire) /\ secureWire'[i] = secureWire[i + 1]
              /\ secureWire'[i].kind = "answer" =>
                   /\ secureWire'[i].call \in SecurityCall
                   /\ secureCalls'[secureWire'[i].call] = secureCalls[secureWire[i + 1].call]
         /\ \A i \in 1..Len(secureWire') :
              /\ secureWire'[i].kind = "answer"
              /\ secureCalls'[secureWire'[i].call].stage = "status" /\ secureWire'[i].ok
              => secureWire'[i].value \in ConfigStatus
<1>0. /\ Len(secureWire) \in Nat /\ Len(secureWire) >= 1
      /\ Len(secureWire') = Len(secureWire) - 1
      /\ \A i \in 1..Len(secureWire) - 1 : secureWire'[i] = secureWire[i + 1]
  BY Taken
<1>1. ASSUME NEW i \in 1..Len(secureWire')
      PROVE  /\ i + 1 \in 1..Len(secureWire) /\ secureWire'[i] = secureWire[i + 1]
             /\ secureWire'[i].kind = "answer" =>
                  /\ secureWire'[i].call \in SecurityCall
                  /\ secureCalls'[secureWire'[i].call] = secureCalls[secureWire[i + 1].call]
  <2>1. /\ i + 1 \in 1..Len(secureWire) /\ i + 1 # 1 /\ 1 \in 1..Len(secureWire)
        /\ secureWire'[i] = secureWire[i + 1]
    BY <1>0
  <2>2. ASSUME secureWire'[i].kind = "answer"
        PROVE  /\ secureWire[i + 1].call \in SecurityCall
               /\ secureCalls[secureWire[i + 1].call] # NoStage
    <3>1. secureWire[i + 1] \in Answer
      <4>1. secureWire[i + 1] \in SnapshotMessage \cup Answer
        BY <2>1 DEF SecurityTypeOK
      <4>. QED  BY <2>1, <2>2, <4>1 DEF SnapshotMessage
    <3>. QED  BY <2>1, <2>2, <3>1 DEF AnswersServed, NoStage, Answer, CallOf
  <2>3. ASSUME secureWire'[i].kind = "answer", secureWire[1].kind = "answer"
        PROVE  secureWire[i + 1].call # secureWire[1].call
    BY <2>1, <2>3 DEF AnswersServed
  <2>4. secureWire'[i].kind = "answer" =>
          secureCalls'[secureWire[i + 1].call] = secureCalls[secureWire[i + 1].call]
    BY <2>2, <2>3
  <2>. QED  BY <2>1, <2>2, <2>4 DEF CallOf
<1>2. AnswersServed'
  <2>1. ASSUME NEW i \in 1..Len(secureWire'), secureWire'[i].kind = "answer"
        PROVE  secureCalls'[secureWire'[i].call].stage # "none" /\ secureCalls'[secureWire'[i].call].served
    BY <1>1, <2>1 DEF AnswersServed, CallOf
  <2>2. ASSUME NEW i \in 1..Len(secureWire'), NEW j \in 1..Len(secureWire'),
               secureWire'[i].kind = "answer", secureWire'[j].kind = "answer",
               secureWire'[i].call = secureWire'[j].call
        PROVE  i = j
    <3>1. i + 1 = j + 1
      BY <1>1, <2>2 DEF AnswersServed
    <3>. QED  BY <1>0, <3>1
  <2>. QED  BY <2>1, <2>2 DEF AnswersServed, CallOf
<1>3. ASSUME NEW i \in 1..Len(secureWire'), secureWire'[i].kind = "answer",
             secureCalls'[secureWire'[i].call].stage = "status", secureWire'[i].ok
      PROVE  secureWire'[i].value \in ConfigStatus
  BY <1>1, <1>3 DEF SecurityTypeOK, CallOf
<1>. QED  BY <1>1, <1>2, <1>3

\* A snapshot keeps it.
LEMMA SnapshotKeeps ==
  ASSUME ScreenInv, SnapshotArrives
  PROVE  ScreenInv'
<1>0. /\ SecurityTypeOK /\ HeldOK /\ AnswersServed
      /\ SecurityWaits /\ ~CanAutoLoad(shown, secure)
  BY DEF ScreenInv
<1> DEFINE m == secureWire[1]
<1>1. /\ m \in SnapshotMessage /\ NextOnWire("snapshot")
      /\ ~CanAutoLoad(shown, secure) => ~CanAutoLoad(shown', secure')
      /\ UNCHANGED <<heldVars, secureHistory>>
  BY <1>0, SnapshotComes
<1>2. PICK next : \E w \in Shown : \E s \in Stores :
        /\ s = IF m.session = shown.session THEN secure ELSE EmptySecurity
        /\ Turns(next, s, w) /\ Starts(next)
  BY <1>0, SnapshotComes
<1>3. PICK w \in Shown : \E s \in Stores :
        /\ s = IF m.session = shown.session THEN secure ELSE EmptySecurity
        /\ Turns(next, s, w) /\ Starts(next)
  BY <1>2
<1>4. PICK s \in Stores :
        /\ s = IF m.session = shown.session THEN secure ELSE EmptySecurity
        /\ Turns(next, s, w) /\ Starts(next)
  BY <1>3
<1>5. /\ secureCalls' \in [SecurityCall -> Coroutine]
      /\ \A k \in SecurityCall : secureCalls[k] # NoStage => secureCalls'[k] = secureCalls[k]
      /\ next.call # NoStage => \E k \in SecurityCall : secureCalls'[k] = next.call
  BY <1>0, <1>4, StartsKeep DEF Turns
<1>6. /\ AnswersServed'
      /\ \A i \in 1..Len(secureWire') :
           /\ secureWire'[i].kind = "answer"
           /\ secureCalls'[secureWire'[i].call].stage = "status" /\ secureWire'[i].ok
           => secureWire'[i].value \in ConfigStatus
  BY <1>0, <1>1, <1>5, TakenKeeps
<1>7. SecurityTypeOK'
  <2>1. secureWire' \in Seq(SnapshotMessage \cup Answer)
    BY <1>0, <1>1, Taken
  <2>2. /\ secure' \in Stores /\ shown' \in Shown
    BY <1>4 DEF Turns, Follows
  <2>. QED  BY <1>0, <1>1, <1>5, <1>6, <2>1, <2>2 DEF SecurityTypeOK, CallOf, heldVars, secureHistory
<1>8. \A stage \in {"status", "sensor", "enrollments", "preview", "execute"} :
        Pending(stage) \/ next.call.stage = stage => Pending(stage)'
  <2>1. ASSUME NEW stage \in {"status", "sensor", "enrollments", "preview", "execute"},
               next.call.stage = stage
        PROVE  Pending(stage)'
    BY <1>5, <2>1 DEF Pending, NoStage
  <2>. QED  BY <1>0, <1>5, <2>1, StaysPending
<1>9. SecurityWaits'
  <2>1. /\ IsLoading(secure'.status) => IsLoading(s.status) \/ next.call.stage = "status"
        /\ IsLoading(secure'.sensor) => IsLoading(s.sensor) \/ next.call.stage = "sensor"
        /\ IsLoading(secure'.enrollments) =>
             IsLoading(s.enrollments) \/ next.call.stage = "enrollments"
        /\ secure'.mutation = s.mutation
    BY <1>4 DEF Turns, Follows, Begun, EmptyResource, IsLoading
  <2>2. s = secure \/ s = EmptySecurity
    BY <1>4
  <2>3. /\ ~IsLoading(EmptySecurity.status) /\ ~IsLoading(EmptySecurity.sensor)
        /\ ~IsLoading(EmptySecurity.enrollments)
        /\ EmptySecurity.mutation.phase = "idle"
    BY DEF EmptySecurity, EmptyResource, IsLoading, IdleMutation
  <2>. QED  BY <1>0, <1>8, <2>1, <2>2, <2>3, WaitsParts, WaitsNext
<1>10. HeldOK'
  BY <1>0, <1>1 DEF HeldOK, heldVars, secureHistory
<1>. QED  BY <1>0, <1>1, <1>6, <1>7, <1>9, <1>10 DEF ScreenInv

\* After an answer that ends no reset: t is what is published of it, u the stores
\* without a mutation that was executed, next what the coroutine goes on with.
Returned(a, t, u, next) ==
  LET call == CallOf(a)
  IN /\ t = IF a.closed THEN EmptySecurity ELSE Published(secure, call, a)
     /\ u = IF call.stage = "execute" /\ a.ok THEN Finished(t) ELSE t
     /\ \E w \in Shown : /\ w.session = SessionAfter(a, shown.session)
                         /\ next = GoesOn(t, call, a, w)
     /\ t \in Stores /\ u \in Stores
     /\ u.status = t.status /\ u.sensor = t.sensor /\ u.enrollments = t.enrollments
     /\ Follows(next, u)

\* The step of an answer.
LEMMA AnswerReturns ==
  ASSUME SecurityTypeOK, AnswersServed, AnswerArrives
  PROVE  LET a == secureWire[1]
         IN /\ a \in Answer /\ NextOnWire("answer") /\ UNCHANGED <<heldVars, secureHistory>>
            /\ CallOf(a) \in Coroutine /\ CallOf(a) # NoStage
            /\ CallOf(a).stage = "status" /\ a.ok => a.value \in ConfigStatus
            /\ shown' \in Shown /\ shown'.session = SessionAfter(a, shown.session)
            /\ shown'.screen = shown.screen
            /\ \E next :
                 /\ next \in [stores : Stores, call : Coroutine]
                 /\ next.call # NoStage => next.call.served = FALSE
                 /\ secure' = next.stores
                 /\ secureCalls' = [secureCalls EXCEPT ![a.call] = next.call]
                 /\ IF Resets(a) THEN next.stores = EmptySecurity /\ next.call.stage = "reconnect"
                    ELSE \E t, u : Returned(a, t, u, next)
<1> DEFINE a == secureWire[1]
           call == CallOf(a)
<1>1. /\ a \in Answer /\ NextOnWire("answer") /\ UNCHANGED <<heldVars, secureHistory>>
      /\ call \in Coroutine /\ call # NoStage
      /\ call.stage = "status" /\ a.ok => a.value \in ConfigStatus
  BY AnswerComes
<1>2. PICK next : \E w \in Shown :
        /\ w.session = SessionAfter(a, shown.session) /\ w.screen = shown.screen
        /\ Continues(a.call, next, w)
        /\ next = IF Resets(a)
                  THEN Awaits(EmptySecurity, [stage |-> "reconnect", served |-> FALSE])
                  ELSE GoesOn(IF a.closed THEN EmptySecurity
                              ELSE Published(secure, call, a), call, a, w)
  BY AnswerComes
<1>3. PICK w \in Shown :
        /\ w.session = SessionAfter(a, shown.session) /\ w.screen = shown.screen
        /\ Continues(a.call, next, w)
        /\ next = IF Resets(a)
                  THEN Awaits(EmptySecurity, [stage |-> "reconnect", served |-> FALSE])
                  ELSE GoesOn(IF a.closed THEN EmptySecurity
                              ELSE Published(secure, call, a), call, a, w)
  BY <1>2
<1>4. /\ secure' = next.stores /\ secureCalls' = [secureCalls EXCEPT ![a.call] = next.call]
      /\ shown' \in Shown /\ shown'.session = w.session /\ shown'.screen = w.screen
  BY <1>3 DEF Continues, Shown
<1>5. a.ok \in BOOLEAN /\ a.closed \in BOOLEAN
  BY <1>1 DEF Answer
<1>6. CASE Resets(a)
  <2>1. PICK c \in Coroutine : c = [stage |-> "reconnect", served |-> FALSE]
    BY DEF Coroutine
  <2>2. next = Awaits(EmptySecurity, c)
    BY <1>3, <1>6, <2>1
  <2>3. next \in [stores : Stores, call : Coroutine] /\ next.stores = EmptySecurity /\ next.call = c
    BY <2>2, Begins DEF Awaits
  <2>4. c.served = FALSE /\ c.stage = "reconnect"
    BY <2>1
  <2>. QED  BY <1>1, <1>3, <1>4, <1>6, <2>3, <2>4
<1>7. CASE ~Resets(a)
  <2>1. PICK t : t = IF a.closed THEN EmptySecurity ELSE Published(secure, call, a)
    OBVIOUS
  <2>2. t \in Stores
    BY <1>1, <1>5, <2>1, Begins, Publishes DEF SecurityTypeOK
  <2>3. PICK u : u = IF call.stage = "execute" /\ a.ok THEN Finished(t) ELSE t
    OBVIOUS
  <2>4. /\ u \in Stores
        /\ u.status = t.status /\ u.sensor = t.sensor /\ u.enrollments = t.enrollments
    BY <2>2, <2>3 DEF Finished, Stores
  <2>5. next = GoesOn(t, call, a, w)
    BY <1>3, <1>7, <2>1
  <2>6. w.session.attached \in BOOLEAN
    BY DEF Shown, Session
  <2>7. Follows(next, u)
    BY <1>1, <1>5, <2>2, <2>3, <2>5, <2>6, GoesOnFollows
  <2>8. Returned(a, t, u, next)
    BY <1>3, <2>1, <2>2, <2>3, <2>4, <2>5, <2>7 DEF Returned
  <2>9. next \in [stores : Stores, call : Coroutine] /\ (next.call # NoStage => next.call.served = FALSE)
    BY <2>7 DEF Follows
  <2>. QED  BY <1>1, <1>3, <1>4, <1>7, <2>8, <2>9
<1>. QED  BY <1>6, <1>7

\* An answer keeps it.
LEMMA AnswerKeeps ==
  ASSUME ScreenInv, AnswerArrives
  PROVE  ScreenInv'
<1>0. /\ SecurityTypeOK /\ HeldOK /\ AnswersServed
      /\ SecurityWaits /\ ~CanAutoLoad(shown, secure)
  BY DEF ScreenInv
<1> DEFINE a == secureWire[1]
           call == CallOf(a)
<1>1. /\ a \in Answer /\ NextOnWire("answer") /\ UNCHANGED <<heldVars, secureHistory>>
      /\ call \in Coroutine /\ call # NoStage
      /\ call.stage = "status" /\ a.ok => a.value \in ConfigStatus
      /\ shown' \in Shown /\ shown'.session = SessionAfter(a, shown.session)
      /\ shown'.screen = shown.screen
  BY <1>0, AnswerReturns
<1>2. PICK next :
        /\ next \in [stores : Stores, call : Coroutine]
        /\ next.call # NoStage => next.call.served = FALSE
        /\ secure' = next.stores
        /\ secureCalls' = [secureCalls EXCEPT ![a.call] = next.call]
        /\ IF Resets(a) THEN next.stores = EmptySecurity /\ next.call.stage = "reconnect"
           ELSE \E t, u : Returned(a, t, u, next)
  BY <1>0, AnswerReturns
<1>3. a.call \in SecurityCall /\ a.kind = "answer" /\ a.ok \in BOOLEAN /\ a.closed \in BOOLEAN
  BY <1>1 DEF Answer
<1>4. /\ secureCalls' \in [SecurityCall -> Coroutine]
      /\ \A k \in SecurityCall : k # a.call => secureCalls'[k] = secureCalls[k]
      /\ secureCalls'[a.call] = next.call /\ secureCalls[a.call] = call
  BY <1>0, <1>2, <1>3 DEF SecurityTypeOK, CallOf
<1>5. /\ AnswersServed'
      /\ \A i \in 1..Len(secureWire') :
           /\ secureWire'[i].kind = "answer"
           /\ secureCalls'[secureWire'[i].call].stage = "status" /\ secureWire'[i].ok
           => secureWire'[i].value \in ConfigStatus
  BY <1>0, <1>1, <1>3, <1>4, TakenKeeps
<1>6. SecurityTypeOK'
  <2>1. secureWire' \in Seq(SnapshotMessage \cup Answer)
    BY <1>0, <1>1, Taken
  <2>. QED  BY <1>0, <1>1, <1>2, <1>4, <1>5, <2>1 DEF SecurityTypeOK, CallOf, heldVars, secureHistory
<1>7. \A stage \in {"status", "sensor", "enrollments", "preview", "execute"} :
        (Pending(stage) /\ call.stage # stage) \/ next.call.stage = stage => Pending(stage)'
  BY <1>3, <1>4 DEF Pending
<1>8. CASE Resets(a)
  <2>1. SecurityWaits'
    BY <1>2, <1>8, WaitsNext DEF EmptySecurity, EmptyResource, IsLoading, IdleMutation
  <2>2. shown'.session = Unselected
    BY <1>1, <1>3, <1>8 DEF SessionAfter
  <2>. QED  BY <1>0, <1>1, <1>5, <1>6, <2>1, <2>2
            DEF ScreenInv, HeldOK, heldVars, secureHistory, CanAutoLoad, Unselected
<1>9. CASE ~Resets(a)
  <2>1. PICK t, u : Returned(a, t, u, next)
    BY <1>2, <1>9
  <2>2. /\ IsLoading(secure'.status) => IsLoading(t.status) \/ next.call.stage = "status"
        /\ IsLoading(secure'.sensor) => IsLoading(t.sensor) \/ next.call.stage = "sensor"
        /\ IsLoading(secure'.enrollments) =>
             IsLoading(t.enrollments) \/ next.call.stage = "enrollments"
        /\ secure'.mutation = u.mutation
        /\ secure'.status.phase = "idle" => t.status.phase = "idle"
    <3>1. /\ Follows(next, u) /\ secure' = next.stores
          /\ u.status = t.status /\ u.sensor = t.sensor /\ u.enrollments = t.enrollments
      BY <1>2, <2>1 DEF Returned
    <3>. QED  BY <3>1 DEF Follows, Begun, EmptyResource, IsLoading
  <2>3. /\ t.mutation.phase \in {"previewing", "executing"} => ~a.closed
        /\ IsLoading(t.status) \/ IsLoading(t.sensor) \/ IsLoading(t.enrollments) => ~a.closed
    BY <2>1 DEF Returned, EmptySecurity, EmptyResource, IsLoading, IdleMutation
  <2>4. u.mutation.phase \in {"previewing", "executing"} =>
          u.mutation = t.mutation /\ ~(call.stage = "execute" /\ a.ok)
    BY <2>1 DEF Returned, Finished, IdleMutation, Stores
  <2>5. ASSUME ~a.closed
        PROVE  /\ IF call.stage = "status" THEN t.status = LoadEnded(secure.status, a)
                  ELSE t.status = secure.status
               /\ IF call.stage = "sensor" THEN t.sensor = LoadEnded(secure.sensor, a)
                  ELSE t.sensor = secure.sensor
               /\ IF call.stage = "enrollments" THEN t.enrollments = LoadEnded(secure.enrollments, a)
                  ELSE t.enrollments = secure.enrollments
               /\ t.mutation.phase = "previewing" =>
                    secure.mutation.phase = "previewing" /\ call.stage # "preview"
               /\ t.mutation.phase = "executing" =>
                    secure.mutation.phase = "executing" /\ (call.stage = "execute" => a.ok)
    <3>1. t = Published(secure, call, a)
      BY <2>1, <2>5 DEF Returned
    <3>2. secure \in Stores
      BY <1>0 DEF SecurityTypeOK
    <3>. QED  BY <1>1, <3>1, <3>2, Publishes
  <2>6. \A r : LoadEnded(r, a).phase \in {"ready", "error"} \/ ~(r \in Resource)
    BY <1>3 DEF LoadEnded, Resource
  <2>7. secure.status \in Resource /\ secure.sensor \in Resource /\ secure.enrollments \in Resource
    BY <1>0, Begins DEF SecurityTypeOK, Stores
  <2>8. /\ IsLoading(t.status) => call.stage # "status" /\ IsLoading(secure.status)
        /\ IsLoading(t.sensor) => call.stage # "sensor" /\ IsLoading(secure.sensor)
        /\ IsLoading(t.enrollments) => call.stage # "enrollments" /\ IsLoading(secure.enrollments)
    BY <2>3, <2>5, <2>6, <2>7 DEF IsLoading
  <2>9. SecurityWaits'
    <3>1. /\ IsLoading(secure'.status) => Pending("status")'
          /\ IsLoading(secure'.sensor) => Pending("sensor")'
          /\ IsLoading(secure'.enrollments) => Pending("enrollments")'
      BY <1>0, <1>7, <2>2, <2>8, WaitsParts
    <3>2. /\ secure'.mutation.phase = "previewing" => Pending("preview")'
          /\ secure'.mutation.phase = "executing" => Pending("execute")'
      BY <1>0, <1>7, <2>2, <2>3, <2>4, <2>5, WaitsParts
    <3>. QED  BY <3>1, <3>2, WaitsNext
  <2>10. ~CanAutoLoad(shown, secure)'
    <3>1. CASE a.closed
      <4>1. shown'.session = [shown.session EXCEPT !.id = 0]
        BY <1>1, <1>3, <1>9, <3>1 DEF SessionAfter
      <4>2. shown'.session.id = 0
        BY <1>0, <4>1 DEF SecurityTypeOK, Shown, Session
      <4>. QED  BY <4>2 DEF CanAutoLoad
    <3>2. CASE ~a.closed
      <4>1. shown'.session = shown.session
        BY <1>1, <1>3, <1>9, <3>2 DEF SessionAfter
      <4>2. secure'.status.phase = "idle" => secure.status.phase = "idle"
        BY <2>2, <2>5, <2>6, <2>7, <3>2
      <4>. QED  BY <1>0, <1>1, <4>1, <4>2 DEF CanAutoLoad
    <3>. QED  BY <3>1, <3>2
  <2>. QED  BY <1>0, <1>1, <1>5, <1>6, <2>9, <2>10 DEF ScreenInv, HeldOK, heldVars, secureHistory
<1>. QED  BY <1>8, <1>9

-----------------------------------------------------------------------------
(* The authenticator and the service.                                       *)

BioKind == {"bioEnroll", "bioRename", "bioRemove"}

\* What a mutation leaves: a change of the finger is one of those after which the
\* enrollments are read again, or a reset.
LEMMA MutatedTyped ==
  ASSUME NEW key \in KeyState, NEW base \in Change \cup PinChange
  PROVE  /\ Mutated(key, base) \in KeyState
         /\ base.kind \notin BioKind \cup {"reset"} => Mutated(key, base).finger = key.finger
<1>1. CASE base \in [kind : {"alwaysUv"}, value : BOOLEAN]
  BY <1>1 DEF Mutated, KeyState, BioKind
<1>2. CASE base \in [kind : {"pinPolicy"}, value : 0..1]
  BY <1>2 DEF Mutated, KeyState, BioKind
<1>3. CASE base \in [kind : {"bioEnroll"}, value : {Unnamed}] \cup [kind : {"bioRename"}, value : FingerName]
  <2>1. base.kind \in {"bioEnroll", "bioRename"} /\ base.value \in Finger
    BY <1>3 DEF Finger
  <2> HIDE DEF Finger
  <2>2. Mutated(key, base) = [key EXCEPT !.finger = base.value]
    BY <2>1 DEF Mutated
  <2>. QED  BY <2>1, <2>2 DEF KeyState, BioKind
<1>4. CASE base \in [kind : {"bioRemove", "reset"}, value : {NoReport}]
  <2>1. base.kind \in {"bioRemove", "reset"} /\ NoFinger \in Finger
    BY <1>4 DEF Finger
  <2> HIDE DEF Finger
  <2>2. Mutated(key, base) = IF base.kind = "reset" THEN Fresh ELSE [key EXCEPT !.finger = NoFinger]
    BY <2>1 DEF Mutated
  <2>. QED  BY <2>1, <2>2 DEF KeyState, BioKind, Fresh
<1>5. CASE base \in PinChange
  <2>1. base.kind = "pin"
    BY <1>5 DEF PinChange
  <2>2. Mutated(key, base) = [key EXCEPT !.pin = TRUE]
    BY <2>1 DEF Mutated
  <2>. QED  BY <2>1, <2>2 DEF KeyState, BioKind
<1>. QED  BY <1>1, <1>2, <1>3, <1>4, <1>5 DEF Change

\* What an authenticator reports, and its finger.
LEMMA StatusTyped ==
  ASSUME SecurityTypeOK, NEW t \in Authenticator
  PROVE  /\ StatusOf(t) \in ConfigStatus /\ StatusOf(t).bio = (t \in Sensing)
         /\ keys[t] \in KeyState /\ keys[t].finger \in Finger
<1>1. keys[t] \in KeyState
  BY DEF SecurityTypeOK
<1>2. /\ keys[t].finger \in Finger /\ keys[t].uv \in BOOLEAN
      /\ keys[t].length \in 0..1 /\ keys[t].pin \in BOOLEAN
  BY <1>1 DEF KeyState
<1>. QED  BY <1>1, <1>2 DEF StatusOf, ConfigStatus

\* What is sent comes last, after snapshots if anything.
Sends(m) ==
  /\ secureWire' \in Seq(SnapshotMessage \cup Answer)
  /\ Len(secureWire) \in Nat /\ Len(secureWire') \in Nat /\ Len(secureWire') > Len(secureWire)
  /\ secureWire'[Len(secureWire')] = m /\ m \in SnapshotMessage \cup Answer
  /\ \A i \in 1..Len(secureWire) : secureWire'[i] = secureWire[i]
  /\ \A i \in (Len(secureWire) + 1)..(Len(secureWire') - 1) : secureWire'[i] \in SnapshotMessage

\* One message is sent.
LEMMA PostSends ==
  ASSUME SecurityTypeOK, NEW m \in SnapshotMessage \cup Answer, Post(m)
  PROVE  Sends(m) /\ Len(secureWire') = Len(secureWire) + 1
<1>1. secureWire \in Seq(SnapshotMessage \cup Answer) /\ secureWire' = Append(secureWire, m)
  BY DEF SecurityTypeOK, Post
<1> HIDE DEF SnapshotMessage, Answer
<1>. QED  BY <1>1 DEF Sends

\* A snapshot is sent, and an answer after it.
LEMMA BothSend ==
  ASSUME SecurityTypeOK, NEW s \in SnapshotMessage, NEW m \in Answer, secureWire' = secureWire \o <<s, m>>
  PROVE  /\ Sends(m) /\ Len(secureWire') = Len(secureWire) + 2
         /\ secureWire'[Len(secureWire) + 1] = s
<1>1. secureWire \in Seq(SnapshotMessage \cup Answer) /\ s \in SnapshotMessage \cup Answer /\ m \in SnapshotMessage \cup Answer
  BY DEF SecurityTypeOK
<1>2. secureWire' = Append(Append(secureWire, s), m)
  <2> HIDE DEF SnapshotMessage, Answer
  <2>. QED  BY <1>1
<1> HIDE DEF SnapshotMessage, Answer
<1>3. PICK mid \in Seq(SnapshotMessage \cup Answer) : mid = Append(secureWire, s)
  <2>1. Append(secureWire, s) \in Seq(SnapshotMessage \cup Answer)
    BY <1>1
  <2>. QED  BY <2>1
<1>4. Len(mid) = Len(secureWire) + 1 /\ mid[Len(secureWire) + 1] = s /\ Len(secureWire) \in Nat
      /\ \A i \in 1..Len(secureWire) : mid[i] = secureWire[i]
  BY <1>1, <1>3
<1>5. /\ secureWire' \in Seq(SnapshotMessage \cup Answer) /\ Len(secureWire') = Len(mid) + 1
      /\ secureWire'[Len(mid) + 1] = m /\ \A i \in 1..Len(mid) : secureWire'[i] = mid[i]
  BY <1>1, <1>2, <1>3
<1>. QED  BY <1>1, <1>4, <1>5 DEF Sends

\* The calls after one of them was served.
ServedBy(k) ==
  /\ k \in SecurityCall /\ secureCalls[k] # NoStage /\ ~secureCalls[k].served
  /\ secureCalls' \in [SecurityCall -> Coroutine]
  /\ secureCalls'[k] # NoStage /\ secureCalls'[k].served
  /\ \A c \in SecurityCall : c # k => secureCalls'[c] = secureCalls[c]
  /\ \A c \in SecurityCall : /\ secureCalls'[c].stage = secureCalls[c].stage
                             /\ secureCalls'[c].then = secureCalls[c].then
                             /\ secureCalls'[c].base = secureCalls[c].base

\* A call that is served goes on as it was.
LEMMA Serving ==
  ASSUME SecurityTypeOK, NEW k \in SecurityCall, secureCalls[k].stage # "none", ~secureCalls[k].served,
         secureCalls' = [secureCalls EXCEPT ![k].served = TRUE]
  PROVE  ServedBy(k)
<1>1. PICK c \in Coroutine : c = secureCalls[k]
  BY DEF SecurityTypeOK
<1>2. c # NoStage
  BY <1>1 DEF NoStage
<1>3. PICK d \in Coroutine : d = [c EXCEPT !.served = TRUE]
  BY <1>2, CoroutineFields
<1>4. d.stage = c.stage /\ d.then = c.then /\ d.base = c.base
  BY <1>3
<1>5. d.served
  <2>1. "served" \in DOMAIN c
    BY <1>2 DEF Coroutine
  <2>. QED  BY <1>3, <2>1
<1>6. secureCalls' = [secureCalls EXCEPT ![k] = d]
  BY <1>1, <1>3
<1>7. d # NoStage
  BY <1>1, <1>4 DEF NoStage
<1>. QED  BY <1>1, <1>2, <1>3, <1>4, <1>5, <1>6, <1>7 DEF ServedBy, SecurityTypeOK

\* The calls when m is sent: those of a snapshot are left alone, that of an answer was
\* served just now.
CallsWhenSent(m) ==
  \/ m \in SnapshotMessage /\ UNCHANGED secureCalls
  \/ /\ m \in Answer /\ ServedBy(m.call)
     /\ secureCalls[m.call].stage = "status" /\ m.ok => m.value \in ConfigStatus

\* The answers sent before are of other calls.
LEMMA OlderAnswers ==
  ASSUME SecurityTypeOK, AnswersServed, NEW m, Sends(m), CallsWhenSent(m)
  PROVE  /\ \A i \in 1..Len(secureWire) :
              /\ secureWire'[i] = secureWire[i]
              /\ secureWire[i].kind = "answer" =>
                   /\ secureWire[i].call \in SecurityCall
                   /\ secureCalls'[secureWire[i].call] = secureCalls[secureWire[i].call]
                   /\ m \in Answer => secureWire[i].call # m.call
         /\ \A i \in (Len(secureWire) + 1)..Len(secureWire') :
              secureWire'[i].kind = "answer" =>
                i = Len(secureWire') /\ secureWire'[i] = m /\ m \in Answer
<1>1. ASSUME NEW i \in 1..Len(secureWire), secureWire[i].kind = "answer"
      PROVE  /\ secureWire[i].call \in SecurityCall
             /\ secureCalls'[secureWire[i].call] = secureCalls[secureWire[i].call]
             /\ m \in Answer => secureWire[i].call # m.call
  <2>1. secureWire[i] \in Answer
    <3>1. secureWire[i] \in SnapshotMessage \cup Answer
      BY DEF SecurityTypeOK
    <3>. QED  BY <1>1, <3>1 DEF SnapshotMessage
  <2>2. secureWire[i].call \in SecurityCall /\ secureCalls[secureWire[i].call].served
    BY <1>1, <2>1 DEF AnswersServed, Answer, CallOf
  <2>3. m \in SnapshotMessage => ~(m \in Answer)
    BY DEF SnapshotMessage, Answer
  <2>. QED  BY <2>2, <2>3 DEF CallsWhenSent, ServedBy
<1>2. ASSUME NEW i \in (Len(secureWire) + 1)..Len(secureWire'), secureWire'[i].kind = "answer"
      PROVE  i = Len(secureWire') /\ secureWire'[i] = m /\ m \in Answer
  <2>1. i # Len(secureWire') => secureWire'[i] \in SnapshotMessage
    <3>1. i # Len(secureWire') => i \in (Len(secureWire) + 1)..(Len(secureWire') - 1)
      BY DEF Sends
    <3>. QED  BY <3>1 DEF Sends
  <2>2. i = Len(secureWire')
    BY <1>2, <2>1 DEF SnapshotMessage
  <2>3. secureWire'[i] = m /\ m \in SnapshotMessage \cup Answer
    BY <2>2 DEF Sends
  <2>. QED  BY <1>2, <2>2, <2>3 DEF SnapshotMessage
<1>. QED  BY <1>1, <1>2 DEF Sends

\* What is sent keeps the invariant of the screen.
LEMMA SendKeeps ==
  ASSUME ScreenInv, NEW m, Sends(m), CallsWhenSent(m), UNCHANGED <<shown, secure>>,
         held' \in [id : Nat, key : Authenticator \cup {NoReport}, attached : BOOLEAN],
         heldMade' \in Nat, keys' \in [Authenticator -> KeyState], HeldOK',
         changes' \in Nat, failures' \in Nat, gaveUp' \in BOOLEAN
  PROVE  ScreenInv'
<1>0. /\ SecurityTypeOK /\ HeldOK /\ AnswersServed
      /\ SecurityWaits /\ ~CanAutoLoad(shown, secure)
  BY DEF ScreenInv
<1>1. /\ \A i \in 1..Len(secureWire) :
           /\ secureWire'[i] = secureWire[i]
           /\ secureWire[i].kind = "answer" =>
                /\ secureWire[i].call \in SecurityCall
                /\ secureCalls'[secureWire[i].call] = secureCalls[secureWire[i].call]
                /\ m \in Answer => secureWire[i].call # m.call
      /\ \A i \in (Len(secureWire) + 1)..Len(secureWire') :
           secureWire'[i].kind = "answer" =>
             i = Len(secureWire') /\ secureWire'[i] = m /\ m \in Answer
  BY <1>0, OlderAnswers
<1>2. Len(secureWire) \in Nat /\ Len(secureWire') \in Nat /\ Len(secureWire') > Len(secureWire)
  BY DEF Sends
<1>3. \A i \in 1..Len(secureWire') :
        i \in 1..Len(secureWire) \/ i \in (Len(secureWire) + 1)..Len(secureWire')
  BY <1>2
<1>4. /\ secureCalls' \in [SecurityCall -> Coroutine]
      /\ \A k \in SecurityCall : secureCalls'[k].stage = secureCalls[k].stage
  BY <1>0 DEF CallsWhenSent, ServedBy, SecurityTypeOK
<1>5. m \in Answer => /\ m.call \in SecurityCall /\ secureCalls'[m.call].served
                      /\ secureCalls'[m.call].stage # "none"
                      /\ secureCalls[m.call].stage = "status" /\ m.ok => m.value \in ConfigStatus
  <2>1. m \in Answer =>
          /\ ServedBy(m.call)
          /\ secureCalls[m.call].stage = "status" /\ m.ok => m.value \in ConfigStatus
    BY DEF CallsWhenSent, SnapshotMessage, Answer
  <2>2. m \in Answer => secureCalls'[m.call] \in Coroutine /\ secureCalls'[m.call] # NoStage
    BY <1>4, <2>1 DEF ServedBy
  <2>. QED  BY <2>1, <2>2, CoroutineFields DEF ServedBy
<1>6. SecurityTypeOK'
  <2>1. ASSUME NEW i \in 1..Len(secureWire'), secureWire'[i].kind = "answer",
               secureCalls'[secureWire'[i].call].stage = "status", secureWire'[i].ok
        PROVE  secureWire'[i].value \in ConfigStatus
    <3>1. CASE i \in 1..Len(secureWire)
      BY <1>0, <1>1, <2>1, <3>1 DEF SecurityTypeOK, CallOf
    <3>2. CASE i \in (Len(secureWire) + 1)..Len(secureWire')
      BY <1>1, <1>4, <1>5, <2>1, <3>2
    <3>. QED  BY <1>3, <3>1, <3>2
  <2>. QED  BY <1>0, <1>4, <2>1 DEF SecurityTypeOK, CallOf, Sends
<1>7. AnswersServed'
  <2>1. ASSUME NEW i \in 1..Len(secureWire'), secureWire'[i].kind = "answer"
        PROVE  /\ secureCalls'[secureWire'[i].call].stage # "none"
               /\ secureCalls'[secureWire'[i].call].served
    <3>1. CASE i \in 1..Len(secureWire)
      BY <1>0, <1>1, <2>1, <3>1 DEF AnswersServed, CallOf
    <3>2. CASE i \in (Len(secureWire) + 1)..Len(secureWire')
      BY <1>1, <1>5, <2>1, <3>2
    <3>. QED  BY <1>3, <3>1, <3>2
  <2>2. ASSUME NEW i \in 1..Len(secureWire'), NEW j \in 1..Len(secureWire'),
               secureWire'[i].kind = "answer", secureWire'[j].kind = "answer",
               secureWire'[i].call = secureWire'[j].call
        PROVE  i = j
    <3>1. CASE i \in 1..Len(secureWire) /\ j \in 1..Len(secureWire)
      BY <1>0, <1>1, <2>2, <3>1 DEF AnswersServed
    <3>2. CASE /\ i \in (Len(secureWire) + 1)..Len(secureWire')
               /\ j \in (Len(secureWire) + 1)..Len(secureWire')
      BY <1>1, <2>2, <3>2
    <3>3. CASE i \in 1..Len(secureWire) /\ j \in (Len(secureWire) + 1)..Len(secureWire')
      BY <1>1, <2>2, <3>3
    <3>4. CASE i \in (Len(secureWire) + 1)..Len(secureWire') /\ j \in 1..Len(secureWire)
      BY <1>1, <2>2, <3>4
    <3>. QED  BY <1>3, <3>1, <3>2, <3>3, <3>4
  <2>. QED  BY <2>1, <2>2 DEF AnswersServed, CallOf
<1>8. SecurityWaits'
  <2>1. \A stage : Pending(stage) => Pending(stage)'
    BY <1>4 DEF Pending
  <2>. QED  BY <1>0, <2>1, WaitsParts, WaitsNext
<1>. QED  BY <1>0, <1>6, <1>7, <1>8 DEF ScreenInv, CanAutoLoad

\* What is published: another selection, or that none is left.
LEMMA Publishing ==
  ASSUME SecurityTypeOK, HeldOK, PublishHeld
  PROVE  /\ SnapshotOf(held') \in SnapshotMessage /\ Sends(SnapshotOf(held'))
         /\ SnapshotOf(held').session = [id |-> held'.id, attached |-> held'.attached]
         /\ Len(secureWire') = Len(secureWire) + 1
         /\ CallsWhenSent(SnapshotOf(held'))
         /\ UNCHANGED <<shown, secure, secureCalls, keys, changes, failures>> /\ gaveUp' = FALSE
         /\ held' \in [id : Nat, key : Authenticator \cup {NoReport}, attached : BOOLEAN]
         /\ heldMade' \in Nat /\ HeldOK'
         /\ held'.id > heldMade \/ (held.id # 0 /\ held'.id = 0)
<1>1. /\ held' \in [id : Nat, key : Authenticator \cup {NoReport}, attached : BOOLEAN]
      /\ heldMade' \in Nat
      /\ held'.id <= heldMade'
      /\ held'.id # 0 => held'.attached /\ held'.key \in Authenticator
      /\ held'.id > heldMade \/ (held.id # 0 /\ held'.id = 0)
  <2>1. CASE /\ heldMade' = heldMade + 1
             /\ \E t \in Authenticator : held' = [id |-> heldMade + 1, key |-> t, attached |-> TRUE]
    BY <2>1 DEF SecurityTypeOK
  <2>2. CASE /\ held.id # 0 /\ UNCHANGED heldMade
             /\ \E att \in BOOLEAN : held' = [id |-> 0, key |-> NoReport, attached |-> att]
    BY <2>2 DEF SecurityTypeOK
  <2>. QED  BY <2>1, <2>2 DEF PublishHeld
<1>2. /\ UNCHANGED <<shown, secure, secureCalls, keys, changes, failures>> /\ gaveUp' = FALSE
      /\ Post(SnapshotOf(held'))
  BY DEF PublishHeld
<1>3. PICK h \in [id : Nat, key : Authenticator \cup {NoReport}, attached : BOOLEAN] : h = held'
  BY <1>1
<1>4. PICK m \in SnapshotMessage : m = SnapshotOf(h) /\ m.session = [id |-> h.id, attached |-> h.attached]
  <2>1. h.id \in Nat /\ h.attached \in BOOLEAN
    OBVIOUS
  <2>2. [id |-> h.id, attached |-> h.attached] \in Session
    BY <2>1 DEF Session
  <2>3. SnapshotOf(h) \in SnapshotMessage
    BY <2>2 DEF SnapshotOf, SnapshotMessage
  <2>. QED  BY <2>3 DEF SnapshotOf
<1>5. Sends(m) /\ Len(secureWire') = Len(secureWire) + 1
  BY <1>2, <1>3, <1>4, PostSends
<1>. QED  BY <1>1, <1>2, <1>3, <1>4, <1>5 DEF HeldOK, CallsWhenSent

\* What is answered to any call but the rediscovery.
Answered(m) ==
  LET stage == secureCalls[m.call].stage
      base == secureCalls[m.call].base
      takes == m.ok /\ stage \in {"execute", "pin"}
  IN /\ m \in Answer /\ Sends(m) /\ Len(secureWire') = Len(secureWire) + 1
     /\ CallsWhenSent(m) /\ stage # "reconnect"
     /\ UNCHANGED <<shown, secure, heldMade, changes, gaveUp>>
     /\ held' = IF m.closed THEN [held EXCEPT !.id = 0, !.key = NoReport] ELSE held
     /\ held.id = 0 => m.closed \/ stage = "sources"
     /\ m.ok /\ stage \in {"status", "sensor", "enrollments", "execute", "pin"} => held.id # 0
     /\ m.ok /\ stage = "status" => m.value = StatusOf(held.key)
     /\ m.ok /\ stage = "enrollments" => m.value = keys[held.key].finger
     /\ m.ok /\ stage \in {"sensor", "enrollments"} => held.key \in Sensing
     /\ takes => keys' = [keys EXCEPT ![held.key] = Mutated(keys[held.key], base)]
     /\ ~takes => keys' = keys
     /\ keys' \in [Authenticator -> KeyState]
     /\ failures' \in Nat
     /\ failures' = 0 => failures = 0 /\ (stage = "status" => m.ok \/ m.closed)

\* The fields of an answer.
LEMMA AnswerTyped ==
  ASSUME NEW k \in SecurityCall, NEW ok \in BOOLEAN, NEW closed \in BOOLEAN, NEW value \in Value
  PROVE  LET m == Answers(k, ok, closed, value)
         IN /\ m \in Answer /\ m.call = k /\ m.ok = ok /\ m.closed = closed /\ m.value = value
            /\ m.kind = "answer"
BY DEF Answers, Answer

\* ServeCall answers its call.
LEMMA CallAnswered ==
  ASSUME SecurityTypeOK, HeldOK, NEW k \in SecurityCall, ServeCall(k)
  PROVE  \E m : m.call = k /\ Answered(m)
<1>1. PICK call \in Coroutine : call = secureCalls[k]
  BY DEF SecurityTypeOK
<1>2. /\ call.stage \notin {"none", "sources", "reconnect"} /\ ~call.served
      /\ secureCalls' = [secureCalls EXCEPT ![k].served = TRUE]
      /\ UNCHANGED <<shown, secure, heldMade, changes, gaveUp>>
  BY <1>1 DEF ServeCall
<1>3. PICK ok \in BOOLEAN, closed \in BOOLEAN :
        /\ held.id = 0 => ~ok /\ closed
        /\ ok /\ call.stage \in {"preview", "execute", "pin"} => Accepts(held.key, call.base)
        /\ ok /\ call.stage \in {"sensor", "enrollments"} => held.key \in Sensing
        /\ IF held.id = 0 \/ (ok /\ (closed => call.stage = "execute")) THEN UNCHANGED failures
           ELSE failures < MaxSecurityFailures /\ failures' = failures + 1
        /\ held' = IF closed THEN [held EXCEPT !.id = 0, !.key = NoReport] ELSE held
        /\ keys' = IF ok /\ call.stage \in {"execute", "pin"}
                   THEN [keys EXCEPT ![held.key] = Mutated(@, call.base)] ELSE keys
        /\ Post(Answers(k, ok, closed, IF ok THEN Told(call) ELSE NoReport))
  BY <1>1 DEF ServeCall
<1>4. ok => held.id # 0 /\ held.key \in Authenticator
  BY <1>3 DEF HeldOK
<1>5. PICK value \in Value : value = IF ok THEN Told(call) ELSE NoReport
  <2>1. ok => Told(call) \in Value
    BY <1>4, StatusTyped DEF Told, Value
  <2>. QED  BY <2>1 DEF Value
<1>6. PICK m \in Answer : m = Answers(k, ok, closed, value)
  BY <1>5, AnswerTyped
<1>7. m.call = k /\ m.ok = ok /\ m.closed = closed /\ m.value = value /\ m.kind = "answer"
  BY <1>6, AnswerTyped
<1>8. Sends(m) /\ Len(secureWire') = Len(secureWire) + 1
  BY <1>3, <1>5, <1>6, PostSends
<1>9. ok /\ call.stage = "status" => value = StatusOf(held.key) /\ value \in ConfigStatus
  BY <1>4, <1>5, StatusTyped DEF Told
<1>10. ok /\ call.stage = "enrollments" => value = keys[held.key].finger
  BY <1>5 DEF Told
<1>11. ServedBy(k)
  BY <1>1, <1>2, Serving
<1>12. CallsWhenSent(m)
  BY <1>1, <1>7, <1>9, <1>11 DEF CallsWhenSent
<1>13. keys' \in [Authenticator -> KeyState]
  <2>1. CASE ok /\ call.stage \in {"execute", "pin"}
    <3>1. call.base \in Change \cup PinChange
      BY <2>1, CoroutineFields
    <3>2. Mutated(keys[held.key], call.base) \in KeyState
      BY <1>4, <2>1, <3>1, MutatedTyped, StatusTyped
    <3>3. keys' = [keys EXCEPT ![held.key] = Mutated(keys[held.key], call.base)]
      BY <1>3, <2>1
    <3>. QED  BY <3>2, <3>3 DEF SecurityTypeOK
  <2>2. CASE ~(ok /\ call.stage \in {"execute", "pin"})
    BY <1>3, <2>2 DEF SecurityTypeOK
  <2>. QED  BY <2>1, <2>2
<1>14. failures' \in Nat /\ (failures' = 0 => failures = 0 /\ (call.stage = "status" => ok \/ closed))
  BY <1>3 DEF SecurityTypeOK
<1>15. ok /\ call.stage \in {"execute", "pin"} =>
         keys' = [keys EXCEPT ![held.key] = Mutated(keys[held.key], call.base)]
  BY <1>3
<1>16. ~(ok /\ call.stage \in {"execute", "pin"}) => keys' = keys
  BY <1>3
<1>17. /\ held' = IF closed THEN [held EXCEPT !.id = 0, !.key = NoReport] ELSE held
       /\ held.id = 0 => closed
       /\ ok /\ call.stage \in {"sensor", "enrollments"} => held.key \in Sensing
  BY <1>3
<1>. QED  BY <1>1, <1>2, <1>4, <1>7, <1>8, <1>9, <1>10, <1>12, <1>13, <1>14, <1>15, <1>16, <1>17 DEF Answered

\* ServeSources answers its call.
LEMMA SourcesAnswered ==
  ASSUME SecurityTypeOK, NEW k \in SecurityCall, ServeSources(k)
  PROVE  \E m : m.call = k /\ Answered(m)
<1>1. PICK call \in Coroutine : call = secureCalls[k]
  BY DEF SecurityTypeOK
<1>2. /\ call.stage = "sources" /\ ~call.served
      /\ secureCalls' = [secureCalls EXCEPT ![k].served = TRUE]
      /\ UNCHANGED <<shown, secure, heldVars, secureHistory>>
      /\ Post(Answers(k, TRUE, FALSE, NoReport))
  BY <1>1 DEF ServeSources
<1>3. NoReport \in Value
  BY DEF Value
<1>4. PICK m \in Answer : m = Answers(k, TRUE, FALSE, NoReport)
  BY <1>3, AnswerTyped
<1>5. m.call = k /\ m.ok = TRUE /\ m.closed = FALSE /\ m.kind = "answer"
  BY <1>4 DEF Answers
<1>6. Sends(m) /\ Len(secureWire') = Len(secureWire) + 1
  BY <1>2, <1>4, PostSends
<1>7. ServedBy(k)
  BY <1>1, <1>2, Serving
<1>8. CallsWhenSent(m)
  BY <1>1, <1>2, <1>5, <1>7 DEF CallsWhenSent
<1>9. /\ UNCHANGED <<shown, secure, heldMade, changes, gaveUp>>
      /\ held' = held /\ keys' = keys /\ failures' = failures
      /\ keys' \in [Authenticator -> KeyState] /\ failures' \in Nat
  BY <1>2 DEF heldVars, secureHistory, SecurityTypeOK
<1>. QED  BY <1>1, <1>2, <1>5, <1>6, <1>8, <1>9 DEF Answered

\* What is answered to a rediscovery: that it found nothing selected, that another
\* manager was opened, after the snapshot of what is selected there, or that it failed.
LEMMA ReconnectAnswered ==
  ASSUME SecurityTypeOK, HeldOK, NEW k \in SecurityCall, ServeReconnect(k)
  PROVE  /\ secureCalls[k].stage = "reconnect"
         /\ \E m \in Answer :
              /\ m.call = k /\ m.closed = FALSE /\ Sends(m) /\ CallsWhenSent(m)
         /\ \/ /\ gaveUp' = TRUE /\ held'.id = 0 /\ Len(secureWire') = Len(secureWire) + 1
            \/ /\ Len(secureWire') = Len(secureWire) + 2
               /\ secureWire'[Len(secureWire) + 1] = SnapshotOf(held')
               /\ SnapshotOf(held').kind = "snapshot"
               /\ SnapshotOf(held').session = [id |-> held'.id, attached |-> held'.attached]
               /\ held'.id > heldMade
         /\ held' \in [id : Nat, key : Authenticator \cup {NoReport}, attached : BOOLEAN]
         /\ heldMade' \in Nat /\ HeldOK' /\ gaveUp' \in BOOLEAN
         /\ UNCHANGED <<shown, secure, keys, changes, failures>>
<1>1. PICK call \in Coroutine : call = secureCalls[k]
  BY DEF SecurityTypeOK
<1>2. /\ call.stage = "reconnect" /\ ~call.served
      /\ secureCalls' = [secureCalls EXCEPT ![k].served = TRUE]
      /\ UNCHANGED <<shown, secure, keys, changes, failures>>
  BY <1>1 DEF ServeReconnect
<1>3. NoReport \in Value
  BY DEF Value
<1>4. ServedBy(k)
  BY <1>1, <1>2, Serving
<1>5. ASSUME NEW ok \in BOOLEAN
      PROVE  LET m == Answers(k, ok, FALSE, NoReport)
             IN m \in Answer /\ m.call = k /\ m.closed = FALSE /\ CallsWhenSent(m)
  <2>1. PICK m \in Answer : m = Answers(k, ok, FALSE, NoReport)
    BY <1>3, AnswerTyped
  <2>2. m.call = k /\ m.closed = FALSE
    BY <2>1 DEF Answers
  <2>3. CallsWhenSent(m)
    BY <1>1, <1>2, <1>4, <2>2 DEF CallsWhenSent
  <2>. QED  BY <2>1, <2>2, <2>3
<1>6. CASE /\ held.id = 0
           /\ gaveUp' = TRUE /\ UNCHANGED <<held, heldMade>>
           /\ Post(Answers(k, TRUE, FALSE, NoReport))
  <2>1. PICK m \in Answer : m = Answers(k, TRUE, FALSE, NoReport)
    BY <1>5
  <2>2. m.call = k /\ m.closed = FALSE /\ CallsWhenSent(m)
    BY <1>5, <2>1
  <2>3. Sends(m) /\ Len(secureWire') = Len(secureWire) + 1
    BY <1>6, <2>1, PostSends
  <2>4. /\ held' \in [id : Nat, key : Authenticator \cup {NoReport}, attached : BOOLEAN]
        /\ heldMade' \in Nat /\ HeldOK' /\ gaveUp' \in BOOLEAN /\ held'.id = 0
    BY <1>6 DEF SecurityTypeOK, HeldOK
  <2>. QED  BY <1>1, <1>2, <1>6, <2>2, <2>3, <2>4
<1>7. CASE /\ held.id # 0 /\ heldMade' = heldMade + 1
           /\ held' = [held EXCEPT !.id = heldMade + 1] /\ UNCHANGED gaveUp
           /\ secureWire' = secureWire \o <<SnapshotOf(held'), Answers(k, TRUE, FALSE, NoReport)>>
  <2>1. PICK m \in Answer : m = Answers(k, TRUE, FALSE, NoReport)
    BY <1>5
  <2>2. m.call = k /\ m.closed = FALSE /\ CallsWhenSent(m)
    BY <1>5, <2>1
  <2>3. /\ held' \in [id : Nat, key : Authenticator \cup {NoReport}, attached : BOOLEAN]
        /\ held'.id = heldMade + 1 /\ held'.attached = held.attached /\ held'.key = held.key
        /\ heldMade \in Nat
    <3>1. heldMade \in Nat /\ heldMade + 1 \in Nat
      BY DEF SecurityTypeOK
    <3>2. PICK next \in Nat : next = heldMade + 1
      BY <3>1
    <3>3. held' = [held EXCEPT !.id = next]
      BY <1>7, <3>2
    <3>. QED  BY <3>1, <3>2, <3>3 DEF SecurityTypeOK
  <2>4. heldMade' \in Nat /\ HeldOK' /\ gaveUp' \in BOOLEAN /\ held'.id > heldMade
    BY <1>7, <2>3 DEF HeldOK, SecurityTypeOK
  <2>5. PICK h \in [id : Nat, key : Authenticator \cup {NoReport}, attached : BOOLEAN] : h = held'
    BY <2>3
  <2>6. /\ SnapshotOf(h) \in SnapshotMessage /\ SnapshotOf(h).kind = "snapshot"
        /\ SnapshotOf(h).session = [id |-> h.id, attached |-> h.attached]
    <3>1. h.id \in Nat /\ h.attached \in BOOLEAN
      OBVIOUS
    <3>2. [id |-> h.id, attached |-> h.attached] \in Session
      BY <3>1 DEF Session
    <3>. QED  BY <3>2 DEF SnapshotOf, SnapshotMessage
  <2>7. PICK s \in SnapshotMessage : s = SnapshotOf(h)
    BY <2>6
  <2>8. Sends(m) /\ Len(secureWire') = Len(secureWire) + 2 /\ secureWire'[Len(secureWire) + 1] = s
    BY <1>7, <2>1, <2>5, <2>7, BothSend
  <2>. QED  BY <1>1, <1>2, <2>2, <2>3, <2>4, <2>5, <2>6, <2>7, <2>8
<1>8. CASE /\ held.id # 0 /\ gaveUp' = TRUE /\ UNCHANGED heldMade
           /\ held' = [id |-> 0, key |-> NoReport, attached |-> FALSE]
           /\ Post(Answers(k, FALSE, FALSE, NoReport))
  <2>1. PICK m \in Answer : m = Answers(k, FALSE, FALSE, NoReport)
    BY <1>5
  <2>2. m.call = k /\ m.closed = FALSE /\ CallsWhenSent(m)
    BY <1>5, <2>1
  <2>3. Sends(m) /\ Len(secureWire') = Len(secureWire) + 1
    BY <1>8, <2>1, PostSends
  <2>4. /\ held' \in [id : Nat, key : Authenticator \cup {NoReport}, attached : BOOLEAN]
        /\ heldMade' \in Nat /\ HeldOK' /\ gaveUp' \in BOOLEAN /\ held'.id = 0
    BY <1>8 DEF SecurityTypeOK, HeldOK
  <2>. QED  BY <1>1, <1>2, <1>8, <2>2, <2>3, <2>4
<1>. QED  BY <1>6, <1>7, <1>8 DEF ServeReconnect

\* An answer that closes leaves nothing selected; another leaves the selection.
LEMMA AnsweredHeld ==
  ASSUME SecurityTypeOK, HeldOK, NEW m, Answered(m)
  PROVE  /\ held' \in [id : Nat, key : Authenticator \cup {NoReport}, attached : BOOLEAN]
         /\ HeldOK' /\ held'.attached = held.attached
         /\ IF m.closed THEN held'.id = 0 ELSE held' = held
<1>1. /\ held' = IF m.closed THEN [held EXCEPT !.id = 0, !.key = NoReport] ELSE held
      /\ heldMade' = heldMade /\ gaveUp' = gaveUp
  BY DEF Answered
<1>2. CASE m.closed
  <2>1. held' = [held EXCEPT !.id = 0, !.key = NoReport]
    BY <1>1, <1>2
  <2>2. /\ held' \in [id : Nat, key : Authenticator \cup {NoReport}, attached : BOOLEAN]
        /\ held'.id = 0 /\ held'.attached = held.attached
    BY <2>1 DEF SecurityTypeOK
  <2>. QED  BY <1>1, <1>2, <2>2 DEF HeldOK, SecurityTypeOK
<1>3. CASE ~m.closed
  BY <1>1, <1>3 DEF HeldOK, SecurityTypeOK
<1>. QED  BY <1>2, <1>3

\* What the service does keeps the invariant of the screen.
LEMMA ServiceKeeps ==
  ASSUME ScreenInv,
         \/ PublishHeld
         \/ \E k \in SecurityCall : ServeCall(k) \/ ServeSources(k) \/ ServeReconnect(k)
  PROVE  ScreenInv'
<1>0. SecurityTypeOK /\ HeldOK
  BY DEF ScreenInv
<1>1. CASE PublishHeld
  <2>1. PICK m : /\ m = SnapshotOf(held') /\ Sends(m) /\ CallsWhenSent(m)
                 /\ UNCHANGED <<shown, secure, secureCalls, keys, changes, failures>> /\ gaveUp' = FALSE
                 /\ held' \in [id : Nat, key : Authenticator \cup {NoReport}, attached : BOOLEAN]
                 /\ heldMade' \in Nat /\ HeldOK'
    BY <1>0, <1>1, Publishing
  <2>2. keys' \in [Authenticator -> KeyState] /\ changes' \in Nat /\ failures' \in Nat
    BY <1>0, <2>1 DEF SecurityTypeOK
  <2>. QED  BY <2>1, <2>2, SendKeeps
<1>2. ASSUME NEW k \in SecurityCall, ServeCall(k) \/ ServeSources(k)
      PROVE  ScreenInv'
  <2>1. PICK m : Answered(m)
    BY <1>0, <1>2, CallAnswered, SourcesAnswered
  <2>2. /\ held' \in [id : Nat, key : Authenticator \cup {NoReport}, attached : BOOLEAN] /\ HeldOK'
    BY <1>0, <2>1, AnsweredHeld
  <2>3. /\ Sends(m) /\ CallsWhenSent(m) /\ UNCHANGED <<shown, secure, heldMade, changes, gaveUp>>
        /\ keys' \in [Authenticator -> KeyState] /\ failures' \in Nat
    BY <2>1 DEF Answered
  <2>4. heldMade' \in Nat /\ changes' \in Nat /\ gaveUp' \in BOOLEAN
    BY <1>0, <2>3 DEF SecurityTypeOK
  <2>. QED  BY <2>2, <2>3, <2>4, SendKeeps
<1>3. ASSUME NEW k \in SecurityCall, ServeReconnect(k)
      PROVE  ScreenInv'
  <2>1. PICK m \in Answer : Sends(m) /\ CallsWhenSent(m)
    BY <1>0, <1>3, ReconnectAnswered
  <2>2. /\ held' \in [id : Nat, key : Authenticator \cup {NoReport}, attached : BOOLEAN]
        /\ heldMade' \in Nat /\ HeldOK' /\ gaveUp' \in BOOLEAN
        /\ UNCHANGED <<shown, secure, keys, changes, failures>>
    BY <1>0, <1>3, ReconnectAnswered
  <2>3. keys' \in [Authenticator -> KeyState] /\ changes' \in Nat /\ failures' \in Nat
    BY <1>0, <2>2 DEF SecurityTypeOK
  <2>. QED  BY <2>1, <2>2, <2>3, SendKeeps
<1>. QED  BY <1>1, <1>2, <1>3

\* The invariant of the screen holds at first.
LEMMA ScreenInvInit ==
  ASSUME SecurityInit
  PROVE  ScreenInv
<1>1. SecurityTypeOK
  <2>1. shown \in Shown
    BY DEF SecurityInit, Shown, Session, Unselected
  <2>2. secure \in Stores
    BY Begins DEF SecurityInit
  <2>3. Fresh \in KeyState
    BY DEF Fresh, KeyState, Finger
  <2>4. keys \in [Authenticator -> KeyState]
    BY <2>3 DEF SecurityInit
  <2>5. secureCalls \in [SecurityCall -> Coroutine]
    BY DEF SecurityInit, Coroutine
  <2>6. secureWire = <<>> /\ secureWire \in Seq(SnapshotMessage \cup Answer) /\ Len(secureWire) = 0
    <3> HIDE DEF SnapshotMessage, Answer
    <3>. QED  BY DEF SecurityInit
  <2>7. /\ held \in [id : Nat, key : Authenticator \cup {NoReport}, attached : BOOLEAN]
        /\ heldMade \in Nat /\ changes \in Nat /\ failures \in Nat /\ gaveUp \in BOOLEAN
    BY DEF SecurityInit
  <2>. QED  BY <2>1, <2>2, <2>4, <2>5, <2>6, <2>7 DEF SecurityTypeOK
<1>2. HeldOK
  BY DEF SecurityInit, HeldOK
<1>3. AnswersServed
  <2>1. Len(secureWire) = 0
    BY DEF SecurityInit
  <2>. QED  BY <2>1 DEF AnswersServed
<1>4. SecurityWaits
  BY WaitsParts DEF SecurityInit, EmptySecurity, EmptyResource, IdleMutation, IsLoading
<1>5. ~CanAutoLoad(shown, secure)
  BY DEF SecurityInit, Unselected, CanAutoLoad
<1>. QED  BY <1>1, <1>2, <1>3, <1>4, <1>5 DEF ScreenInv

\* Every step keeps it.
LEMMA ScreenInvNext ==
  ASSUME ScreenInv, [SecurityNext]_securityVars
  PROVE  ScreenInv'
<1>1. CASE SecurityNext
  <2>1. \/ ByTheUser \/ PublishHeld \/ SnapshotArrives \/ AnswerArrives
        \/ \E k \in SecurityCall : ServeCall(k) \/ ServeSources(k) \/ ServeReconnect(k)
    BY <1>1, SecuritySteps DEF ScreenInv
  <2>. QED  BY <2>1, UserKeeps, SnapshotKeeps, AnswerKeeps, ServiceKeeps
<1>2. CASE UNCHANGED securityVars
  <2>1. /\ UNCHANGED <<shown, secure, secureCalls, held, heldMade, keys, secureWire>>
        /\ UNCHANGED <<changes, failures, gaveUp>>
    BY <1>2 DEF securityVars, heldVars, secureHistory
  <2>2. SecurityTypeOK'
    BY <2>1 DEF ScreenInv, SecurityTypeOK, CallOf
  <2>3. HeldOK' /\ AnswersServed'
    BY <2>1 DEF ScreenInv, HeldOK, AnswersServed, CallOf
  <2>4. SecurityWaits'
    BY <2>1 DEF ScreenInv, SecurityWaits, Pending
  <2>. QED  BY <2>1, <2>2, <2>3, <2>4 DEF ScreenInv
<1>. QED  BY <1>1, <1>2

\* Nothing of the security screen is shown as loading, previewed or executed unless
\* the call it waits for is under way, whatever was cleared, closed or reset meanwhile
\* (security-controller.ts, features/security/state.ts).
THEOREM SecurityWaitsForCalls == SecuritySpec => []SecurityWaits
<1>1. SecurityInit => ScreenInv
  BY ScreenInvInit
<1>2. ScreenInv /\ [SecurityNext]_securityVars => ScreenInv'
  BY ScreenInvNext
<1>3. ScreenInv => SecurityWaits
  BY DEF ScreenInv
<1>. QED  BY <1>1, <1>2, <1>3, PTL DEF SecuritySpec

\* The screen is never left blank while it shows an authenticator that is attached and
\* selected: the status is read, or was (canAutoLoadSecurity of security-controller.ts).
THEOREM ScreenIsLoaded == SecuritySpec => []~CanAutoLoad(shown, secure)
<1>1. SecurityInit => ScreenInv
  BY ScreenInvInit
<1>2. ScreenInv /\ [SecurityNext]_securityVars => ScreenInv'
  BY ScreenInvNext
<1>3. ScreenInv => ~CanAutoLoad(shown, secure)
  BY DEF ScreenInv
<1>. QED  BY <1>1, <1>2, <1>3, PTL DEF SecuritySpec

-----------------------------------------------------------------------------
(* What settles.                                                            *)

\* V[i] is the session that the window has after the first i messages.
Sessions(V) ==
  /\ V \in [0..Len(secureWire) -> Session]
  /\ V[0] = shown.session
  /\ \A i \in 1..Len(secureWire) : V[i] = SessionAfter(secureWire[i], V[i - 1])

\* A message that clears the stores of a window with this session.
Clears(m, known) ==
  IF m.kind = "snapshot" THEN m.session # known ELSE m.closed \/ Resets(m)

\* A rediscovery that is yet to be served, or to be asked for.
Rediscovers ==
  \/ \E k \in SecurityCall : secureCalls[k].stage = "reconnect" /\ ~secureCalls[k].served
  \/ \E i \in 1..Len(secureWire) : Resets(secureWire[i])

\* What was read up to the message i is cleared later, or nothing is selected until
\* the next snapshot is published.
Cleared(V, i) ==
  \/ gaveUp \/ Rediscovers
  \/ \E l \in (i + 1)..Len(secureWire) : Clears(secureWire[l], V[l - 1])

Mutates(m) == m.kind = "answer" /\ m.ok /\ CallOf(m).stage \in {"execute", "pin"}
ChangesFinger(m) ==
  /\ m.kind = "answer" /\ m.ok
  /\ CallOf(m).stage = "execute" /\ CallOf(m).base.kind \in BioKind
MutatedAfter(i) == \E l \in (i + 1)..Len(secureWire) : Mutates(secureWire[l])
FingerChangedAfter(i) == \E l \in (i + 1)..Len(secureWire) : ChangesFinger(secureWire[l])

\* The enrollments will be read again.
Refreshing(s) ==
  \E k \in SecurityCall :
    /\ secureCalls[k].stage \in {"status", "sensor", "sources"}
    /\ secureCalls[k].then = "enrollments"
    /\ secureCalls[k].stage # "status" => s.status.report # NoReport

IsStatus(v) == held.id # 0 /\ v = StatusOf(held.key)
IsFinger(v) == held.id # 0 /\ v = keys[held.key].finger
Senses == held.id # 0 /\ held.key \in Sensing
TellsSensor(v) == held.id # 0 /\ v.bio = (held.key \in Sensing)

\* The last session is the service's, and no session is newer.
SessionRight(V) ==
  /\ \A i \in 0..Len(secureWire) : V[i].id <= heldMade
  /\ \/ V[Len(secureWire)] = [id |-> held.id, attached |-> held.attached]
     \/ gaveUp \/ Rediscovers

\* What is read of the authenticator is right, cleared, or read again after a mutation;
\* a mutation that succeeded finds the window attached, which then reads again.
MessageRight(V, i) ==
  LET m == secureWire[i]
  IN /\ Mutates(m) => V[i - 1].attached \/ Cleared(V, i)
     /\ Loads(m, "status") => /\ IsStatus(m.value) \/ Cleared(V, i) \/ MutatedAfter(i)
                              /\ TellsSensor(m.value) \/ Cleared(V, i)
     /\ Loads(m, "sensor") => Senses \/ Cleared(V, i)
     /\ Loads(m, "enrollments") =>
          /\ Senses \/ Cleared(V, i)
          /\ IsFinger(m.value) \/ Cleared(V, i) \/ FingerChangedAfter(i)
     /\ failures = 0 /\ m.kind = "answer" /\ CallOf(m).stage = "status" => m.ok \/ m.closed
StoresRight(V, s) ==
  /\ s.status.phase = "ready" =>
       IsStatus(s.status.report) \/ Cleared(V, 0) \/ MutatedAfter(0) \/ Pending("status")
  /\ s.status.report # NoReport => TellsSensor(s.status.report) \/ Cleared(V, 0)
  /\ s.sensor.phase = "ready" => Senses \/ Cleared(V, 0)
  /\ s.enrollments.phase = "ready" => Senses \/ Cleared(V, 0)
  /\ failures = 0 /\ s.enrollments.phase = "ready" =>
       \/ IsFinger(s.enrollments.report) \/ Cleared(V, 0)
       \/ FingerChangedAfter(0) \/ Refreshing(s)

AllRight(V) ==
  /\ Sessions(V) /\ SessionRight(V)
  /\ \A i \in 1..Len(secureWire) : MessageRight(V, i)
  /\ StoresRight(V, secure)

\* Inductive.
SettlingInv == ScreenInv /\ \E V : AllRight(V)

\* A coroutine that goes on only takes from what is shown.
LEMMA FollowsRight ==
  ASSUME NEW V, NEW s \in Stores, NEW next, Follows(next, s), secure' = next.stores,
         StoresRight(V, s)'
  PROVE  StoresRight(V, secure)'
<1>1. /\ secure'.status.phase = "ready" => secure'.status = s.status
      /\ secure'.status.report = s.status.report
      /\ secure'.sensor.phase = "ready" => secure'.sensor = s.sensor
      /\ secure'.enrollments.phase = "ready" => secure'.enrollments = s.enrollments
  BY DEF Follows, Begun, IsLoading, EmptyResource
<1>2. Refreshing(s)' => Refreshing(secure)'
  BY <1>1 DEF Refreshing
<1>. QED  BY <1>1, <1>2 DEF StoresRight

\* Stores that were emptied show nothing of the authenticator.
LEMMA EmptyRight ==
  ASSUME NEW V, NEW s, s.status = EmptyResource, s.sensor = EmptyResource, s.enrollments = EmptyResource
  PROVE  StoresRight(V, s)'
BY DEF StoresRight, EmptyResource

\* What the user does reads nothing and disturbs nothing.
LEMMA UserRight ==
  ASSUME ScreenInv, ByTheUser, NEW V, AllRight(V)
  PROVE  AllRight(V)'
<1>0. SecurityTypeOK /\ AnswersServed
  BY DEF ScreenInv
<1>1. PICK next, s : UserAwaits(next, s)
  BY DEF ByTheUser
<1>2. /\ UNCHANGED <<held, heldMade, keys, secureWire, failures, gaveUp>>
      /\ shown'.session = shown.session
  BY DEF ByTheUser, heldVars
<1>3. \A k \in SecurityCall : secureCalls[k] # NoStage => secureCalls'[k] = secureCalls[k]
  BY <1>0, <1>1, StartsKeep DEF UserAwaits
<1>4. \A i \in 1..Len(secureWire) : secureWire[i].kind = "answer" =>
        secureWire[i].call \in SecurityCall /\ CallOf(secureWire[i])' = CallOf(secureWire[i])
  BY <1>0, <1>2, <1>3, AnswersKept
<1>5. \A i \in 1..Len(secureWire) :
        /\ Resets(secureWire[i])' = Resets(secureWire[i])
        /\ Mutates(secureWire[i])' = Mutates(secureWire[i])
        /\ ChangesFinger(secureWire[i])' = ChangesFinger(secureWire[i])
        /\ \A stage : Loads(secureWire[i], stage)' = Loads(secureWire[i], stage)
  BY <1>2, <1>4 DEF Resets, Mutates, ChangesFinger, Loads
<1>6. Rediscovers => Rediscovers'
  <2>1. ASSUME NEW k \in SecurityCall, secureCalls[k].stage = "reconnect", ~secureCalls[k].served
        PROVE  Rediscovers'
    BY <1>3, <2>1 DEF Rediscovers, NoStage
  <2>. QED  BY <1>2, <1>5, <2>1 DEF Rediscovers
<1>7. Len(secureWire) \in Nat /\ \A i \in Nat : \A l \in (i + 1)..Len(secureWire) : l \in 1..Len(secureWire)
  BY <1>0 DEF SecurityTypeOK
<1>8. \A l \in 1..Len(secureWire) : Clears(secureWire[l], V[l - 1])' = Clears(secureWire[l], V[l - 1])
  BY <1>2, <1>5 DEF Clears
<1>9. \A i \in Nat : Cleared(V, i) => Cleared(V, i)'
  BY <1>2, <1>6, <1>7, <1>8 DEF Cleared
<1>10. \A i \in Nat : /\ MutatedAfter(i) => MutatedAfter(i)'
                      /\ FingerChangedAfter(i) => FingerChangedAfter(i)'
  BY <1>2, <1>5, <1>7 DEF MutatedAfter, FingerChangedAfter
<1>11. Pending("status") => Pending("status")'
  BY <1>0, <1>3, StaysPending
<1>12. Refreshing(secure) => Refreshing(s)'
  <2>1. s.status = secure.status
    BY <1>1 DEF UserAwaits
  <2>2. ASSUME NEW k \in SecurityCall, secureCalls[k].stage \in {"status", "sensor", "sources"}
        PROVE  secureCalls'[k] = secureCalls[k]
    BY <1>3, <2>2 DEF NoStage
  <2>. QED  BY <2>1, <2>2 DEF Refreshing
<1>13. Sessions(V)'
  <2>1. \A i \in 1..Len(secureWire) :
          SessionAfter(secureWire[i], V[i - 1])' = SessionAfter(secureWire[i], V[i - 1])
    BY <1>2, <1>5 DEF SessionAfter
  <2>2. Sessions(V)
    BY DEF AllRight
  <2>. QED  BY <1>2, <2>1, <2>2 DEF Sessions
<1>14. SessionRight(V)'
  BY <1>2, <1>6 DEF AllRight, SessionRight
<1>15. ASSUME NEW i \in 1..Len(secureWire)'
       PROVE  MessageRight(V, i)'
  <2>1. MessageRight(V, i) /\ i \in 1..Len(secureWire) /\ i \in Nat
    BY <1>2 DEF AllRight
  <2>2. secureWire[i].kind = "answer" => CallOf(secureWire[i])' = CallOf(secureWire[i])
    BY <1>4, <2>1
  <2>3. PICK m : m = secureWire[i] /\ m = secureWire'[i]
    BY <1>2
  <2>4. /\ Mutates(m)' = Mutates(m)
        /\ Loads(m, "status")' = Loads(m, "status") /\ Loads(m, "sensor")' = Loads(m, "sensor")
        /\ Loads(m, "enrollments")' = Loads(m, "enrollments")
        /\ m.kind = "answer" => CallOf(m)' = CallOf(m)
    BY <1>5, <2>1, <2>2, <2>3 DEF Mutates, Loads, CallOf
  <2>5. /\ Cleared(V, i) => Cleared(V, i)'
        /\ MutatedAfter(i) => MutatedAfter(i)'
        /\ FingerChangedAfter(i) => FingerChangedAfter(i)'
    BY <1>9, <1>10, <2>1
  <2>6. /\ IsStatus(m.value) => IsStatus(m.value)'
        /\ IsFinger(m.value) => IsFinger(m.value)'
        /\ TellsSensor(m.value) => TellsSensor(m.value)'
        /\ Senses => Senses'
    BY <1>2 DEF IsStatus, IsFinger, TellsSensor, Senses, StatusOf
  <2>7. failures' = failures
    BY <1>2
  <2>. QED  BY <2>1, <2>3, <2>4, <2>5, <2>6, <2>7 DEF MessageRight
<1>16. StoresRight(V, s)'
  <2>1. /\ s.status = secure.status /\ s.sensor = secure.sensor
        /\ s.enrollments = secure.enrollments
    BY <1>1 DEF UserAwaits
  <2>2. StoresRight(V, secure) /\ 0 \in Nat /\ failures' = failures
    BY <1>2 DEF AllRight
  <2>3. /\ Cleared(V, 0) => Cleared(V, 0)'
        /\ MutatedAfter(0) => MutatedAfter(0)'
        /\ FingerChangedAfter(0) => FingerChangedAfter(0)'
    BY <1>9, <1>10, <2>2
  <2>4. /\ IsStatus(s.status.report) => IsStatus(s.status.report)'
        /\ TellsSensor(s.status.report) => TellsSensor(s.status.report)'
        /\ Senses => Senses'
        /\ IsFinger(s.enrollments.report) => IsFinger(s.enrollments.report)'
    BY <1>2 DEF IsStatus, IsFinger, TellsSensor, Senses, StatusOf
  <2>. QED  BY <1>11, <1>12, <2>1, <2>2, <2>3, <2>4 DEF StoresRight
<1>17. StoresRight(V, secure)'
  BY <1>1, <1>16, FollowsRight DEF UserAwaits
<1>. QED  BY <1>13, <1>14, <1>15, <1>17 DEF AllRight

\* When a message is taken, what holds of the others goes on to hold; what the stores
\* wait for is still to come, unless it was that message.
LEMMA TakeRight ==
  ASSUME SecurityTypeOK, AnswersServed, NEW kind, NextOnWire(kind),
         secureCalls' \in [SecurityCall -> Coroutine],
         \A k \in SecurityCall :
           /\ secureCalls[k] # NoStage
           /\ secureWire[1].kind = "answer" => k # secureWire[1].call
           => secureCalls'[k] = secureCalls[k],
         UNCHANGED <<held, heldMade, keys, failures, gaveUp>>,
         shown'.session = SessionAfter(secureWire[1], shown.session),
         Resets(secureWire[1])
         \/ (secureWire[1].kind = "answer" /\ CallOf(secureWire[1]).stage = "reconnect"
             /\ ~CallOf(secureWire[1]).served)
         => Rediscovers',
         NEW V, AllRight(V)
  PROVE  \E W :
           /\ Sessions(W)' /\ SessionRight(W)'
           /\ \A i \in 1..Len(secureWire') : MessageRight(W, i)'
           /\ Cleared(V, 1) => Cleared(W, 0)'
           /\ Cleared(V, 0) => Cleared(W, 0)' \/ Clears(secureWire[1], V[0])
           /\ MutatedAfter(1) => MutatedAfter(0)'
           /\ MutatedAfter(0) => MutatedAfter(0)' \/ Mutates(secureWire[1])
           /\ FingerChangedAfter(1) => FingerChangedAfter(0)'
           /\ FingerChangedAfter(0) => FingerChangedAfter(0)' \/ ChangesFinger(secureWire[1])
<1>0. /\ Len(secureWire) \in Nat /\ Len(secureWire) >= 1
      /\ Len(secureWire') = Len(secureWire) - 1
      /\ \A i \in 1..Len(secureWire) - 1 : secureWire'[i] = secureWire[i + 1]
  BY Taken
<1>1. PICK n \in Nat : n + 1 = Len(secureWire) /\ n = Len(secureWire')
  BY <1>0
<1>2. \A i \in 1..n :
        /\ i + 1 \in 1..n + 1 /\ secureWire'[i] = secureWire[i + 1]
        /\ secureWire'[i].kind = "answer" =>
             /\ secureWire'[i].call \in SecurityCall
             /\ secureCalls'[secureWire'[i].call] = secureCalls[secureWire[i + 1].call]
  BY <1>1, TakenKeeps
<1>3. PICK W : W = [i \in 0..n |-> V[i + 1]]
  OBVIOUS
<1>4. /\ V \in [0..n + 1 -> Session] /\ V[0] = shown.session
      /\ \A i \in 1..n + 1 : V[i] = SessionAfter(secureWire[i], V[i - 1])
  BY <1>1 DEF AllRight, Sessions
<1>5. /\ W \in [0..n -> Session] /\ \A i \in 0..n : W[i] = V[i + 1]
      /\ \A i \in 1..n : W[i - 1] = V[i]
  BY <1>3, <1>4
<1>6. \A i \in 1..n : \A m : m = secureWire[i + 1] =>
        /\ Resets(m)' = Resets(m) /\ Mutates(m)' = Mutates(m)
        /\ ChangesFinger(m)' = ChangesFinger(m)
        /\ \A stage : Loads(m, stage)' = Loads(m, stage)
        /\ m.kind = "answer" => CallOf(m)' = CallOf(m)
  <2>1. ASSUME NEW i \in 1..n, NEW m, m = secureWire[i + 1]
        PROVE  m.kind = "answer" => secureCalls'[m.call] = secureCalls[m.call]
    BY <1>2, <2>1
  <2>2. ASSUME NEW m, m.kind = "answer" => secureCalls'[m.call] = secureCalls[m.call]
        PROVE  /\ Resets(m)' = Resets(m) /\ Mutates(m)' = Mutates(m)
               /\ ChangesFinger(m)' = ChangesFinger(m)
               /\ \A stage : Loads(m, stage)' = Loads(m, stage)
               /\ m.kind = "answer" => CallOf(m)' = CallOf(m)
    BY <2>2 DEF Resets, Mutates, ChangesFinger, Loads, CallOf
  <2>. QED  BY <2>1, <2>2
<1>7. \A i \in 1..n : \A m : m = secureWire[i + 1] =>
        /\ Clears(m, V[i])' = Clears(m, V[i])
        /\ SessionAfter(m, V[i])' = SessionAfter(m, V[i])
  BY <1>6 DEF Clears, SessionAfter
<1>8. Sessions(W)'
  <2>1. W[0] = shown'.session
    BY <1>1, <1>4, <1>5
  <2>2. ASSUME NEW i \in 1..n
        PROVE  W[i] = SessionAfter(secureWire[i], W[i - 1])'
    <3>1. PICK m : m = secureWire[i + 1] /\ m = secureWire'[i]
      BY <1>2
    <3>2. V[i + 1] = SessionAfter(m, V[i])
      <4>1. i + 1 \in 1..n + 1 /\ (i + 1) - 1 = i
        BY <1>1
      <4>. QED  BY <1>4, <3>1, <4>1
    <3>3. SessionAfter(m, V[i])' = SessionAfter(m, V[i])
      BY <1>7, <3>1
    <3>4. W[i] = V[i + 1] /\ W[i - 1] = V[i]
      BY <1>5
    <3>. QED  BY <3>1, <3>2, <3>3, <3>4
  <2>. QED  BY <1>1, <1>5, <2>1, <2>2 DEF Sessions
<1>9. Rediscovers => Rediscovers'
  <2>1. ASSUME NEW k \in SecurityCall, secureCalls[k].stage = "reconnect", ~secureCalls[k].served
        PROVE  Rediscovers'
    <3>1. CASE secureWire[1].kind = "answer" /\ k = secureWire[1].call
      BY <2>1, <3>1 DEF CallOf
    <3>2. CASE secureWire[1].kind = "answer" => k # secureWire[1].call
      BY <2>1, <3>2 DEF Rediscovers, NoStage
    <3>. QED  BY <3>1, <3>2
  <2>2. ASSUME NEW l \in 1..n + 1, Resets(secureWire[l])
        PROVE  Rediscovers'
    <3>1. CASE l = 1
      BY <2>2, <3>1
    <3>2. CASE l # 1
      <4>1. PICK i \in 1..n : i + 1 = l
        BY <1>1, <3>2
      <4>2. PICK m : m = secureWire[l] /\ m = secureWire'[i]
        BY <1>2, <4>1
      <4>3. Resets(m)'
        BY <1>6, <2>2, <4>1, <4>2
      <4>. QED  BY <1>1, <4>2, <4>3 DEF Rediscovers
    <3>. QED  BY <3>1, <3>2
  <2>. QED  BY <1>1, <2>1, <2>2 DEF Rediscovers
<1>10. ASSUME NEW i \in 0..n
       PROVE  /\ Cleared(V, i + 1) => Cleared(W, i)'
              /\ MutatedAfter(i + 1) => MutatedAfter(i)'
              /\ FingerChangedAfter(i + 1) => FingerChangedAfter(i)'
  <2>1. ASSUME NEW l \in (i + 2)..n + 1
        PROVE  /\ Clears(secureWire[l], V[l - 1]) => Cleared(W, i)'
               /\ Mutates(secureWire[l]) => MutatedAfter(i)'
               /\ ChangesFinger(secureWire[l]) => FingerChangedAfter(i)'
    <3>1. PICK j \in 1..n : j + 1 = l /\ j \in (i + 1)..n /\ j = l - 1
      BY <1>1
    <3>2. PICK m : m = secureWire[l] /\ m = secureWire[j + 1] /\ m = secureWire'[j]
      BY <1>2, <3>1
    <3>3. Mutates(m)' = Mutates(m) /\ ChangesFinger(m)' = ChangesFinger(m)
      BY <1>6, <3>2
    <3>4. Clears(m, V[j])' = Clears(m, V[j]) /\ W[j - 1] = V[j]
      BY <1>5, <1>7, <3>2
    <3>. QED  BY <1>1, <3>1, <3>2, <3>3, <3>4 DEF Cleared, MutatedAfter, FingerChangedAfter
  <2>2. (i + 1) + 1 = i + 2
    BY <1>1
  <2>3. gaveUp \/ Rediscovers => Cleared(W, i)'
    BY <1>9 DEF Cleared
  <2>. QED  BY <1>1, <2>1, <2>2, <2>3 DEF Cleared, MutatedAfter, FingerChangedAfter
<1>11. /\ Cleared(V, 1) => Cleared(W, 0)'
       /\ MutatedAfter(1) => MutatedAfter(0)'
       /\ FingerChangedAfter(1) => FingerChangedAfter(0)'
  <2>1. 0 \in 0..n /\ 0 + 1 = 1
    BY <1>1
  <2>. QED  BY <1>10, <2>1
<1>12. /\ Cleared(V, 0) => Cleared(V, 1) \/ Clears(secureWire[1], V[0])
       /\ MutatedAfter(0) => MutatedAfter(1) \/ Mutates(secureWire[1])
       /\ FingerChangedAfter(0) => FingerChangedAfter(1) \/ ChangesFinger(secureWire[1])
  <2>1. \A l \in (0 + 1)..n + 1 : (l = 1 /\ l - 1 = 0) \/ l \in (1 + 1)..n + 1
    BY <1>1
  <2>. QED  BY <1>1, <2>1 DEF Cleared, MutatedAfter, FingerChangedAfter
<1>13. SessionRight(W)'
  <2>1. /\ \A i \in 0..n + 1 : V[i].id <= heldMade
        /\ V[n + 1] = [id |-> held.id, attached |-> held.attached] \/ gaveUp \/ Rediscovers
    BY <1>1 DEF AllRight, SessionRight
  <2>2. \A i \in 0..n : W[i].id <= heldMade
    BY <1>1, <1>5, <2>1
  <2>3. W[n] = V[n + 1]
    BY <1>1, <1>5
  <2>. QED  BY <1>1, <1>9, <2>1, <2>2, <2>3 DEF SessionRight
<1>14. ASSUME NEW i \in 1..n
       PROVE  MessageRight(W, i)'
  <2>1. PICK m : m = secureWire[i + 1] /\ m = secureWire'[i]
    BY <1>2
  <2>2. i + 1 \in 1..Len(secureWire) /\ (i + 1) - 1 = i /\ i \in 0..n
    BY <1>1
  <2>3. MessageRight(V, i + 1)
    BY <2>2 DEF AllRight
  <2>4. /\ Mutates(m)' = Mutates(m)
        /\ Loads(m, "status")' = Loads(m, "status") /\ Loads(m, "sensor")' = Loads(m, "sensor")
        /\ Loads(m, "enrollments")' = Loads(m, "enrollments")
        /\ m.kind = "answer" => CallOf(m)' = CallOf(m)
    BY <1>6, <2>1
  <2>5. /\ Cleared(V, i + 1) => Cleared(W, i)'
        /\ MutatedAfter(i + 1) => MutatedAfter(i)'
        /\ FingerChangedAfter(i + 1) => FingerChangedAfter(i)'
    BY <1>10, <2>2
  <2>6. /\ IsStatus(m.value) => IsStatus(m.value)'
        /\ IsFinger(m.value) => IsFinger(m.value)'
        /\ TellsSensor(m.value) => TellsSensor(m.value)'
        /\ Senses => Senses'
    BY DEF IsStatus, IsFinger, TellsSensor, Senses, StatusOf
  <2>7. W[i - 1] = V[i] /\ failures' = failures
    BY <1>5
  <2>. QED  BY <2>1, <2>2, <2>3, <2>4, <2>5, <2>6, <2>7 DEF MessageRight
<1>. QED  BY <1>1, <1>8, <1>11, <1>12, <1>13, <1>14

\* A snapshot empties what it clears, and what it does not clear stays right.
LEMMA SnapshotRight ==
  ASSUME ScreenInv, SnapshotArrives, NEW V, AllRight(V)
  PROVE  \E W : AllRight(W)'
<1>0. SecurityTypeOK /\ AnswersServed
  BY DEF ScreenInv
<1> DEFINE m == secureWire[1]
<1>1. m \in SnapshotMessage /\ NextOnWire("snapshot") /\ UNCHANGED <<heldVars, secureHistory>>
  BY <1>0, SnapshotComes
<1>2. PICK next : \E w \in Shown : \E s \in Stores :
        /\ w.session = m.session
        /\ s = IF m.session = shown.session THEN secure ELSE EmptySecurity
        /\ Turns(next, s, w) /\ Starts(next)
  BY <1>0, SnapshotComes
<1>3. PICK w \in Shown : \E s \in Stores :
        /\ w.session = m.session
        /\ s = IF m.session = shown.session THEN secure ELSE EmptySecurity
        /\ Turns(next, s, w) /\ Starts(next)
  BY <1>2
<1>4. PICK s \in Stores :
        /\ w.session = m.session
        /\ s = IF m.session = shown.session THEN secure ELSE EmptySecurity
        /\ Turns(next, s, w) /\ Starts(next)
  BY <1>3
<1>5. /\ secureCalls' \in [SecurityCall -> Coroutine]
      /\ \A k \in SecurityCall : secureCalls[k] # NoStage => secureCalls'[k] = secureCalls[k]
  BY <1>0, <1>4, StartsKeep DEF Turns
<1>6. m.kind = "snapshot" /\ ~Resets(m)
  BY <1>1 DEF SnapshotMessage, Resets
<1>7. shown'.session = SessionAfter(m, shown.session)
  BY <1>4, <1>6 DEF Turns, SessionAfter
<1>8. UNCHANGED <<held, heldMade, keys, failures, gaveUp>>
  BY <1>1 DEF heldVars, secureHistory
<1>9. PICK W :
        /\ Sessions(W)' /\ SessionRight(W)'
        /\ \A i \in 1..Len(secureWire') : MessageRight(W, i)'
        /\ Cleared(V, 1) => Cleared(W, 0)'
        /\ Cleared(V, 0) => Cleared(W, 0)' \/ Clears(m, V[0])
        /\ MutatedAfter(1) => MutatedAfter(0)'
        /\ MutatedAfter(0) => MutatedAfter(0)' \/ Mutates(m)
        /\ FingerChangedAfter(1) => FingerChangedAfter(0)'
        /\ FingerChangedAfter(0) => FingerChangedAfter(0)' \/ ChangesFinger(m)
  BY <1>0, <1>1, <1>5, <1>6, <1>7, <1>8, TakeRight
<1>10. CASE m.session # shown.session
  <2>1. s = EmptySecurity
    BY <1>4, <1>10
  <2>2. StoresRight(W, s)'
    BY <2>1, EmptyRight DEF EmptySecurity
  <2>3. StoresRight(W, secure)'
    BY <1>4, <2>2, FollowsRight DEF Turns
  <2>. QED  BY <1>9, <2>3 DEF AllRight
<1>11. CASE m.session = shown.session
  <2>1. s = secure
    BY <1>4, <1>11
  <2>2. ~Clears(m, V[0]) /\ ~Mutates(m) /\ ~ChangesFinger(m)
    BY <1>6, <1>11 DEF AllRight, Sessions, Clears, Mutates, ChangesFinger
  <2>3. /\ Cleared(V, 0) => Cleared(W, 0)'
        /\ MutatedAfter(0) => MutatedAfter(0)'
        /\ FingerChangedAfter(0) => FingerChangedAfter(0)'
    BY <1>9, <2>2
  <2>4. Pending("status") => Pending("status")'
    BY <1>0, <1>5, StaysPending
  <2>5. Refreshing(s) => Refreshing(s)'
    <3>1. ASSUME NEW k \in SecurityCall, secureCalls[k].stage \in {"status", "sensor", "sources"}
          PROVE  secureCalls'[k] = secureCalls[k]
      BY <1>5, <3>1 DEF NoStage
    <3>. QED  BY <3>1 DEF Refreshing
  <2>6. /\ IsStatus(s.status.report) => IsStatus(s.status.report)'
        /\ TellsSensor(s.status.report) => TellsSensor(s.status.report)'
        /\ Senses => Senses'
        /\ IsFinger(s.enrollments.report) => IsFinger(s.enrollments.report)'
    BY <1>8 DEF IsStatus, IsFinger, TellsSensor, Senses, StatusOf
  <2>7. StoresRight(V, s) /\ failures' = failures
    BY <1>8, <2>1 DEF AllRight
  <2>8. StoresRight(W, s)'
    BY <2>3, <2>4, <2>5, <2>6, <2>7 DEF StoresRight
  <2>9. StoresRight(W, secure)'
    BY <1>4, <2>8, FollowsRight DEF Turns
  <2>. QED  BY <1>9, <2>9 DEF AllRight
<1>. QED  BY <1>10, <1>11

\* An answer that does not clear the stores is right as it is published, and what it
\* disturbs is read again.
LEMMA AnswerRight ==
  ASSUME ScreenInv, AnswerArrives, NEW V, AllRight(V)
  PROVE  \E W : AllRight(W)'
<1>0. SecurityTypeOK /\ AnswersServed
  BY DEF ScreenInv
<1>1. PICK a : a = secureWire[1]
  OBVIOUS
<1>2. /\ a \in Answer /\ NextOnWire("answer") /\ UNCHANGED <<heldVars, secureHistory>>
      /\ CallOf(a) \in Coroutine /\ CallOf(a) # NoStage
      /\ CallOf(a).stage = "status" /\ a.ok => a.value \in ConfigStatus
      /\ shown' \in Shown /\ shown'.session = SessionAfter(a, shown.session)
  BY <1>0, <1>1, AnswerReturns
<1>3. PICK next :
        /\ next \in [stores : Stores, call : Coroutine]
        /\ next.call # NoStage => next.call.served = FALSE
        /\ secure' = next.stores
        /\ secureCalls' = [secureCalls EXCEPT ![a.call] = next.call]
        /\ IF Resets(a) THEN next.stores = EmptySecurity /\ next.call.stage = "reconnect"
           ELSE \E t, u : Returned(a, t, u, next)
  BY <1>0, <1>1, AnswerReturns
<1>4. PICK call \in Coroutine : call = CallOf(a) /\ call # NoStage
  BY <1>2
<1>5. a.call \in SecurityCall /\ a.kind = "answer" /\ a.ok \in BOOLEAN /\ a.closed \in BOOLEAN
  BY <1>2 DEF Answer
<1>6. /\ secureCalls' \in [SecurityCall -> Coroutine]
      /\ \A k \in SecurityCall : k # a.call => secureCalls'[k] = secureCalls[k]
      /\ secureCalls'[a.call] = next.call /\ secureCalls[a.call] = call
  BY <1>0, <1>3, <1>4, <1>5 DEF SecurityTypeOK, CallOf
<1>7. UNCHANGED <<held, heldMade, keys, failures, gaveUp>>
  BY <1>2 DEF heldVars, secureHistory
<1>8. Len(secureWire) \in Nat /\ Len(secureWire) >= 1 /\ 1 \in 1..Len(secureWire)
  BY <1>0, <1>2, Taken
<1>9. Resets(a) \/ (call.stage = "reconnect" /\ ~call.served) => Rediscovers'
  <2>1. call.served
    BY <1>0, <1>1, <1>4, <1>5, <1>8 DEF AnswersServed
  <2>2. Resets(a) => next.call.stage = "reconnect" /\ ~next.call.served
    BY <1>3 DEF NoStage
  <2>. QED  BY <1>5, <1>6, <2>1, <2>2 DEF Rediscovers
<1>10. PICK W :
         /\ Sessions(W)' /\ SessionRight(W)'
         /\ \A i \in 1..Len(secureWire') : MessageRight(W, i)'
         /\ Cleared(V, 1) => Cleared(W, 0)'
         /\ Cleared(V, 0) => Cleared(W, 0)' \/ Clears(a, V[0])
         /\ MutatedAfter(1) => MutatedAfter(0)'
         /\ MutatedAfter(0) => MutatedAfter(0)' \/ Mutates(a)
         /\ FingerChangedAfter(1) => FingerChangedAfter(0)'
         /\ FingerChangedAfter(0) => FingerChangedAfter(0)' \/ ChangesFinger(a)
  BY <1>0, <1>1, <1>2, <1>4, <1>5, <1>6, <1>7, <1>9, TakeRight
<1>11. CASE Resets(a)
  <2>1. secure' = EmptySecurity
    BY <1>3, <1>11
  <2>2. StoresRight(W, secure)'
    BY <2>1 DEF StoresRight, EmptySecurity, EmptyResource
  <2>. QED  BY <1>10, <2>2 DEF AllRight
<1>12. CASE ~Resets(a) /\ a.closed
  <2>1. PICK t, u : Returned(a, t, u, next)
    BY <1>3, <1>12
  <2>2. u \in Stores /\ Follows(next, u) /\ u.status = EmptyResource
        /\ u.sensor = EmptyResource /\ u.enrollments = EmptyResource
    BY <1>12, <2>1 DEF Returned, EmptySecurity
  <2>3. StoresRight(W, u)'
    BY <2>2, EmptyRight
  <2>4. StoresRight(W, secure)'
    BY <1>3, <2>2, <2>3, FollowsRight
  <2>. QED  BY <1>10, <2>4 DEF AllRight
<1>13. CASE ~Resets(a) /\ ~a.closed
  <2>1. PICK t, u : Returned(a, t, u, next)
    BY <1>3, <1>13
  <2>2. /\ t \in Stores /\ Follows(next, u) /\ secure' = next.stores
        /\ u.status = t.status /\ u.sensor = t.sensor /\ u.enrollments = t.enrollments
        /\ t = Published(secure, call, a)
    BY <1>3, <1>4, <1>13, <2>1 DEF Returned
  <2>3. /\ IF call.stage = "status" THEN t.status = LoadEnded(secure.status, a)
           ELSE t.status = secure.status
        /\ IF call.stage = "sensor" THEN t.sensor = LoadEnded(secure.sensor, a)
           ELSE t.sensor = secure.sensor
        /\ IF call.stage = "enrollments" THEN t.enrollments = LoadEnded(secure.enrollments, a)
           ELSE t.enrollments = secure.enrollments
    <3>1. secure \in Stores
      BY <1>0 DEF SecurityTypeOK
    <3>2. call.stage = "status" /\ a.ok => a.value \in ConfigStatus
      BY <1>2, <1>4
    <3>. QED  BY <1>2, <2>2, <3>1, <3>2, Publishes
  <2>4. \A r \in Resource : /\ a.ok => /\ LoadEnded(r, a).phase = "ready"
                                       /\ LoadEnded(r, a).report = a.value
                            /\ ~a.ok => /\ LoadEnded(r, a).phase = "error"
                                        /\ LoadEnded(r, a).report = r.report
    BY DEF LoadEnded, Resource
  <2>5. secure.status \in Resource /\ secure.sensor \in Resource /\ secure.enrollments \in Resource
    BY <1>0, Begins DEF SecurityTypeOK, Stores
  <2>6. /\ secure'.status.phase = "ready" => secure'.status = t.status
        /\ secure'.status.report = t.status.report
        /\ secure'.sensor.phase = "ready" => secure'.sensor = t.sensor
        /\ secure'.enrollments.phase = "ready" => secure'.enrollments = t.enrollments
    BY <2>2 DEF Follows, Begun, IsLoading, EmptyResource
  <2>7. /\ MessageRight(V, 1) /\ StoresRight(V, secure) /\ V[0] = shown.session
        /\ shown'.session = shown.session
    <3>1. shown'.session = shown.session
      BY <1>2, <1>5, <1>13 DEF SessionAfter
    <3>. QED  BY <1>8, <3>1 DEF AllRight, Sessions
  <2>8. /\ Cleared(V, 0) => Cleared(W, 0)'
        /\ Cleared(V, 1) => Cleared(W, 0)'
    BY <1>5, <1>10, <1>13 DEF Clears
  <2>9. /\ \A v : IsStatus(v) => held.id # 0 /\ v = StatusOf(held.key)
        /\ StatusOf(held.key)' = StatusOf(held.key)
    BY <1>7 DEF IsStatus, StatusOf
  <2>10. Mutates(a) => Cleared(W, 0)' \/ (shown.session.attached /\ next.call.stage = "status"
                                           /\ (ChangesFinger(a) => next.call.then = "enrollments"))
    <3>1. ASSUME Mutates(a), shown.session.attached
          PROVE  /\ next.call.stage = "status"
                 /\ ChangesFinger(a) => next.call.then = "enrollments"
      <4>1. call.stage \in {"pin", "execute"} /\ a.ok
        BY <1>4, <3>1 DEF Mutates
      <4>2. PICK w \in Shown : w.session = shown.session /\ next = GoesOn(t, call, a, w)
        BY <1>2, <1>4, <2>1, <2>7 DEF Returned
      <4>3. w.session.attached /\ w.session.attached \in BOOLEAN
        BY <3>1, <4>2 DEF Shown, Session
      <4>4. /\ next.call.stage = "status"
            /\ call.stage = "execute" => next.call.then = RefreshAfter(call.base.kind)
        <5>1. w.session.attached = TRUE /\ t \in Stores
          BY <2>2, <4>3
        <5>2. CASE call.stage = "pin"
          <6>1. PICK nx : nx = LoadStatus(t, "sources", TRUE)
            OBVIOUS
          <6>2. nx.call.stage = "status"
            BY <5>1, <6>1, LoadStatusFollows DEF Then
          <6>3. next = nx
            BY <4>1, <4>2, <5>1, <5>2, <6>1 DEF GoesOn
          <6>. QED  BY <5>2, <6>2, <6>3
        <5>3. CASE call.stage = "execute"
          <6>1. PICK then \in Then : then = RefreshAfter(call.base.kind)
            BY DEF RefreshAfter, Then
          <6>2. PICK f \in Stores : f = Finished(t)
            BY <5>1 DEF Finished, Stores
          <6>3. PICK nx : nx = LoadStatus(f, then, TRUE)
            OBVIOUS
          <6>4. nx.call.stage = "status" /\ nx.call.then = then
            BY <6>3, LoadStatusFollows
          <6>5. next = nx
            BY <4>1, <4>2, <5>1, <5>3, <6>1, <6>2, <6>3 DEF GoesOn
          <6>. QED  BY <5>3, <6>1, <6>4, <6>5
        <5>. QED  BY <4>1, <5>2, <5>3
      <4>5. ChangesFinger(a) => call.stage = "execute" /\ RefreshAfter(call.base.kind) = "enrollments"
        BY <1>4 DEF ChangesFinger, RefreshAfter, BioKind
      <4>. QED  BY <4>4, <4>5
    <3>2. Mutates(a) => V[0].attached \/ Cleared(V, 1)
      BY <1>1, <2>7 DEF MessageRight
    <3>. QED  BY <2>7, <2>8, <3>1, <3>2
  <2>11. \A stage : next.call.stage = stage => Pending(stage)'
    BY <1>5, <1>6 DEF Pending
  <2>12. ASSUME secure'.status.phase = "ready"
         PROVE  IsStatus(secure.status.report)' \/ Cleared(W, 0)' \/ MutatedAfter(0)' \/ Pending("status")'
    <3>1. PICK v : v = secure'.status.report
      OBVIOUS
    <3>2. CASE call.stage = "status"
      <4>1. a.ok /\ v = a.value
        BY <2>3, <2>4, <2>5, <2>6, <2>12, <3>1, <3>2
      <4>2. Loads(a, "status")
        BY <1>4, <1>5, <1>13, <3>2, <4>1 DEF Loads
      <4>3. IsStatus(v) \/ Cleared(V, 1) \/ MutatedAfter(1)
        BY <1>1, <2>7, <4>1, <4>2 DEF MessageRight
      <4>4. IsStatus(v) => IsStatus(secure.status.report)'
        BY <1>7, <3>1 DEF IsStatus, StatusOf
      <4>. QED  BY <1>10, <2>8, <4>3, <4>4
    <3>3. CASE call.stage # "status"
      <4>1. secure.status.phase = "ready" /\ v = secure.status.report
        BY <2>3, <2>6, <2>12, <3>1, <3>3
      <4>2. IsStatus(v) \/ Cleared(V, 0) \/ MutatedAfter(0) \/ Pending("status")
        BY <2>7, <4>1 DEF StoresRight
      <4>3. IsStatus(v) => IsStatus(secure.status.report)'
        BY <1>7, <3>1 DEF IsStatus, StatusOf
      <4>4. Pending("status") => Pending("status")'
        BY <1>5, <1>6, <3>3 DEF Pending
      <4>. QED  BY <1>10, <2>8, <2>10, <2>11, <4>2, <4>3, <4>4
    <3>. QED  BY <3>2, <3>3
  <2>13. ASSUME secure'.status.report # NoReport
         PROVE  TellsSensor(secure.status.report)' \/ Cleared(W, 0)'
    <3>1. PICK v : v = secure'.status.report /\ v = t.status.report
      BY <2>6
    <3>2. TellsSensor(v) => TellsSensor(secure.status.report)'
      BY <1>7, <3>1 DEF TellsSensor
    <3>3. CASE call.stage = "status" /\ a.ok
      <4>1. v = a.value
        BY <2>3, <2>4, <2>5, <3>1, <3>3
      <4>2. Loads(a, "status")
        BY <1>4, <1>5, <1>13, <3>3 DEF Loads
      <4>3. TellsSensor(v) \/ Cleared(V, 1)
        BY <1>1, <2>7, <4>1, <4>2 DEF MessageRight
      <4>. QED  BY <2>8, <3>2, <4>3
    <3>4. CASE ~(call.stage = "status" /\ a.ok)
      <4>1. v = secure.status.report
        BY <1>5, <2>3, <2>4, <2>5, <3>1, <3>4
      <4>2. TellsSensor(v) \/ Cleared(V, 0)
        BY <2>7, <2>13, <3>1, <4>1 DEF StoresRight
      <4>. QED  BY <2>8, <3>2, <4>2
    <3>. QED  BY <3>3, <3>4
  <2>14. Senses => Senses'
    BY <1>7 DEF Senses
  <2>15. ASSUME secure'.sensor.phase = "ready"
         PROVE  Senses' \/ Cleared(W, 0)'
    <3>1. CASE call.stage = "sensor"
      <4>1. a.ok
        BY <1>5, <2>3, <2>4, <2>5, <2>6, <2>15, <3>1
      <4>2. Loads(a, "sensor")
        BY <1>4, <1>5, <1>13, <3>1, <4>1 DEF Loads
      <4>3. Senses \/ Cleared(V, 1)
        BY <1>1, <2>7, <4>2 DEF MessageRight
      <4>. QED  BY <2>8, <2>14, <4>3
    <3>2. CASE call.stage # "sensor"
      <4>1. secure.sensor.phase = "ready"
        BY <2>3, <2>6, <2>15, <3>2
      <4>. QED  BY <2>7, <2>8, <2>14, <4>1 DEF StoresRight
    <3>. QED  BY <3>1, <3>2
  <2>16. ASSUME secure'.enrollments.phase = "ready"
         PROVE  Senses' \/ Cleared(W, 0)'
    <3>1. CASE call.stage = "enrollments"
      <4>1. a.ok
        BY <1>5, <2>3, <2>4, <2>5, <2>6, <2>16, <3>1
      <4>2. Loads(a, "enrollments")
        BY <1>4, <1>5, <1>13, <3>1, <4>1 DEF Loads
      <4>3. Senses \/ Cleared(V, 1)
        BY <1>1, <2>7, <4>2 DEF MessageRight
      <4>. QED  BY <2>8, <2>14, <4>3
    <3>2. CASE call.stage # "enrollments"
      <4>1. secure.enrollments.phase = "ready"
        BY <2>3, <2>6, <2>16, <3>2
      <4>. QED  BY <2>7, <2>8, <2>14, <4>1 DEF StoresRight
    <3>. QED  BY <3>1, <3>2
  <2>17. ASSUME failures' = 0, secure'.enrollments.phase = "ready"
         PROVE  \/ IsFinger(secure.enrollments.report)' \/ Cleared(W, 0)'
                \/ FingerChangedAfter(0)' \/ Refreshing(secure)'
    <3>1. PICK v : v = secure'.enrollments.report /\ secure'.enrollments = t.enrollments
      BY <2>6, <2>17
    <3>2. IsFinger(v) => IsFinger(secure.enrollments.report)'
      BY <1>7, <3>1 DEF IsFinger
    <3>3. CASE call.stage = "enrollments"
      <4>1. a.ok /\ v = a.value
        BY <1>5, <2>3, <2>4, <2>5, <2>17, <3>1, <3>3
      <4>2. Loads(a, "enrollments")
        BY <1>4, <1>5, <1>13, <3>3, <4>1 DEF Loads
      <4>3. IsFinger(v) \/ Cleared(V, 1) \/ FingerChangedAfter(1)
        BY <1>1, <2>7, <4>1, <4>2 DEF MessageRight
      <4>. QED  BY <1>10, <2>8, <3>2, <4>3
    <3>4. CASE call.stage # "enrollments"
      <4>1. secure.enrollments.phase = "ready" /\ v = secure.enrollments.report /\ failures = 0
        BY <1>7, <2>3, <2>17, <3>1, <3>4
      <4>2. IsFinger(v) \/ Cleared(V, 0) \/ FingerChangedAfter(0) \/ Refreshing(secure)
        BY <2>7, <4>1 DEF StoresRight
      <4>3. ASSUME ChangesFinger(a)
            PROVE  Cleared(W, 0)' \/ Refreshing(secure)'
        <5>1. Mutates(a)
          BY <4>3 DEF ChangesFinger, Mutates
        <5>2. next.call.stage = "status" /\ next.call.then = "enrollments" => Refreshing(secure)'
          BY <1>5, <1>6 DEF Refreshing
        <5>. QED  BY <2>10, <4>3, <5>1, <5>2
      <4>4. ASSUME Refreshing(secure)
            PROVE  Cleared(W, 0)' \/ Refreshing(secure)'
        <5>1. PICK k \in SecurityCall :
                /\ secureCalls[k].stage \in {"status", "sensor", "sources"}
                /\ secureCalls[k].then = "enrollments"
                /\ secureCalls[k].stage # "status" => secure.status.report # NoReport
          BY <4>4 DEF Refreshing
        <5>2. call.stage = "status" => a.ok
          BY <1>1, <1>4, <1>5, <1>13, <2>7, <4>1 DEF MessageRight
        <5>3. call.stage = "status" \/ secure.status.report # NoReport => t.status.report # NoReport
          <6>1. CASE call.stage = "status"
            <7>1. t.status.report = a.value /\ a.value \in ConfigStatus
              BY <1>2, <1>4, <2>3, <2>4, <2>5, <5>2, <6>1
            <7>. QED  BY <7>1, SecurityAssumption
          <6>2. CASE call.stage # "status"
            BY <2>3, <6>2
          <6>. QED  BY <6>1, <6>2
        <5>4. CASE k # a.call
          <6>1. secureCalls'[k] = secureCalls[k]
            BY <1>6, <5>4
          <6>. QED  BY <2>6, <5>1, <5>3, <6>1 DEF Refreshing
        <5>5. CASE k = a.call
          <6>1. /\ call.stage \in {"status", "sensor", "sources"} /\ call.then = "enrollments"
                /\ t.status.report # NoReport
            BY <1>6, <5>1, <5>3, <5>5
          <6>2. PICK w \in Shown : w.session = shown.session /\ next = GoesOn(t, call, a, w)
            BY <1>2, <1>4, <2>1, <2>7 DEF Returned
          <6>3. w.session.attached \in BOOLEAN
            BY DEF Shown, Session
          <6>4. Chained(next) \/ (BioSupported(t) => next.stores.enrollments.phase # "ready")
            BY <1>5, <2>2, <6>1, <6>2, <6>3, GoesOnFollows
          <6>5. Chained(next) => Refreshing(secure)'
            BY <1>5, <1>6, <2>2 DEF Chained, Refreshing
          <6>6. ASSUME ~BioSupported(t)
                PROVE  Cleared(W, 0)'
            <7>1. PICK r : r = secure'.status.report /\ r = t.status.report
              BY <2>6
            <7>2. TellsSensor(secure.status.report)' => held'.id # 0 /\ r.bio = (held'.key \in Sensing)
              BY <7>1 DEF TellsSensor
            <7>3. Senses' => held'.key \in Sensing
              BY DEF Senses
            <7>4. ~r.bio /\ r # NoReport
              BY <6>1, <6>6, <7>1 DEF BioSupported
            <7>. QED  BY <2>13, <2>16, <2>17, <7>1, <7>2, <7>3, <7>4
          <6>. QED  BY <2>2, <2>17, <6>4, <6>5, <6>6
        <5>. QED  BY <5>4, <5>5
      <4>. QED  BY <1>10, <2>8, <3>2, <4>2, <4>3, <4>4
    <3>. QED  BY <3>3, <3>4
  <2>18. StoresRight(W, secure)'
    BY <2>12, <2>13, <2>15, <2>16, <2>17 DEF StoresRight
  <2>. QED  BY <1>10, <2>18 DEF AllRight
<1>. QED  BY <1>11, <1>12, <1>13

\* W goes on where V ends.
Extends(W, V) ==
  /\ Sessions(W)'
  /\ \A i \in 0..Len(secureWire) : W[i] = V[i]

\* The messages before are what they were.
LEMMA SentBefore ==
  ASSUME SecurityTypeOK, AnswersServed, NEW m, Sends(m), CallsWhenSent(m)
  PROVE  \A i \in 1..Len(secureWire) : \A o : o = secureWire[i] =>
           /\ o = secureWire'[i]
           /\ Resets(o)' = Resets(o) /\ Mutates(o)' = Mutates(o)
           /\ ChangesFinger(o)' = ChangesFinger(o)
           /\ \A stage : Loads(o, stage)' = Loads(o, stage)
           /\ \A known : Clears(o, known)' = Clears(o, known)
           /\ \A known : SessionAfter(o, known)' = SessionAfter(o, known)
           /\ o.kind = "answer" => CallOf(o)' = CallOf(o)
<1>1. ASSUME NEW i \in 1..Len(secureWire), NEW o, o = secureWire[i]
      PROVE  o = secureWire'[i] /\ (o.kind = "answer" => secureCalls'[o.call] = secureCalls[o.call])
  BY <1>1, OlderAnswers
<1>2. ASSUME NEW o, o.kind = "answer" => secureCalls'[o.call] = secureCalls[o.call]
      PROVE  /\ Resets(o)' = Resets(o) /\ Mutates(o)' = Mutates(o)
             /\ ChangesFinger(o)' = ChangesFinger(o)
             /\ \A stage : Loads(o, stage)' = Loads(o, stage)
             /\ o.kind = "answer" => CallOf(o)' = CallOf(o)
  BY <1>2 DEF Resets, Mutates, ChangesFinger, Loads, CallOf
<1>3. ASSUME NEW o, Resets(o)' = Resets(o)
      PROVE  /\ \A known : Clears(o, known)' = Clears(o, known)
             /\ \A known : SessionAfter(o, known)' = SessionAfter(o, known)
  BY <1>3 DEF Clears, SessionAfter
<1>. QED  BY <1>1, <1>2, <1>3

\* One message more: the session that it leaves follows the others.
LEMMA ExtendOne ==
  ASSUME SecurityTypeOK, AnswersServed, NEW m, Sends(m), CallsWhenSent(m),
         UNCHANGED shown, NEW V, Sessions(V),
         NEW n \in Nat, n = Len(secureWire), n + 1 = Len(secureWire')
  PROVE  \E W : Extends(W, V) /\ W[n + 1] = SessionAfter(m, V[n])'
<1>1. n \in Nat /\ n = Len(secureWire) /\ n + 1 = Len(secureWire')
  OBVIOUS
<1>2. /\ V \in [0..n -> Session] /\ V[0] = shown.session
      /\ \A i \in 1..n : V[i] = SessionAfter(secureWire[i], V[i - 1])
  BY <1>1 DEF Sessions
<1>3. PICK last : last = V[n] /\ last \in Session
  BY <1>1, <1>2
<1>4. PICK new : new = SessionAfter(m, last)'
  OBVIOUS
<1>5. new \in Session
  <2>1. m \in SnapshotMessage \cup Answer
    BY DEF Sends
  <2>2. m.kind = "snapshot" => m.session \in Session
    BY <2>1 DEF SnapshotMessage, Answer
  <2>. QED  BY <1>3, <1>4, <2>2 DEF SessionAfter, Session, Unselected
<1>6. PICK W : W = [i \in 0..n + 1 |-> IF i = n + 1 THEN new ELSE V[i]]
  OBVIOUS
<1>7. /\ W \in [0..n + 1 -> Session] /\ W[n + 1] = new /\ W[0] = V[0]
      /\ \A i \in 0..n : W[i] = V[i]
  BY <1>1, <1>2, <1>5, <1>6
<1>8. ASSUME NEW i \in 1..n + 1
      PROVE  W[i] = SessionAfter(secureWire[i], W[i - 1])'
  <2>1. CASE i \in 1..n
    <3>1. PICK o : o = secureWire[i] /\ o = secureWire'[i]
      BY <1>1, <2>1 DEF Sends
    <3>2. \A known : SessionAfter(o, known)' = SessionAfter(o, known)
      BY <1>1, <2>1, <3>1, SentBefore
    <3>3. i - 1 \in 0..n
      BY <1>1, <2>1
    <3>4. W[i - 1] = V[i - 1] /\ W[i] = V[i]
      <4>1. i \in 0..n
        BY <1>1, <2>1
      <4>. QED  BY <1>7, <3>3, <4>1
    <3>5. PICK known : known = V[i - 1]
      OBVIOUS
    <3>6. SessionAfter(o, known)' = SessionAfter(o, known)
      BY <3>2
    <3>7. V[i] = SessionAfter(o, known)
      BY <1>2, <2>1, <3>1, <3>5
    <3>. QED  BY <3>1, <3>4, <3>5, <3>6, <3>7
  <2>2. CASE i = n + 1
    <3>1. secureWire'[i] = m
      BY <1>1, <2>2 DEF Sends
    <3>2. i - 1 = n /\ W[n] = last
      BY <1>1, <1>3, <1>7, <2>2
    <3>. QED  BY <1>4, <1>7, <2>2, <3>1, <3>2
  <2>. QED  BY <1>1, <2>1, <2>2
<1>9. Extends(W, V)
  BY <1>1, <1>2, <1>7, <1>8 DEF Extends, Sessions
<1>10. SessionAfter(m, last)' = SessionAfter(m, V[n])'
  BY <1>3
<1>. QED  BY <1>4, <1>7, <1>9, <1>10

\* An answer without effect on the session, after a snapshot.
LEMMA ExtendTwo ==
  ASSUME SecurityTypeOK, AnswersServed, NEW m, Sends(m), CallsWhenSent(m),
         UNCHANGED shown, NEW V, Sessions(V),
         NEW n \in Nat, n = Len(secureWire), n + 2 = Len(secureWire'),
         NEW new, new \in Session,
         secureWire'[n + 1].kind = "snapshot", secureWire'[n + 1].session = new,
         m.kind = "answer", ~m.closed, ~Resets(m)'
  PROVE  \E W : Extends(W, V) /\ W[n + 1] = new /\ W[n + 2] = new
<1>1. n \in Nat /\ n = Len(secureWire) /\ n + 2 = Len(secureWire')
  OBVIOUS
<1>2. /\ V \in [0..n -> Session] /\ V[0] = shown.session
      /\ \A i \in 1..n : V[i] = SessionAfter(secureWire[i], V[i - 1])
  BY <1>1 DEF Sessions
<1>3. PICK W : W = [i \in 0..n + 2 |-> IF i > n THEN new ELSE V[i]]
  OBVIOUS
<1>4. /\ W \in [0..n + 2 -> Session] /\ W[n + 1] = new /\ W[n + 2] = new /\ W[0] = V[0]
      /\ \A i \in 0..n : W[i] = V[i]
  BY <1>1, <1>2, <1>3
<1>5. ASSUME NEW i \in 1..n + 2
      PROVE  W[i] = SessionAfter(secureWire[i], W[i - 1])'
  <2>1. CASE i \in 1..n
    <3>1. PICK o : o = secureWire[i] /\ o = secureWire'[i]
      BY <1>1, <2>1 DEF Sends
    <3>2. \A known : SessionAfter(o, known)' = SessionAfter(o, known)
      BY <1>1, <2>1, <3>1, SentBefore
    <3>3. i - 1 \in 0..n
      BY <1>1, <2>1
    <3>4. W[i - 1] = V[i - 1] /\ W[i] = V[i]
      <4>1. i \in 0..n
        BY <1>1, <2>1
      <4>. QED  BY <1>4, <3>3, <4>1
    <3>5. PICK known : known = V[i - 1]
      OBVIOUS
    <3>6. SessionAfter(o, known)' = SessionAfter(o, known)
      BY <3>2
    <3>7. V[i] = SessionAfter(o, known)
      BY <1>2, <2>1, <3>1, <3>5
    <3>. QED  BY <3>1, <3>4, <3>5, <3>6, <3>7
  <2>2. CASE i = n + 1
    <3>1. SessionAfter(secureWire[i], W[i - 1])' = new
      BY <1>1, <2>2 DEF SessionAfter
    <3>. QED  BY <1>4, <2>2, <3>1
  <2>3. CASE i = n + 2
    <3>1. secureWire'[i] = m
      BY <1>1, <2>3 DEF Sends
    <3>2. SessionAfter(m, W[i - 1])' = W[i - 1]
      BY DEF SessionAfter
    <3>3. i - 1 = n + 1
      BY <1>1, <2>3
    <3>. QED  BY <1>4, <2>3, <3>1, <3>2, <3>3
  <2>. QED  BY <1>1, <2>1, <2>2, <2>3
<1>6. Extends(W, V)
  BY <1>1, <1>2, <1>4, <1>5 DEF Extends, Sessions
<1>. QED  BY <1>4, <1>6

\* What a message leaves right when it is sent: what is read before is right as long as
\* nothing changes what was read, or a message that is sent with the change tells so.
LEMMA SendRight ==
  ASSUME ScreenInv, NEW m, Sends(m), CallsWhenSent(m), UNCHANGED <<shown, secure>>,
         NEW V, NEW W, AllRight(V), Extends(W, V), SessionRight(W)',
         NEW n \in Nat, n = Len(secureWire),
         gaveUp \/ Rediscovers => Cleared(W, n)',
         held' = held \/ Cleared(W, n)',
         keys' = keys \/ Cleared(W, n)' \/ MutatedAfter(n)',
         keys'[held.key].finger = keys[held.key].finger \/ Cleared(W, n)' \/ FingerChangedAfter(n)',
         failures' = 0 => failures = 0,
         \A i \in n + 1..Len(secureWire') : MessageRight(W, i)'
  PROVE  AllRight(W)'
<1>0. SecurityTypeOK /\ AnswersServed
  BY DEF ScreenInv
<1>1. Len(secureWire') \in Nat /\ Len(secureWire') > n
  BY DEF Sends
<1>2. \A k \in SecurityCall : /\ secureCalls'[k].stage = secureCalls[k].stage
                              /\ secureCalls'[k].then = secureCalls[k].then
  BY <1>0 DEF CallsWhenSent, ServedBy, SecurityTypeOK
<1>3. Sessions(W)' /\ \A i \in 0..n : W[i] = V[i]
  BY DEF Extends
<1>4. ASSUME NEW i \in 0..n
      PROVE  /\ Cleared(W, n)' => Cleared(W, i)'
             /\ MutatedAfter(n)' => MutatedAfter(i)'
             /\ FingerChangedAfter(n)' => FingerChangedAfter(i)'
  <2>1. \A l \in n + 1..Len(secureWire') : l \in i + 1..Len(secureWire')
    BY <1>1
  <2>. QED  BY <2>1 DEF Cleared, MutatedAfter, FingerChangedAfter
<1>5. ASSUME NEW i \in 0..n
      PROVE  /\ Cleared(V, i) => Cleared(W, i)'
             /\ MutatedAfter(i) => MutatedAfter(i)'
             /\ FingerChangedAfter(i) => FingerChangedAfter(i)'
  <2>1. ASSUME NEW l \in i + 1..n
        PROVE  /\ Clears(secureWire[l], V[l - 1]) => Cleared(W, i)'
               /\ Mutates(secureWire[l]) => MutatedAfter(i)'
               /\ ChangesFinger(secureWire[l]) => FingerChangedAfter(i)'
    <3>1. l \in 1..n /\ l - 1 \in 0..n /\ l \in i + 1..Len(secureWire')
      BY <1>1
    <3>2. PICK o : o = secureWire[l]
      OBVIOUS
    <3>3. /\ o = secureWire'[l] /\ Mutates(o)' = Mutates(o) /\ ChangesFinger(o)' = ChangesFinger(o)
          /\ \A known : Clears(o, known)' = Clears(o, known)
      BY <1>0, <3>1, <3>2, SentBefore
    <3>4. PICK known : known = V[l - 1] /\ known = W[l - 1]
      BY <1>3, <3>1
    <3>5. Clears(o, known)' = Clears(o, known)
      BY <3>3
    <3>6. Clears(o, known)' => Cleared(W, i)'
      BY <3>1, <3>3, <3>4 DEF Cleared
    <3>7. /\ Mutates(o)' => MutatedAfter(i)'
          /\ ChangesFinger(o)' => FingerChangedAfter(i)'
      BY <3>1, <3>3 DEF MutatedAfter, FingerChangedAfter
    <3>. QED  BY <3>2, <3>3, <3>4, <3>5, <3>6, <3>7
  <2>2. gaveUp \/ Rediscovers => Cleared(W, i)'
    BY <1>4
  <2>. QED  BY <2>1, <2>2 DEF Cleared, MutatedAfter, FingerChangedAfter
<1>6. ASSUME NEW v, NEW i \in 0..n
      PROVE  /\ IsStatus(v) => IsStatus(v)' \/ Cleared(W, i)' \/ MutatedAfter(i)'
             /\ TellsSensor(v) => TellsSensor(v)' \/ Cleared(W, i)'
             /\ Senses => Senses' \/ Cleared(W, i)'
             /\ IsFinger(v) => IsFinger(v)' \/ Cleared(W, i)' \/ FingerChangedAfter(i)'
  <2>1. held' = held => /\ TellsSensor(v) => TellsSensor(v)'
                        /\ Senses => Senses'
    BY DEF TellsSensor, Senses
  <2>2. held' = held /\ keys' = keys => (IsStatus(v) => IsStatus(v)')
    BY DEF IsStatus, StatusOf
  <2>3. held' = held /\ keys'[held.key].finger = keys[held.key].finger => (IsFinger(v) => IsFinger(v)')
    BY DEF IsFinger
  <2>. QED  BY <1>4, <2>1, <2>2, <2>3
<1>7. ASSUME NEW i \in 1..n
      PROVE  MessageRight(W, i)'
  <2>1. MessageRight(V, i) /\ i \in 0..n /\ i - 1 \in 0..n
    BY DEF AllRight
  <2>2. PICK o : o = secureWire[i]
    OBVIOUS
  <2>3. /\ o = secureWire'[i] /\ Mutates(o)' = Mutates(o)
        /\ \A stage : Loads(o, stage)' = Loads(o, stage)
        /\ o.kind = "answer" => CallOf(o)' = CallOf(o)
    BY <1>0, <2>2, SentBefore
  <2>4. /\ Loads(o, "status")' = Loads(o, "status") /\ Loads(o, "sensor")' = Loads(o, "sensor")
        /\ Loads(o, "enrollments")' = Loads(o, "enrollments")
    BY <2>3
  <2>5. /\ Cleared(V, i) => Cleared(W, i)'
        /\ MutatedAfter(i) => MutatedAfter(i)'
        /\ FingerChangedAfter(i) => FingerChangedAfter(i)'
    BY <1>5, <2>1
  <2>6. W[i - 1] = V[i - 1]
    BY <1>3, <2>1
  <2>7. PICK v : v = o.value
    OBVIOUS
  <2>8. /\ IsStatus(v) => IsStatus(v)' \/ Cleared(W, i)' \/ MutatedAfter(i)'
        /\ TellsSensor(v) => TellsSensor(v)' \/ Cleared(W, i)'
        /\ Senses => Senses' \/ Cleared(W, i)'
        /\ IsFinger(v) => IsFinger(v)' \/ Cleared(W, i)' \/ FingerChangedAfter(i)'
    BY <1>6, <2>1
  <2>. QED  BY <2>1, <2>2, <2>3, <2>4, <2>5, <2>6, <2>7, <2>8 DEF MessageRight
<1>8. StoresRight(W, secure)'
  <2>1. StoresRight(V, secure) /\ 0 \in 0..n
    BY DEF AllRight
  <2>2. /\ Cleared(V, 0) => Cleared(W, 0)'
        /\ MutatedAfter(0) => MutatedAfter(0)'
        /\ FingerChangedAfter(0) => FingerChangedAfter(0)'
    BY <1>5, <2>1
  <2>3. PICK v, f, s : v = secure.status.report /\ f = secure.enrollments.report /\ s = secure
    OBVIOUS
  <2>4. /\ IsStatus(v) => IsStatus(v)' \/ Cleared(W, 0)' \/ MutatedAfter(0)'
        /\ TellsSensor(v) => TellsSensor(v)' \/ Cleared(W, 0)'
        /\ Senses => Senses' \/ Cleared(W, 0)'
    BY <1>6, <2>1
  <2>5. IsFinger(f) => IsFinger(f)' \/ Cleared(W, 0)' \/ FingerChangedAfter(0)'
    BY <1>6, <2>1
  <2>6. (Pending("status") => Pending("status")') /\ (Refreshing(s) => Refreshing(s)')
    BY <1>2 DEF Pending, Refreshing
  <2>7. StoresRight(W, s)'
    BY <2>1, <2>2, <2>3, <2>4, <2>5, <2>6 DEF StoresRight
  <2>8. s = secure'
    BY <2>3
  <2>. QED  BY <2>7, <2>8
<1>9. \A i \in 1..Len(secureWire') : i \in 1..n \/ i \in n + 1..Len(secureWire')
  BY <1>1
<1>. QED  BY <1>3, <1>7, <1>8, <1>9 DEF AllRight

\* A rediscovery goes on unless it is answered.
LEMMA RediscoversOn ==
  ASSUME ScreenInv, NEW m, Sends(m), CallsWhenSent(m), Rediscovers,
         m \in Answer => secureCalls[m.call].stage # "reconnect"
  PROVE  Rediscovers'
<1>0. SecurityTypeOK /\ AnswersServed
  BY DEF ScreenInv
<1>1. ASSUME NEW k \in SecurityCall, secureCalls[k].stage = "reconnect", ~secureCalls[k].served
      PROVE  Rediscovers'
  <2>1. secureCalls'[k] = secureCalls[k]
    BY <1>1 DEF CallsWhenSent, ServedBy
  <2>. QED  BY <1>1, <2>1 DEF Rediscovers
<1>2. ASSUME NEW i \in 1..Len(secureWire), Resets(secureWire[i])
      PROVE  Rediscovers'
  <2>1. PICK o : o = secureWire[i]
    OBVIOUS
  <2>2. o = secureWire'[i] /\ Resets(o)' = Resets(o)
    BY <1>0, <2>1, SentBefore
  <2>3. i \in 1..Len(secureWire')
    BY DEF Sends
  <2>. QED  BY <1>2, <2>1, <2>2, <2>3 DEF Rediscovers
<1>. QED  BY <1>1, <1>2 DEF Rediscovers

\* What is published is another session than the last on its way, and clears the stores.
LEMMA PublishRight ==
  ASSUME ScreenInv, PublishHeld, NEW V, AllRight(V)
  PROVE  \E W : AllRight(W)'
<1>0. SecurityTypeOK /\ AnswersServed /\ HeldOK
  BY DEF ScreenInv
<1>1. PICK m : /\ m = SnapshotOf(held') /\ m \in SnapshotMessage /\ Sends(m) /\ CallsWhenSent(m)
               /\ m.session = [id |-> held'.id, attached |-> held'.attached]
               /\ Len(secureWire') = Len(secureWire) + 1
               /\ UNCHANGED <<shown, secure, secureCalls, keys, changes, failures>> /\ gaveUp' = FALSE
               /\ heldMade' \in Nat /\ HeldOK'
               /\ held'.id > heldMade \/ (held.id # 0 /\ held'.id = 0)
  BY <1>0, Publishing
<1>2. m.kind = "snapshot" /\ ~(m \in Answer)
  BY <1>1 DEF SnapshotMessage, Answer
<1>3. PICK n \in Nat : n = Len(secureWire) /\ n + 1 = Len(secureWire')
  BY <1>1 DEF Sends
<1>4. Sessions(V) /\ SessionRight(V)
  BY DEF AllRight
<1>5. PICK W : Extends(W, V) /\ W[n + 1] = SessionAfter(m, V[n])'
  BY <1>0, <1>1, <1>3, <1>4, ExtendOne
<1>6. W[n + 1] = m.session
  BY <1>2, <1>5 DEF SessionAfter
<1>7. heldMade' >= heldMade /\ heldMade \in Nat
  BY <1>0 DEF PublishHeld, SecurityTypeOK
<1>8. Rediscovers => Rediscovers'
  BY <1>1, <1>2, RediscoversOn
<1>9. SessionRight(W)'
  <2>1. ASSUME NEW i \in 0..n + 1
        PROVE  W[i].id <= heldMade'
    <3>1. CASE i \in 0..n
      <4>1. W[i] = V[i] /\ V[i].id <= heldMade
        BY <1>3, <1>4, <1>5, <3>1 DEF Extends, SessionRight
      <4>2. V[i].id \in Nat
        BY <1>3, <1>4, <3>1 DEF Sessions, Session
      <4>. QED  BY <1>1, <1>7, <4>1, <4>2
    <3>2. CASE i = n + 1
      BY <1>1, <1>6, <3>2 DEF HeldOK
    <3>. QED  BY <1>3, <3>1, <3>2
  <2>. QED  BY <1>1, <1>3, <1>6, <2>1 DEF SessionRight
<1>10. Cleared(W, n)'
  <2>1. W[n] = V[n] /\ V[n].id <= heldMade /\ V[n].id \in Nat
    BY <1>3, <1>4, <1>5 DEF Extends, SessionRight, Sessions, Session
  <2>2. m.session # V[n] \/ Rediscovers
    <3>1. CASE held'.id > heldMade
      BY <1>1, <1>7, <2>1, <3>1
    <3>2. CASE held.id # 0 /\ held'.id = 0
      <4>1. V[n] = [id |-> held.id, attached |-> held.attached] \/ Rediscovers
        BY <1>0, <1>3, <1>4, <3>2 DEF SessionRight, HeldOK
      <4>. QED  BY <1>1, <3>2, <4>1
    <3>. QED  BY <1>1, <3>1, <3>2
  <2>3. PICK last : last = V[n]
    OBVIOUS
  <2>4. m.session # last => Clears(m, last)'
    BY <1>2 DEF Clears
  <2>5. secureWire'[n + 1] = m /\ n + 1 \in n + 1..Len(secureWire') /\ (n + 1) - 1 = n
    BY <1>1, <1>3 DEF Sends
  <2>6. Clears(m, last)' => Cleared(W, n)'
    BY <2>1, <2>3, <2>5 DEF Cleared
  <2>. QED  BY <1>8, <2>2, <2>3, <2>4, <2>6 DEF Cleared
<1>11. ASSUME NEW i \in n + 1..Len(secureWire')
       PROVE  MessageRight(W, i)'
  <2>1. secureWire'[i] = m
    BY <1>1, <1>3 DEF Sends
  <2>. QED  BY <1>2, <2>1 DEF MessageRight, Mutates, Loads
<1>. QED  BY <1>1, <1>3, <1>5, <1>9, <1>10, <1>11, SendRight

\* What is answered to a call is read while it is selected, and so is what it changes.
LEMMA AnswerSentRight ==
  ASSUME ScreenInv, NEW m, Answered(m), NEW V, AllRight(V)
  PROVE  \E W : AllRight(W)'
<1>0. SecurityTypeOK /\ AnswersServed /\ HeldOK
  BY DEF ScreenInv
<1>1. PICK call \in Coroutine : call = secureCalls[m.call] /\ m.call \in SecurityCall
  <2>1. m \in Answer
    BY DEF Answered
  <2>2. m.call \in SecurityCall
    BY <2>1 DEF Answer
  <2>. QED  BY <1>0, <2>2 DEF SecurityTypeOK
<1>2. /\ m \in Answer /\ m.kind = "answer" /\ Sends(m) /\ CallsWhenSent(m) /\ call.stage # "reconnect"
      /\ m.ok \in BOOLEAN /\ m.closed \in BOOLEAN
      /\ UNCHANGED <<shown, secure, heldMade, changes, gaveUp>>
      /\ ~m.closed => held' = held
      /\ held'.attached = held.attached /\ held'.id = IF m.closed THEN 0 ELSE held.id
      /\ m.ok /\ call.stage \in {"status", "sensor", "enrollments", "execute", "pin"} => held.id # 0
      /\ m.ok /\ call.stage = "status" => m.value = StatusOf(held.key)
      /\ m.ok /\ call.stage = "enrollments" => m.value = keys[held.key].finger
      /\ m.ok /\ call.stage \in {"sensor", "enrollments"} => held.key \in Sensing
      /\ failures' = 0 => failures = 0 /\ (call.stage = "status" => m.ok \/ m.closed)
  <2>1. /\ m \in Answer /\ Sends(m) /\ CallsWhenSent(m) /\ call.stage # "reconnect"
        /\ UNCHANGED <<shown, secure, heldMade, changes, gaveUp>>
        /\ m.ok /\ call.stage \in {"status", "sensor", "enrollments", "execute", "pin"} => held.id # 0
        /\ m.ok /\ call.stage = "status" => m.value = StatusOf(held.key)
        /\ m.ok /\ call.stage = "enrollments" => m.value = keys[held.key].finger
        /\ m.ok /\ call.stage \in {"sensor", "enrollments"} => held.key \in Sensing
        /\ failures' = 0 => failures = 0 /\ (call.stage = "status" => m.ok \/ m.closed)
    BY <1>1 DEF Answered
  <2>2. /\ held'.attached = held.attached
        /\ IF m.closed THEN held'.id = 0 ELSE held' = held
    BY <1>0, AnsweredHeld
  <2>3. m.kind = "answer" /\ m.ok \in BOOLEAN /\ m.closed \in BOOLEAN
    BY <2>1 DEF Answer
  <2>. QED  BY <2>1, <2>2, <2>3
<1>3. CallOf(m)'.stage = call.stage /\ CallOf(m)'.base = call.base
  <2>1. ServedBy(m.call)
    BY <1>2 DEF CallsWhenSent, SnapshotMessage
  <2>. QED  BY <1>1, <2>1 DEF ServedBy, CallOf
<1>4. PICK n \in Nat : n = Len(secureWire) /\ n + 1 = Len(secureWire')
  BY <1>2 DEF Sends, Answered
<1>5. secureWire'[n + 1] = m /\ n + 1 \in 1..Len(secureWire') /\ n + 1 \in n + 1..Len(secureWire')
      /\ (n + 1) - 1 = n
  BY <1>2, <1>4 DEF Sends
<1>6. Sessions(V) /\ SessionRight(V)
  BY DEF AllRight
<1>7. PICK W : Extends(W, V) /\ W[n + 1] = SessionAfter(m, V[n])'
  BY <1>0, <1>2, <1>4, <1>6, ExtendOne
<1>8. PICK last \in Session : last = V[n] /\ last = W[n] /\ last.id <= heldMade
  <2>1. W[n] = V[n] /\ V[n].id <= heldMade
    BY <1>4, <1>6, <1>7 DEF Extends, SessionRight
  <2>2. V[n] \in Session
    BY <1>4, <1>6 DEF Sessions
  <2>. QED  BY <2>1, <2>2
<1>9. Rediscovers => Rediscovers'
  BY <1>1, <1>2, RediscoversOn
<1>10. Resets(m)' => Rediscovers'
  BY <1>5 DEF Rediscovers
<1>11. m.closed \/ Resets(m)' => Cleared(W, n)'
  <2>1. m.closed \/ Resets(m)' => Clears(m, last)'
    BY <1>2 DEF Clears
  <2>2. Clears(m, last)' => Cleared(W, n)'
    BY <1>5, <1>8 DEF Cleared
  <2>. QED  BY <2>1, <2>2
<1>12. Mutates(m)' => MutatedAfter(n)'
  BY <1>5 DEF MutatedAfter
<1>13. ChangesFinger(m)' => FingerChangedAfter(n)'
  BY <1>5 DEF FingerChangedAfter
<1>14. SessionRight(W)'
  <2>1. PICK after : after = W[n + 1] /\ after = SessionAfter(m, last)'
    BY <1>7, <1>8
  <2>2. /\ Resets(m)' => after = Unselected
        /\ ~Resets(m)' => after = IF m.closed THEN [last EXCEPT !.id = 0] ELSE last
    BY <1>2, <2>1 DEF SessionAfter
  <2>3. after.id <= heldMade
    <3>1. heldMade \in Nat
      BY <1>0 DEF SecurityTypeOK
    <3>2. CASE Resets(m)'
      BY <2>2, <3>1, <3>2 DEF Unselected
    <3>3. CASE ~Resets(m)'
      BY <1>8, <2>2, <3>1, <3>3 DEF Session
    <3>. QED  BY <3>2, <3>3
  <2>4. ASSUME NEW i \in 0..n + 1
        PROVE  W[i].id <= heldMade'
    <3>1. CASE i \in 0..n
      BY <1>2, <1>4, <1>6, <1>7, <3>1 DEF Extends, SessionRight
    <3>2. CASE i = n + 1
      BY <1>2, <2>1, <2>3, <3>2
    <3>. QED  BY <3>1, <3>2
  <2>5. last = [id |-> held.id, attached |-> held.attached] \/ gaveUp \/ Rediscovers
    BY <1>4, <1>6, <1>8 DEF SessionRight
  <2>6. last = [id |-> held.id, attached |-> held.attached] /\ ~Resets(m)' =>
          after = [id |-> held'.id, attached |-> held'.attached]
    BY <1>2, <2>2
  <2>. QED  BY <1>2, <1>4, <1>9, <1>10, <2>1, <2>4, <2>5, <2>6 DEF SessionRight
<1>15. gaveUp \/ Rediscovers => Cleared(W, n)'
  BY <1>2, <1>9 DEF Cleared
<1>16. held' = held \/ Cleared(W, n)'
  BY <1>2, <1>11
<1>17. m.ok /\ call.stage \in {"execute", "pin"} => Mutates(m)'
  BY <1>2, <1>3 DEF Mutates
<1>18. keys' = keys \/ Cleared(W, n)' \/ MutatedAfter(n)'
  <2>1. ~(m.ok /\ call.stage \in {"execute", "pin"}) => keys' = keys
    BY <1>1 DEF Answered
  <2>. QED  BY <1>12, <1>17, <2>1
<1>19. keys'[held.key].finger = keys[held.key].finger \/ Cleared(W, n)' \/ FingerChangedAfter(n)'
  <2>1. CASE ~(m.ok /\ call.stage \in {"execute", "pin"})
    BY <1>1, <2>1 DEF Answered
  <2>2. CASE m.ok /\ call.stage \in {"execute", "pin"}
    <3>1. held.key \in Authenticator
      BY <1>0, <1>2, <2>2 DEF HeldOK
    <3>2. PICK key \in KeyState : key = keys[held.key]
      BY <1>0, <3>1 DEF SecurityTypeOK
    <3>3. call.base \in Change \cup PinChange
      BY <2>2, CoroutineFields
    <3>4. keys'[held.key] = Mutated(key, call.base)
      <4>1. keys' = [keys EXCEPT ![held.key] = Mutated(keys[held.key], call.base)]
        BY <1>1, <2>2 DEF Answered
      <4>. QED  BY <1>0, <3>1, <3>2, <4>1 DEF SecurityTypeOK
    <3>5. call.stage = "pin" => call.base.kind = "pin"
      BY CoroutineFields DEF PinChange
    <3>6. CASE call.base.kind \notin BioKind \cup {"reset"}
      BY <3>2, <3>3, <3>4, <3>6, MutatedTyped
    <3>7. CASE call.base.kind \in BioKind
      <4>1. call.stage = "execute"
        BY <2>2, <3>5, <3>7 DEF BioKind
      <4>2. ChangesFinger(m)'
        BY <1>2, <1>3, <2>2, <3>7, <4>1 DEF ChangesFinger
      <4>. QED  BY <1>13, <4>2
    <3>8. CASE call.base.kind = "reset"
      <4>1. call.stage = "execute"
        BY <2>2, <3>5, <3>8
      <4>2. Resets(m)'
        BY <1>2, <1>3, <2>2, <3>8, <4>1 DEF Resets
      <4>. QED  BY <1>11, <4>2
    <3>. QED  BY <3>6, <3>7, <3>8
  <2>. QED  BY <2>1, <2>2
<1>20. MessageRight(W, n + 1)'
  <2>1. Mutates(m)' => W[n].attached \/ Cleared(W, n + 1)'
    <3>1. SUFFICES ASSUME Mutates(m)'
                   PROVE  W[n].attached \/ gaveUp' \/ Rediscovers'
      BY DEF Cleared
    <3>2. held.id # 0
      BY <1>2, <1>3, <3>1 DEF Mutates
    <3>3. held.attached
      BY <1>0, <3>2 DEF HeldOK
    <3>4. last = [id |-> held.id, attached |-> held.attached] \/ gaveUp \/ Rediscovers
      BY <1>4, <1>6, <1>8 DEF SessionRight
    <3>. QED  BY <1>2, <1>8, <1>9, <3>3, <3>4
  <2>2. \A stage : Loads(m, stage)' => m.ok /\ ~m.closed /\ call.stage = stage
    BY <1>3 DEF Loads
  <2>3. Loads(m, "status")' => IsStatus(m.value)' /\ TellsSensor(m.value)'
    <3>1. SUFFICES ASSUME m.ok, ~m.closed, call.stage = "status"
                   PROVE  IsStatus(m.value)' /\ TellsSensor(m.value)'
      BY <2>2
    <3>2. held' = held /\ held.id # 0 /\ m.value = StatusOf(held.key)
      BY <1>2, <3>1
    <3>3. keys' = keys
      BY <1>1, <3>1 DEF Answered
    <3>4. m.value.bio = (held.key \in Sensing)
      BY <3>2 DEF StatusOf
    <3>. QED  BY <3>2, <3>3, <3>4 DEF IsStatus, TellsSensor, StatusOf
  <2>4. Loads(m, "sensor")' \/ Loads(m, "enrollments")' => Senses'
    <3>1. SUFFICES ASSUME m.ok, ~m.closed, call.stage \in {"sensor", "enrollments"}
                   PROVE  Senses'
      BY <2>2
    <3>2. held' = held /\ held.id # 0 /\ held.key \in Sensing
      BY <1>2, <3>1
    <3>. QED  BY <3>2 DEF Senses
  <2>5. Loads(m, "enrollments")' => IsFinger(m.value)'
    <3>1. SUFFICES ASSUME m.ok, ~m.closed, call.stage = "enrollments"
                   PROVE  IsFinger(m.value)'
      BY <2>2
    <3>2. held' = held /\ held.id # 0 /\ m.value = keys[held.key].finger
      BY <1>2, <3>1
    <3>3. keys' = keys
      BY <1>1, <3>1 DEF Answered
    <3>. QED  BY <3>2, <3>3 DEF IsFinger
  <2>6. failures' = 0 /\ CallOf(m)'.stage = "status" => m.ok \/ m.closed
    BY <1>2, <1>3
  <2>. QED  BY <1>5, <2>1, <2>3, <2>4, <2>5, <2>6 DEF MessageRight
<1>21. ASSUME NEW i \in n + 1..Len(secureWire')
       PROVE  MessageRight(W, i)'
  <2>1. i = n + 1
    BY <1>4
  <2>. QED  BY <1>20, <2>1
<1>22. failures' = 0 => failures = 0
  BY <1>2
<1>23. /\ Sends(m) /\ CallsWhenSent(m) /\ UNCHANGED <<shown, secure>>
       /\ Extends(W, V)
  BY <1>2, <1>7
<1>. QED  BY <1>4, <1>14, <1>15, <1>16, <1>18, <1>19, <1>21, <1>22, <1>23, SendRight

\* A rediscovery gives up, or publishes a session that is newer than any before it.
LEMMA ReconnectRight ==
  ASSUME ScreenInv, NEW k \in SecurityCall, ServeReconnect(k), NEW V, AllRight(V)
  PROVE  \E W : AllRight(W)'
<1>0. SecurityTypeOK /\ AnswersServed /\ HeldOK
  BY DEF ScreenInv
<1>1. PICK m \in Answer : m.call = k /\ m.closed = FALSE /\ Sends(m) /\ CallsWhenSent(m)
  BY <1>0, ReconnectAnswered
<1>2. secureCalls[k].stage = "reconnect" /\ HeldOK' /\ UNCHANGED <<shown, secure, keys, changes, failures>>
  BY <1>0, ReconnectAnswered
<1>3. CallOf(m)'.stage = "reconnect" /\ m.kind = "answer"
  <2>1. ServedBy(m.call)
    BY <1>1 DEF CallsWhenSent, SnapshotMessage, Answer
  <2>. QED  BY <1>1, <1>2, <2>1 DEF ServedBy, CallOf, Answer
<1>4. ~Resets(m)'
  BY <1>3 DEF Resets
<1>5. heldMade' >= heldMade /\ heldMade \in Nat /\ heldMade' \in Nat
  <2>1. heldMade' = heldMade \/ heldMade' = heldMade + 1
    BY DEF ServeReconnect
  <2>. QED  BY <1>0, <2>1 DEF SecurityTypeOK
<1>6. PICK n \in Nat : n = Len(secureWire)
  BY <1>1 DEF Sends
<1>7. Sessions(V) /\ \A i \in 0..n : V[i] \in Session /\ V[i].id <= heldMade
  BY <1>6 DEF AllRight, Sessions, SessionRight
<1>8. ASSUME NEW W, Extends(W, V), NEW i \in 0..n
      PROVE  W[i] = V[i] /\ W[i].id <= heldMade'
  <2>1. W[i] = V[i]
    BY <1>6, <1>8 DEF Extends
  <2>2. V[i].id \in Nat /\ V[i].id <= heldMade
    BY <1>7 DEF Session
  <2>. QED  BY <1>5, <2>1, <2>2
<1>9. ASSUME NEW W, NEW i \in Nat, secureWire'[i] = m \/ secureWire'[i].kind = "snapshot"
      PROVE  MessageRight(W, i)'
  BY <1>3, <1>9 DEF MessageRight, Mutates, Loads
<1>10. CASE gaveUp' = TRUE /\ held'.id = 0 /\ Len(secureWire') = Len(secureWire) + 1
  <2>1. n + 1 = Len(secureWire')
    BY <1>1, <1>6, <1>10 DEF Sends
  <2>2. PICK W : Extends(W, V) /\ W[n + 1] = SessionAfter(m, V[n])'
    BY <1>0, <1>1, <1>2, <1>6, <1>7, <2>1, ExtendOne
  <2>3. W[n + 1] = V[n]
    BY <1>1, <1>3, <1>4, <2>2 DEF SessionAfter
  <2>4. \A i \in 0..n + 1 : W[i].id <= heldMade'
    <3>1. W[n].id <= heldMade' /\ W[n] = V[n]
      BY <1>8, <2>2
    <3>2. \A i \in 0..n + 1 : i \in 0..n \/ i = n + 1
      OBVIOUS
    <3>. QED  BY <1>8, <2>2, <2>3, <3>1, <3>2
  <2>5. SessionRight(W)'
    BY <1>10, <2>1, <2>4 DEF SessionRight
  <2>6. Cleared(W, n)'
    BY <1>10 DEF Cleared
  <2>7. ASSUME NEW i \in n + 1..Len(secureWire')
        PROVE  MessageRight(W, i)'
    <3>1. secureWire'[i] = m /\ i \in Nat
      BY <1>1, <2>1 DEF Sends
    <3>. QED  BY <1>9, <3>1
  <2>. QED  BY <1>1, <1>2, <1>6, <2>2, <2>5, <2>6, <2>7, SendRight
<1>11. CASE /\ Len(secureWire') = Len(secureWire) + 2
            /\ secureWire'[Len(secureWire) + 1] = SnapshotOf(held')
            /\ SnapshotOf(held').kind = "snapshot"
            /\ SnapshotOf(held').session = [id |-> held'.id, attached |-> held'.attached]
            /\ held'.id > heldMade
  <2>1. n + 2 = Len(secureWire')
    BY <1>1, <1>6, <1>11 DEF Sends
  <2>2. PICK new : new = [id |-> held'.id, attached |-> held'.attached]
    OBVIOUS
  <2>3. new \in Session
    <3>1. held'.id \in Nat /\ held'.attached \in BOOLEAN
      BY <1>0, ReconnectAnswered
    <3>. QED  BY <2>2, <3>1 DEF Session
  <2>4. secureWire'[n + 1].kind = "snapshot" /\ secureWire'[n + 1].session = new
    BY <1>6, <1>11, <2>2
  <2>5. PICK W : Extends(W, V) /\ W[n + 1] = new /\ W[n + 2] = new
    BY <1>0, <1>1, <1>2, <1>3, <1>4, <1>6, <1>7, <2>1, <2>3, <2>4, ExtendTwo
  <2>6. new.id <= heldMade'
    BY <1>2, <2>2 DEF HeldOK
  <2>7. \A i \in 0..n + 2 : W[i].id <= heldMade'
    <3>1. \A i \in 0..n + 2 : i \in 0..n \/ i = n + 1 \/ i = n + 2
      OBVIOUS
    <3>. QED  BY <1>8, <2>5, <2>6, <3>1
  <2>8. SessionRight(W)'
    BY <2>1, <2>2, <2>5, <2>7 DEF SessionRight
  <2>9. Cleared(W, n)'
    <3>1. PICK last \in Session : last = V[n] /\ last = W[n] /\ last.id <= heldMade
      BY <1>7, <1>8, <2>5
    <3>2. new # last
      <4>1. new.id > heldMade /\ last.id \in Nat
        BY <1>11, <2>2, <3>1 DEF Session
      <4>. QED  BY <1>5, <3>1, <4>1
    <3>3. PICK s : s = secureWire'[n + 1] /\ Clears(s, last)'
      BY <2>4, <3>2 DEF Clears
    <3>4. n + 1 \in n + 1..Len(secureWire') /\ (n + 1) - 1 = n
      BY <2>1
    <3>. QED  BY <3>1, <3>3, <3>4 DEF Cleared
  <2>10. ASSUME NEW i \in n + 1..Len(secureWire')
         PROVE  MessageRight(W, i)'
    <3>1. i = n + 1 \/ i = n + 2
      BY <2>1
    <3>2. secureWire'[n + 2] = m
      BY <1>1, <2>1 DEF Sends
    <3>3. n + 1 \in Nat /\ n + 2 \in Nat
      OBVIOUS
    <3>4. MessageRight(W, n + 1)' /\ MessageRight(W, n + 2)'
      BY <1>9, <2>4, <3>2, <3>3
    <3>. QED  BY <3>1, <3>4
  <2>. QED  BY <1>1, <1>2, <1>6, <2>5, <2>8, <2>9, <2>10, SendRight
<1>. QED  BY <1>0, <1>10, <1>11, ReconnectAnswered

\* Nothing is on its way and nothing shown.
LEMMA SettlingInvInit ==
  ASSUME SecurityInit
  PROVE  SettlingInv
<1>1. ScreenInv
  BY ScreenInvInit
<1>2. secureWire = <<>> /\ shown.session = Unselected /\ held.id = 0 /\ held.attached = FALSE
      /\ heldMade = 0 /\ secure = EmptySecurity
  BY DEF SecurityInit
<1>3. PICK V : V = [i \in 0..0 |-> Unselected]
  OBVIOUS
<1>4. V \in [0..0 -> Session] /\ V[0] = Unselected
  BY <1>3 DEF Session, Unselected
<1>5. Len(secureWire) = 0
  BY <1>2
<1>6. Sessions(V)
  BY <1>2, <1>4, <1>5 DEF Sessions
<1>7. SessionRight(V)
  <2>1. \A i \in 0..0 : V[i].id <= heldMade
    <3>1. \A i \in 0..0 : i = 0
      OBVIOUS
    <3>. QED  BY <1>2, <1>4, <3>1 DEF Unselected
  <2>2. V[0] = [id |-> held.id, attached |-> held.attached]
    BY <1>2, <1>4 DEF Unselected
  <2>. QED  BY <1>5, <2>1, <2>2 DEF SessionRight
<1>8. \A i \in 1..Len(secureWire) : MessageRight(V, i)
  BY <1>5
<1>9. StoresRight(V, secure)
  BY <1>2 DEF StoresRight, EmptySecurity, EmptyResource
<1>10. AllRight(V)
  BY <1>6, <1>7, <1>8, <1>9 DEF AllRight
<1>. QED  BY <1>1, <1>10 DEF SettlingInv

\* Every step keeps what is right.
LEMMA SettlingInvNext ==
  ASSUME SettlingInv, [SecurityNext]_securityVars
  PROVE  SettlingInv'
<1>1. ScreenInv /\ ScreenInv'
  BY ScreenInvNext DEF SettlingInv
<1>2. PICK V : AllRight(V)
  BY DEF SettlingInv
<1>3. CASE SecurityNext
  <2>1. \/ ByTheUser \/ PublishHeld \/ SnapshotArrives \/ AnswerArrives
        \/ \E k \in SecurityCall : ServeCall(k) \/ ServeSources(k) \/ ServeReconnect(k)
    BY <1>1, <1>3, SecuritySteps DEF ScreenInv
  <2>2. CASE ByTheUser
    <3>1. AllRight(V)'
      BY <1>1, <1>2, <2>2, UserRight
    <3>. QED  BY <1>1, <3>1 DEF SettlingInv
  <2>3. CASE PublishHeld \/ SnapshotArrives \/ AnswerArrives
    <3>1. \E W : AllRight(W)'
      BY <1>1, <1>2, <2>3, PublishRight, SnapshotRight, AnswerRight
    <3>. QED  BY <1>1, <3>1 DEF SettlingInv
  <2>4. ASSUME NEW k \in SecurityCall, ServeCall(k) \/ ServeSources(k)
        PROVE  SettlingInv'
    <3>1. PICK m : Answered(m)
      BY <1>1, <2>4, CallAnswered, SourcesAnswered DEF ScreenInv
    <3>2. \E W : AllRight(W)'
      BY <1>1, <1>2, <3>1, AnswerSentRight
    <3>. QED  BY <1>1, <3>2 DEF SettlingInv
  <2>5. ASSUME NEW k \in SecurityCall, ServeReconnect(k)
        PROVE  SettlingInv'
    <3>1. \E W : AllRight(W)'
      BY <1>1, <1>2, <2>5, ReconnectRight
    <3>. QED  BY <1>1, <3>1 DEF SettlingInv
  <2>. QED  BY <2>1, <2>2, <2>3, <2>4, <2>5
<1>4. CASE UNCHANGED securityVars
  <2>1. /\ UNCHANGED <<shown, secure, secureCalls, held, heldMade, keys, secureWire>>
        /\ UNCHANGED <<failures, gaveUp>>
    BY <1>4 DEF securityVars, heldVars, secureHistory
  <2>2. AllRight(V)'
    <3>1. Sessions(V)' /\ SessionRight(V)'
      BY <1>2, <2>1 DEF AllRight, Sessions, SessionAfter, SessionRight, Rediscovers, Resets, CallOf
    <3>2. ASSUME NEW i \in 1..Len(secureWire)
          PROVE  MessageRight(V, i)'
      <4>1. MessageRight(V, i)
        BY <1>2 DEF AllRight
      <4>2. PICK o : o = secureWire[i] /\ o = secureWire'[i]
        BY <2>1
      <4>3. /\ Mutates(o)' = Mutates(o) /\ CallOf(o)' = CallOf(o)
            /\ Loads(o, "status")' = Loads(o, "status") /\ Loads(o, "sensor")' = Loads(o, "sensor")
            /\ Loads(o, "enrollments")' = Loads(o, "enrollments")
        BY <2>1 DEF Mutates, Loads, CallOf
      <4>4. Cleared(V, i)' = Cleared(V, i)
        BY <2>1 DEF Cleared, Clears, Rediscovers, Resets, CallOf
      <4>5. MutatedAfter(i)' = MutatedAfter(i) /\ FingerChangedAfter(i)' = FingerChangedAfter(i)
        BY <2>1 DEF MutatedAfter, FingerChangedAfter, Mutates, ChangesFinger, CallOf
      <4>6. /\ IsStatus(o.value)' = IsStatus(o.value) /\ IsFinger(o.value)' = IsFinger(o.value)
            /\ TellsSensor(o.value)' = TellsSensor(o.value) /\ Senses' = Senses
        BY <2>1 DEF IsStatus, IsFinger, TellsSensor, Senses, StatusOf
      <4>7. failures' = failures
        BY <2>1
      <4>. QED  BY <4>1, <4>2, <4>3, <4>4, <4>5, <4>6, <4>7 DEF MessageRight
    <3>3. StoresRight(V, secure)'
      BY <1>2, <2>1 DEF AllRight, StoresRight, Mutates, CallOf, Cleared, Clears, MutatedAfter, Pending,
         FingerChangedAfter, ChangesFinger, Rediscovers, Resets, IsStatus, IsFinger, Senses,
         TellsSensor, StatusOf, Refreshing
    <3>. QED  BY <2>1, <3>1, <3>2, <3>3 DEF AllRight
  <2>. QED  BY <1>1, <2>2 DEF SettlingInv
<1>. QED  BY <1>3, <1>4

\* When nothing is under way, nothing is left that would clear or read again.
LEMMA SettlingSettles ==
  ASSUME SettlingInv
  PROVE  SecuritySettled
<1>1. SUFFICES ASSUME secureWire = <<>>, FreeCalls = SecurityCall, ~gaveUp
               PROVE  /\ shown.session = [id |-> held.id, attached |-> held.attached]
                      /\ secure.status.phase = "ready" =>
                           held.id # 0 /\ secure.status.report = StatusOf(held.key)
                      /\ failures = 0 /\ secure.enrollments.phase = "ready" =>
                           held.id # 0 /\ secure.enrollments.report = keys[held.key].finger
                      /\ secure.sensor.phase = "ready" => held.id # 0 /\ held.key \in Sensing
  BY DEF SecuritySettled, SettlingInv, ScreenInv
<1>2. PICK V : Sessions(V) /\ SessionRight(V) /\ StoresRight(V, secure)
  BY DEF SettlingInv, AllRight
<1>3. Len(secureWire) = 0 /\ \A l \in (0 + 1)..0 : FALSE
  BY <1>1
<1>4. \A k \in SecurityCall : secureCalls[k].stage = "none"
  BY <1>1 DEF FreeCalls, NoStage
<1>5. ~Rediscovers /\ ~Pending("status") /\ ~Refreshing(secure)
  BY <1>3, <1>4 DEF Rediscovers, Pending, Refreshing
<1>6. ~Cleared(V, 0) /\ ~MutatedAfter(0) /\ ~FingerChangedAfter(0)
  BY <1>1, <1>3, <1>5 DEF Cleared, MutatedAfter, FingerChangedAfter
<1>7. shown.session = [id |-> held.id, attached |-> held.attached]
  <2>1. V[0] = shown.session
    BY <1>2 DEF Sessions
  <2>2. V[0] = [id |-> held.id, attached |-> held.attached]
    BY <1>1, <1>2, <1>3, <1>5 DEF SessionRight
  <2>. QED  BY <2>1, <2>2
<1>8. StoresRight(V, secure)
  BY <1>2
<1>. QED  BY <1>5, <1>6, <1>7, <1>8 DEF StoresRight, IsStatus, IsFinger, Senses

\* When nothing is under way, the window has the service's session, the screen is not
\* blank, and what is shown as ready is what the authenticator holds now, whichever
\* mutation, PIN or reset came before (security-controller.ts, authenticator-controller.ts).
THEOREM SecuritySettles == SecuritySpec => []SecuritySettled
<1>1. SecurityInit => SettlingInv
  BY SettlingInvInit
<1>2. SettlingInv /\ [SecurityNext]_securityVars => SettlingInv'
  BY SettlingInvNext
<1>3. SettlingInv => SecuritySettled
  BY SettlingSettles
<1>. QED  BY <1>1, <1>2, <1>3, PTL DEF SecuritySpec

-----------------------------------------------------------------------------
(* The two side by side.                                                    *)

\* What is proved of the recovery and of the screen holds of the composition that is
\* checked.
THEOREM BothKept ==
  ASSUME OneReader
  PROVE  PartSpec => [](/\ RecoveryInv /\ RetryAfterRemoval
                        /\ SecurityWaits /\ SecuritySettled)
<1>1. PartInit => Init /\ SecurityInit
  BY DEF PartInit
<1>2. [PartNext]_<<vars, securityVars, part>> => [Next]_vars /\ [SecurityNext]_securityVars
  BY DEF PartNext
<1>3. PartSpec => Spec /\ SecuritySpec
  BY <1>1, <1>2, PTL DEF PartSpec, Spec, SecuritySpec
<1>. QED  BY <1>3, OfferIsAwaited, RetryNeedsRemoval, SecurityWaitsForCalls, SecuritySettles, PTL

=============================================================================
