----------------------- MODULE PasskeyMutationsProofs -----------------------
(***************************************************************************)
(* Theorems about PasskeyMutations, for any number of credentials, names,  *)
(* authenticators, coroutines, previews and messages under way, answered   *)
(* in any order; and about its second shape, in which they are answered    *)
(* in turn.                                                                *)
(***************************************************************************)
EXTENDS MCPasskeyMutations, TLAPS

Report == [Credential -> Name \cup {None}]
Message == [kind : {"snapshot"}, id : 0..MaxSelections, attached : BOOLEAN]
           \cup [kind : {"answer"}, call : Call, ok : BOOLEAN, closed : BOOLEAN,
                 report : Report \cup {None}]
Coroutine == [stage : {"none"}]
             \cup [stage : {"list", "other"}, served : BOOLEAN]
             \cup [stage : {"preview", "execute"}, base : BaseType, request : Request,
                   number : Nat, served : BOOLEAN]

IsAnswer(i) == wire[i].kind = "answer"
Asking(k) == calls[k].stage \in {"preview", "execute"}

CallsType == calls \in [Call -> Coroutine]
WireType == wire \in Seq(Message)
\* A selection has its authenticator, at the service and in what it reports.
ServiceType ==
  /\ made \in 0..MaxSelections /\ previews \in Nat
  /\ service \in [id : 0..MaxSelections, token : Token \cup {None}]
  /\ service.id # 0 => service.token \in Token
SnapshotAttached ==
  \A i \in DOMAIN wire : wire[i].kind = "snapshot" /\ wire[i].id # 0 => wire[i].attached

\* An answer under way is the only one to its coroutine, which still awaits it.
AnswerAwaited ==
  \A i \in DOMAIN wire : IsAnswer(i) =>
    /\ calls[wire[i].call].stage # "none" /\ calls[wire[i].call].served
    /\ \A j \in DOMAIN wire : IsAnswer(j) /\ wire[j].call = wire[i].call => j = i

\* What a coroutine asks for is what its form showed, and it has been reviewed if
\* it is being executed.
AskedAsShown ==
  \A k \in Call : Asking(k) =>
    /\ calls[k].request = Requested(calls[k].base)
    /\ calls[k].number \in 1..previews
    /\ calls[k].stage = "execute" => calls[k].request \in reviewed

\* A preview is in one place: a coroutine, or a dialog that may confirm it.
OnePlace ==
  /\ \A j, k \in Call : Asking(j) /\ Asking(k) /\ calls[j].number = calls[k].number => j = k
  /\ Confirmable => \A k \in Call : Asking(k) => calls[k].number # mutation.number

ShownIsReviewed ==
  mutation.phase \in {"review", "executing", "executeFailed"} => mutation.request \in reviewed

InventoryType ==
  inventory \in [phase : {"idle", "loading", "refreshing", "ready", "error"},
                report : Report \cup {None}]

WireInv == CallsType /\ WireType /\ SnapshotAttached /\ AnswerAwaited
RequestInv ==
  /\ MutationHasCall /\ ReviewShowsRequest
  /\ AskedAsShown /\ OnePlace /\ ShownIsReviewed /\ executed \subseteq reviewed

\* Inductive.
DialogInv == TypeOK /\ InventoryType /\ ServiceType /\ WireInv /\ RequestInv

-----------------------------------------------------------------------------
(* The wire.                                                                *)

\* What is sent comes last.
LEMMA Sent ==
  ASSUME WireType, NEW m \in Message, Send(m)
  PROVE  /\ WireType'
         /\ DOMAIN wire' = DOMAIN wire \cup {Len(wire) + 1}
         /\ wire'[Len(wire) + 1] = m
         /\ \A i \in DOMAIN wire : wire'[i] = wire[i] /\ i \in 1..Len(wire)
         /\ Len(wire) \in Nat
BY DEF WireType, Send

\* What is left when one element is taken out.
LEMMA Removed ==
  ASSUME NEW S, NEW s \in Seq(S), NEW i \in DOMAIN s
  PROVE  /\ RemoveAt(s, i) \in Seq(S)
         /\ Len(RemoveAt(s, i)) = Len(s) - 1
         /\ \A j \in 1..Len(s) - 1 : RemoveAt(s, i)[j] = IF j < i THEN s[j] ELSE s[j + 1]
<1> DEFINE a == SubSeq(s, 1, i - 1)
           b == SubSeq(s, i + 1, Len(s))
<1>1. Len(s) \in Nat /\ i \in 1..Len(s)
  OBVIOUS
<1>2. a \in Seq(S) /\ Len(a) = i - 1 /\ \A j \in 1..i - 1 : a[j] = s[j]
  BY <1>1
<1>3. b \in Seq(S) /\ Len(b) = Len(s) - i /\ \A j \in 1..Len(s) - i : b[j] = s[i + j]
  BY <1>1
<1>4. RemoveAt(s, i) = a \o b
  BY DEF RemoveAt
<1> HIDE DEF a, b
<1>5. a \o b \in Seq(S) /\ Len(a \o b) = Len(s) - 1
  BY <1>1, <1>2, <1>3
<1>6. ASSUME NEW j \in 1..Len(s) - 1
      PROVE  (a \o b)[j] = IF j < i THEN s[j] ELSE s[j + 1]
  <2>1. CASE j < i
    BY <1>1, <1>2, <1>3, <2>1
  <2>2. CASE j >= i
    <3>1. (a \o b)[j] = b[j - (i - 1)] /\ j - (i - 1) \in 1..Len(s) - i
      BY <1>1, <1>2, <1>3, <2>2, SMTT(30)
    <3>. QED  BY <1>1, <1>3, <2>2, <3>1, SMTT(30)
  <2>3. j < i \/ j >= i
    BY <1>1
  <2>. QED  BY <2>1, <2>2, <2>3
<1>. QED  BY <1>4, <1>5, <1>6

\* A message is taken out of the wire: those that are left were there before, each
\* at a place of its own that is not the place of the one taken.
LEMMA Received ==
  ASSUME WireType, NEW i \in DOMAIN wire, wire' = RemoveAt(wire, i)
  PROVE  /\ WireType'
         /\ \E old \in [DOMAIN wire' -> DOMAIN wire \ {i}] :
              /\ \A j \in DOMAIN wire' : wire'[j] = wire[old[j]]
              /\ \A j, l \in DOMAIN wire' : old[j] = old[l] => j = l
<1>1. /\ Len(wire) \in Nat /\ DOMAIN wire = 1..Len(wire) /\ wire' \in Seq(Message)
      /\ Len(wire') = Len(wire) - 1
      /\ \A j \in 1..Len(wire) - 1 : wire'[j] = IF j < i THEN wire[j] ELSE wire[j + 1]
  BY Removed DEF WireType
<1>2. DOMAIN wire' = 1..Len(wire) - 1
  BY <1>1
<1> DEFINE old == [j \in DOMAIN wire' |-> IF j < i THEN j ELSE j + 1]
<1>3. old \in [DOMAIN wire' -> DOMAIN wire \ {i}]
  BY <1>1, <1>2
<1>4. \A j \in DOMAIN wire' : wire'[j] = wire[old[j]]
  BY <1>1, <1>2
<1>5. \A j, l \in DOMAIN wire' : old[j] = old[l] => j = l
  BY <1>1, <1>2
<1>. QED  BY <1>1, <1>3, <1>4, <1>5 DEF WireType

\* Messages of the two kinds are told apart.
LEMMA MessageKinds ==
  ASSUME WireType, NEW i \in DOMAIN wire
  PROVE  /\ IsAnswer(i) => /\ wire[i].call \in Call /\ wire[i].ok \in BOOLEAN
                           /\ wire[i].closed \in BOOLEAN /\ wire[i].report \in Report \cup {None}
         /\ wire[i].kind = "snapshot" => wire[i].id \in 0..MaxSelections /\ wire[i].attached \in BOOLEAN
         /\ wire[i].kind \in {"answer", "snapshot"}
BY DEF WireType, Message, IsAnswer

\* Nothing is sent or received, and coroutines that have an answer under way stay.
LEMMA WireStays ==
  ASSUME WireType, SnapshotAttached, AnswerAwaited, UNCHANGED wire,
         \A k \in Call : calls[k].stage # "none" => calls'[k] = calls[k]
  PROVE  WireType' /\ SnapshotAttached' /\ AnswerAwaited'
BY MessageKinds DEF WireType, SnapshotAttached, AnswerAwaited, IsAnswer

\* The same while a message is received.
LEMMA WireShrinks ==
  ASSUME WireType, SnapshotAttached, AnswerAwaited, NEW i \in DOMAIN wire,
         wire' = RemoveAt(wire, i),
         \A k \in Call : calls[k].stage # "none" /\ ~(IsAnswer(i) /\ wire[i].call = k) => calls'[k] = calls[k]
  PROVE  WireType' /\ SnapshotAttached' /\ AnswerAwaited'
<1>1. WireType'
  BY Received
<1>2. PICK old \in [DOMAIN wire' -> DOMAIN wire \ {i}] :
        /\ \A j \in DOMAIN wire' : wire'[j] = wire[old[j]]
        /\ \A j, l \in DOMAIN wire' : old[j] = old[l] => j = l
  BY Received
<1>3. SnapshotAttached'
  BY <1>2 DEF SnapshotAttached
<1>4. ASSUME NEW j \in DOMAIN wire', IsAnswer(j)'
      PROVE  /\ calls'[wire'[j].call].stage # "none" /\ calls'[wire'[j].call].served
             /\ \A l \in DOMAIN wire' : IsAnswer(l)' /\ wire'[l].call = wire'[j].call => l = j
  <2>1. wire'[j] = wire[old[j]] /\ old[j] \in DOMAIN wire /\ old[j] # i /\ IsAnswer(old[j])
    BY <1>2, <1>4 DEF IsAnswer
  <2>2. ~(IsAnswer(i) /\ wire[i].call = wire'[j].call)
    BY <2>1 DEF AnswerAwaited
  <2>3. wire'[j].call \in Call
    BY <2>1, MessageKinds
  <2>4. calls'[wire'[j].call] = calls[wire'[j].call]
    BY <2>1, <2>2, <2>3 DEF AnswerAwaited
  <2>5. ASSUME NEW l \in DOMAIN wire', IsAnswer(l)', wire'[l].call = wire'[j].call PROVE l = j
    <3>1. wire'[l] = wire[old[l]] /\ old[l] \in DOMAIN wire /\ IsAnswer(old[l])
      BY <1>2, <2>5 DEF IsAnswer
    <3>. QED  BY <3>1, <2>1, <2>5, <1>2 DEF AnswerAwaited
  <2>. QED  BY <2>1, <2>4, <2>5 DEF AnswerAwaited
<1>. QED  BY <1>1, <1>3, <1>4 DEF AnswerAwaited

-----------------------------------------------------------------------------
(* Coroutines and the dialog.                                               *)

Kept(k) == calls'[k] = calls[k]

\* A coroutine that is free begins a stage; the others go on.
LEMMA Started ==
  ASSUME CallsType, NEW k \in Free, NEW call \in Coroutine, Start(k, call)
  PROVE  /\ CallsType' /\ busy' \in BOOLEAN /\ k \in Call
         /\ \A j \in Call : calls[j].stage # "none" => Kept(j)
         /\ calls'[k] = call /\ \A j \in Call \ {k} : Kept(j)
BY DEF CallsType, Free, Start, Kept

\* A load may begin, which asks for no mutation.
LEMMA LoadStarted ==
  ASSUME CallsType, busy \in BOOLEAN, NEW scr, NEW id,
         NEW inv \in [phase : {"idle", "loading", "refreshing", "ready", "error"},
                      report : Report \cup {None}],
         inv.report = None => inv.phase # "refreshing",
         LoadActiveScreen(scr, id, inv)
  PROVE  /\ CallsType' /\ busy' \in BOOLEAN
         /\ \A j \in Call : calls[j].stage # "none" => Kept(j)
         /\ \A j \in Call : Asking(j)' => Kept(j)
         /\ InventoryType' /\ (inventory'.report = None => inventory'.phase # "refreshing")
<1>1. InventoryType' /\ (inventory'.report = None => inventory'.phase # "refreshing")
  BY DEF LoadActiveScreen, BeginLoad, InventoryType
<1>2. ASSUME NEW k \in Free, NEW stage \in {"list", "other"}, Start(k, Loads(stage))
      PROVE  /\ CallsType' /\ busy' \in BOOLEAN
             /\ \A j \in Call : calls[j].stage # "none" => Kept(j)
             /\ \A j \in Call : Asking(j)' => Kept(j)
  <2>1. Loads(stage) \in Coroutine /\ Loads(stage).stage \notin {"preview", "execute"}
    BY DEF Loads, Coroutine
  <2>. QED  BY <1>2, <2>1, Started DEF Asking
<1>3. CASE UNCHANGED <<busy, calls>>
  BY <1>1, <1>3 DEF CallsType, Kept
<1>. QED  BY <1>1, <1>2, <1>3 DEF LoadActiveScreen

\* Nothing new is asked for, and the dialog stays, closes or shows its form.
LEMMA QuietStep ==
  ASSUME RequestInv, UNCHANGED <<previews, reviewed, executed>>,
         \A k \in Call : calls[k].stage # "none" => Kept(k),
         \A k \in Call : Asking(k)' => Kept(k),
         mutation' = mutation \/ mutation'.phase \in {"idle", "editing"}
  PROVE  RequestInv'
<1>1. MutationHasCall'
  BY DEF RequestInv, MutationHasCall, Kept
<1>2. ReviewShowsRequest' /\ ShownIsReviewed' /\ executed' \subseteq reviewed'
  BY DEF RequestInv, ReviewShowsRequest, ShownIsReviewed
<1>3. \A k \in Call : Asking(k)' => Asking(k) /\ calls'[k] = calls[k]
  BY DEF Asking, Kept
<1>4. AskedAsShown'
  BY <1>3 DEF RequestInv, AskedAsShown
<1>5. OnePlace'
  BY <1>3 DEF RequestInv, OnePlace, Confirmable
<1>. QED  BY <1>1, <1>2, <1>4, <1>5 DEF RequestInv

\* What the dialog holds in each phase.
LEMMA MutationFields ==
  ASSUME MutationOK
  PROVE  /\ mutation.phase \in {"idle", "editing", "previewing", "previewFailed",
                                "review", "executing", "executeFailed"}
         /\ mutation.phase # "idle" => mutation.base \in BaseType
         /\ mutation.phase \in {"review", "executing", "executeFailed"} =>
              /\ mutation.request \in Request /\ mutation.number \in 1..previews
              /\ mutation = Review(mutation, mutation.phase)
BY DEF MutationOK, Idle, At, Review

\* A form is made into a request.
LEMMA RequestTyped ==
  ASSUME NEW base \in BaseType
  PROVE  /\ Requested(base) \in Request
         /\ base.kind \in {"update", "delete"} /\ base.credential \in Credential
         /\ base.current \in Name \cup {None} /\ base.form \in Name \cup {None}
         /\ base.begun \in 1..MaxSelections
BY DEF BaseType, Requested, Request

\* The dialog shows a form, or previews it.
LEMMA Formed ==
  ASSUME NEW base \in BaseType, NEW phase \in {"editing", "previewing", "previewFailed"},
         mutation' = At(base, phase)
  PROVE  MutationOK' /\ mutation'.phase = phase /\ mutation'.base = base
<1>1. mutation'.phase = phase /\ mutation'.base = base
  BY DEF At
<1>. QED  BY <1>1 DEF MutationOK

\* The dialog is closed.
LEMMA Closed ==
  ASSUME mutation' = Idle
  PROVE  MutationOK' /\ mutation'.phase = "idle"
BY DEF MutationOK, Idle

-----------------------------------------------------------------------------
(* The steps.                                                               *)

\* The dialog moves on while the wire and the coroutines stay.
LEMMA DialogStep ==
  ASSUME DialogInv, MutationOK', mutation' = mutation \/ mutation'.phase \in {"idle", "editing"},
         chosen' \in Credential \cup {None},
         UNCHANGED <<session, inventory, screen, busy, calls, serviceVars, wire, history>>
  PROVE  DialogInv'
<1>1. WireInv'
  BY WireStays DEF DialogInv, WireInv, CallsType
<1>2. RequestInv'
  BY QuietStep DEF DialogInv, Kept, history
<1>. QED
  BY <1>1, <1>2 DEF DialogInv, TypeOK, InventoryType, ServiceType, serviceVars, history

\* The forms and the dialogs.
LEMMA FormSteps ==
  ASSUME DialogInv,
         \/ \E c \in Credential : BeginCredentialUpdate(c)
         \/ \E n \in Name : UpdateCredentialDraft(n)
         \/ EditCredentialUpdate \/ ClosePasskeysMutation
  PROVE  DialogInv'
<1>1. ASSUME NEW c \in Credential, BeginCredentialUpdate(c) PROVE DialogInv'
  <2> DEFINE base == Base("update", c, inventory.report[c], inventory.report[c])
  <2>1. base \in BaseType
    <3>1. inventory.report[c] \in Name \cup {None}
      BY <1>1 DEF BeginCredentialUpdate, MutationsAvailable, DialogInv, InventoryType, Report
    <3>2. session.id \in 1..MaxSelections
      BY <1>1, BoundAssumption DEF BeginCredentialUpdate, MutationsAvailable, DialogInv, TypeOK
    <3>. QED  BY <3>1, <3>2 DEF Base, BaseType
  <2>2. mutation' = At(base, "editing") /\ chosen' = c
    BY <1>1 DEF BeginCredentialUpdate
  <2> HIDE DEF base
  <2>3. MutationOK' /\ mutation'.phase = "editing"
    BY <2>1, <2>2, Formed
  <2>. QED  BY <1>1, <2>2, <2>3, DialogStep DEF BeginCredentialUpdate
<1>2. ASSUME NEW n \in Name, UpdateCredentialDraft(n) PROVE DialogInv'
  <2>1. mutation.base \in BaseType
    BY <1>2, MutationFields DEF UpdateCredentialDraft, DialogInv, TypeOK
  <2>2. [mutation.base EXCEPT !.form = n] \in BaseType
    BY <2>1 DEF BaseType
  <2>3. MutationOK' /\ mutation'.phase = "editing"
    BY <1>2, <2>2, Formed DEF UpdateCredentialDraft
  <2>. QED  BY <1>2, <2>3, DialogStep DEF UpdateCredentialDraft, DialogInv, TypeOK
<1>3. CASE EditCredentialUpdate
  <2>1. mutation.base \in BaseType
    BY <1>3, MutationFields DEF EditCredentialUpdate, DialogInv, TypeOK
  <2>2. MutationOK' /\ mutation'.phase = "editing"
    BY <1>3, <2>1, Formed DEF EditCredentialUpdate
  <2>. QED  BY <1>3, <2>2, DialogStep DEF EditCredentialUpdate, DialogInv, TypeOK
<1>4. CASE ClosePasskeysMutation
  BY <1>4, Closed, DialogStep DEF ClosePasskeysMutation, DialogInv, TypeOK
<1>. QED  BY <1>1, <1>2, <1>3, <1>4

\* A load, and the screens.
LEMMA ScreenSteps ==
  ASSUME DialogInv,
         \/ \E k \in Call : ReloadPasskeys(k)
         \/ \E scr \in {"passkeys", "other"} : NavigateToScreen(scr)
  PROVE  DialogInv'
<1>1. /\ CallsType' /\ busy' \in BOOLEAN
      /\ \A j \in Call : calls[j].stage # "none" => Kept(j)
      /\ \A j \in Call : Asking(j)' => Kept(j)
      /\ InventoryType' /\ (inventory'.report = None => inventory'.phase # "refreshing")
  <2>1. ASSUME NEW k \in Call, ReloadPasskeys(k)
        PROVE  /\ CallsType' /\ busy' \in BOOLEAN
               /\ \A j \in Call : calls[j].stage # "none" => Kept(j)
               /\ \A j \in Call : Asking(j)' => Kept(j)
    <3>1. Loads("list") \in Coroutine /\ Loads("list").stage \notin {"preview", "execute"}
      BY DEF Loads, Coroutine
    <3>. QED  BY <2>1, <3>1, Started DEF ReloadPasskeys, Asking, DialogInv, WireInv
  <2>2. ASSUME NEW k \in Call, ReloadPasskeys(k)
        PROVE  InventoryType' /\ (inventory'.report = None => inventory'.phase # "refreshing")
    BY <2>2 DEF ReloadPasskeys, BeginLoad, DialogInv, InventoryType
  <2>3. ASSUME NEW scr \in {"passkeys", "other"}, NavigateToScreen(scr)
        PROVE  /\ CallsType' /\ busy' \in BOOLEAN
               /\ \A j \in Call : calls[j].stage # "none" => Kept(j)
               /\ \A j \in Call : Asking(j)' => Kept(j)
               /\ InventoryType' /\ (inventory'.report = None => inventory'.phase # "refreshing")
    BY <2>3, LoadStarted DEF NavigateToScreen, DialogInv, InventoryType, TypeOK, WireInv
  <2>. QED  BY <2>1, <2>2, <2>3
<1>2. /\ UNCHANGED <<session, mutation, chosen, serviceVars, wire, history>>
      /\ screen' \in {"passkeys", "other"}
  BY DEF ReloadPasskeys, NavigateToScreen, DialogInv, TypeOK
<1>3. WireInv'
  BY <1>1, <1>2, WireStays DEF DialogInv, WireInv, Kept
<1>4. RequestInv'
  BY <1>1, <1>2, QuietStep DEF DialogInv, history
<1>5. MutationOK'
  BY <1>2 DEF DialogInv, TypeOK, MutationOK, At, Review, history
<1>6. TypeOK'
  BY <1>1, <1>2, <1>5 DEF DialogInv, TypeOK, InventoryType, Report, serviceVars
<1>7. ServiceType'
  BY <1>2 DEF DialogInv, ServiceType, serviceVars, history
<1>. QED  BY <1>1, <1>3, <1>4, <1>6, <1>7 DEF DialogInv

\* A snapshot arrives: the boundary of the session, and what is loaded after it.
LEMMA DiscoveryStep ==
  ASSUME DialogInv, NEW i, HandleDiscoveryChanged(i) PROVE DialogInv'
<1> DEFINE next == [id |-> wire[i].id, attached |-> wire[i].attached]
           inv == IF next # session THEN EmptyInventory ELSE inventory
<1>1. i \in DOMAIN wire /\ wire' = RemoveAt(wire, i) /\ ~IsAnswer(i)
  BY DEF HandleDiscoveryChanged, Deliver, IsAnswer
<1>2. /\ session' = next /\ next \in [id : 0..MaxSelections, attached : BOOLEAN]
      /\ next.id # 0 => next.attached
  BY <1>1, MessageKinds
  DEF HandleDiscoveryChanged, Deliver, DialogInv, WireInv, SnapshotAttached
<1>3. /\ inv \in [phase : {"idle", "loading", "refreshing", "ready", "error"},
                 report : Report \cup {None}]
      /\ inv.report = None => inv.phase # "refreshing"
  BY DEF EmptyInventory, DialogInv, InventoryType, TypeOK
<1>4. /\ CallsType' /\ busy' \in BOOLEAN
      /\ \A j \in Call : calls[j].stage # "none" => Kept(j)
      /\ \A j \in Call : Asking(j)' => Kept(j)
      /\ InventoryType' /\ (inventory'.report = None => inventory'.phase # "refreshing")
  <2>1. CASE LoadActiveScreen(screen, next.id, inv)
    <3> HIDE DEF inv, next
    <3>. QED  BY <2>1, <1>3, LoadStarted DEF DialogInv, TypeOK, WireInv
  <2>2. CASE inventory' = inv /\ UNCHANGED <<busy, calls>>
    BY <2>2, <1>3 DEF DialogInv, TypeOK, WireInv, CallsType, InventoryType, Kept
  <2>. QED  BY <2>1, <2>2 DEF HandleDiscoveryChanged
<1>5. WireInv'
  BY <1>1, <1>4, WireShrinks DEF DialogInv, WireInv, Kept
<1>6. /\ mutation' = mutation \/ mutation' = Idle
      /\ chosen' \in Credential \cup {None}
      /\ UNCHANGED <<screen, serviceVars, history>>
  BY DEF HandleDiscoveryChanged, DialogInv, TypeOK
<1>7. MutationOK' /\ (mutation' = mutation \/ mutation'.phase = "idle")
  BY <1>6, Closed DEF DialogInv, TypeOK, MutationOK, At, Review, history
<1>8. RequestInv'
  BY <1>4, <1>6, <1>7, QuietStep DEF DialogInv, history
<1> HIDE DEF next
<1>9. TypeOK'
  BY <1>2, <1>4, <1>6, <1>7 DEF DialogInv, TypeOK, InventoryType, Report, serviceVars
<1>10. ServiceType'
  BY <1>6 DEF DialogInv, ServiceType, serviceVars, history
<1>. QED  BY <1>4, <1>5, <1>8, <1>9, <1>10 DEF DialogInv

\* A message is sent: a snapshot, or the answer to a coroutine that had none.
LEMMA WireGrows ==
  ASSUME WireInv, NEW m \in Message, Send(m), CallsType',
         m.kind = "snapshot" /\ m.id # 0 => m.attached,
         \A j \in Call : calls[j].stage # "none" /\ calls[j].served => calls'[j] = calls[j],
         m.kind = "answer" => /\ calls[m.call].stage # "none" /\ ~calls[m.call].served
                              /\ calls'[m.call].stage # "none" /\ calls'[m.call].served
  PROVE  WireInv'
<1>1. /\ WireType'
      /\ DOMAIN wire' = DOMAIN wire \cup {Len(wire) + 1}
      /\ wire'[Len(wire) + 1] = m
      /\ \A i \in DOMAIN wire : wire'[i] = wire[i] /\ i \in 1..Len(wire)
      /\ Len(wire) \in Nat
  BY Sent DEF WireInv
<1>2. SnapshotAttached'
  BY <1>1 DEF WireInv, SnapshotAttached
<1>3. ASSUME NEW i \in DOMAIN wire', IsAnswer(i)'
      PROVE  /\ calls'[wire'[i].call].stage # "none" /\ calls'[wire'[i].call].served
             /\ \A j \in DOMAIN wire' : IsAnswer(j)' /\ wire'[j].call = wire'[i].call => j = i
  <2>1. \A j \in DOMAIN wire : IsAnswer(j) =>
          /\ wire[j].call \in Call /\ calls[wire[j].call].stage # "none" /\ calls[wire[j].call].served
          /\ calls'[wire[j].call] = calls[wire[j].call]
    BY MessageKinds DEF WireInv, AnswerAwaited
  <2>2. \A j \in DOMAIN wire : IsAnswer(j)' => IsAnswer(j) /\ wire'[j].call = wire[j].call
    BY <1>1 DEF IsAnswer
  <2>3. CASE i = Len(wire) + 1
    <3>1. m.kind = "answer" /\ wire'[i].call = m.call
      BY <1>1, <1>3, <2>3 DEF IsAnswer
    <3>2. ASSUME NEW j \in DOMAIN wire, IsAnswer(j)' PROVE wire'[j].call # wire'[i].call
      BY <2>1, <2>2, <3>1, <3>2
    <3>. QED  BY <1>1, <2>3, <3>1, <3>2
  <2>4. CASE i \in DOMAIN wire
    <3>1. IsAnswer(i) /\ wire'[i].call = wire[i].call
      BY <1>3, <2>2, <2>4
    <3>2. ASSUME NEW j \in DOMAIN wire', IsAnswer(j)', wire'[j].call = wire'[i].call PROVE j = i
      <4>1. CASE j = Len(wire) + 1
        <5>1. m.kind = "answer" /\ m.call = wire[i].call
          BY <1>1, <3>1, <3>2, <4>1 DEF IsAnswer
        <5>. QED  BY <2>1, <2>4, <3>1, <5>1
      <4>2. CASE j \in DOMAIN wire
        BY <2>2, <2>4, <3>1, <3>2, <4>2 DEF WireInv, AnswerAwaited
      <4>. QED  BY <1>1, <4>1, <4>2
    <3>. QED  BY <2>1, <2>4, <3>1, <3>2
  <2>. QED  BY <1>1, <2>3, <2>4
<1>. QED  BY <1>1, <1>2, <1>3 DEF WireInv, AnswerAwaited

\* The service selects, or gives its selection up.
LEMMA PublishStep ==
  ASSUME DialogInv, Publish PROVE DialogInv'
<1>1. PICK id \in 0..MaxSelections, att \in BOOLEAN :
        /\ Send([kind |-> "snapshot", id |-> id, attached |-> att])
        /\ id # 0 => att
  <2>1. CASE /\ made < MaxSelections
             /\ Send([kind |-> "snapshot", id |-> made + 1, attached |-> TRUE])
    <3>1. made + 1 \in 0..MaxSelections
      BY <2>1, BoundAssumption DEF DialogInv, ServiceType
    <3>. QED  BY <2>1, <3>1
  <2>2. CASE \E att \in BOOLEAN : Send([kind |-> "snapshot", id |-> 0, attached |-> att])
    <3>1. 0 \in 0..MaxSelections
      BY BoundAssumption
    <3>. QED  BY <2>2, <3>1
  <2>. QED  BY <2>1, <2>2 DEF Publish
<1> DEFINE m == [kind |-> "snapshot", id |-> id, attached |-> att]
<1>2. m \in Message /\ m.kind = "snapshot" /\ m.id = id /\ m.attached = att /\ Send(m)
  BY <1>1 DEF Message
<1> HIDE DEF m
<1>3. UNCHANGED <<uiVars, calls, stored, history>>
  BY DEF Publish
<1>4. WireInv'
  BY <1>1, <1>2, <1>3, WireGrows DEF DialogInv, WireInv, CallsType
<1>5. ServiceType'
  BY <1>3, BoundAssumption DEF Publish, DialogInv, ServiceType, history
<1>6. MutationOK'
  BY <1>3 DEF DialogInv, TypeOK, MutationOK, At, Review, uiVars, history
<1>7. RequestInv'
  BY <1>3, QuietStep DEF DialogInv, Kept, uiVars, history
<1>8. TypeOK' /\ InventoryType'
  BY <1>3, <1>6 DEF DialogInv, TypeOK, InventoryType, uiVars
<1>. QED  BY <1>4, <1>5, <1>7, <1>8 DEF DialogInv

\* The service answers.  What it executes was reviewed.
LEMMA ServeStep ==
  ASSUME DialogInv, NEW k \in Call, Serve(k) PROVE DialogInv'
<1> DEFINE call == calls[k]
<1>1. /\ call \in Coroutine /\ call.stage \in {"list", "preview", "execute", "other"}
      /\ ~call.served
  BY DEF Serve, DialogInv, WireInv, CallsType
<1>2. call.stage \in {"preview", "execute"} => call.request \in Request
  BY <1>1 DEF Coroutine
<1>3. /\ calls' = [calls EXCEPT ![k].served = TRUE]
      /\ UNCHANGED <<uiVars, made, previews, reviewed>>
  BY DEF Serve
<1>4. /\ CallsType'
      /\ calls'[k].served /\ calls'[k].stage = call.stage
      /\ call.stage \in {"preview", "execute"} =>
           /\ calls'[k].request = call.request /\ calls'[k].base = call.base
           /\ calls'[k].number = call.number
      /\ \A j \in Call \ {k} : calls'[j] = calls[j]
  <2>1. /\ calls'[k] = [call EXCEPT !.served = TRUE]
        /\ \A j \in Call \ {k} : calls'[j] = calls[j]
        /\ calls' = [j \in Call |-> IF j = k THEN [call EXCEPT !.served = TRUE] ELSE calls[j]]
    BY <1>3 DEF DialogInv, WireInv, CallsType
  <2>2. /\ [call EXCEPT !.served = TRUE] \in Coroutine
        /\ [call EXCEPT !.served = TRUE].served /\ [call EXCEPT !.served = TRUE].stage = call.stage
        /\ call.stage \in {"preview", "execute"} =>
             /\ [call EXCEPT !.served = TRUE].request = call.request
             /\ [call EXCEPT !.served = TRUE].base = call.base
             /\ [call EXCEPT !.served = TRUE].number = call.number
    BY <1>1 DEF Coroutine
  <2>. QED  BY <2>1, <2>2 DEF DialogInv, WireInv, CallsType
<1>5. PICK ok \in BOOLEAN, closed \in BOOLEAN :
        /\ service.id = 0 => ~ok /\ closed
        /\ service' = IF closed THEN [id |-> 0, token |-> None] ELSE service
        /\ Send([kind |-> "answer", call |-> k, ok |-> ok, closed |-> closed,
                 report |-> IF ok /\ call.stage = "list" THEN stored[service.token] ELSE None])
        /\ IF call.stage # "execute" THEN UNCHANGED <<stored, executed>>
           ELSE /\ executed' = executed \cup {call.request}
                /\ \/ /\ service.id # 0
                      /\ stored' = [stored EXCEPT ![service.token] = Applied(call.request, @)]
                   \/ UNCHANGED stored
  BY DEF Serve
<1> DEFINE m == [kind |-> "answer", call |-> k, ok |-> ok, closed |-> closed,
                 report |-> IF ok /\ call.stage = "list" THEN stored[service.token] ELSE None]
<1>6. m \in Message /\ m.kind = "answer" /\ m.call = k /\ Send(m)
  <2>1. ok /\ call.stage = "list" => stored[service.token] \in Report
    BY <1>5 DEF DialogInv, ServiceType, TypeOK, Report
  <2>. QED  BY <1>5, <2>1 DEF Message
<1> HIDE DEF m
<1>7. WireInv'
  BY <1>1, <1>4, <1>6, WireGrows DEF DialogInv
<1>8. stored' \in [Token -> [Credential -> Name \cup {None}]]
  <2>1. CASE service.id # 0 /\ call.stage = "execute"
             /\ stored' = [stored EXCEPT ![service.token] = Applied(call.request, @)]
    <3>1. service.token \in Token /\ stored[service.token] \in [Credential -> Name \cup {None}]
      BY <2>1 DEF DialogInv, ServiceType, TypeOK
    <3>2. call.request.credential \in Credential /\ call.request.name \in Name \cup {None}
      BY <1>2, <2>1 DEF Request
    <3>3. Applied(call.request, stored[service.token]) \in [Credential -> Name \cup {None}]
      BY <3>1, <3>2 DEF Applied
    <3>. QED  BY <2>1, <3>3 DEF DialogInv, TypeOK
  <2>2. CASE UNCHANGED stored
    BY <2>2 DEF DialogInv, TypeOK
  <2>. QED  BY <1>5, <2>1, <2>2
<1>9. ServiceType'
  <2>1. [id |-> 0, token |-> None] \in [id : 0..MaxSelections, token : Token \cup {None}]
    BY BoundAssumption
  <2>. QED  BY <1>3, <1>5, <2>1 DEF DialogInv, ServiceType
<1>10. MutationOK'
  BY <1>3 DEF DialogInv, TypeOK, MutationOK, At, Review, uiVars
<1>11. executed' \subseteq reviewed'
  BY <1>3, <1>5 DEF DialogInv, RequestInv, AskedAsShown, Asking
<1> HIDE DEF call
<1>12. \A j \in Call : /\ calls'[j].stage = calls[j].stage
                       /\ Asking(j) => /\ calls'[j].request = calls[j].request
                                       /\ calls'[j].base = calls[j].base
                                       /\ calls'[j].number = calls[j].number
  BY <1>4 DEF Asking, call
<1>13. \A j \in Call : Asking(j)' <=> Asking(j)
  BY <1>12 DEF Asking
<1>14. UNCHANGED mutation
  BY <1>3 DEF uiVars
<1>15. MutationHasCall'
  BY <1>12, <1>14 DEF DialogInv, RequestInv, MutationHasCall, Asking
<1>16. ReviewShowsRequest' /\ ShownIsReviewed'
  BY <1>3, <1>14 DEF DialogInv, RequestInv, ReviewShowsRequest, ShownIsReviewed
<1>17. AskedAsShown'
  BY <1>3, <1>12, <1>13 DEF DialogInv, RequestInv, AskedAsShown
<1>18. OnePlace'
  BY <1>12, <1>13, <1>14 DEF DialogInv, RequestInv, OnePlace, Confirmable
<1>19. TypeOK' /\ InventoryType'
  BY <1>3, <1>8, <1>10 DEF DialogInv, TypeOK, InventoryType, uiVars
<1>. QED
  BY <1>7, <1>9, <1>11, <1>15, <1>16, <1>17, <1>18, <1>19 DEF DialogInv, RequestInv

\* A preview begins: its number is new.
LEMMA PreviewStarts ==
  ASSUME DialogInv, NEW k \in Call, NEW base \in BaseType, Preview(k, base),
         chosen' \in Credential \cup {None},
         UNCHANGED <<session, inventory, screen, serviceVars, wire, reviewed, executed>>
  PROVE  DialogInv'
<1> DEFINE call == Asks("preview", base, Requested(base), previews + 1)
<1>1. /\ call \in Coroutine /\ call.stage = "preview" /\ call.base = base
      /\ call.request = Requested(base) /\ call.number = previews + 1
  BY RequestTyped DEF Asks, Coroutine, DialogInv, ServiceType
<1>2. k \in Free /\ Start(k, call) /\ mutation' = At(base, "previewing") /\ previews' = previews + 1
  BY DEF Preview
<1> HIDE DEF call
<1>3. /\ CallsType' /\ busy' \in BOOLEAN
      /\ \A j \in Call : calls[j].stage # "none" => Kept(j)
      /\ calls'[k] = call /\ \A j \in Call \ {k} : Kept(j)
  BY <1>1, <1>2, Started DEF DialogInv, WireInv
<1>4. WireInv'
  BY <1>3, WireStays DEF DialogInv, WireInv, Kept
<1>5. MutationOK' /\ mutation'.phase = "previewing"
  BY <1>2, Formed
<1>6. previews \in Nat /\ previews' = previews + 1
  BY <1>2 DEF DialogInv, ServiceType
<1>7. AskedAsShown'
  <2> SUFFICES ASSUME NEW j \in Call, Asking(j)'
               PROVE  /\ calls'[j].request = Requested(calls'[j].base)
                      /\ calls'[j].number \in 1..previews'
                      /\ calls'[j].stage = "execute" => calls'[j].request \in reviewed'
    BY DEF AskedAsShown
  <2>1. CASE j = k
    BY <1>1, <1>3, <1>6, <2>1
  <2>2. CASE j # k
    <3>1. calls'[j] = calls[j] /\ Asking(j)
      BY <1>3, <2>2 DEF Asking, Kept
    <3>. QED  BY <1>6, <3>1 DEF DialogInv, RequestInv, AskedAsShown
  <2>. QED  BY <2>1, <2>2
<1>8. OnePlace'
  <2>1. \A j \in Call \ {k} : Asking(j)' => Asking(j) /\ calls'[j] = calls[j] /\ calls[j].number \in 1..previews
    BY <1>3 DEF Asking, Kept, DialogInv, RequestInv, AskedAsShown
  <2>2. calls'[k].number \notin 1..previews
    BY <1>1, <1>3, <1>6
  <2>3. ~Confirmable'
    BY <1>5 DEF Confirmable
  <2>. QED  BY <2>1, <2>2, <2>3 DEF OnePlace, DialogInv, RequestInv
<1>9. MutationHasCall' /\ ReviewShowsRequest' /\ ShownIsReviewed' /\ executed' \subseteq reviewed'
  BY <1>1, <1>3, <1>5 DEF MutationHasCall, ReviewShowsRequest, ShownIsReviewed, DialogInv, RequestInv
<1>10. TypeOK' /\ InventoryType' /\ ServiceType'
  BY <1>3, <1>5, <1>6 DEF DialogInv, TypeOK, InventoryType, ServiceType, serviceVars
<1>. QED  BY <1>4, <1>7, <1>8, <1>9, <1>10 DEF DialogInv, RequestInv

\* The user asks for a preview.
LEMMA PreviewSteps ==
  ASSUME DialogInv, NEW k \in Call,
         PreviewCredentialUpdate(k) \/ \E c \in Credential : PreviewCredentialDelete(k, c)
  PROVE  DialogInv'
<1>1. CASE PreviewCredentialUpdate(k)
  <2>1. mutation.base \in BaseType
    BY <1>1, MutationFields DEF PreviewCredentialUpdate, DialogInv, TypeOK
  <2>2. CASE Preview(k, mutation.base)
    BY <1>1, <2>1, <2>2, PreviewStarts DEF PreviewCredentialUpdate, DialogInv, TypeOK
  <2>3. CASE mutation' = At(mutation.base, "editing") /\ UNCHANGED <<busy, calls, previews>>
    <3>1. MutationOK' /\ mutation'.phase = "editing"
      BY <2>1, <2>3, Formed
    <3>. QED
      BY <1>1, <2>3, <3>1, DialogStep DEF PreviewCredentialUpdate, DialogInv, TypeOK, history
  <2>. QED  BY <1>1, <2>2, <2>3 DEF PreviewCredentialUpdate
<1>2. ASSUME NEW c \in Credential, PreviewCredentialDelete(k, c) PROVE DialogInv'
  <2>1. session.id \in 1..MaxSelections
    BY <1>2, BoundAssumption DEF PreviewCredentialDelete, MutationsAvailable, DialogInv, TypeOK
  <2>2. Base("delete", c, None, None) \in BaseType
    BY <2>1 DEF Base, BaseType
  <2>. QED  BY <1>2, <2>2, PreviewStarts DEF PreviewCredentialDelete
<1>. QED  BY <1>1, <1>2

\* The user confirms: what the dialog shows goes to a coroutine, and the dialog may
\* not be confirmed again.
LEMMA ConfirmStep ==
  ASSUME DialogInv, NEW k \in Call, Confirm(k) PROVE DialogInv'
<1> DEFINE call == Asks("execute", mutation.base, mutation.request, mutation.number)
<1>1. /\ Confirmable /\ k \in Free /\ Start(k, call) /\ mutation' = [mutation EXCEPT !.phase = "executing"]
      /\ UNCHANGED <<session, inventory, chosen, screen, serviceVars, wire, history>>
  BY DEF Confirm
<1>2. /\ mutation.base \in BaseType /\ mutation.request \in Request /\ mutation.number \in 1..previews
      /\ mutation = Review(mutation, mutation.phase)
      /\ mutation.request = Requested(mutation.base) /\ mutation.request \in reviewed
  BY <1>1, MutationFields
  DEF Confirmable, DialogInv, TypeOK, RequestInv, ReviewShowsRequest, ShownIsReviewed
<1>3. previews \in Nat /\ mutation.number \in Nat
  BY <1>2 DEF DialogInv, ServiceType
<1>4. /\ call \in Coroutine /\ call.stage = "execute" /\ call.base = mutation.base
      /\ call.request = mutation.request /\ call.number = mutation.number
  BY <1>2, <1>3 DEF Asks, Coroutine
<1> HIDE DEF call
<1>5. /\ CallsType' /\ busy' \in BOOLEAN
      /\ \A j \in Call : calls[j].stage # "none" => Kept(j)
      /\ calls'[k] = call /\ \A j \in Call \ {k} : Kept(j) /\ k \in Call
  BY <1>1, <1>4, Started DEF DialogInv, WireInv
<1>6. WireInv'
  BY <1>1, <1>5, WireStays DEF DialogInv, WireInv, Kept
<1>7. /\ mutation'.phase = "executing" /\ mutation'.base = mutation.base
      /\ mutation'.request = mutation.request /\ mutation'.number = mutation.number
      /\ mutation' = Review(mutation', "executing")
  BY <1>1, <1>2 DEF Review
<1>8. MutationOK'
  BY <1>1, <1>2, <1>7 DEF MutationOK, history
<1>9. \A j \in Call \ {k} : Asking(j)' => Asking(j) /\ calls'[j] = calls[j]
  BY <1>5 DEF Asking, Kept
<1>10. AskedAsShown'
  BY <1>1, <1>2, <1>4, <1>5, <1>9 DEF AskedAsShown, DialogInv, RequestInv, history
<1>11. OnePlace'
  <2>1. \A j \in Call \ {k} : Asking(j)' => calls'[j].number # calls'[k].number
    BY <1>1, <1>4, <1>5, <1>9 DEF DialogInv, RequestInv, OnePlace
  <2>2. ~Confirmable'
    BY <1>7 DEF Confirmable
  <2>. QED  BY <1>9, <2>1, <2>2 DEF DialogInv, RequestInv, OnePlace
<1>12. MutationHasCall'
  BY <1>4, <1>5, <1>7 DEF MutationHasCall
<1>13. ReviewShowsRequest' /\ ShownIsReviewed' /\ executed' \subseteq reviewed'
  BY <1>1, <1>2, <1>7 DEF ReviewShowsRequest, ShownIsReviewed, DialogInv, RequestInv, history
<1>14. TypeOK' /\ InventoryType' /\ ServiceType'
  BY <1>1, <1>5, <1>8 DEF DialogInv, TypeOK, InventoryType, ServiceType, serviceVars, history
<1>. QED  BY <1>6, <1>10, <1>11, <1>12, <1>13, <1>14 DEF DialogInv, RequestInv

\* What a continuation publishes: it leaves the mutation, ends it, or publishes the
\* one it captured.
Publishes(m, call) ==
  \/ m = Idle
  \/ call.stage \in {"list", "other"} /\ m = mutation
  \/ call.stage = "preview" /\ (m = Review(call, "review") \/ m = At(call.base, "previewFailed"))
  \/ call.stage = "execute" /\ m = Review(call, "executeFailed")

Inventories == [phase : {"idle", "loading", "refreshing", "ready", "error"},
                report : Report \cup {None}]
Settled(inv) == inv \in Inventories /\ (inv.report = None => inv.phase # "refreshing")

\* It holds of every stage, whatever was answered; so does the type of the inventory.
LEMMA Continued ==
  ASSUME DialogInv, NEW call \in Coroutine, call.stage # "none",
         NEW a, a.report \in Report \cup {None}
  PROVE  LET r == Returns(call, a)
         IN Publishes(r.mutation, call) /\ Settled(r.inventory) /\ r.chosen \in Credential \cup {None}
<1>1. Settled(inventory) /\ chosen \in Credential \cup {None}
  BY DEF DialogInv, TypeOK, InventoryType, Settled, Inventories
<1>2. call.stage \in {"list", "other", "preview", "execute"}
  BY DEF Coroutine
<1>3. CASE call.stage = "list"
  <2>1. Returns(call, a) = ListReturns(a)
    BY <1>3 DEF Returns
  <2>2. CASE a.ok
    BY <1>1, <1>3, <2>1, <2>2 DEF ListReturns, Stores, Publishes, Settled, Inventories
  <2>3. CASE ~a.ok
    BY <1>1, <1>3, <2>1, <2>3 DEF ListReturns, Stores, Publishes, Settled, Inventories
  <2>. QED  BY <2>2, <2>3
<1>4. CASE call.stage = "other"
  BY <1>1, <1>4 DEF Returns, Stores, Publishes
<1>5. CASE call.stage = "preview"
  BY <1>1, <1>5 DEF Returns, PreviewReturns, Stores, Publishes
<1>6. CASE call.stage = "execute"
  <2>1. call.base.credential \in Credential
    BY <1>6 DEF Coroutine, BaseType
  <2>. QED  BY <1>1, <1>6, <2>1 DEF Returns, ExecuteReturns, Stores, Publishes
<1>. QED  BY <1>2, <1>3, <1>4, <1>5, <1>6

\* An answer arrives, and the coroutine goes on with what it captured.
LEMMA ReturnStep ==
  ASSUME DialogInv, NEW i, CallReturns(i) PROVE DialogInv'
<1> DEFINE a == wire[i]
           call == calls[a.call]
           r == Returns(call, a)
           after == Completed(r, a.closed)
           reload == Reloads(call, a)
<1>1. i \in DOMAIN wire /\ wire' = RemoveAt(wire, i) /\ IsAnswer(i)
  BY DEF CallReturns, Deliver, IsAnswer
<1>2. /\ a.call \in Call /\ a.ok \in BOOLEAN /\ a.closed \in BOOLEAN
      /\ a.report \in Report \cup {None}
      /\ call \in Coroutine /\ call.stage # "none"
  BY <1>1, MessageKinds DEF DialogInv, WireInv, AnswerAwaited, CallsType
<1>3. Publishes(r.mutation, call) /\ Settled(r.inventory) /\ r.chosen \in Credential \cup {None}
  BY <1>2, Continued
<1>4. Publishes(after.mutation, call) /\ Settled(after.inventory) /\ after.chosen \in Credential \cup {None}
  <2>1. CASE a.closed
    BY <2>1 DEF Completed, Stores, Publishes, Settled, Inventories, EmptyInventory
  <2>2. CASE ~a.closed
    BY <1>3, <2>2 DEF Completed
  <2>. QED  BY <2>1, <2>2
<1>5. /\ mutation' = IF reload /\ ~session.attached THEN Idle ELSE after.mutation
      /\ chosen' = IF reload /\ ~session.attached THEN None ELSE after.chosen
      /\ inventory' = CASE ~reload -> after.inventory
                        [] reload /\ session.attached -> BeginLoad(after.inventory)
                        [] OTHER -> EmptyInventory
      /\ IF reload /\ session.attached
         THEN Start(a.call, Loads("list"))
         ELSE busy' = FALSE /\ calls' = [calls EXCEPT ![a.call] = NoCall]
      /\ session' = IF a.closed THEN [session EXCEPT !.id = 0] ELSE session
      /\ reviewed' = IF mutation'.phase = "review" THEN reviewed \cup {mutation'.request} ELSE reviewed
      /\ UNCHANGED <<screen, serviceVars, previews, executed>>
  BY DEF CallReturns
<1> HIDE DEF after, r
<1>6. Publishes(mutation', call) /\ chosen' \in Credential \cup {None}
  BY <1>4, <1>5 DEF Publishes
<1>7. Settled(inventory')
  <2>1. Settled(EmptyInventory)
    BY DEF Settled, Inventories, EmptyInventory
  <2>2. Settled(BeginLoad(after.inventory))
    BY <1>4 DEF Settled, Inventories, BeginLoad
  <2>3. reload \in BOOLEAN
    BY <1>2 DEF Reloads
  <2> HIDE DEF reload
  <2>4. inventory' \in {EmptyInventory, BeginLoad(after.inventory), after.inventory}
    BY <1>5, <2>3
  <2>. QED  BY <1>4, <2>1, <2>2, <2>4
<1>8. /\ CallsType' /\ busy' \in BOOLEAN
      /\ \A j \in Call \ {a.call} : calls'[j] = calls[j]
      /\ calls'[a.call].stage \notin {"preview", "execute"}
  <2>1. Loads("list") \in Coroutine /\ NoCall \in Coroutine
    BY DEF Loads, NoCall, Coroutine
  <2>2. Loads("list").stage = "list" /\ NoCall.stage = "none"
    BY DEF Loads, NoCall
  <2>3. CASE busy' = TRUE /\ calls' = [calls EXCEPT ![a.call] = Loads("list")]
    BY <1>2, <2>1, <2>2, <2>3 DEF DialogInv, WireInv, CallsType
  <2>4. CASE busy' = FALSE /\ calls' = [calls EXCEPT ![a.call] = NoCall]
    BY <1>2, <2>1, <2>2, <2>4 DEF DialogInv, WireInv, CallsType
  <2>. QED  BY <1>5, <2>3, <2>4 DEF Start
<1>9. WireInv'
  BY <1>1, <1>2, <1>8, WireShrinks DEF DialogInv, WireInv
<1>10. \A j \in Call : Asking(j)' => j # a.call /\ Asking(j) /\ calls'[j] = calls[j]
  BY <1>8 DEF Asking
<1>11. reviewed \subseteq reviewed' /\ UNCHANGED previews
  BY <1>5
<1> HIDE DEF reload
<1>12. AskedAsShown'
  BY <1>10, <1>11 DEF DialogInv, RequestInv, AskedAsShown
<1>13. call.stage \in {"preview", "execute"} =>
         /\ call.base \in BaseType /\ call.request \in Request /\ call.number \in 1..previews
         /\ call.request = Requested(call.base)
         /\ call.stage = "execute" => call.request \in reviewed
         /\ \A j \in Call : Asking(j)' => calls'[j].number # call.number
  <2> SUFFICES ASSUME call.stage \in {"preview", "execute"}
               PROVE  /\ call.base \in BaseType /\ call.request \in Request
                      /\ call.number \in 1..previews
                      /\ call.request = Requested(call.base)
                      /\ call.stage = "execute" => call.request \in reviewed
                      /\ \A j \in Call : Asking(j)' => calls'[j].number # call.number
    OBVIOUS
  <2>1. call.base \in BaseType /\ call.request \in Request
    BY <1>2 DEF Coroutine
  <2>2. Asking(a.call)
    BY DEF Asking
  <2>. QED  BY <1>2, <1>10, <2>1, <2>2 DEF DialogInv, RequestInv, AskedAsShown, OnePlace
<1> DEFINE Left == call.stage \in {"list", "other"} /\ mutation' = mutation
           Shown(phase) == mutation' = Review(call, phase)
<1>14. \/ Left \/ mutation' = Idle
       \/ call.stage = "preview" /\ (Shown("review") \/ mutation' = At(call.base, "previewFailed"))
       \/ call.stage = "execute" /\ Shown("executeFailed")
  BY <1>6 DEF Publishes
<1> DEFINE Good == /\ MutationOK' /\ MutationHasCall' /\ ReviewShowsRequest'
                   /\ ShownIsReviewed' /\ OnePlace'
<1> HIDE DEF call
<1>15. ASSUME Left PROVE Good
  <2>1. MutationOK'
    BY <1>11, <1>15 DEF DialogInv, TypeOK, MutationOK, At, Review
  <2>2. MutationHasCall'
    <3>1. \A j \in Call : Asking(j) => calls'[j] = calls[j]
      BY <1>8, <1>15 DEF Asking, call
    <3>. QED  BY <1>15, <3>1 DEF DialogInv, RequestInv, MutationHasCall, Asking
  <2>3. OnePlace'
    BY <1>10, <1>15 DEF DialogInv, RequestInv, OnePlace, Confirmable
  <2>. QED
    BY <1>11, <1>15, <2>1, <2>2, <2>3 DEF DialogInv, RequestInv, ReviewShowsRequest, ShownIsReviewed
<1>16. ASSUME mutation' = Idle PROVE Good
  <2>1. MutationOK' /\ mutation'.phase = "idle"
    BY <1>16, Closed
  <2>. QED
    BY <1>10, <2>1 DEF DialogInv, RequestInv, MutationHasCall, ReviewShowsRequest, ShownIsReviewed,
                       OnePlace, Confirmable
<1>17. ASSUME call.stage = "preview", mutation' = At(call.base, "previewFailed") PROVE Good
  <2>1. MutationOK' /\ mutation'.phase = "previewFailed"
    BY <1>13, <1>17, Formed
  <2>. QED
    BY <1>10, <2>1 DEF DialogInv, RequestInv, MutationHasCall, ReviewShowsRequest, ShownIsReviewed,
                       OnePlace, Confirmable
<1>18. ASSUME NEW phase \in {"review", "executeFailed"}, Shown(phase),
              call.stage = (IF phase = "review" THEN "preview" ELSE "execute")
       PROVE  Good
  <2>1. /\ mutation'.phase = phase /\ mutation'.base = call.base
        /\ mutation'.request = call.request /\ mutation'.number = call.number
        /\ mutation' = Review(mutation', phase)
    BY <1>18 DEF Review
  <2>2. MutationOK'
    BY <1>11, <1>13, <1>18, <2>1 DEF MutationOK
  <2>3. mutation'.request \in reviewed'
    BY <1>5, <1>13, <1>18, <2>1
  <2>4. OnePlace'
    BY <1>10, <1>13, <1>18, <2>1 DEF DialogInv, RequestInv, OnePlace
  <2>. QED
    BY <1>13, <1>18, <2>1, <2>2, <2>3, <2>4 DEF MutationHasCall, ReviewShowsRequest, ShownIsReviewed
<1>19. Good
  BY <1>14, <1>15, <1>16, <1>17, <1>18
<1>20. /\ session' \in [id : 0..MaxSelections, attached : BOOLEAN]
       /\ session'.id # 0 => session'.attached
  BY <1>5, BoundAssumption DEF DialogInv, TypeOK
<1>21. TypeOK'
  BY <1>5, <1>6, <1>7, <1>8, <1>19, <1>20
  DEF DialogInv, TypeOK, Settled, Inventories, Report, serviceVars
<1>22. InventoryType' /\ ServiceType'
  BY <1>5, <1>7 DEF DialogInv, InventoryType, ServiceType, Settled, Inventories, serviceVars
<1>23. executed' \subseteq reviewed'
  BY <1>5, <1>11 DEF DialogInv, RequestInv
<1>. QED  BY <1>9, <1>12, <1>19, <1>21, <1>22, <1>23 DEF DialogInv, RequestInv

\* Nothing is under way at the start.
LEMMA DialogInit ==
  ASSUME Init PROVE DialogInv
<1>1. InventoryType /\ ServiceType
  BY BoundAssumption DEF Init, InventoryType, ServiceType, EmptyInventory
<1>4. [Token -> [Credential -> Name]] \subseteq [Token -> [Credential -> Name \cup {None}]]
  OBVIOUS
<1>5. TypeOK
  <2>1. MutationOK
    BY DEF Init, MutationOK
  <2>2. /\ session \in [id : 0..MaxSelections, attached : BOOLEAN]
        /\ session.id # 0 => session.attached
    BY BoundAssumption DEF Init
  <2>3. stored \in [Token -> [Credential -> Name \cup {None}]]
    BY <1>4 DEF Init
  <2>. QED  BY <2>1, <2>2, <2>3 DEF Init, TypeOK, EmptyInventory
<1>2. WireInv
  BY DEF Init, WireInv, CallsType, Coroutine, NoCall, WireType, SnapshotAttached,
              AnswerAwaited
<1>3. \A k \in Call : ~Asking(k)
  BY DEF Init, Asking, NoCall
<1>. QED
  BY <1>1, <1>2, <1>3, <1>5
  DEF Init, DialogInv, RequestInv, MutationHasCall, ReviewShowsRequest, AskedAsShown, OnePlace,
      ShownIsReviewed, Confirmable, Idle

\* Every step keeps the dialogs and the coroutines in agreement.
LEMMA DialogNext ==
  ASSUME DialogInv, [Next]_vars PROVE DialogInv'
<1>1. CASE Service
  BY <1>1, PublishStep, ServeStep DEF Service
<1>2. CASE User
  BY <1>2, FormSteps, PreviewSteps, ConfirmStep, ScreenSteps DEF User
<1>3. CASE Arrival
  BY <1>3, DiscoveryStep, ReturnStep DEF Arrival, Arrives
<1>4. CASE UNCHANGED vars
  BY <1>4, DialogStep DEF vars, uiVars, DialogInv, TypeOK, MutationOK, At, Review, history
<1>. QED  BY <1>1, <1>2, <1>3, <1>4 DEF Next

\* The dialogs and the coroutines agree, whatever returns late or fails.
LEMMA DialogInvariant == Spec => []DialogInv
BY DialogInit, DialogNext, PTL DEF Spec

-----------------------------------------------------------------------------

\* The stores keep their shapes, and a dialog that is hidden while it is previewed or
\* executed comes back: its coroutine is under way.
THEOREM DialogComesBack == Spec => []MutationInv
BY DialogInvariant, PTL DEF DialogInv, RequestInv, MutationInv

\* The request that a dialog confirms is the one that its form was made into.
THEOREM DialogShowsRequest == Spec => []ReviewShowsRequest
BY DialogInvariant, PTL DEF DialogInv, RequestInv

\* Nothing is written that was not reviewed, and no preview is executed by two
\* coroutines at a time, with any number of retries and late answers.
THEOREM ReviewedOnce == Spec => []WritesReviewedOnce
<1>1. DialogInv => WritesReviewedOnce
  BY DEF DialogInv, RequestInv, WritesReviewedOnce, OnePlace, Asking
<1>. QED  BY <1>1, DialogInvariant, PTL

-----------------------------------------------------------------------------
(* In turn: messages arrive in the order they were sent, and what fails had  *)
(* no effect, the second shape of MCPasskeyMutations.                        *)

\* A message across which the session of the window ends, and one after which the
\* inventory is loaded again.
Ends(m) == m.kind = "snapshot" \/ m.closed
Rewrites(m) == m.kind = "answer" /\ m.ok /\ calls[m.call].stage = "execute"
Lists(m) == m.kind = "answer" /\ m.ok /\ ~m.closed /\ calls[m.call].stage = "list"

\* What the window has after message i is gone by the time the wire is empty.
Outdated(i) == \E j \in i + 1..Len(wire) : Ends(wire[j]) \/ Rewrites(wire[j])
Current(i, r) == Outdated(i) \/ (service.id # 0 /\ r = stored[service.token])

\* The selection that the window has before each message, and after the last one:
\* then it has that of the service.  No snapshot repeats the selection before it.
IdAfter(m, id) == IF m.kind = "snapshot" THEN m.id ELSE IF m.closed THEN 0 ELSE id
IdsRight(V) ==
  /\ V \in [1..Len(wire) + 1 -> 0..MaxSelections]
  /\ V[1] = session.id /\ V[Len(wire) + 1] = service.id
  /\ \A i \in 1..Len(wire) : V[i + 1] = IdAfter(wire[i], V[i])
  /\ \A i \in 1..Len(wire) : wire[i].kind = "snapshot" => wire[i].id # V[i]

InventoryCurrent == inventory.phase = "ready" => Current(0, inventory.report)
ListsCurrent == \A i \in 1..Len(wire) : Lists(wire[i]) => Current(i, wire[i].report)

\* Inductive in that shape, with DialogInv.
InTurnInv ==
  /\ service.id <= made
  /\ \E V : IdsRight(V)
  /\ InventoryCurrent /\ ListsCurrent

\* The wire has a length, and an answer under way its coroutine.
LEMMA WireFacts ==
  ASSUME DialogInv
  PROVE  /\ Len(wire) \in Nat /\ DOMAIN wire = 1..Len(wire)
         /\ \A i \in 1..Len(wire) : wire[i].kind = "answer" =>
              /\ wire[i].call \in Call /\ calls[wire[i].call].stage # "none"
              /\ calls[wire[i].call].served
BY MessageKinds DEF DialogInv, WireInv, WireType, AnswerAwaited, IsAnswer

\* The window works on while nothing is sent or arrives: it reads nothing.
LEMMA WindowInTurn ==
  ASSUME DialogInv, InTurnInv, UNCHANGED <<session, serviceVars, wire>>,
         \A k \in Call : calls[k].stage # "none" => Kept(k),
         inventory'.phase = "ready" => inventory' = inventory
  PROVE  InTurnInv'
<1>1. /\ UNCHANGED <<service, made, stored>>
      /\ \A i \in 1..Len(wire) : Rewrites(wire[i])' = Rewrites(wire[i])
      /\ \A i \in 1..Len(wire) : Lists(wire[i])' = Lists(wire[i])
  BY WireFacts DEF Rewrites, Lists, Kept, serviceVars
<1>2. ASSUME NEW i \in Nat, NEW r, Current(i, r)
      PROVE  Current(i, r)'
  <2>1. \A j \in i + 1..Len(wire) : j \in 1..Len(wire)
    BY WireFacts
  <2>. QED  BY <1>1, <1>2, <2>1 DEF Current, Outdated, Ends
<1>3. InventoryCurrent'
  BY <1>1, <1>2 DEF InTurnInv, InventoryCurrent
<1>4. ListsCurrent'
  <2> SUFFICES ASSUME NEW i \in 1..Len(wire), Lists(wire[i])
               PROVE  Current(i, wire[i].report)'
    BY <1>1 DEF ListsCurrent
  <2>1. PICK r : r = wire[i].report /\ r = wire'[i].report
    OBVIOUS
  <2>2. Current(i, r)
    BY <2>1 DEF InTurnInv, ListsCurrent
  <2>3. i \in Nat
    BY WireFacts
  <2>4. Current(i, r)'
    BY <1>2, <2>2, <2>3
  <2>. QED  BY <2>1, <2>4 DEF Current, Outdated
<1>5. \E V : IdsRight(V)'
  BY <1>1 DEF InTurnInv, IdsRight, IdAfter
<1>. QED  BY <1>1, <1>3, <1>4, <1>5 DEF InTurnInv

\* A message is sent: what is shown and listed stays current, or the message is one
\* after which it is gone.
LEMMA SendInTurn ==
  ASSUME DialogInv, InTurnInv, NEW m \in Message, Send(m), UNCHANGED <<session, inventory>>,
         \A k \in Call : calls[k].stage # "none" /\ calls[k].served => Kept(k),
         service' \in [id : 0..MaxSelections, token : Token \cup {None}],
         service'.id <= made', service'.id = IdAfter(m, service.id),
         m.kind = "snapshot" => m.id # service.id,
         UNCHANGED <<service, stored>> \/ Ends(m) \/ Rewrites(m)',
         Lists(m)' => service'.id # 0 /\ m.report = stored'[service'.token]
  PROVE  InTurnInv'
<1>1. PICK n : n = Len(wire)
  OBVIOUS
<1>2. /\ n \in Nat /\ wire' = Append(wire, m) /\ wire \in Seq(Message)
      /\ DOMAIN wire = 1..n
  BY <1>1, WireFacts DEF Send, DialogInv, WireInv, WireType
<1>3. /\ Len(wire') = n + 1 /\ wire'[n + 1] = m
      /\ \A i \in 1..n : wire'[i] = wire[i]
  BY <1>1, <1>2
<1>4. ASSUME NEW i \in 1..n
      PROVE  \E o : /\ o = wire[i] /\ o = wire'[i]
                    /\ Rewrites(o) => Rewrites(o)'
                    /\ Lists(o)' => Lists(o)
  <2>1. PICK o : o = wire[i] /\ o = wire'[i]
    BY <1>3
  <2>2. o.kind = "answer" => calls'[o.call] = calls[o.call]
    BY <1>1, <2>1, WireFacts DEF Kept
  <2>3. Rewrites(o) => Rewrites(o)'
    BY <2>2 DEF Rewrites
  <2>4. Lists(o)' => Lists(o)
    BY <2>2 DEF Lists
  <2>. QED  BY <2>1, <2>3, <2>4
<1>5. ASSUME NEW i \in 0..n, NEW r, Current(i, r)
      PROVE  Current(i, r)'
  <2>1. CASE Outdated(i)
    <3>1. PICK j \in i + 1..n : Ends(wire[j]) \/ Rewrites(wire[j])
      BY <1>1, <2>1 DEF Outdated
    <3>2. j \in 1..n /\ j \in i + 1..n + 1
      BY <1>2
    <3>3. PICK o : o = wire[j] /\ o = wire'[j] /\ (Rewrites(o) => Rewrites(o)')
      BY <1>4, <3>2
    <3>4. Ends(o) \/ Rewrites(o)'
      BY <3>1, <3>3
    <3>. QED  BY <1>3, <3>2, <3>3, <3>4 DEF Current, Outdated, Ends, Rewrites
  <2>2. CASE Ends(m) \/ Rewrites(m)'
    <3>1. n + 1 \in i + 1..n + 1
      BY <1>2
    <3>. QED  BY <1>3, <2>2, <3>1 DEF Current, Outdated, Ends, Rewrites
  <2>3. CASE UNCHANGED <<service, stored>> /\ service.id # 0 /\ r = stored[service.token]
    BY <2>3 DEF Current
  <2>. QED  BY <1>5, <2>1, <2>2, <2>3 DEF Current
<1>6. InventoryCurrent'
  BY <1>2, <1>5 DEF InTurnInv, InventoryCurrent
<1>7. ListsCurrent'
  <2> SUFFICES ASSUME NEW i \in 1..n + 1, NEW o, o = wire'[i], Lists(o)'
               PROVE  Current(i, o.report)'
    BY <1>3 DEF ListsCurrent, Lists, Current, Outdated
  <2>1. CASE i = n + 1
    <3>1. o = m
      BY <1>3, <2>1
    <3>. QED  BY <3>1 DEF Current
  <2>2. CASE i \in 1..n
    <3>1. o = wire[i] /\ Lists(o)
      BY <1>4, <2>2
    <3>2. Current(i, o.report) /\ i \in 0..n
      BY <1>1, <1>2, <2>2, <3>1 DEF InTurnInv, ListsCurrent
    <3>. QED  BY <1>5, <3>2
  <2>. QED  BY <1>2, <2>1, <2>2
<1>8. \E V : IdsRight(V)'
  <2>1. PICK V : IdsRight(V)
    BY DEF InTurnInv
  <2>2. PICK id : id = IdAfter(m, service.id)
    OBVIOUS
  <2>3. PICK W : W = [j \in 1..n + 2 |-> IF j <= n + 1 THEN V[j] ELSE id]
    OBVIOUS
  <2>4. id \in 0..MaxSelections /\ id = service'.id
    BY <2>2
  <2>5. V \in [1..n + 1 -> 0..MaxSelections]
    BY <1>1, <2>1 DEF IdsRight
  <2>6. W \in [1..n + 2 -> 0..MaxSelections]
    BY <1>2, <2>3, <2>4, <2>5
  <2>7. W[n + 2] = id /\ \A j \in 1..n + 1 : W[j] = V[j]
    BY <1>2, <2>3
  <2>8. V[1] = session.id /\ V[n + 1] = service.id
    BY <1>1, <2>1 DEF IdsRight
  <2>9. W[1] = session'.id /\ W[n + 1] = service.id /\ n + 2 = (n + 1) + 1
    BY <1>2, <2>7, <2>8
  <2>10. ASSUME NEW i \in 1..n + 1
         PROVE  /\ W[i + 1] = IdAfter(wire'[i], W[i])
                /\ wire'[i].kind = "snapshot" => wire'[i].id # W[i]
    <3>1. CASE i = n + 1
      BY <1>2, <1>3, <2>2, <2>7, <2>9, <3>1
    <3>2. CASE i \in 1..n
      <4>1. W[i + 1] = V[i + 1] /\ W[i] = V[i]
        BY <1>2, <2>7, <3>2
      <4>2. /\ V[i + 1] = IdAfter(wire[i], V[i])
            /\ wire[i].kind = "snapshot" => wire[i].id # V[i]
        BY <1>1, <2>1, <3>2 DEF IdsRight
      <4>. QED  BY <1>3, <3>2, <4>1, <4>2
    <3>. QED  BY <1>2, <3>1, <3>2
  <2>11. IdsRight(W)'
    <3>1. Len(wire') + 1 = n + 2
      BY <1>2, <1>3
    <3>. QED  BY <1>3, <2>4, <2>6, <2>7, <2>9, <2>10, <3>1 DEF IdsRight, IdAfter
  <2>. QED  BY <2>11
<1>. QED  BY <1>6, <1>7, <1>8 DEF InTurnInv

\* The first message arrives: what is shown after it was listed by it or shown before.
LEMMA ArriveInTurn ==
  ASSUME DialogInv, InTurnInv, wire # <<>>, wire' = RemoveAt(wire, 1), UNCHANGED serviceVars,
         session'.id = IdAfter(wire[1], session.id),
         \A k \in Call : calls[k].stage # "none" /\ ~(IsAnswer(1) /\ wire[1].call = k) => Kept(k),
         inventory'.phase = "ready" =>
           /\ ~Ends(wire[1]) /\ ~Rewrites(wire[1])
           /\ inventory' = inventory \/ (Lists(wire[1]) /\ inventory'.report = wire[1].report)
  PROVE  InTurnInv'
<1>1. PICK n : n = Len(wire)
  OBVIOUS
<1>2. n \in Nat /\ n >= 1 /\ wire \in Seq(Message) /\ DOMAIN wire = 1..n
  BY <1>1 DEF DialogInv, WireInv, WireType
<1>3. Len(wire') = n - 1 /\ \A j \in 1..n - 1 : wire'[j] = wire[j + 1]
  BY <1>1, <1>2, Removed
<1>4. ASSUME NEW j \in 1..n - 1
      PROVE  \E o : /\ o = wire[j + 1] /\ o = wire'[j]
                    /\ Rewrites(o) => Rewrites(o)'
                    /\ Lists(o)' => Lists(o)
  <2>1. PICK o : o = wire[j + 1] /\ o = wire'[j]
    BY <1>3
  <2>2. j + 1 \in DOMAIN wire /\ 1 \in DOMAIN wire /\ j + 1 # 1
    BY <1>2
  <2>3. o.kind = "answer" => calls'[o.call] = calls[o.call]
    <3>1. o.kind = "answer" => o.call \in Call /\ calls[o.call].stage # "none"
      BY <1>1, <1>2, <2>1, <2>2, WireFacts
    <3>2. o.kind = "answer" => ~(IsAnswer(1) /\ wire[1].call = o.call)
      BY <2>1, <2>2 DEF DialogInv, WireInv, AnswerAwaited, IsAnswer
    <3>. QED  BY <3>1, <3>2 DEF Kept
  <2>4. Rewrites(o) => Rewrites(o)'
    BY <2>3 DEF Rewrites
  <2>5. Lists(o)' => Lists(o)
    BY <2>3 DEF Lists
  <2>. QED  BY <2>1, <2>4, <2>5
<1>5. ASSUME NEW i \in 0..n - 1, NEW r, Current(i + 1, r)
      PROVE  Current(i, r)'
  <2>1. CASE Outdated(i + 1)
    <3>1. PICK j \in (i + 1) + 1..n : Ends(wire[j]) \/ Rewrites(wire[j])
      BY <1>1, <2>1 DEF Outdated
    <3>2. PICK l \in i + 1..n - 1 : j = l + 1 /\ l \in 1..n - 1
      <4>1. j - 1 \in i + 1..n - 1 /\ j = (j - 1) + 1 /\ j - 1 \in 1..n - 1
        BY <1>2
      <4>. QED  BY <4>1
    <3>3. PICK o : o = wire[j] /\ o = wire'[l] /\ (Rewrites(o) => Rewrites(o)')
      BY <1>4, <3>2
    <3>4. Ends(o) \/ Rewrites(o)'
      BY <3>1, <3>3
    <3>. QED  BY <1>3, <3>2, <3>3, <3>4 DEF Current, Outdated, Ends, Rewrites
  <2>2. CASE service.id # 0 /\ r = stored[service.token]
    BY <2>2 DEF Current, serviceVars
  <2>. QED  BY <1>5, <2>1, <2>2 DEF Current
<1>6. InventoryCurrent'
  <2> SUFFICES ASSUME inventory'.phase = "ready", NEW r, r = inventory'.report
               PROVE  Current(0, r)'
    BY DEF InventoryCurrent, Current, Outdated
  <2>2. Current(0 + 1, r)
    <3>1. CASE inventory' = inventory
      <4>1. Current(0, r)
        BY <3>1 DEF InTurnInv, InventoryCurrent
      <4>2. ASSUME NEW j \in 0 + 1..n, Ends(wire[j]) \/ Rewrites(wire[j])
            PROVE  j \in (0 + 1) + 1..n
        <5>1. j # 1
          BY <4>2
        <5>. QED  BY <1>2, <5>1
      <4>. QED  BY <1>1, <4>1, <4>2 DEF Current, Outdated
    <3>2. CASE Lists(wire[1]) /\ r = wire[1].report
      <4>1. 1 \in 1..Len(wire) /\ 0 + 1 = 1
        BY <1>1, <1>2
      <4>2. Current(1, r)
        BY <3>2, <4>1 DEF InTurnInv, ListsCurrent
      <4>. QED  BY <4>1, <4>2
    <3>. QED  BY <3>1, <3>2
  <2>3. 0 \in 0..n - 1
    BY <1>2
  <2>. QED  BY <1>5, <2>2, <2>3
<1>7. ListsCurrent'
  <2> SUFFICES ASSUME NEW i \in 1..n - 1, NEW o, o = wire'[i], Lists(o)'
               PROVE  Current(i, o.report)'
    BY <1>3 DEF ListsCurrent, Lists, Current, Outdated
  <2>1. o = wire[i + 1] /\ Lists(o)
    BY <1>4
  <2>2. i + 1 \in 1..Len(wire) /\ i \in 0..n - 1
    BY <1>1, <1>2
  <2>3. Current(i + 1, o.report)
    BY <2>1, <2>2 DEF InTurnInv, ListsCurrent
  <2>. QED  BY <1>5, <2>2, <2>3
<1>8. \E V : IdsRight(V)'
  <2>1. PICK V : IdsRight(V)
    BY DEF InTurnInv
  <2>2. PICK W : W = [j \in 1..n |-> V[j + 1]]
    OBVIOUS
  <2>3. V \in [1..n + 1 -> 0..MaxSelections]
    BY <1>1, <2>1 DEF IdsRight
  <2>4. W \in [1..n -> 0..MaxSelections]
    BY <1>2, <2>2, <2>3
  <2>5. \A j \in 1..n : W[j] = V[j + 1]
    BY <2>2
  <2>6. W[1] = session'.id /\ W[n] = service'.id
    <3>1. V[1] = session.id /\ V[n + 1] = service.id /\ V[1 + 1] = IdAfter(wire[1], V[1])
      BY <1>1, <1>2, <2>1 DEF IdsRight
    <3>. QED  BY <1>2, <2>5, <3>1 DEF serviceVars
  <2>7. ASSUME NEW i \in 1..n - 1
        PROVE  /\ W[i + 1] = IdAfter(wire'[i], W[i])
               /\ wire'[i].kind = "snapshot" => wire'[i].id # W[i]
    <3>1. i + 1 \in 1..n /\ i \in 1..n
      BY <1>2
    <3>2. W[i + 1] = V[(i + 1) + 1] /\ W[i] = V[i + 1] /\ wire'[i] = wire[i + 1]
      BY <1>3, <2>5, <3>1
    <3>3. PICK l : l = i + 1
      OBVIOUS
    <3>4. /\ V[l + 1] = IdAfter(wire[l], V[l])
          /\ wire[l].kind = "snapshot" => wire[l].id # V[l]
      BY <1>1, <2>1, <3>1, <3>3 DEF IdsRight
    <3>. QED  BY <3>2, <3>3, <3>4
  <2>8. IdsRight(W)'
    <3>1. Len(wire') + 1 = n
      BY <1>2, <1>3
    <3>. QED  BY <1>3, <2>4, <2>6, <2>7, <3>1 DEF IdsRight, IdAfter
  <2>. QED  BY <2>8
<1>9. service'.id <= made'
  BY DEF InTurnInv, serviceVars
<1>. QED  BY <1>6, <1>7, <1>8, <1>9 DEF InTurnInv

\* The window: a handler begins at most a load, which shows nothing yet.
LEMMA LoadNotReady ==
  ASSUME NEW scr, NEW id, NEW inv \in Inventories, LoadActiveScreen(scr, id, inv)
  PROVE  inventory' = inv \/ inventory'.phase # "ready"
BY DEF LoadActiveScreen, BeginLoad, Inventories

\* What the user does.
LEMMA UserInTurn ==
  ASSUME DialogInv, InTurnInv, User
  PROVE  InTurnInv'
<1>1. inventory \in Inventories /\ CallsType
  BY DEF DialogInv, InventoryType, Inventories, WireInv
<1>2. \A k \in Free : \A call : Start(k, call) => \A j \in Call : calls[j].stage # "none" => Kept(j)
  BY <1>1 DEF CallsType, Free, Start, Kept
<1>3. UNCHANGED calls => \A j \in Call : Kept(j)
  BY DEF Kept
<1>4. ASSUME NEW scr, NEW id, LoadActiveScreen(scr, id, inventory)
      PROVE  /\ \A j \in Call : calls[j].stage # "none" => Kept(j)
             /\ inventory'.phase = "ready" => inventory' = inventory
  <2>1. \A j \in Call : calls[j].stage # "none" => Kept(j)
    BY <1>2, <1>3, <1>4 DEF LoadActiveScreen
  <2>. QED  BY <1>1, <1>4, <2>1, LoadNotReady
<1>5. ASSUME NEW k \in Call, ReloadPasskeys(k)
      PROVE  inventory'.phase # "ready"
  BY <1>1, <1>5 DEF ReloadPasskeys, BeginLoad, Inventories
<1>6. /\ UNCHANGED <<session, serviceVars, wire>>
      /\ inventory'.phase = "ready" => inventory' = inventory
  BY <1>4, <1>5
  DEF User, BeginCredentialUpdate, UpdateCredentialDraft, EditCredentialUpdate,
      ClosePasskeysMutation, PreviewCredentialUpdate, Confirm, ReloadPasskeys,
      PreviewCredentialDelete, NavigateToScreen
<1>7. \A j \in Call : calls[j].stage # "none" => Kept(j)
  BY <1>2, <1>3, <1>4
  DEF User, BeginCredentialUpdate, UpdateCredentialDraft, EditCredentialUpdate,
      ClosePasskeysMutation, PreviewCredentialUpdate, Confirm, ReloadPasskeys,
      PreviewCredentialDelete, NavigateToScreen, Preview
<1>. QED  BY <1>6, <1>7, WindowInTurn

\* The service selects, or gives its selection up.
LEMMA PublishInTurn ==
  ASSUME DialogInv, InTurnInv, Publish
  PROVE  InTurnInv'
<1>1. /\ made \in Nat /\ service.id \in Nat /\ service.id <= made /\ made <= MaxSelections
      /\ service \in [id : 0..MaxSelections, token : Token \cup {None}]
  BY BoundAssumption DEF DialogInv, ServiceType, InTurnInv
<1>2. UNCHANGED <<session, inventory, calls>>
  BY DEF Publish, uiVars
<1>3. CASE /\ made < MaxSelections /\ made' = made + 1
           /\ \E t \in Token : service' = [id |-> made + 1, token |-> t]
           /\ Send([kind |-> "snapshot", id |-> made + 1, attached |-> TRUE])
  <2>1. PICK m : m = [kind |-> "snapshot", id |-> made + 1, attached |-> TRUE]
    OBVIOUS
  <2>2. made + 1 \in 0..MaxSelections /\ made + 1 # service.id
    BY <1>1, <1>3, BoundAssumption
  <2>3. m \in Message /\ m.kind = "snapshot" /\ m.id = made + 1 /\ Send(m)
    BY <1>3, <2>1, <2>2 DEF Message
  <2>4. /\ service' \in [id : 0..MaxSelections, token : Token \cup {None}]
        /\ service'.id = made + 1 /\ service'.id <= made'
    BY <1>1, <1>3, <2>2
  <2>. QED  BY <1>2, <2>2, <2>3, <2>4, SendInTurn DEF IdAfter, Ends, Lists, Kept
<1>4. ASSUME NEW att \in BOOLEAN, service.id # 0, service' = [id |-> 0, token |-> None],
             Send([kind |-> "snapshot", id |-> 0, attached |-> att]), UNCHANGED made
      PROVE  InTurnInv'
  <2>1. PICK m : m = [kind |-> "snapshot", id |-> 0, attached |-> att]
    OBVIOUS
  <2>2. 0 \in 0..MaxSelections
    BY BoundAssumption
  <2>3. m \in Message /\ m.kind = "snapshot" /\ m.id = 0 /\ Send(m)
    BY <1>4, <2>1, <2>2 DEF Message
  <2>4. /\ service' \in [id : 0..MaxSelections, token : Token \cup {None}]
        /\ service'.id = 0 /\ service'.id <= made'
    BY <1>1, <1>4, <2>2
  <2>. QED  BY <1>2, <1>4, <2>3, <2>4, SendInTurn DEF IdAfter, Ends, Lists, Kept
<1>. QED  BY <1>3, <1>4 DEF Publish

\* The service answers, and what failed had no effect.
LEMMA ServeInTurn ==
  ASSUME DialogInv, InTurnInv, NEW k \in Call, Serve(k), stored' # stored => Last(wire').ok
  PROVE  InTurnInv'
<1>1. PICK ok \in BOOLEAN, closed \in BOOLEAN :
        /\ service.id = 0 => ~ok /\ closed
        /\ service' = IF closed THEN [id |-> 0, token |-> None] ELSE service
        /\ Send([kind |-> "answer", call |-> k, ok |-> ok, closed |-> closed,
                 report |-> IF ok /\ calls[k].stage = "list" THEN stored[service.token] ELSE None])
        /\ calls[k].stage # "execute" => UNCHANGED stored
  BY DEF Serve
<1>2. PICK m : m = [kind |-> "answer", call |-> k, ok |-> ok, closed |-> closed,
                    report |-> IF ok /\ calls[k].stage = "list" THEN stored[service.token] ELSE None]
  OBVIOUS
<1>3. /\ m.kind = "answer" /\ m.call = k /\ m.ok = ok /\ m.closed = closed
      /\ ok /\ calls[k].stage = "list" => m.report = stored[service.token]
  BY <1>2
<1>4. m \in Message
  <2>1. ok /\ calls[k].stage = "list" => stored[service.token] \in Report
    BY <1>1 DEF DialogInv, ServiceType, TypeOK, Report
  <2>. QED  BY <1>2, <2>1 DEF Message
<1>5. Send(m)
  BY <1>1, <1>2
<1>6. /\ calls' = [calls EXCEPT ![k].served = TRUE] /\ ~calls[k].served
      /\ calls[k].stage \in {"list", "preview", "execute", "other"} /\ calls[k] \in Coroutine
      /\ UNCHANGED <<session, inventory, made>>
  BY DEF Serve, uiVars, DialogInv, WireInv, CallsType
<1>7. calls'[k].stage = calls[k].stage /\ \A j \in Call \ {k} : Kept(j)
  <2>1. /\ calls'[k] = [calls[k] EXCEPT !.served = TRUE]
        /\ \A j \in Call \ {k} : calls'[j] = calls[j]
    BY <1>6 DEF DialogInv, WireInv, CallsType
  <2>2. [calls[k] EXCEPT !.served = TRUE].stage = calls[k].stage
    BY <1>6 DEF Coroutine
  <2>. QED  BY <2>1, <2>2 DEF Kept
<1>8. \A j \in Call : calls[j].stage # "none" /\ calls[j].served => Kept(j)
  BY <1>6, <1>7
<1>9. /\ service.id \in Nat /\ service.id <= made /\ made \in Nat
      /\ service \in [id : 0..MaxSelections, token : Token \cup {None}]
  BY BoundAssumption DEF DialogInv, ServiceType, InTurnInv
<1>10. /\ service' \in [id : 0..MaxSelections, token : Token \cup {None}]
       /\ service'.id <= made' /\ service'.id = IdAfter(m, service.id)
  <2>1. CASE closed
    <3>1. 0 \in 0..MaxSelections
      BY BoundAssumption
    <3>. QED  BY <1>1, <1>3, <1>6, <1>9, <2>1, <3>1 DEF IdAfter
  <2>2. CASE ~closed
    BY <1>1, <1>3, <1>6, <1>9, <2>2 DEF IdAfter
  <2>. QED  BY <2>1, <2>2
<1>11. Last(wire') = m
  BY <1>4, <1>5, Sent DEF Send, Last, DialogInv, WireInv, WireType
<1>12. UNCHANGED <<service, stored>> \/ Ends(m) \/ Rewrites(m)'
  BY <1>1, <1>3, <1>7, <1>11 DEF Ends, Rewrites
<1>13. Lists(m)' => service'.id # 0 /\ m.report = stored'[service'.token]
  BY <1>1, <1>3, <1>7 DEF Lists
<1>. QED  BY <1>3, <1>4, <1>5, <1>6, <1>8, <1>10, <1>12, <1>13, SendInTurn

\* The selection of the window is not that of the next snapshot.
LEMMA NextSnapshot ==
  ASSUME DialogInv, InTurnInv, wire # <<>>, wire[1].kind = "snapshot"
  PROVE  wire[1].id # session.id
<1>1. PICK V : IdsRight(V)
  BY DEF InTurnInv
<1>2. 1 \in 1..Len(wire)
  BY DEF DialogInv, WireInv, WireType
<1>. QED  BY <1>1, <1>2 DEF IdsRight

\* A snapshot arrives: nothing of the session before it is shown.
LEMMA DiscoveryInTurn ==
  ASSUME DialogInv, InTurnInv, wire # <<>>, HandleDiscoveryChanged(1)
  PROVE  InTurnInv'
<1>1. /\ wire[1].kind = "snapshot" /\ wire' = RemoveAt(wire, 1)
      /\ session' = [id |-> wire[1].id, attached |-> wire[1].attached]
      /\ UNCHANGED serviceVars
  BY DEF HandleDiscoveryChanged, Deliver
<1>2. [id |-> wire[1].id, attached |-> wire[1].attached] # session
  BY <1>1, NextSnapshot
<1>3. \/ LoadActiveScreen(screen, wire[1].id, EmptyInventory)
      \/ inventory' = EmptyInventory /\ UNCHANGED <<busy, calls>>
  BY <1>2 DEF HandleDiscoveryChanged
<1>4. EmptyInventory \in Inventories /\ EmptyInventory.phase = "idle"
  BY DEF EmptyInventory, Inventories
<1>5. inventory'.phase # "ready"
  BY <1>3, <1>4, LoadNotReady
<1>6. \A j \in Call : calls[j].stage # "none" => Kept(j)
  BY <1>3 DEF LoadActiveScreen, Free, Start, Kept, DialogInv, WireInv, CallsType
<1>. QED  BY <1>1, <1>5, <1>6, ArriveInTurn DEF IdAfter

\* An answer arrives: it lists what is there, or leaves what was shown, or nothing
\* that is ready.
LEMMA ReturnInTurn ==
  ASSUME DialogInv, InTurnInv, wire # <<>>, CallReturns(1)
  PROVE  InTurnInv'
<1>1. PICK a : a = wire[1]
  OBVIOUS
<1>2. PICK call : call = calls[a.call]
  OBVIOUS
<1>3. 1 \in DOMAIN wire /\ IsAnswer(1) /\ a.kind = "answer" /\ wire' = RemoveAt(wire, 1)
  BY <1>1 DEF CallReturns, Deliver, IsAnswer
<1>4. /\ a.call \in Call /\ a.ok \in BOOLEAN /\ a.closed \in BOOLEAN
      /\ call \in Coroutine /\ call.stage # "none"
  BY <1>1, <1>2, <1>3, MessageKinds DEF DialogInv, WireInv, AnswerAwaited, CallsType
<1>5. /\ session' = IF a.closed THEN [session EXCEPT !.id = 0] ELSE session
      /\ UNCHANGED serviceVars
      /\ \/ calls' = [calls EXCEPT ![a.call] = Loads("list")]
         \/ calls' = [calls EXCEPT ![a.call] = NoCall]
      /\ inventory' = CASE ~Reloads(call, a) -> Completed(Returns(call, a), a.closed).inventory
                        [] Reloads(call, a) /\ session.attached ->
                             BeginLoad(Completed(Returns(call, a), a.closed).inventory)
                        [] OTHER -> EmptyInventory
  BY <1>1, <1>2 DEF CallReturns, Start
<1>6. \A j \in Call \ {a.call} : Kept(j)
  BY <1>4, <1>5 DEF Kept, DialogInv, WireInv, CallsType
<1>7. session'.id = IdAfter(a, session.id)
  BY <1>3, <1>5 DEF IdAfter, DialogInv, TypeOK
<1>8. EmptyInventory.phase = "idle"
  BY DEF EmptyInventory
<1>9. ASSUME inventory'.phase = "ready"
      PROVE  /\ ~Ends(a) /\ ~Rewrites(a)
             /\ inventory' = inventory \/ (Lists(a) /\ inventory'.report = a.report)
  <2>1. Reloads(call, a) \in BOOLEAN /\ (Reloads(call, a) <=> call.stage = "execute" /\ a.ok)
    BY <1>4 DEF Reloads
  <2>2. CASE Reloads(call, a)
    <3>1. \A inv : BeginLoad(inv).phase # "ready" \/ inv \notin Inventories
      BY DEF BeginLoad, Inventories
    <3>2. Completed(Returns(call, a), a.closed).inventory \in Inventories
      <4>1. a.report \in Report \cup {None}
        BY <1>1, <1>3, MessageKinds DEF DialogInv, WireInv
      <4>2. Settled(Returns(call, a).inventory)
        BY <1>4, <4>1, Continued
      <4>3. EmptyInventory \in Inventories
        BY DEF EmptyInventory, Inventories
      <4>4. CASE a.closed
        BY <4>3, <4>4 DEF Completed, Stores
      <4>5. CASE ~a.closed
        BY <4>2, <4>5 DEF Completed, Settled
      <4>. QED  BY <4>4, <4>5
    <3>. QED  BY <1>5, <1>8, <1>9, <2>2, <3>1, <3>2
  <2>3. CASE ~Reloads(call, a)
    <3>1. inventory' = Completed(Returns(call, a), a.closed).inventory
      BY <1>5, <2>3
    <3>2. ~a.closed
      BY <1>8, <1>9, <3>1 DEF Completed, Stores
    <3>3. inventory' = Returns(call, a).inventory
      BY <3>1, <3>2 DEF Completed
    <3>4. ~Ends(a) /\ ~Rewrites(a)
      BY <1>2, <1>3, <2>1, <2>3, <3>2 DEF Ends, Rewrites
    <3>5. call.stage \in {"list", "other", "preview", "execute"}
      BY <1>4 DEF Coroutine
    <3>6. CASE call.stage = "list"
      <4>1. inventory' = ListReturns(a).inventory
        BY <3>3, <3>6 DEF Returns
      <4>2. CASE a.ok
        <5>1. inventory' = [phase |-> "ready", report |-> a.report]
          BY <4>1, <4>2 DEF ListReturns, Stores
        <5>. QED  BY <1>2, <1>3, <3>2, <3>4, <3>6, <4>2, <5>1 DEF Lists
      <4>3. CASE ~a.ok
        <5>1. inventory' = [inventory EXCEPT !.phase = "error"]
          BY <4>1, <4>3 DEF ListReturns, Stores
        <5>. QED  BY <1>9, <5>1 DEF DialogInv, InventoryType
      <4>. QED  BY <4>2, <4>3
    <3>7. CASE call.stage \in {"other", "preview", "execute"}
      <4>1. inventory' = inventory
        <5>1. CASE call.stage = "other"
          BY <3>3, <5>1 DEF Returns, Stores
        <5>2. CASE call.stage = "preview"
          BY <3>3, <5>2 DEF Returns, PreviewReturns, Stores
        <5>3. CASE call.stage = "execute"
          BY <3>3, <5>3 DEF Returns, ExecuteReturns, Stores
        <5>. QED  BY <3>7, <5>1, <5>2, <5>3
      <4>. QED  BY <3>4, <4>1
    <3>. QED  BY <3>5, <3>6, <3>7
  <2>. QED  BY <2>1, <2>2, <2>3
<1>10. /\ inventory'.phase = "ready" =>
            /\ ~Ends(wire[1]) /\ ~Rewrites(wire[1])
            /\ inventory' = inventory \/ (Lists(wire[1]) /\ inventory'.report = wire[1].report)
  BY <1>1, <1>9
<1>. QED  BY <1>1, <1>3, <1>5, <1>6, <1>7, <1>10, ArriveInTurn

\* Every step of an instance is one of the program, and in the second shape it keeps
\* what is current.
LEMMA ShapedInvariant == ShapedSpec => [](DialogInv /\ (shape = "sessions" => InTurnInv))
<1> DEFINE Inv == DialogInv /\ (shape = "sessions" => InTurnInv)
<1>1. ASSUME ShapedInit PROVE Inv
  <2>1. Init
    BY <1>1 DEF ShapedInit
  <2>2. DialogInv
    BY <2>1, DialogInit
  <2>3. wire = <<>> /\ Len(wire) = 0 /\ session.id = 0 /\ service.id = 0 /\ made = 0
    BY <2>1 DEF Init
  <2>4. PICK V : V = [j \in 1..1 |-> 0]
    OBVIOUS
  <2>5. V \in [1..1 -> 0..MaxSelections] /\ V[1] = 0
    BY <2>4, BoundAssumption
  <2>6. IdsRight(V)
    BY <2>3, <2>5 DEF IdsRight
  <2>7. InventoryCurrent /\ ListsCurrent
    BY <2>1, <2>3 DEF Init, EmptyInventory, InventoryCurrent, ListsCurrent
  <2>. QED  BY <2>2, <2>3, <2>6, <2>7 DEF InTurnInv
<1>2. ASSUME Inv, [ShapedNext]_<<vars, shape>> PROVE Inv'
  <2>1. [Next]_vars
    <3>1. wire # <<>> /\ Arrives(1) => Arrival
      BY <1>2 DEF Arrival, DialogInv, WireInv, WireType
    <3>. QED  BY <1>2, <3>1 DEF ShapedNext, Next
  <2>2. DialogInv'
    BY <1>2, <2>1, DialogNext
  <2>3. UNCHANGED shape
    BY <1>2 DEF ShapedNext
  <2>4. ASSUME shape = "sessions", InTurnInv PROVE InTurnInv'
    <3>1. CASE UNCHANGED vars
      BY <1>2, <2>4, <3>1, WindowInTurn DEF vars, uiVars, serviceVars, Kept
    <3>2. CASE User
      BY <1>2, <2>4, <3>2, UserInTurn
    <3>3. CASE Publish
      BY <1>2, <2>4, <3>3, PublishInTurn
    <3>4. ASSUME NEW k \in Call, Serve(k), stored' # stored => Last(wire').ok
          PROVE  InTurnInv'
      BY <1>2, <2>4, <3>4, ServeInTurn
    <3>5. CASE wire # <<>> /\ Arrives(1)
      BY <1>2, <2>4, <3>5, DiscoveryInTurn, ReturnInTurn DEF Arrives
    <3>. QED
      BY <1>2, <2>4, <3>1, <3>2, <3>3, <3>4, <3>5 DEF ShapedNext, Service
  <2>. QED  BY <1>2, <2>2, <2>3, <2>4
<1>. QED  BY <1>1, <1>2, PTL DEF ShapedSpec

\* When nothing is under way, an inventory that is shown as ready is what the selected
\* authenticator holds, whatever was executed, selected, lost or loaded before, if
\* answers come in the order they were sent and failures have no effect
\* (loadPasskeys, confirmCredentialUpdate, confirmCredentialDelete).
THEOREM InventoryIsCurrent == ShapedSpec => []SettledIsCurrent
<1>1. ASSUME DialogInv, shape = "sessions" => InTurnInv
      PROVE  SettledIsCurrent
  <2> SUFFICES ASSUME InTurnInv, wire = <<>>, inventory.phase = "ready"
               PROVE  service.id # 0 /\ inventory.report = stored[service.token]
    BY <1>1 DEF SettledIsCurrent, ReadyIsCurrent
  <2>1. Len(wire) = 0 /\ ~\E j \in 0 + 1..0 : TRUE
    OBVIOUS
  <2>2. Current(0, inventory.report)
    BY DEF InTurnInv, InventoryCurrent
  <2>. QED  BY <2>1, <2>2 DEF Current, Outdated
<1>. QED  BY <1>1, ShapedInvariant, PTL

=============================================================================
