----------------------- MODULE WorkbenchSessionProofs -----------------------
(***************************************************************************)
(* Theorems about WorkbenchSession and the instance of it that TLC checks, *)
(* for any number of operations, selections, prompts, snapshots and        *)
(* messages under way.                                                     *)
(***************************************************************************)
EXTENDS MCWorkbenchSession, TLAPS

PromptId == Op \X (1..MaxPrompts)
Message ==
  [kind : {"snapshot"}, sel : Selection \cup {None}, att : BOOLEAN]
  \cup [kind : {"progress"}, op : Op]
  \cup {Prompt(o, n) : o \in Op, n \in 1..MaxPrompts}
  \cup [kind : {"envelope"}, op : Op, ok : BOOLEAN, closed : BOOLEAN]
  \cup [kind : {"cancel"}, op : Op, answer : {"true", "false"}]
  \cup [kind : {"answer"}, id : PromptId, answer : {"true", "false"}]

WireType == wire \in Seq(Message)

Is(kind, i) == wire[i].kind = kind

\* The types of what TypeOK leaves out, and of its parts that no message disturbs.
StoreType ==
  /\ attached \in BOOLEAN
  /\ session \in Selection \cup {None} /\ selected \in Selection \cup {None}
  /\ active \in Activity \cup {None}
  /\ prompt \in PromptId \cup {None}
  /\ inventory \in [phase : Phase, report : Selection \cup {None}]
  /\ screen \in {"inventory", "other"}
  /\ cancelling \in SUBSET Op /\ answering \in SUBSET PromptId
  /\ made \in SUBSET Selection
TaskType == task \in [Op -> {"idle", "inventory", "other"}]
RunType ==
  /\ run \in [Op -> {"none", "sent", "running", "prompting", "ended"}]
  /\ prompts \in [Op -> 0..MaxPrompts]
  /\ runSel \in [Op -> Selection \cup {None}]

\* An envelope is of an operation that has ended, and the only one of it.
EnvelopeOnce ==
  \A i \in DOMAIN wire : Is("envelope", i) =>
    /\ run[wire[i].op] = "ended"
    /\ \A j \in DOMAIN wire : Is("envelope", j) /\ wire[j].op = wire[i].op => j = i

\* An operation is awaited while it is with the service or on its way back.
Awaited ==
  \A o \in Op : task[o] # "idle" <=>
    \/ run[o] \in {"sent", "running", "prompting"}
    \/ \E i \in DOMAIN wire : Is("envelope", i) /\ wire[i].op = o

\* An operation that runs was given the selection that the service has, unless
\* that was given up since.
RunsOnSelected ==
  \A o \in InFlight : /\ runSel[o] # None
                      /\ runSel[o] \notin lost => runSel[o] = selected

\* Inductive, in any order of delivery.
TaskInv ==
  /\ StoreType /\ TaskType /\ RunType /\ WireType
  /\ EnvelopeOnce /\ Awaited /\ RunsOnSelected /\ LoadingHasLoad

-----------------------------------------------------------------------------
(* The wire.                                                                *)

\* What is sent comes last.
LEMMA Sent ==
  ASSUME WireType, NEW m \in Message, Send(m)
  PROVE  /\ WireType'
         /\ DOMAIN wire' = DOMAIN wire \cup {Len(wire) + 1}
         /\ wire'[Len(wire) + 1] = m
         /\ \A i \in DOMAIN wire : wire'[i] = wire[i] /\ i \in 1..Len(wire)
         /\ Len(wire) \in Nat
BY DEF WireType, Send

\* What is left when one element is taken out.
LEMMA Removed ==
  ASSUME NEW S, NEW s \in Seq(S), NEW i \in DOMAIN s
  PROVE  /\ RemoveAt(s, i) \in Seq(S)
         /\ Len(RemoveAt(s, i)) = Len(s) - 1
         /\ \A j \in 1..Len(s) - 1 : RemoveAt(s, i)[j] = IF j < i THEN s[j] ELSE s[j + 1]
<1> DEFINE a == SubSeq(s, 1, i - 1)
           b == SubSeq(s, i + 1, Len(s))
<1>1. Len(s) \in Nat /\ i \in 1..Len(s)
  OBVIOUS
<1>2. a \in Seq(S) /\ Len(a) = i - 1 /\ \A j \in 1..i - 1 : a[j] = s[j]
  BY <1>1
<1>3. b \in Seq(S) /\ Len(b) = Len(s) - i /\ \A j \in 1..Len(s) - i : b[j] = s[i + j]
  BY <1>1
<1>4. RemoveAt(s, i) = a \o b
  BY DEF RemoveAt
<1> HIDE DEF a, b
<1>5. a \o b \in Seq(S) /\ Len(a \o b) = Len(s) - 1
  BY <1>1, <1>2, <1>3
<1>6. ASSUME NEW j \in 1..Len(s) - 1
      PROVE  (a \o b)[j] = IF j < i THEN s[j] ELSE s[j + 1]
  <2>1. CASE j < i
    BY <1>1, <1>2, <1>3, <2>1
  <2>2. CASE j >= i
    <3>1. (a \o b)[j] = b[j - (i - 1)] /\ j - (i - 1) \in 1..Len(s) - i
      BY <1>1, <1>2, <1>3, <2>2, SMTT(30)
    <3>. QED  BY <1>1, <1>3, <2>2, <3>1, SMTT(30)
  <2>3. j < i \/ j >= i
    BY <1>1
  <2>. QED  BY <2>1, <2>2, <2>3
<1>. QED  BY <1>4, <1>5, <1>6

\* A message is taken out of the wire: those that are left were there before, in
\* this order, and all others are left.
LEMMA Received ==
  ASSUME WireType, NEW kind, NEW i, Deliver(kind, i)
  PROVE  /\ WireType' /\ i \in DOMAIN wire /\ Is(kind, i)
         /\ \E old \in [DOMAIN wire' -> DOMAIN wire \ {i}] :
              /\ \A j \in DOMAIN wire' : wire'[j] = wire[old[j]]
              /\ \A j, l \in DOMAIN wire' : j < l <=> old[j] < old[l]
              /\ \A k \in DOMAIN wire \ {i} : \E j \in DOMAIN wire' : old[j] = k
<1>1. i \in DOMAIN wire /\ Is(kind, i) /\ wire' = RemoveAt(wire, i)
  BY DEF Deliver, Deliverable, Is
<1>2. /\ Len(wire) \in Nat /\ DOMAIN wire = 1..Len(wire) /\ wire' \in Seq(Message)
      /\ Len(wire') = Len(wire) - 1
      /\ \A j \in 1..Len(wire) - 1 : wire'[j] = IF j < i THEN wire[j] ELSE wire[j + 1]
  <2>1. wire \in Seq(Message) /\ Len(wire) \in Nat /\ DOMAIN wire = 1..Len(wire)
    BY DEF WireType
  <2> HIDE DEF Message
  <2>. QED  BY <1>1, <2>1, Removed
<1>3. DOMAIN wire' = 1..Len(wire) - 1
  BY <1>2
<1> DEFINE old == [j \in DOMAIN wire' |-> IF j < i THEN j ELSE j + 1]
<1>4. old \in [DOMAIN wire' -> DOMAIN wire \ {i}]
  BY <1>1, <1>2, <1>3
<1>5. \A j \in DOMAIN wire' : wire'[j] = wire[old[j]]
  BY <1>1, <1>2, <1>3
<1>6. \A j, l \in DOMAIN wire' : j < l <=> old[j] < old[l]
  BY <1>1, <1>2, <1>3
<1>7. \A k \in DOMAIN wire \ {i} : \E j \in DOMAIN wire' : old[j] = k
  <2>1. TAKE k \in DOMAIN wire \ {i}
  <2>2. CASE k < i
    <3>1. k \in DOMAIN wire' /\ old[k] = k
      BY <1>1, <1>2, <1>3, <2>2
    <3>. QED  BY <3>1
  <2>3. CASE k > i
    <3>1. k - 1 \in DOMAIN wire' /\ old[k - 1] = k
      BY <1>1, <1>2, <1>3, <2>3
    <3>. QED  BY <3>1
  <2>. QED  BY <1>1, <1>2, <2>2, <2>3
<1>. QED  BY <1>1, <1>2, <1>4, <1>5, <1>6, <1>7 DEF WireType

\* What the messages of each kind carry.
LEMMA MessageFields ==
  ASSUME WireType, NEW i \in DOMAIN wire
  PROVE  /\ Is("snapshot", i) => wire[i].sel \in Selection \cup {None} /\ wire[i].att \in BOOLEAN
         /\ Is("progress", i) => wire[i].op \in Op
         /\ Is("prompt", i) => wire[i].op \in Op /\ wire[i].id \in PromptId /\ wire[i].id[1] = wire[i].op
         /\ Is("envelope", i) => wire[i].op \in Op /\ wire[i].ok \in BOOLEAN /\ wire[i].closed \in BOOLEAN
         /\ Is("cancel", i) => wire[i].op \in Op /\ wire[i].answer \in {"true", "false"}
         /\ Is("answer", i) => wire[i].id \in PromptId /\ wire[i].answer \in {"true", "false"}
BY DEF WireType, Message, Is, Prompt, PromptId

\* What is sent is of the type of its kind.
LEMMA MessageTypes ==
  /\ \A s \in Selection \cup {None}, att \in BOOLEAN : Snapshot(s, att) \in Message
  /\ \A o \in Op : Progress(o) \in Message
  /\ \A o \in Op, n \in 1..MaxPrompts : Prompt(o, n) \in Message
  /\ \A o \in Op, ok, closed \in BOOLEAN : Envelope(o, ok, closed) \in Message
  /\ \A o \in Op, r \in {"true", "false"} : CancelAnswer(o, r) \in Message
  /\ \A p \in PromptId, r \in {"true", "false"} : PromptAnswer(p, r) \in Message
<1>1. \A s \in Selection \cup {None}, att \in BOOLEAN : Snapshot(s, att) \in Message
  BY DEF Snapshot, Message
<1>2. \A o \in Op : Progress(o) \in Message
  BY DEF Progress, Message
<1>3. \A o \in Op, n \in 1..MaxPrompts : Prompt(o, n) \in Message
  BY DEF Message
<1>4. \A o \in Op, ok, closed \in BOOLEAN : Envelope(o, ok, closed) \in Message
  BY DEF Envelope, Message
<1>5. \A o \in Op, r \in {"true", "false"} : CancelAnswer(o, r) \in Message
  BY DEF CancelAnswer, Message
<1>6. \A p \in PromptId, r \in {"true", "false"} : PromptAnswer(p, r) \in Message
  BY DEF PromptAnswer, Message
<1>. QED  BY <1>1, <1>2, <1>3, <1>4, <1>5, <1>6

-----------------------------------------------------------------------------
(* Operations.                                                              *)

Live(o) == run[o] \in {"sent", "running", "prompting"}

\* An operation goes on or, if it has not been used, begins.
GoesOn(o) ==
  \/ /\ task'[o] # "idle" <=> task[o] # "idle"
     /\ Live(o)' <=> Live(o)
     /\ run'[o] = "ended" <=> run[o] = "ended"
  \/ run[o] = "none" /\ task'[o] # "idle" /\ Live(o)'
AllGoOn == \A o \in Op : GoesOn(o)

\* A step at which nothing is sent, or something else than an envelope.
LEMMA GoOnSending ==
  ASSUME WireType, EnvelopeOnce, Awaited, AllGoOn,
         UNCHANGED wire \/ \E m \in Message : m.kind # "envelope" /\ Send(m)
  PROVE  WireType' /\ EnvelopeOnce' /\ Awaited'
<1>1. WireType'
  BY Sent DEF WireType
<1>2. DOMAIN wire \subseteq DOMAIN wire' /\ \A i \in DOMAIN wire : wire'[i] = wire[i]
  BY Sent
<1>3. \A i \in DOMAIN wire' : Is("envelope", i)' => i \in DOMAIN wire /\ Is("envelope", i)
  BY Sent DEF Is
<1>4. EnvelopeOnce'
  BY <1>2, <1>3, MessageFields DEF EnvelopeOnce, AllGoOn, GoesOn, Is
<1>5. Awaited'
  <2>1. ASSUME NEW o \in Op
        PROVE  (\E i \in DOMAIN wire' : Is("envelope", i)' /\ wire'[i].op = o)
               <=> \E i \in DOMAIN wire : Is("envelope", i) /\ wire[i].op = o
    BY <1>2, <1>3 DEF Is
  <2>2. ASSUME NEW o \in Op, run[o] = "none"
        PROVE  ~\E i \in DOMAIN wire : Is("envelope", i) /\ wire[i].op = o
    BY <2>2 DEF EnvelopeOnce
  <2>. QED  BY <2>1, <2>2 DEF Awaited, AllGoOn, GoesOn, Live
<1>. QED  BY <1>1, <1>4, <1>5

\* A step at which something else than an envelope is received.
LEMMA GoOnReceiving ==
  ASSUME WireType, EnvelopeOnce, Awaited, AllGoOn,
         NEW kind, kind # "envelope", NEW i, Deliver(kind, i)
  PROVE  WireType' /\ EnvelopeOnce' /\ Awaited'
<1>1. WireType' /\ i \in DOMAIN wire /\ Is(kind, i)
  BY Received
<1>2. PICK old \in [DOMAIN wire' -> DOMAIN wire \ {i}] :
        /\ \A j \in DOMAIN wire' : wire'[j] = wire[old[j]]
        /\ \A j, l \in DOMAIN wire' : j < l <=> old[j] < old[l]
        /\ \A k \in DOMAIN wire \ {i} : \E j \in DOMAIN wire' : old[j] = k
  BY Received
<1>3. \A j, l \in DOMAIN wire' : old[j] = old[l] => j = l
  BY <1>1, <1>2 DEF WireType
<1>4. \A j \in DOMAIN wire' : Is("envelope", j)' <=> Is("envelope", old[j])
  BY <1>2 DEF Is
<1>5. EnvelopeOnce'
  BY <1>2, <1>3, <1>4, MessageFields DEF EnvelopeOnce, AllGoOn, GoesOn
<1>6. Awaited'
  <2>1. ASSUME NEW o \in Op
        PROVE  (\E j \in DOMAIN wire' : Is("envelope", j)' /\ wire'[j].op = o)
               <=> \E k \in DOMAIN wire : Is("envelope", k) /\ wire[k].op = o
    BY <1>1, <1>2, <1>4 DEF Is
  <2>2. ASSUME NEW o \in Op, run[o] = "none"
        PROVE  ~\E k \in DOMAIN wire : Is("envelope", k) /\ wire[k].op = o
    BY <2>2 DEF EnvelopeOnce
  <2>. QED  BY <2>1, <2>2 DEF Awaited, AllGoOn, GoesOn, Live
<1>. QED  BY <1>1, <1>5, <1>6

\* An operation ends, and its envelope is sent.
LEMMA EnvelopeSent ==
  ASSUME TaskInv, NEW o \in Op, Live(o), NEW ok \in BOOLEAN, NEW closed \in BOOLEAN,
         run' = [run EXCEPT ![o] = "ended"], UNCHANGED task, Send(Envelope(o, ok, closed))
  PROVE  WireType' /\ EnvelopeOnce' /\ Awaited' /\ DOMAIN wire \subseteq DOMAIN wire'
         /\ \A i \in DOMAIN wire : wire'[i] = wire[i]
         /\ DOMAIN wire' = DOMAIN wire \cup {Len(wire) + 1} /\ Len(wire) + 1 \notin DOMAIN wire
         /\ wire'[Len(wire) + 1] = Envelope(o, ok, closed)
<1> DEFINE n == Len(wire) + 1
<1>1. /\ WireType' /\ DOMAIN wire' = DOMAIN wire \cup {n} /\ wire'[n] = Envelope(o, ok, closed)
      /\ \A i \in DOMAIN wire : wire'[i] = wire[i]
      /\ n \notin DOMAIN wire
  <2>1. Envelope(o, ok, closed) \in Message /\ WireType
    BY MessageTypes DEF TaskInv
  <2>2. PICK m \in Message : m = Envelope(o, ok, closed) /\ Send(m)
    BY <2>1
  <2>3. /\ WireType' /\ DOMAIN wire' = DOMAIN wire \cup {n} /\ wire'[n] = m
        /\ \A i \in DOMAIN wire : wire'[i] = wire[i]
    BY <2>1, <2>2, Sent
  <2>4. n \notin DOMAIN wire
    BY <2>1 DEF WireType
  <2>. QED  BY <2>2, <2>3, <2>4
<1>2. wire'[n].kind = "envelope" /\ wire'[n].op = o
  BY <1>1 DEF Envelope
<1> HIDE DEF n
<1>3. \A i \in DOMAIN wire : Is("envelope", i) => wire[i].op # o
  BY DEF TaskInv, EnvelopeOnce, Live
<1>4. run'[o] = "ended" /\ \A p \in Op \ {o} : run'[p] = run[p]
  BY DEF TaskInv, RunType
<1>5. EnvelopeOnce'
  BY <1>1, <1>2, <1>3, <1>4, MessageFields DEF EnvelopeOnce, Is, TaskInv
<1>6. Awaited'
  <2>1. task'[o] # "idle"
    BY DEF TaskInv, Awaited, Live
  <2>2. \E i \in DOMAIN wire' : Is("envelope", i)' /\ wire'[i].op = o
    BY <1>1, <1>2 DEF Is
  <2>3. ASSUME NEW p \in Op, p # o
        PROVE  (\E j \in DOMAIN wire' : Is("envelope", j)' /\ wire'[j].op = p)
               <=> \E k \in DOMAIN wire : Is("envelope", k) /\ wire[k].op = p
    BY <1>1, <1>2, <2>3 DEF Is
  <2>. QED  BY <1>4, <2>1, <2>2, <2>3 DEF TaskInv, Awaited
<1>. QED  BY <1>1, <1>5, <1>6 DEF n

\* An envelope is received: its operation is no longer awaited.
LEMMA EnvelopeReceived ==
  ASSUME TaskInv, NEW i, Deliver("envelope", i), task' = [task EXCEPT ![wire[i].op] = "idle"],
         UNCHANGED run
  PROVE  WireType' /\ EnvelopeOnce' /\ Awaited'
<1>1. WireType' /\ i \in DOMAIN wire /\ Is("envelope", i)
  BY Received DEF TaskInv
<1>2. PICK old \in [DOMAIN wire' -> DOMAIN wire \ {i}] :
        /\ \A j \in DOMAIN wire' : wire'[j] = wire[old[j]]
        /\ \A j, l \in DOMAIN wire' : j < l <=> old[j] < old[l]
        /\ \A k \in DOMAIN wire \ {i} : \E j \in DOMAIN wire' : old[j] = k
  BY Received DEF TaskInv
<1>3. \A j, l \in DOMAIN wire' : old[j] = old[l] => j = l
  BY <1>1, <1>2 DEF WireType, TaskInv
<1>4. \A j \in DOMAIN wire' : Is("envelope", j)' <=> Is("envelope", old[j])
  BY <1>2 DEF Is
<1>5. EnvelopeOnce'
  BY <1>2, <1>3, <1>4 DEF EnvelopeOnce, TaskInv
<1>6. wire[i].op \in Op
  BY <1>1, MessageFields DEF TaskInv
<1>7. Awaited'
  <2> DEFINE o == wire[i].op
  <2>1. task'[o] = "idle" /\ \A p \in Op \ {o} : task'[p] = task[p]
    BY <1>6 DEF TaskInv, TaskType
  <2>2. run'[o] = "ended"
    BY <1>1 DEF TaskInv, EnvelopeOnce
  <2>3. ~\E j \in DOMAIN wire' : Is("envelope", j)' /\ wire'[j].op = o
    BY <1>1, <1>2, <1>4 DEF TaskInv, EnvelopeOnce
  <2>4. ASSUME NEW p \in Op, p # o
        PROVE  (\E j \in DOMAIN wire' : Is("envelope", j)' /\ wire'[j].op = p)
               <=> \E k \in DOMAIN wire : Is("envelope", k) /\ wire[k].op = p
    BY <1>1, <1>2, <1>4, <2>4
  <2> HIDE DEF o
  <2>. QED  BY <2>1, <2>2, <2>3, <2>4 DEF TaskInv, Awaited
<1>. QED  BY <1>1, <1>5, <1>7

\* The operations that run at the service stay the same.
SameInFlight == InFlight' = InFlight

\* An operation begins.
LEMMA Begins ==
  ASSUME TaskType, RunType, NEW o \in Op, run[o] = "none", NEW kind \in {"inventory", "other"},
         StartOperation(o, kind)
  PROVE  /\ TaskType' /\ run' \in [Op -> {"none", "sent", "running", "prompting", "ended"}]
         /\ AllGoOn /\ SameInFlight
         /\ active' \in Activity \cup {None}
         /\ task'[o] = kind /\ \A p \in Op : task[p] = "inventory" => p = o \/ task'[p] = "inventory"
         /\ \A p \in Op : task[p] # "idle" => p = o \/ task'[p] = task[p]
<1>1. /\ task'[o] = kind /\ run'[o] = "sent"
      /\ \A p \in Op \ {o} : task'[p] = task[p] /\ run'[p] = run[p]
  BY DEF StartOperation, TaskType, RunType
<1>2. AllGoOn
  BY <1>1 DEF AllGoOn, GoesOn, Live
<1>3. SameInFlight
  BY <1>1 DEF SameInFlight, InFlight
<1>. QED  BY <1>1, <1>2, <1>3 DEF StartOperation, TaskType, RunType, Activity

\* A load may begin.
LEMMA LoadBegins ==
  ASSUME TaskType, RunType, NEW s, NEW inv \in [phase : Phase, report : Selection \cup {None}], NEW scr,
         inv.phase \in {"loading", "refreshing"} => \E o \in Op : task[o] = "inventory",
         LoadActiveScreen(s, inv, scr), active \in Activity \cup {None}
  PROVE  /\ inventory' \in [phase : Phase, report : Selection \cup {None}]
         /\ inventory'.report = inv.report
         /\ TaskType' /\ run' \in [Op -> {"none", "sent", "running", "prompting", "ended"}]
         /\ AllGoOn /\ SameInFlight /\ LoadingHasLoad'
         /\ active' \in Activity \cup {None}
         /\ \/ UNCHANGED <<task, run, active>>
            \/ \E o \in Op : run[o] = "none" /\ StartOperation(o, "inventory")
<1>1. inventory' \in [phase : Phase, report : Selection \cup {None}] /\ inventory'.report = inv.report
  BY DEF LoadActiveScreen, BeginLoad, Phase
<1>2. CASE UNCHANGED <<task, run, active>> /\ inventory' = inv
  BY <1>1, <1>2 DEF TaskType, RunType, AllGoOn, GoesOn, Live, SameInFlight, InFlight, LoadingHasLoad
<1>3. ASSUME NEW o \in Op, run[o] = "none", StartOperation(o, "inventory")
      PROVE  /\ TaskType' /\ run' \in [Op -> {"none", "sent", "running", "prompting", "ended"}]
             /\ AllGoOn /\ SameInFlight /\ LoadingHasLoad'
             /\ active' \in Activity \cup {None}
  BY <1>3, Begins DEF LoadingHasLoad
<1>4. \/ UNCHANGED <<task, run, active>> /\ inventory' = inv
      \/ \E o \in Op : run[o] = "none" /\ StartOperation(o, "inventory")
  BY DEF LoadActiveScreen, Idle
<1>. QED  BY <1>1, <1>2, <1>3, <1>4

-----------------------------------------------------------------------------
(* TaskInv: one lemma for each kind of step.                                *)

\* What is sent tells of the service only.
LEMMA TaskByService == ASSUME TaskInv, ServiceStep PROVE TaskInv'
<1>1. ASSUME Publish PROVE TaskInv'
  <2>1. PICK s \in {selected, None} \cup (IF made = Selection THEN {} ELSE {Fresh}) :
          /\ s # selected => \A o \in InFlight : runSel[o] \in lost
          /\ selected' = s /\ made' = made \cup ({s} \ {None})
          /\ \E att \in BOOLEAN : Send(Snapshot(s, att))
    BY <1>1 DEF Publish
  <2>2. s \in Selection \cup {None} /\ made' = made \cup ({s} \ {None})
    <3>1. made # Selection => Fresh \in Selection
      BY DEF TaskInv, StoreType, Fresh
    <3>. QED  BY <2>1, <3>1 DEF TaskInv, StoreType
  <2>3. \E m \in Message : m.kind # "envelope" /\ Send(m)
    <3>1. PICK att \in BOOLEAN : Send(Snapshot(s, att))
      BY <2>1
    <3>2. Snapshot(s, att) \in Message /\ Snapshot(s, att).kind # "envelope"
      BY <2>2, MessageTypes DEF Snapshot
    <3>. QED  BY <3>1, <3>2
  <2>4. AllGoOn
    BY <1>1 DEF Publish, taskVars, AllGoOn, GoesOn, Live
  <2>5. WireType' /\ EnvelopeOnce' /\ Awaited'
    BY <2>3, <2>4, GoOnSending DEF TaskInv
  <2>6. RunsOnSelected'
    BY <1>1, <2>1 DEF Publish, TaskInv, RunsOnSelected, InFlight
  <2>. QED
    BY <1>1, <2>1, <2>2, <2>5, <2>6
    DEF Publish, windowVars, taskVars, TaskInv, StoreType, TaskType, RunType, LoadingHasLoad
<1>2. ASSUME NEW o \in Op, OpArrives(o) PROVE TaskInv'
  <2>1. CASE selected = None
    <3>1. Live(o) /\ run' = [run EXCEPT ![o] = "ended"] /\ Send(Envelope(o, FALSE, TRUE))
          /\ UNCHANGED <<windowVars, taskVars, selected, made, lost, runSel, prompts, updates>>
      BY <1>2, <2>1 DEF OpArrives, Live
    <3>2. WireType' /\ EnvelopeOnce' /\ Awaited'
      BY <3>1, EnvelopeSent DEF taskVars
    <3>3. RunType' /\ RunsOnSelected'
      BY <3>1 DEF TaskInv, RunType, RunsOnSelected, InFlight
    <3>. QED
      BY <3>1, <3>2, <3>3 DEF windowVars, taskVars, TaskInv, StoreType, TaskType, LoadingHasLoad
  <2>2. CASE selected # None
    <3>1. /\ run[o] = "sent" /\ run' = [run EXCEPT ![o] = "running"]
          /\ runSel' = [runSel EXCEPT ![o] = selected] /\ UNCHANGED wire
          /\ UNCHANGED <<windowVars, taskVars, selected, made, lost, prompts, updates>>
      BY <1>2, <2>2 DEF OpArrives
    <3>2. AllGoOn
      BY <3>1 DEF TaskInv, RunType, AllGoOn, GoesOn, Live, taskVars
    <3>3. WireType' /\ EnvelopeOnce' /\ Awaited'
      BY <3>1, <3>2, GoOnSending DEF TaskInv
    <3>4. RunType' /\ RunsOnSelected'
      BY <2>2, <3>1 DEF TaskInv, StoreType, RunType, RunsOnSelected, InFlight
    <3>. QED
      BY <3>1, <3>3, <3>4 DEF windowVars, taskVars, TaskInv, StoreType, TaskType, LoadingHasLoad
  <2>. QED  BY <2>1, <2>2
<1>3. ASSUME NEW o \in Op, OpReports(o) PROVE TaskInv'
  <2>1. Send(Progress(o)) /\ UNCHANGED <<windowVars, taskVars, serviceVars>>
    BY <1>3 DEF OpReports
  <2>2. Progress(o) \in Message /\ Progress(o).kind # "envelope"
    BY MessageTypes DEF Progress
  <2>3. AllGoOn
    BY <2>1 DEF taskVars, serviceVars, AllGoOn, GoesOn, Live
  <2>4. WireType' /\ EnvelopeOnce' /\ Awaited'
    BY <2>1, <2>2, <2>3, GoOnSending DEF TaskInv
  <2>. QED
    BY <2>1, <2>4 DEF windowVars, taskVars, serviceVars, TaskInv, StoreType, TaskType, RunType,
                      RunsOnSelected, InFlight, LoadingHasLoad
<1>4. ASSUME NEW o \in Op, OpPrompts(o) PROVE TaskInv'
  <2>1. /\ run[o] = "running" /\ prompts[o] < MaxPrompts
        /\ run' = [run EXCEPT ![o] = "prompting"]
        /\ prompts' = [prompts EXCEPT ![o] = @ + 1]
        /\ Send(Prompt(o, prompts[o] + 1))
        /\ UNCHANGED <<windowVars, taskVars, selected, made, lost, runSel, updates>>
    BY <1>4 DEF OpPrompts
  <2>2. prompts[o] + 1 \in 1..MaxPrompts
    BY <2>1, BoundAssumption DEF TaskInv, RunType
  <2>3. Prompt(o, prompts[o] + 1) \in Message /\ Prompt(o, prompts[o] + 1).kind # "envelope"
    BY <2>2, MessageTypes DEF Prompt
  <2>4. AllGoOn
    BY <2>1 DEF TaskInv, RunType, taskVars, AllGoOn, GoesOn, Live
  <2>5. WireType' /\ EnvelopeOnce' /\ Awaited'
    BY <2>1, <2>3, <2>4, GoOnSending DEF TaskInv
  <2>6. RunType' /\ RunsOnSelected'
    BY <2>1, <2>2 DEF TaskInv, RunType, RunsOnSelected, InFlight
  <2>. QED
    BY <2>1, <2>5, <2>6 DEF windowVars, taskVars, TaskInv, StoreType, TaskType, LoadingHasLoad
<1>5. ASSUME NEW o \in Op, OpEnds(o) PROVE TaskInv'
  <2>1. PICK ok \in BOOLEAN, closed \in BOOLEAN :
          /\ runSel[o] \in lost => closed
          /\ run' = [run EXCEPT ![o] = "ended"]
          /\ IF closed /\ selected = runSel[o]
             THEN selected' = None /\ lost' = lost \cup {runSel[o]}
             ELSE UNCHANGED <<selected, lost>>
          /\ Send(Envelope(o, ok, closed))
    BY <1>5 DEF OpEnds
  <2>2. Live(o) /\ UNCHANGED <<windowVars, taskVars, made, runSel, prompts, updates>>
    BY <1>5 DEF OpEnds, InFlight, Live
  <2>3. WireType' /\ EnvelopeOnce' /\ Awaited'
    BY <2>1, <2>2, EnvelopeSent DEF taskVars
  <2>4. RunType' /\ RunsOnSelected' /\ selected' \in Selection \cup {None}
    BY <2>1, <2>2 DEF TaskInv, RunType, StoreType, RunsOnSelected, InFlight
  <2>. QED
    BY <2>1, <2>2, <2>3, <2>4 DEF windowVars, taskVars, TaskInv, StoreType, TaskType, LoadingHasLoad
<1>6. ASSUME NEW o \in Op, CancelArrives(o) PROVE TaskInv'
  <2>1. /\ \E r \in {"true", "false"} : Send(CancelAnswer(o, r))
        /\ UNCHANGED <<windowVars, taskVars, serviceVars>>
    BY <1>6 DEF CancelArrives
  <2>2. \A r \in {"true", "false"} : CancelAnswer(o, r) \in Message /\ CancelAnswer(o, r).kind # "envelope"
    BY MessageTypes DEF CancelAnswer
  <2>3. AllGoOn
    BY <2>1 DEF taskVars, serviceVars, AllGoOn, GoesOn, Live
  <2>4. WireType' /\ EnvelopeOnce' /\ Awaited'
    BY <2>1, <2>2, <2>3, GoOnSending DEF TaskInv
  <2>. QED
    BY <2>1, <2>4 DEF windowVars, taskVars, serviceVars, TaskInv, StoreType, TaskType, RunType,
                      RunsOnSelected, InFlight, LoadingHasLoad
<1>7. ASSUME NEW p \in answering, AnswerArrives(p) PROVE TaskInv'
  <2>1. /\ \/ run' = run
           \/ run[p[1]] = "prompting" /\ run' = [run EXCEPT ![p[1]] = "running"]
        /\ \E r \in {"true", "false"} : Send(PromptAnswer(p, r))
        /\ UNCHANGED <<windowVars, taskVars, selected, made, lost, runSel, prompts, updates>>
    <3> DEFINE open == run[p[1]] = "prompting" /\ prompts[p[1]] = p[2]
               answer == IF open THEN "true" ELSE "false"
    <3>1. /\ run' = IF open THEN [run EXCEPT ![p[1]] = "running"] ELSE run
          /\ Send(PromptAnswer(p, answer))
          /\ UNCHANGED <<windowVars, taskVars, selected, made, lost, runSel, prompts, updates>>
      BY <1>7, Zenon DEF AnswerArrives
    <3>2. answer \in {"true", "false"}
      OBVIOUS
    <3> HIDE DEF answer
    <3>. QED  BY <3>1, <3>2
  <2>2. p \in PromptId /\ p[1] \in Op
    BY DEF TaskInv, StoreType, PromptId
  <2>3. \A r \in {"true", "false"} : PromptAnswer(p, r) \in Message /\ PromptAnswer(p, r).kind # "envelope"
    BY <2>2, MessageTypes DEF PromptAnswer
  <2>4. AllGoOn
    BY <2>1, <2>2 DEF TaskInv, RunType, taskVars, AllGoOn, GoesOn, Live
  <2>5. WireType' /\ EnvelopeOnce' /\ Awaited'
    BY <2>1, <2>3, <2>4, GoOnSending DEF TaskInv
  <2>6. RunType' /\ RunsOnSelected'
    BY <2>1, <2>2 DEF TaskInv, RunType, RunsOnSelected, InFlight
  <2>. QED
    BY <2>1, <2>5, <2>6 DEF windowVars, taskVars, TaskInv, StoreType, TaskType, LoadingHasLoad
<1>. QED  BY <1>1, <1>2, <1>3, <1>4, <1>5, <1>6, <1>7 DEF ServiceStep

\* The user starts operations that have not been used.
LEMMA TaskByUser == ASSUME TaskInv, UserStep PROVE TaskInv'
<1>1. ASSUME NEW scr \in {"inventory", "other"}, NavigateToScreen(scr) PROVE TaskInv'
  <2>1. /\ screen' = scr /\ LoadActiveScreen(session, inventory, scr)
        /\ UNCHANGED <<session, attached, prompt, cancelling, answering, selected, made, lost,
                       runSel, prompts, updates, wire>>
    BY <1>1 DEF NavigateToScreen
  <2>2. /\ inventory' \in [phase : Phase, report : Selection \cup {None}]
        /\ TaskType' /\ run' \in [Op -> {"none", "sent", "running", "prompting", "ended"}]
        /\ AllGoOn /\ SameInFlight /\ LoadingHasLoad'
        /\ active' \in Activity \cup {None}
    BY <2>1, LoadBegins DEF TaskInv, StoreType, LoadingHasLoad
  <2>3. WireType' /\ EnvelopeOnce' /\ Awaited'
    BY <2>1, <2>2, GoOnSending DEF TaskInv
  <2>. QED  BY <2>1, <2>2, <2>3 DEF TaskInv, StoreType, RunType, RunsOnSelected, SameInFlight
<1>2. ASSUME NEW o \in Op, NEW kind \in {"inventory", "other"}, run[o] = "none",
             StartOperation(o, kind),
             \/ inventory' = inventory
             \/ kind = "inventory" /\ inventory' = BeginLoad(inventory),
             UNCHANGED <<session, attached, prompt, screen, cancelling, answering, selected, made, lost,
                         runSel, prompts, updates, wire>>
      PROVE  TaskInv'
  <2>1. /\ TaskType' /\ run' \in [Op -> {"none", "sent", "running", "prompting", "ended"}]
        /\ AllGoOn /\ SameInFlight /\ active' \in Activity \cup {None} /\ LoadingHasLoad'
    <3>1. task[o] = "idle"
      BY <1>2 DEF TaskInv, EnvelopeOnce, Awaited
    <3>2. /\ TaskType' /\ run' \in [Op -> {"none", "sent", "running", "prompting", "ended"}]
          /\ AllGoOn /\ SameInFlight /\ active' \in Activity \cup {None} /\ task'[o] = kind
          /\ \A p \in Op : task[p] = "inventory" => p = o \/ task'[p] = "inventory"
      BY <1>2, Begins DEF TaskInv
    <3>. QED  BY <1>2, <3>1, <3>2 DEF TaskInv, LoadingHasLoad
  <2>2. inventory' \in [phase : Phase, report : Selection \cup {None}]
    BY <1>2 DEF TaskInv, StoreType, BeginLoad, Phase
  <2>3. WireType' /\ EnvelopeOnce' /\ Awaited'
    BY <1>2, <2>1, GoOnSending DEF TaskInv
  <2>. QED  BY <1>2, <2>1, <2>2, <2>3 DEF TaskInv, StoreType, RunType, RunsOnSelected, SameInFlight
<1>3. ASSUME NEW o \in Op, Reload(o) \/ RunOther(o) PROVE TaskInv'
  <2>1. CASE Reload(o)
    BY <2>1, <1>2 DEF Reload, Idle
  <2>2. CASE RunOther(o)
    BY <2>2, <1>2 DEF RunOther, Idle
  <2>. QED  BY <1>3, <2>1, <2>2
<1>4. CASE CancelActiveOperation \/ AnswerPendingInteraction \/ SelectToken
  <2>1. /\ UNCHANGED <<session, attached, inventory, screen, task, serviceVars, wire>>
        /\ active' \in Activity \cup {None} /\ prompt' \in PromptId \cup {None}
        /\ cancelling' \in SUBSET Op /\ answering' \in SUBSET PromptId
    <3>1. CASE CancelActiveOperation
      BY <3>1 DEF CancelActiveOperation, TaskInv, StoreType, Activity
    <3>2. CASE AnswerPendingInteraction
      BY <3>2 DEF AnswerPendingInteraction, windowVars, TaskInv, StoreType
    <3>3. CASE SelectToken
      BY <3>3 DEF SelectToken, taskVars, TaskInv, StoreType
    <3>. QED  BY <1>4, <3>1, <3>2, <3>3
  <2>2. AllGoOn
    BY <2>1 DEF serviceVars, AllGoOn, GoesOn, Live
  <2>3. WireType' /\ EnvelopeOnce' /\ Awaited'
    BY <2>1, <2>2, GoOnSending DEF TaskInv
  <2>. QED
    BY <2>1, <2>3 DEF serviceVars, TaskInv, StoreType, TaskType, RunType, RunsOnSelected, InFlight,
                      LoadingHasLoad
<1>. QED  BY <1>1, <1>3, <1>4 DEF UserStep

\* The inventory after a load.
LEMMA LoadedTyped ==
  ASSUME TaskInv, NEW o \in Op, NEW ok \in BOOLEAN
  PROVE  /\ Loaded(o, ok) \in [phase : Phase, report : Selection \cup {None}]
         /\ Loaded(o, ok).phase \notin {"loading", "refreshing"}
         /\ Loaded(o, ok).report \in {inventory.report, runSel[o]}
         /\ ~ok => Loaded(o, ok).report = inventory.report
BY DEF TaskInv, StoreType, RunType, Loaded, Phase

\* An operation that has come back takes no load from the inventory but its own.
LEMMA LoadTaken ==
  ASSUME TaskInv, NEW o \in Op, NEW ok \in BOOLEAN, task' = [task EXCEPT ![o] = "idle"],
         \/ inventory' = IF task[o] = "inventory" THEN Loaded(o, ok) ELSE inventory
         \/ inventory' = EmptyInventory
  PROVE  /\ TaskType' /\ LoadingHasLoad'
         /\ inventory' \in [phase : Phase, report : Selection \cup {None}]
<1>1. task'[o] = "idle" /\ \A p \in Op \ {o} : task'[p] = task[p]
  BY DEF TaskInv, TaskType
<1>2. EmptyInventory \in [phase : Phase, report : Selection \cup {None}] /\ EmptyInventory.phase = "idle"
  BY DEF EmptyInventory, Phase
<1>3. inventory' \in [phase : Phase, report : Selection \cup {None}]
  BY <1>2, LoadedTyped DEF TaskInv, StoreType
<1>4. LoadingHasLoad'
  BY <1>1, <1>2, LoadedTyped DEF TaskInv, LoadingHasLoad
<1>. QED  BY <1>3, <1>4 DEF TaskInv, TaskType

\* The handlers take what arrives in any order.
LEMMA TaskByHandler == ASSUME TaskInv, HandlerStep PROVE TaskInv'
<1> USE DEF PromptId
<1>1. PICK i \in DOMAIN wire :
        \/ HandleDiscoveryChanged(i) \/ HandleOperationProgress(i)
        \/ HandleInteractionRequested(i) \/ OperationReturns(i)
        \/ CancelReturns(i) \/ AnswerReturns(i)
  BY DEF HandlerStep
<1>2. CASE HandleDiscoveryChanged(i)
  <2> DEFINE s == wire[i].sel
             inv == IF s # session \/ wire[i].att # attached THEN EmptyInventory ELSE inventory
  <2>1. /\ Deliver("snapshot", i) /\ session' = s /\ attached' = wire[i].att
        /\ prompt' \in {prompt, None}
        /\ \/ LoadActiveScreen(s, inv, screen)
           \/ inventory' = inv /\ UNCHANGED <<task, run, active>>
        /\ UNCHANGED <<screen, cancelling, answering, selected, made, lost, runSel, prompts, updates>>
    BY <1>2 DEF HandleDiscoveryChanged
  <2>2. s \in Selection \cup {None} /\ wire[i].att \in BOOLEAN
    BY <2>1, Received, MessageFields DEF TaskInv
  <2>3. /\ inv \in [phase : Phase, report : Selection \cup {None}]
        /\ inv.phase \in {"loading", "refreshing"} => \E o \in Op : task[o] = "inventory"
    BY DEF TaskInv, StoreType, LoadingHasLoad, EmptyInventory, Phase
  <2> HIDE DEF s, inv
  <2>4. /\ inventory' \in [phase : Phase, report : Selection \cup {None}]
        /\ TaskType' /\ run' \in [Op -> {"none", "sent", "running", "prompting", "ended"}]
        /\ AllGoOn /\ SameInFlight /\ LoadingHasLoad'
        /\ active' \in Activity \cup {None}
    <3>1. CASE LoadActiveScreen(s, inv, screen)
      BY <2>3, <3>1, LoadBegins DEF TaskInv, StoreType
    <3>2. CASE inventory' = inv /\ UNCHANGED <<task, run, active>>
      BY <2>3, <3>2 DEF TaskInv, StoreType, TaskType, RunType, AllGoOn, GoesOn, Live, SameInFlight,
                        InFlight, LoadingHasLoad
    <3>. QED  BY <2>1, <3>1, <3>2
  <2>5. WireType' /\ EnvelopeOnce' /\ Awaited'
    BY <2>1, <2>4, GoOnReceiving DEF TaskInv
  <2>. QED
    BY <2>1, <2>2, <2>4, <2>5 DEF TaskInv, StoreType, RunType, RunsOnSelected, SameInFlight
<1>3. CASE OperationReturns(i)
  <2> DEFINE o == wire[i].op
             inv == IF task[o] = "inventory" THEN Loaded(o, wire[i].ok) ELSE inventory
  <2>1. /\ Deliver("envelope", i)
        /\ inventory' \in {inv, EmptyInventory} /\ session' \in {session, None}
        /\ task' = [task EXCEPT ![o] = "idle"]
        /\ active' = None /\ prompt' = None
        /\ UNCHANGED <<attached, screen, cancelling, answering, serviceVars>>
    BY <1>3 DEF OperationReturns
  <2>2. o \in Op /\ wire[i].ok \in BOOLEAN
    BY <2>1, Received, MessageFields DEF TaskInv
  <2>3. /\ TaskType' /\ LoadingHasLoad'
        /\ inventory' \in [phase : Phase, report : Selection \cup {None}]
    BY <2>1, <2>2, LoadTaken
  <2>4. WireType' /\ EnvelopeOnce' /\ Awaited'
    BY <2>1, EnvelopeReceived DEF serviceVars
  <2>. QED
    BY <2>1, <2>3, <2>4 DEF serviceVars, TaskInv, StoreType, RunType, RunsOnSelected, InFlight
<1>4. CASE HandleOperationProgress(i) \/ HandleInteractionRequested(i) \/ CancelReturns(i) \/ AnswerReturns(i)
  <2>1. /\ \E kind \in {"progress", "prompt", "cancel", "answer"} : Deliver(kind, i)
        /\ UNCHANGED <<session, attached, inventory, screen, task, serviceVars>>
    BY <1>4 DEF HandleOperationProgress, HandleInteractionRequested, CancelReturns, AnswerReturns, taskVars
  <2>2. /\ active' \in Activity \cup {None} /\ prompt' \in PromptId \cup {None}
        /\ cancelling' \in SUBSET Op /\ answering' \in SUBSET PromptId
    <3>1. CASE HandleOperationProgress(i)
      <4>1. wire[i].op \in Op
        BY <3>1, Received, MessageFields DEF TaskInv, HandleOperationProgress
      <4>. QED
        BY <3>1, <4>1 DEF HandleOperationProgress, Patched, taskVars, TaskInv, StoreType, Activity
    <3>2. CASE HandleInteractionRequested(i)
      <4>1. wire[i].op \in Op /\ wire[i].id \in PromptId
        BY <3>2, Received, MessageFields DEF TaskInv, HandleInteractionRequested
      <4>. QED
        BY <3>2, <4>1 DEF HandleInteractionRequested, Patched, taskVars, TaskInv, StoreType, Activity
    <3>3. CASE CancelReturns(i)
      BY <3>3 DEF CancelReturns, TaskInv, StoreType, Activity
    <3>4. CASE AnswerReturns(i)
      BY <3>4 DEF AnswerReturns, TaskInv, StoreType
    <3>. QED  BY <1>4, <3>1, <3>2, <3>3, <3>4
  <2>3. AllGoOn
    BY <2>1 DEF serviceVars, AllGoOn, GoesOn, Live
  <2>4. WireType' /\ EnvelopeOnce' /\ Awaited'
    BY <2>1, <2>3, GoOnReceiving DEF TaskInv
  <2>. QED
    BY <2>1, <2>2, <2>4 DEF serviceVars, TaskInv, StoreType, TaskType, RunType, RunsOnSelected,
                            InFlight, LoadingHasLoad
<1>. QED  BY <1>1, <1>2, <1>3, <1>4

\* A call that the runtime rejects takes its operation with it.
LEMMA TaskByRejection == ASSUME TaskInv, RejectionStep PROVE TaskInv'
<1>1. ASSUME NEW o \in Op, OperationRejected(o) PROVE TaskInv'
  <2>1. /\ task[o] # "idle" /\ run[o] = "sent"
        /\ inventory' = IF task[o] = "inventory" THEN Loaded(o, FALSE) ELSE inventory
        /\ task' = [task EXCEPT ![o] = "idle"]
        /\ run' = [run EXCEPT ![o] = "ended"]
        /\ active' = None /\ prompt' = None
        /\ UNCHANGED <<session, attached, screen, cancelling, answering, selected, made, lost,
                       runSel, prompts, updates, wire>>
    BY <1>1 DEF OperationRejected
  <2>2. /\ TaskType' /\ LoadingHasLoad'
        /\ inventory' \in [phase : Phase, report : Selection \cup {None}]
    BY <2>1, LoadTaken
  <2>3. ~\E i \in DOMAIN wire : Is("envelope", i) /\ wire[i].op = o
    BY <2>1 DEF TaskInv, EnvelopeOnce
  <2>4. /\ task'[o] = "idle" /\ run'[o] = "ended"
        /\ \A p \in Op \ {o} : task'[p] = task[p] /\ run'[p] = run[p]
    BY <2>1 DEF TaskInv, TaskType, RunType
  <2>5. EnvelopeOnce'
    BY <2>1, <2>4, MessageFields DEF TaskInv, EnvelopeOnce, Is
  <2>6. Awaited'
    BY <2>1, <2>3, <2>4 DEF TaskInv, Awaited, Is
  <2>7. RunsOnSelected'
    BY <2>1, <2>4 DEF TaskInv, RunsOnSelected, InFlight
  <2>. QED  BY <2>1, <2>2, <2>5, <2>6, <2>7 DEF TaskInv, StoreType, RunType, WireType
<1>2. ASSUME UNCHANGED <<session, attached, inventory, screen, task, serviceVars, wire>>,
             active' \in Activity \cup {None}, prompt' \in PromptId \cup {None},
             cancelling' \in SUBSET Op, answering' \in SUBSET PromptId
      PROVE  TaskInv'
  <2>1. AllGoOn
    BY <1>2 DEF serviceVars, AllGoOn, GoesOn, Live
  <2>2. WireType' /\ EnvelopeOnce' /\ Awaited'
    BY <1>2, <2>1, GoOnSending DEF TaskInv
  <2>. QED
    BY <1>2, <2>2 DEF serviceVars, TaskInv, StoreType, TaskType, RunType, RunsOnSelected, InFlight,
                      LoadingHasLoad
<1>3. ASSUME NEW o \in Op, CancelRejected(o) PROVE TaskInv'
  <2>1. active' \in Activity \cup {None} /\ cancelling' \in SUBSET Op
    BY <1>3 DEF CancelRejected, TaskInv, StoreType, Activity
  <2>. QED  BY <1>2, <1>3, <2>1 DEF CancelRejected, TaskInv, StoreType
<1>4. ASSUME NEW p \in answering, AnswerRejected(p) PROVE TaskInv'
  BY <1>2, <1>4 DEF AnswerRejected, TaskInv, StoreType
<1>. QED  BY <1>1, <1>3, <1>4 DEF RejectionStep

\* At the start nothing is under way.
LEMMA TaskInit == ASSUME Init PROVE TaskInv /\ DOMAIN wire = {}
<1>1. 0 \in 0..MaxPrompts
  BY BoundAssumption
<1>2. StoreType
  BY DEF Init, StoreType, EmptyInventory, Phase, PromptId
<1>3. TaskType /\ RunType
  BY <1>1 DEF Init, TaskType, RunType
<1>4. WireType /\ DOMAIN wire = {}
  BY DEF Init, WireType
<1>. QED
  BY <1>2, <1>3, <1>4 DEF Init, TaskInv, EnvelopeOnce, Awaited, RunsOnSelected, InFlight,
                          LoadingHasLoad, EmptyInventory

\* Every step keeps TaskInv, in any order of delivery.
LEMMA TaskStep == ASSUME TaskInv, [Next]_vars PROVE TaskInv'
<1>1. CASE UNCHANGED vars
  BY <1>1 DEF vars, windowVars, taskVars, serviceVars, TaskInv, StoreType, TaskType, RunType,
              WireType, EnvelopeOnce, Awaited, RunsOnSelected, InFlight, LoadingHasLoad, Is
<1>. QED  BY <1>1, TaskByService, TaskByUser, TaskByHandler, TaskByRejection DEF Next

\* In any order of delivery, the types hold and an inventory that shows that it
\* loads has a load under way.
THEOREM TaskInvariant == Spec => []TaskInv
<1>1. TaskInv /\ [Next]_vars => TaskInv'
  BY TaskStep
<1>. QED  BY <1>1, TaskInit, PTL DEF Spec

-----------------------------------------------------------------------------
(* The report on the screen, when messages arrive in the order sent.        *)

\* What a message makes of the session.
Changes(m) ==
  \/ m.kind = "snapshot"
  \/ m.kind = "envelope" /\ m.closed
View(m) == IF m.kind = "snapshot" THEN m.sel ELSE None

\* Once everything under way has arrived, the window will show the selection of
\* the service, or none.
ViewOfSelected ==
  /\ session \in {selected, None} \/ \E k \in DOMAIN wire : Changes(wire[k])
  /\ \A j \in DOMAIN wire : Changes(wire[j]) =>
       View(wire[j]) \in {selected, None} \/ \E k \in DOMAIN wire : k > j /\ Changes(wire[k])

\* A report that is under way.
Reports(m) == m.kind = "envelope" /\ m.ok /\ ~m.closed

\* When a report arrives, the window will show the selection it is of, or none.
ReportOfView ==
  \A i \in DOMAIN wire : Reports(wire[i]) =>
    /\ \/ session \in {runSel[wire[i].op], None}
       \/ \E k \in DOMAIN wire : k < i /\ Changes(wire[k])
    /\ \A j \in DOMAIN wire : j < i /\ Changes(wire[j]) =>
         \/ View(wire[j]) \in {runSel[wire[i].op], None}
         \/ \E k \in DOMAIN wire : j < k /\ k < i /\ Changes(wire[k])

\* Inductive with TaskInv, in the order sent.
ReportInv == ViewOfSelected /\ ReportOfView /\ ReportOfSession

\* Of an operation that has ended, the selection it had stays known.
EndedKeep == \A o \in Op : run[o] = "ended" => runSel'[o] = runSel[o]

\* Nothing is sent.
LEMMA ViewStays ==
  ASSUME TaskInv, ReportInv, EndedKeep, UNCHANGED <<wire, session, selected>>
  PROVE  ViewOfSelected' /\ ReportOfView'
<1>1. ViewOfSelected'
  BY DEF ReportInv, ViewOfSelected
<1>2. ASSUME NEW i \in DOMAIN wire, Reports(wire[i])
      PROVE  runSel'[wire[i].op] = runSel[wire[i].op]
  BY <1>2, MessageFields DEF TaskInv, EnvelopeOnce, EndedKeep, Reports, Is
<1>3. ReportOfView'
  BY <1>2 DEF ReportInv, ReportOfView
<1>. QED  BY <1>1, <1>3

\* Something is sent.
LEMMA ViewGrows ==
  ASSUME TaskInv, ReportInv, EndedKeep, NEW m \in Message, Send(m), UNCHANGED session,
         \/ Changes(m) /\ View(m) \in {selected', None}
         \/ ~Changes(m) /\ selected' = selected,
         Reports(m) => runSel'[m.op] = selected
  PROVE  ViewOfSelected' /\ ReportOfView'
<1> DEFINE n == Len(wire) + 1
<1>1. /\ DOMAIN wire' = DOMAIN wire \cup {n} /\ wire'[n] = m
      /\ \A i \in DOMAIN wire : wire'[i] = wire[i]
  BY Sent DEF TaskInv
<1>2. n \in Nat /\ \A i \in DOMAIN wire : i \in Nat /\ i < n
  BY DEF TaskInv, WireType
<1> HIDE DEF n
<1>3. ViewOfSelected'
  BY <1>1, <1>2 DEF ReportInv, ViewOfSelected
<1>4. ASSUME NEW i \in DOMAIN wire, Reports(wire[i])
      PROVE  runSel'[wire[i].op] = runSel[wire[i].op]
  BY <1>4, MessageFields DEF TaskInv, EnvelopeOnce, EndedKeep, Reports, Is
<1>5. ASSUME NEW i \in DOMAIN wire', Reports(wire'[i])
      PROVE  /\ \/ session' \in {runSel'[wire'[i].op], None}
                \/ \E k \in DOMAIN wire' : k < i /\ Changes(wire'[k])
             /\ \A j \in DOMAIN wire' : j < i /\ Changes(wire'[j]) =>
                  \/ View(wire'[j]) \in {runSel'[wire'[i].op], None}
                  \/ \E k \in DOMAIN wire' : j < k /\ k < i /\ Changes(wire'[k])
  <2>1. CASE i \in DOMAIN wire
    <3>1. \A j \in DOMAIN wire' : j < i => j \in DOMAIN wire
      BY <1>1, <1>2, <2>1
    <3>. QED  BY <1>1, <1>4, <1>5, <2>1, <3>1 DEF ReportInv, ReportOfView
  <2>2. CASE i = n
    <3>1. ~Changes(m) /\ runSel'[m.op] = selected
      BY <1>1, <1>5, <2>2 DEF Reports, Changes
    <3>2. \A j \in DOMAIN wire' : j < i => j \in DOMAIN wire
      BY <1>1, <1>2, <2>2
    <3>. QED  BY <1>1, <1>2, <2>2, <3>1, <3>2 DEF ReportInv, ViewOfSelected
  <2>. QED  BY <1>1, <2>1, <2>2
<1>6. ReportOfView'
  BY <1>5 DEF ReportOfView
<1>. QED  BY <1>3, <1>6

\* In the order sent, the first message is received and the others move up.
LEMMA FirstReceived ==
  ASSUME Delivery = "sent", WireType, NEW kind, NEW i, Deliver(kind, i)
  PROVE  /\ i = 1 /\ 1 \in DOMAIN wire /\ wire[1].kind = kind
         /\ DOMAIN wire \subseteq Nat \ {0} /\ DOMAIN wire' \subseteq Nat \ {0}
         /\ \A j \in DOMAIN wire' : j + 1 \in DOMAIN wire /\ wire'[j] = wire[j + 1]
         /\ \A k \in DOMAIN wire \ {1} : k - 1 \in DOMAIN wire' /\ wire'[k - 1] = wire[k]
<1>1. wire \in Seq(Message) /\ Len(wire) \in Nat /\ DOMAIN wire = 1..Len(wire)
  BY DEF WireType
<1>2. i \in DOMAIN wire /\ wire[i].kind = kind /\ wire' = RemoveAt(wire, i)
  BY DEF Deliver, Deliverable
<1>3. i = 1
  <2>1. \A j \in 1..(i - 1) : FALSE
    BY DEF Deliver, Deliverable, MayBeOvertaken
  <2>. QED  BY <1>1, <1>2, <2>1
<1>4. /\ wire' \in Seq(Message) /\ Len(wire') = Len(wire) - 1
      /\ \A j \in 1..Len(wire) - 1 : wire'[j] = IF j < i THEN wire[j] ELSE wire[j + 1]
  BY <1>1, <1>2, Removed
<1>5. DOMAIN wire' = 1..Len(wire) - 1
  BY <1>1, <1>4
<1>6. \A j \in DOMAIN wire' : j + 1 \in DOMAIN wire /\ wire'[j] = wire[j + 1]
  BY <1>1, <1>3, <1>4, <1>5
<1>7. \A k \in DOMAIN wire \ {1} : k - 1 \in DOMAIN wire' /\ wire'[k - 1] = wire[k]
  BY <1>1, <1>3, <1>4, <1>5
<1>. QED  BY <1>1, <1>2, <1>3, <1>5, <1>6, <1>7

\* Something is received, and makes of the session what it says.
LEMMA ViewMoves ==
  ASSUME Delivery = "sent", TaskInv, ReportInv, NEW kind, NEW i, Deliver(kind, i),
         session' = IF Changes(wire[1]) THEN View(wire[1]) ELSE session,
         UNCHANGED <<selected, runSel>>
  PROVE  /\ ViewOfSelected' /\ ReportOfView'
         /\ Reports(wire[1]) => session' \in {runSel[wire[1].op], None}
<1>1. /\ i = 1 /\ 1 \in DOMAIN wire
      /\ DOMAIN wire \subseteq Nat \ {0} /\ DOMAIN wire' \subseteq Nat \ {0}
      /\ \A j \in DOMAIN wire' : j + 1 \in DOMAIN wire /\ wire'[j] = wire[j + 1]
      /\ \A k \in DOMAIN wire \ {1} : k - 1 \in DOMAIN wire' /\ wire'[k - 1] = wire[k]
  BY FirstReceived DEF TaskInv
<1>2. Reports(wire[1]) => session' \in {runSel[wire[1].op], None}
  <2>1. Reports(wire[1]) => ~Changes(wire[1])
    BY DEF Reports, Changes
  <2>. QED  BY <1>1, <2>1 DEF ReportInv, ReportOfView
\* Whatever changes the session later than the first is still under way.
<1>3. ASSUME NEW k \in DOMAIN wire, k > 1, Changes(wire[k])
      PROVE  k - 1 \in DOMAIN wire' /\ Changes(wire'[k - 1])
  BY <1>1, <1>3
<1>4. ViewOfSelected'
  <2>1. session' \in {selected', None} \/ \E k \in DOMAIN wire' : Changes(wire'[k])
    <3>1. session' \in {selected, None} \/ \E k \in DOMAIN wire : k > 1 /\ Changes(wire[k])
      <4>1. CASE Changes(wire[1])
        BY <1>1, <4>1 DEF ReportInv, ViewOfSelected
      <4>2. CASE ~Changes(wire[1])
        BY <1>1, <4>2 DEF ReportInv, ViewOfSelected
      <4>. QED  BY <4>1, <4>2
    <3>. QED  BY <1>3, <3>1
  <2>2. ASSUME NEW j \in DOMAIN wire', Changes(wire'[j]), View(wire'[j]) \notin {selected', None}
        PROVE  \E k \in DOMAIN wire' : k > j /\ Changes(wire'[k])
    <3>1. PICK k \in DOMAIN wire : k > j + 1 /\ Changes(wire[k])
      BY <1>1, <2>2 DEF ReportInv, ViewOfSelected
    <3>. QED  BY <1>1, <1>3, <3>1
  <2>. QED  BY <2>1, <2>2 DEF ViewOfSelected
<1>5. ASSUME NEW n \in DOMAIN wire', Reports(wire'[n])
      PROVE  /\ \/ session' \in {runSel'[wire'[n].op], None}
                \/ \E k \in DOMAIN wire' : k < n /\ Changes(wire'[k])
             /\ \A j \in DOMAIN wire' : j < n /\ Changes(wire'[j]) =>
                  \/ View(wire'[j]) \in {runSel'[wire'[n].op], None}
                  \/ \E k \in DOMAIN wire' : j < k /\ k < n /\ Changes(wire'[k])
  <2>1. n + 1 \in DOMAIN wire /\ wire'[n] = wire[n + 1] /\ n + 1 > 1
    BY <1>1
  <2>2. \/ session' \in {runSel[wire[n + 1].op], None}
        \/ \E k \in DOMAIN wire : k > 1 /\ k < n + 1 /\ Changes(wire[k])
    <3>1. CASE Changes(wire[1])
      BY <1>1, <1>5, <2>1, <3>1 DEF ReportInv, ReportOfView
    <3>2. CASE ~Changes(wire[1])
      BY <1>1, <1>5, <2>1, <3>2 DEF ReportInv, ReportOfView
    <3>. QED  BY <3>1, <3>2
  <2>3. ASSUME NEW k \in DOMAIN wire, k > 1, k < n + 1, Changes(wire[k])
        PROVE  \E l \in DOMAIN wire' : l < n /\ l + 1 = k /\ Changes(wire'[l])
    BY <1>1, <1>3, <2>3
  <2>4. ASSUME NEW j \in DOMAIN wire', j < n, Changes(wire'[j]),
               View(wire'[j]) \notin {runSel'[wire'[n].op], None}
        PROVE  \E k \in DOMAIN wire' : j < k /\ k < n /\ Changes(wire'[k])
    <3>1. PICK k \in DOMAIN wire : j + 1 < k /\ k < n + 1 /\ Changes(wire[k])
      BY <1>1, <1>5, <2>1, <2>4 DEF ReportInv, ReportOfView
    <3>2. PICK l \in DOMAIN wire' : l < n /\ l + 1 = k /\ Changes(wire'[l])
      BY <1>1, <2>3, <3>1
    <3>. QED  BY <1>1, <3>1, <3>2
  <2>. QED  BY <2>1, <2>2, <2>3, <2>4
<1>. QED  BY <1>2, <1>4, <1>5 DEF ReportOfView

\* The service sends what it has selected.
LEMMA ReportByService ==
  ASSUME Delivery = "sent", TaskInv, ReportInv, ServiceStep
  PROVE  ReportInv'
<1>1. UNCHANGED <<session, inventory>>
  BY DEF ServiceStep, Publish, OpArrives, OpReports, OpPrompts, OpEnds, CancelArrives, AnswerArrives, windowVars
<1>2. ReportOfSession'
  BY <1>1 DEF ReportInv, ReportOfSession
<1>3. CASE Publish
  <2>1. PICK s \in {selected, None} \cup (IF made = Selection THEN {} ELSE {Fresh}), att \in BOOLEAN :
          selected' = s /\ Send(Snapshot(s, att))
    BY <1>3 DEF Publish
  <2>2. s \in Selection \cup {None}
    <3>1. made # Selection => Fresh \in Selection
      BY DEF TaskInv, StoreType, Fresh
    <3>. QED  BY <2>1, <3>1 DEF TaskInv, StoreType
  <2>3. PICK m \in Message : m = Snapshot(s, att)
    BY <2>2, MessageTypes
  <2>4. Changes(m) /\ View(m) = s /\ ~Reports(m)
    BY <2>3 DEF Snapshot, Changes, View, Reports
  <2>5. EndedKeep
    BY <1>3 DEF Publish, EndedKeep
  <2>. QED  BY <1>1, <1>2, <2>1, <2>3, <2>4, <2>5, ViewGrows DEF ReportInv
<1>4. ASSUME NEW o \in Op, OpArrives(o) PROVE ReportInv'
  <2>1. EndedKeep
    BY <1>4 DEF OpArrives, EndedKeep, TaskInv, RunType
  <2>2. CASE selected = None
    <3>1. PICK m \in Message : m = Envelope(o, FALSE, TRUE)
      BY MessageTypes
    <3>2. Send(m) /\ selected' = selected
      BY <1>4, <2>2, <3>1 DEF OpArrives
    <3>3. Changes(m) /\ View(m) = None /\ ~Reports(m)
      BY <3>1 DEF Envelope, Changes, View, Reports
    <3>. QED  BY <1>1, <1>2, <2>1, <3>2, <3>3, ViewGrows DEF ReportInv
  <2>3. CASE selected # None
    <3>1. UNCHANGED <<wire, selected>>
      BY <1>4, <2>3 DEF OpArrives
    <3>. QED  BY <1>1, <1>2, <2>1, <3>1, ViewStays DEF ReportInv
  <2>. QED  BY <2>2, <2>3
<1>5. ASSUME NEW o \in Op, OpEnds(o) PROVE ReportInv'
  <2>1. PICK ok \in BOOLEAN, closed \in BOOLEAN :
          /\ runSel[o] \in lost => closed
          /\ IF closed /\ selected = runSel[o]
             THEN selected' = None /\ lost' = lost \cup {runSel[o]}
             ELSE UNCHANGED <<selected, lost>>
          /\ Send(Envelope(o, ok, closed))
    BY <1>5 DEF OpEnds
  <2>2. PICK m \in Message : m = Envelope(o, ok, closed)
    BY MessageTypes
  <2>3. /\ m.kind = "envelope" /\ m.op = o /\ m.ok = ok /\ m.closed = closed
    BY <2>2 DEF Envelope
  <2>4. EndedKeep /\ runSel' = runSel
    BY <1>5 DEF OpEnds, EndedKeep
  <2>5. ~closed => runSel[o] = selected
    BY <1>5, <2>1 DEF OpEnds, TaskInv, RunsOnSelected
  <2>6. /\ \/ Changes(m) /\ View(m) \in {selected', None}
           \/ ~Changes(m) /\ selected' = selected
        /\ Reports(m) => runSel'[m.op] = selected
    BY <2>1, <2>3, <2>4, <2>5 DEF Changes, View, Reports
  <2>7. Send(m)
    BY <2>1, <2>2
  <2>. QED  BY <1>1, <1>2, <2>4, <2>6, <2>7, ViewGrows DEF ReportInv
<1>6. ASSUME UNCHANGED <<selected, runSel>>, NEW m \in Message, Send(m),
             m.kind \notin {"snapshot", "envelope"}
      PROVE  ReportInv'
  <2>1. EndedKeep /\ ~Changes(m) /\ ~Reports(m)
    BY <1>6 DEF EndedKeep, Changes, Reports
  <2>. QED  BY <1>1, <1>2, <1>6, <2>1, ViewGrows DEF ReportInv
<1>7. ASSUME NEW o \in Op, OpReports(o) PROVE ReportInv'
  <2>1. PICK m \in Message : m = Progress(o)
    BY MessageTypes
  <2>2. Send(m) /\ UNCHANGED <<selected, runSel>> /\ m.kind \notin {"snapshot", "envelope"}
    BY <1>7, <2>1 DEF OpReports, serviceVars, Progress
  <2>. QED  BY <1>6, <2>2
<1>8. ASSUME NEW o \in Op, OpPrompts(o) PROVE ReportInv'
  <2>1. prompts[o] + 1 \in 1..MaxPrompts
    BY <1>8, BoundAssumption DEF OpPrompts, TaskInv, RunType
  <2>2. PICK m \in Message : m = Prompt(o, prompts[o] + 1)
    BY <2>1, MessageTypes
  <2>3. Send(m) /\ UNCHANGED <<selected, runSel>> /\ m.kind \notin {"snapshot", "envelope"}
    BY <1>8, <2>2 DEF OpPrompts, Prompt
  <2>. QED  BY <1>6, <2>3
<1>9. ASSUME NEW o \in Op, CancelArrives(o) PROVE ReportInv'
  <2>1. PICK r \in {"true", "false"} : Send(CancelAnswer(o, r))
    BY <1>9 DEF CancelArrives
  <2>2. PICK m \in Message : m = CancelAnswer(o, r)
    BY MessageTypes
  <2>3. Send(m) /\ UNCHANGED <<selected, runSel>> /\ m.kind \notin {"snapshot", "envelope"}
    BY <1>9, <2>1, <2>2 DEF CancelArrives, serviceVars, CancelAnswer
  <2>. QED  BY <1>6, <2>3
<1>10. ASSUME NEW p \in answering, AnswerArrives(p) PROVE ReportInv'
  <2>1. PICK r \in {"true", "false"} : Send(PromptAnswer(p, r))
    <3> DEFINE answer == IF run[p[1]] = "prompting" /\ prompts[p[1]] = p[2] THEN "true" ELSE "false"
    <3>1. Send(PromptAnswer(p, answer))
      BY <1>10, Zenon DEF AnswerArrives
    <3>2. answer \in {"true", "false"}
      OBVIOUS
    <3> HIDE DEF answer
    <3>. QED  BY <3>1, <3>2
  <2>2. p \in PromptId
    BY DEF TaskInv, StoreType
  <2>3. PICK m \in Message : m = PromptAnswer(p, r)
    BY <2>2, MessageTypes
  <2>4. Send(m) /\ UNCHANGED <<selected, runSel>> /\ m.kind \notin {"snapshot", "envelope"}
    BY <1>10, <2>1, <2>3 DEF AnswerArrives, PromptAnswer
  <2>. QED  BY <1>6, <2>4
<1>. QED  BY <1>3, <1>4, <1>5, <1>7, <1>8, <1>9, <1>10 DEF ServiceStep

\* The user starts loads, which keep the report.
LEMMA ReportByUser ==
  ASSUME TaskInv, ReportInv, UserStep \/ RejectionStep
  PROVE  ReportInv'
<1>1. EndedKeep /\ UNCHANGED <<wire, session, selected>>
  BY DEF UserStep, NavigateToScreen, Reload, RunOther, CancelActiveOperation, AnswerPendingInteraction,
         SelectToken, RejectionStep, OperationRejected, CancelRejected, AnswerRejected,
         windowVars, taskVars, serviceVars, EndedKeep
<1>2. inventory'.report = inventory.report
  <2>1. ASSUME NEW scr \in {"inventory", "other"}, NavigateToScreen(scr)
        PROVE  inventory'.report = inventory.report
    BY <2>1, LoadBegins DEF NavigateToScreen, TaskInv, StoreType, LoadingHasLoad
  <2>2. ASSUME NEW o \in Op, Reload(o) \/ RunOther(o) \/ CancelRejected(o)
        PROVE  inventory'.report = inventory.report
    BY <2>2 DEF Reload, RunOther, CancelRejected, BeginLoad, TaskInv, StoreType
  <2>3. CASE CancelActiveOperation \/ AnswerPendingInteraction \/ SelectToken
    BY <2>3 DEF CancelActiveOperation, AnswerPendingInteraction, SelectToken, windowVars
  <2>4. ASSUME NEW o \in Op, OperationRejected(o)
        PROVE  inventory'.report = inventory.report
    BY <2>4, LoadedTyped DEF OperationRejected
  <2>5. ASSUME NEW p \in answering, AnswerRejected(p)
        PROVE  inventory'.report = inventory.report
    BY <2>5 DEF AnswerRejected
  <2>. QED  BY <2>1, <2>2, <2>3, <2>4, <2>5 DEF UserStep, RejectionStep
<1>3. ReportOfSession'
  BY <1>1, <1>2 DEF ReportInv, ReportOfSession
<1>. QED  BY <1>1, <1>3, ViewStays DEF ReportInv

\* A report is taken when the window shows its selection, or none.
LEMMA ReportByHandler ==
  ASSUME Delivery = "sent", TaskInv, ReportInv, HandlerStep
  PROVE  ReportInv'
<1>1. PICK i \in DOMAIN wire :
        \/ HandleDiscoveryChanged(i) \/ HandleOperationProgress(i)
        \/ HandleInteractionRequested(i) \/ OperationReturns(i)
        \/ CancelReturns(i) \/ AnswerReturns(i)
  BY DEF HandlerStep
<1>2. UNCHANGED <<selected, runSel>>
  BY <1>1 DEF HandleDiscoveryChanged, HandleOperationProgress, HandleInteractionRequested,
              OperationReturns, CancelReturns, AnswerReturns, serviceVars
<1>3. CASE HandleDiscoveryChanged(i)
  <2>1. Deliver("snapshot", i) /\ i = 1 /\ wire[1].kind = "snapshot"
    BY <1>3, FirstReceived DEF HandleDiscoveryChanged, TaskInv
  <2>2. Changes(wire[1]) /\ View(wire[1]) = wire[1].sel
    BY <2>1 DEF Changes, View
  <2> DEFINE inv == IF wire[1].sel # session \/ wire[1].att # attached THEN EmptyInventory ELSE inventory
  <2>3. /\ session' = wire[1].sel
        /\ \/ LoadActiveScreen(wire[1].sel, inv, screen)
           \/ inventory' = inv
    BY <1>3, <2>1 DEF HandleDiscoveryChanged
  <2>4. ViewOfSelected' /\ ReportOfView'
    BY <1>2, <2>1, <2>2, <2>3, ViewMoves
  <2>5. /\ inv \in [phase : Phase, report : Selection \cup {None}]
        /\ inv.phase \in {"loading", "refreshing"} => \E o \in Op : task[o] = "inventory"
        /\ inv.report # None => inv = inventory /\ session' = session
    BY <2>3 DEF TaskInv, StoreType, LoadingHasLoad, EmptyInventory, Phase
  <2> HIDE DEF inv
  <2>6. inventory'.report = inv.report
    BY <2>3, <2>5, LoadBegins DEF TaskInv, StoreType
  <2>7. ReportOfSession'
    BY <2>5, <2>6 DEF ReportInv, ReportOfSession
  <2>. QED  BY <2>4, <2>7 DEF ReportInv
<1>4. CASE OperationReturns(i)
  <2>1. Deliver("envelope", i) /\ i = 1 /\ wire[1].kind = "envelope"
    BY <1>4, FirstReceived DEF OperationReturns, TaskInv
  <2>2. Changes(wire[1]) <=> wire[1].closed
    BY <2>1 DEF Changes
  <2>3. View(wire[1]) = None
    BY <2>1 DEF View
  <2> DEFINE o == wire[1].op
  <2>4. /\ session' = IF wire[1].closed THEN None ELSE session
        /\ inventory' = IF wire[1].closed THEN EmptyInventory
                        ELSE IF task[o] = "inventory" THEN Loaded(o, wire[1].ok) ELSE inventory
    BY <1>4, <2>1 DEF OperationReturns
  <2>5. /\ ViewOfSelected' /\ ReportOfView'
        /\ Reports(wire[1]) => session' \in {runSel[o], None}
    BY <1>2, <2>1, <2>2, <2>3, <2>4, ViewMoves
  <2>6. o \in Op /\ wire[1].ok \in BOOLEAN /\ wire[1].closed \in BOOLEAN
    BY <2>1, Received, MessageFields DEF TaskInv
  <2>7. ReportOfSession'
    <3>1. CASE wire[1].closed
      BY <2>4, <3>1 DEF ReportOfSession
    <3>2. CASE ~wire[1].closed /\ wire[1].ok
      BY <2>1, <2>4, <2>5, <2>6, <3>2, LoadedTyped DEF ReportInv, ReportOfSession, Reports
    <3>3. CASE ~wire[1].closed /\ ~wire[1].ok
      BY <2>4, <2>6, <3>3, LoadedTyped DEF ReportInv, ReportOfSession
    <3>. QED  BY <2>6, <3>1, <3>2, <3>3
  <2>. QED  BY <2>5, <2>7 DEF ReportInv
<1>5. CASE HandleOperationProgress(i) \/ HandleInteractionRequested(i) \/ CancelReturns(i) \/ AnswerReturns(i)
  <2>1. PICK kind \in {"progress", "prompt", "cancel", "answer"} : Deliver(kind, i)
    BY <1>5 DEF HandleOperationProgress, HandleInteractionRequested, CancelReturns, AnswerReturns
  <2>2. UNCHANGED <<session, inventory>>
    BY <1>5 DEF HandleOperationProgress, HandleInteractionRequested, CancelReturns, AnswerReturns
  <2>3. ~Changes(wire[1])
    BY <2>1, FirstReceived DEF TaskInv, Changes
  <2>4. ViewOfSelected' /\ ReportOfView'
    BY <1>2, <2>1, <2>2, <2>3, ViewMoves
  <2>. QED  BY <2>2, <2>4 DEF ReportInv, ReportOfSession
<1>. QED  BY <1>1, <1>3, <1>4, <1>5

\* Every step keeps the report with its session.
LEMMA ReportStep ==
  ASSUME Delivery = "sent", TaskInv, ReportInv, [Next]_vars
  PROVE  ReportInv'
<1>1. CASE UNCHANGED vars
  BY <1>1, ViewStays DEF vars, windowVars, taskVars, serviceVars, EndedKeep, ReportInv, ReportOfSession
<1>. QED  BY <1>1, ReportByService, ReportByUser, ReportByHandler DEF Next

\* TaskInv holds the types that TypeOK states.
LEMMA TypesOfTask == TaskInv => TypeOK
BY DEF TaskInv, StoreType, TaskType, RunType, Awaited, TypeOK, Is, PromptId

-----------------------------------------------------------------------------
(* What is left when nothing is under way.                                  *)

\* A message at whose arrival the window shows an operation, or its prompt.
Announces(m) ==
  \/ m.kind \in {"progress", "prompt"}
  \/ m.kind = "cancel" /\ m.answer = "true"

\* What announces an operation is sent after it has arrived and before its envelope.
AnnouncedBefore ==
  \A i \in DOMAIN wire : Announces(wire[i]) =>
    /\ run[wire[i].op] \in {"running", "prompting", "ended"}
    /\ task[wire[i].op] # "idle"
    /\ \A j \in DOMAIN wire : wire[j].kind = "envelope" /\ wire[j].op = wire[i].op => i < j

\* The prompt in the dialog is of an operation that is awaited.
PromptOfTask == prompt # None => task[prompt[1]] # "idle"

\* An operation in the status bar is, or covers, one that is awaited.
ActiveHasTask == active # None => \E o \in Op : task[o] # "idle"

\* Inductive with TaskInv, in the order sent.
AnnounceInv == AnnouncedBefore /\ PromptOfTask

\* An operation that has arrived stays at the service or has ended, and is awaited
\* as before.
TasksKeep ==
  \A o \in Op : run[o] \in {"running", "prompting", "ended"} =>
    /\ run'[o] \in {"running", "prompting", "ended"}
    /\ task[o] # "idle" => task'[o] # "idle"

\* What announces an operation names it.
LEMMA AnnouncedOp ==
  ASSUME WireType, NEW i \in DOMAIN wire, Announces(wire[i])
  PROVE  wire[i].op \in Op
BY MessageFields DEF Announces, Is

\* Nothing is sent or received.
LEMMA AnnouncedStays ==
  ASSUME WireType, AnnouncedBefore, TasksKeep, UNCHANGED wire
  PROVE  AnnouncedBefore'
BY AnnouncedOp DEF AnnouncedBefore, TasksKeep

\* What is sent announces an operation that the service runs, or nothing.
LEMMA AnnouncedGrows ==
  ASSUME TaskInv, AnnouncedBefore, TasksKeep, NEW m \in Message, Send(m),
         Announces(m) => m.op \in InFlight /\ m.op \in InFlight'
  PROVE  AnnouncedBefore'
<1> DEFINE n == Len(wire) + 1
<1>1. /\ DOMAIN wire' = DOMAIN wire \cup {n} /\ wire'[n] = m
      /\ \A i \in DOMAIN wire : wire'[i] = wire[i]
  BY Sent DEF TaskInv
<1>2. n \in Nat /\ \A i \in DOMAIN wire : i \in Nat /\ i < n
  BY DEF TaskInv, WireType
<1> HIDE DEF n
<1>3. ASSUME NEW i \in DOMAIN wire, Announces(wire[i])
      PROVE  /\ run'[wire[i].op] \in {"running", "prompting", "ended"}
             /\ task'[wire[i].op] # "idle"
             /\ \A j \in DOMAIN wire' : wire'[j].kind = "envelope" /\ wire'[j].op = wire[i].op => i < j
  BY <1>1, <1>2, <1>3, AnnouncedOp DEF TaskInv, AnnouncedBefore, TasksKeep
<1>4. ASSUME Announces(m)
      PROVE  /\ run'[m.op] \in {"running", "prompting", "ended"}
             /\ task'[m.op] # "idle"
             /\ \A j \in DOMAIN wire' : ~(wire'[j].kind = "envelope" /\ wire'[j].op = m.op)
  <2>1. m.op \in Op /\ run[m.op] \in {"running", "prompting"} /\ run'[m.op] \in {"running", "prompting"}
    BY <1>4 DEF InFlight
  <2>2. task[m.op] # "idle"
    BY <2>1 DEF TaskInv, Awaited
  <2>3. m.kind # "envelope"
    BY <1>4 DEF Announces
  <2>. QED  BY <1>1, <2>1, <2>2, <2>3 DEF TaskInv, EnvelopeOnce, TasksKeep, Is
<1>. QED  BY <1>1, <1>3, <1>4 DEF AnnouncedBefore

\* The first message is received; only an envelope ends a wait, that of its operation.
LEMMA AnnouncedMoves ==
  ASSUME Delivery = "sent", TaskInv, AnnouncedBefore, NEW kind, NEW i, Deliver(kind, i),
         \A o \in Op : /\ run[o] \in {"running", "prompting", "ended"} =>
                           run'[o] \in {"running", "prompting", "ended"}
                       /\ task[o] # "idle" /\ task'[o] = "idle" =>
                           kind = "envelope" /\ wire[1].op = o
  PROVE  AnnouncedBefore'
<1>1. /\ i = 1 /\ 1 \in DOMAIN wire /\ wire[1].kind = kind
      /\ DOMAIN wire \subseteq Nat \ {0} /\ DOMAIN wire' \subseteq Nat \ {0}
      /\ \A j \in DOMAIN wire' : j + 1 \in DOMAIN wire /\ wire'[j] = wire[j + 1]
  BY FirstReceived DEF TaskInv
<1>2. ASSUME NEW k \in DOMAIN wire', Announces(wire'[k])
      PROVE  /\ run'[wire'[k].op] \in {"running", "prompting", "ended"}
             /\ task'[wire'[k].op] # "idle"
             /\ \A j \in DOMAIN wire' : wire'[j].kind = "envelope" /\ wire'[j].op = wire'[k].op => k < j
  <2>1. k + 1 \in DOMAIN wire /\ wire'[k] = wire[k + 1] /\ k + 1 > 1 /\ Announces(wire[k + 1])
    BY <1>1, <1>2
  <2>2. wire[k + 1].op \in Op
    BY <2>1, AnnouncedOp DEF TaskInv
  <2>3. ~(kind = "envelope" /\ wire[1].op = wire[k + 1].op)
    BY <1>1, <2>1 DEF AnnouncedBefore
  <2>4. \A j \in DOMAIN wire' : wire'[j].kind = "envelope" /\ wire'[j].op = wire'[k].op => k < j
    BY <1>1, <2>1 DEF AnnouncedBefore
  <2>. QED  BY <2>1, <2>2, <2>3, <2>4 DEF AnnouncedBefore
<1>. QED  BY <1>2 DEF AnnouncedBefore

\* A load that begins is shown.
LEMMA LoadShown ==
  ASSUME TaskInv, NEW s, NEW inv, NEW scr, LoadActiveScreen(s, inv, scr)
  PROVE  /\ TasksKeep /\ \A o \in Op : task[o] # "idle" => task'[o] # "idle"
         /\ ActiveHasTask => ActiveHasTask'
<1>1. CASE UNCHANGED <<task, run, active>>
  BY <1>1 DEF TasksKeep, ActiveHasTask
<1>2. ASSUME NEW o \in Op, run[o] = "none", StartOperation(o, "inventory")
      PROVE  /\ TasksKeep /\ \A p \in Op : task[p] # "idle" => task'[p] # "idle"
             /\ ActiveHasTask'
  BY <1>2 DEF StartOperation, TaskInv, TaskType, RunType, TasksKeep, ActiveHasTask
<1>. QED  BY <1>1, <1>2 DEF LoadActiveScreen, Idle

\* The service announces the operations that it runs.
LEMMA AnnounceByService ==
  ASSUME TaskInv, AnnounceInv, ServiceStep
  PROVE  AnnounceInv' /\ (ActiveHasTask => ActiveHasTask')
<1>1. UNCHANGED <<windowVars, taskVars>>
  BY DEF ServiceStep, Publish, OpArrives, OpReports, OpPrompts, OpEnds, CancelArrives, AnswerArrives
<1>2. PromptOfTask' /\ (ActiveHasTask => ActiveHasTask')
  BY <1>1 DEF windowVars, taskVars, AnnounceInv, PromptOfTask, ActiveHasTask
<1>3. TasksKeep
  <2>1. task' = task
    BY <1>1 DEF taskVars
  <2>2. CASE Publish \/ \E o \in Op : OpReports(o) \/ CancelArrives(o)
    BY <2>1, <2>2 DEF Publish, OpReports, CancelArrives, serviceVars, TasksKeep
  <2>3. ASSUME NEW o \in Op, OpArrives(o) \/ OpPrompts(o) \/ OpEnds(o) PROVE TasksKeep
    BY <2>1, <2>3 DEF OpArrives, OpPrompts, OpEnds, TasksKeep, TaskInv, RunType
  <2>4. ASSUME NEW p \in answering, AnswerArrives(p) PROVE TasksKeep
    <3>1. \/ run' = run
          \/ run' = [run EXCEPT ![p[1]] = "running"]
      BY <2>4 DEF AnswerArrives
    <3>. QED  BY <2>1, <3>1 DEF TasksKeep, TaskInv, RunType
  <2>. QED  BY <2>2, <2>3, <2>4 DEF ServiceStep
<1>4. AnnouncedBefore'
  <2>1. CASE Publish
    <3>1. PICK s \in {selected, None} \cup (IF made = Selection THEN {} ELSE {Fresh}), att \in BOOLEAN :
            Send(Snapshot(s, att))
      BY <2>1 DEF Publish
    <3>2. s \in Selection \cup {None}
      <4>1. made # Selection => Fresh \in Selection
        BY DEF TaskInv, StoreType, Fresh
      <4>. QED  BY <3>1, <4>1 DEF TaskInv, StoreType
    <3>3. PICK m \in Message : m = Snapshot(s, att)
      BY <3>2, MessageTypes
    <3>4. ~Announces(m)
      BY <3>3 DEF Snapshot, Announces
    <3>. QED  BY <1>3, <3>1, <3>3, <3>4, AnnouncedGrows DEF AnnounceInv
  <2>2. ASSUME NEW o \in Op, NEW ok \in BOOLEAN, NEW closed \in BOOLEAN, Send(Envelope(o, ok, closed))
        PROVE  AnnouncedBefore'
    <3>1. PICK m \in Message : m = Envelope(o, ok, closed)
      BY MessageTypes
    <3>2. ~Announces(m)
      BY <3>1 DEF Envelope, Announces
    <3>. QED  BY <1>3, <2>2, <3>1, <3>2, AnnouncedGrows DEF AnnounceInv
  <2>3. ASSUME NEW o \in Op, OpArrives(o) PROVE AnnouncedBefore'
    <3>1. CASE selected = None
      BY <2>2, <2>3, <3>1 DEF OpArrives
    <3>2. CASE selected # None
      BY <1>3, <2>3, <3>2, AnnouncedStays DEF OpArrives, AnnounceInv, TaskInv
    <3>. QED  BY <3>1, <3>2
  <2>4. ASSUME NEW o \in Op, OpEnds(o) PROVE AnnouncedBefore'
    BY <2>2, <2>4 DEF OpEnds
  <2>5. ASSUME NEW o \in Op, OpReports(o) PROVE AnnouncedBefore'
    <3>1. PICK m \in Message : m = Progress(o)
      BY MessageTypes
    <3>2. m.op = o /\ Send(m) /\ o \in InFlight /\ o \in InFlight'
      BY <2>5, <3>1 DEF OpReports, Progress, InFlight, serviceVars
    <3>. QED  BY <1>3, <3>2, AnnouncedGrows DEF AnnounceInv
  <2>6. ASSUME NEW o \in Op, OpPrompts(o) PROVE AnnouncedBefore'
    <3>1. prompts[o] + 1 \in 1..MaxPrompts
      BY <2>6, BoundAssumption DEF OpPrompts, TaskInv, RunType
    <3>2. PICK m \in Message : m = Prompt(o, prompts[o] + 1)
      BY <3>1, MessageTypes
    <3>3. m.op = o /\ Send(m) /\ o \in InFlight /\ o \in InFlight'
      BY <2>6, <3>2 DEF OpPrompts, Prompt, InFlight, TaskInv, RunType
    <3>. QED  BY <1>3, <3>3, AnnouncedGrows DEF AnnounceInv
  <2>7. ASSUME NEW o \in Op, CancelArrives(o) PROVE AnnouncedBefore'
    <3> DEFINE found == o \in InFlight /\ runSel[o] = selected
               answer == IF found THEN "true" ELSE "false"
    <3>1. Send(CancelAnswer(o, answer)) /\ UNCHANGED serviceVars
      BY <2>7, Zenon DEF CancelArrives
    <3>2. answer \in {"true", "false"} /\ (answer = "true" => o \in InFlight)
      OBVIOUS
    <3> HIDE DEF answer
    <3>3. PICK m \in Message : m = CancelAnswer(o, answer)
      BY <3>2, MessageTypes
    <3>4. m.op = o /\ (Announces(m) => answer = "true")
      BY <3>3 DEF CancelAnswer, Announces
    <3>5. InFlight' = InFlight
      BY <3>1 DEF InFlight, serviceVars
    <3>. QED  BY <1>3, <3>1, <3>2, <3>3, <3>4, <3>5, AnnouncedGrows DEF AnnounceInv
  <2>8. ASSUME NEW p \in answering, AnswerArrives(p) PROVE AnnouncedBefore'
    <3> DEFINE answer == IF run[p[1]] = "prompting" /\ prompts[p[1]] = p[2] THEN "true" ELSE "false"
    <3>1. Send(PromptAnswer(p, answer))
      BY <2>8, Zenon DEF AnswerArrives
    <3>2. answer \in {"true", "false"} /\ p \in PromptId
      BY DEF TaskInv, StoreType
    <3> HIDE DEF answer
    <3>3. PICK m \in Message : m = PromptAnswer(p, answer)
      BY <3>2, MessageTypes
    <3>4. ~Announces(m)
      BY <3>3 DEF PromptAnswer, Announces
    <3>. QED  BY <1>3, <3>1, <3>3, <3>4, AnnouncedGrows DEF AnnounceInv
  <2>. QED  BY <2>1, <2>3, <2>4, <2>5, <2>6, <2>7, <2>8 DEF ServiceStep
<1>. QED  BY <1>2, <1>4 DEF AnnounceInv

\* What the user starts is shown and awaited.
LEMMA AnnounceByUser ==
  ASSUME TaskInv, AnnounceInv, UserStep
  PROVE  AnnounceInv' /\ (ActiveHasTask => ActiveHasTask')
<1>1. ASSUME TasksKeep, UNCHANGED wire, prompt' \in {prompt, None},
             \A o \in Op : task[o] # "idle" => task'[o] # "idle"
      PROVE  AnnounceInv'
  <2>1. prompt # None => prompt[1] \in Op
    BY DEF TaskInv, StoreType, PromptId
  <2>. QED  BY <1>1, <2>1, AnnouncedStays DEF TaskInv, AnnounceInv, PromptOfTask
<1>2. ASSUME NEW scr \in {"inventory", "other"}, NavigateToScreen(scr)
      PROVE  AnnounceInv' /\ (ActiveHasTask => ActiveHasTask')
  BY <1>1, <1>2, LoadShown DEF NavigateToScreen
<1>3. ASSUME NEW o \in Op, NEW kind \in {"inventory", "other"}, run[o] = "none", StartOperation(o, kind),
             UNCHANGED <<prompt, wire>>
      PROVE  AnnounceInv' /\ ActiveHasTask'
  <2>1. TasksKeep /\ ActiveHasTask' /\ \A p \in Op : task[p] # "idle" => task'[p] # "idle"
    BY <1>3 DEF StartOperation, TaskInv, TaskType, RunType, TasksKeep, ActiveHasTask
  <2>. QED  BY <1>1, <1>3, <2>1
<1>4. ASSUME NEW o \in Op, Reload(o) \/ RunOther(o) PROVE AnnounceInv' /\ ActiveHasTask'
  <2>1. CASE Reload(o)
    BY <1>3, <2>1 DEF Reload, Idle
  <2>2. CASE RunOther(o)
    BY <1>3, <2>2 DEF RunOther, Idle
  <2>. QED  BY <1>4, <2>1, <2>2
<1>5. CASE CancelActiveOperation \/ AnswerPendingInteraction \/ SelectToken
  <2>1. /\ UNCHANGED <<task, serviceVars, wire>> /\ prompt' \in {prompt, None}
        /\ active' # None => active # None
    BY <1>5 DEF CancelActiveOperation, AnswerPendingInteraction, SelectToken, windowVars, taskVars
  <2>2. TasksKeep
    BY <2>1 DEF serviceVars, TasksKeep
  <2>. QED  BY <1>1, <2>1, <2>2 DEF ActiveHasTask
<1>. QED  BY <1>2, <1>4, <1>5 DEF UserStep

\* A handler shows what is announced, which is still awaited.
LEMMA AnnounceByHandler ==
  ASSUME Delivery = "sent", TaskInv, AnnounceInv, HandlerStep
  PROVE  AnnounceInv' /\ (ActiveHasTask => ActiveHasTask')
<1>1. PICK i \in DOMAIN wire :
        \/ HandleDiscoveryChanged(i) \/ HandleOperationProgress(i)
        \/ HandleInteractionRequested(i) \/ OperationReturns(i)
        \/ CancelReturns(i) \/ AnswerReturns(i)
  BY DEF HandlerStep
<1>2. prompt # None => prompt[1] \in Op
  BY DEF TaskInv, StoreType, PromptId
<1>3. CASE HandleDiscoveryChanged(i)
  <2> DEFINE s == wire[i].sel
             inv == IF s # session \/ wire[i].att # attached THEN EmptyInventory ELSE inventory
  <2>1. /\ Deliver("snapshot", i) /\ prompt' \in {prompt, None}
        /\ \/ LoadActiveScreen(s, inv, screen)
           \/ inventory' = inv /\ UNCHANGED <<task, run, active>>
    BY <1>3 DEF HandleDiscoveryChanged
  <2> HIDE DEF s, inv
  <2>2. /\ TasksKeep /\ \A o \in Op : task[o] # "idle" => task'[o] # "idle"
        /\ ActiveHasTask => ActiveHasTask'
    <3>1. CASE LoadActiveScreen(s, inv, screen)
      BY <3>1, LoadShown
    <3>2. CASE UNCHANGED <<task, run, active>>
      BY <3>2 DEF TasksKeep, ActiveHasTask
    <3>. QED  BY <2>1, <3>1, <3>2
  <2>3. AnnouncedBefore'
    BY <2>1, <2>2, AnnouncedMoves DEF AnnounceInv, TasksKeep
  <2>. QED  BY <1>2, <2>1, <2>2, <2>3 DEF AnnounceInv, PromptOfTask
<1>4. CASE OperationReturns(i)
  <2>1. /\ Deliver("envelope", i) /\ i = 1 /\ task' = [task EXCEPT ![wire[1].op] = "idle"]
        /\ run' = run /\ active' = None /\ prompt' = None
    BY <1>4, FirstReceived DEF OperationReturns, serviceVars, TaskInv
  <2>2. \A o \in Op : task[o] # "idle" /\ task'[o] = "idle" => wire[1].op = o
    BY <2>1 DEF TaskInv, TaskType
  <2>3. AnnouncedBefore'
    BY <2>1, <2>2, AnnouncedMoves DEF AnnounceInv
  <2>. QED  BY <2>1, <2>3 DEF AnnounceInv, PromptOfTask, ActiveHasTask
<1>5. ASSUME NEW kind, kind # "envelope", Deliver(kind, i), UNCHANGED <<task, run>>
      PROVE  AnnouncedBefore'
  BY <1>5, AnnouncedMoves DEF AnnounceInv
<1>6. CASE HandleOperationProgress(i)
  <2>1. AnnouncedBefore' /\ UNCHANGED <<prompt, task>>
    BY <1>5, <1>6 DEF HandleOperationProgress, taskVars, serviceVars
  <2>2. Deliver("progress", i) /\ i = 1 /\ wire[1].kind = "progress" /\ 1 \in DOMAIN wire
    BY <1>6, FirstReceived DEF HandleOperationProgress, TaskInv
  <2>3. wire[1].op \in Op /\ task[wire[1].op] # "idle"
    BY <2>2, AnnouncedOp DEF TaskInv, AnnounceInv, AnnouncedBefore, Announces
  <2>. QED  BY <2>1, <2>3 DEF AnnounceInv, PromptOfTask, ActiveHasTask
<1>7. CASE HandleInteractionRequested(i)
  <2>1. AnnouncedBefore' /\ task' = task
    BY <1>5, <1>7 DEF HandleInteractionRequested, taskVars, serviceVars
  <2>2. Deliver("prompt", i) /\ i = 1 /\ wire[1].kind = "prompt" /\ 1 \in DOMAIN wire /\ prompt' = wire[1].id
    BY <1>7, FirstReceived DEF HandleInteractionRequested, TaskInv
  <2>3. wire[1].op \in Op /\ task[wire[1].op] # "idle"
    BY <2>2, AnnouncedOp DEF TaskInv, AnnounceInv, AnnouncedBefore, Announces
  <2>4. wire[1].id[1] = wire[1].op
    BY <2>2, MessageFields DEF TaskInv, Is
  <2>. QED  BY <2>1, <2>2, <2>3, <2>4 DEF AnnounceInv, PromptOfTask, ActiveHasTask
<1>8. CASE CancelReturns(i)
  <2>1. AnnouncedBefore' /\ task' = task /\ prompt' = None
    BY <1>5, <1>8 DEF CancelReturns, serviceVars
  <2>2. Deliver("cancel", i) /\ i = 1 /\ wire[1].kind = "cancel" /\ 1 \in DOMAIN wire
    BY <1>8, FirstReceived DEF CancelReturns, TaskInv
  <2>3. active' # None => wire[1].answer = "true"
    BY <1>8, <2>2 DEF CancelReturns
  <2>4. active' # None => wire[1].op \in Op /\ task[wire[1].op] # "idle"
    BY <2>2, <2>3, AnnouncedOp DEF TaskInv, AnnounceInv, AnnouncedBefore, Announces
  <2>. QED  BY <2>1, <2>4 DEF AnnounceInv, PromptOfTask, ActiveHasTask
<1>9. CASE AnswerReturns(i)
  <2>1. AnnouncedBefore' /\ UNCHANGED <<active, task>> /\ prompt' = None
    BY <1>5, <1>9 DEF AnswerReturns, serviceVars
  <2>. QED  BY <2>1 DEF AnnounceInv, PromptOfTask, ActiveHasTask
<1>. QED  BY <1>1, <1>3, <1>4, <1>6, <1>7, <1>8, <1>9

\* A rejected call may leave an operation in the status bar, but no prompt.
LEMMA AnnounceByRejection ==
  ASSUME TaskInv, AnnounceInv, RejectionStep
  PROVE  AnnounceInv'
<1>1. ASSUME NEW o \in Op, OperationRejected(o) PROVE AnnounceInv'
  <2>1. TasksKeep /\ UNCHANGED wire /\ prompt' = None
    BY <1>1 DEF OperationRejected, TasksKeep, TaskInv, TaskType, RunType
  <2>. QED  BY <2>1, AnnouncedStays DEF TaskInv, AnnounceInv, PromptOfTask
<1>2. CASE (\E o \in Op : CancelRejected(o)) \/ (\E p \in answering : AnswerRejected(p))
  <2>1. UNCHANGED <<task, serviceVars, wire>> /\ prompt' \in {prompt, None}
    BY <1>2 DEF CancelRejected, AnswerRejected
  <2>2. TasksKeep
    BY <2>1 DEF serviceVars, TasksKeep
  <2>. QED  BY <2>1, <2>2, AnnouncedStays DEF TaskInv, AnnounceInv, PromptOfTask
<1>. QED  BY <1>1, <1>2 DEF RejectionStep

-----------------------------------------------------------------------------
(* Prompts: what the window knows of them, against what the service waits for. *)

\* The last prompt of an operation that waits for its answer, or ended waiting.
Outstanding(p) == prompts[p[1]] = p[2] /\ run[p[1]] \in {"prompting", "ended"}

\* A prompt that the service no longer waits for.
Past(p) == p[2] <= prompts[p[1]] /\ run[p[1]] # "none" /\ ~Waits(p)

\* A prompt under way has not been seen, is the only one of its operation, and
\* follows all answers to it.
PromptUnderWay ==
  \A i \in DOMAIN wire : Is("prompt", i) =>
    /\ Outstanding(wire[i].id)
    /\ wire[i].id \notin answering /\ (prompt # None => wire[i].id # prompt)
    /\ \A j \in DOMAIN wire : Is("prompt", j) /\ wire[j].id[1] = wire[i].id[1] => j = i
    /\ \A j \in DOMAIN wire : Is("answer", j) /\ wire[j].id[1] = wire[i].id[1] => j < i

\* The response to an answer is of a prompt that is no older than the one shown.
AnswerUnderWay ==
  \A i \in DOMAIN wire : Is("answer", i) =>
    /\ wire[i].id \in answering /\ Past(wire[i].id)
    /\ \A j \in DOMAIN wire : Is("answer", j) /\ wire[j].id = wire[i].id => j = i
    /\ prompt # None /\ prompt[1] = wire[i].id[1] => prompt[2] <= wire[i].id[2]

AnsweringOutstanding == \A p \in answering : PromptAnswered(p) \/ Outstanding(p)
ShownOutstanding == prompt # None => prompt \in answering \/ Outstanding(prompt)

\* Inductive with TaskInv, in the order sent.
PromptInv == PromptUnderWay /\ AnswerUnderWay /\ AnsweringOutstanding /\ ShownOutstanding

\* No operation begins or ceases to prompt, except by its end.
PromptingKeeps ==
  /\ prompts' = prompts
  /\ \A o \in Op : /\ run[o] \in {"prompting", "ended"} => run'[o] \in {"prompting", "ended"}
                   /\ run'[o] = "prompting" => run[o] = "prompting"
                   /\ run[o] # "none" => run'[o] # "none"

\* Such a step leaves what is known of a prompt.
LEMMA PromptKeeps ==
  ASSUME PromptingKeeps, NEW p \in PromptId
  PROVE  /\ Outstanding(p) => Outstanding(p)'
         /\ Past(p) => Past(p)'
BY DEF PromptingKeeps, PromptId, Outstanding, Past, Waits

\* Nothing about prompts is sent, and none is shown.
LEMMA PromptsStay ==
  ASSUME TaskInv, PromptInv, PromptingKeeps, UNCHANGED answering, prompt' \in {prompt, None},
         UNCHANGED wire \/ \E m \in Message : m.kind \notin {"prompt", "answer"} /\ Send(m)
  PROVE  PromptInv'
<1>1. DOMAIN wire \subseteq DOMAIN wire' /\ \A i \in DOMAIN wire : wire'[i] = wire[i]
  BY Sent DEF TaskInv
<1>2. \A i \in DOMAIN wire' : Is("prompt", i)' \/ Is("answer", i)' => i \in DOMAIN wire
  BY Sent DEF TaskInv, Is
<1>3. /\ \A i \in DOMAIN wire : Is("prompt", i) \/ Is("answer", i) => wire[i].id \in PromptId
      /\ answering \subseteq PromptId /\ prompt \in PromptId \cup {None}
  BY MessageFields DEF TaskInv, StoreType
<1>4. PromptUnderWay'
  <2>1. ASSUME NEW i \in DOMAIN wire', Is("prompt", i)'
        PROVE  /\ i \in DOMAIN wire /\ Is("prompt", i) /\ wire'[i] = wire[i] /\ wire[i].id \in PromptId
               /\ Outstanding(wire[i].id)'
    <3>1. i \in DOMAIN wire /\ Is("prompt", i) /\ wire'[i] = wire[i] /\ wire[i].id \in PromptId
      BY <1>1, <1>2, <1>3, <2>1 DEF Is
    <3>2. Outstanding(wire[i].id)
      BY <3>1 DEF PromptInv, PromptUnderWay
    <3>. QED  BY <3>1, <3>2, PromptKeeps DEF Outstanding
  <2>2. ASSUME NEW i \in DOMAIN wire', Is("prompt", i)'
        PROVE  /\ wire'[i].id \notin answering' /\ (prompt' # None => wire'[i].id # prompt')
               /\ \A j \in DOMAIN wire' : Is("prompt", j)' /\ wire'[j].id[1] = wire'[i].id[1] => j = i
               /\ \A j \in DOMAIN wire' : Is("answer", j)' /\ wire'[j].id[1] = wire'[i].id[1] => j < i
    BY <1>1, <1>2, <2>1, <2>2 DEF PromptInv, PromptUnderWay, Is
  <2>. QED  BY <2>1, <2>2 DEF PromptUnderWay, Outstanding
<1>5. AnswerUnderWay'
  BY <1>1, <1>2, <1>3, PromptKeeps DEF PromptInv, AnswerUnderWay, Is
<1>6. AnsweringOutstanding'
  BY <1>1, <1>3, PromptKeeps DEF PromptInv, AnsweringOutstanding, PromptAnswered
<1>7. ShownOutstanding'
  BY <1>3, PromptKeeps DEF PromptInv, ShownOutstanding
<1>. QED  BY <1>4, <1>5, <1>6, <1>7 DEF PromptInv

\* A message is received; a prompt is shown, and the response to an answer leaves none.
LEMMA PromptsMove ==
  ASSUME Delivery = "sent", TaskInv, PromptInv, PromptingKeeps, NEW kind, NEW i, Deliver(kind, i),
         answering' = IF kind = "answer" THEN answering \ {wire[1].id} ELSE answering,
         \/ kind = "prompt" /\ prompt' = wire[1].id
         \/ kind = "answer" /\ prompt' = None
         \/ kind \notin {"prompt", "answer"} /\ prompt' \in {prompt, None}
  PROVE  PromptInv'
<1>1. /\ 1 \in DOMAIN wire /\ wire[1].kind = kind
      /\ DOMAIN wire \subseteq Nat \ {0} /\ DOMAIN wire' \subseteq Nat \ {0}
      /\ \A j \in DOMAIN wire' : j + 1 \in DOMAIN wire /\ wire'[j] = wire[j + 1]
      /\ \A k \in DOMAIN wire \ {1} : k - 1 \in DOMAIN wire' /\ wire'[k - 1] = wire[k]
  BY FirstReceived DEF TaskInv
<1>2. /\ \A k \in DOMAIN wire : Is("prompt", k) \/ Is("answer", k) => wire[k].id \in PromptId
      /\ answering \subseteq PromptId /\ prompt \in PromptId \cup {None}
  BY MessageFields DEF TaskInv, StoreType
<1>3. PromptUnderWay'
  <2>1. ASSUME NEW k \in DOMAIN wire', Is("prompt", k)'
        PROVE  /\ k + 1 \in DOMAIN wire /\ Is("prompt", k + 1) /\ wire'[k] = wire[k + 1]
               /\ wire[k + 1].id \in PromptId /\ Outstanding(wire[k].id)'
    <3>1. k + 1 \in DOMAIN wire /\ Is("prompt", k + 1) /\ wire'[k] = wire[k + 1] /\ wire[k + 1].id \in PromptId
      BY <1>1, <1>2, <2>1 DEF Is
    <3>2. PICK p \in PromptId : p = wire[k + 1].id /\ Outstanding(p)
      BY <3>1 DEF PromptInv, PromptUnderWay
    <3>3. Outstanding(p)'
      BY <3>2, PromptKeeps
    <3>. QED  BY <3>1, <3>2, <3>3 DEF Outstanding
  <2>2. ASSUME NEW k \in DOMAIN wire', Is("prompt", k)'
        PROVE  wire[k + 1].id \notin answering' /\ (prompt' # None => wire[k + 1].id # prompt')
    <3>1. k + 1 \in DOMAIN wire /\ Is("prompt", k + 1)
      BY <2>1, <2>2
    <3>2. wire[k + 1].id \notin answering /\ (prompt # None => wire[k + 1].id # prompt)
      BY <3>1 DEF PromptInv, PromptUnderWay
    <3>3. kind = "prompt" => wire[k + 1].id # wire[1].id
      <4>1. k + 1 # 1
        BY <1>1
      <4>. QED  BY <1>1, <3>1, <4>1 DEF PromptInv, PromptUnderWay, Is
    <3>. QED  BY <3>2, <3>3
  <2>3. ASSUME NEW k \in DOMAIN wire', Is("prompt", k)', NEW j \in DOMAIN wire',
               wire'[j].id[1] = wire'[k].id[1]
        PROVE  (Is("prompt", j)' => j = k) /\ (Is("answer", j)' => j < k)
    <3>1. k + 1 \in DOMAIN wire /\ Is("prompt", k + 1) /\ wire'[k] = wire[k + 1]
      BY <2>1, <2>3
    <3>2. j + 1 \in DOMAIN wire /\ wire'[j] = wire[j + 1] /\ j \in Nat /\ k \in Nat
      BY <1>1
    <3>3. (Is("prompt", j + 1) => j + 1 = k + 1) /\ (Is("answer", j + 1) => j + 1 < k + 1)
      BY <2>3, <3>1, <3>2 DEF PromptInv, PromptUnderWay
    <3>. QED  BY <3>2, <3>3 DEF Is
  <2>. QED  BY <2>1, <2>2, <2>3 DEF PromptUnderWay, Outstanding
<1>4. AnswerUnderWay'
  <2>1. ASSUME NEW k \in DOMAIN wire', Is("answer", k)'
        PROVE  /\ k + 1 \in DOMAIN wire /\ Is("answer", k + 1) /\ wire'[k] = wire[k + 1]
               /\ wire[k + 1].id \in PromptId /\ Past(wire[k].id)'
    <3>1. k + 1 \in DOMAIN wire /\ Is("answer", k + 1) /\ wire'[k] = wire[k + 1] /\ wire[k + 1].id \in PromptId
      BY <1>1, <1>2, <2>1 DEF Is
    <3>2. PICK p \in PromptId : p = wire[k + 1].id /\ Past(p)
      BY <3>1 DEF PromptInv, AnswerUnderWay
    <3>3. Past(p)'
      BY <3>2, PromptKeeps
    <3>. QED  BY <3>1, <3>2, <3>3 DEF Past, Waits
  <2>2. ASSUME NEW k \in DOMAIN wire', Is("answer", k)'
        PROVE  wire[k + 1].id \in answering'
    <3>1. k + 1 \in DOMAIN wire /\ Is("answer", k + 1) /\ k + 1 # 1
      BY <1>1, <2>1, <2>2
    <3>2. kind = "answer" => wire[k + 1].id # wire[1].id
      BY <1>1, <3>1 DEF PromptInv, AnswerUnderWay, Is
    <3>. QED  BY <3>1, <3>2 DEF PromptInv, AnswerUnderWay
  <2>3. ASSUME NEW k \in DOMAIN wire', Is("answer", k)', NEW j \in DOMAIN wire', Is("answer", j)',
               wire'[j].id = wire'[k].id
        PROVE  j = k
    <3>1. k + 1 \in DOMAIN wire /\ Is("answer", k + 1) /\ wire'[k] = wire[k + 1]
      BY <2>1, <2>3
    <3>2. j + 1 \in DOMAIN wire /\ Is("answer", j + 1) /\ wire'[j] = wire[j + 1] /\ j \in Nat /\ k \in Nat
      BY <1>1, <2>1, <2>3
    <3>3. j + 1 = k + 1
      BY <2>3, <3>1, <3>2 DEF PromptInv, AnswerUnderWay
    <3>. QED  BY <3>2, <3>3
  <2>4. ASSUME NEW k \in DOMAIN wire', Is("answer", k)', prompt' # None, prompt'[1] = wire[k + 1].id[1]
        PROVE  prompt'[2] <= wire[k + 1].id[2]
    <3>1. k + 1 \in DOMAIN wire /\ Is("answer", k + 1) /\ ~(k + 1 < 1)
      BY <1>1, <2>1, <2>4
    <3>2. ~(kind = "prompt" /\ prompt' = wire[1].id)
      BY <1>1, <2>4, <3>1 DEF PromptInv, PromptUnderWay, Is
    <3>3. prompt' = prompt
      BY <2>4, <3>2
    <3>. QED  BY <2>4, <3>1, <3>3 DEF PromptInv, AnswerUnderWay
  <2>. QED  BY <2>1, <2>2, <2>3, <2>4 DEF AnswerUnderWay, Past, Waits
<1>5. AnsweringOutstanding'
  <2>1. ASSUME NEW p \in answering', ~PromptAnswered(p)'
        PROVE  Outstanding(p)'
    <3>1. p \in answering /\ p \in PromptId /\ (kind = "answer" => p # wire[1].id)
      BY <1>2
    <3>2. ~PromptAnswered(p)
      BY <1>1, <2>1, <3>1 DEF PromptAnswered
    <3>. QED  BY <3>1, <3>2, PromptKeeps DEF PromptInv, AnsweringOutstanding
  <2>. QED  BY <2>1 DEF AnsweringOutstanding, PromptAnswered
<1>6. ShownOutstanding'
  <2>1. CASE kind = "prompt"
    <3>1. Outstanding(wire[1].id) /\ wire[1].id \in PromptId
      BY <1>1, <1>2, <2>1 DEF PromptInv, PromptUnderWay, Is
    <3>. QED  BY <2>1, <3>1, PromptKeeps DEF ShownOutstanding
  <2>2. CASE kind # "prompt"
    BY <1>2, <2>2, PromptKeeps DEF PromptInv, ShownOutstanding
  <2>. QED  BY <2>1, <2>2
<1>. QED  BY <1>3, <1>4, <1>5, <1>6 DEF PromptInv

\* An operation asks the user: the prompts before are past.
LEMMA PromptSent ==
  ASSUME TaskInv, PromptInv, NEW o \in Op, OpPrompts(o)
  PROVE  PromptInv'
<1> DEFINE id == <<o, prompts[o] + 1>>
<1>0. PICK n : n = Len(wire) + 1
  OBVIOUS
<1>1. /\ run[o] = "running" /\ run' = [run EXCEPT ![o] = "prompting"]
      /\ prompts' = [prompts EXCEPT ![o] = @ + 1] /\ UNCHANGED <<answering, prompt>>
      /\ prompts[o] + 1 \in 1..MaxPrompts /\ prompts[o] \in Nat
  BY BoundAssumption DEF OpPrompts, windowVars, taskVars, TaskInv, RunType
<1>2. PICK m \in Message : m = Prompt(o, prompts[o] + 1)
  BY <1>1, MessageTypes
<1>3. m.kind = "prompt" /\ m.id = id /\ Send(m)
  BY <1>2 DEF Prompt, OpPrompts
<1>4. /\ DOMAIN wire' = DOMAIN wire \cup {n} /\ wire'[n] = m
      /\ \A i \in DOMAIN wire : wire'[i] = wire[i]
  BY <1>0, <1>3, Sent DEF TaskInv
<1>5. n \in Nat /\ \A i \in DOMAIN wire : i \in Nat /\ i < n
  BY <1>0 DEF TaskInv, WireType
<1>6. /\ id \in PromptId /\ id[1] = o /\ id[2] = prompts[o] + 1 /\ prompts'[o] = prompts[o] + 1
      /\ run'[o] = "prompting"
      /\ \A p \in Op \ {o} : run'[p] = run[p] /\ prompts'[p] = prompts[p]
  BY <1>1 DEF PromptId, TaskInv, RunType
<1> HIDE DEF id
<1>7. ASSUME NEW p \in PromptId
      PROVE  /\ Outstanding(p) => p[1] # o /\ Outstanding(p)'
             /\ Past(p) => Past(p)'
  <2>1. p[1] \in Op /\ p[2] \in Nat /\ prompts[p[1]] \in Nat
    BY DEF PromptId, TaskInv, RunType
  <2>2. Outstanding(p) => p[1] # o /\ Outstanding(p)'
    BY <1>1, <1>6, <2>1 DEF Outstanding
  <2>3. Past(p) => Past(p)'
    BY <1>1, <1>6, <2>1 DEF Past, Waits
  <2>. QED  BY <2>2, <2>3
<1>8. /\ \A i \in DOMAIN wire : Is("prompt", i) \/ Is("answer", i) => wire[i].id \in PromptId
      /\ answering \subseteq PromptId /\ prompt \in PromptId \cup {None}
  BY MessageFields DEF TaskInv, StoreType
\* None of the prompts known so far is the new one.
<1>9. ASSUME NEW p \in PromptId, Outstanding(p) \/ Past(p)
      PROVE  p # id
  BY <1>1, <1>6, <1>9 DEF Outstanding, Past
<1>10. id \notin answering /\ (prompt # None => prompt # id)
  <2>1. \A p \in answering : Outstanding(p) \/ Past(p)
    BY DEF PromptInv, AnsweringOutstanding, PromptAnswered, AnswerUnderWay, Is
  <2>2. prompt # None => Outstanding(prompt) \/ Past(prompt)
    BY <2>1 DEF PromptInv, ShownOutstanding
  <2>. QED  BY <1>8, <1>9, <2>1, <2>2
<1>11. PromptUnderWay'
  <2>1. \A i \in DOMAIN wire : Is("prompt", i) => wire[i].id[1] # o
    BY <1>7, <1>8 DEF PromptInv, PromptUnderWay
  <2>2. ASSUME NEW i \in DOMAIN wire, Is("prompt", i)
        PROVE  Outstanding(wire[i].id)'
    <3>1. PICK p \in PromptId : p = wire[i].id /\ Outstanding(p)
      BY <1>8, <2>2 DEF PromptInv, PromptUnderWay
    <3>2. Outstanding(p)'
      BY <1>7, <3>1
    <3>. QED  BY <1>4, <3>1, <3>2 DEF Outstanding
  <2>3. ASSUME NEW i \in DOMAIN wire', Is("prompt", i)', i # n
        PROVE  /\ Outstanding(wire[i].id)'
               /\ wire'[i].id \notin answering' /\ (prompt' # None => wire'[i].id # prompt')
               /\ \A j \in DOMAIN wire' : Is("prompt", j)' /\ wire'[j].id[1] = wire'[i].id[1] => j = i
               /\ \A j \in DOMAIN wire' : Is("answer", j)' /\ wire'[j].id[1] = wire'[i].id[1] => j < i
    <3>1. i \in DOMAIN wire /\ Is("prompt", i) /\ wire'[i] = wire[i]
      BY <1>4, <2>3 DEF Is
    <3>. QED  BY <1>1, <1>3, <1>4, <1>6, <2>1, <2>2, <3>1 DEF PromptInv, PromptUnderWay, Is
  <2>4. /\ Outstanding(wire[n].id)'
        /\ wire'[n].id \notin answering' /\ (prompt' # None => wire'[n].id # prompt')
        /\ \A j \in DOMAIN wire' : Is("prompt", j)' /\ wire'[j].id[1] = wire'[n].id[1] => j = n
        /\ \A j \in DOMAIN wire' : Is("answer", j)' /\ wire'[j].id[1] = wire'[n].id[1] => j < n
    <3>1. Outstanding(wire[n].id)'
      BY <1>3, <1>4, <1>6 DEF Outstanding
    <3>2. wire'[n].id \notin answering' /\ (prompt' # None => wire'[n].id # prompt')
      BY <1>1, <1>3, <1>4, <1>10
    <3>3. \A j \in DOMAIN wire' : Is("prompt", j)' /\ wire'[j].id[1] = wire'[n].id[1] => j = n
      BY <1>3, <1>4, <1>6, <2>1 DEF Is
    <3>4. \A j \in DOMAIN wire' : Is("answer", j)' => j < n
      BY <1>3, <1>4, <1>5 DEF Is
    <3>. QED  BY <3>1, <3>2, <3>3, <3>4
  <2>. QED  BY <2>3, <2>4 DEF PromptUnderWay
<1>12. AnswerUnderWay'
  <2>1. ASSUME NEW i \in DOMAIN wire', Is("answer", i)'
        PROVE  i \in DOMAIN wire /\ Is("answer", i) /\ wire'[i] = wire[i]
    BY <1>3, <1>4, <2>1 DEF Is
  <2>2. ASSUME NEW i \in DOMAIN wire', Is("answer", i)'
        PROVE  Past(wire[i].id)'
    <3>1. PICK p \in PromptId : p = wire[i].id /\ Past(p)
      BY <1>8, <2>1, <2>2 DEF PromptInv, AnswerUnderWay
    <3>2. Past(p)'
      BY <1>7, <3>1
    <3>. QED  BY <2>1, <2>2, <3>1, <3>2 DEF Past, Waits
  <2>. QED  BY <1>1, <2>1, <2>2 DEF PromptInv, AnswerUnderWay
<1>13. AnsweringOutstanding'
  <2>1. \A p \in answering : PromptAnswered(p) => PromptAnswered(p)'
    BY <1>4 DEF PromptAnswered
  <2>. QED  BY <1>1, <1>7, <1>8, <2>1 DEF PromptInv, AnsweringOutstanding
<1>14. ShownOutstanding'
  BY <1>1, <1>7, <1>8 DEF PromptInv, ShownOutstanding
<1>. QED  BY <1>11, <1>12, <1>13, <1>14 DEF PromptInv

\* The answer to a prompt arrives, which is past from then on.
LEMMA AnswerSent ==
  ASSUME TaskInv, PromptInv, NEW id \in answering, AnswerArrives(id)
  PROVE  PromptInv'
<1>0. PICK n : n = Len(wire) + 1
  OBVIOUS
<1> DEFINE o == id[1]
           open == run[o] = "prompting" /\ prompts[o] = id[2]
           answer == IF open THEN "true" ELSE "false"
<1>1. /\ ~PromptAnswered(id) /\ run' = IF open THEN [run EXCEPT ![o] = "running"] ELSE run
      /\ Send(PromptAnswer(id, answer)) /\ UNCHANGED <<answering, prompt, prompts>>
  BY Zenon DEF AnswerArrives, windowVars, taskVars
<1>2. answer \in {"true", "false"} /\ id \in PromptId /\ o \in Op /\ id[2] \in Nat /\ prompts[o] \in Nat
  BY DEF TaskInv, StoreType, PromptId, RunType
<1>3. Outstanding(id) /\ Past(id)'
  <2>1. Outstanding(id)
    BY <1>1 DEF PromptInv, AnsweringOutstanding
  <2>2. prompts'[o] = id[2] /\ run'[o] \notin {"prompting", "none"}
    BY <1>1, <1>2, <2>1 DEF Outstanding, TaskInv, RunType
  <2>. QED  BY <1>2, <2>1, <2>2 DEF Past, Waits
<1>4. ASSUME NEW p \in PromptId
      PROVE  /\ Outstanding(p) /\ p # id => Outstanding(p)'
             /\ Outstanding(p) /\ p[1] = o => p = id
             /\ Past(p) => Past(p)'
  <2>1. p[1] \in Op /\ p[2] \in Nat /\ p = <<p[1], p[2]>> /\ id = <<id[1], id[2]>>
    BY <1>2 DEF PromptId
  <2>2. Outstanding(p) /\ p[1] = o => p = id
    BY <1>3, <2>1 DEF Outstanding
  <2>3. Outstanding(p) /\ p # id => Outstanding(p)'
    BY <1>1, <2>1, <2>2 DEF Outstanding, TaskInv, RunType
  <2>4. Past(p) => Past(p)'
    BY <1>1, <1>2, <2>1 DEF Past, Waits, TaskInv, RunType
  <2>. QED  BY <2>2, <2>3, <2>4
<1> HIDE DEF answer, open
<1>5. PICK m \in Message : m = PromptAnswer(id, answer)
  BY <1>2, MessageTypes
<1>6. m.kind = "answer" /\ m.id = id /\ Send(m)
  BY <1>1, <1>5 DEF PromptAnswer
<1>7. /\ DOMAIN wire' = DOMAIN wire \cup {n} /\ wire'[n] = m
      /\ \A i \in DOMAIN wire : wire'[i] = wire[i]
  BY <1>0, <1>6, Sent DEF TaskInv
<1>8. n \in Nat /\ \A i \in DOMAIN wire : i \in Nat /\ i < n
  BY <1>0 DEF TaskInv, WireType
<1>9. /\ \A i \in DOMAIN wire : Is("prompt", i) \/ Is("answer", i) => wire[i].id \in PromptId
      /\ answering \subseteq PromptId /\ prompt \in PromptId \cup {None}
  BY MessageFields DEF TaskInv, StoreType
<1>10. PromptUnderWay'
  <2>1. ASSUME NEW i \in DOMAIN wire', Is("prompt", i)'
        PROVE  i \in DOMAIN wire /\ Is("prompt", i) /\ wire'[i] = wire[i]
    BY <1>6, <1>7, <2>1 DEF Is
  <2>2. ASSUME NEW i \in DOMAIN wire', Is("prompt", i)'
        PROVE  Outstanding(wire[i].id)' /\ wire[i].id[1] # o
    <3>1. PICK p \in PromptId : p = wire[i].id /\ Outstanding(p) /\ p \notin answering
      BY <1>9, <2>1, <2>2 DEF PromptInv, PromptUnderWay
    <3>2. Outstanding(p)' /\ p[1] # o
      BY <1>4, <3>1
    <3>. QED  BY <2>1, <2>2, <3>1, <3>2 DEF Outstanding
  <2>3. ASSUME NEW i \in DOMAIN wire', Is("prompt", i)'
        PROVE  /\ wire'[i].id \notin answering' /\ (prompt' # None => wire'[i].id # prompt')
               /\ \A j \in DOMAIN wire' : Is("prompt", j)' /\ wire'[j].id[1] = wire'[i].id[1] => j = i
    BY <1>1, <2>1, <2>3 DEF PromptInv, PromptUnderWay
  <2>4. ASSUME NEW i \in DOMAIN wire', Is("prompt", i)', NEW j \in DOMAIN wire', Is("answer", j)',
               wire'[j].id[1] = wire'[i].id[1]
        PROVE  j < i
    <3>1. i \in DOMAIN wire /\ Is("prompt", i) /\ wire'[i] = wire[i] /\ wire[i].id[1] # o
      BY <2>1, <2>2, <2>4
    <3>2. j \in DOMAIN wire /\ wire'[j] = wire[j]
      BY <1>6, <1>7, <2>4, <3>1
    <3>. QED  BY <2>4, <3>1, <3>2 DEF PromptInv, PromptUnderWay, Is
  <2>. QED  BY <2>2, <2>3, <2>4 DEF PromptUnderWay
<1>11. AnswerUnderWay'
  <2>1. ASSUME NEW i \in DOMAIN wire, Is("answer", i)
        PROVE  Past(wire[i].id)'
    <3>1. PICK p \in PromptId : p = wire[i].id /\ Past(p)
      BY <1>9, <2>1 DEF PromptInv, AnswerUnderWay
    <3>2. Past(p)'
      BY <1>4, <3>1
    <3>. QED  BY <1>7, <3>1, <3>2 DEF Past, Waits
  <2>2. Past(wire[n].id)'
    BY <1>3, <1>6, <1>7 DEF Past, Waits
  <2>3. prompt # None /\ prompt[1] = o => prompt[2] <= id[2]
    <3>1. prompt # None => Outstanding(prompt) \/ Past(prompt)
      BY DEF PromptInv, ShownOutstanding, AnsweringOutstanding, PromptAnswered, AnswerUnderWay, Is
    <3>2. prompt # None => prompt[2] \in Nat
      BY <1>9 DEF PromptId
    <3>. QED  BY <1>2, <1>3, <3>1, <3>2 DEF Outstanding, Past
  <2>4. ~\E j \in DOMAIN wire : Is("answer", j) /\ wire[j].id = id
    BY <1>1 DEF PromptAnswered, Is
  <2>5. ASSUME NEW i \in DOMAIN wire', Is("answer", i)', i # n
        PROVE  /\ wire'[i].id \in answering' /\ Past(wire[i].id)'
               /\ \A j \in DOMAIN wire' : Is("answer", j)' /\ wire'[j].id = wire'[i].id => j = i
               /\ prompt' # None /\ prompt'[1] = wire'[i].id[1] => prompt'[2] <= wire'[i].id[2]
    <3>1. i \in DOMAIN wire /\ Is("answer", i) /\ wire'[i] = wire[i]
      BY <1>7, <2>5 DEF Is
    <3>2. \A j \in DOMAIN wire' : Is("answer", j)' /\ wire'[j].id = wire'[i].id => j = i
      <4>1. wire[i].id # id
        BY <2>4, <3>1
      <4>. QED  BY <1>6, <1>7, <3>1, <4>1 DEF PromptInv, AnswerUnderWay, Is
    <3>. QED  BY <1>1, <2>1, <3>1, <3>2 DEF PromptInv, AnswerUnderWay
  <2>6. /\ wire'[n].id \in answering' /\ Past(wire[n].id)'
        /\ \A j \in DOMAIN wire' : Is("answer", j)' /\ wire'[j].id = wire'[n].id => j = n
        /\ prompt' # None /\ prompt'[1] = wire'[n].id[1] => prompt'[2] <= wire'[n].id[2]
    BY <1>1, <1>6, <1>7, <2>2, <2>3, <2>4 DEF Is
  <2>. QED  BY <2>5, <2>6 DEF AnswerUnderWay
<1>12. AnsweringOutstanding'
  <2>1. \A p \in answering : PromptAnswered(p) => PromptAnswered(p)'
    BY <1>7 DEF PromptAnswered
  <2>2. PromptAnswered(id)'
    BY <1>6, <1>7 DEF PromptAnswered
  <2>. QED  BY <1>1, <1>4, <1>9, <2>1, <2>2 DEF PromptInv, AnsweringOutstanding
<1>13. ShownOutstanding'
  BY <1>1, <1>4, <1>9 DEF PromptInv, ShownOutstanding
<1>. QED  BY <1>10, <1>11, <1>12, <1>13 DEF PromptInv

\* The user answers, or the runtime rejects the answer.
LEMMA AnswerBeginsOrFails ==
  ASSUME TaskInv, PromptInv,
         AnswerPendingInteraction \/ \E p \in answering : AnswerRejected(p)
  PROVE  PromptInv'
<1>1. UNCHANGED <<run, prompts, wire>>
  BY DEF AnswerPendingInteraction, AnswerRejected, windowVars, serviceVars
<1>2. \A p : Outstanding(p)' = Outstanding(p) /\ Past(p)' = Past(p)
             /\ PromptAnswered(p)' = PromptAnswered(p)
  BY <1>1 DEF Outstanding, Past, Waits, PromptAnswered
<1>3. CASE AnswerPendingInteraction
  <2>1. /\ prompt # None /\ prompt \notin answering /\ prompt' = prompt
        /\ answering' = answering \cup {prompt}
    BY <1>3 DEF AnswerPendingInteraction, windowVars
  <2>2. Outstanding(prompt)
    BY <2>1 DEF PromptInv, ShownOutstanding
  <2>3. PromptUnderWay'
    BY <1>1, <2>1 DEF PromptInv, PromptUnderWay, Outstanding, Is
  <2>4. AnswerUnderWay'
    BY <1>1, <2>1 DEF PromptInv, AnswerUnderWay, Past, Waits, Is
  <2>5. AnsweringOutstanding'
    BY <1>1, <2>1, <2>2 DEF PromptInv, AnsweringOutstanding, Outstanding, PromptAnswered
  <2>. QED  BY <2>1, <2>3, <2>4, <2>5 DEF PromptInv, ShownOutstanding
<1>4. ASSUME NEW p \in answering, AnswerRejected(p) PROVE PromptInv'
  <2>1. ~PromptAnswered(p) /\ answering' = answering \ {p} /\ prompt' = None
    BY <1>4 DEF AnswerRejected
  <2>2. PromptUnderWay'
    BY <1>1, <2>1 DEF PromptInv, PromptUnderWay, Outstanding, Is
  <2>3. \A i \in DOMAIN wire : Is("answer", i) => wire[i].id # p
    BY <2>1 DEF PromptAnswered, Is
  <2>4. AnswerUnderWay'
    BY <1>1, <2>1, <2>3 DEF PromptInv, AnswerUnderWay, Past, Waits, Is
  <2>5. AnsweringOutstanding'
    BY <1>1, <2>1 DEF PromptInv, AnsweringOutstanding, Outstanding, PromptAnswered
  <2>. QED  BY <2>1, <2>2, <2>4, <2>5 DEF PromptInv, ShownOutstanding
<1>. QED  BY <1>3, <1>4

\* A load that begins asks nothing.
LEMMA LoadKeepsPrompts ==
  ASSUME TaskInv, UNCHANGED prompts,
         \/ \E s, inv, scr : LoadActiveScreen(s, inv, scr)
         \/ \E o \in Op : \E kind : run[o] = "none" /\ StartOperation(o, kind)
  PROVE  PromptingKeeps
BY DEF LoadActiveScreen, StartOperation, Idle, PromptingKeeps, TaskInv, RunType

\* The service sends prompts and responses to answers.
LEMMA PromptByService ==
  ASSUME TaskInv, PromptInv, ServiceStep
  PROVE  PromptInv'
<1>1. ASSUME PromptingKeeps, UNCHANGED <<answering, prompt>>,
             UNCHANGED wire \/ \E m \in Message : m.kind \notin {"prompt", "answer"} /\ Send(m)
      PROVE  PromptInv'
  BY <1>1, PromptsStay
<1>2. CASE Publish
  <2>1. PICK s \in {selected, None} \cup (IF made = Selection THEN {} ELSE {Fresh}), att \in BOOLEAN :
          Send(Snapshot(s, att))
    BY <1>2 DEF Publish
  <2>2. s \in Selection \cup {None}
    <3>1. made # Selection => Fresh \in Selection
      BY DEF TaskInv, StoreType, Fresh
    <3>. QED  BY <2>1, <3>1 DEF TaskInv, StoreType
  <2>3. PICK m \in Message : m = Snapshot(s, att)
    BY <2>2, MessageTypes
  <2>4. m.kind = "snapshot" /\ Send(m)
    BY <2>1, <2>3 DEF Snapshot
  <2>5. PromptingKeeps /\ UNCHANGED <<answering, prompt>>
    BY <1>2 DEF Publish, PromptingKeeps, windowVars, taskVars
  <2>. QED  BY <1>1, <2>4, <2>5
<1>3. ASSUME NEW o \in Op, OpArrives(o) \/ OpEnds(o) PROVE PromptInv'
  <2>1. UNCHANGED wire \/ \E ok, closed \in BOOLEAN : Send(Envelope(o, ok, closed))
    BY <1>3 DEF OpArrives, OpEnds
  <2>2. \A ok, closed \in BOOLEAN : Envelope(o, ok, closed) \in Message
                                    /\ Envelope(o, ok, closed).kind = "envelope"
    <3>1. \A ok, closed \in BOOLEAN : Envelope(o, ok, closed).kind = "envelope"
      BY DEF Envelope
    <3>. QED  BY <3>1, MessageTypes
  <2>3. PromptingKeeps /\ UNCHANGED <<answering, prompt>>
    BY <1>3 DEF OpArrives, OpEnds, InFlight, PromptingKeeps, TaskInv, RunType, windowVars, taskVars
  <2>. QED  BY <1>1, <2>1, <2>2, <2>3
<1>4. ASSUME NEW o \in Op, OpReports(o) PROVE PromptInv'
  <2>1. PICK m \in Message : m = Progress(o)
    BY MessageTypes
  <2>2. Send(m) /\ m.kind = "progress" /\ PromptingKeeps /\ UNCHANGED <<answering, prompt>>
    BY <1>4, <2>1 DEF OpReports, Progress, PromptingKeeps, windowVars, taskVars, serviceVars
  <2>. QED  BY <1>1, <2>2
<1>5. ASSUME NEW o \in Op, CancelArrives(o) PROVE PromptInv'
  <2>1. PICK r \in {"true", "false"} : Send(CancelAnswer(o, r))
    BY <1>5 DEF CancelArrives
  <2>2. PICK m \in Message : m = CancelAnswer(o, r)
    BY MessageTypes
  <2>3. Send(m) /\ m.kind = "cancel" /\ PromptingKeeps /\ UNCHANGED <<answering, prompt>>
    BY <1>5, <2>1, <2>2 DEF CancelArrives, CancelAnswer, PromptingKeeps, windowVars, taskVars, serviceVars
  <2>. QED  BY <1>1, <2>3
<1>. QED  BY <1>2, <1>3, <1>4, <1>5, PromptSent, AnswerSent DEF ServiceStep

\* What the user does asks nothing; only an answer concerns a prompt.
LEMMA PromptByUser ==
  ASSUME TaskInv, PromptInv, UserStep \/ RejectionStep
  PROVE  PromptInv'
<1>1. ASSUME NEW scr \in {"inventory", "other"}, NavigateToScreen(scr) PROVE PromptInv'
  <2>1. PromptingKeeps
    BY <1>1, LoadKeepsPrompts DEF NavigateToScreen
  <2>. QED  BY <1>1, <2>1, PromptsStay DEF NavigateToScreen
<1>2. ASSUME NEW o \in Op, Reload(o) \/ RunOther(o) PROVE PromptInv'
  <2>1. PromptingKeeps
    BY <1>2, LoadKeepsPrompts DEF Reload, RunOther, Idle
  <2>. QED  BY <1>2, <2>1, PromptsStay DEF Reload, RunOther
<1>3. ASSUME NEW o \in Op, OperationRejected(o) PROVE PromptInv'
  <2>1. PromptingKeeps /\ prompt' = None /\ UNCHANGED <<answering, wire>>
    BY <1>3 DEF OperationRejected, PromptingKeeps, TaskInv, RunType
  <2>. QED  BY <2>1, PromptsStay
<1>4. CASE CancelActiveOperation \/ SelectToken \/ \E o \in Op : CancelRejected(o)
  <2>1. PromptingKeeps /\ prompt' \in {prompt, None} /\ UNCHANGED <<answering, wire>>
    BY <1>4 DEF CancelActiveOperation, SelectToken, CancelRejected, PromptingKeeps, taskVars, serviceVars
  <2>. QED  BY <2>1, PromptsStay
<1>. QED  BY <1>1, <1>2, <1>3, <1>4, AnswerBeginsOrFails DEF UserStep, RejectionStep

\* A handler shows a prompt as it arrives, or none.
LEMMA PromptByHandler ==
  ASSUME Delivery = "sent", TaskInv, PromptInv, HandlerStep
  PROVE  PromptInv'
<1>1. PICK i \in DOMAIN wire :
        \/ HandleDiscoveryChanged(i) \/ HandleOperationProgress(i)
        \/ HandleInteractionRequested(i) \/ OperationReturns(i)
        \/ CancelReturns(i) \/ AnswerReturns(i)
  BY DEF HandlerStep
<1>2. ASSUME NEW kind \in {"snapshot", "progress", "envelope", "cancel"}, Deliver(kind, i),
             PromptingKeeps, prompt' \in {prompt, None}, UNCHANGED answering
      PROVE  PromptInv'
  BY <1>2, PromptsMove
<1>3. CASE HandleDiscoveryChanged(i)
  <2>1. PromptingKeeps
    <3>1. UNCHANGED run => PromptingKeeps
      BY <1>3 DEF HandleDiscoveryChanged, PromptingKeeps
    <3>. QED  BY <1>3, <3>1, LoadKeepsPrompts DEF HandleDiscoveryChanged
  <2>2. Deliver("snapshot", i) /\ prompt' \in {prompt, None} /\ UNCHANGED answering
    BY <1>3 DEF HandleDiscoveryChanged
  <2>. QED  BY <1>2, <2>1, <2>2
<1>4. CASE HandleOperationProgress(i) \/ OperationReturns(i) \/ CancelReturns(i)
  <2>1. PromptingKeeps
    BY <1>4 DEF HandleOperationProgress, OperationReturns, CancelReturns, serviceVars, PromptingKeeps
  <2>2. PICK kind \in {"progress", "envelope", "cancel"} :
          Deliver(kind, i) /\ prompt' \in {prompt, None} /\ UNCHANGED answering
    BY <1>4 DEF HandleOperationProgress, OperationReturns, CancelReturns, taskVars
  <2>. QED  BY <1>2, <2>1, <2>2
<1>5. CASE HandleInteractionRequested(i)
  <2>1. Deliver("prompt", i) /\ PromptingKeeps /\ prompt' = wire[i].id /\ UNCHANGED answering
    BY <1>5 DEF HandleInteractionRequested, taskVars, serviceVars, PromptingKeeps
  <2>. QED  BY <2>1, FirstReceived, PromptsMove DEF TaskInv
<1>6. CASE AnswerReturns(i)
  <2>1. Deliver("answer", i) /\ PromptingKeeps /\ prompt' = None /\ answering' = answering \ {wire[i].id}
    BY <1>6 DEF AnswerReturns, serviceVars, PromptingKeeps
  <2>. QED  BY <2>1, FirstReceived, PromptsMove DEF TaskInv
<1>. QED  BY <1>1, <1>3, <1>4, <1>5, <1>6

\* Every step keeps what the window knows of the prompts.
LEMMA PromptStep ==
  ASSUME Delivery = "sent", TaskInv, PromptInv, [Next]_vars
  PROVE  PromptInv'
<1>1. CASE UNCHANGED vars
  BY <1>1, PromptsStay DEF vars, windowVars, taskVars, serviceVars, PromptingKeeps
<1>. QED  BY <1>1, PromptByService, PromptByUser, PromptByHandler DEF Next

-----------------------------------------------------------------------------
(* One operation awaited at a time.                                         *)

OneAwaited == \A o, p \in Op : task[o] # "idle" /\ task[p] # "idle" => o = p

\* Once everything under way has arrived, the window will show the selection of
\* the service.
ViewAgrees ==
  /\ (\A k \in DOMAIN wire : ~Changes(wire[k])) => session = selected
  /\ \A j \in DOMAIN wire : Changes(wire[j]) /\ View(wire[j]) # selected =>
       \E k \in DOMAIN wire : k > j /\ Changes(wire[k])

\* No operation runs on a selection that was given up, and none will.
NotLost ==
  /\ lost \subseteq made /\ selected \in made \cup {None} /\ selected \notin lost
  /\ \A o \in InFlight : runSel[o] \notin lost

\* What is sent tells of a change of the selection.
Tells(m) == Send(m) /\ IF Changes(m) THEN View(m) = selected' ELSE selected' = selected

\* Something is sent, which tells of the selection.
LEMMA AgreementGrows ==
  ASSUME WireType, ViewAgrees, NEW m \in Message, Tells(m), UNCHANGED session
  PROVE  ViewAgrees'
<1>0. PICK n : n = Len(wire) + 1
  OBVIOUS
<1>1. /\ DOMAIN wire' = DOMAIN wire \cup {n} /\ wire'[n] = m
      /\ \A i \in DOMAIN wire : wire'[i] = wire[i]
  BY <1>0, Sent DEF Tells
<1>2. n \in Nat /\ \A i \in DOMAIN wire : i \in Nat /\ i < n
  BY <1>0 DEF WireType
<1>3. CASE Changes(m)
  BY <1>1, <1>2, <1>3 DEF ViewAgrees, Tells
<1>4. CASE ~Changes(m)
  BY <1>1, <1>2, <1>4 DEF ViewAgrees, Tells
<1>. QED  BY <1>3, <1>4

\* The first message is received, and makes of the session what it says.
LEMMA AgreementMoves ==
  ASSUME Delivery = "sent", WireType, ViewAgrees, NEW kind, NEW i, Deliver(kind, i),
         session' = IF Changes(wire[1]) THEN View(wire[1]) ELSE session, UNCHANGED selected
  PROVE  ViewAgrees'
<1>1. /\ 1 \in DOMAIN wire
      /\ DOMAIN wire \subseteq Nat \ {0} /\ DOMAIN wire' \subseteq Nat \ {0}
      /\ \A j \in DOMAIN wire' : j + 1 \in DOMAIN wire /\ wire'[j] = wire[j + 1]
      /\ \A k \in DOMAIN wire \ {1} : k - 1 \in DOMAIN wire' /\ wire'[k - 1] = wire[k]
  BY FirstReceived
\* Whatever changes the session later than the first is still under way.
<1>2. ASSUME NEW k \in DOMAIN wire, k > 1, Changes(wire[k])
      PROVE  k - 1 \in DOMAIN wire' /\ Changes(wire'[k - 1])
  BY <1>1, <1>2
<1>3. ASSUME \A k \in DOMAIN wire' : ~Changes(wire'[k])
      PROVE  session' = selected'
  <2>1. \A k \in DOMAIN wire : k > 1 => ~Changes(wire[k])
    BY <1>2, <1>3
  <2>2. CASE Changes(wire[1])
    BY <1>1, <2>1, <2>2 DEF ViewAgrees
  <2>3. CASE ~Changes(wire[1])
    <3>1. \A k \in DOMAIN wire : ~Changes(wire[k])
      BY <1>1, <2>1, <2>3
    <3>. QED  BY <2>3, <3>1 DEF ViewAgrees
  <2>. QED  BY <2>2, <2>3
<1>4. ASSUME NEW j \in DOMAIN wire', Changes(wire'[j]), View(wire'[j]) # selected'
      PROVE  \E k \in DOMAIN wire' : k > j /\ Changes(wire'[k])
  <2>1. PICK k \in DOMAIN wire : k > j + 1 /\ Changes(wire[k])
    BY <1>1, <1>4 DEF ViewAgrees
  <2>. QED  BY <1>1, <1>2, <2>1
<1>. QED  BY <1>3, <1>4 DEF ViewAgrees

\* The service tells of each change of its selection, unless an operation of
\* another one ends.
LEMMA ServiceTells ==
  ASSUME TaskInv, ServiceStep, \A o \in InFlight : runSel[o] \notin lost
  PROVE  /\ UNCHANGED session
         /\ UNCHANGED <<wire, selected>> \/ \E m \in Message : Tells(m)
<1>1. UNCHANGED session
  BY DEF ServiceStep, Publish, OpArrives, OpReports, OpPrompts, OpEnds, CancelArrives, AnswerArrives, windowVars
<1>2. CASE Publish
  <2>1. PICK s \in {selected, None} \cup (IF made = Selection THEN {} ELSE {Fresh}), att \in BOOLEAN :
          selected' = s /\ Send(Snapshot(s, att))
    BY <1>2 DEF Publish
  <2>2. s \in Selection \cup {None}
    <3>1. made # Selection => Fresh \in Selection
      BY DEF TaskInv, StoreType, Fresh
    <3>. QED  BY <2>1, <3>1 DEF TaskInv, StoreType
  <2>3. PICK m \in Message : m = Snapshot(s, att)
    BY <2>2, MessageTypes
  <2>4. Changes(m) /\ View(m) = s
    BY <2>3 DEF Snapshot, Changes, View
  <2>. QED  BY <1>1, <2>1, <2>3, <2>4 DEF Tells
<1>3. ASSUME NEW o \in Op, OpArrives(o)
      PROVE  UNCHANGED <<wire, selected>> \/ \E m \in Message : Tells(m)
  <2>1. CASE selected = None
    <3>1. PICK m \in Message : m = Envelope(o, FALSE, TRUE)
      BY MessageTypes
    <3>2. Send(m) /\ selected' = selected
      BY <1>3, <2>1, <3>1 DEF OpArrives
    <3>3. Changes(m) /\ View(m) = None
      BY <3>1 DEF Envelope, Changes, View
    <3>. QED  BY <2>1, <3>2, <3>3 DEF Tells
  <2>2. CASE selected # None
    BY <1>3, <2>2 DEF OpArrives
  <2>. QED  BY <2>1, <2>2
<1>4. ASSUME NEW o \in Op, OpEnds(o)
      PROVE  \E m \in Message : Tells(m)
  <2>1. PICK ok \in BOOLEAN, closed \in BOOLEAN :
          /\ IF closed /\ selected = runSel[o]
             THEN selected' = None /\ lost' = lost \cup {runSel[o]}
             ELSE UNCHANGED <<selected, lost>>
          /\ Send(Envelope(o, ok, closed))
    BY <1>4 DEF OpEnds
  <2>2. PICK m \in Message : m = Envelope(o, ok, closed)
    BY MessageTypes
  <2>3. m.kind = "envelope" /\ m.closed = closed
    BY <2>2 DEF Envelope
  <2>4. runSel[o] = selected
    BY <1>4 DEF OpEnds, TaskInv, RunsOnSelected
  <2>5. IF Changes(m) THEN View(m) = selected' ELSE selected' = selected
    BY <2>1, <2>3, <2>4 DEF Changes, View
  <2>. QED  BY <2>1, <2>2, <2>5 DEF Tells
<1>5. ASSUME UNCHANGED selected, NEW m \in Message, Send(m), m.kind \notin {"snapshot", "envelope"}
      PROVE  Tells(m)
  BY <1>5 DEF Tells, Changes
<1>6. ASSUME NEW o \in Op, OpReports(o)
      PROVE  \E m \in Message : Tells(m)
  <2>1. PICK m \in Message : m = Progress(o)
    BY MessageTypes
  <2>2. Send(m) /\ UNCHANGED selected /\ m.kind \notin {"snapshot", "envelope"}
    BY <1>6, <2>1 DEF OpReports, serviceVars, Progress
  <2>. QED  BY <1>5, <2>2
<1>7. ASSUME NEW o \in Op, OpPrompts(o)
      PROVE  \E m \in Message : Tells(m)
  <2>1. prompts[o] + 1 \in 1..MaxPrompts
    BY <1>7, BoundAssumption DEF OpPrompts, TaskInv, RunType
  <2>2. PICK m \in Message : m = Prompt(o, prompts[o] + 1)
    BY <2>1, MessageTypes
  <2>3. Send(m) /\ UNCHANGED selected /\ m.kind \notin {"snapshot", "envelope"}
    BY <1>7, <2>2 DEF OpPrompts, Prompt
  <2>. QED  BY <1>5, <2>3
<1>8. ASSUME NEW o \in Op, CancelArrives(o)
      PROVE  \E m \in Message : Tells(m)
  <2>1. PICK r \in {"true", "false"} : Send(CancelAnswer(o, r))
    BY <1>8 DEF CancelArrives
  <2>2. PICK m \in Message : m = CancelAnswer(o, r)
    BY MessageTypes
  <2>3. Send(m) /\ UNCHANGED selected /\ m.kind \notin {"snapshot", "envelope"}
    BY <1>8, <2>1, <2>2 DEF CancelArrives, serviceVars, CancelAnswer
  <2>. QED  BY <1>5, <2>3
<1>9. ASSUME NEW p \in answering, AnswerArrives(p)
      PROVE  \E m \in Message : Tells(m)
  <2> DEFINE answer == IF run[p[1]] = "prompting" /\ prompts[p[1]] = p[2] THEN "true" ELSE "false"
  <2>1. Send(PromptAnswer(p, answer)) /\ UNCHANGED selected
    BY <1>9, Zenon DEF AnswerArrives
  <2>2. answer \in {"true", "false"} /\ p \in PromptId
    BY DEF TaskInv, StoreType
  <2> HIDE DEF answer
  <2>3. PICK m \in Message : m = PromptAnswer(p, answer)
    BY <2>2, MessageTypes
  <2>4. Send(m) /\ m.kind \notin {"snapshot", "envelope"}
    BY <2>1, <2>3 DEF PromptAnswer
  <2>. QED  BY <1>5, <2>1, <2>4
<1>. QED  BY <1>1, <1>2, <1>3, <1>4, <1>6, <1>7, <1>8, <1>9 DEF ServiceStep

\* What changes no selection and begins no operation leaves none on a lost one.
LEMMA NotLostStays ==
  ASSUME NotLost, InFlight' \subseteq InFlight, UNCHANGED <<selected, made, lost, runSel>>
  PROVE  NotLost'
BY DEF NotLost

\* The service gives up a selection when the only operation on it ends.
LEMMA NotLostByService ==
  ASSUME TaskInv, OneAwaited, NotLost, ServiceStep
  PROVE  NotLost'
<1>1. None \notin made
  BY NoneIsFresh DEF TaskInv, StoreType
<1>2. CASE Publish
  <2>1. PICK s \in {selected, None} \cup (IF made = Selection THEN {} ELSE {Fresh}) :
          selected' = s /\ made' = made \cup ({s} \ {None})
    BY <1>2 DEF Publish
  <2>2. made # Selection => Fresh \notin made
    BY DEF TaskInv, StoreType, Fresh
  <2>3. UNCHANGED <<lost, run, runSel>> /\ InFlight' = InFlight
    BY <1>2 DEF Publish, InFlight
  <2>4. s \notin lost
    BY <1>1, <2>1, <2>2 DEF NotLost
  <2>. QED  BY <2>1, <2>3, <2>4 DEF NotLost
<1>3. ASSUME NEW o \in Op, OpArrives(o) PROVE NotLost'
  <2>1. CASE selected = None
    <3>1. InFlight' \subseteq InFlight
      BY <1>3, <2>1 DEF OpArrives, InFlight, TaskInv, RunType
    <3>. QED  BY <1>3, <2>1, <3>1, NotLostStays DEF OpArrives
  <2>2. CASE selected # None
    <3>1. InFlight' \subseteq InFlight \cup {o} /\ UNCHANGED <<selected, made, lost>>
      BY <1>3, <2>2 DEF OpArrives, InFlight, TaskInv, RunType
    <3>2. runSel'[o] = selected /\ \A p \in Op \ {o} : runSel'[p] = runSel[p]
      BY <1>3, <2>2 DEF OpArrives, TaskInv, RunType
    <3>3. InFlight \subseteq Op
      BY DEF InFlight
    <3>. QED  BY <3>1, <3>2, <3>3 DEF NotLost
  <2>. QED  BY <2>1, <2>2
<1>4. ASSUME NEW o \in Op, OpEnds(o) PROVE NotLost'
  <2>1. /\ o \in InFlight /\ InFlight' = InFlight \ {o} /\ UNCHANGED <<made, runSel>>
        /\ \/ selected = runSel[o] /\ selected' = None /\ lost' = lost \cup {runSel[o]}
           \/ UNCHANGED <<selected, lost>>
    BY <1>4 DEF OpEnds, InFlight, TaskInv, RunType
  <2>2. InFlight' = {}
    <3>1. ASSUME NEW p \in InFlight PROVE p = o
      BY <2>1, <3>1 DEF OneAwaited, TaskInv, Awaited, InFlight
    <3>. QED  BY <2>1, <3>1
  <2>3. runSel[o] # None
    BY <2>1 DEF TaskInv, RunsOnSelected
  <2>. QED  BY <1>1, <2>1, <2>2, <2>3 DEF NotLost
<1>5. ASSUME NEW o \in Op, OpReports(o) \/ OpPrompts(o) \/ CancelArrives(o) PROVE NotLost'
  <2>1. InFlight' \subseteq InFlight /\ UNCHANGED <<selected, made, lost, runSel>>
    BY <1>5 DEF OpReports, OpPrompts, CancelArrives, serviceVars, InFlight, TaskInv, RunType
  <2>. QED  BY <2>1, NotLostStays
<1>6. ASSUME NEW p \in answering, AnswerArrives(p) PROVE NotLost'
  <2>1. UNCHANGED <<selected, made, lost, runSel>>
    BY <1>6 DEF AnswerArrives
  <2>2. \/ run' = run
        \/ run[p[1]] = "prompting" /\ run' = [run EXCEPT ![p[1]] = "running"]
    BY <1>6 DEF AnswerArrives
  <2>3. InFlight' \subseteq InFlight
    BY <2>2 DEF InFlight, TaskInv, RunType
  <2>. QED  BY <2>1, <2>3, NotLostStays
<1>. QED  BY <1>2, <1>3, <1>4, <1>5, <1>6 DEF ServiceStep

\* The window begins operations, which have not arrived yet.
LEMMA NotLostByWindow ==
  ASSUME TaskInv, NotLost, UserStep \/ HandlerStep \/ RejectionStep \/ UNCHANGED vars
  PROVE  NotLost'
<1>1. ASSUME NEW s, NEW inv, NEW scr, LoadActiveScreen(s, inv, scr)
      PROVE  InFlight' = InFlight
  BY <1>1 DEF LoadActiveScreen, StartOperation, Idle, InFlight, TaskInv, RunType
<1>2. UNCHANGED <<selected, made, lost, runSel>>
  BY DEF UserStep, HandlerStep, RejectionStep, NavigateToScreen, Reload, RunOther,
         CancelActiveOperation, AnswerPendingInteraction, SelectToken, HandleDiscoveryChanged,
         HandleOperationProgress, HandleInteractionRequested, OperationReturns, CancelReturns,
         AnswerReturns, OperationRejected, CancelRejected, AnswerRejected, serviceVars, vars
<1>3. CASE UserStep
  <2>1. ASSUME NEW o \in Op, Reload(o) \/ RunOther(o) PROVE InFlight' = InFlight
    BY <2>1 DEF Reload, RunOther, StartOperation, Idle, InFlight, TaskInv, RunType
  <2>2. ASSUME CancelActiveOperation \/ AnswerPendingInteraction \/ SelectToken
        PROVE  InFlight' = InFlight
    BY <2>2 DEF CancelActiveOperation, AnswerPendingInteraction, SelectToken, serviceVars, InFlight
  <2>3. InFlight' = InFlight
    BY <1>1, <1>3, <2>1, <2>2 DEF UserStep, NavigateToScreen
  <2>. QED  BY <1>2, <2>3, NotLostStays
<1>4. CASE HandlerStep
  <2>1. run' = run => InFlight' = InFlight
    BY DEF InFlight
  <2>2. InFlight' = InFlight
    BY <1>1, <1>4, <2>1 DEF HandlerStep, HandleDiscoveryChanged, HandleOperationProgress,
       HandleInteractionRequested, OperationReturns, CancelReturns, AnswerReturns, serviceVars
  <2>. QED  BY <1>2, <2>2, NotLostStays
<1>5. CASE RejectionStep
  <2>1. ASSUME NEW o \in Op, OperationRejected(o) PROVE InFlight' \subseteq InFlight
    BY <2>1 DEF OperationRejected, InFlight, TaskInv, RunType
  <2>2. ASSUME (\E o \in Op : CancelRejected(o)) \/ (\E p \in answering : AnswerRejected(p))
        PROVE  InFlight' \subseteq InFlight
    BY <2>2 DEF CancelRejected, AnswerRejected, serviceVars, InFlight
  <2>3. InFlight' \subseteq InFlight
    BY <1>5, <2>1, <2>2 DEF RejectionStep
  <2>. QED  BY <1>2, <2>3, NotLostStays
<1>6. CASE UNCHANGED vars
  <2>1. InFlight' = InFlight
    BY <1>6 DEF vars, serviceVars, InFlight
  <2>. QED  BY <1>2, <2>1, NotLostStays
<1>. QED  BY <1>3, <1>4, <1>5, <1>6

\* With one operation awaited at a time, no message of an earlier one is taken for
\* the session of a later one.
LEMMA AgreementStep ==
  ASSUME Delivery = "sent", TaskInv, OneAwaited, NotLost, ViewAgrees, [Next]_vars
  PROVE  NotLost' /\ ViewAgrees'
<1>1. \A o \in InFlight : runSel[o] \notin lost
  BY DEF NotLost
<1>2. NotLost'
  BY NotLostByService, NotLostByWindow DEF Next
<1>3. ASSUME UNCHANGED <<wire, session, selected>> PROVE ViewAgrees'
  BY <1>3 DEF ViewAgrees
<1>4. ASSUME ServiceStep PROVE ViewAgrees'
  <2>1. CASE UNCHANGED <<wire, selected>>
    BY <1>1, <1>3, <1>4, <2>1, ServiceTells
  <2>2. ASSUME NEW m \in Message, Tells(m) PROVE ViewAgrees'
    BY <1>1, <1>4, <2>2, ServiceTells, AgreementGrows DEF TaskInv
  <2>. QED  BY <1>1, <1>4, <2>1, <2>2, ServiceTells
<1>5. ASSUME UserStep \/ RejectionStep \/ UNCHANGED vars PROVE ViewAgrees'
  <2>1. UNCHANGED <<wire, session, selected>>
    BY <1>5 DEF UserStep, NavigateToScreen, Reload, RunOther, CancelActiveOperation,
       AnswerPendingInteraction, SelectToken, RejectionStep, OperationRejected, CancelRejected,
       AnswerRejected, windowVars, serviceVars, vars
  <2>. QED  BY <1>3, <2>1
<1>6. ASSUME HandlerStep PROVE ViewAgrees'
  <2>1. PICK i \in DOMAIN wire :
          \/ HandleDiscoveryChanged(i) \/ HandleOperationProgress(i)
          \/ HandleInteractionRequested(i) \/ OperationReturns(i)
          \/ CancelReturns(i) \/ AnswerReturns(i)
    BY <1>6 DEF HandlerStep
  <2>2. UNCHANGED selected
    BY <2>1 DEF HandleDiscoveryChanged, HandleOperationProgress, HandleInteractionRequested,
                OperationReturns, CancelReturns, AnswerReturns, serviceVars
  <2>3. PICK kind : /\ Deliver(kind, i)
                    /\ session' = IF Changes(wire[i]) THEN View(wire[i]) ELSE session
    BY <2>1 DEF HandleDiscoveryChanged, HandleOperationProgress, HandleInteractionRequested,
                OperationReturns, CancelReturns, AnswerReturns, Deliver, Changes, View
  <2>. QED  BY <2>2, <2>3, FirstReceived, AgreementMoves DEF TaskInv
<1>. QED  BY <1>2, <1>4, <1>5, <1>6 DEF Next

-----------------------------------------------------------------------------
(* Theorems.                                                                *)

\* Inductive, in the order sent.
WindowInv == TaskInv /\ ReportInv /\ AnnounceInv /\ PromptInv

\* The window starts empty.
LEMMA WindowInit == ASSUME Init PROVE WindowInv
<1>1. ReportInv
  BY TaskInit DEF Init, ReportInv, ViewOfSelected, ReportOfView, ReportOfSession
<1>2. AnnounceInv
  BY TaskInit DEF Init, AnnounceInv, AnnouncedBefore, PromptOfTask
<1>3. PromptInv
  BY TaskInit DEF Init, PromptInv, PromptUnderWay, AnswerUnderWay, AnsweringOutstanding, ShownOutstanding
<1>. QED  BY <1>1, <1>2, <1>3, TaskInit DEF WindowInv

\* Every step keeps what is known of the window.
LEMMA WindowStep ==
  ASSUME Delivery = "sent", WindowInv, [Next]_vars
  PROVE  WindowInv'
<1>1. TaskInv'
  BY TaskStep DEF WindowInv
<1>2. AnnounceInv'
  <2>1. CASE UNCHANGED vars
    <3>1. TasksKeep /\ UNCHANGED <<wire, prompt, task>>
      BY <2>1 DEF vars, windowVars, taskVars, serviceVars, TasksKeep
    <3>. QED  BY <3>1, AnnouncedStays DEF WindowInv, TaskInv, AnnounceInv, PromptOfTask
  <2>. QED
    BY <2>1, AnnounceByService, AnnounceByUser, AnnounceByHandler, AnnounceByRejection DEF WindowInv, Next
<1>. QED  BY <1>1, <1>2, ReportStep, PromptStep DEF WindowInv

\* When messages arrive in the order sent, a report is of the session that the
\* window shows, and an inventory that shows that it loads has a load under way.
THEOREM WorkbenchInvariant == ASSUME Delivery = "sent" PROVE Spec => []WorkbenchInv
<1>1. WindowInv => WorkbenchInv
  BY TypesOfTask DEF WindowInv, TaskInv, ReportInv, WorkbenchInv
<1>2. WindowInv /\ [Next]_vars => WindowInv'
  BY WindowStep
<1>. QED  BY <1>1, <1>2, WindowInit, PTL DEF Spec

\* As long as no call is rejected, an operation in the status bar is awaited.
LEMMA ActiveStep ==
  ASSUME Delivery = "sent", TaskInv, AnnounceInv, ActiveHasTask,
         ServiceStep \/ UserStep \/ HandlerStep \/ UNCHANGED vars
  PROVE  ActiveHasTask'
<1>1. CASE UNCHANGED vars
  BY <1>1 DEF vars, windowVars, taskVars, ActiveHasTask
<1>. QED  BY <1>1, AnnounceByService, AnnounceByUser, AnnounceByHandler

\* What is shown is awaited: nothing is shown when nothing is under way.
LEMMA IdleByInv == ASSUME AnnounceInv, ActiveHasTask, TaskInv PROVE IdleWhenDone
<1>1. prompt # None => prompt[1] \in Op
  BY DEF TaskInv, StoreType, PromptId
<1>. QED  BY <1>1 DEF AnnounceInv, PromptOfTask, ActiveHasTask, IdleWhenDone, Quiet

\* When messages arrive in the order sent and the runtime rejects no call, nothing
\* is left in the status bar and in the dialog when nothing is under way, however
\* many operations overlap.
THEOREM NothingLeft ==
  ASSUME Delivery = "sent", MayReject = FALSE
  PROVE  Spec => []IdleWhenDone
<1> DEFINE Inv == WindowInv /\ ActiveHasTask
<1>1. Init => Inv
  BY WindowInit DEF Init, ActiveHasTask
<1>2. Inv /\ [Next]_vars => Inv'
  <2> SUFFICES ASSUME Inv, [Next]_vars PROVE Inv'
    OBVIOUS
  <2>1. ~RejectionStep
    BY DEF RejectionStep, OperationRejected, CancelRejected, AnswerRejected
  <2>. QED  BY <2>1, WindowStep, ActiveStep DEF WindowInv, Next
<1>3. Inv => IdleWhenDone
  BY IdleByInv DEF WindowInv
<1>. QED  BY <1>1, <1>2, <1>3, PTL DEF Spec

-----------------------------------------------------------------------------
(* The two instances that TLC checks.                                       *)

ShapeInv ==
  /\ shape \in {"pair", "alone"}
  /\ shape = "pair" => ActiveHasTask
  /\ shape = "alone" => OneAwaited /\ NotLost /\ ViewAgrees

ShapedInv == WindowInv /\ ShapeInv

\* Both instances start without an operation.
LEMMA ShapedInitInv == ASSUME ShapedInit PROVE ShapedInv
<1>1. Init /\ shape \in {"pair", "alone"}
  BY DEF ShapedInit
<1>2. ActiveHasTask /\ OneAwaited /\ ViewAgrees
  BY <1>1, TaskInit DEF Init, ActiveHasTask, OneAwaited, ViewAgrees
<1>3. NotLost
  BY <1>1 DEF Init, NotLost, InFlight
<1>. QED  BY <1>1, <1>2, <1>3, WindowInit DEF ShapedInv, ShapeInv

\* Every step of an instance keeps its invariant: alone, its bound leaves one
\* operation that is awaited.
LEMMA ShapedStep ==
  ASSUME Delivery = "sent", ShapedInv, [ShapedNext]_<<vars, shape>>
  PROVE  ShapedInv'
<1>1. [Next]_vars /\ shape' = shape
  BY DEF ShapedNext, Next
<1>2. WindowInv'
  BY <1>1, WindowStep DEF ShapedInv
<1>3. shape = "pair" => ActiveHasTask'
  BY ActiveStep DEF ShapedInv, ShapeInv, WindowInv, ShapedNext
<1>4. shape = "alone" => OneAwaited'
  <2>1. CASE UNCHANGED <<vars, shape>>
    BY <2>1 DEF ShapedInv, ShapeInv, OneAwaited, vars, taskVars
  <2>2. ASSUME shape = "alone", Within' PROVE OneAwaited'
    BY <1>1, <2>2 DEF Within, OneAwaited
  <2>. QED  BY <2>1, <2>2 DEF ShapedNext
<1>5. shape = "alone" => NotLost' /\ ViewAgrees'
  BY <1>1, AgreementStep DEF ShapedInv, ShapeInv, WindowInv
<1>. QED  BY <1>1, <1>2, <1>3, <1>4, <1>5 DEF ShapedInv, ShapeInv

\* Of the pair, whose calls all reach the service, nothing is left in the status
\* bar and in the dialog when nothing is under way.
THEOREM IdleOfPair == ASSUME Delivery = "sent" PROVE ShapedSpec => []IdleUnlessRejected
<1>1. ShapedInv => IdleUnlessRejected
  BY IdleByInv DEF ShapedInv, ShapeInv, WindowInv, IdleUnlessRejected
<1>2. ShapedInv /\ [ShapedNext]_<<vars, shape>> => ShapedInv'
  BY ShapedStep
<1>. QED  BY <1>1, <1>2, ShapedInitInv, PTL DEF ShapedSpec

\* With one operation awaited at a time, however many follow each other, the window
\* ends with the selection of the service.
THEOREM SessionOfOne == ASSUME Delivery = "sent" PROVE ShapedSpec => []SingleSessionAgrees
<1>1. ShapedInv => SingleSessionAgrees
  BY DEF ShapedInv, ShapeInv, ViewAgrees, SingleSessionAgrees, SessionAgrees, Quiet
<1>2. ShapedInv /\ [ShapedNext]_<<vars, shape>> => ShapedInv'
  BY ShapedStep
<1>. QED  BY <1>1, <1>2, ShapedInitInv, PTL DEF ShapedSpec

\* With one operation awaited at a time no handler takes away the prompt that the
\* service waits for, except those that PromptKept lists.
LEMMA KeptByOne ==
  ASSUME Delivery = "sent", TaskInv, AnnounceInv, PromptInv, OneAwaited, Next
  PROVE  PromptKept
<1> SUFFICES ASSUME prompt # None, prompt' = None, Waits(prompt)
             PROVE  \/ SelectToken
                    \/ \E i \in DOMAIN wire : CancelReturns(i)
                    \/ AnswerRejected(prompt) \/ AnswerOfAnother
                    \/ session' # session \/ attached' # attached
  BY DEF PromptKept
<1>1. /\ prompt \in PromptId /\ prompt[1] \in Op /\ prompt = <<prompt[1], prompt[2]>>
      /\ prompts[prompt[1]] \in Nat /\ run[prompt[1]] = "prompting" /\ prompts[prompt[1]] = prompt[2]
  BY DEF TaskInv, StoreType, RunType, PromptId, Waits
<1>2. \A o \in Op : task[o] # "idle" => o = prompt[1]
  BY <1>1 DEF OneAwaited, TaskInv, Awaited
<1>3. CASE ServiceStep
  BY <1>3 DEF ServiceStep, Publish, OpArrives, OpReports, OpPrompts, OpEnds, CancelArrives,
              AnswerArrives, windowVars
<1>4. CASE UserStep
  BY <1>4 DEF UserStep, NavigateToScreen, Reload, RunOther, CancelActiveOperation,
              AnswerPendingInteraction, windowVars
<1>5. ASSUME NEW i \in DOMAIN wire, HandleDiscoveryChanged(i)
      PROVE  session' # session \/ attached' # attached
  BY <1>5 DEF HandleDiscoveryChanged
<1>6. ASSUME NEW i \in DOMAIN wire, HandleInteractionRequested(i) PROVE FALSE
  <2>1. Is("prompt", i) /\ wire[i].id = None
    BY <1>6 DEF HandleInteractionRequested, Deliver, Is
  <2>2. wire[i].id \in PromptId /\ Outstanding(wire[i].id)
    BY <2>1, MessageFields DEF TaskInv, PromptInv, PromptUnderWay
  <2>3. wire[i].id[1] = wire[i].op /\ wire[i].op \in Op
    BY <2>1, MessageFields DEF TaskInv
  <2>4. task[wire[i].op] # "idle"
    BY <2>1 DEF AnnounceInv, AnnouncedBefore, Announces, Is
  <2>5. PICK p \in PromptId : p = None /\ Outstanding(p) /\ p[1] = prompt[1]
    BY <1>2, <2>1, <2>2, <2>3, <2>4
  <2>6. p[2] = prompt[2] /\ p = <<p[1], p[2]>>
    BY <1>1, <2>5 DEF Outstanding, PromptId
  <2>. QED  BY <1>1, <2>5, <2>6
<1>7. ASSUME NEW i \in DOMAIN wire, OperationReturns(i) PROVE FALSE
  <2>1. Is("envelope", i)
    BY <1>7 DEF OperationReturns, Deliver, Is
  <2>2. wire[i].op \in Op /\ run[wire[i].op] = "ended" /\ task[wire[i].op] # "idle"
    BY <2>1, MessageFields DEF TaskInv, EnvelopeOnce, Awaited
  <2>. QED  BY <1>1, <1>2, <2>2
<1>8. ASSUME NEW i \in DOMAIN wire, AnswerReturns(i), wire[i].id[1] = prompt[1] PROVE FALSE
  <2>1. Is("answer", i)
    BY <1>8 DEF AnswerReturns, Deliver, Is
  <2>2. wire[i].id \in PromptId /\ Past(wire[i].id)
    BY <2>1, MessageFields DEF TaskInv, PromptInv, AnswerUnderWay
  <2>3. PICK p \in PromptId : p = wire[i].id /\ Past(p)
    BY <2>2
  <2>4. p[1] = prompt[1] /\ p[2] \in Nat /\ prompt[2] \in Nat
    BY <1>1, <1>8, <2>3 DEF PromptId
  <2>5. prompt[2] <= p[2]
    BY <2>1, <2>3, <2>4 DEF PromptInv, AnswerUnderWay
  <2>. QED  BY <1>1, <2>3, <2>4, <2>5 DEF Past, Waits
<1>9. ASSUME NEW i \in DOMAIN wire, HandleOperationProgress(i) PROVE FALSE
  BY <1>9 DEF HandleOperationProgress
<1>10. ASSUME NEW o \in Op, OperationRejected(o) PROVE FALSE
  BY <1>1, <1>2, <1>10 DEF OperationRejected
<1>11. ASSUME NEW o \in Op, CancelRejected(o) PROVE FALSE
  BY <1>11 DEF CancelRejected
<1>12. ASSUME NEW p \in answering, AnswerRejected(p), p[1] = prompt[1] PROVE AnswerRejected(prompt)
  <2>1. Outstanding(p) /\ p \in PromptId
    BY <1>12 DEF AnswerRejected, PromptInv, AnsweringOutstanding, TaskInv, StoreType
  <2>2. p[1] \in Op /\ p = <<p[1], p[2]>>
    BY <2>1 DEF PromptId
  <2>3. p = prompt
    BY <1>1, <1>12, <2>1, <2>2 DEF Outstanding
  <2>. QED  BY <1>12, <2>3
<1>. QED
  BY <1>3, <1>4, <1>5, <1>6, <1>7, <1>8, <1>9, <1>10, <1>11, <1>12
  DEF Next, HandlerStep, RejectionStep, AnswerOfAnother

\* With one operation awaited at a time, however many follow each other, every step
\* keeps the prompt that the service waits for, except those that PromptKept lists.
THEOREM PromptOfOne == ASSUME Delivery = "sent" PROVE ShapedSpec => SinglePromptKept
<1>1. ASSUME ShapedInv, [ShapedNext]_<<vars, shape>>
      PROVE  [shape = "alone" => PromptKept]_vars
  BY <1>1, KeptByOne DEF ShapedInv, ShapeInv, WindowInv, ShapedNext, Next
<1>2. ShapedInv /\ [ShapedNext]_<<vars, shape>> => ShapedInv'
  BY ShapedStep
<1>. QED  BY <1>1, <1>2, ShapedInitInv, PTL DEF ShapedSpec, SinglePromptKept

=============================================================================
