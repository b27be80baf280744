------------------------- MODULE InteractionBridge -------------------------
(***************************************************************************)
(* How an operation asks the user for a PIN (service/service.go): the      *)
(* goroutine of the operation waits in RequestInteraction, the window is   *)
(* told by an event, and its answer arrives in a ResolveInteraction call   *)
(* on another goroutine.  The answer is handed over on an unbuffered       *)
(* channel, while either side may give up: the operation is cancelled or   *)
(* over, the service shuts down, or the call itself is cancelled.          *)
(***************************************************************************)
EXTENDS Naturals

CONSTANTS
  Op,       \* operations, all of one selection
  Prompt,   \* fresh interaction IDs (UUIDs)
  Call,     \* calls of ResolveInteraction
  None

ASSUME NoneIsFresh == None \notin Op \cup Prompt \cup Call

VARIABLES
  closed,         \* Service.closed: emit drops events
  selection,      \* "current", "abandoned" by an operation, or "ended"
  interactions,   \* keys of Service.interactions
  asker,          \* the operation an interaction ID belongs to
  op,             \* control state of the goroutine of an operation
  prompt,         \* local of RequestInteraction: the ID it waits for
  cancelled,      \* operations whose context is cancelled
  shown,          \* prompts emitted to the window
  call, target,   \* ResolveInteraction: control state and answer.InteractionID
  received        \* history: the call whose answer RequestInteraction returned

opVars   == <<op, prompt, cancelled>>
callVars == <<call, target>>
vars == <<closed, selection, interactions, asker, opVars, shown, callVars, received>>

\* RequestInteraction before it has an answer, and until it returned.
Asks == {"registered", "emitted", "waiting"}
Asking(o) == op[o] \in Asks \cup {"returning"}
Live == {o \in Op : op[o] \notin {"idle", "done"}}

Init ==
  /\ closed = FALSE /\ selection = "current"
  /\ interactions = {} /\ shown = {}
  /\ asker = [p \in Prompt |-> None]
  /\ op = [o \in Op |-> "idle"]
  /\ prompt = [o \in Op |-> None]
  /\ cancelled = {}
  /\ call = [c \in Call |-> "idle"]
  /\ target = [c \in Call |-> None]
  /\ received = [p \in Prompt |-> None]

-----------------------------------------------------------------------------
(* The goroutine of operation o.                                            *)

Begin(o) ==
  /\ op[o] = "idle" /\ ~closed /\ selection = "current"
  /\ op' = [op EXCEPT ![o] = "executing"]
  /\ UNCHANGED <<closed, selection, interactions, asker, prompt, cancelled,
                 shown, callVars, received>>

\* RequestInteraction registers a fresh interaction ID, ...
RegisterInteraction(o) ==
  /\ op[o] = "executing"
  /\ \E p \in Prompt :
       /\ asker[p] = None
       /\ asker' = [asker EXCEPT ![p] = o]
       /\ prompt' = [prompt EXCEPT ![o] = p]
       /\ interactions' = interactions \cup {p}
  /\ op' = [op EXCEPT ![o] = "registered"]
  /\ UNCHANGED <<closed, selection, cancelled, shown, callVars, received>>

\* ... emits it unless the service was closed (an answer may come at once), ...
EmitPrompt(o) ==
  /\ op[o] = "registered"
  /\ shown' = IF closed THEN shown ELSE shown \cup {prompt[o]}
  /\ op' = [op EXCEPT ![o] = "emitted"]
  /\ UNCHANGED <<closed, selection, interactions, asker, prompt, cancelled, callVars, received>>

\* ... and enters the select.
AwaitAnswer(o) ==
  /\ op[o] = "emitted"
  /\ op' = [op EXCEPT ![o] = "waiting"]
  /\ UNCHANGED <<closed, selection, interactions, asker, prompt, cancelled,
                 shown, callVars, received>>

\* The context of the operation is cancelled.  (done cannot be closed here: the
\* operation closes it after execute, and so RequestInteraction, has returned.)
RequestGivesUp(o) ==
  /\ op[o] = "waiting" /\ o \in cancelled
  /\ op' = [op EXCEPT ![o] = "returning"]
  /\ UNCHANGED <<closed, selection, interactions, asker, prompt, cancelled,
                 shown, callVars, received>>

\* Mutant of UnregisterInteraction: the deferred call is missing.
KeepInteraction(o) ==
  /\ op[o] = "returning"
  /\ prompt' = [prompt EXCEPT ![o] = None]
  /\ op' = [op EXCEPT ![o] = "executing"]
  /\ UNCHANGED <<closed, selection, interactions, asker, cancelled, shown, callVars, received>>

\* Mutant of UnregisterInteraction: the prompts of all operations are dropped.
UnregisterAll(o) ==
  /\ op[o] = "returning"
  /\ interactions' = {}
  /\ prompt' = [prompt EXCEPT ![o] = None]
  /\ op' = [op EXCEPT ![o] = "executing"]
  /\ UNCHANGED <<closed, selection, asker, cancelled, shown, callVars, received>>

\* The deferred unregisterInteraction; execute goes on.
UnregisterInteraction(o) ==
  /\ op[o] = "returning"
  /\ interactions' = interactions \ {prompt[o]}
  /\ prompt' = [prompt EXCEPT ![o] = None]
  /\ op' = [op EXCEPT ![o] = "executing"]
  /\ UNCHANGED <<closed, selection, asker, cancelled, shown, callVars, received>>

\* execute returns; an operation that finds its authenticator closed retires
\* the selection on the way.
ExecuteReturns(o) ==
  /\ op[o] = "executing"
  /\ op' = [op EXCEPT ![o] = "ending"]
  /\ selection' \in {selection} \cup {x \in {"abandoned"} : selection = "current"}
  /\ UNCHANGED <<closed, interactions, asker, prompt, cancelled, shown, callVars, received>>

\* unregisterOperation closes the done channel.
UnregisterOperation(o) ==
  /\ op[o] = "ending"
  /\ op' = [op EXCEPT ![o] = "done"]
  /\ cancelled' = cancelled \ {o}
  /\ UNCHANGED <<closed, selection, interactions, asker, prompt, shown, callVars, received>>

-----------------------------------------------------------------------------
(* ResolveInteraction, called by the window for a prompt it was shown.      *)

\* The ID is looked up and deleted under s.mu: a second call finds nothing.
CallBegins(c) ==
  /\ call[c] = "idle"
  /\ \E p \in shown :
       /\ target' = [target EXCEPT ![c] = p]
       /\ interactions' = interactions \ {p}
       /\ call' = [call EXCEPT ![c] = IF p \in interactions THEN "offering" ELSE "false"]
  /\ UNCHANGED <<closed, selection, asker, opVars, shown, received>>

\* Mutant of AnswerDelivered: the response channel is buffered.
AnswerBuffered(c) ==
  LET o == asker[target[c]] IN
    /\ call[c] = "offering"
    /\ call' = [call EXCEPT ![c] = "true"]
    /\ IF op[o] = "waiting" /\ prompt[o] = target[c]
       THEN /\ op' = [op EXCEPT ![o] = "returning"]
            /\ received' = [received EXCEPT ![target[c]] = c]
       ELSE UNCHANGED <<op, received>>
    /\ UNCHANGED <<closed, selection, interactions, asker, prompt, cancelled, shown, target>>

\* The unbuffered send and receive happen together.
AnswerDelivered(c) ==
  LET o == asker[target[c]] IN
    /\ call[c] = "offering"
    /\ op[o] = "waiting" /\ prompt[o] = target[c]
    /\ call' = [call EXCEPT ![c] = "true"]
    /\ op' = [op EXCEPT ![o] = "returning"]
    /\ received' = [received EXCEPT ![target[c]] = c]
    /\ UNCHANGED <<closed, selection, interactions, asker, prompt, cancelled, shown, target>>

\* Mutant of CallFindsDone: the send does not wait for the receiver.
CallDoesNotWait(c) ==
  /\ call[c] = "offering" /\ op[asker[target[c]]] # "waiting"
  /\ call' = [call EXCEPT ![c] = "false"]
  /\ UNCHANGED <<closed, selection, interactions, asker, opVars, shown, target, received>>

\* The operation ended without taking the answer.
CallFindsDone(c) ==
  /\ call[c] = "offering" /\ op[asker[target[c]]] = "done"
  /\ call' = [call EXCEPT ![c] = "false"]
  /\ UNCHANGED <<closed, selection, interactions, asker, opVars, shown, target, received>>

\* The request of the window is cancelled: the call fails with an error.
CallAborted(c) ==
  /\ call[c] = "offering"
  /\ call' = [call EXCEPT ![c] = "error"]
  /\ UNCHANGED <<closed, selection, interactions, asker, opVars, shown, target, received>>

-----------------------------------------------------------------------------
(* Others.                                                                  *)

\* CancelOperation finds the operations of the current selection only.
CancelOperation(o) ==
  /\ o \in Live /\ selection = "current"
  /\ cancelled' = cancelled \cup {o}
  /\ UNCHANGED <<closed, selection, interactions, asker, op, prompt, shown, callVars, received>>

Close ==
  /\ ~closed
  /\ closed' = TRUE
  /\ UNCHANGED <<selection, interactions, asker, opVars, shown, callVars, received>>

\* Mutant of EndSelection: the operations are left to finish by themselves.
EndWithoutCancel ==
  /\ selection = "current"
  /\ selection' = "ended"
  /\ UNCHANGED <<closed, interactions, asker, opVars, shown, callVars, received>>

\* Reconciling, restarting and closing take the selection out of the service
\* and cancel its operations.
EndSelection ==
  /\ selection = "current"
  /\ selection' = "ended"
  /\ cancelled' = cancelled \cup Live
  /\ UNCHANGED <<closed, interactions, asker, op, prompt, shown, callVars, received>>

OpStep(o) ==
  \/ EmitPrompt(o) \/ AwaitAnswer(o) \/ RequestGivesUp(o)
  \/ UnregisterInteraction(o) \/ UnregisterOperation(o)

CallStep(c) == AnswerDelivered(c) \/ CallFindsDone(c)

Next ==
  \/ \E o \in Op : \/ Begin(o) \/ RegisterInteraction(o) \/ OpStep(o)
                   \/ ExecuteReturns(o) \/ CancelOperation(o)
  \/ \E c \in Call : CallBegins(c) \/ CallStep(c) \/ CallAborted(c)
  \/ Close \/ EndSelection

Spec == Init /\ [][Next]_vars

\* Goroutines that can run do run, an operation that was cancelled returns, and
\* shutdown goes on.  Nobody has to answer a prompt or cancel an operation.
Fairness ==
  /\ \A o \in Op : WF_vars(OpStep(o)) /\ WF_vars(o \in cancelled /\ ExecuteReturns(o))
  /\ \A c \in Call : WF_vars(CallStep(c))
  /\ WF_vars(closed /\ EndSelection)

FairSpec == Spec /\ Fairness

-----------------------------------------------------------------------------
(* Properties.                                                              *)

\* Every variable has its type; a prompt that is being waited for or answered
\* has an operation.
TypeOK ==
  /\ closed \in BOOLEAN /\ selection \in {"current", "abandoned", "ended"}
  /\ interactions \in SUBSET Prompt /\ shown \in SUBSET Prompt
  /\ asker \in [Prompt -> Op \cup {None}]
  /\ op \in [Op -> {"idle", "executing", "registered", "emitted", "waiting", "returning", "ending", "done"}]
  /\ prompt \in [Op -> Prompt \cup {None}]
  /\ \A o \in Op : Asking(o) => prompt[o] # None /\ asker[prompt[o]] = o
  /\ \A c \in Call : call[c] = "offering" => target[c] # None /\ asker[target[c]] # None
  /\ cancelled \in SUBSET Op
  /\ call \in [Call -> {"idle", "offering", "true", "false", "error"}]
  /\ target \in [Call -> Prompt \cup {None}]
  /\ received \in [Prompt -> Call \cup {None}]

\* ResolveInteraction answers true exactly when RequestInteraction returned the
\* answer of that very call to its operation: the PIN was used, and used once.
TrueMeansUsed ==
  \A c \in Call : call[c] = "true" <=> \E p \in Prompt : received[p] = c /\ target[c] = p

\* An answer that was refused is never one the operation still waits for,
\* unless another call took the prompt first and is handing over its answer or
\* was aborted: an answer may come before the operation has begun to wait.
RefusedMeansTaken ==
  \A c \in Call : call[c] = "false" =>
    \/ ~ \E o \in Op : prompt[o] = target[c] /\ op[o] \in Asks
    \/ \E d \in Call \ {c} : target[d] = target[c] /\ call[d] \in {"offering", "error"}

\* An operation that waits can be answered: its prompt is registered, or a call
\* that took it hands over its answer, or such a call was aborted.
WaitingIsAnswerable ==
  \A o \in Op : op[o] \in Asks =>
    \/ prompt[o] \in interactions
    \/ \E c \in Call : target[c] = prompt[o] /\ call[c] \in {"offering", "error"}

\* The conversation between an operation and its calls is never broken off.
BridgeInv == TypeOK /\ WaitingIsAnswerable

\* The map holds the prompts of operations inside RequestInteraction and
\* nothing else: it neither grows nor answers for an operation that moved on.
NoStaleInteraction ==
  \A p \in interactions : \E o \in Op : Asking(o) /\ prompt[o] = p

\* A cancelled operation does not go on waiting for the user.
CancelEndsWait == \A o \in Op : (o \in cancelled) ~> (op[o] = "done")

\* A call does not outlive a cancelled operation: when the user answers a
\* prompt whose operation gives up, the call is answered as well.
ResolveReturns ==
  \A c \in Call : call[c] = "offering" /\ asker[target[c]] \in cancelled ~> call[c] # "offering"

\* Shutdown drops events, so a prompt may never be shown; the operation that
\* waits for it ends all the same, unless a sibling gave up their selection.
ShutdownEndsWait == closed ~> (selection = "abandoned" \/ \A o \in Op : op[o] \in {"idle", "done"})

\* Nobody waits for ever for an answer that can no longer come.
WaitsEnd == CancelEndsWait /\ ResolveReturns /\ ShutdownEndsWait

=============================================================================
