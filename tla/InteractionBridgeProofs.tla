----------------------- MODULE InteractionBridgeProofs -----------------------
(***************************************************************************)
(* Theorems about InteractionBridge, for any number of operations, prompts *)
(* and answers: whoever waits can be answered, an answer is accepted       *)
(* exactly when it is used, and no prompt outlives its request.            *)
(***************************************************************************)
EXTENDS InteractionBridge, TLAPS

\* What the window was shown, or answers, some operation has asked; an ID is
\* answered for only after it left the map.
KnownPrompts ==
  /\ \A p \in shown : asker[p] # None
  /\ \A c \in Call : /\ call[c] # "idle" => target[c] # None
                     /\ target[c] # None => asker[target[c]] # None /\ target[c] \notin interactions

\* An answer that was received was accepted, and its operation waits no more.
ReceivedOnce ==
  /\ \A c \in Call : call[c] = "true" => received[target[c]] = c
  /\ \A p \in Prompt : received[p] # None =>
       /\ asker[p] # None
       /\ call[received[p]] = "true" /\ target[received[p]] = p
       /\ \A o \in Op : op[o] \in Asks => prompt[o] # p

\* The inductive invariant.
IInv ==
  /\ TypeOK /\ KnownPrompts /\ ReceivedOnce
  /\ WaitingIsAnswerable /\ NoStaleInteraction /\ RefusedMeansTaken

-----------------------------------------------------------------------------

\* Two operations never wait for one prompt.
LEMMA OwnPrompt ==
  ASSUME TypeOK, NEW o \in Op, NEW q \in Op, Asking(o), Asking(q), prompt[o] = prompt[q]
  PROVE  o = q
  BY DEF TypeOK

LEMMA BridgeStarts == Init => IInv
<1> SUFFICES ASSUME Init PROVE IInv
  OBVIOUS
<1>1. TypeOK
  <2>1. closed \in BOOLEAN
    BY Zenon DEF Init
  <2>. QED  BY <2>1 DEF Init, TypeOK, Asking, Asks
<1>2. KnownPrompts /\ ReceivedOnce /\ WaitingIsAnswerable /\ NoStaleInteraction /\ RefusedMeansTaken
  BY DEF Init, KnownPrompts, ReceivedOnce, WaitingIsAnswerable, NoStaleInteraction,
         RefusedMeansTaken, Asks
<1>. QED  BY <1>1, <1>2 DEF IInv

\* Steps that change nothing a conversation rests on.
LEMMA QuietSteps ==
  ASSUME IInv, TypeOK',
         UNCHANGED <<interactions, asker, prompt, shown, call, target, received>>,
         \A o \in Op : (op'[o] \in Asks => op[o] \in Asks) /\ (Asking(o) => Asking(o)')
  PROVE  IInv'
<1>1. KnownPrompts'
  BY DEF IInv, KnownPrompts
<1>2. ReceivedOnce'
  BY DEF IInv, ReceivedOnce
<1>3. WaitingIsAnswerable' /\ NoStaleInteraction'
  BY DEF IInv, WaitingIsAnswerable, NoStaleInteraction
<1>4. RefusedMeansTaken'
  BY DEF IInv, RefusedMeansTaken
<1>. QED  BY <1>1, <1>2, <1>3, <1>4 DEF IInv

LEMMA BridgeTypes ==
  ASSUME IInv, [Next]_vars
  PROVE  TypeOK'
<1> USE NoneIsFresh
<1> USE DEF IInv, opVars, callVars, Asking, Asks, Live
<1>1. ASSUME NEW o \in Op, Begin(o) PROVE TypeOK'
  BY <1>1 DEF Begin, TypeOK
<1>2. ASSUME NEW o \in Op, RegisterInteraction(o) PROVE TypeOK'
  <2>1. PICK p \in Prompt :
          /\ asker[p] = None
          /\ asker' = [asker EXCEPT ![p] = o]
          /\ prompt' = [prompt EXCEPT ![o] = p]
          /\ interactions' = interactions \cup {p}
    BY <1>2 DEF RegisterInteraction
  <2>2. /\ op[o] = "executing" /\ op' = [op EXCEPT ![o] = "registered"]
        /\ UNCHANGED <<closed, selection, cancelled, shown, call, target, received>>
    BY <1>2 DEF RegisterInteraction
  <2>3. /\ asker' \in [Prompt -> Op \cup {None}] /\ prompt' \in [Op -> Prompt \cup {None}]
        /\ interactions' \in SUBSET Prompt
        /\ op' \in [Op -> {"idle", "executing", "registered", "emitted", "waiting", "returning", "ending", "done"}]
    BY <2>1, <2>2 DEF TypeOK
  <2>4. \A q \in Op : Asking(q)' => prompt'[q] # None /\ asker'[prompt'[q]] = q
    BY <2>1, <2>2 DEF TypeOK
  <2>5. \A c \in Call : call'[c] = "offering" => target'[c] # None /\ asker'[target'[c]] # None
    BY <2>1, <2>2 DEF TypeOK
  <2>. QED  BY <2>2, <2>3, <2>4, <2>5 DEF TypeOK
<1>3. ASSUME NEW o \in Op, EmitPrompt(o) PROVE TypeOK'
  <2>1. shown' \in SUBSET Prompt
    BY <1>3 DEF EmitPrompt, TypeOK
  <2>. QED  BY <1>3, <2>1 DEF EmitPrompt, TypeOK
<1>4. ASSUME NEW o \in Op, AwaitAnswer(o) PROVE TypeOK'
  BY <1>4 DEF AwaitAnswer, TypeOK
<1>5. ASSUME NEW o \in Op, RequestGivesUp(o) PROVE TypeOK'
  BY <1>5 DEF RequestGivesUp, TypeOK
<1>6. ASSUME NEW o \in Op, UnregisterInteraction(o) PROVE TypeOK'
  BY <1>6 DEF UnregisterInteraction, TypeOK
<1>7. ASSUME NEW o \in Op, ExecuteReturns(o) PROVE TypeOK'
  BY <1>7 DEF ExecuteReturns, TypeOK
<1>8. ASSUME NEW o \in Op, UnregisterOperation(o) PROVE TypeOK'
  BY <1>8 DEF UnregisterOperation, TypeOK
<1>9. ASSUME NEW o \in Op, CancelOperation(o) PROVE TypeOK'
  BY <1>9 DEF CancelOperation, TypeOK
<1>10. ASSUME NEW c \in Call, CallBegins(c) PROVE TypeOK'
  <2>1. PICK p \in shown :
          /\ target' = [target EXCEPT ![c] = p]
          /\ interactions' = interactions \ {p}
          /\ call' = [call EXCEPT ![c] = IF p \in interactions THEN "offering" ELSE "false"]
    BY <1>10 DEF CallBegins
  <2>2. p \in Prompt /\ asker[p] # None
    BY DEF TypeOK, KnownPrompts
  <2>3. UNCHANGED <<closed, selection, asker, op, prompt, cancelled, shown, received>>
    BY <1>10 DEF CallBegins
  <2>4. \A d \in Call : call'[d] = "offering" => target'[d] # None /\ asker'[target'[d]] # None
    BY <2>1, <2>2, <2>3 DEF TypeOK
  <2>. QED  BY <2>1, <2>2, <2>3, <2>4 DEF TypeOK
<1>11. ASSUME NEW c \in Call, AnswerDelivered(c) PROVE TypeOK'
  <2>1. asker[target[c]] \in Op /\ target[c] \in Prompt
    BY <1>11 DEF AnswerDelivered, TypeOK
  <2>. QED  BY <1>11, <2>1 DEF AnswerDelivered, TypeOK
<1>12. ASSUME NEW c \in Call, CallFindsDone(c) PROVE TypeOK'
  BY <1>12 DEF CallFindsDone, TypeOK
<1>13. ASSUME NEW c \in Call, CallAborted(c) PROVE TypeOK'
  BY <1>13 DEF CallAborted, TypeOK
<1>14. ASSUME Close PROVE TypeOK'
  <2>1. closed' = TRUE
    BY <1>14 DEF Close
  <2>2. closed' \in BOOLEAN
    BY <2>1, Zenon
  <2>. QED  BY <1>14, <2>2 DEF Close, TypeOK
<1>15. ASSUME EndSelection PROVE TypeOK'
  BY <1>15 DEF EndSelection, TypeOK
<1>16. CASE UNCHANGED vars
  BY <1>16 DEF vars, TypeOK
<1>. QED
  BY <1>1, <1>2, <1>3, <1>4, <1>5, <1>6, <1>7, <1>8, <1>9, <1>10, <1>11, <1>12, <1>13, <1>14,
     <1>15, <1>16 DEF Next, OpStep, CallStep

LEMMA BridgeStep ==
  ASSUME IInv, [Next]_vars
  PROVE  IInv'
<1> USE NoneIsFresh
<1>t. TypeOK /\ TypeOK'
  BY BridgeTypes DEF IInv
<1>1. ASSUME NEW o \in Op, Begin(o) PROVE IInv'
  BY <1>t, <1>1, QuietSteps DEF Begin, TypeOK, Asking, Asks, callVars
\* A fresh ID has not been shown, answered or received.
<1>2. ASSUME NEW o \in Op, RegisterInteraction(o) PROVE IInv'
  <2>1. PICK p \in Prompt :
          /\ asker[p] = None
          /\ asker' = [asker EXCEPT ![p] = o]
          /\ prompt' = [prompt EXCEPT ![o] = p]
          /\ interactions' = interactions \cup {p}
    BY <1>2 DEF RegisterInteraction
  <2>2. /\ op[o] = "executing" /\ op' = [op EXCEPT ![o] = "registered"]
        /\ UNCHANGED <<closed, selection, cancelled, shown, call, target, received>>
    BY <1>2 DEF RegisterInteraction, callVars
  <2>3. KnownPrompts'
    BY <1>t, <2>1, <2>2 DEF IInv, KnownPrompts, TypeOK
  <2>4. ReceivedOnce'
    BY <1>t, <2>1, <2>2 DEF IInv, ReceivedOnce, TypeOK, Asks
  <2>5. WaitingIsAnswerable'
    BY <1>t, <2>1, <2>2 DEF IInv, WaitingIsAnswerable, TypeOK, Asks
  <2>6. NoStaleInteraction'
    BY <1>t, <2>1, <2>2 DEF IInv, NoStaleInteraction, TypeOK, Asking, Asks
  <2>7. RefusedMeansTaken'
    BY <1>t, <2>1, <2>2 DEF IInv, RefusedMeansTaken, KnownPrompts, TypeOK, Asks
  <2>. QED  BY <1>t, <2>3, <2>4, <2>5, <2>6, <2>7 DEF IInv
<1>3. ASSUME NEW o \in Op, EmitPrompt(o) PROVE IInv'
  <2>1. /\ op[o] = "registered" /\ op' = [op EXCEPT ![o] = "emitted"]
        /\ shown' \in {shown, shown \cup {prompt[o]}}
        /\ UNCHANGED <<interactions, asker, prompt, call, target, received>>
    BY <1>3 DEF EmitPrompt, callVars
  <2>2. asker[prompt[o]] # None
    BY <1>t, <2>1 DEF TypeOK, Asking, Asks
  <2>3. KnownPrompts'
    BY <1>t, <2>1, <2>2 DEF IInv, KnownPrompts
  <2>4. ReceivedOnce'
    BY <1>t, <2>1 DEF IInv, ReceivedOnce, TypeOK, Asks
  <2>5. WaitingIsAnswerable' /\ NoStaleInteraction'
    BY <1>t, <2>1 DEF IInv, WaitingIsAnswerable, NoStaleInteraction, TypeOK, Asking, Asks
  <2>6. RefusedMeansTaken'
    BY <1>t, <2>1 DEF IInv, RefusedMeansTaken, TypeOK, Asks
  <2>. QED  BY <1>t, <2>3, <2>4, <2>5, <2>6 DEF IInv
<1>4. ASSUME NEW o \in Op, AwaitAnswer(o) PROVE IInv'
  BY <1>t, <1>4, QuietSteps DEF AwaitAnswer, TypeOK, Asking, Asks, callVars
<1>5. ASSUME NEW o \in Op, RequestGivesUp(o) PROVE IInv'
  BY <1>t, <1>5, QuietSteps DEF RequestGivesUp, TypeOK, Asking, Asks, callVars
\* The prompt that leaves the map is nobody else's.
<1>6. ASSUME NEW o \in Op, UnregisterInteraction(o) PROVE IInv'
  <2>1. /\ op[o] = "returning" /\ op' = [op EXCEPT ![o] = "executing"]
        /\ interactions' = interactions \ {prompt[o]}
        /\ prompt' = [prompt EXCEPT ![o] = None]
        /\ UNCHANGED <<asker, shown, call, target, received>>
    BY <1>6 DEF UnregisterInteraction, callVars
  <2>2. \A q \in Op \ {o} : Asking(q) => prompt[q] # prompt[o]
    BY <1>t, <2>1, OwnPrompt DEF Asking
  <2>3. KnownPrompts'
    BY <1>t, <2>1 DEF IInv, KnownPrompts
  <2>4. ReceivedOnce'
    BY <1>t, <2>1 DEF IInv, ReceivedOnce, TypeOK, Asks
  <2>5. WaitingIsAnswerable'
    BY <1>t, <2>1, <2>2 DEF IInv, WaitingIsAnswerable, TypeOK, Asking, Asks
  <2>6. NoStaleInteraction'
    BY <1>t, <2>1, <2>2 DEF IInv, NoStaleInteraction, TypeOK, Asking, Asks
  <2>7. RefusedMeansTaken'
    BY <1>t, <2>1 DEF IInv, RefusedMeansTaken, TypeOK, Asks
  <2>. QED  BY <1>t, <2>3, <2>4, <2>5, <2>6, <2>7 DEF IInv
<1>7. ASSUME NEW o \in Op, ExecuteReturns(o) PROVE IInv'
  BY <1>t, <1>7, QuietSteps DEF ExecuteReturns, TypeOK, Asking, Asks, callVars
<1>8. ASSUME NEW o \in Op, UnregisterOperation(o) PROVE IInv'
  BY <1>t, <1>8, QuietSteps DEF UnregisterOperation, TypeOK, Asking, Asks, callVars
<1>9. ASSUME NEW o \in Op, CancelOperation(o) PROVE IInv'
  BY <1>t, <1>9, QuietSteps DEF CancelOperation, Asking, callVars
\* An ID is taken by the first call; a later one is refused.
<1>10. ASSUME NEW c \in Call, CallBegins(c) PROVE IInv'
  <2>1. PICK p \in shown :
          /\ target' = [target EXCEPT ![c] = p]
          /\ interactions' = interactions \ {p}
          /\ call' = [call EXCEPT ![c] = IF p \in interactions THEN "offering" ELSE "false"]
    BY <1>10 DEF CallBegins
  <2>2. /\ call[c] = "idle"
        /\ UNCHANGED <<asker, op, prompt, shown, received>>
    BY <1>10 DEF CallBegins, opVars
  <2>3. p \in Prompt /\ asker[p] # None
    BY <1>t DEF IInv, TypeOK, KnownPrompts
  <2>4. KnownPrompts'
    BY <1>t, <2>1, <2>2, <2>3 DEF IInv, KnownPrompts, TypeOK
  <2>5. ReceivedOnce'
    BY <1>t, <2>1, <2>2 DEF IInv, ReceivedOnce, TypeOK
  <2>6. WaitingIsAnswerable'
    BY <1>t, <2>1, <2>2 DEF IInv, WaitingIsAnswerable, TypeOK
  <2>7. NoStaleInteraction'
    BY <1>t, <2>1, <2>2 DEF IInv, NoStaleInteraction, Asking
  <2>8. RefusedMeansTaken'
    <3> SUFFICES ASSUME NEW d \in Call, call'[d] = "false",
                        NEW o \in Op, prompt[o] = target'[d], op[o] \in Asks
                 PROVE  \E e \in Call \ {d} : target'[e] = target'[d] /\ call'[e] \in {"offering", "error"}
      BY <2>2 DEF RefusedMeansTaken
    <3>1. CASE d = c
      <4>1. target'[d] = p /\ p \notin interactions
        BY <1>t, <2>1, <3>1 DEF TypeOK
      <4>2. PICK e \in Call : target[e] = p /\ call[e] \in {"offering", "error"}
        BY <4>1 DEF IInv, WaitingIsAnswerable
      <4>. QED  BY <1>t, <2>1, <2>2, <3>1, <4>1, <4>2 DEF TypeOK
    <3>2. CASE d # c
      <4>1. call[d] = "false" /\ target[d] = target'[d]
        BY <1>t, <2>1, <3>2 DEF TypeOK
      <4>2. PICK e \in Call \ {d} : target[e] = target[d] /\ call[e] \in {"offering", "error"}
        BY <4>1 DEF IInv, RefusedMeansTaken
      <4>. QED  BY <1>t, <2>1, <2>2, <4>1, <4>2 DEF TypeOK
    <3>. QED  BY <3>1, <3>2
  <2>. QED  BY <1>t, <2>4, <2>5, <2>6, <2>7, <2>8 DEF IInv
\* The operation whose answer this is stops to wait in the same step.
<1>11. ASSUME NEW c \in Call, AnswerDelivered(c) PROVE IInv'
  <2> DEFINE o == asker[target[c]]
  <2>1. /\ call[c] = "offering" /\ op[o] = "waiting" /\ prompt[o] = target[c]
        /\ call' = [call EXCEPT ![c] = "true"]
        /\ op' = [op EXCEPT ![o] = "returning"]
        /\ received' = [received EXCEPT ![target[c]] = c]
        /\ UNCHANGED <<interactions, asker, prompt, shown, target>>
    BY <1>11 DEF AnswerDelivered
  <2>2. o \in Op /\ target[c] \in Prompt
    BY <1>t, <2>1 DEF TypeOK
  <2>3. \A q \in Op \ {o} : Asking(q) => prompt[q] # target[c]
    BY <1>t, <2>1, <2>2, OwnPrompt DEF Asking, Asks
  <2>4. received[target[c]] = None
    BY <2>1, <2>2 DEF IInv, ReceivedOnce, Asks
  <2> HIDE DEF o
  <2>5. KnownPrompts'
    BY <1>t, <2>1 DEF IInv, KnownPrompts, TypeOK
  <2>6. ReceivedOnce'
    <3>1. \A d \in Call : call'[d] = "true" => received'[target'[d]] = d
      BY <1>t, <2>1, <2>2, <2>4 DEF IInv, ReceivedOnce, TypeOK
    <3>2. ASSUME NEW p \in Prompt, received'[p] # None
          PROVE  /\ asker'[p] # None
                 /\ call'[received'[p]] = "true" /\ target'[received'[p]] = p
                 /\ \A q \in Op : op'[q] \in Asks => prompt'[q] # p
      <4>1. CASE p = target[c]
        BY <1>t, <2>1, <2>2, <2>3, <4>1 DEF IInv, TypeOK, KnownPrompts, Asking, Asks
      <4>2. CASE p # target[c]
        BY <1>t, <2>1, <2>2, <3>2, <4>2 DEF IInv, TypeOK, ReceivedOnce, Asks
      <4>. QED  BY <4>1, <4>2
    <3>. QED  BY <3>1, <3>2 DEF ReceivedOnce
  <2>7. WaitingIsAnswerable'
    BY <1>t, <2>1, <2>2, <2>3 DEF IInv, WaitingIsAnswerable, TypeOK, Asking, Asks
  <2>8. NoStaleInteraction'
    BY <1>t, <2>1, <2>2 DEF IInv, NoStaleInteraction, TypeOK, Asking, Asks
  <2>9. RefusedMeansTaken'
    BY <1>t, <2>1, <2>2, <2>3 DEF IInv, RefusedMeansTaken, TypeOK, Asking, Asks
  <2>. QED  BY <1>t, <2>5, <2>6, <2>7, <2>8, <2>9 DEF IInv
<1>12. ASSUME NEW c \in Call, CallFindsDone(c) PROVE IInv'
  <2>1. /\ call[c] = "offering" /\ op[asker[target[c]]] = "done"
        /\ call' = [call EXCEPT ![c] = "false"]
        /\ UNCHANGED <<interactions, asker, op, prompt, shown, target, received>>
    BY <1>12 DEF CallFindsDone, opVars
  <2>2. \A q \in Op : op[q] \in Asks => prompt[q] # target[c]
    BY <1>t, <2>1 DEF TypeOK, Asking, Asks
  <2>3. KnownPrompts'
    BY <1>t, <2>1 DEF IInv, KnownPrompts, TypeOK
  <2>4. ReceivedOnce'
    BY <1>t, <2>1 DEF IInv, ReceivedOnce, TypeOK
  <2>5. WaitingIsAnswerable'
    BY <1>t, <2>1, <2>2 DEF IInv, WaitingIsAnswerable, TypeOK
  <2>6. NoStaleInteraction'
    BY <2>1 DEF IInv, NoStaleInteraction, Asking
  <2>7. RefusedMeansTaken'
    BY <1>t, <2>1, <2>2 DEF IInv, RefusedMeansTaken, TypeOK
  <2>. QED  BY <1>t, <2>3, <2>4, <2>5, <2>6, <2>7 DEF IInv
<1>13. ASSUME NEW c \in Call, CallAborted(c) PROVE IInv'
  <2>1. /\ call[c] = "offering"
        /\ call' = [call EXCEPT ![c] = "error"]
        /\ UNCHANGED <<interactions, asker, op, prompt, shown, target, received>>
    BY <1>13 DEF CallAborted, opVars
  <2>2. KnownPrompts' /\ ReceivedOnce'
    BY <1>t, <2>1 DEF IInv, KnownPrompts, ReceivedOnce, TypeOK
  <2>3. WaitingIsAnswerable' /\ NoStaleInteraction' /\ RefusedMeansTaken'
    BY <1>t, <2>1 DEF IInv, WaitingIsAnswerable, NoStaleInteraction, RefusedMeansTaken, TypeOK, Asking
  <2>. QED  BY <1>t, <2>2, <2>3 DEF IInv
<1>14. ASSUME Close \/ EndSelection PROVE IInv'
  BY <1>t, <1>14, QuietSteps DEF Close, EndSelection, Asking, opVars, callVars
<1>15. CASE UNCHANGED vars
  BY <1>t, <1>15, QuietSteps DEF vars, Asking, opVars, callVars
<1>. QED
  BY <1>1, <1>2, <1>3, <1>4, <1>5, <1>6, <1>7, <1>8, <1>9, <1>10, <1>11, <1>12, <1>13, <1>14,
     <1>15 DEF Next, OpStep, CallStep

-----------------------------------------------------------------------------

\* An operation that waits can be answered, unless a call that took its prompt was
\* aborted.
THEOREM WaitingAnswerable == Spec => []BridgeInv
<1>1. IInv => BridgeInv
  BY DEF IInv, BridgeInv
<1>. QED  BY <1>1, BridgeStarts, BridgeStep, PTL DEF Spec

\* ResolveInteraction answers true exactly for the answer that the operation got.
THEOREM AcceptedExactlyIfUsed == Spec => []TrueMeansUsed
<1>1. IInv => TrueMeansUsed
  <2> SUFFICES ASSUME IInv, NEW c \in Call
               PROVE  call[c] = "true" <=> \E p \in Prompt : received[p] = c /\ target[c] = p
    BY DEF TrueMeansUsed
  <2>1. ASSUME call[c] = "true" PROVE \E p \in Prompt : received[p] = c /\ target[c] = p
    BY <2>1, NoneIsFresh DEF IInv, ReceivedOnce, KnownPrompts, TypeOK
  <2>2. ASSUME NEW p \in Prompt, received[p] = c PROVE call[c] = "true"
    BY <2>2, NoneIsFresh DEF IInv, ReceivedOnce
  <2>. QED  BY <2>1, <2>2
<1>. QED  BY <1>1, BridgeStarts, BridgeStep, PTL DEF Spec

\* A refused answer is not one its operation still waits for, unless another call
\* took the prompt.
THEOREM RefusedOnlyIfTaken == Spec => []RefusedMeansTaken
<1>1. IInv => RefusedMeansTaken
  BY DEF IInv
<1>. QED  BY <1>1, BridgeStarts, BridgeStep, PTL DEF Spec

\* The map holds only prompts of operations that are inside RequestInteraction.
THEOREM MapHoldsRequests == Spec => []NoStaleInteraction
<1>1. IInv => NoStaleInteraction
  BY DEF IInv
<1>. QED  BY <1>1, BridgeStarts, BridgeStep, PTL DEF Spec

=============================================================================
