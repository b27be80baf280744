------------------------- MODULE MCWorkbenchSession -------------------------
(* TLC's instances of WorkbenchSession: a pair of overlapping operations whose *)
(* calls all reach the service, or operations that are alone, one awaited at a *)
(* time and one after the other, with calls that the runtime rejects.  Shape   *)
(* picks one in the initial state, Within bounds it.                           *)
(* Which unused Op a handler takes makes no difference: they may be permuted.  *)
EXTENDS WorkbenchSession, FiniteSets, TLC

Symmetry == Permutations(Op)

VARIABLE shape

Within ==
  IF shape = "pair"
  THEN /\ \A o \in Op : prompts[o] <= 1
       /\ updates <= 2 /\ Cardinality(made) <= 2
  ELSE /\ \A o, p \in Op : o # p => /\ "idle" \in {task[o], task[p]}
                                 /\ prompts[o] + prompts[p] <= MaxPrompts
       /\ updates + Cardinality(Op \ Idle) <= MaxUpdates

ShapedInit == Init /\ shape \in {"pair", "alone"}
ShapedNext ==
  /\ \/ ServiceStep \/ UserStep \/ HandlerStep
     \/ shape = "alone" /\ RejectionStep
  /\ UNCHANGED shape /\ Within'
ShapedSpec == ShapedInit /\ [][ShapedNext]_<<vars, shape>>

\* IdleWhenDone for the pair, whose calls all reach the service: a cancellation
\* that the runtime rejects after its operation ended leaves an operation without
\* an ID in the status bar (patchActiveOperation spreads null).
IdleUnlessRejected == shape = "pair" => IdleWhenDone

\* SessionAgrees for operations that are awaited one at a time: of two at once that
\* lose their authenticator the second envelope clears whatever session is shown by
\* then (clearAuthenticator asks for no selection).
SingleSessionAgrees == shape = "alone" => SessionAgrees

\* PromptKept for operations that are awaited one at a time: there is one dialog,
\* which the end of one operation clears for all.
SinglePromptKept == [][shape = "alone" => PromptKept]_vars

=============================================================================
