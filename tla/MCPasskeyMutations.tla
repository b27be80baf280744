------------------------- MODULE MCPasskeyMutations -------------------------
(* TLC's instances of PasskeyMutations: one selection whose answers come back  *)
(* in any order from calls that fail before or after their effect, or two      *)
(* authenticators selected in turn with answers in order and failures without  *)
(* effect.  Shape picks one in the initial state.                              *)
EXTENDS PasskeyMutations, TLC

Symmetry == Permutations(Credential) \cup Permutations(Name)
            \cup Permutations(Call) \cup Permutations(Token)

VARIABLE shape

ShapedInit == Init /\ shape \in {"reordered", "sessions"}
ShapedNext ==
  /\ IF shape = "reordered"
     THEN Next /\ made' <= 1
     ELSE /\ Service \/ User \/ (wire # <<>> /\ Arrives(1))
          /\ stored' # stored => Last(wire').ok
  /\ UNCHANGED shape
ShapedSpec == ShapedInit /\ [][ShapedNext]_<<vars, shape>>

\* When nothing is under way, an inventory that is not stale shows what the
\* authenticator holds, mutations included (the load after a confirm), as long
\* as failed mutations had no effect and answers come in order: nothing is
\* loaded after a failure, and a list that is overtaken replaces a later one.
SettledIsCurrent == shape = "sessions" => ReadyIsCurrent

=============================================================================
