------------------------- MODULE MCSelectionService -------------------------
(* Small instances of SelectionService.  One run covers two instances of      *)
(* different shape: Shape picks, in the initial state, which one it is, and   *)
(* Within keeps the behaviour to the goroutines and bounds of that one.       *)
EXTENDS SelectionService, FiniteSets, TLC

\* Operations and RPCs are interchangeable.
Symmetry == Permutations(Op) \cup Permutations(Caller)

VARIABLE shape  \* "operations" on two authenticators, or overlapping "rpcs"

\* Callers that ever did anything, and authenticators that were ever open.
Touched == {p \in Caller : \/ pc[p] # "idle" \/ after[p] # "idle" \/ awaited[p] # {}
                           \/ <<manager[p], update[p], retired[p]>> # <<None, None, None>>}
Opened == {c[2] : c \in {d \in Client : clientState[d] # "fresh"}}
Made == {s \in Selection : selClient[s] # None}

Within ==
  IF shape = "operations"
  THEN /\ Cardinality(Touched) <= 1
       /\ Cardinality({m \in Manager : mgr[m] # "unopened"}) <= 1
       /\ Cardinality(Made) <= 2 /\ posts <= 1
  ELSE /\ \A o \in Op : op[o] = "idle"
       /\ Opened \subseteq {CHOOSE k \in Key : TRUE}

ShapedInit == Init /\ shape \in {"operations", "rpcs"}
ShapedNext == Next /\ UNCHANGED shape /\ Within'
ShapedSpec == ShapedInit /\ [][ShapedNext]_<<vars, shape>>

=============================================================================
