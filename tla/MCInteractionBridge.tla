------------------------ MODULE MCInteractionBridge ------------------------
(* Two operations, three prompts and two calls for TLC. *)
EXTENDS InteractionBridge, TLC

Symmetry == Permutations(Op) \cup Permutations(Prompt) \cup Permutations(Call)

=============================================================================
