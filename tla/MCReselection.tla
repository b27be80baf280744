--------------------------- MODULE MCReselection ---------------------------
(* What goes on in the window when an authenticator is selected anew: the      *)
(* retry of a smart-card operation, and the security screen with the           *)
(* rediscovery after a factory reset.  They share no state; a behaviour is of  *)
(* the part picked in its initial state, and the other stays where it began,   *)
(* where nothing of it is enabled that Fairness is about.                      *)
EXTENDS OperationRecovery, Security

VARIABLE part

\* The security screen with two changes, with a call that fails, or with another
\* authenticator.
SecurityWithin ==
  /\ changes = 2 => failures = 0 /\ heldMade <= 1 /\ Len(secureWire) <= 1
  /\ heldMade = 2 => failures = 0

PartInit == Init /\ SecurityInit /\ part \in {"recovery", "security"}
PartNext ==
  /\ UNCHANGED part
  /\ \/ part = "recovery" /\ Next /\ UNCHANGED securityVars
     \/ part = "security" /\ SecurityNext /\ SecurityWithin' /\ UNCHANGED vars
PartSpec == PartInit /\ [][PartNext]_<<vars, securityVars, part>> /\ Fairness

=============================================================================
