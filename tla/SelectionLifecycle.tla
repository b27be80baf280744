------------------------- MODULE SelectionLifecycle -------------------------
(***************************************************************************)
(* What the service promises about authenticator selections, whatever      *)
(* managers, gates and goroutines it uses: there is at most one active     *)
(* selection, an ID never becomes active twice, operations start only on   *)
(* the active selection, and a new selection begins only after every       *)
(* operation of a selection the service took away has ended.  Operations   *)
(* of a selection given up by one of its own operations are exempt.        *)
(***************************************************************************)
CONSTANTS Selection, Op, None

VARIABLES
  active,    \* the selection operations may start on, or None
  ended,     \* selections that were active before
  lost,      \* the ended selections that one of their operations gave up
  work,      \* the selection an operation runs on, or None
  stopped    \* shutdown has taken the service over

vars == <<active, ended, lost, work, stopped>>

Init ==
  /\ active = None /\ ended = {} /\ lost = {}
  /\ work = [o \in Op |-> None]
  /\ stopped = FALSE

Activate(s) ==
  /\ active = None /\ ~stopped
  /\ s \notin ended
  /\ \A o \in Op : work[o] \in lost \cup {None}
  /\ active' = s
  /\ UNCHANGED <<ended, lost, work, stopped>>

Evict ==
  /\ active # None
  /\ ended' = ended \cup {active}
  /\ active' = None
  /\ UNCHANGED <<lost, work, stopped>>

GiveUp(o) ==
  /\ active # None /\ work[o] = active
  /\ lost' = lost \cup {active}
  /\ ended' = ended \cup {active}
  /\ active' = None
  /\ UNCHANGED <<work, stopped>>

Start(o) ==
  /\ active # None /\ work[o] = None
  /\ work' = [work EXCEPT ![o] = active]
  /\ UNCHANGED <<active, ended, lost, stopped>>

Finish(o) ==
  /\ work[o] # None
  /\ work' = [work EXCEPT ![o] = None]
  /\ UNCHANGED <<active, ended, lost, stopped>>

Stop ==
  /\ ~stopped /\ stopped' = TRUE
  /\ active' = None
  /\ ended' = ended \cup ({active} \ {None})
  /\ UNCHANGED <<lost, work>>

Next ==
  \/ \E s \in Selection : Activate(s)
  \/ \E o \in Op : GiveUp(o) \/ Start(o) \/ Finish(o)
  \/ Evict \/ Stop

Spec == Init /\ [][Next]_vars

=============================================================================
