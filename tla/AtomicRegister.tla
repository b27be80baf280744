--------------------------- MODULE AtomicRegister ---------------------------
(***************************************************************************)
(* What callers may expect of internal/atomicfile: the file is a register. *)
(* A write replaces the value at one instant, or fails and leaves it.  A   *)
(* crash may undo writes that had returned, because the directory is not   *)
(* synced, but what is found then is a value the file had.                 *)
(***************************************************************************)
CONSTANTS Writer, Data, Absent

VARIABLES
  value,   \* what a reader of the file gets
  recent,  \* values it has had since the last crash
  write    \* the call of WriteFile of each writer

registerVars == <<value, recent, write>>

NoWrite == [phase |-> "idle"]

RegisterInit(v) ==
  /\ value = v
  /\ recent = {v}
  /\ write = [w \in Writer |-> NoWrite]

Ask(w, d) ==
  /\ write[w].phase = "idle"
  /\ write' = [write EXCEPT ![w] = [phase |-> "asked", data |-> d]]
  /\ UNCHANGED <<value, recent>>

Replace(w) ==
  /\ write[w].phase = "asked"
  /\ value' = write[w].data
  /\ recent' = recent \cup {value'}
  /\ write' = [write EXCEPT ![w].phase = "done"]

Fail(w) ==
  /\ write[w].phase = "asked"
  /\ write' = [write EXCEPT ![w].phase = "failed"]
  /\ UNCHANGED <<value, recent>>

Return(w) ==
  /\ write[w].phase \in {"done", "failed"}
  /\ write' = [write EXCEPT ![w] = NoWrite]
  /\ UNCHANGED <<value, recent>>

Crash ==
  /\ value' \in recent
  /\ recent' = {value'}
  /\ write' = [w \in Writer |-> NoWrite]

\* The process ends: what was asked for is not done any more.
Kill ==
  /\ write' = [w \in Writer |-> NoWrite]
  /\ UNCHANGED <<value, recent>>

RegisterNext ==
  \/ \E w \in Writer : (\E d \in Data : Ask(w, d)) \/ Replace(w) \/ Fail(w) \/ Return(w)
  \/ Crash \/ Kill

RegisterSpec == RegisterInit(Absent) /\ [][RegisterNext]_registerVars

=============================================================================
