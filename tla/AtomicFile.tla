----------------------------- MODULE AtomicFile -----------------------------
(***************************************************************************)
(* internal/atomicfile.WriteFile, call by call of the file system, by      *)
(* writers that share a path, with calls that fail and a machine that may  *)
(* crash between any two of them.                                          *)
(*                                                                         *)
(* The file system is external.  A file is its data and whether they have  *)
(* been synced: a crash may tear what was not.  A rename is atomic, but    *)
(* until the directory is synced, which WriteFile does not do, a crash may *)
(* bring back any file the path has named since the last one.  A temporary *)
(* file nobody removes any more is litter, for good: CreateTemp does not   *)
(* reuse its name.  That the latest call of a writer left one is what the  *)
(* model keeps of it.                                                      *)
(***************************************************************************)
CONSTANTS Writer, Data, Absent, Empty, Torn, None

ASSUME MarksAreFresh ==
  /\ Absent \notin {Empty, Torn} \cup Data
  /\ Empty \notin {Torn} \cup Data
  /\ Torn \notin Data
  /\ None \notin [data : Data \cup {Absent, Empty, Torn}, synced : BOOLEAN]

VARIABLES
  pc,      \* next call of WriteFile; "idle" outside of it
  data,    \* its argument
  failed,  \* it is on its way out with an error
  temp,    \* its temporary file; None if there is none
  path,    \* the file the path names
  older,   \* files the path has named since the last crash
  litter,  \* writers whose latest call has left its temporary file on the disk
  \* History
  upset    \* writers whose latest call failed or was cut off, or met a crash

fileVars == <<path, older>>
diskVars == <<litter, upset>>
vars == <<pc, data, failed, temp, fileVars, diskVars>>

File(d, s) == [data |-> d, synced |-> s]
NoFile == File(Absent, TRUE)

Init ==
  /\ pc = [w \in Writer |-> "idle"]
  /\ data = [w \in Writer |-> None]
  /\ failed = [w \in Writer |-> FALSE]
  /\ temp = [w \in Writer |-> None]
  /\ path = NoFile /\ older = {}
  /\ litter = {} /\ upset = {}

Goto(w, l) == pc' = [pc EXCEPT ![w] = l]

\* An error returns through the deferred Remove.
Error(w) ==
  /\ failed' = [failed EXCEPT ![w] = TRUE]
  /\ Goto(w, "remove")
  /\ UNCHANGED <<data, fileVars, diskVars>>

WriteFile(w, d) ==
  /\ pc[w] = "idle"
  /\ Goto(w, "create")
  /\ data' = [data EXCEPT ![w] = d]
  /\ litter' = litter \ {w} /\ upset' = upset \ {w}
  /\ UNCHANGED <<failed, temp, fileVars>>

\* MkdirAll and CreateTemp: what fails here returns before there is a deferred
\* Remove, and there is nothing to remove.
Create(w) ==
  /\ pc[w] = "create"
  /\ \/ /\ temp' = [temp EXCEPT ![w] = File(Empty, FALSE)]
        /\ Goto(w, "chmod")
        /\ UNCHANGED <<data, failed, fileVars, diskVars>>
     \/ Error(w) /\ UNCHANGED temp

Chmod(w) ==
  /\ pc[w] = "chmod"
  /\ \/ Goto(w, "write") /\ UNCHANGED <<data, failed, fileVars, diskVars>>
     \/ Error(w)
  /\ UNCHANGED temp

\* A write that fails may have written a part.
Write(w) ==
  /\ pc[w] = "write"
  /\ \/ /\ temp' = [temp EXCEPT ![w].data = data[w]]
        /\ Goto(w, "sync")
        /\ UNCHANGED <<data, failed, fileVars, diskVars>>
     \/ Error(w) /\ temp' = [temp EXCEPT ![w].data = Torn]

\* Mutant of Sync: its error is not looked at.
SyncUnchecked(w) ==
  /\ pc[w] = "sync"
  /\ Goto(w, "close")
  /\ \E s \in BOOLEAN : temp' = [temp EXCEPT ![w].synced = s]
  /\ UNCHANGED <<data, failed, fileVars, diskVars>>

Sync(w) ==
  /\ pc[w] = "sync"
  /\ \/ /\ temp' = [temp EXCEPT ![w].synced = TRUE]
        /\ Goto(w, "close")
        /\ UNCHANGED <<data, failed, fileVars, diskVars>>
     \/ Error(w) /\ UNCHANGED temp

Close(w) ==
  /\ pc[w] = "close"
  /\ \/ Goto(w, "rename") /\ UNCHANGED <<data, failed, fileVars, diskVars>>
     \/ Error(w)
  /\ UNCHANGED temp

\* Mutant of Rename: the target is removed first, as os.Rename needs where it
\* does not replace, and the rename may fail then.
RemoveThenRename(w) ==
  /\ pc[w] = "rename"
  /\ older' = older \cup {path}
  /\ \/ /\ path' = temp[w] /\ temp' = [temp EXCEPT ![w] = None]
        /\ UNCHANGED failed
     \/ /\ path' = NoFile /\ failed' = [failed EXCEPT ![w] = TRUE] /\ UNCHANGED temp
  /\ Goto(w, "remove")
  /\ UNCHANGED <<data, diskVars>>

Rename(w) ==
  /\ pc[w] = "rename"
  /\ \/ /\ path' = temp[w]
        /\ older' = older \cup {path}
        /\ temp' = [temp EXCEPT ![w] = None]
        /\ Goto(w, "remove")
        /\ UNCHANGED <<data, failed, diskVars>>
     \/ Error(w) /\ UNCHANGED temp

\* The deferred call: its error is not looked at.  After a rename there is
\* nothing to remove.
Remove(w) ==
  /\ pc[w] = "remove"
  /\ temp' = [temp EXCEPT ![w] = None] \/ UNCHANGED temp
  /\ Goto(w, "return")
  /\ UNCHANGED <<data, failed, fileVars, diskVars>>

Return(w) ==
  /\ pc[w] = "return"
  /\ Goto(w, "idle")
  /\ failed' = [failed EXCEPT ![w] = FALSE]
  /\ data' = [data EXCEPT ![w] = None]
  /\ temp' = [temp EXCEPT ![w] = None]
  /\ litter' = IF temp[w] # None THEN litter \cup {w} ELSE litter
  /\ upset' = IF failed[w] THEN upset \cup {w} ELSE upset
  /\ UNCHANGED fileVars

Survives(f) == IF f.synced THEN {f} ELSE {File(f.data, TRUE), File(Torn, TRUE)}

UnderWay == {w \in Writer : pc[w] # "idle"}

\* The calls under way are cut off.
CutOff ==
  /\ pc' = [w \in Writer |-> "idle"]
  /\ data' = [w \in Writer |-> None]
  /\ failed' = [w \in Writer |-> FALSE]
  /\ temp' = [w \in Writer |-> None]

\* What was done to the directory may be undone: a temporary file that was
\* renamed or removed may be back under its name, one that was left be gone.
Crash ==
  /\ path' \in UNION {Survives(f) : f \in older \cup {path}}
  /\ older' = {}
  /\ upset' = IF older = {} THEN upset \cup UnderWay ELSE Writer
  /\ litter' \in SUBSET upset'
  /\ CutOff

\* The process ends, which leaves the file system as it is.
Kill ==
  /\ litter' = litter \cup {w \in Writer : temp[w] # None}
  /\ upset' = upset \cup UnderWay
  /\ CutOff
  /\ UNCHANGED fileVars

Next ==
  \/ \E w \in Writer :
       \/ \E d \in Data : WriteFile(w, d)
       \/ Create(w) \/ Chmod(w) \/ Write(w) \/ Sync(w) \/ Close(w)
       \/ Rename(w) \/ Remove(w) \/ Return(w)
  \/ Crash \/ Kill

Spec == Init /\ [][Next]_vars

-----------------------------------------------------------------------------
(* Properties.                                                              *)

Steps == {"idle", "create", "chmod", "write", "sync", "close", "rename", "remove", "return"}
FileType == [data : Data \cup {Absent, Empty, Torn}, synced : BOOLEAN]

\* Type invariant: a call without an error has a temporary file from the
\* creation to the rename (WriteFile).
TypeOK ==
  /\ pc \in [Writer -> Steps]
  /\ data \in [Writer -> Data \cup {None}]
  /\ failed \in [Writer -> BOOLEAN]
  /\ temp \in [Writer -> FileType \cup {None}]
  /\ path \in FileType /\ older \subseteq FileType
  /\ litter \subseteq Writer /\ upset \subseteq Writer
  /\ \A w \in Writer : pc[w] \in {"chmod", "write", "sync", "close", "rename"} => temp[w] # None

\* What the path names is absent or whole, and so is what a crash may leave
\* there: a reader never gets a part of a write (tempFile.Sync before os.Rename).
TargetWhole ==
  \A f \in older \cup {path} : f.synced /\ f.data \in Data \cup {Absent}

\* A call that returns without an error leaves no temporary file, even if its
\* Remove fails: one is left only by a call that failed and could not remove it
\* either, by the end of the process during a call, or by a crash that undoes
\* what a call did to the directory (the deferred Remove, which nobody checks).
TempIsAccounted ==
  /\ \A w \in Writer : temp[w] # None => pc[w] # "idle" /\ (pc[w] = "return" => failed[w])
  /\ litter \subseteq upset

\* WriteFile implements the register: every call replaces the value at one
\* step, its rename, or not at all when it returns an error.
Phase(w) ==
  IF failed[w] THEN "failed" ELSE IF pc[w] \in {"remove", "return"} THEN "done" ELSE "asked"

Call(w) ==
  IF pc[w] = "idle" THEN [phase |-> "idle"] ELSE [phase |-> Phase(w), data |-> data[w]]

Register == INSTANCE AtomicRegister WITH
  value <- path.data,
  recent <- {f.data : f \in older \cup {path}},
  write <- [w \in Writer |-> Call(w)]

ImplementsRegister == Register!RegisterSpec

=============================================================================
