-------------------------- MODULE ConfigStoreProofs --------------------------
(***************************************************************************)
(* Theorems about ConfigStore and the AtomicFile it is built on.           *)
(*                                                                         *)
(* For any number of writers and any data the path always names a whole    *)
(* file, whatever call fails or crashes, a call without an error leaves no *)
(* temporary file, and WriteFile implements AtomicRegister.  For any settings, any   *)
(* length of its queue and any number of starts the file of ConfigStore is *)
(* whole, has the last choice of the user when all saves have succeeded,   *)
(* and keeps what was not chosen.                                          *)
(***************************************************************************)
EXTENDS ConfigStore, TLAPS

-----------------------------------------------------------------------------
(* AtomicFile.                                                              *)

\* The groups of variables are always expanded.
USE DEF fileVars, diskVars

\* How far the call of a writer is: its temporary file is written before it is
\* synced, has been synced with the argument when it is renamed, and is no
\* temporary file any more once it has been.
InStep(w) ==
  /\ temp[w] # None => pc[w] \notin {"idle", "create"}
  /\ pc[w] \in {"remove", "return"} /\ ~failed[w] => temp[w] = None
  /\ pc[w] \in {"sync", "close", "rename"} => temp[w].data = data[w]
  /\ pc[w] \in {"close", "rename"} => temp[w].synced
  /\ pc[w] # "idle" => data[w] \in Data
  /\ pc[w] \notin {"remove", "return"} => ~failed[w]

\* What a call leaves on the disk, it leaves because it failed or was cut off.
LitterAccounted == litter \subseteq upset

\* The inductive invariant.
FileInv == TypeOK /\ (\A w \in Writer : InStep(w)) /\ TargetWhole /\ LitterAccounted

-----------------------------------------------------------------------------

\* A new file and a file with other content are files.
LEMMA Files ==
  /\ File(Empty, FALSE) \in FileType
  /\ None \notin FileType
  /\ \A f \in FileType, d \in Data \cup {Torn}, b \in BOOLEAN :
       /\ [f EXCEPT !.data = d] \in FileType
       /\ [f EXCEPT !.data = d].data = d
       /\ [f EXCEPT !.synced = b] \in FileType
       /\ [f EXCEPT !.synced = b].data = f.data
       /\ [f EXCEPT !.synced = b].synced = b
  BY MarksAreFresh DEF File, FileType

\* What is synced survives a crash as it is.
LEMMA SyncedSurvives ==
  ASSUME TargetWhole, NEW f \in older \cup {path}
  PROVE  Survives(f) = {f}
  BY DEF TargetWhole, Survives

LEMMA FileStarts == Init => FileInv
<1> SUFFICES ASSUME Init PROVE FileInv
  OBVIOUS
<1>1. path \in FileType /\ older \subseteq FileType
  BY DEF Init, NoFile, File, FileType
<1>2. TypeOK
  BY <1>1 DEF Init, TypeOK, Steps
<1>3. \A w \in Writer : InStep(w)
  BY DEF Init, InStep
<1>4. TargetWhole
  BY DEF Init, TargetWhole, NoFile, File
<1>5. LitterAccounted
  BY DEF Init, LitterAccounted
<1>. QED  BY <1>2, <1>3, <1>4, <1>5 DEF FileInv

\* A call that fails leaves the path alone and goes on to its deferred Remove.
LEMMA ErrorStep ==
  ASSUME FileInv, NEW w \in Writer, Error(w), pc[w] # "idle",
         NEW t \in FileType \cup {None}, temp' = [temp EXCEPT ![w] = t]
  PROVE  FileInv'
<1> USE DEF FileInv
<1>1. TypeOK'
  BY DEF Error, Goto, TypeOK, Steps
<1>2. (\A x \in Writer : InStep(x))'
  BY DEF Error, Goto, TypeOK, InStep
<1>3. TargetWhole' /\ LitterAccounted'
  BY DEF Error, TargetWhole, LitterAccounted
<1>. QED  BY <1>1, <1>2, <1>3

LEMMA ErrorKeepsTemp ==
  ASSUME FileInv, NEW w \in Writer, Error(w), pc[w] # "idle", UNCHANGED temp
  PROVE  FileInv'
<1>1. temp[w] \in FileType \cup {None} /\ temp' = [temp EXCEPT ![w] = temp[w]]
  BY DEF FileInv, TypeOK
<1>. QED  BY <1>1, ErrorStep

\* The step of one writer: it keeps the types, brings its own call to the next
\* point, leaves the others alone and the path whole.
LEMMA WriterStep ==
  ASSUME FileInv, NEW w \in Writer,
         \/ \E d \in Data : WriteFile(w, d)
         \/ Create(w) \/ Chmod(w) \/ Write(w) \/ Sync(w) \/ Close(w)
         \/ Rename(w) \/ Remove(w) \/ Return(w)
  PROVE  FileInv'
<1> USE DEF FileInv
<1>0. LitterAccounted'
  BY DEF LitterAccounted, InStep, WriteFile, Create, Chmod, Write, Sync, Close, Rename,
         Remove, Return, Error
<1>1. CASE \E d \in Data : WriteFile(w, d)
  <2> PICK d \in Data : WriteFile(w, d)
    BY <1>1
  <2>1. TypeOK'
    BY DEF WriteFile, Goto, TypeOK, Steps, InStep
  <2>2. (\A x \in Writer : InStep(x))'
    BY DEF WriteFile, Goto, TypeOK, InStep
  <2>3. TargetWhole'
    BY DEF WriteFile, TargetWhole
  <2>. QED  BY <1>0, <2>1, <2>2, <2>3
<1>2. CASE Create(w)
  <2>1. CASE Error(w) /\ UNCHANGED temp
    BY <1>2, <2>1, ErrorKeepsTemp DEF Create
  <2> DEFINE f == File(Empty, FALSE)
  <2>0. pc[w] = "create"
    BY <1>2 DEF Create
  <2>2. f \in FileType /\ f # None
    BY Files
  <2> HIDE DEF f
  <2>3. CASE /\ temp' = [temp EXCEPT ![w] = f]
             /\ Goto(w, "chmod")
             /\ UNCHANGED <<data, failed, fileVars, diskVars>>
    <3>1. TypeOK'
      BY <2>2, <2>3 DEF Goto, TypeOK, Steps
    <3>2. (\A x \in Writer : InStep(x))'
      BY <2>0, <2>3 DEF Goto, TypeOK, InStep
    <3>3. TargetWhole'
      BY <2>3 DEF TargetWhole
    <3>. QED  BY <1>0, <3>1, <3>2, <3>3
  <2>. QED  BY <1>2, <2>1, <2>3 DEF Create, f
<1>3. CASE Chmod(w)
  <2>1. CASE Error(w)
    BY <1>3, <2>1, ErrorKeepsTemp DEF Chmod
  <2>2. CASE ~Error(w)
    <3>1. TypeOK'
      BY <1>3, <2>2 DEF Chmod, Goto, TypeOK, Steps
    <3>2. (\A x \in Writer : InStep(x))'
      BY <1>3, <2>2 DEF Chmod, Goto, TypeOK, InStep
    <3>3. TargetWhole'
      BY <1>3, <2>2 DEF Chmod, TargetWhole
    <3>. QED  BY <1>0, <3>1, <3>2, <3>3
  <2>. QED  BY <2>1, <2>2
<1>4. CASE Write(w)
  <2>1. temp[w] \in FileType /\ data[w] \in Data
    BY <1>4 DEF Write, TypeOK, InStep
  <2>2. CASE Error(w) /\ temp' = [temp EXCEPT ![w].data = Torn]
    <3> DEFINE t == [temp[w] EXCEPT !.data = Torn]
    <3>1. t \in FileType
      BY <2>1, Files
    <3>2. temp' = [temp EXCEPT ![w] = t]
      BY <2>2
    <3> HIDE DEF t
    <3>. QED  BY <1>4, <2>2, <3>1, <3>2, ErrorStep DEF Write
  <2>3. CASE /\ temp' = [temp EXCEPT ![w].data = data[w]]
             /\ Goto(w, "sync")
             /\ UNCHANGED <<data, failed, fileVars, diskVars>>
    <3> DEFINE t == [temp[w] EXCEPT !.data = data[w]]
    <3>1. t \in FileType /\ t.data = data[w]
      BY <2>1, Files
    <3>2. t # None
      BY <3>1, Files
    <3>3. temp' = [temp EXCEPT ![w] = t]
      BY <2>3
    <3> HIDE DEF t
    <3>4. TypeOK'
      BY <2>3, <3>2, <3>1, <3>3 DEF Goto, TypeOK, Steps
    <3>5. (\A x \in Writer : InStep(x))'
      BY <1>4, <2>3, <3>1, <3>3 DEF Write, Goto, TypeOK, InStep
    <3>6. TargetWhole'
      BY <2>3 DEF TargetWhole
    <3>. QED  BY <1>0, <3>4, <3>5, <3>6
  <2>. QED  BY <1>4, <2>2, <2>3 DEF Write
<1>5. CASE Sync(w)
  <2>1. temp[w] \in FileType
    BY <1>5 DEF Sync, TypeOK
  <2>2. CASE Error(w) /\ UNCHANGED temp
    BY <1>5, <2>2, ErrorKeepsTemp DEF Sync
  <2>3. CASE /\ temp' = [temp EXCEPT ![w].synced = TRUE]
             /\ Goto(w, "close")
             /\ UNCHANGED <<data, failed, fileVars, diskVars>>
    <3> DEFINE t == [temp[w] EXCEPT !.synced = TRUE]
    <3>1. t \in FileType /\ t # None /\ t.data = temp[w].data /\ t.synced = TRUE
      BY <2>1, Files
    <3>2. temp' = [temp EXCEPT ![w] = t]
      BY <2>3
    <3> HIDE DEF t
    <3>3. TypeOK'
      BY <2>3, <3>1, <3>2 DEF Goto, TypeOK, Steps
    <3>4. (\A x \in Writer : InStep(x))'
      BY <1>5, <2>3, <3>1, <3>2 DEF Sync, Goto, TypeOK, InStep
    <3>5. TargetWhole'
      BY <2>3 DEF TargetWhole
    <3>. QED  BY <1>0, <3>3, <3>4, <3>5
  <2>. QED  BY <1>5, <2>2, <2>3 DEF Sync
<1>6. CASE Close(w)
  <2>1. CASE Error(w)
    BY <1>6, <2>1, ErrorKeepsTemp DEF Close
  <2>2. CASE ~Error(w)
    <3>1. TypeOK'
      BY <1>6, <2>2 DEF Close, Goto, TypeOK, Steps
    <3>2. (\A x \in Writer : InStep(x))'
      BY <1>6, <2>2 DEF Close, Goto, TypeOK, InStep
    <3>3. TargetWhole'
      BY <1>6, <2>2 DEF Close, TargetWhole
    <3>. QED  BY <1>0, <3>1, <3>2, <3>3
  <2>. QED  BY <2>1, <2>2
<1>7. CASE Rename(w)
  <2>1. temp[w] \in FileType /\ temp[w].synced /\ temp[w].data \in Data
    BY <1>7 DEF Rename, TypeOK, InStep
  <2>2. CASE Error(w) /\ UNCHANGED temp
    BY <1>7, <2>2, ErrorKeepsTemp DEF Rename
  <2>3. CASE /\ path' = temp[w]
             /\ older' = older \cup {path}
             /\ temp' = [temp EXCEPT ![w] = None]
             /\ Goto(w, "remove")
             /\ UNCHANGED <<data, failed, diskVars>>
    <3>1. TypeOK'
      BY <2>1, <2>3 DEF Goto, TypeOK, Steps
    <3>2. (\A x \in Writer : InStep(x))'
      BY <1>7, <2>3 DEF Rename, Goto, TypeOK, InStep
    <3>3. TargetWhole'
      BY <2>1, <2>3 DEF TargetWhole
    <3>. QED  BY <1>0, <3>1, <3>2, <3>3
  <2>. QED  BY <1>7, <2>2, <2>3 DEF Rename
<1>8. CASE Remove(w)
  <2>1. TypeOK'
    BY <1>8 DEF Remove, Goto, TypeOK, Steps
  <2>2. (\A x \in Writer : InStep(x))'
    BY <1>8 DEF Remove, Goto, TypeOK, InStep
  <2>3. TargetWhole'
    BY <1>8 DEF Remove, TargetWhole
  <2>. QED  BY <1>0, <2>1, <2>2, <2>3
<1>9. CASE Return(w)
  <2>1. TypeOK'
    BY <1>9 DEF Return, Goto, TypeOK, Steps
  <2>2. (\A x \in Writer : InStep(x))'
    BY <1>9 DEF Return, Goto, TypeOK, InStep
  <2>3. TargetWhole'
    BY <1>9 DEF Return, TargetWhole
  <2>. QED  BY <1>0, <2>1, <2>2, <2>3
<1>. QED  BY <1>1, <1>2, <1>3, <1>4, <1>5, <1>6, <1>7, <1>8, <1>9

\* The end of the process, and of the machine: what the path names afterwards
\* is a file it has named.
LEMMA EndStep ==
  ASSUME FileInv, Crash \/ Kill
  PROVE  FileInv' /\ path' \in older \cup {path}
<1> USE DEF FileInv
<1>1. path' \in older \cup {path} /\ older' \subseteq older
  BY SyncedSurvives DEF Crash, Kill
<1>2. TypeOK'
  BY <1>1 DEF Crash, Kill, CutOff, UnderWay, TypeOK, Steps
<1>3. (\A x \in Writer : InStep(x))'
  BY DEF Crash, Kill, CutOff, InStep
<1>4. TargetWhole'
  BY <1>1 DEF TargetWhole
<1>5. LitterAccounted'
  BY DEF Crash, Kill, UnderWay, LitterAccounted, InStep
<1>. QED  BY <1>1, <1>2, <1>3, <1>4, <1>5

\* The invariant of the file, whatever call fails and whenever the process or
\* the machine stops.
THEOREM FileInvariant == Spec => []FileInv
<1>1. FileInv /\ [Next]_vars => FileInv'
  <2> SUFFICES ASSUME FileInv, [Next]_vars PROVE FileInv'
    OBVIOUS
  <2>1. CASE UNCHANGED vars
    BY <2>1 DEF FileInv, vars, TypeOK, InStep, TargetWhole, LitterAccounted
  <2>2. CASE Next
    BY <2>2, WriterStep, EndStep DEF Next
  <2>. QED  BY <2>1, <2>2
<1>. QED  BY FileStarts, <1>1, PTL DEF Spec

\* The path never names a part of a write, nor a file a crash could tear: Sync
\* precedes Rename in WriteFile, and its error is looked at.
THEOREM PathNamesWholeFile == Spec => []TargetWhole
<1>1. FileInv => TargetWhole
  BY DEF FileInv
<1>. QED  BY FileInvariant, <1>1, PTL

\* A call of WriteFile that returns without an error leaves no temporary file,
\* even if its Remove fails; what is on the disk was left by a call that failed
\* or was cut off, or brought back by a crash.
THEOREM LitterOnlyOfFailures == Spec => []TempIsAccounted
<1>1. FileInv => TempIsAccounted
  BY DEF FileInv, InStep, TempIsAccounted, LitterAccounted
<1>. QED  BY FileInvariant, <1>1, PTL

-----------------------------------------------------------------------------
(* The refinement.                                                          *)

\* What an end of the application is to the register.
LEMMA EndRefined ==
  ASSUME FileInv, Crash \/ Kill
  PROVE  Register!Crash \/ Register!Kill
<1> DEFINE calls == [w \in Writer |-> Call(w)]
<1>1. calls' = [w \in Writer |-> Register!NoWrite]
  BY DEF Crash, Kill, CutOff, Call, Register!NoWrite
<1>2. CASE Kill
  BY <1>1, <1>2 DEF Kill, Register!Kill
<1>3. CASE Crash
  <2>1. path' \in older \cup {path} /\ older' = {}
    BY <1>3, EndStep DEF Crash
  <2>. QED  BY <1>1, <2>1 DEF Register!Crash
<1>. QED  BY <1>2, <1>3

\* What the register sees when one writer moves: its call alone.
LEMMA OtherCalls ==
  ASSUME NEW w \in Writer,
         \A x \in Writer \ {w} :
           pc'[x] = pc[x] /\ data'[x] = data[x] /\ failed'[x] = failed[x]
  PROVE  [x \in Writer |-> Call(x)]' =
           [[x \in Writer |-> Call(x)] EXCEPT ![w] = Call(w)']
  BY DEF Call, Phase

\* Every step of a writer is a step of its call in the register, or none.
LEMMA WriterRefined ==
  ASSUME FileInv, NEW w \in Writer,
         \/ \E d \in Data : WriteFile(w, d)
         \/ Create(w) \/ Chmod(w) \/ Write(w) \/ Sync(w) \/ Close(w)
         \/ Rename(w) \/ Remove(w) \/ Return(w)
  PROVE  [Register!RegisterNext]_(Register!registerVars)
<1> DEFINE calls == [x \in Writer |-> Call(x)]
           values == {f.data : f \in older \cup {path}}
<1>1. calls' = [calls EXCEPT ![w] = Call(w)'] /\ calls[w] = Call(w)
  <2>1. \A x \in Writer \ {w} :
          pc'[x] = pc[x] /\ data'[x] = data[x] /\ failed'[x] = failed[x]
    BY DEF FileInv, TypeOK, WriteFile, Create, Chmod, Write, Sync, Close, Rename,
           Remove, Return, Error, Goto
  <2>. QED  BY <2>1, OtherCalls
<1>2. CASE \E d \in Data : WriteFile(w, d)
  <2> PICK d \in Data : WriteFile(w, d)
    BY <1>2
  <2>1. Call(w) = [phase |-> "idle"]
    BY DEF WriteFile, Call
  <2>2. Call(w)' = [phase |-> "asked", data |-> d]
    BY DEF FileInv, TypeOK, InStep, WriteFile, Goto, Call, Phase
  <2>3. Register!Ask(w, d)
    BY <1>1, <2>1, <2>2 DEF WriteFile, Register!Ask
  <2>. QED  BY <2>3 DEF Register!RegisterNext
<1>3. ASSUME pc[w] \notin {"idle", "remove", "return"}
      PROVE  Call(w) = [phase |-> "asked", data |-> data[w]]
  BY <1>3 DEF FileInv, InStep, Call, Phase
<1>4. CASE Error(w) /\ pc[w] \notin {"idle", "remove", "return"}
  <2>1. Call(w)' = [phase |-> "failed", data |-> data[w]]
    BY <1>4 DEF FileInv, TypeOK, Error, Goto, Call, Phase
  <2>2. [Call(w) EXCEPT !.phase = "failed"] = Call(w)'
    BY <1>3, <1>4, <2>1
  <2>3. calls' = [calls EXCEPT ![w].phase = "failed"]
    BY <1>1, <2>2 DEF Error
  <2>4. UNCHANGED <<path, older>> /\ calls[w].phase = "asked"
    BY <1>1, <1>3, <1>4 DEF Error
  <2> HIDE DEF calls
  <2>5. Register!Fail(w)
    BY <2>3, <2>4 DEF Register!Fail, calls
  <2>. QED  BY <2>5 DEF Register!RegisterNext
<1>5. CASE /\ pc[w] \in {"create", "chmod", "write", "sync", "close"}
           /\ pc'[w] \in {"chmod", "write", "sync", "close", "rename"}
           /\ UNCHANGED <<data, failed, path, older>>
  <2>1. Call(w)' = Call(w)
    BY <1>5 DEF Call, Phase
  <2>. QED  BY <1>1, <1>5, <2>1 DEF Register!registerVars
<1>6. CASE Create(w) \/ Chmod(w) \/ Write(w) \/ Sync(w) \/ Close(w)
  <2>1. CASE Error(w)
    BY <1>4, <1>6, <2>1 DEF Create, Chmod, Write, Sync, Close
  <2>2. CASE ~Error(w)
    BY <1>5, <1>6, <2>2
    DEF Create, Chmod, Write, Sync, Close, Goto, FileInv, TypeOK
  <2>. QED  BY <2>1, <2>2
<1>7. CASE Rename(w)
  <2>1. CASE Error(w)
    BY <1>4, <1>7, <2>1 DEF Rename
  <2>2. CASE ~Error(w)
    <3>1. Call(w)' = [phase |-> "done", data |-> data[w]]
      BY <1>7, <2>2 DEF FileInv, TypeOK, InStep, Rename, Goto, Call, Phase
    <3>2. Call(w) = [phase |-> "asked", data |-> data[w]]
      BY <1>3, <1>7 DEF Rename
    <3>3. path'.data = data[w] /\ values' = values \cup {path'.data}
      BY <1>7, <2>2 DEF FileInv, InStep, Rename
    <3>4. [Call(w) EXCEPT !.phase = "done"] = Call(w)'
      BY <3>1, <3>2
    <3>5. calls' = [calls EXCEPT ![w].phase = "done"]
      BY <1>1, <3>4
    <3>6. calls[w].phase = "asked" /\ calls[w].data = data[w]
      BY <1>1, <3>2
    <3> HIDE DEF calls
    <3>7. Register!Replace(w)
      BY <3>3, <3>5, <3>6 DEF Register!Replace, calls
    <3>. QED  BY <3>7 DEF Register!RegisterNext
  <2>. QED  BY <2>1, <2>2
<1>8. CASE Remove(w)
  <2>1. Call(w)' = Call(w)
    BY <1>8 DEF FileInv, TypeOK, Remove, Goto, Call, Phase
  <2>. QED  BY <1>1, <1>8, <2>1 DEF Remove, Register!registerVars
<1>9. CASE Return(w)
  <2>1. Call(w)' = Register!NoWrite
    BY <1>9 DEF FileInv, TypeOK, Return, Goto, Call, Register!NoWrite
  <2>2. Call(w).phase \in {"done", "failed"}
    BY <1>9 DEF Return, Call, Phase
  <2>3. Register!Return(w)
    BY <1>1, <1>9, <2>1, <2>2 DEF Return, Register!Return
  <2>. QED  BY <2>3 DEF Register!RegisterNext
<1>. QED  BY <1>2, <1>6, <1>7, <1>8, <1>9

\* WriteFile is a register: a write happens at its rename or not at all, and
\* what is found after a crash is a value the file has had.
THEOREM RegisterImplemented == Spec => ImplementsRegister
<1>1. Init => Register!RegisterInit(Absent)
  BY DEF Init, NoFile, File, Call, Register!RegisterInit, Register!NoWrite
<1>2. FileInv /\ [Next]_vars => [Register!RegisterNext]_(Register!registerVars)
  <2> SUFFICES ASSUME FileInv, [Next]_vars
               PROVE  [Register!RegisterNext]_(Register!registerVars)
    OBVIOUS
  <2>1. CASE UNCHANGED vars
    BY <2>1 DEF vars, Call, Phase, Register!registerVars
  <2>2. CASE Next
    BY <2>2, WriterRefined, EndRefined DEF Next, Register!RegisterNext
  <2>. QED  BY <2>1, <2>2
<1>. QED  BY FileInvariant, <1>1, <1>2, PTL DEF Spec, ImplementsRegister, Register!RegisterSpec

-----------------------------------------------------------------------------
(* ConfigStore.                                                             *)

\* Only one save is sent at a time, it is the one the service runs, and a save
\* that is past its rename without an error is what the file has.
OneSave ==
  /\ \A b, c \in sent : b = c
  /\ pc[Service] # "idle" => data[Service] \in sent
  /\ pc[Service] \in {"remove", "return"} /\ ~failed[Service] => path.data = data[Service]

\* Nothing is saved before the stores are loaded.
NothingEarly ==
  phase \in {"off", "loading"} =>
    queue = <<>> /\ sent = {} /\ lastSave = "none" /\ touched = {} /\ load = "ok" /\ shown = Default

\* The last save that waits or runs is what the window shows.
NewestLast ==
  /\ queue # <<>> => queue[Len(queue)] = shown
  /\ queue = <<>> => sent \subseteq {shown}

\* What the window shows, what waits, runs or is in the file differ only in
\* settings the user has changed.
Known ==
  {shown} \cup {queue[i] : i \in DOMAIN queue} \cup sent \cup ({path.data} \cap Config)

OnlyTouchedDiffer ==
  phase \in {"creating", "running"} /\ load = "ok" =>
    \A c \in Known : \A s \in Setting \ touched : c[s] = shown[s]

\* The inductive invariant.
StoreInv ==
  /\ FileInv /\ ConfigTypeOK
  /\ OneSave /\ NothingEarly /\ NewestLast /\ LastChoiceSaved /\ OnlyTouchedDiffer

-----------------------------------------------------------------------------

LEMMA StoreStarts == ConfigInit => StoreInv
<1> SUFFICES ASSUME ConfigInit PROVE StoreInv
  OBVIOUS
<1> USE DEF ConfigInit
<1>1. FileInv
  BY FileStarts
<1>2. ConfigTypeOK
  BY <1>1, ConfigAssumption DEF FileInv, ConfigTypeOK
<1>3. OneSave /\ NothingEarly /\ NewestLast /\ LastChoiceSaved /\ OnlyTouchedDiffer
  BY WriterAssumption
  DEF Init, OneSave, NothingEarly, NewestLast, LastChoiceSaved, OnlyTouchedDiffer
<1>. QED  BY <1>1, <1>2, <1>3 DEF StoreInv

\* A step of the file leaves the stores and the queue alone.
LEMMA FileStepsOfService ==
  ASSUME StoreInv, SaveLocks \/ FileStep
  PROVE  StoreInv'
<1> USE DEF StoreInv, configVars
<1>0. Service \in Writer
  BY WriterAssumption
<1>1. FileInv'
  <2>1. CASE SaveLocks
    BY <1>0, <2>1, WriterStep, ConfigAssumption DEF SaveLocks, ConfigTypeOK
  <2>2. CASE FileStep
    BY <1>0, <2>2, WriterStep DEF FileStep
  <2>. QED  BY <2>1, <2>2
<1>2. UNCHANGED configVars
  BY DEF SaveLocks, FileStep
<1>3. ConfigTypeOK'
  BY <1>1, <1>2 DEF FileInv, ConfigTypeOK
<1>4. NothingEarly' /\ NewestLast'
  BY <1>2 DEF NothingEarly, NewestLast
<1>5. path' = path \/ (path'.data \in sent /\ sent # {})
  <2>1. CASE SaveLocks
    BY <2>1 DEF SaveLocks, WriteFile
  <2>2. CASE Rename(Service)
    BY <1>0, <2>2 DEF Rename, Error, FileInv, InStep, OneSave
  <2>3. CASE FileStep /\ ~Rename(Service)
    BY <2>3 DEF FileStep, Create, Chmod, Write, Sync, Close, Remove, Error
  <2>. QED  BY <2>1, <2>2, <2>3
<1>6. LastChoiceSaved'
  BY <1>2, <1>5 DEF LastChoiceSaved
<1>7. OnlyTouchedDiffer'
  BY <1>2, <1>5 DEF OnlyTouchedDiffer, Known
<1>8. OneSave'
  <2>1. CASE SaveLocks
    BY <1>0, <1>2, <2>1 DEF SaveLocks, WriteFile, Goto, OneSave, FileInv, TypeOK
  <2>2. CASE Rename(Service)
    BY <1>0, <1>2, <2>2 DEF Rename, Error, Goto, OneSave, FileInv, TypeOK, InStep
  <2>3. CASE Remove(Service)
    BY <1>0, <1>2, <2>3 DEF Remove, Goto, OneSave, FileInv, TypeOK
  <2>4. CASE Create(Service) \/ Chmod(Service) \/ Write(Service) \/ Sync(Service)
             \/ Close(Service)
    BY <1>0, <1>2, <2>4
    DEF Create, Chmod, Write, Sync, Close, Error, Goto, OneSave, FileInv, TypeOK
  <2>. QED  BY <2>1, <2>2, <2>3, <2>4 DEF FileStep
<1>. QED  BY <1>1, <1>3, <1>4, <1>6, <1>7, <1>8

\* The window loads: everything in the stores is the file's, or the default.
LEMMA LoadSteps ==
  ASSUME StoreInv, Launch \/ LoadReturns
  PROVE  StoreInv'
<1> USE DEF StoreInv, vars
<1>1. FileInv'
  BY DEF Launch, LoadReturns, FileInv, TypeOK, InStep, TargetWhole, LitterAccounted
<1>2. CASE Launch
  <2>1. ConfigTypeOK' /\ OneSave' /\ NothingEarly' /\ NewestLast' /\ LastChoiceSaved'
    BY <1>1, <1>2
    DEF Launch, FileInv, ConfigTypeOK, OneSave, NothingEarly, NewestLast, LastChoiceSaved
  <2>2. OnlyTouchedDiffer'
    BY <1>2 DEF Launch, OnlyTouchedDiffer
  <2>. QED  BY <1>1, <2>1, <2>2
<1>3. CASE LoadReturns
  <2>1. queue = <<>> /\ sent = {} /\ touched = {} /\ lastSave = "none"
    BY <1>3 DEF LoadReturns, NothingEarly
  <2>2. CASE /\ path.data \in Config
             /\ phase' = "running" /\ shown' = Applied(path.data)
             /\ UNCHANGED <<queue, load>>
    <3>1. shown' = path.data /\ shown' \in Config
      BY <2>2 DEF Applied, Config
    <3>2. UNCHANGED <<vars, sent, touched, lastSave>>
      BY <1>3 DEF LoadReturns
    <3>3. ConfigTypeOK' /\ OneSave' /\ NothingEarly' /\ NewestLast' /\ LastChoiceSaved'
      BY <1>1, <2>1, <2>2, <3>1, <3>2
      DEF FileInv, ConfigTypeOK, OneSave, NothingEarly, NewestLast, LastChoiceSaved
    <3>4. OnlyTouchedDiffer'
      BY <2>1, <2>2, <3>1, <3>2 DEF OnlyTouchedDiffer, Known
    <3>. QED  BY <1>1, <3>3, <3>4
  <2>3. CASE /\ path.data = Absent
             /\ phase' = "creating" /\ shown' = Default
             /\ queue' = Append(queue, Default)
             /\ UNCHANGED load
    <3>1. queue' = <<Default>> /\ Default \in Config /\ Absent \notin Config
      BY <2>1, <2>3, ConfigAssumption, MarksAreFresh
    <3>2. UNCHANGED <<vars, sent, touched, lastSave>>
      BY <1>3 DEF LoadReturns
    <3>3. ConfigTypeOK' /\ OneSave' /\ NothingEarly' /\ NewestLast' /\ LastChoiceSaved'
      BY <1>1, <2>1, <2>3, <3>1, <3>2
      DEF FileInv, ConfigTypeOK, OneSave, NothingEarly, NewestLast, LastChoiceSaved
    <3>4. OnlyTouchedDiffer'
      BY <2>1, <2>3, <3>1, <3>2 DEF OnlyTouchedDiffer, Known
    <3>. QED  BY <1>1, <3>3, <3>4
  <2>4. CASE /\ phase' = "running" /\ shown' = Default
             /\ load' = "failed"
             /\ UNCHANGED queue
    <3>1. UNCHANGED <<vars, sent, touched, lastSave>>
      BY <1>3 DEF LoadReturns
    <3>2. ConfigTypeOK' /\ OneSave' /\ NothingEarly' /\ NewestLast' /\ LastChoiceSaved'
      BY <1>1, <2>1, <2>4, <3>1, ConfigAssumption
      DEF FileInv, ConfigTypeOK, OneSave, NothingEarly, NewestLast, LastChoiceSaved
    <3>3. OnlyTouchedDiffer'
      BY <2>4 DEF OnlyTouchedDiffer
    <3>. QED  BY <1>1, <3>2, <3>3
  <2>. QED  BY <1>3, <2>2, <2>3, <2>4 DEF LoadReturns
<1>. QED  BY <1>2, <1>3

\* What a queue is after a save has joined it.
LEMMA Joined ==
  ASSUME NEW S, NEW q \in Seq(S), NEW c \in S
  PROVE  /\ Append(q, c) \in Seq(S) /\ Append(q, c) # <<>>
         /\ Append(q, c)[Len(Append(q, c))] = c
         /\ \A i \in DOMAIN Append(q, c) :
              (i \in DOMAIN q /\ Append(q, c)[i] = q[i]) \/ Append(q, c)[i] = c
<1>1. Append(q, c) \in Seq(S) /\ Len(Append(q, c)) = Len(q) + 1 /\ Append(q, c)[Len(q) + 1] = c
  OBVIOUS
<1>2. \A i \in 1..Len(q) : Append(q, c)[i] = q[i]
  OBVIOUS
<1>3. DOMAIN Append(q, c) = 1..(Len(q) + 1) /\ DOMAIN q = 1..Len(q) /\ Len(q) \in Nat
  BY <1>1
<1>4. Append(q, c) # <<>>
  BY <1>1
<1>. QED  BY <1>1, <1>2, <1>3, <1>4

\* The user changes a setting, which is then touched, and the save waits last.
LEMMA ChooseStep ==
  ASSUME StoreInv, NEW s \in Setting, Choose(s)
  PROVE  StoreInv'
<1> USE DEF StoreInv, vars
<1>1. FileInv'
  BY DEF Choose, FileInv, TypeOK, InStep, TargetWhole, LitterAccounted
<1>2. /\ shown' \in Config /\ \A t \in Setting \ {s} : shown'[t] = shown[t]
      /\ queue \in Seq(Config)
  BY DEF Choose, ConfigTypeOK, Config
<1>3. /\ queue' \in Seq(Config) /\ queue' # <<>> /\ queue'[Len(queue')] = shown'
      /\ \A i \in DOMAIN queue' : (i \in DOMAIN queue /\ queue'[i] = queue[i]) \/ queue'[i] = shown'
  <2>1. queue' = Append(queue, shown')
    BY DEF Choose
  <2>. QED  BY <1>2, <2>1, Joined
<1>4. ConfigTypeOK' /\ OneSave' /\ NothingEarly' /\ NewestLast' /\ LastChoiceSaved'
  BY <1>1, <1>2, <1>3
  DEF Choose, FileInv, ConfigTypeOK, OneSave, NothingEarly, NewestLast, LastChoiceSaved
<1>5. OnlyTouchedDiffer'
  <2>1. \A c \in Known' : c = shown' \/ c \in Known
    BY <1>3 DEF Choose, Known
  <2>. QED  BY <1>2, <2>1 DEF Choose, OnlyTouchedDiffer
<1>. QED  BY <1>1, <1>4, <1>5

\* The save that waits first is sent.
LEMMA SendStep ==
  ASSUME StoreInv, SendSave
  PROVE  StoreInv'
<1> USE DEF StoreInv, vars
<1>1. FileInv'
  BY DEF SendSave, FileInv, TypeOK, InStep, TargetWhole, LitterAccounted
<1>2. /\ Head(queue) = queue[1] /\ 1 \in DOMAIN queue /\ queue[1] \in Config
      /\ Tail(queue) \in Seq(Config)
      /\ \A i \in DOMAIN Tail(queue) : i + 1 \in DOMAIN queue /\ Tail(queue)[i] = queue[i + 1]
      /\ Tail(queue) # <<>> => Tail(queue)[Len(Tail(queue))] = queue[Len(queue)]
      /\ Tail(queue) = <<>> => queue[1] = queue[Len(queue)]
  BY DEF SendSave, ConfigTypeOK
<1>3. pc[Service] = "idle"
  BY DEF SendSave, OneSave
<1>4. ConfigTypeOK' /\ OneSave' /\ NothingEarly'
  BY <1>1, <1>2, <1>3 DEF SendSave, FileInv, ConfigTypeOK, OneSave, NothingEarly
<1>5. NewestLast' /\ LastChoiceSaved'
  BY <1>2 DEF SendSave, NewestLast, LastChoiceSaved
<1>6. OnlyTouchedDiffer'
  <2>1. Known' \subseteq Known
    BY <1>2 DEF SendSave, Known
  <2>. QED  BY <2>1 DEF SendSave, OnlyTouchedDiffer
<1>. QED  BY <1>1, <1>4, <1>5, <1>6

\* A save returns: nothing is sent, and if it succeeded the file has it.
LEMMA SaveReturnStep ==
  ASSUME StoreInv, SaveReturns
  PROVE  StoreInv'
<1> USE DEF StoreInv
<1>0. Service \in Writer
  BY WriterAssumption
<1>1. FileInv'
  BY <1>0, WriterStep DEF SaveReturns
<1>2. /\ pc[Service] = "return" /\ pc'[Service] = "idle" /\ sent = {data[Service]} /\ sent' = {}
      /\ ~failed[Service] => path.data = data[Service]
      /\ path' = path
  BY <1>0 DEF SaveReturns, Return, Goto, OneSave, FileInv, TypeOK
<1>3. ConfigTypeOK' /\ OneSave' /\ NewestLast'
  BY <1>1, <1>2 DEF SaveReturns, FileInv, ConfigTypeOK, OneSave, NewestLast
<1>4. phase \in {"creating", "running"} /\ phase' = "running"
  BY <1>2 DEF SaveReturns, NothingEarly, ConfigTypeOK
<1>5. NothingEarly'
  BY <1>4 DEF NothingEarly
<1>6. LastChoiceSaved'
  BY <1>2 DEF SaveReturns, LastChoiceSaved, NewestLast
<1>7. OnlyTouchedDiffer'
  <2>1. Known' \subseteq Known
    BY <1>2 DEF SaveReturns, Known
  <2>. QED  BY <1>4, <2>1 DEF SaveReturns, OnlyTouchedDiffer
<1>. QED  BY <1>1, <1>3, <1>5, <1>6, <1>7

\* The application ends.
LEMMA EndsStep ==
  ASSUME StoreInv, Ends
  PROVE  StoreInv'
<1> USE DEF StoreInv
<1>1. FileInv' /\ pc'[Service] = "idle"
  BY EndStep, WriterAssumption DEF Ends, Crash, Kill, CutOff
<1>2. ConfigTypeOK'
  BY <1>1, ConfigAssumption DEF Ends, FileInv, ConfigTypeOK
<1>3. OneSave' /\ NothingEarly' /\ NewestLast' /\ LastChoiceSaved' /\ OnlyTouchedDiffer'
  BY <1>1 DEF Ends, OneSave, NothingEarly, NewestLast, LastChoiceSaved, OnlyTouchedDiffer
<1>. QED  BY <1>1, <1>2, <1>3

LEMMA StoreStep ==
  ASSUME StoreInv, [ConfigNext]_allVars
  PROVE  StoreInv'
<1>1. CASE UNCHANGED allVars
  <2>1. UNCHANGED vars /\ UNCHANGED configVars
    BY <1>1 DEF allVars
  <2>2. FileInv'
    BY <2>1 DEF StoreInv, vars, FileInv, TypeOK, InStep, TargetWhole, LitterAccounted
  <2>. QED  BY <2>1, <2>2
            DEF StoreInv, vars, configVars, FileInv, ConfigTypeOK, OneSave, NothingEarly,
                NewestLast, LastChoiceSaved, OnlyTouchedDiffer, Known
<1>2. CASE ConfigNext
  BY <1>2, FileStepsOfService, LoadSteps, ChooseStep, SendStep, SaveReturnStep, EndsStep
  DEF ConfigNext
<1>. QED  BY <1>1, <1>2

\* The invariant of the preferences over starts, quits and crashes.
THEOREM StoreInvariant == ConfigSpec => []StoreInv
  BY StoreStarts, StoreStep, PTL DEF ConfigSpec

\* The file of the preferences is whole, whatever fails and however the
\* application ends, and a save that succeeds leaves no temporary file.
THEOREM ConfigWhole == ConfigSpec => []ConfigInv
<1>1. StoreInv => ConfigInv
  BY DEF StoreInv, ConfigInv, FileInv, InStep, TempIsAccounted, LitterAccounted
<1>. QED  BY StoreInvariant, <1>1, PTL

\* When nothing waits or runs and the last save succeeded, the file has what
\* the window shows (queueConfigSave).
THEOREM LastChoiceIsSaved == ConfigSpec => []LastChoiceSaved
<1>1. StoreInv => LastChoiceSaved
  BY DEF StoreInv
<1>. QED  BY StoreInvariant, <1>1, PTL

\* What the user has not changed stays as the file had it.
THEOREM UntouchedKept == ConfigSpec => UntouchedSettingsKept
<1>1. ASSUME StoreInv, [ConfigNext]_allVars
      PROVE  [path' # path /\ phase' = "running" /\ load = "ok" /\ path.data \in Config =>
                \A s \in Setting \ touched : path'.data[s] = path.data[s]]_allVars
  <2> SUFFICES ASSUME ConfigNext, path' # path, phase' = "running", load = "ok",
                      path.data \in Config, NEW s \in Setting \ touched
               PROVE  path'.data[s] = path.data[s]
    BY <1>1
  <2> USE <1>1 DEF StoreInv
  <2>1. FileStep
    BY DEF ConfigNext, Launch, LoadReturns, Choose, SendSave, SaveLocks, WriteFile,
           SaveReturns, Return, Ends, vars
  <2>2. Rename(Service)
    BY <2>1 DEF FileStep, Create, Chmod, Write, Sync, Close, Remove, Error
  <2>3. path'.data \in sent /\ phase = "running"
    BY <2>1, <2>2, WriterAssumption
    DEF FileStep, configVars, Rename, Error, FileInv, InStep, OneSave
  <2>. QED  BY <2>3 DEF OnlyTouchedDiffer, Known
<1>. QED  BY StoreInvariant, <1>1, PTL DEF ConfigSpec, UntouchedSettingsKept

\* The file of the preferences is a register for the window: its writer, under
\* the mutex of the service, makes the calls of WriteFile.
THEOREM ConfigIsRegister == ConfigSpec => ImplementsRegister
<1>1. ConfigInit => Init
  BY DEF ConfigInit
<1>2. StoreInv /\ [ConfigNext]_allVars => [Next]_vars
  <2> SUFFICES ASSUME StoreInv, [ConfigNext]_allVars PROVE [Next]_vars
    OBVIOUS
  <2>1. Service \in Writer
    BY WriterAssumption
  <2>2. CASE SaveLocks
    BY <2>1, <2>2, ConfigAssumption DEF SaveLocks, Next, StoreInv, ConfigTypeOK
  <2>3. CASE FileStep
    BY <2>1, <2>3 DEF FileStep, Next
  <2>4. CASE SaveReturns
    BY <2>1, <2>4 DEF SaveReturns, Next
  <2>5. CASE Ends
    BY <2>5 DEF Ends, Next
  <2>6. CASE Launch \/ LoadReturns \/ (\E s \in Setting : Choose(s)) \/ SendSave
             \/ UNCHANGED allVars
    BY <2>6 DEF Launch, LoadReturns, Choose, SendSave, allVars
  <2>. QED  BY <2>2, <2>3, <2>4, <2>5, <2>6 DEF ConfigNext
<1>3. ConfigSpec => Spec
  BY <1>1, <1>2, StoreInvariant, PTL DEF ConfigSpec, Spec
<1>. QED  BY <1>3, RegisterImplemented, PTL

=============================================================================
