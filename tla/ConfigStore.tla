----------------------------- MODULE ConfigStore -----------------------------
(***************************************************************************)
(* The preferences of the user: the stores and the queue of saves of       *)
(* application-config.ts, appconfig.Service behind them, and the file,     *)
(* which is AtomicFile with one writer, the service under its mutex.       *)
(*                                                                         *)
(* A setting has two values, as advancedMode does.  The application ends   *)
(* or the machine crashes at any moment, and then starts again.            *)
(***************************************************************************)
EXTENDS AtomicFile, Sequences, Naturals

CONSTANTS
  Setting, Default,
  Service,   \* the one writer
  MaxQueue   \* bound: saves that wait for their turn

Config == [Setting -> BOOLEAN]

ASSUME ConfigAssumption == Data = Config /\ Default \in Config
ASSUME WriterAssumption == Writer = {Service}
ASSUME QueueAssumption == MaxQueue \in Nat

VARIABLES
  phase,    \* "off", "loading", "creating" (the first save), "running"
  shown,    \* the stores
  queue,    \* saves that wait for saveTail
  sent,     \* calls of SaveApplicationConfig that have not returned
  \* History of this start
  touched,  \* settings the user has changed
  load,     \* how loadApplicationConfig ended: "ok" or "failed"
  lastSave  \* how the last save ended: "none", "ok", "failed"

configVars == <<phase, shown, queue, sent, touched, load, lastSave>>
allVars == <<vars, configVars>>

ConfigInit ==
  /\ Init
  /\ phase = "off" /\ shown = Default /\ queue = <<>> /\ sent = {}
  /\ touched = {} /\ load = "ok" /\ lastSave = "none"

-----------------------------------------------------------------------------
(* The window.                                                              *)

Launch ==
  /\ phase = "off"
  /\ phase' = "loading"
  /\ UNCHANGED <<vars, shown, queue, sent, touched, load, lastSave>>

\* Mutant of Applied: one setting is not taken from the file.
AppliedButOne(c) ==
  [s \in Setting |-> IF s = CHOOSE t \in Setting : TRUE THEN Default[s] ELSE c[s]]

\* What a loaded configuration sets in the stores: everything.
Applied(c) == [s \in Setting |-> c[s]]

\* initializeApplicationConfig after its await: the stores take the file's
\* values, are saved if there is no file, and stay at the defaults if the file
\* cannot be read or decoded.
LoadReturns ==
  /\ phase = "loading"
  /\ \/ /\ path.data \in Config
        /\ phase' = "running" /\ shown' = Applied(path.data)
        /\ UNCHANGED <<queue, load>>
     \/ /\ path.data = Absent
        /\ phase' = "creating" /\ shown' = Default
        /\ queue' = Append(queue, Default)
        /\ UNCHANGED load
     \/ /\ phase' = "running" /\ shown' = Default
        /\ load' = "failed"
        /\ UNCHANGED queue
  /\ UNCHANGED <<vars, sent, touched, lastSave>>

\* setAppLocale, setAdvancedMode, setPasskeyDirectoryEnabled.
Choose(s) ==
  /\ phase = "running" /\ Len(queue) < MaxQueue
  /\ shown' = [shown EXCEPT ![s] = ~@]
  /\ queue' = Append(queue, shown')
  /\ touched' = touched \cup {s}
  /\ UNCHANGED <<vars, phase, sent, load, lastSave>>

\* Mutant of SendSave: a save does not wait for the one before.
SendsAtOnce ==
  /\ queue # <<>>
  /\ sent' = sent \cup {Head(queue)}
  /\ queue' = Tail(queue)
  /\ UNCHANGED <<vars, phase, shown, touched, load, lastSave>>

\* Mutant of SendSave: saveTail keeps a failure, and nothing is sent any more.
SendsAfterSuccess ==
  /\ queue # <<>> /\ sent = {} /\ lastSave # "failed"
  /\ sent' = {Head(queue)}
  /\ queue' = Tail(queue)
  /\ UNCHANGED <<vars, phase, shown, touched, load, lastSave>>

\* saveTail: a save is sent when the one before has returned, or failed.
SendSave ==
  /\ queue # <<>> /\ sent = {}
  /\ sent' = {Head(queue)}
  /\ queue' = Tail(queue)
  /\ UNCHANGED <<vars, phase, shown, touched, load, lastSave>>

-----------------------------------------------------------------------------
(* The service and the file.                                                *)

\* save takes the mutex.
SaveLocks ==
  /\ \E c \in sent : WriteFile(Service, c)
  /\ UNCHANGED configVars

FileStep ==
  /\ \/ Create(Service) \/ Chmod(Service) \/ Write(Service) \/ Sync(Service)
     \/ Close(Service) \/ Rename(Service) \/ Remove(Service)
  /\ UNCHANGED configVars

\* The first save is awaited; it makes no difference how it ends.
SaveReturns ==
  /\ Return(Service)
  /\ sent' = sent \ {data[Service]}
  /\ lastSave' = IF failed[Service] THEN "failed" ELSE "ok"
  /\ phase' = IF phase = "creating" THEN "running" ELSE phase
  /\ UNCHANGED <<shown, queue, touched, load>>

\* What waits or runs when the application ends is lost.
Ends ==
  /\ phase # "off"
  /\ Crash \/ Kill
  /\ phase' = "off" /\ shown' = Default /\ queue' = <<>> /\ sent' = {}
  /\ touched' = {} /\ load' = "ok" /\ lastSave' = "none"

ConfigNext ==
  \/ Launch \/ LoadReturns \/ (\E s \in Setting : Choose(s)) \/ SendSave
  \/ SaveLocks \/ FileStep \/ SaveReturns \/ Ends

ConfigSpec == ConfigInit /\ [][ConfigNext]_allVars

\* The window and the service go on while they run; nobody has to choose.
FairConfigSpec ==
  /\ ConfigSpec
  /\ WF_allVars(SendSave) /\ WF_allVars(SaveLocks)
  /\ WF_allVars(FileStep) /\ WF_allVars(SaveReturns)

-----------------------------------------------------------------------------
(* Properties.                                                              *)

\* Type invariant, with the one of the file: the stores hold a whole configuration.
ConfigTypeOK ==
  /\ TypeOK
  /\ phase \in {"off", "loading", "creating", "running"}
  /\ shown \in Config /\ sent \subseteq Config
  /\ queue \in Seq(Config)
  /\ touched \subseteq Setting
  /\ load \in {"ok", "failed"} /\ lastSave \in {"none", "ok", "failed"}

\* Whatever a save does and wherever it fails or the machine stops, the file is
\* whole, and a save that succeeds leaves no temporary file.
ConfigInv == ConfigTypeOK /\ TargetWhole /\ TempIsAccounted

\* When nothing waits or runs and the last save succeeded, the file has what
\* the window shows: saves are not applied out of order (queueConfigSave).
LastChoiceSaved ==
  phase = "running" /\ queue = <<>> /\ sent = {} /\ lastSave = "ok" =>
    path.data = shown

\* A save changes no setting in the file but those the user has changed, if
\* the file could be read at the start (main.ts awaits
\* initializeApplicationConfig before it mounts the application).
UntouchedSettingsKept ==
  [][path' # path /\ phase' = "running" /\ load = "ok" /\ path.data \in Config =>
       \A s \in Setting \ touched : path'.data[s] = path.data[s]]_allVars

\* A save that waits is sent, also after one that failed, and returns.
SavesGoOn ==
  /\ queue # <<>> /\ sent = {} ~> queue = <<>> \/ sent # {}
  /\ sent # {} ~> sent = {}

=============================================================================
