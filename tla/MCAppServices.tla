--------------------------- MODULE MCAppServices ---------------------------
(***************************************************************************)
(* Parts of the program that share no state: the directory of passkeys and *)
(* the search in its data set, the mirror of the log, the state of the     *)
(* window and the Lab.  One run checks them side by side: a behaviour is   *)
(* one of the part it began with, and the others stay at an initial state, *)
(* which keeps the parts from multiplying.                                 *)
(***************************************************************************)
EXTENDS PasskeyDirectory, PasskeyCatalog, LogMirror, WindowState, Lab

VARIABLE part

PartVars == <<directoryVars, catalogVars, logVars, windowVars, labVars>>

\* Of a part at rest one initial state is enough.
DirectoryRests == loaded = FALSE /\ cacheFile = Nothing /\ clock = 0
CatalogRests == payload = {}
LabRests == arkg = FALSE

\* The Lab with two runs under way on its first selection, and one on the next; with
\* derived keys only the first, whose made credentials are verified.
LabWithin ==
  /\ labMade = 2 => \E k \in LabCall : runs[k] = NoRun
  /\ arkg => /\ labMade <= 1
             /\ \A k \in LabCall : runs[k].op # "get"
             /\ \A v \in Verification : lab.check[v] # "error"

\* A window of which a handler has recorded the past is not changed again before
\* it is closed.
WindowWithin ==
  disturbed => window' = window \/ "closed" \in {window.state, window'.state}

PartInit ==
  /\ part \in {"directory", "catalog", "log", "window", "lab"}
  /\ DirectoryInit /\ CatalogInit /\ LogInit /\ WindowInit /\ LabInit
  /\ part = "directory" \/ DirectoryRests
  /\ part = "catalog" \/ CatalogRests
  /\ part = "lab" \/ LabRests

PartNext ==
  \/ part = "directory" /\ DirectoryNext /\ UNCHANGED <<part, catalogVars, logVars, windowVars, labVars>>
  \/ part = "catalog" /\ CatalogNext /\ UNCHANGED <<part, directoryVars, logVars, windowVars, labVars>>
  \/ part = "log" /\ LogNext /\ UNCHANGED <<part, directoryVars, catalogVars, windowVars, labVars>>
  \/ part = "window" /\ WindowNext /\ WindowWithin /\ UNCHANGED <<part, directoryVars, catalogVars, logVars, labVars>>
  \/ part = "lab" /\ LabNext /\ LabWithin' /\ UNCHANGED <<part, directoryVars, catalogVars, logVars, windowVars>>

PartSpec == PartInit /\ [][PartNext]_<<part, PartVars>>

-----------------------------------------------------------------------------
(* The log: three records of commands are too many, the first failure has   *)
(* room for no other record and the second is too large by itself.          *)

MCBytes == [r \in LogRecord |-> IF r[1] = "kit" THEN 1 ELSE r[2] + 2]

-----------------------------------------------------------------------------
(* The names of the data set: case, a final dot, an IP address, a blank.    *)

MCLabel == {"com", "ex", "id", "a", "b", "127.0.0.1"}
MCDomain == {<<"com">>, <<"ex", "com">>, <<"id", "ex", "com">>, <<"a", "id", "ex", "com">>,
             <<"b", "ex", "com">>, <<"127.0.0.1">>}
MCWritten == {"Ex.com.", "ex.com", "id.ex.com", "A.id.ex.com", "b.ex.com", "com", "127.0.0.1", " "}
MCNormal == [w \in MCWritten |->
  CASE w \in {"Ex.com.", "ex.com"} -> <<"ex", "com">>
    [] w = "id.ex.com" -> <<"id", "ex", "com">>
    [] w = "A.id.ex.com" -> <<"a", "id", "ex", "com">>
    [] w = "b.ex.com" -> <<"b", "ex", "com">>
    [] w = "com" -> <<"com">>
    [] w = "127.0.0.1" -> <<"127.0.0.1">>
    [] OTHER -> <<>>]
MCRegistrable == [d \in MCDomain |-> IF Len(d) = 1 THEN <<>> ELSE <<"ex", "com">>]
MCEntry ==
  [key : {"Ex.com.", "ex.com", "id.ex.com"}, additional : {{}, {"b.ex.com"}}, valid : {TRUE}]
  \cup [key : {"com"}, additional : {{"127.0.0.1"}, {" "}, {"ex.com"}}, valid : {TRUE}]
  \cup [key : {"b.ex.com"}, additional : {{}}, valid : BOOLEAN]

=============================================================================
