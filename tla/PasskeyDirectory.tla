-------------------------- MODULE PasskeyDirectory --------------------------
(***************************************************************************)
(* The passkey directory: a signed data set that the service fetches,      *)
(* keeps in memory and in a cache file for 72 hours (passkeydirectory/),   *)
(* and the window that looks up the relying parties of the inventory it    *)
(* shows (passkeys-controller.ts, features/passkeys/state.ts).             *)
(*                                                                         *)
(* A lookup holds the mutex of the service from the read of the cache to   *)
(* its answer; the steps between which the server answers, the clock moves *)
(* or the application ends are actions of their own.  What is in a data    *)
(* set and how it is searched is PasskeyCatalog.                           *)
(***************************************************************************)
EXTENDS Naturals

CONSTANTS
  Lookup,          \* lookups under way at one time
  RefreshInterval, \* refreshInterval, in units of the clock
  MaxClock,        \* bound: readings of the clock
  MaxVersions,     \* bound: data sets the server publishes
  MaxLookups,      \* bound: values of passkeyDirectoryLookupID
  Nothing, Corrupt \* no record, and a cache file that is no record

ASSUME DirectoryBounds ==
  /\ RefreshInterval \in Nat \ {0} /\ MaxClock \in Nat
  /\ MaxVersions \in Nat \ {0} /\ MaxLookups \in Nat

ASSUME NoRecord ==
  /\ Nothing # Corrupt
  /\ Nothing \notin [version : 1..MaxVersions, validatedAt : 0..MaxClock]
  /\ Corrupt \notin [version : 1..MaxVersions, validatedAt : 0..MaxClock]
  /\ Nothing \notin [lookup : Lookup, now : 0..MaxClock]

VARIABLES
  \* Service
  loaded,      \* Service.loaded
  current,     \* Service.current: a record, or Nothing
  refreshing,  \* who holds the mutex and waits for the server, and since when
  \* The world
  cacheFile,   \* what the cache file holds: a record, Nothing or Corrupt
  earlier,     \* what a crash may bring back there
  clock, version,
  \* Window
  report,      \* the inventory on the screen: a number, 0 if none
  lookupID,    \* passkeyDirectoryLookupID
  directory,   \* passkeyDirectoryState; its matches are those of a report
  lookups      \* what each coroutine captured, and its answer

directoryService == <<loaded, current, refreshing>>
directoryWorld == <<cacheFile, earlier, clock, version>>
directoryWindow == <<report, lookupID, directory>>
directoryVars == <<directoryService, directoryWorld, directoryWindow, lookups>>

\* cacheRecord, without the validators the server may have sent.
CacheRecord == [version : 1..MaxVersions, validatedAt : 0..MaxClock]

NoLookup == [stage |-> "none"]
NoDirectory == [phase |-> "idle"]
FreeLookups == {k \in Lookup : lookups[k].stage = "none"}

DirectoryInit ==
  /\ loaded = FALSE /\ current = Nothing /\ refreshing = Nothing
  /\ cacheFile \in {Nothing, Corrupt} /\ earlier = cacheFile
  /\ clock \in 0..MaxClock /\ version = 1
  /\ report = 0 /\ lookupID = 0 /\ directory = NoDirectory
  /\ lookups = [k \in Lookup |-> NoLookup]

-----------------------------------------------------------------------------
(* The service.                                                             *)

CacheFresh(validatedAt, now) == validatedAt <= now /\ now < validatedAt + RefreshInterval

\* loadCache, once: a file that cannot be read or verified gives no record.
LoadCache == IF loaded THEN current ELSE IF cacheFile = Corrupt THEN Nothing ELSE cacheFile

\* The answer to a lookup at a time: from a record, or an error (Nothing).
Answered(k, record, at) ==
  [lookups EXCEPT ![k] = [stage |-> "answered", id |-> @.id, report |-> @.report,
                          from |-> record, at |-> at]]

\* A lookup takes the mutex, and answers from a fresh record or asks the server.
ResolveCatalog(k) ==
  /\ lookups[k].stage = "sent" /\ refreshing = Nothing
  /\ loaded' = TRUE /\ current' = LoadCache
  /\ IF current' # Nothing /\ CacheFresh(current'.validatedAt, clock)
     THEN lookups' = Answered(k, current', clock) /\ UNCHANGED refreshing
     ELSE refreshing' = [lookup |-> k, now |-> clock] /\ UNCHANGED lookups
  /\ UNCHANGED <<directoryWorld, directoryWindow>>

\* What the server answers makes: the data set it has or, when it is the one it
\* was asked about, that one anew (304), as of the time before the request.
Refreshed == [version |-> version, validatedAt |-> refreshing.now]

\* The record is stored, then kept in memory.
RefreshSucceeds ==
  /\ refreshing # Nothing
  /\ cacheFile' = Refreshed /\ earlier' = cacheFile
  /\ current' = Refreshed
  /\ lookups' = Answered(refreshing.lookup, Refreshed, refreshing.now)
  /\ refreshing' = Nothing
  /\ UNCHANGED <<loaded, clock, version, directoryWindow>>

\* Mutant of RefreshFails: an expired record is better than none.
AnswersExpired ==
  /\ refreshing # Nothing
  /\ lookups' = Answered(refreshing.lookup, current, refreshing.now)
  /\ refreshing' = Nothing
  /\ UNCHANGED <<loaded, current, directoryWorld, directoryWindow>>

\* Mutant of RefreshFails: the record is kept before it is stored.
KeepsUnstored ==
  /\ refreshing # Nothing
  /\ current' \in {current, Refreshed}
  /\ lookups' = Answered(refreshing.lookup, Nothing, refreshing.now)
  /\ refreshing' = Nothing
  /\ UNCHANGED <<loaded, directoryWorld, directoryWindow>>

\* No answer in time, another status, a payload that cannot be verified, or a
\* file that cannot be written.
RefreshFails ==
  /\ refreshing # Nothing
  /\ lookups' = Answered(refreshing.lookup, Nothing, refreshing.now)
  /\ refreshing' = Nothing
  /\ UNCHANGED <<loaded, current, directoryWorld, directoryWindow>>

-----------------------------------------------------------------------------
(* The world.                                                               *)

ClockChanges ==
  /\ \/ clock < MaxClock /\ clock' = clock + 1
     \/ clock > 0 /\ clock' = 0                 \* the system time is set back
  /\ UNCHANGED <<directoryService, cacheFile, earlier, version, directoryWindow, lookups>>

ServerPublishes ==
  /\ version < MaxVersions
  /\ version' = version + 1
  /\ UNCHANGED <<directoryService, cacheFile, earlier, clock, directoryWindow, lookups>>

\* The application ends, or the machine crashes: the rename of the last store may
\* not have reached the disk.
DirectoryRestarts ==
  /\ loaded
  /\ cacheFile' \in {cacheFile, earlier} /\ earlier' = cacheFile'
  /\ loaded' = FALSE /\ current' = Nothing /\ refreshing' = Nothing
  /\ report' = 0 /\ lookupID' = 0 /\ directory' = NoDirectory
  /\ lookups' = [k \in Lookup |-> NoLookup]
  /\ UNCHANGED <<clock, version>>

-----------------------------------------------------------------------------
(* The window.                                                              *)

ResetLookup == lookupID' = lookupID + 1 /\ directory' = NoDirectory /\ UNCHANGED lookups

\* loadPasskeyDirectory for report r: nothing is asked without relying parties,
\* or when the user has not enabled it.
LoadPasskeyDirectory(r) ==
  \/ ResetLookup
  \/ \E k \in FreeLookups :
       /\ lookupID' = lookupID + 1
       /\ directory' = [phase |-> "loading"]
       /\ lookups' = [lookups EXCEPT ![k] = [stage |-> "sent", id |-> lookupID + 1, report |-> r]]

\* loadPasskeys has a report.
CompleteInventoryLoad ==
  /\ lookupID < MaxLookups
  /\ report' = lookupID + 1
  /\ LoadPasskeyDirectory(lookupID + 1)
  /\ UNCHANGED <<directoryService, directoryWorld>>

\* maybeLoadPasskeys: the screen is visited again, for instance after the
\* setting was enabled.
VisitPasskeys ==
  /\ lookupID < MaxLookups /\ report # 0 /\ directory.phase = "idle"
  /\ LoadPasskeyDirectory(report)
  /\ UNCHANGED <<report, directoryService, directoryWorld>>

\* Mutant of InvalidateInventory: the lookup under way is not given up.
InvalidateReportOnly ==
  /\ lookupID < MaxLookups /\ report # 0
  /\ report' = 0
  /\ directory' = NoDirectory
  /\ UNCHANGED <<lookupID, lookups, directoryService, directoryWorld>>

\* resetPasskeysDeviceState, invalidatePasskeysInventory.
InvalidateInventory ==
  /\ lookupID < MaxLookups /\ report # 0
  /\ report' = 0
  /\ ResetLookup
  /\ UNCHANGED <<directoryService, directoryWorld>>

\* completePasskeyDirectoryLookup, failPasskeyDirectoryLookup: in any order, and
\* only for the last lookup begun.  The runtime may fail to bring the answer.
LookupReturns(k) ==
  /\ lookups[k].stage = "answered"
  /\ LET a == lookups[k]
     IN directory' =
          CASE a.id # lookupID -> directory
            [] a.id = lookupID /\ a.from = Nothing -> [phase |-> "unavailable"]
            [] OTHER -> [phase |-> "ready", report |-> a.report]
  /\ lookups' = [lookups EXCEPT ![k] = NoLookup]
  /\ UNCHANGED <<report, lookupID, directoryService, directoryWorld>>

DirectoryNext ==
  \/ \E k \in Lookup : ResolveCatalog(k) \/ LookupReturns(k)
  \/ RefreshSucceeds \/ RefreshFails
  \/ ClockChanges \/ ServerPublishes \/ DirectoryRestarts
  \/ CompleteInventoryLoad \/ VisitPasskeys \/ InvalidateInventory

DirectorySpec == DirectoryInit /\ [][DirectoryNext]_directoryVars

-----------------------------------------------------------------------------
(* Properties.                                                              *)

DirectoryTypeOK ==
  /\ loaded \in BOOLEAN /\ current \in CacheRecord \cup {Nothing}
  /\ refreshing \in [lookup : Lookup, now : 0..MaxClock] \cup {Nothing}
  /\ cacheFile \in CacheRecord \cup {Nothing, Corrupt}
  /\ report \in 0..MaxLookups /\ lookupID \in 0..MaxLookups
  /\ directory.phase \in {"idle", "loading", "ready", "unavailable"}

\* A lookup is answered from a data set that the server vouched for within the
\* refresh interval before it, by the clock of the machine, and never from an
\* expired one because the server could not be asked (resolveCatalog;
\* service_test.go:299, TestInvalidRefreshRejectsExpiredCache).
AnswersFresh ==
  \A k \in Lookup : lookups[k].stage = "answered" /\ lookups[k].from # Nothing =>
    LET since == lookups[k].from.validatedAt
    IN since <= lookups[k].at /\ lookups[k].at - since < RefreshInterval

\* What the service keeps in memory is what it would find after a restart: no
\* failure or order of a refresh sets them apart (refresh stores, then returns).
MemoryIsStored == loaded /\ current # Nothing => cacheFile = current

DirectoryInv == DirectoryTypeOK /\ AnswersFresh /\ MemoryIsStored

\* The matches on the screen are those of the inventory on the screen, and while
\* the screen shows that it looks them up a lookup for it is under way, however
\* inventories and sessions follow each other and answers overtake.
DirectoryOfReport ==
  /\ directory.phase = "ready" => directory.report = report
  /\ directory.phase = "loading" =>
       \E k \in Lookup : lookups[k].stage # "none" /\ lookups[k].id = lookupID

=============================================================================
