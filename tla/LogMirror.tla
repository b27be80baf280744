----------------------------- MODULE LogMirror -----------------------------
(***************************************************************************)
(* The log of CTAP commands: a bounded journal in the service, and the     *)
(* window's copy of it (logs-controller.ts, features/logs), which also     *)
(* holds the failures of the runtime.  The service announces changes; the  *)
(* window then reads what comes after its cursor.  Reads and clears are    *)
(* calls of their own: the service may serve them, and the runtime answer  *)
(* them, in another order than they were made in.                          *)
(*                                                                         *)
(* The journal itself is the kit's: it numbers its records, keeps the last *)
(* few and says whether it has dropped any that a reader did not see.      *)
(***************************************************************************)
EXTENDS Naturals, Sequences, FiniteSetsExt, SequencesExt

CONSTANTS
  JournalLimit, EntryLimit, \* records the journal and the window keep
  Bytes, ByteLimit,         \* what the window stores of each record, and of all it keeps
  MaxSequence,              \* bound: records written
  MaxPending,               \* bound: calls and announcements under way
  MaxRuntimeFailures,       \* bound: failures of the runtime
  NotSelected

\* The records of the journal by their number, and the failures of the runtime.
LogRecord == ({"kit"} \X (1..MaxSequence)) \cup ({"app"} \X (1..MaxRuntimeFailures))

ASSUME LogBounds ==
  /\ JournalLimit \in Nat \ {0} /\ EntryLimit \in Nat \ {0}
  /\ MaxSequence \in Nat /\ MaxPending \in Nat /\ MaxRuntimeFailures \in Nat
  /\ Bytes \in [LogRecord -> Nat] /\ ByteLimit \in Nat

VARIABLES
  \* Service
  journal,    \* the last sequence, the last one dropped, the last one cleared
  changed,    \* the signal of Changes()
  announced,  \* EventLogsChanged on its way
  asked, answers, \* calls on their way to the service, and their answers in the order served
  \* LogController
  records, selectedId, followLive, cursor, historyTruncated,
  \* History
  failures,   \* failures of the runtime
  base,       \* what the last clear the window applied had cleared
  evicted,    \* the record that its list evicted last since then, as a sequence
  clearLost   \* the answer to a clear was lost, or came after one to a later call

journalVars == <<journal, changed, announced>>
controllerVars == <<records, selectedId, followLive, cursor, historyTruncated>>
logVars == <<journalVars, asked, answers, controllerVars, failures, base, evicted, clearLost>>

ReadCall(after) == [kind |-> "read", after |-> after]

\* The application is mounted: one read is made without an announcement.
LogInit ==
  /\ journal = [last |-> 0, dropped |-> 0, cleared |-> 0]
  /\ changed = FALSE /\ announced = 0
  /\ asked = <<ReadCall(0)>> /\ answers = <<>>
  /\ records = <<>> /\ selectedId = NotSelected /\ followLive = TRUE
  /\ cursor = 0 /\ historyTruncated = FALSE
  /\ failures = 0 /\ base = 0 /\ evicted = <<>> /\ clearLost = FALSE

Pending == Len(asked) + Len(answers) + announced
Call(c) == asked' = Append(asked, c)

-----------------------------------------------------------------------------
(* The service.                                                             *)

\* A command is logged.
Journaled ==
  /\ journal.last < MaxSequence
  /\ journal' = [journal EXCEPT !.last = @ + 1,
                                !.dropped = IF journal.last + 1 - Max({@, journal.cleared}) > JournalLimit
                                            THEN journal.last + 1 - JournalLimit ELSE @]
  /\ changed' = TRUE
  /\ UNCHANGED <<announced, asked, answers, controllerVars, failures, base, evicted, clearLost>>

\* The goroutine of ServiceStartup.
Announce ==
  /\ changed /\ Pending < MaxPending
  /\ changed' = FALSE /\ announced' = announced + 1
  /\ UNCHANGED <<journal, asked, answers, controllerVars, failures, base, evicted, clearLost>>

Batch(after) ==
  LET seen == Max({after, journal.cleared})
  IN [kind |-> "read", entries |-> [n \in 1..(journal.last - Max({seen, journal.dropped}))
                                      |-> Max({seen, journal.dropped}) + n],
      cursor |-> journal.last, truncated |-> seen < journal.dropped]

\* ReadLogs, ClearLogs.
ServeLogs(i) ==
  /\ i \in DOMAIN asked
  /\ asked' = RemoveAt(asked, i)
  /\ IF asked[i].kind = "read"
     THEN answers' = Append(answers, Batch(asked[i].after)) /\ UNCHANGED journal
     ELSE /\ journal' = [journal EXCEPT !.cleared = journal.last]
          /\ answers' = Append(answers, [kind |-> "clear", sequence |-> journal.last])
  /\ UNCHANGED <<changed, announced, controllerVars, failures, base, evicted, clearLost>>

-----------------------------------------------------------------------------
(* LogController.                                                           *)

\* What a list stores, added up from its oldest record.
TotalBytes(rs) ==
  LET Total[n \in 0..Len(rs)] == IF n = 0 THEN 0 ELSE Total[n - 1] + Bytes[rs[n]]
  IN Total[Len(rs)]

Fits(rs) == Len(rs) <= EntryLimit /\ TotalBytes(rs) <= ByteLimit

From(rs, m) == SubSeq(rs, m, Len(rs))
Newest(rs) == IF rs = <<>> THEN NotSelected ELSE Last(rs)

\* Mutant of FirstKept: the bytes of what is shifted out stay counted.
NothingUncounted(rs) ==
  IF TotalBytes(rs) > ByteLimit THEN Len(rs) + 1
  ELSE Min({m \in 1..Len(rs) + 1 : Fits(From(rs, m))})

\* The first record that stays when the oldest are shifted out until the others
\* fit: one beyond the last if it is too large by itself.
FirstKept(rs) == Min({m \in 1..Len(rs) + 1 : Fits(From(rs, m))})

\* Mutant of CommitRecords: what was selected stays so when it is evicted.
CommitsOnly(rs) ==
  LET m == FirstKept(rs)
      kept == From(rs, m)
  IN /\ records' = kept
     /\ evicted' = IF m = 1 THEN evicted ELSE <<rs[m - 1]>>
     /\ selectedId' = IF followLive THEN Newest(kept) ELSE selectedId

\* commit, whose newest record is the last: the oldest are evicted, and what is
\* selected follows the newest or stays what it was while it is there.
CommitRecords(rs) ==
  LET m == FirstKept(rs)
      kept == From(rs, m)
  IN /\ records' = kept
     /\ evicted' = IF m = 1 THEN evicted ELSE <<rs[m - 1]>>
     /\ selectedId' = IF followLive \/ (selectedId # NotSelected /\ selectedId \notin ToSet(kept))
                      THEN Newest(kept) ELSE selectedId

KitRecord(s) == <<"kit", s>>

\* Mutant of ApplyBatch: overlap is not looked for.
AppliesOverlap(batch) ==
  IF batch.cursor <= cursor THEN UNCHANGED <<controllerVars, evicted>>
  ELSE /\ IF batch.entries = <<>> THEN UNCHANGED <<records, evicted, selectedId>>
          ELSE CommitRecords(records \o [n \in DOMAIN batch.entries |-> KitRecord(batch.entries[n])])
       /\ cursor' = batch.cursor
       /\ historyTruncated' = (historyTruncated \/ batch.truncated)
       /\ UNCHANGED followLive

\* Of the entries, in their order, those after the cursor.
AfterCursor(entries) ==
  LET After[n \in 0..Len(entries)] ==
        IF n = 0 THEN <<>>
        ELSE IF entries[n] > cursor THEN Append(After[n - 1], entries[n]) ELSE After[n - 1]
  IN After[Len(entries)]

ApplyBatch(batch) ==
  IF batch.cursor <= cursor THEN UNCHANGED <<controllerVars, evicted>>
  ELSE LET new == AfterCursor(batch.entries)
       IN /\ IF new = <<>> THEN UNCHANGED <<records, evicted, selectedId>>
             ELSE CommitRecords(records \o [n \in DOMAIN new |-> KitRecord(new[n])])
          /\ cursor' = batch.cursor
          /\ historyTruncated' = (historyTruncated \/ batch.truncated)
          /\ UNCHANGED followLive

ClearRecords(sequence) ==
  /\ records' = <<>> /\ evicted' = <<>> /\ selectedId' = NotSelected /\ followLive' = TRUE
  /\ cursor' = sequence /\ historyTruncated' = FALSE

\* runtimeCall: the failure of any call is recorded here.
RecordRuntimeFailure ==
  /\ failures < MaxRuntimeFailures
  /\ failures' = failures + 1
  /\ CommitRecords(Append(records, <<"app", failures + 1>>))
  /\ UNCHANGED <<followLive, cursor, historyTruncated>>

-----------------------------------------------------------------------------
(* The window.                                                              *)

SyncLogJournal ==
  /\ announced > 0 /\ announced' = announced - 1
  /\ Call(ReadCall(cursor))
  /\ UNCHANGED <<journal, changed, answers, controllerVars, failures, base, evicted, clearLost>>

\* The button shows its dialog only if there are records; the dialog stays until
\* the answer.
ClearLogJournal ==
  /\ records # <<>> /\ Pending < MaxPending
  /\ Call([kind |-> "clear"])
  /\ UNCHANGED <<journalVars, answers, controllerVars, failures, base, evicted, clearLost>>

SelectRecord(r) ==
  /\ r \in ToSet(records)
  /\ selectedId' = r /\ followLive' = (r = Last(records))
  /\ UNCHANGED <<journalVars, asked, answers, records, cursor, historyTruncated, failures, base, evicted, clearLost>>

\* An answer arrives; after a clear the journal is read again.
LogAnswer(i) ==
  /\ i \in DOMAIN answers
  /\ answers' = RemoveAt(answers, i)
  /\ clearLost' = (clearLost \/ \E j \in 1..i-1 : answers[j].kind = "clear")
  /\ IF answers[i].kind = "read"
     THEN ApplyBatch(answers[i]) /\ UNCHANGED <<asked, base>>
     ELSE /\ ClearRecords(answers[i].sequence)
          /\ base' = answers[i].sequence
          /\ Call(ReadCall(answers[i].sequence))
  /\ UNCHANGED <<journalVars, failures>>

\* A call of this component or of another is rejected by the runtime.
LogCallFails ==
  /\ RecordRuntimeFailure
  /\ \/ \E i \in DOMAIN asked : asked' = RemoveAt(asked, i) /\ UNCHANGED <<answers, clearLost>>
     \/ \E i \in DOMAIN answers : /\ answers' = RemoveAt(answers, i) /\ UNCHANGED asked
                                  /\ clearLost' = (clearLost \/ answers[i].kind = "clear")
     \/ UNCHANGED <<asked, answers, clearLost>>
  /\ UNCHANGED <<journalVars, base>>

LogNext ==
  \/ Journaled \/ Announce \/ SyncLogJournal \/ ClearLogJournal \/ LogCallFails
  \/ \E i \in DOMAIN asked : ServeLogs(i)
  \/ \E i \in DOMAIN answers : LogAnswer(i)
  \/ \E r \in ToSet(records) : SelectRecord(r)

LogSpec == LogInit /\ [][LogNext]_logVars

-----------------------------------------------------------------------------
(* Properties.                                                              *)

LogTypeOK ==
  /\ journal \in [last : 0..MaxSequence, dropped : 0..MaxSequence, cleared : 0..MaxSequence]
  /\ changed \in BOOLEAN /\ announced \in 0..MaxPending
  /\ records \in Seq(LogRecord) /\ Fits(records) /\ cursor \in 0..MaxSequence
  /\ followLive \in BOOLEAN /\ historyTruncated \in BOOLEAN

\* The numbers of a list's records of the journal, and that they increase.
KitsOf(rs) == {rs[n][2] : n \in {m \in DOMAIN rs : rs[m][1] = "kit"}}
Increasing(rs) ==
  \A i, j \in DOMAIN rs : i < j /\ rs[i][1] = "kit" /\ rs[j][1] = "kit" => rs[i][2] < rs[j][2]

\* The window shows the end of the journal as far as it has read, in order, each
\* record once and none from before the last clear, and evicts the oldest; records
\* are missing only if the list, with the one it evicted last before it, is beyond a
\* limit in records or in bytes, or if it says that the history is cut off; and when
\* nothing is under way and no call failed it has read everything.  Reads may be
\* answered in any order: this holds until the answer to a clear is lost or overtaken
\* by that to a later call (then the cursor goes back, and records return or are
\* left out).  features/logs/state.svelte.test.ts:51, "evicts the oldest entries by
\* count and by stored bytes", and :94, "advances the cursor, ignores overlap, and
\* rejects batches from before clear".
MirrorOfJournal ==
  ~clearLost =>
    /\ Increasing(evicted \o records) /\ KitsOf(evicted \o records) \subseteq base + 1..cursor
    /\ historyTruncated \/ \E lo \in base..cursor :
         KitsOf(records) = lo + 1..cursor /\ (Fits(evicted \o records) => lo = base)
    /\ Pending = 0 /\ ~changed /\ failures = 0 => cursor = journal.last

\* What is selected is in the list, and it is the newest record as long as the
\* list is followed, whatever is evicted (commit; state.svelte.test.ts, "keeps an
\* explicit selection stable when new records arrive").  With it go the types.
LogSelection ==
  /\ LogTypeOK
  /\ selectedId # NotSelected => selectedId \in ToSet(records)
  /\ followLive => selectedId = Newest(records)

\* The mirror agrees with the journal, and the selection with the mirror: a clear or
\* an overlapping read disturbs neither (logs-controller.ts, LogController).
LogInv == MirrorOfJournal /\ LogSelection

=============================================================================
