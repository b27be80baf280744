---------------------------- MODULE WindowState ----------------------------
(***************************************************************************)
(* The size and state of the window, tracked while it is open, saved when  *)
(* it closes and restored at the next start (internal/windowstate).  Every *)
(* event of the window is handled by a goroutine of its own, which asks    *)
(* for the size and for each state by calls of their own, while the user   *)
(* and the window manager go on changing the window.                       *)
(***************************************************************************)
EXTENDS Naturals, Sequences

CONSTANTS
  Size,        \* sizes of a window in its normal state, at least the minimum
  Screen,      \* the size when maximised or full screen, at least the minimum
  Icon,        \* the size when minimised, below the minimum
  Handler,     \* goroutines under way at one time
  Unsaved

ASSUME SizeAssumption == Screen \notin Size /\ Icon \notin Size \cup {Screen} /\ Size # {}
ASSUME UnsavedIsFresh == Unsaved \notin [size : Size \cup {Screen}, maximised : BOOLEAN]

VARIABLES
  window,    \* the real one: its state and its size; "closed" when it is not shown
  normal,    \* history: the sizes it had in its normal state, in any session
  tracker,   \* Tracker.state
  handlers,  \* what each goroutine is about to do, and has read
  saved,     \* the state file
  disturbed, \* history: a handler recorded what was no longer so
  right      \* history: whether it was maximised when it was closed, as far as that shows

windowVars == <<window, normal, tracker, handlers, saved, disturbed, right>>

Idle == [step |-> "idle"]
\* The arguments of RecordResize in the order they are evaluated.
Reads == <<"size", "minimised", "maximised", "fullscreen", "record">>

DefaultSize == CHOOSE s \in Size : TRUE

\* Load, Restore: the default unless the file is whole and valid.
Restored == IF saved \in [size : Size \cup {Screen}, maximised : BOOLEAN] THEN saved
            ELSE [size |-> DefaultSize, maximised |-> FALSE]

\* mainWindowOptions.
Opened(s) == [state |-> IF s.maximised THEN "maximised" ELSE "normal",
              size |-> IF s.maximised THEN Screen ELSE s.size]

WindowInit ==
  /\ saved = Unsaved
  /\ tracker = Restored /\ window = Opened(tracker)
  /\ normal = {DefaultSize}
  /\ handlers = [h \in Handler |-> Idle]
  /\ disturbed = FALSE /\ right = FALSE

\* What a goroutine that has begun to read has read may be of the past now; the
\* handler of a maximise event carries the state of its event from the start.
Overtake(hs) ==
  [h \in Handler |-> IF hs[h].step = "idle" \/ hs[h].step = "size" THEN hs[h]
                     ELSE [hs[h] EXCEPT !.stale = TRUE]]

Begin(h, step, value) ==
  [step |-> step, event |-> value, size |-> Unsaved, minimised |-> FALSE, maximised |-> FALSE,
   fullscreen |-> FALSE, stale |-> FALSE]

FreeHandlers == {h \in Handler : handlers[h].step = "idle"}
Closing == \E h \in Handler : handlers[h].step # "idle" /\ handlers[h].event = "closing"

-----------------------------------------------------------------------------
(* The window manager, and the events it raises.                            *)

ResizeWindow ==
  /\ window.state = "normal"
  /\ \E s \in Size \ {window.size}, h \in FreeHandlers :
       /\ window' = [window EXCEPT !.size = s]
       /\ normal' = normal \cup {s}
       /\ handlers' = [Overtake(handlers) EXCEPT ![h] = Begin(h, "size", "resize")]
  /\ UNCHANGED <<tracker, saved, disturbed, right>>

\* To another state: back to normal at a size of the past.  A handler of the
\* resize, and one of the maximise or unmaximise event, may start.
ChangeWindowState ==
  /\ window.state # "closed"
  /\ \E to \in {"normal", "maximised", "minimised", "fullscreen"} \ {window.state} :
       /\ window' \in [state : {to}, size : CASE to = "normal" -> normal
                                              [] to = "minimised" -> {Icon}
                                              [] OTHER -> {Screen}]
       /\ \E h \in FreeHandlers, event \in {"resize", "maximised", "unmaximised"} :
            /\ event = "maximised" => to = "maximised"
            /\ event = "unmaximised" => window.state = "maximised" /\ to # "minimised"
            /\ handlers' = [Overtake(handlers) EXCEPT ![h] =
                              Begin(h, IF event = "resize" THEN "size" ELSE "fullscreen", event)]
  /\ UNCHANGED <<normal, tracker, saved, disturbed, right>>

\* The hook of WindowClosing runs like the handler of a resize, then saves.
CloseWindow ==
  /\ window.state # "closed" /\ ~Closing
  /\ \E h \in FreeHandlers : handlers' = [handlers EXCEPT ![h] = Begin(h, "size", "closing")]
  /\ UNCHANGED <<window, normal, tracker, saved, disturbed, right>>

-----------------------------------------------------------------------------
(* The handlers.                                                            *)

NextRead(step) == Reads[(CHOOSE n \in 1..4 : Reads[n] = step) + 1]

\* One call: window.Size, IsMinimised, IsMaximised or IsFullscreen.
ReadWindow(h) ==
  LET step == handlers[h].step
      value == IF step = "size" THEN window.size ELSE window.state = step
  IN /\ step \in {"size", "minimised", "maximised", "fullscreen"}
     /\ handlers' = [handlers EXCEPT ![h] = [[@ EXCEPT !.step = NextRead(step)] EXCEPT ![step] = value]]
     /\ UNCHANGED <<window, normal, tracker, saved, disturbed, right>>

\* Mutant of Recorded: the size of a maximised window is recorded too.
RecordsMaximisedSize(h) ==
  LET r == handlers[h]
  IN IF r.event \in {"maximised", "unmaximised"}
     THEN IF r.fullscreen THEN tracker ELSE [tracker EXCEPT !.maximised = r.event = "maximised"]
     ELSE IF r.minimised \/ r.fullscreen THEN tracker
     ELSE [size |-> IF r.size = Icon THEN tracker.size ELSE r.size, maximised |-> r.maximised]

\* RecordResize and, for the events of the maximised state, RecordMaximised.
Recorded(h) ==
  LET r == handlers[h]
  IN IF r.event \in {"maximised", "unmaximised"}
     THEN IF r.fullscreen THEN tracker ELSE [tracker EXCEPT !.maximised = r.event = "maximised"]
     ELSE IF r.minimised \/ r.fullscreen THEN tracker
     ELSE [size |-> IF r.maximised \/ r.size = Icon THEN tracker.size ELSE r.size,
           maximised |-> r.maximised]

RecordWindow(h) ==
  /\ handlers[h].step = "record"
  /\ tracker' = Recorded(h)
  /\ disturbed' = (disturbed \/ handlers[h].stale)
  /\ handlers' = [handlers EXCEPT ![h] =
                    IF @.event = "closing" THEN [@ EXCEPT !.step = "save"] ELSE Idle]
  /\ UNCHANGED <<window, normal, saved, right>>

\* Snapshot and Save, which may fail, and the end of the application.
SaveWindow(h) ==
  /\ handlers[h].step = "save"
  /\ saved' \in {saved, tracker}
  /\ disturbed' = (disturbed \/ handlers[h].stale \/ saved' # tracker)
  /\ window' = [state |-> "closed", size |-> Icon]
  /\ right' = IF window.state \in {"normal", "maximised"} THEN window.state = "maximised"
              ELSE tracker.maximised
  /\ handlers' = [k \in Handler |-> Idle]
  /\ UNCHANGED <<normal, tracker>>

\* The application is killed.
KillWindow ==
  /\ window.state # "closed"
  /\ window' = [state |-> "closed", size |-> Icon]
  /\ handlers' = [k \in Handler |-> Idle]
  /\ disturbed' = TRUE
  /\ UNCHANGED <<normal, tracker, saved, right>>

RestoreWindow ==
  /\ window.state = "closed"
  /\ tracker' = Restored /\ window' = Opened(Restored)
  /\ disturbed' = (Restored.size \notin normal)
  /\ UNCHANGED <<normal, handlers, saved, right>>

WindowNext ==
  \/ ResizeWindow \/ ChangeWindowState \/ CloseWindow \/ KillWindow \/ RestoreWindow
  \/ \E h \in Handler : ReadWindow(h) \/ RecordWindow(h) \/ SaveWindow(h)

WindowSpec == WindowInit /\ [][WindowNext]_windowVars

-----------------------------------------------------------------------------
(* Properties.                                                              *)

\* The window comes back as it was: what is tracked is always a valid state (Load
\* would give up another), and unless a handler recorded what had changed since
\* it read it, the size is one the window had in its normal state
\* (state_test.go:14, TestTrackerKeepsNormalSizeOutsideNormalState) and the
\* window that was closed maximised, and only that one, is saved as maximised.
WindowComesBack ==
  /\ tracker.size # Icon
  /\ ~disturbed => /\ tracker.size \in normal
                   /\ window.state = "closed" => saved.maximised = right

=============================================================================
