-------------------------- MODULE AppServicesProofs --------------------------
(***************************************************************************)
(* Theorems about the parts that MCAppServices checks side by side, each   *)
(* for itself and for any values of its constants: the state of the window *)
(* that is stored, the copy of the log, the Lab, the directory of passkeys *)
(* and the search in its data set.                                         *)
(***************************************************************************)
EXTENDS MCAppServices, WellFoundedInduction, FiniteSetTheorems, TLAPS

-----------------------------------------------------------------------------
(* The window: what is stored of it comes back.                             *)

OpenState == {"normal", "maximised", "minimised", "fullscreen"}
HandlerStep == {"size", "minimised", "maximised", "fullscreen", "record", "save"}
Reader == [step : HandlerStep, event : {"resize", "maximised", "unmaximised", "closing"},
           size : Size \cup {Screen, Icon, Unsaved}, minimised : BOOLEAN, maximised : BOOLEAN,
           fullscreen : BOOLEAN, stale : BOOLEAN]

WindowTypes ==
  /\ window \in [state : OpenState \cup {"closed"}, size : Size \cup {Screen, Icon}]
  /\ normal \in SUBSET Size
  /\ tracker \in [size : Size \cup {Screen, Unsaved}, maximised : BOOLEAN] /\ tracker.size # Icon
  /\ handlers \in [Handler -> [step : {"idle"}] \cup Reader]
  /\ disturbed \in BOOLEAN /\ right \in BOOLEAN

\* A window that is closed has no handlers.
ClosedIsIdle == window.state = "closed" => \A h \in Handler : handlers[h].step = "idle"

\* What a handler has read of a window that did not change since is what it is now.
ReadIsNow(r) ==
  /\ r.event \in {"resize", "closing"} =>
       /\ r.step \in {"minimised", "maximised", "fullscreen", "record"} => r.size = window.size
       /\ r.step \in {"maximised", "fullscreen", "record"} => r.minimised = (window.state = "minimised")
       /\ r.step \in {"fullscreen", "record"} => r.maximised = (window.state = "maximised")
  /\ r.event \in {"maximised", "unmaximised"} =>
       /\ r.step \in {"fullscreen", "record"}
       /\ (r.event = "maximised") = (window.state = "maximised")
  /\ r.step = "record" => r.fullscreen = (window.state = "fullscreen")
ReadersCurrent ==
  \A h \in Handler : handlers[h].step # "idle" /\ ~handlers[h].stale => ReadIsNow(handlers[h])

\* As long as nothing was recorded late.
TrackedCurrent ==
  ~disturbed =>
    /\ tracker.size \in normal
    /\ window.state = "normal" => window.size \in normal
    /\ \A h \in Handler :
         handlers[h].step = "save" /\ ~handlers[h].stale /\ window.state \in {"normal", "maximised"} =>
           tracker.maximised = (window.state = "maximised")
    /\ window.state = "closed" => saved.maximised = right

TrackerInv == WindowTypes /\ ClosedIsIdle /\ ReadersCurrent /\ TrackedCurrent

\* The calls of a handler in their order.
LEMMA ReadOrder ==
  /\ NextRead("size") = "minimised" /\ NextRead("minimised") = "maximised"
  /\ NextRead("maximised") = "fullscreen" /\ NextRead("fullscreen") = "record"
<1>1. /\ Reads[1] = "size" /\ Reads[2] = "minimised" /\ Reads[3] = "maximised"
      /\ Reads[4] = "fullscreen" /\ Reads[5] = "record"
  BY DEF Reads
<1> DEFINE at(step) == CHOOSE n \in 1..4 : Reads[n] = step
<1>2. \A n \in 1..4 : n = 1 \/ n = 2 \/ n = 3 \/ n = 4
  OBVIOUS
<1>3. at("size") = 1 /\ at("minimised") = 2 /\ at("maximised") = 3 /\ at("fullscreen") = 4
  <2>1. \A step : (\E n \in 1..4 : Reads[n] = step) => at(step) \in 1..4 /\ Reads[at(step)] = step
    OBVIOUS
  <2>2. \A n \in 1..4 : Reads[n] \in {"size", "minimised", "maximised", "fullscreen"}
    BY <1>1, <1>2
  <2>. QED  BY <1>1, <1>2, <2>1
<1> HIDE DEF at
<1>4. \A step : NextRead(step) = Reads[at(step) + 1]
  BY DEF NextRead, at
<1>. QED  BY <1>1, <1>3, <1>4

\* A restored state is valid: of a file that was saved, or the default.
LEMMA RestoredValid ==
  /\ Restored \in [size : Size \cup {Screen}, maximised : BOOLEAN] /\ Restored.size # Icon
  /\ Restored \in [size : Size \cup {Screen, Unsaved}, maximised : BOOLEAN]
  /\ Opened(Restored) \in [state : {"normal", "maximised"}, size : Size \cup {Screen}]
  /\ Opened(Restored).state = "normal" => Opened(Restored).size = Restored.size
<1>1. DefaultSize \in Size
  BY SizeAssumption DEF DefaultSize
<1>2. Restored \in [size : Size \cup {Screen}, maximised : BOOLEAN]
  BY <1>1 DEF Restored
<1>3. Restored.size # Icon /\ Restored \in [size : Size \cup {Screen, Unsaved}, maximised : BOOLEAN]
  BY <1>2, SizeAssumption
<1>4. /\ Opened(Restored) \in [state : {"normal", "maximised"}, size : Size \cup {Screen}]
      /\ Opened(Restored).state = "normal" => Opened(Restored).size = Restored.size
  BY <1>2 DEF Opened
<1>. QED  BY <1>2, <1>3, <1>4

\* At the first start the window has its default size.
LEMMA TrackerInit == ASSUME WindowInit PROVE TrackerInv
<1>1. DefaultSize \in Size
  BY SizeAssumption DEF DefaultSize
<1>2. Restored = [size |-> DefaultSize, maximised |-> FALSE]
  BY UnsavedIsFresh DEF WindowInit, Restored
<1>3. /\ tracker = Restored /\ window = [state |-> "normal", size |-> DefaultSize]
      /\ normal = {DefaultSize} /\ disturbed = FALSE /\ right = FALSE
      /\ handlers = [h \in Handler |-> Idle]
  BY <1>2 DEF WindowInit, Opened
<1>4. tracker.size = DefaultSize /\ window.state = "normal" /\ window.size = DefaultSize
  BY <1>2, <1>3
<1>5. \A h \in Handler : handlers[h].step = "idle"
  BY <1>3 DEF Idle
<1>6. WindowTypes
  BY <1>1, <1>3, <1>4, RestoredValid DEF WindowTypes, OpenState, Idle
<1>. QED  BY <1>3, <1>4, <1>5, <1>6 DEF TrackerInv, ClosedIsIdle, ReadersCurrent, TrackedCurrent

\* The window changes: handlers that had read are overtaken, and one starts.
LEMMA Overtaken ==
  ASSUME TrackerInv, NEW h \in Handler, handlers[h].step = "idle",
         NEW step \in {"size", "fullscreen"}, NEW event \in {"resize", "maximised", "unmaximised"},
         handlers' = [Overtake(handlers) EXCEPT ![h] = Begin(h, step, event)]
  PROVE  /\ handlers' \in [Handler -> [step : {"idle"}] \cup Reader]
         /\ handlers'[h] = Begin(h, step, event)
         /\ \A k \in Handler \ {h} :
              /\ handlers'[k].step = handlers[k].step
              /\ handlers[k].step \in {"idle", "size"} => handlers'[k] = handlers[k]
              /\ handlers[k].step \notin {"idle", "size"} => handlers'[k].stale = TRUE
<1>1. Overtake(handlers) \in [Handler -> [step : {"idle"}] \cup Reader]
  <2>1. ASSUME NEW k \in Handler
        PROVE  (IF handlers[k].step = "idle" \/ handlers[k].step = "size" THEN handlers[k]
                ELSE [handlers[k] EXCEPT !.stale = TRUE]) \in [step : {"idle"}] \cup Reader
    <3>1. handlers[k] \in [step : {"idle"}] \cup Reader
      BY DEF TrackerInv, WindowTypes
    <3>2. handlers[k] \in Reader => [handlers[k] EXCEPT !.stale = TRUE] \in Reader
      BY DEF Reader
    <3>. QED  BY <3>1, <3>2
  <2>. QED  BY <2>1 DEF Overtake
<1>2. Begin(h, step, event) \in Reader
  BY DEF Begin, Reader, HandlerStep
<1>3. /\ handlers' \in [Handler -> [step : {"idle"}] \cup Reader]
      /\ handlers'[h] = Begin(h, step, event)
      /\ \A k \in Handler \ {h} : handlers'[k] = Overtake(handlers)[k]
  BY <1>1, <1>2
<1>4. ASSUME NEW k \in Handler
      PROVE  /\ Overtake(handlers)[k].step = handlers[k].step
             /\ handlers[k].step \in {"idle", "size"} => Overtake(handlers)[k] = handlers[k]
             /\ handlers[k].step \notin {"idle", "size"} => Overtake(handlers)[k].stale = TRUE
  <2>1. handlers[k] \in [step : {"idle"}] \cup Reader
    BY DEF TrackerInv, WindowTypes
  <2>2. CASE handlers[k].step \in {"idle", "size"}
    BY <2>2 DEF Overtake
  <2>3. CASE handlers[k].step \notin {"idle", "size"}
    <3>1. handlers[k] \in Reader
      BY <2>1, <2>3
    <3>2. Overtake(handlers)[k] = [handlers[k] EXCEPT !.stale = TRUE]
      BY <2>3 DEF Overtake
    <3>. QED  BY <2>3, <3>1, <3>2 DEF Reader
  <2>. QED  BY <2>2, <2>3
<1>. QED  BY <1>3, <1>4

\* Of a window that changed, only what is read later is known.
LEMMA OvertakenKnow ==
  ASSUME TrackerInv, NEW h \in Handler, handlers[h].step = "idle",
         NEW step \in {"size", "fullscreen"}, NEW event \in {"resize", "maximised", "unmaximised"},
         handlers' = [Overtake(handlers) EXCEPT ![h] = Begin(h, step, event)],
         event = "resize" <=> step = "size",
         step = "fullscreen" => (event = "maximised") = (window'.state = "maximised"),
         window'.state # "closed"
  PROVE  ClosedIsIdle' /\ ReadersCurrent'
<1>1. ReadIsNow(Begin(h, step, event))'
  BY DEF Begin, ReadIsNow
<1>2. ASSUME NEW k \in Handler \ {h}, handlers'[k].step # "idle", ~handlers'[k].stale
      PROVE  ReadIsNow(handlers[k])' /\ handlers'[k] = handlers[k]
  <2>1. handlers'[k] = handlers[k] /\ handlers[k].step = "size"
    BY <1>2, Overtaken
  <2>2. handlers[k].event \notin {"maximised", "unmaximised"}
    BY <1>2, <2>1 DEF TrackerInv, ReadersCurrent, ReadIsNow
  <2>. QED  BY <2>1, <2>2 DEF ReadIsNow
<1>3. handlers'[h] = Begin(h, step, event)
  BY Overtaken
<1>. QED  BY <1>1, <1>2, <1>3 DEF ClosedIsIdle, ReadersCurrent, ReadIsNow

\* The window is changed by the user or the window manager.
LEMMA WindowChanges ==
  ASSUME TrackerInv, ResizeWindow \/ ChangeWindowState \/ CloseWindow
  PROVE  TrackerInv'
<1>1. CASE ResizeWindow
  <2>1. PICK s \in Size, h \in FreeHandlers :
          /\ window' = [window EXCEPT !.size = s] /\ normal' = normal \cup {s}
          /\ handlers' = [Overtake(handlers) EXCEPT ![h] = Begin(h, "size", "resize")]
    BY <1>1 DEF ResizeWindow
  <2>2. h \in Handler /\ handlers[h].step = "idle"
    BY DEF FreeHandlers
  <2>3. /\ window' \in [state : OpenState \cup {"closed"}, size : Size \cup {Screen, Icon}]
        /\ window'.state = "normal" /\ window'.size = s /\ window.state = "normal"
        /\ UNCHANGED <<tracker, saved, disturbed, right>>
    BY <1>1, <2>1 DEF ResizeWindow, TrackerInv, WindowTypes
  <2>4. ClosedIsIdle' /\ ReadersCurrent'
    BY <2>1, <2>2, <2>3, OvertakenKnow
  <2>5. WindowTypes'
    BY <2>1, <2>2, <2>3, Overtaken DEF TrackerInv, WindowTypes
  <2>6. TrackedCurrent'
    <3>1. ASSUME NEW k \in Handler, handlers'[k].step = "save"
          PROVE  handlers'[k].stale = TRUE
      BY <2>1, <2>2, <3>1, Overtaken DEF Begin
    <3>. QED  BY <2>1, <2>3, <3>1 DEF TrackerInv, TrackedCurrent
  <2>. QED  BY <2>4, <2>5, <2>6 DEF TrackerInv
<1>2. CASE ChangeWindowState
  <2>1. PICK to \in {"normal", "maximised", "minimised", "fullscreen"} \ {window.state},
             h \in FreeHandlers, event \in {"resize", "maximised", "unmaximised"} :
          /\ window' \in [state : {to}, size : CASE to = "normal" -> normal
                                                 [] to = "minimised" -> {Icon}
                                                 [] OTHER -> {Screen}]
          /\ event = "maximised" => to = "maximised"
          /\ event = "unmaximised" => window.state = "maximised" /\ to # "minimised"
          /\ handlers' = [Overtake(handlers) EXCEPT ![h] =
                            Begin(h, IF event = "resize" THEN "size" ELSE "fullscreen", event)]
    BY <1>2 DEF ChangeWindowState
  <2>2. h \in Handler /\ handlers[h].step = "idle"
    BY DEF FreeHandlers
  <2>3. /\ window' \in [state : OpenState \cup {"closed"}, size : Size \cup {Screen, Icon}]
        /\ window'.state = to /\ (to = "normal" => window'.size \in normal) /\ to # window.state
        /\ to # "closed" /\ window.state # "closed"
        /\ UNCHANGED <<normal, tracker, saved, disturbed, right>>
    BY <1>2, <2>1 DEF ChangeWindowState, TrackerInv, WindowTypes, OpenState
  <2>4. PICK step \in {"size", "fullscreen"} : step = IF event = "resize" THEN "size" ELSE "fullscreen"
    OBVIOUS
  <2>5. /\ handlers' = [Overtake(handlers) EXCEPT ![h] = Begin(h, step, event)]
        /\ event = "resize" <=> step = "size"
        /\ step = "fullscreen" => (event = "maximised") = (window'.state = "maximised")
    BY <2>1, <2>3, <2>4
  <2>6. ClosedIsIdle' /\ ReadersCurrent'
    BY <2>2, <2>3, <2>5, OvertakenKnow
  <2>7. WindowTypes'
    BY <2>2, <2>3, <2>5, Overtaken DEF TrackerInv, WindowTypes
  <2>8. TrackedCurrent'
    <3>1. ASSUME NEW k \in Handler, handlers'[k].step = "save"
          PROVE  handlers'[k].stale = TRUE
      BY <2>2, <2>5, <3>1, Overtaken DEF Begin
    <3>. QED  BY <2>3, <3>1 DEF TrackerInv, TrackedCurrent
  <2>. QED  BY <2>6, <2>7, <2>8 DEF TrackerInv
<1>3. CASE CloseWindow
  <2>1. PICK h \in FreeHandlers : handlers' = [handlers EXCEPT ![h] = Begin(h, "size", "closing")]
    BY <1>3 DEF CloseWindow
  <2>2. h \in Handler /\ window.state # "closed"
        /\ UNCHANGED <<window, normal, tracker, saved, disturbed, right>>
    BY <1>3 DEF CloseWindow, FreeHandlers
  <2>3. Begin(h, "size", "closing") \in Reader
    BY DEF Begin, Reader, HandlerStep
  <2>4. handlers'[h] = Begin(h, "size", "closing") /\ \A k \in Handler \ {h} : handlers'[k] = handlers[k]
    BY <2>1, <2>2 DEF TrackerInv, WindowTypes
  <2>5. WindowTypes'
    BY <2>1, <2>2, <2>3 DEF TrackerInv, WindowTypes
  <2>6. ReadIsNow(Begin(h, "size", "closing"))'
    BY DEF Begin, ReadIsNow
  <2>7. ReadersCurrent'
    BY <2>2, <2>4, <2>6 DEF TrackerInv, ReadersCurrent, ReadIsNow
  <2>8. TrackedCurrent'
    BY <2>2, <2>4 DEF TrackerInv, TrackedCurrent, Begin
  <2>. QED  BY <2>2, <2>5, <2>7, <2>8 DEF TrackerInv, ClosedIsIdle
<1>. QED  BY <1>1, <1>2, <1>3

\* A handler reads one thing more of the window.
LEMMA HandlerReads ==
  ASSUME TrackerInv, NEW h \in Handler, ReadWindow(h)
  PROVE  TrackerInv'
<1> DEFINE r == handlers[h]
<1>1. /\ r.step \in {"size", "minimised", "maximised", "fullscreen"}
      /\ UNCHANGED <<window, normal, tracker, saved, disturbed, right>>
  BY DEF ReadWindow
<1>2. r \in Reader
  BY <1>1 DEF TrackerInv, WindowTypes
<1>3. window.state # "closed"
  BY <1>1 DEF TrackerInv, ClosedIsIdle
<1>4. window.size \in Size \cup {Screen, Icon, Unsaved} /\ window.state \in OpenState \cup {"closed"}
  BY DEF TrackerInv, WindowTypes
<1>5. ~r.stale => ReadIsNow(r)
  BY <1>1 DEF TrackerInv, ReadersCurrent
<1> DEFINE value == IF r.step = "size" THEN window.size ELSE window.state = r.step
           read == [[r EXCEPT !.step = NextRead(r.step)] EXCEPT ![r.step] = value]
<1>6. handlers' = [handlers EXCEPT ![h] = read]
  BY DEF ReadWindow
<1>7. read \in Reader /\ read.step \notin {"idle", "save"} /\ (~read.stale => ReadIsNow(read))
  <2>1. CASE r.step = "size"
    <3>1. read = [[r EXCEPT !.step = "minimised"] EXCEPT !["size"] = window.size]
      BY <2>1, ReadOrder
    <3>2. read = [r EXCEPT !.step = "minimised", !.size = window.size]
      BY <1>2, <3>1 DEF Reader
    <3> HIDE DEF read, r
    <3>3. /\ read \in Reader /\ read.step = "minimised" /\ read.size = window.size
          /\ read.stale = r.stale /\ read.event = r.event
      BY <1>2, <1>4, <3>2 DEF Reader, HandlerStep
    <3>. QED  BY <1>5, <2>1, <3>3 DEF ReadIsNow
  <2>2. CASE r.step = "minimised"
    <3>1. read = [[r EXCEPT !.step = "maximised"] EXCEPT !["minimised"] = (window.state = "minimised")]
      BY <2>2, ReadOrder
    <3>2. read = [r EXCEPT !.step = "maximised", !.minimised = (window.state = "minimised")]
      BY <1>2, <3>1 DEF Reader
    <3> HIDE DEF read, r
    <3>3. /\ read \in Reader /\ read.step = "maximised" /\ read.minimised = (window.state = "minimised")
          /\ read.stale = r.stale /\ read.event = r.event /\ read.size = r.size
      BY <1>2, <1>4, <3>2 DEF Reader, HandlerStep
    <3>. QED  BY <1>5, <2>2, <3>3 DEF ReadIsNow
  <2>3. CASE r.step = "maximised"
    <3>1. read = [[r EXCEPT !.step = "fullscreen"] EXCEPT !["maximised"] = (window.state = "maximised")]
      BY <2>3, ReadOrder
    <3>2. read = [r EXCEPT !.step = "fullscreen", !.maximised = (window.state = "maximised")]
      BY <1>2, <3>1 DEF Reader
    <3> HIDE DEF read, r
    <3>3. /\ read \in Reader /\ read.step = "fullscreen" /\ read.maximised = (window.state = "maximised")
          /\ read.stale = r.stale /\ read.event = r.event /\ read.size = r.size
          /\ read.minimised = r.minimised
      BY <1>2, <1>4, <3>2 DEF Reader, HandlerStep
    <3>. QED  BY <1>5, <2>3, <3>3 DEF ReadIsNow
  <2>4. CASE r.step = "fullscreen"
    <3>1. read = [[r EXCEPT !.step = "record"] EXCEPT !["fullscreen"] = (window.state = "fullscreen")]
      BY <2>4, ReadOrder
    <3>2. read = [r EXCEPT !.step = "record", !.fullscreen = (window.state = "fullscreen")]
      BY <1>2, <3>1 DEF Reader
    <3> HIDE DEF read, r
    <3>3. /\ read \in Reader /\ read.step = "record" /\ read.fullscreen = (window.state = "fullscreen")
          /\ read.stale = r.stale /\ read.event = r.event /\ read.size = r.size
          /\ read.minimised = r.minimised /\ read.maximised = r.maximised
      BY <1>2, <1>4, <3>2 DEF Reader, HandlerStep
    <3>. QED  BY <1>5, <2>4, <3>3 DEF ReadIsNow
  <2>. QED  BY <1>1, <2>1, <2>2, <2>3, <2>4
<1> HIDE DEF read, r
<1>8. handlers'[h] = read /\ \A k \in Handler \ {h} : handlers'[k] = handlers[k]
  BY <1>6 DEF TrackerInv, WindowTypes
<1>9. WindowTypes'
  BY <1>1, <1>6, <1>7 DEF TrackerInv, WindowTypes
<1>10. ReadersCurrent'
  BY <1>1, <1>7, <1>8 DEF TrackerInv, ReadersCurrent, ReadIsNow
<1>11. TrackedCurrent'
  BY <1>1, <1>7, <1>8 DEF TrackerInv, TrackedCurrent
<1>. QED  BY <1>1, <1>3, <1>9, <1>10, <1>11 DEF TrackerInv, ClosedIsIdle

\* A handler records what it has read.
LEMMA HandlerRecords ==
  ASSUME TrackerInv, NEW h \in Handler, RecordWindow(h)
  PROVE  TrackerInv'
<1> DEFINE r == handlers[h]
           next == IF r.event = "closing" THEN [r EXCEPT !.step = "save"] ELSE Idle
<1>1. /\ r.step = "record" /\ tracker' = Recorded(h) /\ disturbed' = (disturbed \/ r.stale)
      /\ UNCHANGED <<window, normal, saved, right>>
  BY DEF RecordWindow
<1>2. handlers' = [handlers EXCEPT ![h] = next]
  BY DEF RecordWindow
<1>3. r \in Reader
  BY <1>1 DEF TrackerInv, WindowTypes
<1>4. window.state # "closed" /\ window.state \in OpenState \cup {"closed"}
  BY <1>1 DEF TrackerInv, ClosedIsIdle, WindowTypes
<1>5. ~r.stale => ReadIsNow(r)
  BY <1>1 DEF TrackerInv, ReadersCurrent
<1>6. /\ next \in [step : {"idle"}] \cup Reader
      /\ next.step \in {"idle", "save"}
      /\ next.step = "save" => next.stale = r.stale /\ next.event = "closing"
  BY <1>3 DEF Reader, HandlerStep, Idle
<1>7. /\ tracker' \in [size : Size \cup {Screen, Unsaved}, maximised : BOOLEAN] /\ tracker'.size # Icon
  <2>1. tracker \in [size : Size \cup {Screen, Unsaved}, maximised : BOOLEAN] /\ tracker.size # Icon
    BY DEF TrackerInv, WindowTypes
  <2> HIDE DEF r
  <2>2. CASE r.event \in {"maximised", "unmaximised"}
    <3>1. tracker' = IF r.fullscreen THEN tracker ELSE [tracker EXCEPT !.maximised = (r.event = "maximised")]
      BY <1>1, <2>2 DEF Recorded, r
    <3>. QED  BY <2>1, <3>1
  <2>3. CASE r.event \notin {"maximised", "unmaximised"}
    <3>1. tracker' = IF r.minimised \/ r.fullscreen THEN tracker
                     ELSE [size |-> IF r.maximised \/ r.size = Icon THEN tracker.size ELSE r.size,
                           maximised |-> r.maximised]
      BY <1>1, <2>3 DEF Recorded, r
    <3>2. r.size \in Size \cup {Screen, Icon, Unsaved} /\ r.maximised \in BOOLEAN
      BY <1>3 DEF Reader
    <3>. QED  BY <2>1, <3>1, <3>2
  <2>. QED  BY <2>2, <2>3
<1>8. ASSUME ~disturbed'
      PROVE  /\ tracker'.size \in normal
             /\ window.state \in {"normal", "maximised"} =>
                  tracker'.maximised = (window.state = "maximised")
  <2>1. tracker.size \in normal /\ (window.state = "normal" => window.size \in normal)
    BY <1>1, <1>8 DEF TrackerInv, TrackedCurrent
  <2>2. tracker \in [size : Size \cup {Screen, Unsaved}, maximised : BOOLEAN]
    BY DEF TrackerInv, WindowTypes
  <2>3. ReadIsNow(r)
    BY <1>1, <1>5, <1>8
  <2> HIDE DEF r
  <2>4. CASE r.event \in {"maximised", "unmaximised"}
    <3>1. tracker' = IF r.fullscreen THEN tracker ELSE [tracker EXCEPT !.maximised = (r.event = "maximised")]
      BY <1>1, <2>4 DEF Recorded, r
    <3>2. /\ (r.event = "maximised") = (window.state = "maximised")
          /\ r.fullscreen = (window.state = "fullscreen")
      BY <1>1, <2>3, <2>4 DEF ReadIsNow
    <3>. QED  BY <2>1, <2>2, <3>1, <3>2
  <2>5. CASE r.event \in {"resize", "closing"}
    <3>1. tracker' = IF r.minimised \/ r.fullscreen THEN tracker
                     ELSE [size |-> IF r.maximised \/ r.size = Icon THEN tracker.size ELSE r.size,
                           maximised |-> r.maximised]
      BY <1>1, <2>5 DEF Recorded, r
    <3>2. /\ r.size = window.size /\ r.minimised = (window.state = "minimised")
          /\ r.maximised = (window.state = "maximised") /\ r.fullscreen = (window.state = "fullscreen")
      BY <1>1, <2>3, <2>5 DEF ReadIsNow
    <3>. QED  BY <1>4, <2>1, <3>1, <3>2 DEF OpenState
  <2>. QED  BY <1>3, <2>4, <2>5 DEF Reader
<1> HIDE DEF next, r
<1>9. handlers'[h] = next /\ \A k \in Handler \ {h} : handlers'[k] = handlers[k]
  BY <1>2 DEF TrackerInv, WindowTypes
<1>10. disturbed' \in BOOLEAN
  BY <1>1, <1>3 DEF TrackerInv, WindowTypes, Reader
<1>11. WindowTypes'
  BY <1>1, <1>2, <1>6, <1>7, <1>10 DEF TrackerInv, WindowTypes
<1>12. handlers'[h].step = "save" => ReadIsNow(handlers[h])'
  BY <1>6, <1>9 DEF ReadIsNow
<1>13. ReadersCurrent'
  BY <1>1, <1>6, <1>9, <1>12 DEF TrackerInv, ReadersCurrent, ReadIsNow
<1>14. TrackedCurrent'
  BY <1>1, <1>4, <1>8 DEF TrackerInv, TrackedCurrent
<1>. QED  BY <1>1, <1>4, <1>11, <1>13, <1>14 DEF TrackerInv, ClosedIsIdle

\* The window is closed, by its last handler or by force, and opened again.
LEMMA WindowCloses ==
  ASSUME TrackerInv, KillWindow \/ RestoreWindow \/ \E h \in Handler : SaveWindow(h)
  PROVE  TrackerInv'
<1>1. CASE KillWindow
  <2>1. /\ window' = [state |-> "closed", size |-> Icon] /\ handlers' = [k \in Handler |-> Idle]
        /\ disturbed' = TRUE /\ UNCHANGED <<normal, tracker, saved, right>>
    BY <1>1 DEF KillWindow
  <2>2. \A k \in Handler : handlers'[k].step = "idle"
    BY <2>1 DEF Idle
  <2>3. WindowTypes'
    BY <2>1 DEF TrackerInv, WindowTypes, Idle
  <2>. QED  BY <2>1, <2>2, <2>3 DEF TrackerInv, ClosedIsIdle, ReadersCurrent, TrackedCurrent
<1>2. CASE RestoreWindow
  <2>1. /\ window.state = "closed" /\ tracker' = Restored /\ window' = Opened(Restored)
        /\ disturbed' = (Restored.size \notin normal) /\ UNCHANGED <<normal, handlers, saved, right>>
    BY <1>2 DEF RestoreWindow
  <2>2. \A k \in Handler : handlers'[k].step = "idle"
    BY <2>1 DEF TrackerInv, ClosedIsIdle
  <2>3. WindowTypes'
    BY <2>1, RestoredValid DEF TrackerInv, WindowTypes, OpenState
  <2>4. TrackedCurrent'
    BY <2>1, <2>2, RestoredValid DEF TrackedCurrent
  <2>. QED  BY <2>2, <2>3, <2>4 DEF TrackerInv, ClosedIsIdle, ReadersCurrent
<1>3. CASE \E h \in Handler : SaveWindow(h)
  <2>1. PICK h \in Handler :
          /\ handlers[h].step = "save" /\ saved' \in {saved, tracker}
          /\ disturbed' = (disturbed \/ handlers[h].stale \/ saved' # tracker)
          /\ window' = [state |-> "closed", size |-> Icon] /\ handlers' = [k \in Handler |-> Idle]
          /\ right' = IF window.state \in {"normal", "maximised"} THEN window.state = "maximised"
                      ELSE tracker.maximised
          /\ UNCHANGED <<normal, tracker>>
    BY <1>3 DEF SaveWindow
  <2>2. \A k \in Handler : handlers'[k].step = "idle"
    BY <2>1 DEF Idle
  <2>3. handlers[h] \in Reader /\ disturbed \in BOOLEAN /\ tracker.maximised \in BOOLEAN
    BY <2>1 DEF TrackerInv, WindowTypes
  <2>4. disturbed' \in BOOLEAN /\ right' \in BOOLEAN
    BY <2>1, <2>3 DEF Reader
  <2>5. WindowTypes'
    BY <2>1, <2>4 DEF TrackerInv, WindowTypes, Idle
  <2>6. ASSUME ~disturbed'
        PROVE  tracker'.size \in normal' /\ saved'.maximised = right'
    <3>1. ~disturbed /\ ~handlers[h].stale /\ saved' = tracker
      BY <2>1, <2>6
    <3>2. /\ tracker.size \in normal
          /\ window.state \in {"normal", "maximised"} => tracker.maximised = (window.state = "maximised")
      BY <2>1, <3>1 DEF TrackerInv, TrackedCurrent
    <3>. QED  BY <2>1, <3>1, <3>2
  <2>. QED  BY <2>1, <2>2, <2>5, <2>6 DEF TrackerInv, ClosedIsIdle, ReadersCurrent, TrackedCurrent
<1>. QED  BY <1>1, <1>2, <1>3

\* Every step of the window and its handlers.
LEMMA TrackerStep == TrackerInv /\ [WindowNext]_windowVars => TrackerInv'
<1>1. ASSUME TrackerInv, WindowNext
      PROVE  TrackerInv'
  BY <1>1, WindowChanges, HandlerReads, HandlerRecords, WindowCloses DEF WindowNext
<1>2. ASSUME TrackerInv, UNCHANGED windowVars
      PROVE  TrackerInv'
  BY <1>2 DEF TrackerInv, WindowTypes, ClosedIsIdle, ReadersCurrent, ReadIsNow, TrackedCurrent, windowVars
<1>. QED  BY <1>1, <1>2

\* For any sizes, any number of handlers and of sessions: the window comes back as it was.
THEOREM WindowRestored == WindowSpec => []WindowComesBack
<1>1. TrackerInv => WindowComesBack
  BY DEF TrackerInv, WindowTypes, TrackedCurrent, WindowComesBack
<1>. QED  BY <1>1, TrackerInit, TrackerStep, PTL DEF WindowSpec

-----------------------------------------------------------------------------
(* The log: the window shows what the journal has.                          *)

Sequence == 0..MaxSequence
Asked == [kind : {"read"}, after : Sequence] \cup [kind : {"clear"}]
Answer ==
  [kind : {"read"}, entries : Seq(Nat), cursor : Sequence, truncated : BOOLEAN]
  \cup [kind : {"clear"}, sequence : Sequence]

\* Up to where an answer tells of the journal, and from where a read does.
Upto(a) == IF a.kind = "read" THEN a.cursor ELSE a.sequence
Start(a) == a.cursor - Len(a.entries)

LogTypes ==
  /\ journal \in [last : Sequence, dropped : Sequence, cleared : Sequence]
  /\ changed \in BOOLEAN /\ announced \in 0..MaxPending
  /\ asked \in Seq(Asked) /\ answers \in Seq(Answer)
  /\ records \in Seq(LogRecord) /\ Fits(records) /\ evicted \in Seq(LogRecord)
  /\ cursor \in Sequence /\ base \in Sequence
  /\ followLive \in BOOLEAN /\ historyTruncated \in BOOLEAN /\ clearLost \in BOOLEAN
  /\ failures \in 0..MaxRuntimeFailures

\* Nothing is ahead of the journal, and answers are in the order served.
JournalAhead ==
  /\ journal.dropped <= journal.last /\ journal.cleared <= journal.last
  /\ cursor <= journal.last
  /\ \A i \in DOMAIN asked : asked[i].kind = "read" => asked[i].after <= journal.last
  /\ \A i \in DOMAIN answers : Upto(answers[i]) <= journal.last
  /\ \A i, j \in DOMAIN answers : i < j => Upto(answers[i]) <= Upto(answers[j])

\* A read answers with all that was logged from its start.
EntriesFollow ==
  \A i \in DOMAIN answers : answers[i].kind = "read" =>
    /\ Start(answers[i]) \in Sequence
    /\ \A n \in 1..Len(answers[i].entries) : answers[i].entries[n] = Start(answers[i]) + n

\* A clear that the window does not know of yet is in an answer.
ClearKnown(s, n) == s <= cursor \/ \E i \in 1..n - 1 : answers[i].kind = "clear" /\ s <= answers[i].sequence

ClearsAhead ==
  /\ base <= cursor
  /\ \A i \in DOMAIN asked : asked[i].kind = "read" => asked[i].after <= cursor
  /\ \A i \in DOMAIN answers : answers[i].kind = "clear" => cursor <= answers[i].sequence
  /\ ClearKnown(journal.cleared, Len(answers) + 1)
  /\ \A i \in DOMAIN answers :
       answers[i].kind = "read" /\ ~answers[i].truncated => ClearKnown(Start(answers[i]), i)

\* The records shown, as MirrorOfJournal has it.
Shown ==
  /\ Increasing(evicted \o records) /\ KitsOf(evicted \o records) \subseteq base + 1..cursor
  /\ historyTruncated \/ \E lo \in base..cursor :
       KitsOf(records) = lo + 1..cursor /\ (Fits(evicted \o records) => lo = base)

\* What the window has not read yet it will ask for, unless a call fails.
WillRead ==
  \/ cursor = journal.last \/ changed \/ announced > 0 \/ asked # <<>>
  \/ \E i \in DOMAIN answers :
       answers[i].kind = "clear" \/ answers[i].cursor = journal.last

SelectionShown ==
  /\ selectedId # NotSelected => selectedId \in ToSet(records)
  /\ followLive => selectedId = Newest(records)

MirrorInv ==
  /\ LogTypes /\ JournalAhead /\ EntriesFollow /\ SelectionShown
  /\ ~clearLost => ClearsAhead /\ Shown
  /\ failures = 0 => WillRead

-----------------------------------------------------------------------------
(* Numbers and sequences.                                                   *)

\* A set of natural numbers has a least one.
LEMMA NatMin ==
  ASSUME NEW T \in SUBSET Nat, T # {}
  PROVE  \E x \in T : \A y \in T : x <= y
<1> DEFINE R == {p \in Nat \X Nat : p[1] < p[2]}
<1>1. IsWellFoundedOn(R, Nat)
  BY NatLessThanWellFounded DEF OpToRel
<1>2. \A x, y \in Nat : x < y => <<x, y>> \in R
  OBVIOUS
<1> HIDE DEF R
<1>3. \E x \in T : \A y \in T : ~(<<y, x>> \in R)
  BY <1>1, WFMin
<1>4. PICK x \in T : \A y \in T : ~(<<y, x>> \in R)
  BY <1>3
<1>5. ASSUME NEW y \in T
      PROVE  x <= y
  <2>1. x \in Nat /\ y \in Nat
    OBVIOUS
  <2>2. ~(<<y, x>> \in R)
    BY <1>4
  <2>3. ~(y < x)
    BY <1>2, <2>1, <2>2
  <2>. QED  BY <2>1, <2>3
<1>. QED  BY <1>5

\* The greater of two numbers.
LEMMA MaxOfTwo ==
  ASSUME NEW a \in Int, NEW b \in Int
  PROVE  /\ Max({a, b}) \in {a, b} /\ Max({a, b}) >= a /\ Max({a, b}) >= b
<1>1. \E x \in {a, b} : \A y \in {a, b} : x >= y
  <2>1. a >= b \/ b >= a
    OBVIOUS
  <2>. QED  BY <2>1
<1>2. Max({a, b}) \in {a, b} /\ \A y \in {a, b} : Max({a, b}) >= y
  BY <1>1 DEF Max
<1>. QED  BY <1>2

\* What is left when one element is taken out.
LEMMA LogRemoved ==
  ASSUME NEW S, NEW s \in Seq(S), NEW i \in DOMAIN s
  PROVE  /\ RemoveAt(s, i) \in Seq(S)
         /\ Len(RemoveAt(s, i)) = Len(s) - 1
         /\ \A j \in 1..Len(s) - 1 : RemoveAt(s, i)[j] = IF j < i THEN s[j] ELSE s[j + 1]
<1> DEFINE a == SubSeq(s, 1, i - 1)
           b == SubSeq(s, i + 1, Len(s))
<1>1. Len(s) \in Nat /\ i \in 1..Len(s)
  OBVIOUS
<1>2. a \in Seq(S) /\ Len(a) = i - 1 /\ \A j \in 1..i - 1 : a[j] = s[j]
  BY <1>1
<1>3. b \in Seq(S) /\ Len(b) = Len(s) - i /\ \A j \in 1..Len(s) - i : b[j] = s[i + j]
  BY <1>1
<1>4. RemoveAt(s, i) = a \o b
  BY DEF RemoveAt
<1> HIDE DEF a, b
<1>5. a \o b \in Seq(S) /\ Len(a \o b) = Len(s) - 1
  BY <1>1, <1>2, <1>3
<1>6. ASSUME NEW j \in 1..Len(s) - 1
      PROVE  (a \o b)[j] = IF j < i THEN s[j] ELSE s[j + 1]
  <2>1. CASE j < i
    BY <1>1, <1>2, <1>3, <2>1
  <2>2. CASE j >= i
    <3>1. (a \o b)[j] = b[j - (i - 1)] /\ j - (i - 1) \in 1..Len(s) - i
      BY <1>1, <1>2, <1>3, <2>2, SMTT(30)
    <3>. QED  BY <1>1, <1>3, <2>2, <3>1, SMTT(30)
  <2>3. j < i \/ j >= i
    BY <1>1
  <2>. QED  BY <2>1, <2>2, <2>3
<1>. QED  BY <1>4, <1>5, <1>6

\* A function of 1..m is a sequence.
LEMMA IsSequence ==
  ASSUME NEW S, NEW m \in Nat, NEW f \in [1..m -> S]
  PROVE  f \in Seq(S) /\ Len(f) = m
OBVIOUS

\* One sequence after another.
LEMMA OneAfterAnother ==
  ASSUME NEW S, NEW a \in Seq(S), NEW b \in Seq(S)
  PROVE  /\ a \o b \in Seq(S) /\ Len(a \o b) = Len(a) + Len(b)
         /\ \A i \in 1..Len(a) : (a \o b)[i] = a[i]
         /\ \A i \in 1..Len(b) : (a \o b)[Len(a) + i] = b[i]
<1>1. Len(a) \in Nat /\ Len(b) \in Nat
  OBVIOUS
<1>2. a \o b \in Seq(S) /\ Len(a \o b) = Len(a) + Len(b)
  OBVIOUS
<1>3. \A i \in 1..Len(a) : (a \o b)[i] = a[i]
  BY <1>1
<1>4. ASSUME NEW i \in 1..Len(b)
      PROVE  (a \o b)[Len(a) + i] = b[i]
  <2>1. Len(a) + i \in 1..Len(a) + Len(b) /\ ~(Len(a) + i <= Len(a)) /\ (Len(a) + i) - Len(a) = i
    BY <1>1
  <2>. QED  BY <2>1
<1>. QED  BY <1>2, <1>3, <1>4

\* Of entries that follow one another from start, those after the cursor are the last.
LEMMA EntriesAfterCursor ==
  ASSUME NEW entries \in Seq(Nat), NEW start \in Nat, cursor \in Nat,
         \A n \in 1..Len(entries) : entries[n] = start + n,
         NEW k \in Nat, k = IF cursor <= start THEN 0 ELSE cursor - start, k <= Len(entries)
  PROVE  AfterCursor(entries) = [n \in 1..Len(entries) - k |-> start + k + n]
<1> DEFINE len == Len(entries)
           New(i) == [n \in 1..(IF i <= k THEN 0 ELSE i - k) |-> start + k + n]
           G == [i \in 0..len |-> New(i)]
           Follows(H) == H = [i \in 0..len |->
             IF i = 0 THEN <<>>
             ELSE IF entries[i] > cursor THEN Append(H[i - 1], entries[i]) ELSE H[i - 1]]
           F == CHOOSE H : Follows(H)
<1>1. AfterCursor(entries) = F[len]
  BY DEF AfterCursor
<1>2. len \in Nat
  OBVIOUS
<1>3. New(0) = <<>>
  OBVIOUS
<1>4. ASSUME NEW i \in 1..len
      PROVE  New(i) = IF entries[i] > cursor THEN Append(New(i - 1), entries[i]) ELSE New(i - 1)
  <2>1. entries[i] = start + i /\ (entries[i] > cursor <=> i > k)
    BY <1>2
  <2>2. CASE i <= k
    <3>1. i - 1 <= k
      BY <2>2
    <3>. QED  BY <2>1, <2>2, <3>1
  <2>3. CASE i > k
    <3>1. New(i) = [n \in 1..i - k |-> start + k + n]
      BY <2>3
    <3>2. New(i - 1) = [n \in 1..i - 1 - k |-> start + k + n]
      <4>1. CASE i - 1 <= k
        BY <2>3, <4>1
      <4>2. CASE i - 1 > k
        BY <4>2
      <4>. QED  BY <4>1, <4>2
    <3>3. New(i - 1) \in Seq(Nat) /\ Len(New(i - 1)) = i - 1 - k
      <4>1. New(i - 1) \in [1..i - 1 - k -> Nat] /\ i - 1 - k \in Nat
        BY <2>3, <3>2
      <4> HIDE DEF New
      <4>. QED  BY <4>1, IsSequence, SMTT(30)
    <3>4. New(i) \in Seq(Nat) /\ Len(New(i)) = i - k
      <4>1. New(i) \in [1..i - k -> Nat] /\ i - k \in Nat
        BY <2>3, <3>1
      <4> HIDE DEF New
      <4>. QED  BY <4>1, IsSequence
    <3> DEFINE ap == Append(New(i - 1), entries[i])
    <3>5. ap \in Seq(Nat) /\ Len(ap) = i - k
      BY <2>1, <3>3
    <3>6. \A n \in 1..i - k : ap[n] = New(i)[n]
      <4>1. ASSUME NEW n \in 1..i - 1 - k
            PROVE  ap[n] = New(i)[n]
        BY <3>1, <3>2, <3>3, <4>1
      <4>2. ap[i - k] = entries[i] /\ New(i)[i - k] = start + i
        BY <2>1, <2>3, <3>1, <3>3
      <4>3. \A n \in 1..i - k : n \in 1..i - 1 - k \/ n = i - k
        BY <2>3
      <4>. QED  BY <2>1, <4>1, <4>2, <4>3
    <3> HIDE DEF ap, New
    <3>7. ap = New(i)
      BY <3>4, <3>5, <3>6, SMTT(30)
    <3>. QED  BY <2>1, <2>3, <3>7 DEF ap
  <2>. QED  BY <1>2, <2>2, <2>3, SMTT(30)
<1> HIDE DEF New
<1>5. Follows(G)
  <2>1. \A i \in 0..len : i # 0 => i \in 1..len /\ i - 1 \in 0..len /\ G[i - 1] = New(i - 1)
    BY <1>2
  <2>2. \A i \in 0..len :
          New(i) = IF i = 0 THEN <<>>
                   ELSE IF entries[i] > cursor THEN Append(G[i - 1], entries[i]) ELSE G[i - 1]
    BY <1>3, <1>4, <2>1
  <2>. QED  BY <2>2
<1>6. Follows(F)
  BY <1>5
<1> HIDE DEF F
<1>7. \A i \in 0..len : F[i] = New(i)
  <2> DEFINE T == {i \in 0..len : F[i] # New(i)}
  <2>1. SUFFICES ASSUME T # {} PROVE FALSE
    OBVIOUS
  <2>2. PICK x \in T : \A y \in T : x <= y
    <3>1. T \in SUBSET Nat
      BY <1>2
    <3> HIDE DEF T
    <3>. QED  BY <2>1, <3>1, NatMin
  <2>3. x \in 0..len /\ F[x] # New(x)
    OBVIOUS
  <2>4. x # 0
    BY <1>3, <1>6, <2>3
  <2>5. x \in 1..len /\ x - 1 \in 0..len /\ ~(x <= x - 1)
    BY <1>2, <2>3, <2>4
  <2>6. F[x - 1] = New(x - 1)
    BY <2>2, <2>5
  <2>7. F[x] = IF entries[x] > cursor THEN Append(F[x - 1], entries[x]) ELSE F[x - 1]
    BY <1>6, <2>3, <2>4
  <2>. QED  BY <1>4, <2>3, <2>5, <2>6, <2>7
<1>8. New(len) = [n \in 1..len - k |-> start + k + n]
  <2>1. CASE len <= k
    <3>1. len = k
      BY <1>2, <2>1
    <3>. QED  BY <2>1, <3>1 DEF New
  <2>2. CASE len > k
    BY <2>2 DEF New
  <2>. QED  BY <1>2, <2>1, <2>2
<1>9. F[len] = New(len)
  BY <1>2, <1>7
<1>. QED  BY <1>1, <1>8, <1>9

\* T has the sums of the first numbers of f, up to the m-th.
SumsOf(T, f, m) ==
  T \in [0..m -> Nat] /\ \A n \in 0..m : T[n] = IF n = 0 THEN 0 ELSE T[n - 1] + f[n]

\* There are such sums.
LEMMA SumsExist ==
  ASSUME NEW m \in Nat, NEW f \in [1..m -> Nat]
  PROVE  \E T : SumsOf(T, f, m)
<1> DEFINE Bad == {k \in 0..m : ~\E T : SumsOf(T, f, k)}
<1>1. SUFFICES ASSUME Bad # {} PROVE FALSE
  <2>1. m \in 0..m
    OBVIOUS
  <2>. QED  BY <2>1
<1>2. PICK x \in Bad : \A y \in Bad : x <= y
  <2>1. Bad \in SUBSET Nat
    OBVIOUS
  <2> HIDE DEF Bad
  <2>. QED  BY <1>1, <2>1, NatMin
<1>3. x \in 0..m /\ ~\E T : SumsOf(T, f, x)
  OBVIOUS
<1>4. CASE x = 0
  <2>1. PICK T : T = [n \in 0..0 |-> 0]
    OBVIOUS
  <2>2. SumsOf(T, f, 0)
    BY <2>1 DEF SumsOf
  <2>. QED  BY <1>3, <1>4, <2>2
<1>5. CASE x # 0
  <2>1. x \in 1..m /\ x - 1 \in 0..m /\ x - 1 \in 0..x - 1 /\ ~(x <= x - 1)
    BY <1>3, <1>5
  <2>2. PICK S : SumsOf(S, f, x - 1)
    BY <1>2, <2>1
  <2>3. PICK total \in Nat : total = S[x - 1] + f[x]
    BY <2>1, <2>2 DEF SumsOf
  <2>4. PICK T : T = [n \in 0..x |-> IF n = x THEN total ELSE S[n]]
    OBVIOUS
  <2>5. \A n \in 0..x : n # x => n \in 0..x - 1 /\ T[n] = S[n]
    BY <2>1, <2>4
  <2>6. T[x] = total /\ T[x - 1] = S[x - 1]
    BY <2>1, <2>4
  <2>7. T \in [0..x -> Nat]
    BY <2>2, <2>3, <2>4, <2>5 DEF SumsOf
  <2>8. ASSUME NEW n \in 0..x
        PROVE  T[n] = IF n = 0 THEN 0 ELSE T[n - 1] + f[n]
    <3>1. CASE n = x
      BY <1>5, <2>3, <2>6, <3>1
    <3>2. CASE n # x
      <4>1. n # 0 => n - 1 \in 0..x /\ n - 1 # x
        BY <2>1, <3>2
      <4>. QED  BY <2>2, <2>5, <3>2, <4>1 DEF SumsOf
    <3>. QED  BY <3>1, <3>2
  <2>9. SumsOf(T, f, x)
    BY <2>7, <2>8 DEF SumsOf
  <2>. QED  BY <1>3, <2>9
<1>. QED  BY <1>4, <1>5

\* Sums grow.
LEMMA SumsGrow ==
  ASSUME NEW m \in Nat, NEW f \in [1..m -> Nat], NEW T, SumsOf(T, f, m), NEW l \in 0..m
  PROVE  T[l] <= T[m]
<1> DEFINE Bad == {k \in 0..m : k >= l /\ ~(T[l] <= T[k])}
<1>1. SUFFICES ASSUME Bad # {} PROVE FALSE
  OBVIOUS
<1>2. PICK x \in Bad : \A y \in Bad : x <= y
  <2>1. Bad \in SUBSET Nat
    OBVIOUS
  <2> HIDE DEF Bad
  <2>. QED  BY <1>1, <2>1, NatMin
<1>3. x \in 0..m /\ x >= l /\ ~(T[l] <= T[x]) /\ T[l] \in Nat /\ T[x] \in Nat
  BY DEF SumsOf
<1>4. x # l
  BY <1>3
<1>5. x \in 1..m /\ x - 1 \in 0..m /\ x - 1 >= l /\ ~(x <= x - 1)
  BY <1>3, <1>4
<1>6. T[l] <= T[x - 1] /\ T[x - 1] \in Nat
  BY <1>2, <1>5 DEF SumsOf
<1>7. T[x] = T[x - 1] + f[x] /\ f[x] \in Nat
  BY <1>5 DEF SumsOf
<1>. QED  BY <1>3, <1>6, <1>7

\* What the records of a list store, one by one.
BytesOf(rs) == [n \in 1..Len(rs) |-> Bytes[rs[n]]]

\* They are numbers.
LEMMA BytesAreNumbers ==
  ASSUME NEW rs \in Seq(LogRecord)
  PROVE  BytesOf(rs) \in [1..Len(rs) -> Nat] /\ Len(rs) \in Nat
<1>1. Len(rs) \in Nat /\ \A n \in 1..Len(rs) : rs[n] \in LogRecord
  OBVIOUS
<1>2. \A r \in LogRecord : Bytes[r] \in Nat
  BY LogBounds
<1>. QED  BY <1>1, <1>2 DEF BytesOf

\* What a list stores is the last of its sums.
LEMMA TotalIsSum ==
  ASSUME NEW rs \in Seq(LogRecord), NEW T, SumsOf(T, BytesOf(rs), Len(rs))
  PROVE  TotalBytes(rs) = T[Len(rs)]
<1> DEFINE len == Len(rs)
           Follows(H) == H = [n \in 0..len |-> IF n = 0 THEN 0 ELSE H[n - 1] + Bytes[rs[n]]]
           F == CHOOSE H : Follows(H)
<1>1. TotalBytes(rs) = F[len]
  BY DEF TotalBytes
<1>2. len \in Nat
  OBVIOUS
<1>3. \A n \in 0..len : n # 0 => n \in 1..len /\ n - 1 \in 0..len /\ BytesOf(rs)[n] = Bytes[rs[n]]
  BY <1>2 DEF BytesOf
<1>4. Follows(T)
  <2>1. T = [n \in 0..len |-> T[n]]
    BY DEF SumsOf
  <2>2. \A n \in 0..len : T[n] = IF n = 0 THEN 0 ELSE T[n - 1] + Bytes[rs[n]]
    BY <1>3 DEF SumsOf
  <2>. QED  BY <2>1, <2>2
<1>5. Follows(F)
  BY <1>4
<1> HIDE DEF F
<1>6. \A n \in 0..len : F[n] = T[n]
  <2> DEFINE Bad == {n \in 0..len : F[n] # T[n]}
  <2>1. SUFFICES ASSUME Bad # {} PROVE FALSE
    OBVIOUS
  <2>2. PICK x \in Bad : \A y \in Bad : x <= y
    <3>1. Bad \in SUBSET Nat
      BY <1>2
    <3> HIDE DEF Bad
    <3>. QED  BY <2>1, <3>1, NatMin
  <2>3. x \in 0..len /\ F[x] # T[x]
    OBVIOUS
  <2>4. F[x] = IF x = 0 THEN 0 ELSE F[x - 1] + Bytes[rs[x]]
    BY <1>5, <2>3
  <2>5. T[x] = IF x = 0 THEN 0 ELSE T[x - 1] + Bytes[rs[x]]
    BY <1>4, <2>3
  <2>6. x # 0
    BY <2>3, <2>4, <2>5
  <2>7. x - 1 \in 0..len /\ ~(x <= x - 1)
    BY <1>2, <2>3, <2>6
  <2>8. F[x - 1] = T[x - 1]
    BY <2>2, <2>7
  <2>. QED  BY <2>3, <2>4, <2>5, <2>6, <2>8
<1>. QED  BY <1>1, <1>2, <1>6

\* A list without records fits.
LEMMA NothingFits == Fits(<<>>)
<1>1. <<>> \in Seq(LogRecord) /\ Len(<<>>) = 0
  OBVIOUS
<1>2. PICK T : SumsOf(T, BytesOf(<<>>), 0)
  BY <1>1, BytesAreNumbers, SumsExist
<1>3. T[0] = 0
  BY <1>2 DEF SumsOf
<1>4. TotalBytes(<<>>) = 0
  BY <1>1, <1>2, <1>3, TotalIsSum
<1>. QED  BY <1>1, <1>4, LogBounds DEF Fits

\* If a list fits, so does its beginning.
LEMMA BeginningFits ==
  ASSUME NEW a \in Seq(LogRecord), NEW b \in Seq(LogRecord), Fits(a \o b)
  PROVE  Fits(a)
<1>1. PICK la \in Nat, lb \in Nat : la = Len(a) /\ lb = Len(b)
  OBVIOUS
<1>2. PICK ab : ab = a \o b
  OBVIOUS
<1>3. /\ ab \in Seq(LogRecord) /\ Len(ab) = la + lb
      /\ \A i \in 1..la : ab[i] = a[i]
  BY <1>1, <1>2, OneAfterAnother
<1>4. PICK T : SumsOf(T, BytesOf(ab), la + lb)
  <2>1. BytesOf(ab) \in [1..la + lb -> Nat] /\ la + lb \in Nat
    BY <1>3, BytesAreNumbers
  <2>. QED  BY <2>1, SumsExist
<1>5. PICK S : S = [n \in 0..la |-> T[n]]
  OBVIOUS
<1>6. SumsOf(S, BytesOf(a), la)
  <2>1. S \in [0..la -> Nat]
    <3>1. \A n \in 0..la : n \in 0..la + lb
      OBVIOUS
    <3>. QED  BY <1>4, <1>5, <3>1 DEF SumsOf
  <2>2. ASSUME NEW n \in 0..la
        PROVE  S[n] = IF n = 0 THEN 0 ELSE S[n - 1] + BytesOf(a)[n]
    <3>1. n \in 0..la + lb /\ (n # 0 => n - 1 \in 0..la /\ n \in 1..la /\ n \in 1..la + lb)
      OBVIOUS
    <3>2. n # 0 => BytesOf(a)[n] = BytesOf(ab)[n]
      BY <1>1, <1>3, <3>1 DEF BytesOf
    <3>. QED  BY <1>4, <1>5, <3>1, <3>2 DEF SumsOf
  <2>. QED  BY <2>1, <2>2 DEF SumsOf
<1>7. TotalBytes(a) = T[la] /\ TotalBytes(ab) = T[la + lb]
  <2>1. S[la] = T[la]
    BY <1>5
  <2>. QED  BY <1>1, <1>3, <1>4, <1>6, <2>1, TotalIsSum
<1>8. T[la] <= T[la + lb] /\ T[la] \in Nat /\ T[la + lb] \in Nat
  <2>1. BytesOf(ab) \in [1..la + lb -> Nat] /\ la + lb \in Nat /\ la \in 0..la + lb /\ la + lb \in 0..la + lb
    BY <1>3, BytesAreNumbers
  <2>. QED  BY <1>4, <2>1, SumsGrow DEF SumsOf
<1>9. Len(ab) <= EntryLimit /\ TotalBytes(ab) <= ByteLimit
  BY <1>2 DEF Fits
<1>10. EntryLimit \in Nat /\ ByteLimit \in Nat
  BY LogBounds
<1>11. la <= EntryLimit
  BY <1>3, <1>9, <1>10
<1>12. T[la] <= ByteLimit
  BY <1>7, <1>8, <1>9, <1>10
<1>. QED  BY <1>1, <1>7, <1>11, <1>12 DEF Fits

-----------------------------------------------------------------------------
(* The list of records.                                                     *)

\* kept is what is left of rs from its m-th record on.
EndOf(kept, rs, m) ==
  /\ kept \in Seq(LogRecord) /\ Len(kept) = Len(rs) - m + 1
  /\ \A i \in 1..Len(kept) : kept[i] = rs[m - 1 + i] /\ m - 1 + i \in DOMAIN rs
  /\ \A i \in m..Len(rs) : i - m + 1 \in DOMAIN kept /\ kept[i - m + 1] = rs[i]

\* The shape of a record.
LEMMA RecordShape ==
  ASSUME NEW rs \in Seq(LogRecord), NEW n \in DOMAIN rs
  PROVE  rs[n][1] \in {"kit", "app"} /\ rs[n][2] \in Nat /\ rs[n] \in LogRecord
<1>1. rs[n] \in LogRecord
  OBVIOUS
<1>. QED  BY <1>1 DEF LogRecord

\* The end of a list is what SubSeq takes.
LEMMA EndIsEnd ==
  ASSUME NEW rs \in Seq(LogRecord), NEW m \in 1..Len(rs) + 1, NEW kept, kept = From(rs, m)
  PROVE  EndOf(kept, rs, m)
<1>1. Len(rs) \in Nat /\ DOMAIN rs = 1..Len(rs)
  OBVIOUS
<1>2. kept \in Seq(LogRecord) /\ Len(kept) = Len(rs) - m + 1
  BY <1>1 DEF From
<1>3. \A i \in 1..Len(rs) - m + 1 : kept[i] = rs[m - 1 + i]
  BY <1>1 DEF From
<1>4. \A i \in 1..Len(rs) - m + 1 : m - 1 + i \in 1..Len(rs)
  BY <1>1
<1>5. \A i \in m..Len(rs) : i - m + 1 \in 1..Len(rs) - m + 1 /\ m - 1 + (i - m + 1) = i
  BY <1>1
<1>6. DOMAIN kept = 1..Len(rs) - m + 1
  BY <1>2
<1>7. \A i \in m..Len(rs) : kept[i - m + 1] = rs[i]
  BY <1>3, <1>5
<1>. QED  BY <1>1, <1>2, <1>3, <1>4, <1>5, <1>6, <1>7 DEF EndOf

\* Evicting the oldest leaves the longest end of the list that fits.
LEMMA Evicted ==
  ASSUME NEW rs \in Seq(LogRecord)
  PROVE  /\ FirstKept(rs) \in 1..Len(rs) + 1 /\ Fits(From(rs, FirstKept(rs)))
         /\ \A m \in 1..Len(rs) + 1 : m < FirstKept(rs) => ~Fits(From(rs, m))
<1>1. Len(rs) \in Nat
  OBVIOUS
<1>2. PICK T : T = {m \in 1..Len(rs) + 1 : Fits(From(rs, m))}
  OBVIOUS
<1>3. Len(rs) + 1 \in T
  <2>1. From(rs, Len(rs) + 1) = <<>>
    BY <1>1 DEF From
  <2>2. Len(rs) + 1 \in 1..Len(rs) + 1
    BY <1>1
  <2>. QED  BY <1>2, <2>1, <2>2, NothingFits
<1>4. \E x \in T : \A y \in T : x <= y
  <2>1. T \in SUBSET Nat
    BY <1>1, <1>2
  <2>. QED  BY <1>3, <2>1, NatMin
<1>5. PICK first : first = Min(T)
  OBVIOUS
<1>6. first \in T /\ \A y \in T : first <= y
  BY <1>4, <1>5 DEF Min
<1>7. ASSUME NEW m \in 1..Len(rs) + 1, m < first
      PROVE  ~Fits(From(rs, m))
  <2>1. ~(first <= m)
    BY <1>1, <1>2, <1>6, <1>7
  <2>. QED  BY <1>2, <1>6, <2>1
<1>8. FirstKept(rs) = first
  BY <1>2, <1>5 DEF FirstKept
<1>. QED  BY <1>2, <1>6, <1>7, <1>8

\* A record and what comes after it.
LEMMA OneMore ==
  ASSUME NEW rs \in Seq(LogRecord), NEW m \in 2..Len(rs) + 1
  PROVE  <<rs[m - 1]>> \in Seq(LogRecord) /\ <<rs[m - 1]>> \o From(rs, m) = From(rs, m - 1)
<1>1. PICK len \in Nat : len = Len(rs)
  OBVIOUS
<1>2. PICK l \in 1..len : l = m - 1
  <2>1. m - 1 \in 1..len
    BY <1>1
  <2>. QED  BY <2>1
<1>3. PICK e \in Seq(LogRecord) : e = <<rs[m - 1]>> /\ Len(e) = 1 /\ e[1] = rs[l]
  <2>1. PICK x \in LogRecord : x = rs[m - 1] /\ x = rs[l]
    BY <1>1, <1>2
  <2>2. <<x>> \in Seq(LogRecord) /\ Len(<<x>>) = 1 /\ <<x>>[1] = x
    OBVIOUS
  <2>. QED  BY <2>1, <2>2
<1>4. PICK a \in Seq(LogRecord) : /\ a = From(rs, m) /\ Len(a) = len - m + 1
                                  /\ \A i \in 1..len - m + 1 : a[i] = rs[m - 1 + i]
  <2>1. PICK a : a = From(rs, m)
    OBVIOUS
  <2>2. m \in 1..Len(rs) + 1
    BY <1>1
  <2>3. EndOf(a, rs, m)
    BY <2>1, <2>2, EndIsEnd
  <2>. QED  BY <1>1, <2>1, <2>3 DEF EndOf
<1>5. PICK c \in Seq(LogRecord) : /\ c = From(rs, m - 1) /\ Len(c) = len - l + 1
                                  /\ \A i \in 1..len - l + 1 : c[i] = rs[l - 1 + i]
  <2>1. l \in 1..Len(rs) + 1
    BY <1>1
  <2>2. PICK c : c = From(rs, l)
    OBVIOUS
  <2>3. EndOf(c, rs, l)
    BY <2>1, <2>2, EndIsEnd
  <2>. QED  BY <1>1, <1>2, <2>2, <2>3 DEF EndOf
<1>6. PICK d \in Seq(LogRecord) : /\ d = e \o a /\ Len(d) = 1 + (len - m + 1)
                                  /\ d[1] = e[1] /\ \A i \in 1..len - m + 1 : d[1 + i] = a[i]
  <2>1. PICK d : d = e \o a
    OBVIOUS
  <2>2. /\ d \in Seq(LogRecord) /\ Len(d) = Len(e) + Len(a)
        /\ \A i \in 1..Len(e) : d[i] = e[i]
        /\ \A i \in 1..Len(a) : d[Len(e) + i] = a[i]
    BY <2>1, OneAfterAnother
  <2>3. 1 \in 1..Len(e)
    BY <1>3
  <2>4. Len(d) = 1 + (len - m + 1)
    BY <1>3, <1>4, <2>2
  <2>5. d[1] = e[1]
    BY <2>2, <2>3
  <2>6. \A i \in 1..len - m + 1 : d[1 + i] = a[i]
    BY <1>3, <1>4, <2>2
  <2>. QED  BY <2>1, <2>2, <2>4, <2>5, <2>6
<1>7. PICK n \in Nat : n = Len(c) /\ n = Len(d) /\ n = len - l + 1
  <2>1. len - l + 1 \in Nat /\ len - l + 1 = 1 + (len - m + 1)
    BY <1>1, <1>2
  <2>. QED  BY <1>5, <1>6, <2>1
<1>8. ASSUME NEW i \in 1..n
      PROVE  c[i] = d[i]
  <2>1. i \in 1..len - l + 1 /\ c[i] = rs[l - 1 + i]
    BY <1>5, <1>7
  <2>2. CASE i = 1
    <3>1. l - 1 + 1 = l
      OBVIOUS
    <3>. QED  BY <1>3, <1>6, <2>1, <2>2, <3>1
  <2>3. CASE i # 1
    <3>1. PICK j \in 1..len - m + 1 : i = 1 + j /\ l - 1 + i = m - 1 + j
      <4>1. i - 1 \in 1..len - m + 1 /\ i = 1 + (i - 1) /\ l - 1 + i = m - 1 + (i - 1)
        BY <1>1, <1>2, <2>1, <2>3
      <4>. QED  BY <4>1
    <3>. QED  BY <1>4, <1>6, <2>1, <3>1
  <2>. QED  BY <2>2, <2>3
<1>9. c = d
  <2>1. c \in Seq(LogRecord) /\ d \in Seq(LogRecord) /\ Len(c) = n /\ Len(d) = n
    BY <1>7
  <2>2. \A i \in 1..n : c[i] = d[i]
    BY <1>8
  <2>. QED  BY <2>1, <2>2, SMTT(30)
<1>. QED  BY <1>3, <1>4, <1>5, <1>6, <1>9

\* Lists are joined in any order.
LEMMA Associative ==
  ASSUME NEW e \in Seq(LogRecord), NEW a \in Seq(LogRecord), NEW b \in Seq(LogRecord)
  PROVE  e \o (a \o b) = (e \o a) \o b
OBVIOUS

\* What came before stays before.
LEMMA BeforeBoth ==
  ASSUME NEW e \in Seq(LogRecord), NEW a \in Seq(LogRecord), NEW b \in Seq(LogRecord),
         Fits(e \o (a \o b))
  PROVE  Fits(e \o a)
<1>1. PICK ea \in Seq(LogRecord) : ea = e \o a
  BY OneAfterAnother
<1>2. e \o (a \o b) = (e \o a) \o b
  BY Associative
<1>. QED  BY <1>1, <1>2, BeginningFits

\* The end of an increasing list increases, and lists nothing new.
LEMMA EndIncreases ==
  ASSUME NEW rs \in Seq(LogRecord), NEW kept, NEW m \in 1..Len(rs) + 1, EndOf(kept, rs, m), Increasing(rs)
  PROVE  Increasing(kept) /\ KitsOf(kept) \subseteq KitsOf(rs)
<1>1. /\ kept \in Seq(LogRecord) /\ Len(kept) \in Nat /\ DOMAIN kept = 1..Len(kept)
      /\ \A i \in 1..Len(kept) : kept[i] = rs[m - 1 + i] /\ m - 1 + i \in DOMAIN rs
  BY DEF EndOf
<1>2. Increasing(kept)
  <2>1. ASSUME NEW i \in 1..Len(kept), NEW j \in 1..Len(kept), i < j,
               kept[i][1] = "kit", kept[j][1] = "kit"
        PROVE  kept[i][2] < kept[j][2]
    <3>1. m - 1 + i < m - 1 + j
      BY <2>1
    <3>. QED  BY <1>1, <2>1, <3>1 DEF Increasing
  <2>. QED  BY <1>1, <2>1 DEF Increasing
<1>. QED  BY <1>1, <1>2 DEF KitsOf

\* So does what comes after something else.
LEMMA LaterIncreases ==
  ASSUME NEW a \in Seq(LogRecord), NEW b \in Seq(LogRecord), Increasing(a \o b)
  PROVE  Increasing(b) /\ KitsOf(b) \subseteq KitsOf(a \o b)
<1>1. PICK la \in Nat, lb \in Nat : la = Len(a) /\ lb = Len(b)
  OBVIOUS
<1>2. PICK ab \in Seq(LogRecord) : /\ ab = a \o b /\ Len(ab) = la + lb
                                   /\ \A i \in 1..lb : ab[la + i] = b[i]
  <2>1. PICK ab : ab = a \o b
    OBVIOUS
  <2>2. /\ ab \in Seq(LogRecord) /\ Len(ab) = Len(a) + Len(b)
        /\ \A i \in 1..Len(b) : ab[Len(a) + i] = b[i]
    BY <2>1, OneAfterAnother
  <2>. QED  BY <1>1, <2>1, <2>2
<1>3. PICK m \in 1..la + lb + 1 : m = la + 1
  <2>1. la + 1 \in 1..la + lb + 1
    OBVIOUS
  <2>. QED  BY <2>1
<1>4. Len(b) = Len(ab) - m + 1
  BY <1>1, <1>2, <1>3
<1>5. ASSUME NEW i \in 1..Len(b)
      PROVE  b[i] = ab[m - 1 + i] /\ m - 1 + i \in DOMAIN ab
  <2>1. m - 1 + i = la + i /\ la + i \in 1..la + lb /\ i \in 1..lb
    BY <1>1, <1>3
  <2>2. DOMAIN ab = 1..la + lb
    BY <1>2
  <2>. QED  BY <1>2, <2>1, <2>2
<1>6. ASSUME NEW i \in m..Len(ab)
      PROVE  i - m + 1 \in DOMAIN b /\ b[i - m + 1] = ab[i]
  <2>1. i \in la + 1..la + lb /\ i - m + 1 = i - la
    BY <1>2, <1>3
  <2>2. i - la \in 1..lb /\ la + (i - la) = i
    BY <2>1
  <2>3. i - m + 1 \in 1..lb /\ la + (i - m + 1) = i
    BY <2>1, <2>2
  <2>4. DOMAIN b = 1..lb
    BY <1>1
  <2>. QED  BY <1>2, <2>3, <2>4
<1>7. EndOf(b, ab, m)
  BY <1>4, <1>5, <1>6 DEF EndOf
<1>8. m \in 1..Len(ab) + 1 /\ Increasing(ab)
  BY <1>2
<1>. QED  BY <1>2, <1>7, <1>8, EndIncreases

\* A list has the records of the journal of a range.
Unbroken(rs, lo, hi) == KitsOf(rs) = lo + 1..hi

\* Of an increasing list with all numbers of a range, the end has those of a range
\* with the same end.
LEMMA EndOfRange ==
  ASSUME NEW rs \in Seq(LogRecord), NEW kept, NEW m \in 1..Len(rs) + 1, EndOf(kept, rs, m),
         Increasing(rs), NEW lo \in Nat, NEW hi \in Nat, lo <= hi, Unbroken(rs, lo, hi)
  PROVE  \E l \in lo..hi : Unbroken(kept, l, hi) /\ (m = 1 => l = lo)
<1>10. KitsOf(rs) = lo + 1..hi
  BY DEF Unbroken
<1>12. /\ kept \in Seq(LogRecord)
       /\ \A i \in 1..Len(kept) : kept[i] = rs[m - 1 + i] /\ m - 1 + i \in DOMAIN rs
       /\ \A i \in m..Len(rs) : i - m + 1 \in DOMAIN kept /\ kept[i - m + 1] = rs[i]
  BY Zenon DEF EndOf
<1>13. Len(kept) \in Nat /\ DOMAIN kept = 1..Len(kept)
  BY <1>12
<1>1. /\ kept \in Seq(LogRecord) /\ Len(kept) \in Nat /\ DOMAIN kept = 1..Len(kept)
      /\ \A i \in 1..Len(kept) : kept[i] = rs[m - 1 + i] /\ m - 1 + i \in DOMAIN rs
      /\ \A i \in m..Len(rs) : i - m + 1 \in DOMAIN kept /\ kept[i - m + 1] = rs[i]
  BY <1>12, <1>13, Zenon
<1>11. DOMAIN rs = 1..Len(rs) /\ Len(rs) \in Nat
  OBVIOUS
<1>2. KitsOf(kept) \subseteq lo + 1..hi
  BY <1>10, EndIncreases
<1>3. CASE m = 1
  <2>1. KitsOf(rs) \subseteq KitsOf(kept)
    <3>1. \A i \in DOMAIN rs : i - m + 1 \in DOMAIN kept /\ kept[i - m + 1] = rs[i]
      BY <1>1, <1>11, <1>3
    <3>. QED  BY <3>1 DEF KitsOf
  <2>2. KitsOf(kept) = lo + 1..hi
    BY <1>2, <1>10, <2>1
  <2>3. lo \in lo..hi
    OBVIOUS
  <2>. QED  BY <2>2, <2>3 DEF Unbroken
<1>4. CASE m # 1
  <2>1. PICK T : T = KitsOf(kept) \cup {hi + 1}
    OBVIOUS
  <2>2. T \in SUBSET Nat /\ T # {}
    BY <1>2, <2>1
  <2>3. PICK x \in T : \A y \in T : x <= y
    BY <2>2, NatMin
  <2>4. x \in lo + 1..hi + 1 /\ x - 1 \in lo..hi /\ (x - 1) + 1 = x
    BY <1>2, <2>1
  <2>5. KitsOf(kept) \subseteq x..hi
    <3>1. ASSUME NEW y \in KitsOf(kept)
          PROVE  y \in x..hi
      <4>1. x <= y /\ y \in lo + 1..hi
        BY <1>2, <2>1, <2>3
      <4>. QED  BY <2>4, <4>1
    <3>. QED  BY <3>1
  <2>6. ASSUME NEW s \in x..hi
        PROVE  s \in KitsOf(kept)
    <3>1. x # hi + 1 /\ s \in lo + 1..hi
      BY <2>4
    <3>2. x \in KitsOf(kept)
      BY <2>1, <3>1
    <3>3. PICK p \in DOMAIN kept : kept[p][1] = "kit" /\ kept[p][2] = x
      BY <3>2 DEF KitsOf
    <3>4. PICK q \in DOMAIN rs : rs[q][1] = "kit" /\ rs[q][2] = s
      BY <1>10, <3>1 DEF KitsOf
    <3>5. rs[m - 1 + p] = kept[p] /\ m - 1 + p \in DOMAIN rs /\ p \in 1..Len(kept)
      BY <1>1
    <3>6. ~(q < m - 1 + p)
      <4>1. q < m - 1 + p => s < x
        BY <3>3, <3>4, <3>5 DEF Increasing
      <4>. QED  BY <2>4, <4>1
    <3>7. q \in m..Len(rs)
      BY <1>1, <1>11, <3>4, <3>5, <3>6
    <3>. QED  BY <1>1, <3>4, <3>7 DEF KitsOf
  <2>7. KitsOf(kept) = x..hi
    BY <2>5, <2>6
  <2>8. KitsOf(kept) = (x - 1) + 1..hi
    BY <2>4, <2>7
  <2>. QED  BY <1>4, <2>4, <2>8 DEF Unbroken
<1>. QED  BY <1>3, <1>4

\* A list's records of the journal end at a number, and others follow it.
EndsBy(rs, from) == \A s \in KitsOf(rs) : s <= from
FollowOn(new, from) == \A n \in 1..Len(new) : new[n] = KitRecord(from + n)

\* Entries that follow what a list has are added at its end.
LEMMA EntriesAdded ==
  ASSUME NEW rs \in Seq(LogRecord), Increasing(rs), NEW from \in Nat, EndsBy(rs, from),
         NEW new \in Seq(LogRecord), FollowOn(new, from)
  PROVE  Increasing(rs \o new) /\ KitsOf(rs \o new) = KitsOf(rs) \cup (from + 1..from + Len(new))
<1>1. PICK len \in Nat : len = Len(new)
  OBVIOUS
<1>2. \A n \in 1..len : new[n][1] = "kit" /\ new[n][2] = from + n
  BY <1>1 DEF KitRecord, FollowOn
<1>3. PICK ext : ext = rs \o new
  OBVIOUS
<1>4. ext \in Seq(LogRecord) /\ Len(ext) = Len(rs) + len /\ Len(rs) \in Nat /\ DOMAIN ext = 1..Len(rs) + len
      /\ DOMAIN rs = 1..Len(rs)
  <2>1. Len(rs) \in Nat /\ DOMAIN rs = 1..Len(rs)
    OBVIOUS
  <2>2. ext \in Seq(LogRecord) /\ Len(ext) = Len(rs) + len
    BY <1>1, <1>3, OneAfterAnother
  <2>. QED  BY <2>1, <2>2
<1>5. \A n \in 1..Len(rs) : ext[n] = rs[n]
  BY <1>1, <1>3, OneAfterAnother
<1>6. \A n \in 1..len : Len(rs) + n \in DOMAIN ext /\ ext[Len(rs) + n][1] = "kit"
                        /\ ext[Len(rs) + n][2] = from + n
  <2>1. \A n \in 1..len : (rs \o new)[Len(rs) + n] = new[n]
    BY <1>1, OneAfterAnother
  <2>2. \A n \in 1..len : Len(rs) + n \in 1..Len(rs) + len
    BY <1>4
  <2>. QED  BY <1>2, <1>3, <1>4, <2>1, <2>2
<1>7. \A i \in DOMAIN ext : i \in 1..Len(rs) \/ (i - Len(rs) \in 1..len /\ i = Len(rs) + (i - Len(rs)))
  BY <1>4
<1>8. KitsOf(ext) = KitsOf(rs) \cup (from + 1..from + len)
  <2>1. KitsOf(rs) \subseteq KitsOf(ext)
    BY <1>4, <1>5 DEF KitsOf
  <2>2. ASSUME NEW s \in from + 1..from + len
        PROVE  s \in KitsOf(ext)
    <3>1. s - from \in 1..len /\ s = from + (s - from)
      OBVIOUS
    <3>. QED  BY <1>6, <3>1 DEF KitsOf
  <2>3. ASSUME NEW s \in KitsOf(ext)
        PROVE  s \in KitsOf(rs) \cup (from + 1..from + len)
    <3>1. PICK i \in DOMAIN ext : ext[i][1] = "kit" /\ ext[i][2] = s
      BY <2>3 DEF KitsOf
    <3>2. CASE i \in 1..Len(rs)
      BY <1>4, <1>5, <3>1, <3>2 DEF KitsOf
    <3>3. CASE i - Len(rs) \in 1..len /\ i = Len(rs) + (i - Len(rs))
      <4>1. s = from + (i - Len(rs))
        BY <1>6, <3>1, <3>3
      <4>. QED  BY <3>3, <4>1
    <3>. QED  BY <1>7, <3>2, <3>3
  <2>. QED  BY <2>1, <2>2, <2>3
<1>9. Increasing(ext)
  <2>1. ASSUME NEW i \in DOMAIN ext, NEW j \in DOMAIN ext, i < j, ext[i][1] = "kit", ext[j][1] = "kit"
        PROVE  ext[i][2] < ext[j][2]
    <3>1. CASE j \in 1..Len(rs)
      <4>1. i \in 1..Len(rs)
        BY <1>4, <2>1, <3>1
      <4>. QED  BY <1>4, <1>5, <2>1, <3>1, <4>1 DEF Increasing
    <3>2. CASE j - Len(rs) \in 1..len /\ j = Len(rs) + (j - Len(rs))
      <4>1. ext[j][2] = from + (j - Len(rs))
        BY <1>6, <3>2
      <4>2. CASE i \in 1..Len(rs)
        <5>1. ext[i][2] \in KitsOf(rs)
          BY <1>4, <1>5, <2>1, <4>2 DEF KitsOf
        <5>2. ext[i][2] \in Nat /\ ext[i][2] <= from
          BY <1>4, <5>1, RecordShape DEF EndsBy
        <5>3. PICK k \in 1..len : k = j - Len(rs)
          BY <3>2
        <5>4. PICK x \in Nat : x = ext[i][2]
          BY <5>2
        <5>5. ext[j][2] = from + k /\ x <= from
          BY <4>1, <5>2, <5>3, <5>4
        <5>6. x < from + k
          BY <5>5
        <5>. QED  BY <5>4, <5>5, <5>6
      <4>3. CASE i - Len(rs) \in 1..len /\ i = Len(rs) + (i - Len(rs))
        <5>1. ext[i][2] = from + (i - Len(rs))
          BY <1>6, <4>3
        <5>. QED  BY <1>4, <2>1, <3>2, <4>1, <4>3, <5>1, SMTT(30)
      <4>. QED  BY <1>7, <4>2, <4>3
    <3>. QED  BY <1>7, <3>1, <3>2
  <2>. QED  BY <2>1 DEF Increasing
<1>. QED  BY <1>1, <1>3, <1>8, <1>9

\* So is a failure of the runtime, which has no number in the journal.
LEMMA FailureAdded ==
  ASSUME NEW rs \in Seq(LogRecord), Increasing(rs), NEW n \in 1..MaxRuntimeFailures, NEW ext,
         ext = Append(rs, <<"app", n>>)
  PROVE  /\ ext \in Seq(LogRecord) /\ Len(ext) = Len(rs) + 1
         /\ Increasing(ext) /\ KitsOf(ext) = KitsOf(rs)
<1>1. <<"app", n>> \in LogRecord /\ <<"app", n>>[1] = "app"
  BY DEF LogRecord
<1>2. /\ ext \in Seq(LogRecord) /\ Len(ext) = Len(rs) + 1 /\ Len(rs) \in Nat
      /\ DOMAIN ext = 1..Len(rs) + 1 /\ DOMAIN rs = 1..Len(rs)
      /\ \A i \in 1..Len(rs) : ext[i] = rs[i]
      /\ ext[Len(rs) + 1] = <<"app", n>>
  BY <1>1
<1>3. \A i \in DOMAIN ext : ext[i][1] = "kit" => i \in DOMAIN rs /\ ext[i] = rs[i]
  BY <1>1, <1>2
<1>4. \A i \in DOMAIN rs : i \in DOMAIN ext /\ ext[i] = rs[i]
  BY <1>2
<1>. QED  BY <1>2, <1>3, <1>4 DEF KitsOf, Increasing

-----------------------------------------------------------------------------
(* The steps of the list and of the answers.                                *)

\* A commit keeps the end of the new list, and selects in it.
LEMMA Committed ==
  ASSUME NEW rs \in Seq(LogRecord), CommitRecords(rs), UNCHANGED followLive, evicted \in Seq(LogRecord)
  PROVE  /\ records' \in Seq(LogRecord) /\ Fits(records') /\ SelectionShown'
         /\ evicted' \in Seq(LogRecord)
         /\ \E m \in 1..Len(rs) + 1 :
              /\ EndOf(records', rs, m)
              /\ m = 1 => records' = rs /\ evicted' = evicted
              /\ m # 1 => /\ ~Fits(evicted' \o records')
                         /\ \E l \in 1..Len(rs) + 1 : EndOf(evicted' \o records', rs, l)
<1>0. PICK m \in 1..Len(rs) + 1 : /\ m = FirstKept(rs) /\ Fits(From(rs, m))
                                  /\ \A l \in 1..Len(rs) + 1 : l < m => ~Fits(From(rs, l))
  BY Evicted
<1>1. PICK kept : /\ m = FirstKept(rs) /\ kept = From(rs, m) /\ Fits(kept)
                  /\ \A l \in 1..Len(rs) + 1 : l < m => ~Fits(From(rs, l))
  BY <1>0
<1>2. /\ records' = kept
      /\ evicted' = IF m = 1 THEN evicted ELSE <<rs[m - 1]>>
      /\ selectedId' = IF followLive \/ (selectedId # NotSelected /\ selectedId \notin ToSet(kept))
                       THEN Newest(kept) ELSE selectedId
  BY <1>1 DEF CommitRecords
<1>3. EndOf(kept, rs, m) /\ kept \in Seq(LogRecord)
  BY <1>1, EndIsEnd DEF EndOf
<1>4. kept # <<>> => Last(kept) \in ToSet(kept)
  <2>1. kept # <<>> => Len(kept) \in DOMAIN kept
    BY <1>3
  <2>. QED  BY <2>1 DEF Last, ToSet
<1>5. SelectionShown'
  BY <1>2, <1>4 DEF SelectionShown, Newest
<1>6. CASE m = 1
  <2>1. kept = rs
    <3>1. SubSeq(rs, 1, Len(rs)) = rs
      OBVIOUS
    <3>. QED  BY <1>1, <1>6, <3>1 DEF From
  <2>. QED  BY <1>1, <1>2, <1>3, <1>5, <1>6, <2>1
<1>7. CASE m # 1
  <2>1. Len(rs) \in Nat
    OBVIOUS
  <2>2. m \in 2..Len(rs) + 1 /\ m - 1 \in 1..Len(rs) + 1 /\ m - 1 < m
    BY <1>7, <2>1
  <2>3. <<rs[m - 1]>> \in Seq(LogRecord) /\ <<rs[m - 1]>> \o kept = From(rs, m - 1)
    BY <1>1, <2>2, OneMore
  <2>4. ~Fits(From(rs, m - 1))
    BY <1>1, <2>2
  <2>5. EndOf(<<rs[m - 1]>> \o kept, rs, m - 1)
    BY <2>2, <2>3, EndIsEnd
  <2>6. evicted' = <<rs[m - 1]>> /\ records' = kept
    BY <1>2, <1>7
  <2>7. \E l \in 1..Len(rs) + 1 : EndOf(evicted' \o records', rs, l)
    BY <2>2, <2>5, <2>6
  <2>. QED  BY <1>1, <1>3, <1>5, <1>7, <2>3, <2>4, <2>6, <2>7
<1>. QED  BY <1>6, <1>7

\* What is left shows what the new list had.
LEMMA CommittedShown ==
  ASSUME NEW rs \in Seq(LogRecord), CommitRecords(rs), UNCHANGED <<followLive, base>>,
         evicted \in Seq(LogRecord), base \in Nat, cursor' \in Nat,
         Increasing(evicted \o rs), KitsOf(evicted \o rs) \subseteq base + 1..cursor',
         historyTruncated' \/ \E lo \in base..cursor' :
           KitsOf(rs) = lo + 1..cursor' /\ (Fits(evicted \o rs) => lo = base)
  PROVE  Shown'
<1>1. PICK m \in 1..Len(rs) + 1 :
        /\ EndOf(records', rs, m)
        /\ m = 1 => records' = rs /\ evicted' = evicted
        /\ m # 1 => /\ ~Fits(evicted' \o records')
                   /\ \E l \in 1..Len(rs) + 1 : EndOf(evicted' \o records', rs, l)
  BY Committed
<1>2. PICK kept, e : kept = records' /\ e = evicted'
  OBVIOUS
<1>3. /\ EndOf(kept, rs, m) /\ kept \in Seq(LogRecord)
      /\ m = 1 => kept = rs /\ e = evicted
      /\ m # 1 => ~Fits(e \o kept) /\ \E l \in 1..Len(rs) + 1 : EndOf(e \o kept, rs, l)
  BY <1>1, <1>2 DEF EndOf
<1>4. Increasing(rs) /\ KitsOf(rs) \subseteq KitsOf(evicted \o rs)
  BY LaterIncreases
<1>5. Increasing(e \o kept) /\ KitsOf(e \o kept) \subseteq base + 1..cursor'
  <2>1. CASE m = 1
    BY <1>3, <2>1
  <2>2. CASE m # 1
    <3>1. PICK l \in 1..Len(rs) + 1 : EndOf(e \o kept, rs, l)
      BY <1>3, <2>2
    <3>2. Increasing(e \o kept) /\ KitsOf(e \o kept) \subseteq KitsOf(rs)
      BY <1>4, <3>1, EndIncreases
    <3>. QED  BY <1>4, <3>2
  <2>. QED  BY <2>1, <2>2
<1>6. historyTruncated' \/ \E l \in base..cursor' :
        KitsOf(kept) = l + 1..cursor' /\ (Fits(e \o kept) => l = base)
  <2>1. SUFFICES ASSUME ~historyTruncated'
                 PROVE  \E l \in base..cursor' :
                          KitsOf(kept) = l + 1..cursor' /\ (Fits(e \o kept) => l = base)
    OBVIOUS
  <2>2. PICK lo \in base..cursor' :
          KitsOf(rs) = lo + 1..cursor' /\ (Fits(evicted \o rs) => lo = base)
    BY <2>1
  <2>3. PICK hi \in Nat : hi = cursor'
    OBVIOUS
  <2>4. PICK l \in lo..hi : KitsOf(kept) = l + 1..hi /\ (m = 1 => l = lo)
    <3>1. lo \in Nat /\ lo <= hi
      BY <2>3
    <3>2. Unbroken(rs, lo, hi)
      BY <2>2, <2>3 DEF Unbroken
    <3>3. \E l \in lo..hi : Unbroken(kept, l, hi) /\ (m = 1 => l = lo)
      <4>1. EndOf(kept, rs, m) /\ Increasing(rs)
        BY <1>3, <1>4
      <4>. QED  BY <3>1, <3>2, <4>1, EndOfRange
    <3>. QED  BY <3>3 DEF Unbroken
  <2>5. l \in base..cursor'
    BY <2>2, <2>3, <2>4
  <2>6. Fits(e \o kept) => l = base
    BY <1>3, <2>2, <2>4
  <2>. QED  BY <2>3, <2>4, <2>5, <2>6
<1>. QED  BY <1>2, <1>5, <1>6 DEF Shown

\* The place that the answer at i had before that at k was taken.
Old(i, k) == IF i < k THEN i ELSE i + 1

\* An answer is taken: the others stay in their order.
LEMMA AnswerTaken ==
  ASSUME LogTypes, JournalAhead, EntriesFollow, NEW k \in DOMAIN answers,
         answers' = RemoveAt(answers, k), UNCHANGED journal
  PROVE  /\ answers' \in Seq(Answer) /\ Len(answers') = Len(answers) - 1 /\ Len(answers) \in Nat
         /\ DOMAIN answers' = 1..Len(answers) - 1 /\ DOMAIN answers = 1..Len(answers)
         /\ \A i \in DOMAIN answers' :
              /\ Old(i, k) \in DOMAIN answers /\ answers'[i] = answers[Old(i, k)] /\ Old(i, k) # k
         /\ \A i \in DOMAIN answers : i # k => \E j \in DOMAIN answers' : answers'[j] = answers[i]
         /\ EntriesFollow'
         /\ \A i \in DOMAIN answers' : Upto(answers'[i]) <= journal'.last
         /\ \A i, j \in DOMAIN answers' : i < j => Upto(answers'[i]) <= Upto(answers'[j])
<1>1. answers \in Seq(Answer) /\ Len(answers) \in Nat /\ DOMAIN answers = 1..Len(answers)
  BY DEF LogTypes
<1>2. /\ answers' \in Seq(Answer) /\ Len(answers') = Len(answers) - 1
      /\ \A j \in 1..Len(answers) - 1 : answers'[j] = IF j < k THEN answers[j] ELSE answers[j + 1]
  BY <1>1, LogRemoved
<1>3. DOMAIN answers' = 1..Len(answers) - 1
  BY <1>1, <1>2
<1>4. \A i \in DOMAIN answers' :
        /\ Old(i, k) \in DOMAIN answers /\ answers'[i] = answers[Old(i, k)] /\ Old(i, k) # k
  BY <1>1, <1>2, <1>3 DEF Old
<1>5. \A i, j \in DOMAIN answers' : i < j => Old(i, k) < Old(j, k)
  BY <1>1, <1>3 DEF Old
<1>6. EntriesFollow'
  BY <1>4 DEF EntriesFollow, Start, Sequence
<1>7. \A i \in DOMAIN answers' : Upto(answers'[i]) <= journal'.last
  BY <1>4 DEF JournalAhead
<1>8. \A i, j \in DOMAIN answers' : i < j => Upto(answers'[i]) <= Upto(answers'[j])
  BY <1>4, <1>5 DEF JournalAhead
<1>9. ASSUME NEW i \in DOMAIN answers, i # k
      PROVE  \E j \in DOMAIN answers' : answers'[j] = answers[i]
  <2>1. CASE i < k
    <3>1. i \in DOMAIN answers' /\ Old(i, k) = i
      BY <1>1, <1>3, <2>1 DEF Old
    <3>. QED  BY <1>4, <3>1
  <2>2. CASE i > k
    <3>1. i - 1 \in DOMAIN answers' /\ Old(i - 1, k) = i
      BY <1>1, <1>3, <2>2 DEF Old
    <3>. QED  BY <1>4, <3>1
  <2>. QED  BY <1>1, <1>9, <2>1, <2>2
<1>. QED  BY <1>1, <1>2, <1>3, <1>4, <1>6, <1>7, <1>8, <1>9

\* A clear stays known when an answer is taken, if it is applied or not a clear.
LEMMA KnownAfter ==
  ASSUME LogTypes, JournalAhead, EntriesFollow, NEW k \in DOMAIN answers,
         answers' = RemoveAt(answers, k), UNCHANGED journal,
         NEW s \in Nat, NEW n \in 1..Len(answers), cursor' \in Nat, cursor' >= cursor,
         answers[k].kind = "clear" => cursor' >= answers[k].sequence,
         ClearKnown(s, Old(n, k))
  PROVE  ClearKnown(s, n)'
<1>1. cursor \in Nat /\ Len(answers) \in Nat /\ DOMAIN answers = 1..Len(answers)
  BY DEF LogTypes, Sequence
<1>4. DOMAIN answers' = 1..Len(answers) - 1
  BY AnswerTaken
<1>2. CASE s <= cursor
  BY <1>1, <1>2 DEF ClearKnown
<1>3. CASE \E i \in 1..Old(n, k) - 1 : answers[i].kind = "clear" /\ s <= answers[i].sequence
  <2>1. PICK i \in 1..Old(n, k) - 1 : answers[i].kind = "clear" /\ s <= answers[i].sequence
    BY <1>3
  <2>2. i \in DOMAIN answers
    BY <1>1, <2>1 DEF Old
  <2>3. CASE i = k
    <3>1. answers[k] \in Answer /\ answers[k].kind = "clear"
      BY <2>1, <2>3 DEF LogTypes
    <3>2. answers[k].sequence \in Nat
      BY <3>1 DEF Answer, Sequence
    <3>3. s <= cursor'
      BY <2>1, <2>3, <3>1, <3>2
    <3>. QED  BY <3>3 DEF ClearKnown
  <2>4. CASE i < k
    <3>1. i \in DOMAIN answers' /\ Old(i, k) = i /\ i \in 1..n - 1
      BY <1>1, <1>4, <2>1, <2>4 DEF Old
    <3>2. answers'[i] = answers[i]
      BY <3>1, AnswerTaken
    <3>. QED  BY <2>1, <3>1, <3>2 DEF ClearKnown
  <2>5. CASE i > k
    <3>1. i - 1 \in DOMAIN answers' /\ Old(i - 1, k) = i /\ i - 1 \in 1..n - 1
      BY <1>1, <1>4, <2>1, <2>2, <2>5 DEF Old
    <3>2. answers'[i - 1] = answers[i]
      BY <3>1, AnswerTaken
    <3>. QED  BY <2>1, <3>1, <3>2 DEF ClearKnown
  <2>. QED  BY <1>1, <2>2, <2>3, <2>4, <2>5
<1>. QED  BY <1>2, <1>3 DEF ClearKnown

-----------------------------------------------------------------------------
(* The steps of the service.                                                *)

\* A read answers with what follows its start, which is no later than needed.
LEMMA BatchShape ==
  ASSUME LogTypes, JournalAhead, NEW after \in Sequence, after <= journal.last,
         NEW b, b = Batch(after)
  PROVE  /\ b \in Answer /\ b.kind = "read" /\ b.cursor = journal.last
         /\ Start(b) \in Sequence /\ \A n \in 1..Len(b.entries) : b.entries[n] = Start(b) + n
         /\ ~b.truncated => Start(b) \in {after, journal.cleared}
<1>1. /\ journal.last \in Sequence /\ journal.dropped \in Sequence /\ journal.cleared \in Sequence
      /\ journal.dropped <= journal.last /\ journal.cleared <= journal.last
      /\ MaxSequence \in Nat
  BY LogBounds DEF LogTypes, JournalAhead
<1>2. PICK seen \in Sequence : /\ seen = Max({after, journal.cleared})
                               /\ seen \in {after, journal.cleared}
  <2>1. after \in Int /\ journal.cleared \in Int
    BY <1>1 DEF Sequence
  <2>2. /\ Max({after, journal.cleared}) \in {after, journal.cleared}
        /\ Max({after, journal.cleared}) \in Sequence
    BY <1>1, <2>1, MaxOfTwo
  <2>. QED  BY <2>2
<1>3. PICK start \in Sequence : /\ start = Max({seen, journal.dropped})
                                /\ start \in {seen, journal.dropped} /\ start >= journal.dropped
                                /\ start >= seen
  <2>1. seen \in Int /\ journal.dropped \in Int
    BY <1>1 DEF Sequence
  <2>2. PICK start : start = Max({seen, journal.dropped})
    OBVIOUS
  <2>3. start \in {seen, journal.dropped} /\ start >= journal.dropped /\ start >= seen
    BY <2>1, <2>2, MaxOfTwo
  <2>4. start \in Sequence
    BY <1>1, <2>3
  <2>. QED  BY <2>2, <2>3, <2>4
<1>4. start <= journal.last /\ seen <= journal.last
  BY <1>1, <1>2, <1>3
<1>5. PICK len \in Nat : len = journal.last - start
  BY <1>1, <1>4 DEF Sequence
<1>6. b = [kind |-> "read", entries |-> [n \in 1..len |-> start + n],
           cursor |-> journal.last, truncated |-> seen < journal.dropped]
  BY <1>2, <1>3, <1>5 DEF Batch
<1>7. PICK entries : entries = [n \in 1..len |-> start + n]
  OBVIOUS
<1>8. entries \in Seq(Nat) /\ Len(entries) = len /\ \A n \in 1..len : entries[n] = start + n
  <2>1. entries \in [1..len -> Nat]
    BY <1>7 DEF Sequence
  <2>. QED  BY <1>7, <2>1, IsSequence
<1>9. /\ b.kind = "read" /\ b.cursor = journal.last /\ b.entries = entries
      /\ b.truncated = (seen < journal.dropped)
  BY <1>6, <1>7
<1>10. b \in Answer
  BY <1>1, <1>6, <1>7, <1>8 DEF Answer
<1>11. Start(b) = start
  BY <1>1, <1>5, <1>8, <1>9 DEF Start, Sequence
<1>12. ~b.truncated => start \in {after, journal.cleared}
  <2>1. ASSUME ~(seen < journal.dropped)
        PROVE  start = seen
    BY <1>1, <1>3, <2>1 DEF Sequence
  <2>. QED  BY <1>2, <1>9, <2>1
<1>. QED  BY <1>8, <1>9, <1>10, <1>11, <1>12

\* A command is logged and announced.
LEMMA JournalSteps ==
  ASSUME MirrorInv, Journaled \/ Announce
  PROVE  MirrorInv'
<1>1. UNCHANGED <<asked, answers, controllerVars, failures, base, evicted, clearLost>>
  BY DEF Journaled, Announce
<1>2. LogTypes /\ JournalAhead /\ (journal.last \in Nat /\ journal.dropped \in Nat /\ journal.cleared \in Nat)
  BY DEF MirrorInv, LogTypes, Sequence
<1>3. /\ journal' \in [last : Sequence, dropped : Sequence, cleared : Sequence]
      /\ journal'.last >= journal.last /\ journal'.cleared = journal.cleared
      /\ journal'.dropped <= journal'.last
      /\ journal' = journal \/ changed'
      /\ changed' \in BOOLEAN /\ announced' \in 0..MaxPending
      /\ changed => changed' \/ announced' > 0
      /\ announced > 0 => announced' > 0
  <2>1. CASE Journaled
    <3>1. PICK d : d = IF journal.last + 1 - Max({journal.dropped, journal.cleared}) > JournalLimit
                       THEN journal.last + 1 - JournalLimit ELSE journal.dropped
      OBVIOUS
    <3>2. journal' = [journal EXCEPT !.last = journal.last + 1, !.dropped = d]
      BY <2>1, <3>1 DEF Journaled
    <3>3. Max({journal.dropped, journal.cleared}) \in Nat
      <4>1. journal.dropped \in Int /\ journal.cleared \in Int
        BY <1>2
      <4>2. Max({journal.dropped, journal.cleared}) \in {journal.dropped, journal.cleared}
        BY <4>1, MaxOfTwo
      <4>. QED  BY <1>2, <4>2
    <3>4. /\ journal.last < MaxSequence /\ journal.dropped <= journal.last
          /\ MaxSequence \in Nat /\ JournalLimit \in Nat
      BY <1>2, <2>1, LogBounds DEF Journaled, JournalAhead
    <3>5. d \in Sequence /\ d <= journal.last + 1 /\ journal.last + 1 \in Sequence
      BY <1>2, <3>1, <3>3, <3>4 DEF Sequence
    <3>6. changed' = TRUE /\ announced' = announced
      BY <2>1 DEF Journaled
    <3>7. /\ journal' \in [last : Sequence, dropped : Sequence, cleared : Sequence]
          /\ journal'.last = journal.last + 1 /\ journal'.cleared = journal.cleared /\ journal'.dropped = d
      BY <1>2, <3>2, <3>5 DEF LogTypes
    <3>8. journal'.last >= journal.last
      BY <1>2, <3>7
    <3>. QED  BY <1>2, <3>5, <3>6, <3>7, <3>8 DEF LogTypes
  <2>2. CASE Announce
    <3>1. /\ changed' = FALSE /\ announced' = announced + 1 /\ journal' = journal
          /\ Len(asked) + Len(answers) + announced < MaxPending
      BY <2>2 DEF Announce, Pending
    <3>2. Len(asked) \in Nat /\ Len(answers) \in Nat /\ announced \in Nat /\ MaxPending \in Nat
      BY <1>2, LogBounds DEF LogTypes
    <3>3. announced + 1 \in 0..MaxPending /\ announced + 1 > 0
      BY <3>1, <3>2
    <3>4. journal'.last >= journal.last /\ journal'.dropped <= journal'.last
      BY <1>2, <3>1 DEF JournalAhead
    <3>. QED  BY <1>2, <3>1, <3>3, <3>4 DEF LogTypes
  <2>. QED  BY <2>1, <2>2
<1>4. LogTypes'
  BY <1>1, <1>2, <1>3 DEF LogTypes, controllerVars
<1>5. JournalAhead'
  <2>1. cursor \in Nat /\ journal'.last \in Nat
    BY <1>2, <1>3 DEF LogTypes, Sequence
  <2>2. journal'.cleared <= journal'.last /\ cursor <= journal'.last
    BY <1>2, <1>3, <2>1 DEF JournalAhead
  <2>3. \A i \in DOMAIN asked : asked[i].kind = "read" => asked[i].after <= journal'.last
    <3>1. ASSUME NEW i \in DOMAIN asked, asked[i].kind = "read"
          PROVE  asked[i].after <= journal'.last
      <4>1. asked[i].after \in Nat /\ asked[i].after <= journal.last
        <5>1. asked[i] \in Asked
          BY <1>2 DEF LogTypes
        <5>. QED  BY <1>2, <3>1, <5>1 DEF JournalAhead, Asked, Sequence
      <4>. QED  BY <1>2, <1>3, <2>1, <4>1
    <3>. QED  BY <3>1
  <2>4. \A i \in DOMAIN answers : Upto(answers[i]) <= journal'.last
    <3>1. ASSUME NEW i \in DOMAIN answers
          PROVE  Upto(answers[i]) <= journal'.last
      <4>1. Upto(answers[i]) \in Nat /\ Upto(answers[i]) <= journal.last
        <5>1. answers[i] \in Answer
          BY <1>2 DEF LogTypes
        <5>. QED  BY <1>2, <5>1 DEF JournalAhead, Answer, Upto, Sequence
      <4>. QED  BY <1>2, <1>3, <2>1, <4>1
    <3>. QED  BY <3>1
  <2>. QED  BY <1>1, <1>2, <1>3, <2>2, <2>3, <2>4 DEF JournalAhead, controllerVars
<1>6. EntriesFollow' /\ SelectionShown'
  BY <1>1 DEF MirrorInv, EntriesFollow, SelectionShown, Newest, controllerVars
<1>7. ~clearLost' => ClearsAhead' /\ Shown'
  BY <1>1, <1>3 DEF MirrorInv, ClearsAhead, ClearKnown, Shown, controllerVars
<1>8. failures' = 0 => WillRead'
  BY <1>1, <1>3 DEF MirrorInv, WillRead, controllerVars
<1>. QED  BY <1>4, <1>5, <1>6, <1>7, <1>8 DEF MirrorInv

\* A call is taken.
LEMMA CallTaken ==
  ASSUME asked \in Seq(Asked), NEW i \in DOMAIN asked, asked' = RemoveAt(asked, i)
  PROVE  /\ asked' \in Seq(Asked)
         /\ \A j \in DOMAIN asked' : \E o \in DOMAIN asked : asked'[j] = asked[o]
<1>1. Len(asked) \in Nat /\ DOMAIN asked = 1..Len(asked)
  OBVIOUS
<1>2. /\ asked' \in Seq(Asked) /\ Len(asked') = Len(asked) - 1
      /\ \A j \in 1..Len(asked) - 1 : asked'[j] = IF j < i THEN asked[j] ELSE asked[j + 1]
  BY LogRemoved
<1>3. DOMAIN asked' = 1..Len(asked) - 1
  BY <1>1, <1>2
<1>4. ASSUME NEW j \in DOMAIN asked'
      PROVE  \E o \in DOMAIN asked : asked'[j] = asked[o]
  <2>1. j \in DOMAIN asked /\ j + 1 \in DOMAIN asked /\ j \in 1..Len(asked) - 1
    BY <1>1, <1>3
  <2>. QED  BY <1>2, <2>1
<1>. QED  BY <1>2, <1>4

\* A call is made.
LEMMA CallMade ==
  ASSUME asked \in Seq(Asked), NEW c \in Asked, asked' = Append(asked, c)
  PROVE  /\ asked' \in Seq(Asked) /\ asked' # <<>>
         /\ \A j \in DOMAIN asked' : asked'[j] = c \/ \E o \in DOMAIN asked : asked'[j] = asked[o]
<1>1. Len(asked) \in Nat /\ DOMAIN asked = 1..Len(asked)
  OBVIOUS
<1>2. /\ asked' \in Seq(Asked) /\ Len(asked') = Len(asked) + 1 /\ asked'[Len(asked) + 1] = c
      /\ \A j \in 1..Len(asked) : asked'[j] = asked[j]
  BY <1>1
<1>3. DOMAIN asked' = 1..Len(asked) + 1 /\ asked' # <<>>
  BY <1>1, <1>2
<1>4. \A j \in DOMAIN asked' : j = Len(asked) + 1 \/ j \in DOMAIN asked
  BY <1>1, <1>3
<1>. QED  BY <1>1, <1>2, <1>3, <1>4

\* An answer is sent.
LEMMA AnswerSent ==
  ASSUME answers \in Seq(Answer), NEW a \in Answer, answers' = Append(answers, a)
  PROVE  /\ answers' \in Seq(Answer) /\ Len(answers) \in Nat /\ Len(answers') = Len(answers) + 1
         /\ DOMAIN answers = 1..Len(answers) /\ DOMAIN answers' = 1..Len(answers) + 1
         /\ answers'[Len(answers) + 1] = a
         /\ \A i \in DOMAIN answers :
              answers'[i] = answers[i] /\ i \in DOMAIN answers' /\ i < Len(answers) + 1
         /\ \A i \in DOMAIN answers' : i = Len(answers) + 1 \/ i \in DOMAIN answers
         /\ \A s : \A n \in 1..Len(answers) + 1, l \in 1..Len(answers) + 2 :
              n <= l /\ UNCHANGED cursor /\ ClearKnown(s, n) => ClearKnown(s, l)'
<1>1. Len(answers) \in Nat /\ DOMAIN answers = 1..Len(answers)
  OBVIOUS
<1>2. /\ answers' \in Seq(Answer) /\ Len(answers') = Len(answers) + 1 /\ answers'[Len(answers) + 1] = a
      /\ \A i \in 1..Len(answers) : answers'[i] = answers[i]
  BY <1>1
<1>3. DOMAIN answers' = 1..Len(answers) + 1
  BY <1>1, <1>2
<1>4. ASSUME NEW s, NEW n \in 1..Len(answers) + 1, UNCHANGED cursor, ClearKnown(s, n),
             NEW l \in 1..Len(answers) + 2, n <= l
      PROVE  ClearKnown(s, l)'
  <2>1. CASE s <= cursor
    BY <1>4, <2>1 DEF ClearKnown
  <2>2. CASE \E i \in 1..n - 1 : answers[i].kind = "clear" /\ s <= answers[i].sequence
    <3>1. PICK i \in 1..n - 1 : answers[i].kind = "clear" /\ s <= answers[i].sequence
      BY <2>2
    <3>2. i \in 1..Len(answers) /\ i \in 1..l - 1
      BY <1>1, <1>4
    <3>. QED  BY <1>2, <3>1, <3>2 DEF ClearKnown
  <2>. QED  BY <1>4, <2>1, <2>2 DEF ClearKnown
<1>6. \A s : \A n \in 1..Len(answers) + 1, l \in 1..Len(answers) + 2 :
        n <= l /\ UNCHANGED cursor /\ ClearKnown(s, n) => ClearKnown(s, l)'
  BY <1>4
<1>7. \A i \in DOMAIN answers' : i = Len(answers) + 1 \/ i \in DOMAIN answers
  BY <1>1, <1>3
<1>8. \A i \in DOMAIN answers : i \in DOMAIN answers' /\ i < Len(answers) + 1
  BY <1>1, <1>3
<1>. QED  BY <1>1, <1>2, <1>3, <1>6, <1>7, <1>8

\* The service serves a read or a clear.
LEMMA ServeStep ==
  ASSUME MirrorInv, NEW k \in DOMAIN asked, ServeLogs(k)
  PROVE  MirrorInv'
<1>1. /\ asked' = RemoveAt(asked, k)
      /\ UNCHANGED <<changed, announced, controllerVars, failures, base, evicted, clearLost>>
  BY DEF ServeLogs
<1>2. /\ LogTypes /\ JournalAhead /\ EntriesFollow
      /\ journal.last \in Nat /\ journal.cleared \in Nat /\ journal.last \in Sequence /\ cursor \in Nat
      /\ asked \in Seq(Asked) /\ answers \in Seq(Answer) /\ asked[k] \in Asked
  BY DEF MirrorInv, LogTypes, Sequence
<1>3. asked' \in Seq(Asked) /\ \A j \in DOMAIN asked' : \E o \in DOMAIN asked : asked'[j] = asked[o]
  BY <1>1, <1>2, CallTaken
<1>4. PICK a \in Answer :
        /\ answers' = Append(answers, a) /\ Upto(a) = journal.last
        /\ a.kind = "read" =>
             /\ journal' = journal
             /\ Start(a) \in Sequence /\ \A n \in 1..Len(a.entries) : a.entries[n] = Start(a) + n
             /\ ~a.truncated => Start(a) = journal.cleared \/ (~clearLost => Start(a) <= cursor)
        /\ a.kind # "read" => /\ a.kind = "clear" /\ journal' = [journal EXCEPT !.cleared = journal.last]
                              /\ a.sequence = journal.last
  <2>1. CASE asked[k].kind = "read"
    <3>1. PICK after \in Sequence : after = asked[k].after
      BY <1>2, <2>1 DEF Asked
    <3>2. after <= journal.last /\ (~clearLost => after <= cursor)
      BY <1>2, <2>1, <3>1 DEF MirrorInv, JournalAhead, ClearsAhead
    <3>3. PICK b : b = Batch(after)
      OBVIOUS
    <3>4. answers' = Append(answers, b) /\ journal' = journal
      BY <2>1, <3>1, <3>3 DEF ServeLogs
    <3>5. /\ b \in Answer /\ b.kind = "read" /\ b.cursor = journal.last
          /\ Start(b) \in Sequence /\ \A n \in 1..Len(b.entries) : b.entries[n] = Start(b) + n
          /\ ~b.truncated => Start(b) \in {after, journal.cleared}
      BY <1>2, <3>2, <3>3, BatchShape
    <3>6. Upto(b) = journal.last
      BY <3>5 DEF Upto
    <3>. QED  BY <3>2, <3>4, <3>5, <3>6
  <2>2. CASE asked[k].kind # "read"
    <3>1. PICK b : b = [kind |-> "clear", sequence |-> journal.last]
      OBVIOUS
    <3>2. answers' = Append(answers, b) /\ journal' = [journal EXCEPT !.cleared = journal.last]
      BY <2>2, <3>1 DEF ServeLogs
    <3>3. b \in Answer /\ b.kind = "clear" /\ b.sequence = journal.last
      BY <1>2, <3>1 DEF Answer
    <3>. QED  BY <3>2, <3>3 DEF Upto
  <2>. QED  BY <2>1, <2>2
<1>5. PICK len \in Nat : len = Len(answers)
  BY <1>2
<1>6. /\ answers' \in Seq(Answer) /\ Len(answers') = len + 1
      /\ DOMAIN answers = 1..len /\ DOMAIN answers' = 1..len + 1
      /\ answers'[len + 1] = a
      /\ \A i \in DOMAIN answers : answers'[i] = answers[i] /\ i \in DOMAIN answers' /\ i < len + 1
      /\ \A i \in DOMAIN answers' : i = len + 1 \/ i \in DOMAIN answers
      /\ \A s : \A n \in 1..len + 1, l \in 1..len + 2 :
           n <= l /\ UNCHANGED cursor /\ ClearKnown(s, n) => ClearKnown(s, l)'
  BY <1>2, <1>4, <1>5, AnswerSent
<1>7. UNCHANGED cursor
  BY <1>1 DEF controllerVars
<1>8. /\ journal' \in [last : Sequence, dropped : Sequence, cleared : Sequence]
      /\ journal'.last = journal.last /\ journal'.dropped = journal.dropped
      /\ journal'.cleared = IF a.kind = "read" THEN journal.cleared ELSE journal.last
  BY <1>2, <1>4 DEF LogTypes
<1>9. LogTypes'
  BY <1>1, <1>2, <1>3, <1>6, <1>8 DEF LogTypes, controllerVars
<1>10. \A i \in DOMAIN answers' : Upto(answers'[i]) <= journal'.last
  BY <1>2, <1>4, <1>6, <1>8 DEF JournalAhead
<1>11. \A i, j \in DOMAIN answers' : i < j => Upto(answers'[i]) <= Upto(answers'[j])
  <2>1. ASSUME NEW i \in DOMAIN answers', NEW j \in DOMAIN answers', i < j
        PROVE  Upto(answers'[i]) <= Upto(answers'[j])
    <3>1. i \in DOMAIN answers /\ answers'[i] = answers[i]
      BY <1>6, <2>1
    <3>2. CASE j = len + 1
      BY <1>2, <1>4, <1>6, <3>1, <3>2 DEF JournalAhead
    <3>3. CASE j \in DOMAIN answers
      BY <1>2, <1>6, <2>1, <3>1, <3>3 DEF JournalAhead
    <3>. QED  BY <1>6, <3>2, <3>3
  <2>. QED  BY <2>1
<1>12. JournalAhead'
  <2>1. journal'.cleared <= journal'.last
    BY <1>2, <1>8 DEF JournalAhead
  <2>2. \A j \in DOMAIN asked' : asked'[j].kind = "read" => asked'[j].after <= journal'.last
    BY <1>2, <1>3, <1>8 DEF JournalAhead
  <2>. QED  BY <1>1, <1>2, <1>8, <1>10, <1>11, <2>1, <2>2 DEF JournalAhead, controllerVars
<1>13. EntriesFollow'
  BY <1>2, <1>4, <1>6 DEF EntriesFollow
<1>14. SelectionShown'
  BY <1>1 DEF MirrorInv, SelectionShown, controllerVars
<1>15. ASSUME ~clearLost
       PROVE  ClearsAhead' /\ Shown'
  <2>1. ClearsAhead /\ Shown
    BY <1>15 DEF MirrorInv
  <2>2. Shown'
    BY <1>1, <2>1 DEF Shown, controllerVars
  <2>3. \A j \in DOMAIN asked' : asked'[j].kind = "read" => asked'[j].after <= cursor'
    BY <1>3, <1>7, <2>1 DEF ClearsAhead
  <2>4. \A i \in DOMAIN answers' : answers'[i].kind = "clear" => cursor' <= answers'[i].sequence
    <3>1. cursor <= journal.last
      BY <1>2 DEF JournalAhead
    <3>. QED  BY <1>4, <1>6, <1>7, <2>1, <3>1 DEF ClearsAhead
  <2>5. PICK n \in 1..len + 2 : n = len + 2
    OBVIOUS
  <2>6. ClearKnown(journal.cleared, len + 1)
    BY <1>5, <2>1 DEF ClearsAhead
  <2>7. ClearKnown(journal.cleared, Len(answers) + 1)'
    <3>1. PICK c : c = journal'.cleared
      OBVIOUS
    <3>2. CASE a.kind = "read"
      <4>1. c = journal.cleared /\ len + 1 \in 1..len + 1 /\ len + 1 <= n
        BY <1>8, <2>5, <3>1, <3>2
      <4>2. ClearKnown(c, n)'
        BY <1>6, <1>7, <2>6, <4>1
      <4>. QED  BY <1>6, <2>5, <3>1, <4>2 DEF ClearKnown
    <3>3. CASE a.kind # "read"
      <4>1. answers'[len + 1].kind = "clear" /\ journal'.cleared <= answers'[len + 1].sequence
        BY <1>2, <1>4, <1>6, <1>8, <3>3
      <4>2. len + 1 \in 1..Len(answers') + 1 - 1
        BY <1>6
      <4>. QED  BY <4>1, <4>2 DEF ClearKnown
    <3>. QED  BY <3>2, <3>3
  <2>8. ASSUME NEW i \in DOMAIN answers', answers'[i].kind = "read", ~answers'[i].truncated
        PROVE  ClearKnown(Start(answers[i]), i)'
    <3>1. PICK s : s = Start(answers'[i])
      OBVIOUS
    <3>2. i \in 1..len + 1 /\ i \in 1..len + 2 /\ i <= i
      BY <1>6
    <3>3. ClearKnown(s, i)
      <4>1. CASE i = len + 1
        <5>1. s = journal.cleared \/ s <= cursor
          BY <1>4, <1>6, <1>15, <2>8, <3>1, <4>1
        <5>. QED  BY <2>6, <4>1, <5>1 DEF ClearKnown
      <4>2. CASE i \in DOMAIN answers
        BY <1>6, <2>1, <2>8, <3>1, <4>2 DEF ClearsAhead
      <4>. QED  BY <1>6, <4>1, <4>2
    <3>4. ClearKnown(s, i)'
      BY <1>6, <1>7, <3>2, <3>3
    <3>. QED  BY <3>1, <3>4 DEF ClearKnown, Start
  <2>. QED  BY <1>1, <1>7, <2>1, <2>2, <2>3, <2>4, <2>7, <2>8 DEF ClearsAhead
<1>16. WillRead'
  <2>1. answers'[len + 1].kind = "clear" \/ answers'[len + 1].cursor = journal'.last
    <3>1. a.kind = "read" => a.cursor = journal.last
      BY <1>4 DEF Upto
    <3>. QED  BY <1>4, <1>6, <1>8, <3>1
  <2>. QED  BY <1>6, <2>1 DEF WillRead
<1>. QED  BY <1>1, <1>9, <1>12, <1>13, <1>14, <1>15, <1>16 DEF MirrorInv

-----------------------------------------------------------------------------
(* The steps of the window.                                                 *)

\* The window asks for the journal or for a clear.
LEMMA CallStep ==
  ASSUME MirrorInv, SyncLogJournal \/ ClearLogJournal
  PROVE  MirrorInv'
<1>1. UNCHANGED <<journal, changed, answers, controllerVars, failures, base, evicted, clearLost>>
  BY DEF SyncLogJournal, ClearLogJournal, journalVars
<1>2. /\ LogTypes /\ JournalAhead /\ cursor \in Sequence /\ asked \in Seq(Asked)
      /\ announced \in 0..MaxPending /\ MaxPending \in Nat
  BY LogBounds DEF MirrorInv, LogTypes
<1>3. PICK c \in Asked : asked' = Append(asked, c) /\ (c.kind = "read" => c.after = cursor)
  <2>1. CASE SyncLogJournal
    <3>1. PICK c : c = ReadCall(cursor)
      OBVIOUS
    <3>2. c \in Asked /\ c.after = cursor
      BY <1>2, <3>1 DEF ReadCall, Asked
    <3>3. asked' = Append(asked, c)
      BY <2>1, <3>1 DEF SyncLogJournal, Call
    <3>. QED  BY <3>2, <3>3
  <2>2. CASE ClearLogJournal
    <3>1. PICK c : c = [kind |-> "clear"]
      OBVIOUS
    <3>2. c \in Asked /\ c.kind = "clear"
      BY <3>1 DEF Asked
    <3>3. asked' = Append(asked, c)
      BY <2>2, <3>1 DEF ClearLogJournal, Call
    <3>. QED  BY <3>2, <3>3
  <2>. QED  BY <2>1, <2>2
<1>4. /\ asked' \in Seq(Asked) /\ asked' # <<>>
      /\ \A j \in DOMAIN asked' : asked'[j] = c \/ \E o \in DOMAIN asked : asked'[j] = asked[o]
  BY <1>2, <1>3, CallMade
<1>5. announced' \in 0..MaxPending
  <2>1. CASE SyncLogJournal
    BY <1>2, <2>1 DEF SyncLogJournal
  <2>2. CASE ClearLogJournal
    BY <1>2, <2>2 DEF ClearLogJournal, journalVars
  <2>. QED  BY <2>1, <2>2
<1>6. LogTypes'
  BY <1>1, <1>2, <1>4, <1>5 DEF LogTypes, controllerVars
<1>7. JournalAhead'
  <2>1. \A j \in DOMAIN asked' : asked'[j].kind = "read" => asked'[j].after <= journal.last
    BY <1>2, <1>3, <1>4 DEF JournalAhead
  <2>. QED  BY <1>1, <1>2, <2>1 DEF JournalAhead, controllerVars
<1>8. EntriesFollow' /\ SelectionShown'
  BY <1>1 DEF MirrorInv, EntriesFollow, SelectionShown, Newest, controllerVars
<1>9. ASSUME ~clearLost
      PROVE  ClearsAhead' /\ Shown'
  <2>1. ClearsAhead /\ Shown
    BY <1>9 DEF MirrorInv
  <2>2. cursor <= cursor
    BY <1>2 DEF Sequence
  <2>3. \A j \in DOMAIN asked' : asked'[j].kind = "read" => asked'[j].after <= cursor
    BY <1>3, <1>4, <2>1, <2>2 DEF ClearsAhead
  <2>4. ClearsAhead'
    BY <1>1, <2>1, <2>3 DEF ClearsAhead, ClearKnown, controllerVars
  <2>5. Shown'
    BY <1>1, <2>1 DEF Shown, controllerVars
  <2>. QED  BY <2>4, <2>5
<1>10. WillRead'
  BY <1>4 DEF WillRead
<1>. QED  BY <1>1, <1>6, <1>7, <1>8, <1>9, <1>10 DEF MirrorInv

\* A record is selected: the list is followed if it is the newest.
LEMMA SelectStep ==
  ASSUME MirrorInv, NEW r \in ToSet(records), SelectRecord(r)
  PROVE  MirrorInv'
<1>1. /\ selectedId' = r /\ followLive' = (r = Last(records))
      /\ UNCHANGED <<journal, changed, announced, asked, answers, records, cursor, historyTruncated,
                     failures, base, evicted, clearLost>>
  BY DEF SelectRecord, journalVars
<1>2. records # <<>>
  BY DEF ToSet
<1>3. SelectionShown'
  BY <1>1, <1>2 DEF SelectionShown, Newest
<1>4. followLive' \in BOOLEAN
  BY <1>1
<1>5. LogTypes'
  BY <1>1, <1>4 DEF MirrorInv, LogTypes
<1>6. JournalAhead' /\ EntriesFollow'
  BY <1>1 DEF MirrorInv, JournalAhead, EntriesFollow
<1>7. ~clearLost' => ClearsAhead' /\ Shown'
  BY <1>1 DEF MirrorInv, ClearsAhead, ClearKnown, Shown
<1>8. failures' = 0 => WillRead'
  BY <1>1 DEF MirrorInv, WillRead
<1>. QED  BY <1>3, <1>5, <1>6, <1>7, <1>8 DEF MirrorInv

\* The clears ahead of the window stay so when a read is lost, or applied with no
\* clear before it.
LEMMA ReadTaken ==
  ASSUME MirrorInv, ~clearLost, NEW k \in DOMAIN answers, answers' = RemoveAt(answers, k),
         answers[k].kind = "read", UNCHANGED <<journal, base>>, asked' = asked,
         \/ cursor' = cursor
         \/ /\ cursor' = answers[k].cursor /\ cursor <= answers[k].cursor
            /\ \A j \in 1..k - 1 : answers[j].kind # "clear"
  PROVE  ClearsAhead'
<1>1. /\ LogTypes /\ JournalAhead /\ EntriesFollow /\ ClearsAhead
      /\ cursor \in Nat /\ base \in Nat /\ journal.cleared \in Nat /\ Len(answers) \in Nat
      /\ DOMAIN answers = 1..Len(answers) /\ k \in 1..Len(answers)
  BY DEF MirrorInv, LogTypes, Sequence
<1>2. answers[k] \in Answer /\ answers[k].cursor \in Nat /\ Upto(answers[k]) = answers[k].cursor
  <2>1. answers[k] \in Answer
    BY <1>1 DEF LogTypes
  <2>. QED  BY <2>1 DEF Answer, Sequence, Upto
<1>3. cursor' \in Nat /\ cursor' >= cursor
  BY <1>1, <1>2
<1>4. /\ Len(answers') = Len(answers) - 1 /\ DOMAIN answers' = 1..Len(answers) - 1
      /\ answers' \in Seq(Answer)
      /\ \A i \in DOMAIN answers' :
           /\ Old(i, k) \in DOMAIN answers /\ answers'[i] = answers[Old(i, k)] /\ Old(i, k) # k
  BY <1>1, AnswerTaken
<1>5. base' <= cursor'
  BY <1>1, <1>3 DEF ClearsAhead
<1>6. ASSUME NEW i \in DOMAIN asked', asked'[i].kind = "read"
      PROVE  asked'[i].after <= cursor'
  <2>1. asked[i] \in Asked /\ asked[i].kind = "read" /\ asked[i].after <= cursor
    BY <1>1, <1>6 DEF LogTypes, ClearsAhead
  <2>2. asked[i].after \in Nat
    BY <2>1 DEF Asked, Sequence
  <2>. QED  BY <1>1, <1>3, <2>1, <2>2
<1>7. ASSUME NEW i \in DOMAIN answers', answers'[i].kind = "clear"
      PROVE  cursor' <= answers'[i].sequence
  <2>1. PICK o \in DOMAIN answers : o = Old(i, k) /\ o # k /\ answers'[i] = answers[o]
    BY <1>4
  <2>2. answers[o].kind = "clear" /\ cursor <= answers[o].sequence
    BY <1>1, <1>7, <2>1 DEF ClearsAhead
  <2>3. CASE cursor' = cursor
    BY <2>1, <2>2, <2>3
  <2>4. CASE cursor' = answers[k].cursor /\ \A j \in 1..k - 1 : answers[j].kind # "clear"
    <3>1. o > k
      BY <1>1, <2>1, <2>2, <2>4
    <3>2. Upto(answers[k]) <= Upto(answers[o])
      BY <1>1, <3>1 DEF JournalAhead
    <3>3. answers[k].cursor <= answers[o].sequence
      BY <1>2, <2>2, <3>2 DEF Upto
    <3>. QED  BY <2>1, <2>4, <3>3
  <2>. QED  BY <2>3, <2>4
<1>8. PICK last \in 1..Len(answers) : last = Len(answers)
  <2>1. Len(answers) \in 1..Len(answers)
    BY <1>1
  <2>. QED  BY <2>1
<1>9. ClearKnown(journal.cleared, Old(last, k))
  <2>1. Old(last, k) = Len(answers) + 1
    BY <1>1, <1>8 DEF Old
  <2>. QED  BY <1>1, <2>1 DEF ClearsAhead
<1>10. ClearKnown(journal.cleared, Len(answers) + 1)'
  <2>1. PICK s \in Nat : s = journal.cleared
    BY <1>1
  <2>2. ClearKnown(s, last)'
    BY <1>1, <1>3, <1>9, <2>1, KnownAfter
  <2>3. Len(answers') + 1 = last
    BY <1>1, <1>4, <1>8
  <2>. QED  BY <2>1, <2>2, <2>3 DEF ClearKnown
<1>11. ASSUME NEW i \in DOMAIN answers', answers'[i].kind = "read", ~answers'[i].truncated
       PROVE  ClearKnown(Start(answers[i]), i)'
  <2>1. PICK o \in DOMAIN answers : o = Old(i, k) /\ answers'[i] = answers[o]
    BY <1>4
  <2>2. PICK s \in Nat : s = Start(answers[o])
    BY <1>1, <1>11, <2>1 DEF EntriesFollow, Sequence
  <2>3. ClearKnown(s, Old(i, k))
    BY <1>1, <1>11, <2>1, <2>2 DEF ClearsAhead
  <2>4. i \in 1..Len(answers)
    BY <1>1, <1>4
  <2>5. ClearKnown(s, i)'
    BY <1>1, <1>3, <2>3, <2>4, KnownAfter
  <2>. QED  BY <2>1, <2>2, <2>5 DEF ClearKnown, Start
<1>. QED  BY <1>5, <1>6, <1>7, <1>10, <1>11 DEF ClearsAhead

\* What a read brings is shown after what was: it leaves a gap only if it says so.
LEMMA BatchApplied ==
  ASSUME LogTypes, NEW b \in Answer, b.kind = "read", Start(b) \in Sequence,
         \A n \in 1..Len(b.entries) : b.entries[n] = Start(b) + n,
         cursor < b.cursor, ApplyBatch(b)
  PROVE  /\ records' \in Seq(LogRecord) /\ Fits(records') /\ evicted' \in Seq(LogRecord)
         /\ cursor' = b.cursor /\ followLive' = followLive /\ historyTruncated' \in BOOLEAN
         /\ SelectionShown => SelectionShown'
         /\ /\ Shown /\ base <= cursor /\ UNCHANGED base
            /\ ~b.truncated => Start(b) <= cursor
            => Shown'
<1>1. /\ cursor \in Nat /\ base \in Nat /\ records \in Seq(LogRecord) /\ Len(records) \in Nat
      /\ historyTruncated \in BOOLEAN /\ Fits(records) /\ evicted \in Seq(LogRecord)
  BY DEF LogTypes, Sequence
<1>2. /\ b.entries \in Seq(Nat) /\ b.cursor \in Nat /\ b.cursor <= MaxSequence
      /\ b.truncated \in BOOLEAN
  BY DEF Answer, Sequence
<1>3. PICK start \in Nat, all \in Nat :
        start = Start(b) /\ all = Len(b.entries) /\ b.cursor = start + all
  <2>1. Start(b) \in Nat /\ Len(b.entries) \in Nat /\ Start(b) = b.cursor - Len(b.entries)
    BY <1>2 DEF Start, Sequence
  <2>2. b.cursor = Start(b) + Len(b.entries)
    BY <1>2, <2>1
  <2>. QED  BY <2>1, <2>2
<1>4. PICK k \in Nat : k = (IF cursor <= start THEN 0 ELSE cursor - start) /\ k <= all
  BY <1>1, <1>3
<1>5. PICK from \in Nat, len \in Nat :
        /\ from = start + k /\ len = all - k /\ from >= cursor /\ from + len = b.cursor
        /\ len = 0 => start > cursor
        /\ start <= cursor => from = cursor
  <2>1. start + k \in Nat /\ all - k \in Nat /\ start + k >= cursor /\ start + k + (all - k) = b.cursor
    <3>1. start + k + (all - k) = start + all /\ all - k \in Nat
      BY <1>4
    <3>2. CASE cursor <= start
      BY <1>1, <1>3, <1>4, <3>1, <3>2
    <3>3. CASE cursor > start
      <4>1. k = cursor - start
        BY <1>1, <1>4, <3>3
      <4>2. start + k = cursor
        BY <1>1, <4>1
      <4>3. start + k + (all - k) = b.cursor
        BY <1>3, <3>1
      <4>4. start + k \in Nat /\ start + k >= cursor
        BY <1>1, <4>2
      <4>. QED  BY <3>1, <4>3, <4>4
    <3>. QED  BY <1>1, <3>2, <3>3
  <2>2. all - k = 0 => start > cursor
    BY <1>1, <1>3, <1>4
  <2>3. start <= cursor => start + k = cursor
    BY <1>1, <1>3, <1>4
  <2>. QED  BY <2>1, <2>2, <2>3
<1>6. PICK new : new = AfterCursor(b.entries)
  OBVIOUS
<1>7. new = [n \in 1..len |-> from + n]
  <2>1. PICK entries \in Seq(Nat) : entries = b.entries
    BY <1>2
  <2>2. \A n \in 1..Len(entries) : entries[n] = start + n
    BY <1>3, <2>1
  <2>3. k <= Len(entries)
    BY <1>3, <1>4, <2>1
  <2>4. AfterCursor(entries) = [n \in 1..Len(entries) - k |-> start + k + n]
    BY <1>1, <1>4, <2>2, <2>3, EntriesAfterCursor
  <2>. QED  BY <1>3, <1>5, <1>6, <2>1, <2>4
<1>8. /\ IF new = <<>> THEN UNCHANGED <<records, evicted, selectedId>>
         ELSE CommitRecords(records \o [n \in DOMAIN new |-> KitRecord(new[n])])
      /\ cursor' = b.cursor /\ historyTruncated' = (historyTruncated \/ b.truncated)
      /\ followLive' = followLive
  <2>1. ~(b.cursor <= cursor)
    BY <1>1, <1>2
  <2>. QED  BY <1>6, <2>1 DEF ApplyBatch
<1>9. historyTruncated' \in BOOLEAN /\ (~historyTruncated' => ~historyTruncated /\ ~b.truncated)
  BY <1>1, <1>2, <1>8
<1>11. CASE len = 0
  <2>1. new = <<>>
    BY <1>7, <1>11
  <2>2. UNCHANGED <<records, evicted, selectedId>>
    BY <1>8, <2>1
  <2>3. ASSUME Shown, base <= cursor, UNCHANGED base, ~b.truncated => Start(b) <= cursor
        PROVE  Shown'
    <3>1. historyTruncated'
      <4>1. ~(start <= cursor)
        BY <1>1, <1>5, <1>11
      <4>2. b.truncated
        BY <1>3, <2>3, <4>1
      <4>. QED  BY <1>8, <4>2
    <3>2. PICK list : list = evicted \o records
      OBVIOUS
    <3>3. Increasing(list) /\ KitsOf(list) \subseteq base + 1..cursor
      BY <2>3, <3>2 DEF Shown
    <3>4. KitsOf(list) \subseteq base + 1..b.cursor
      BY <1>1, <1>2, <3>3
    <3>5. evicted' \o records' = list /\ base' = base /\ cursor' = b.cursor
      BY <1>8, <2>2, <2>3, <3>2
    <3>6. KitsOf(evicted' \o records') \subseteq base' + 1..cursor'
      BY <3>4, <3>5
    <3>. QED  BY <3>1, <3>3, <3>5, <3>6 DEF Shown
  <2>4. SelectionShown => SelectionShown'
    BY <1>8, <2>2 DEF SelectionShown, Newest
  <2>. QED  BY <1>1, <1>8, <1>9, <2>2, <2>3, <2>4
<1>12. CASE len # 0
  <2>1. PICK add : add = [n \in 1..len |-> KitRecord(from + n)]
    OBVIOUS
  <2>2. [n \in DOMAIN new |-> KitRecord(new[n])] = add
    BY <1>7, <2>1
  <2>3. new # <<>>
    <3>1. 1 \in DOMAIN new
      BY <1>7, <1>12
    <3>. QED  BY <3>1
  <2>9. PICK ext : ext = records \o add
    OBVIOUS
  <2>4. CommitRecords(ext)
    BY <1>8, <2>2, <2>3, <2>9
  <2>10. add \in Seq(LogRecord) /\ Len(add) = len /\ \A n \in 1..len : add[n] = KitRecord(from + n)
    <3>1. add \in [1..len -> LogRecord]
      <4>1. \A n \in 1..len : from + n \in 1..MaxSequence
        BY <1>2, <1>5, LogBounds
      <4>. QED  BY <2>1, <4>1 DEF KitRecord, LogRecord
    <3>2. \A n \in 1..len : add[n] = KitRecord(from + n)
      BY <2>1
    <3>. QED  BY <3>1, <3>2, IsSequence
  <2>5. ext \in Seq(LogRecord) /\ Len(ext) = Len(records) + len
    BY <1>1, <2>9, <2>10, OneAfterAnother
  <2>7. records' \in Seq(LogRecord) /\ Fits(records') /\ evicted' \in Seq(LogRecord) /\ SelectionShown'
    BY <1>1, <1>8, <2>4, <2>5, Committed
  <2>8. ASSUME Shown, base <= cursor, UNCHANGED base, ~b.truncated => Start(b) <= cursor
        PROVE  Shown'
    <3>1. PICK list \in Seq(LogRecord) :
            /\ list = evicted \o records /\ Increasing(list) /\ KitsOf(list) \subseteq base + 1..cursor
      <4>1. evicted \o records \in Seq(LogRecord)
        BY <1>1, OneAfterAnother
      <4>. QED  BY <2>8, <4>1 DEF Shown
    <3>2. Increasing(records) /\ KitsOf(records) \subseteq KitsOf(list)
      BY <1>1, <3>1, LaterIncreases
    <3>3. EndsBy(list, from) /\ EndsBy(records, from) /\ FollowOn(add, from)
      <4>1. \A s \in KitsOf(list) : s <= from
        BY <1>1, <1>5, <3>1
      <4>2. FollowOn(add, from)
        BY <2>10 DEF FollowOn
      <4>. QED  BY <3>2, <4>1, <4>2 DEF EndsBy
    <3>7. /\ Increasing(list \o add) /\ KitsOf(list \o add) = KitsOf(list) \cup (from + 1..from + len)
          /\ KitsOf(ext) = KitsOf(records) \cup (from + 1..from + len)
      <4>1. from \in Nat /\ add \in Seq(LogRecord) /\ Len(add) = len
        BY <1>5, <2>10
      <4>2. PICK rs \in Seq(LogRecord) : rs = records
        BY <1>1
      <4>3. Increasing(rs) /\ EndsBy(rs, from)
        BY <3>2, <3>3, <4>2
      <4>4. KitsOf(rs \o add) = KitsOf(rs) \cup (from + 1..from + Len(add))
        BY <3>3, <4>1, <4>3, EntriesAdded
      <4>5. Increasing(list \o add) /\ KitsOf(list \o add) = KitsOf(list) \cup (from + 1..from + Len(add))
        <5>1. list \in Seq(LogRecord) /\ Increasing(list) /\ EndsBy(list, from) /\ FollowOn(add, from)
          BY <3>1, <3>3
        <5>. QED  BY <4>1, <5>1, EntriesAdded
      <4>. QED  BY <2>9, <4>1, <4>2, <4>4, <4>5
    <3>8. evicted \o ext = list \o add
      <4>1. evicted \o (records \o add) = (evicted \o records) \o add
        BY <1>1, <2>10, Associative
      <4>. QED  BY <2>9, <3>1, <4>1, Zenon
    <3>4. KitsOf(evicted \o ext) \subseteq base + 1..cursor'
      <4>1. \A s \in KitsOf(list) : s \in base + 1..b.cursor
        BY <1>1, <1>2, <3>1
      <4>2. \A s \in from + 1..from + len : s \in base + 1..b.cursor
        <5>1. from \in Nat /\ from >= base /\ from + len = b.cursor
          BY <1>1, <1>5, <2>8
        <5>. QED  BY <1>1, <1>5, <5>1
      <4>. QED  BY <1>8, <3>7, <3>8, <4>1, <4>2
    <3>5. historyTruncated' \/ \E lo \in base..cursor' :
            KitsOf(ext) = lo + 1..cursor' /\ (Fits(evicted \o ext) => lo = base)
      <4>1. SUFFICES ASSUME ~historyTruncated'
                     PROVE  \E lo \in base..cursor' :
                              KitsOf(ext) = lo + 1..cursor' /\ (Fits(evicted \o ext) => lo = base)
        OBVIOUS
      <4>2. PICK lo \in base..cursor :
              KitsOf(records) = lo + 1..cursor /\ (Fits(evicted \o records) => lo = base)
        BY <1>9, <2>8, <4>1 DEF Shown
      <4>3. from = cursor /\ cursor + len = b.cursor
        BY <1>3, <1>5, <1>9, <2>8, <4>1
      <4>4. KitsOf(ext) = (lo + 1..cursor) \cup (cursor + 1..b.cursor)
        BY <3>7, <4>2, <4>3
      <4>5. (lo + 1..cursor) \cup (cursor + 1..b.cursor) = lo + 1..b.cursor /\ lo \in base..b.cursor
        BY <1>1, <1>2, <4>2
      <4>6. Fits(evicted \o ext) => lo = base
        BY <1>1, <2>9, <2>10, <4>2, BeforeBoth
      <4>. QED  BY <1>8, <4>4, <4>5, <4>6
    <3>6. cursor' \in Nat /\ UNCHANGED <<followLive, base>>
      BY <1>2, <1>8, <2>8
    <3>. QED  BY <1>1, <2>4, <2>5, <3>4, <3>5, <3>6, <3>7, <3>8, CommittedShown
  <2>. QED  BY <1>8, <1>9, <2>7, <2>8
<1>. QED  BY <1>11, <1>12

\* The answer to a read arrives.
LEMMA ReadAnswered ==
  ASSUME MirrorInv, NEW k \in DOMAIN answers, LogAnswer(k), answers[k].kind = "read"
  PROVE  MirrorInv'
<1>1. /\ LogTypes /\ JournalAhead /\ EntriesFollow /\ SelectionShown
      /\ cursor \in Sequence /\ cursor \in Nat /\ journal.last \in Nat /\ answers \in Seq(Answer)
      /\ DOMAIN answers = 1..Len(answers) /\ Len(answers) \in Nat
  BY DEF MirrorInv, LogTypes, Sequence
<1>2. /\ answers' = RemoveAt(answers, k) /\ UNCHANGED <<journal, changed, announced, asked, base, failures>>
      /\ clearLost' = (clearLost \/ \E j \in 1..k-1 : answers[j].kind = "clear")
      /\ ApplyBatch(answers[k])
  BY DEF LogAnswer, journalVars
<1>3. PICK b \in Answer :
        /\ b = answers[k] /\ b.kind = "read" /\ b.cursor \in Sequence /\ b.cursor \in Nat
        /\ Start(b) \in Sequence /\ \A n \in 1..Len(b.entries) : b.entries[n] = Start(b) + n
        /\ b.cursor <= journal.last
  <2>1. answers[k] \in Answer
    BY <1>1
  <2>2. answers[k].cursor \in Sequence /\ answers[k].cursor \in Nat
    BY <2>1 DEF Answer, Sequence
  <2>3. answers[k].cursor <= journal.last
    BY <1>1 DEF JournalAhead, Upto
  <2>. QED  BY <1>1, <2>1, <2>2, <2>3 DEF EntriesFollow
<1>4. clearLost' \in BOOLEAN /\ (~clearLost' => ~clearLost /\ \A j \in 1..k - 1 : answers[j].kind # "clear")
  BY <1>1, <1>2 DEF LogTypes
<1>6. /\ records' \in Seq(LogRecord) /\ Fits(records') /\ evicted' \in Seq(LogRecord)
      /\ followLive' \in BOOLEAN /\ historyTruncated' \in BOOLEAN /\ SelectionShown'
      /\ cursor' \in Sequence /\ cursor' = IF b.cursor <= cursor THEN cursor ELSE b.cursor
      /\ ~clearLost' => Shown'
  <2>1. ASSUME ~clearLost'
        PROVE  ~b.truncated => Start(b) <= cursor
    <3>1. ~clearLost /\ \A j \in 1..k - 1 : answers[j].kind # "clear"
      BY <1>4, <2>1
    <3>2. ClearsAhead
      BY <3>1 DEF MirrorInv
    <3>. QED  BY <1>3, <3>1, <3>2 DEF ClearsAhead, ClearKnown
  <2>2. ~clearLost' => Shown /\ base <= cursor
    BY <1>4 DEF MirrorInv, ClearsAhead
  <2>3. CASE b.cursor <= cursor
    <3>1. UNCHANGED <<records, evicted, selectedId, followLive, cursor, historyTruncated, base>>
      BY <1>2, <1>3, <2>3 DEF ApplyBatch, controllerVars
    <3>2. SelectionShown'
      BY <1>1, <3>1 DEF SelectionShown, Newest
    <3>3. Shown => Shown'
      BY <3>1 DEF Shown
    <3>. QED  BY <1>1, <2>2, <2>3, <3>1, <3>2, <3>3 DEF LogTypes
  <2>4. CASE cursor < b.cursor
    <3>1. ApplyBatch(b)
      BY <1>2, <1>3
    <3>2. /\ records' \in Seq(LogRecord) /\ Fits(records') /\ evicted' \in Seq(LogRecord)
          /\ cursor' = b.cursor /\ followLive' = followLive /\ historyTruncated' \in BOOLEAN
          /\ SelectionShown => SelectionShown'
          /\ /\ Shown /\ base <= cursor /\ UNCHANGED base
             /\ ~b.truncated => Start(b) <= cursor
             => Shown'
      BY <1>1, <1>3, <2>4, <3>1, BatchApplied
    <3>3. ~clearLost' => Shown'
      BY <1>2, <2>1, <2>2, <3>2
    <3>4. ~(b.cursor <= cursor)
      BY <1>1, <1>3, <2>4
    <3>5. followLive' \in BOOLEAN
      BY <1>1, <3>2 DEF LogTypes
    <3>. QED  BY <1>1, <1>3, <3>2, <3>3, <3>4, <3>5
  <2>. QED  BY <1>1, <1>3, <2>3, <2>4
<1>7. cursor' \in Nat /\ cursor <= cursor' /\ cursor' <= journal.last
  BY <1>1, <1>3, <1>6 DEF JournalAhead
<1>8. /\ answers' \in Seq(Answer) /\ EntriesFollow'
      /\ \A i \in DOMAIN answers' : Upto(answers'[i]) <= journal'.last
      /\ \A i, j \in DOMAIN answers' : i < j => Upto(answers'[i]) <= Upto(answers'[j])
      /\ \A i \in DOMAIN answers : i # k => \E j \in DOMAIN answers' : answers'[j] = answers[i]
  BY <1>1, <1>2, AnswerTaken
<1>9. LogTypes'
  BY <1>1, <1>2, <1>4, <1>6, <1>8 DEF LogTypes
<1>10. JournalAhead'
  BY <1>1, <1>2, <1>7, <1>8 DEF JournalAhead
<1>11. ~clearLost' => ClearsAhead'
  <2>1. cursor' = cursor \/ (cursor' = answers[k].cursor /\ cursor <= answers[k].cursor)
    BY <1>1, <1>3, <1>6
  <2>2. clearLost' \/ (~clearLost /\ \A j \in 1..k - 1 : answers[j].kind # "clear")
    BY <1>4
  <2>. QED  BY <1>2, <2>1, <2>2, ReadTaken
<1>12. failures' = 0 => WillRead'
  <2>1. SUFFICES ASSUME failures = 0 PROVE WillRead'
    BY <1>2
  <2>2. WillRead
    BY <2>1 DEF MirrorInv
  <2>3. CASE cursor = journal.last
    <3>1. cursor' = journal'.last
      BY <1>1, <1>2, <1>7, <2>3
    <3>. QED  BY <3>1 DEF WillRead
  <2>4. CASE changed \/ announced > 0 \/ asked # <<>>
    BY <1>2, <2>4 DEF WillRead
  <2>5. CASE \E i \in DOMAIN answers : answers[i].kind = "clear" \/ answers[i].cursor = journal.last
    <3>1. PICK i \in DOMAIN answers : answers[i].kind = "clear" \/ answers[i].cursor = journal.last
      BY <2>5
    <3>2. CASE i = k
      <4>1. b.cursor = journal.last
        BY <1>3, <3>1, <3>2
      <4>2. cursor' = journal'.last
        BY <1>1, <1>2, <1>6, <1>7, <4>1
      <4>. QED  BY <4>2 DEF WillRead
    <3>3. CASE i # k
      BY <1>2, <1>8, <3>1, <3>3 DEF WillRead
    <3>. QED  BY <3>2, <3>3
  <2>. QED  BY <2>2, <2>3, <2>4, <2>5 DEF WillRead
<1>. QED  BY <1>6, <1>8, <1>9, <1>10, <1>11, <1>12 DEF MirrorInv

\* The answer to a clear arrives, and the window asks for the journal again.
LEMMA ClearAnswered ==
  ASSUME MirrorInv, NEW k \in DOMAIN answers, LogAnswer(k), answers[k].kind # "read"
  PROVE  MirrorInv'
<1>1. /\ LogTypes /\ JournalAhead /\ EntriesFollow
      /\ cursor \in Nat /\ journal.last \in Nat /\ journal.cleared \in Nat /\ answers \in Seq(Answer)
      /\ DOMAIN answers = 1..Len(answers) /\ Len(answers) \in Nat /\ asked \in Seq(Asked)
  BY DEF MirrorInv, LogTypes, Sequence
<1>2. PICK s \in Sequence :
        /\ s = answers[k].sequence /\ answers[k].kind = "clear" /\ s \in Nat
        /\ s <= journal.last /\ Upto(answers[k]) = s
  <2>1. answers[k] \in Answer
    BY <1>1
  <2>2. answers[k].kind = "clear" /\ answers[k].sequence \in Sequence
    BY <2>1 DEF Answer
  <2>3. Upto(answers[k]) = answers[k].sequence
    BY <2>2 DEF Upto
  <2>4. answers[k].sequence <= journal.last
    BY <1>1, <2>3 DEF JournalAhead
  <2>5. answers[k].sequence \in Nat
    BY <2>2 DEF Sequence
  <2>. QED  BY <2>2, <2>3, <2>4, <2>5
<1>3. /\ answers' = RemoveAt(answers, k) /\ UNCHANGED <<journal, changed, announced, failures>>
      /\ clearLost' = (clearLost \/ \E j \in 1..k-1 : answers[j].kind = "clear")
      /\ records' = <<>> /\ evicted' = <<>> /\ selectedId' = NotSelected /\ followLive' = TRUE
      /\ cursor' = s /\ historyTruncated' = FALSE /\ base' = s
      /\ asked' = Append(asked, ReadCall(s))
  BY <1>2 DEF LogAnswer, ClearRecords, Call, journalVars
<1>4. clearLost' \in BOOLEAN /\ (~clearLost' => ~clearLost /\ \A j \in 1..k - 1 : answers[j].kind # "clear")
  BY <1>1, <1>3 DEF LogTypes
<1>5. PICK c \in Asked : c = ReadCall(s) /\ c.kind = "read" /\ c.after = s
  <2>1. ReadCall(s) \in Asked /\ ReadCall(s).kind = "read" /\ ReadCall(s).after = s
    BY DEF ReadCall, Asked
  <2>. QED  BY <2>1
<1>6. /\ asked' \in Seq(Asked) /\ asked' # <<>>
      /\ \A j \in DOMAIN asked' : asked'[j] = c \/ \E o \in DOMAIN asked : asked'[j] = asked[o]
  BY <1>1, <1>3, <1>5, CallMade
<1>7. /\ answers' \in Seq(Answer) /\ Len(answers') = Len(answers) - 1 /\ DOMAIN answers' = 1..Len(answers) - 1
      /\ EntriesFollow'
      /\ \A i \in DOMAIN answers' : Upto(answers'[i]) <= journal'.last
      /\ \A i, j \in DOMAIN answers' : i < j => Upto(answers'[i]) <= Upto(answers'[j])
      /\ \A i \in DOMAIN answers' :
           /\ Old(i, k) \in DOMAIN answers /\ answers'[i] = answers[Old(i, k)] /\ Old(i, k) # k
  BY <1>1, <1>3, AnswerTaken
<1>8. records' \in Seq(LogRecord) /\ Fits(records') /\ evicted' \in Seq(LogRecord)
  BY <1>3, NothingFits
<1>9. LogTypes'
  BY <1>1, <1>3, <1>4, <1>6, <1>7, <1>8 DEF LogTypes
<1>10. JournalAhead'
  <2>1. \A j \in DOMAIN asked' : asked'[j].kind = "read" => asked'[j].after <= journal.last
    BY <1>1, <1>2, <1>5, <1>6 DEF JournalAhead
  <2>. QED  BY <1>1, <1>2, <1>3, <1>7, <2>1 DEF JournalAhead
<1>11. SelectionShown'
  BY <1>3 DEF SelectionShown, Newest
<1>12. Shown'
  <2>1. evicted' \o records' = <<>> /\ Increasing(<<>>) /\ KitsOf(<<>>) = {}
    BY <1>3 DEF Increasing, KitsOf
  <2>2. s \in s..s /\ {} = s + 1..s
    BY <1>2
  <2>3. KitsOf(records') = {}
    BY <1>3, <2>1
  <2>4. \E lo \in base'..cursor' : KitsOf(records') = lo + 1..cursor' /\ (Fits(evicted' \o records') => lo = base')
    BY <1>3, <2>2, <2>3
  <2>. QED  BY <1>3, <2>1, <2>3, <2>4 DEF Shown
<1>13. ASSUME ~clearLost'
       PROVE  ClearsAhead'
  <2>1. ClearsAhead /\ ~clearLost /\ \A j \in 1..k - 1 : answers[j].kind # "clear"
    BY <1>4, <1>13 DEF MirrorInv
  <2>2. cursor <= s
    BY <1>2, <2>1 DEF ClearsAhead
  <2>3. \A j \in DOMAIN asked' : asked'[j].kind = "read" => asked'[j].after <= cursor'
    <3>1. ASSUME NEW j \in DOMAIN asked', asked'[j].kind = "read"
          PROVE  asked'[j].after <= s
      <4>1. CASE asked'[j] = c
        BY <1>2, <1>5, <4>1
      <4>2. CASE \E o \in DOMAIN asked : asked'[j] = asked[o]
        <5>1. PICK o \in DOMAIN asked : asked'[j] = asked[o]
          BY <4>2
        <5>2. asked[o] \in Asked /\ asked[o].kind = "read" /\ asked[o].after <= cursor
          BY <1>1, <2>1, <3>1, <5>1 DEF ClearsAhead
        <5>3. asked[o].after \in Nat
          BY <5>2 DEF Asked, Sequence
        <5>. QED  BY <1>1, <1>2, <2>2, <5>1, <5>2, <5>3
      <4>. QED  BY <1>6, <4>1, <4>2
    <3>. QED  BY <1>3, <3>1
  <2>4. \A i \in DOMAIN answers' : answers'[i].kind = "clear" => cursor' <= answers'[i].sequence
    <3>1. ASSUME NEW i \in DOMAIN answers', answers'[i].kind = "clear"
          PROVE  s <= answers'[i].sequence
      <4>1. PICK o \in DOMAIN answers : o = Old(i, k) /\ o # k /\ answers'[i] = answers[o]
        BY <1>7
      <4>2. o > k
        BY <1>1, <2>1, <3>1, <4>1
      <4>3. Upto(answers[k]) <= Upto(answers[o])
        BY <1>1, <4>2 DEF JournalAhead
      <4>. QED  BY <1>2, <3>1, <4>1, <4>3 DEF Upto
    <3>. QED  BY <1>3, <3>1
  <2>5. PICK n \in 1..Len(answers) : n = Len(answers)
    <3>1. Len(answers) \in 1..Len(answers)
      BY <1>1
    <3>. QED  BY <3>1
  <2>6. cursor' \in Nat /\ cursor' >= cursor /\ (answers[k].kind = "clear" => cursor' >= answers[k].sequence)
    BY <1>1, <1>2, <1>3, <2>2
  <2>7. ClearKnown(journal.cleared, Len(answers) + 1)'
    <3>1. Old(n, k) = Len(answers) + 1
      BY <1>1, <2>5 DEF Old
    <3>2. ClearKnown(journal.cleared, Old(n, k))
      BY <2>1, <3>1 DEF ClearsAhead
    <3>3. PICK x \in Nat : x = journal.cleared
      BY <1>1
    <3>4. ClearKnown(x, n)'
      BY <1>1, <1>3, <2>6, <3>2, <3>3, KnownAfter
    <3>5. Len(answers') + 1 = n
      BY <1>1, <1>7, <2>5
    <3>. QED  BY <1>3, <3>3, <3>4, <3>5 DEF ClearKnown
  <2>8. ASSUME NEW i \in DOMAIN answers', answers'[i].kind = "read", ~answers'[i].truncated
        PROVE  ClearKnown(Start(answers[i]), i)'
    <3>1. PICK o \in DOMAIN answers : o = Old(i, k) /\ answers'[i] = answers[o]
      BY <1>7
    <3>2. PICK x \in Nat : x = Start(answers[o])
      BY <1>1, <2>8, <3>1 DEF EntriesFollow, Sequence
    <3>3. ClearKnown(x, Old(i, k))
      BY <2>1, <2>8, <3>1, <3>2 DEF ClearsAhead
    <3>4. i \in 1..Len(answers)
      BY <1>1, <1>7
    <3>5. ClearKnown(x, i)'
      BY <1>1, <1>3, <2>6, <3>3, <3>4, KnownAfter
    <3>. QED  BY <3>1, <3>2, <3>5 DEF ClearKnown, Start
  <2>9. base' <= cursor'
    BY <1>2, <1>3
  <2>. QED  BY <2>3, <2>4, <2>7, <2>8, <2>9 DEF ClearsAhead
<1>14. WillRead'
  BY <1>6 DEF WillRead
<1>. QED  BY <1>7, <1>9, <1>10, <1>11, <1>12, <1>13, <1>14 DEF MirrorInv

\* A call fails: it or its answer is gone, and the failure is recorded.
LEMMA FailStep ==
  ASSUME MirrorInv, LogCallFails
  PROVE  MirrorInv'
<1>1. /\ LogTypes /\ JournalAhead /\ EntriesFollow /\ cursor \in Nat /\ base \in Nat /\ failures \in Nat
      /\ evicted \in Seq(LogRecord) /\ MaxRuntimeFailures \in Nat
      /\ records \in Seq(LogRecord) /\ asked \in Seq(Asked) /\ answers \in Seq(Answer)
      /\ DOMAIN answers = 1..Len(answers) /\ Len(answers) \in Nat /\ Len(records) \in Nat
      /\ historyTruncated \in BOOLEAN /\ clearLost \in BOOLEAN /\ journal.cleared \in Nat
  BY LogBounds DEF MirrorInv, LogTypes, Sequence
<1>2. PICK rs : rs = Append(records, <<"app", failures + 1>>)
  OBVIOUS
<1>3. /\ failures' = failures + 1 /\ CommitRecords(rs) /\ failures < MaxRuntimeFailures
      /\ UNCHANGED <<followLive, cursor, historyTruncated, journal, changed, announced, base>>
  BY <1>2 DEF LogCallFails, RecordRuntimeFailure, journalVars
<1>4. PICK r \in LogRecord : /\ r = <<"app", failures + 1>> /\ failures + 1 \in 1..MaxRuntimeFailures
                            /\ rs \in Seq(LogRecord) /\ <<r>> \in Seq(LogRecord) /\ rs = records \o <<r>>
  <2>1. failures + 1 \in 1..MaxRuntimeFailures
    BY <1>1, <1>3
  <2>2. PICK r \in LogRecord : r = <<"app", failures + 1>>
    BY <2>1 DEF LogRecord
  <2>3. rs = Append(records, r)
    BY <1>2, <2>2
  <2>4. rs \in Seq(LogRecord) /\ <<r>> \in Seq(LogRecord) /\ Append(records, r) = records \o <<r>>
    BY <1>1, <2>3
  <2>. QED  BY <2>1, <2>2, <2>3, <2>4
<1>5. records' \in Seq(LogRecord) /\ Fits(records') /\ evicted' \in Seq(LogRecord) /\ SelectionShown'
  BY <1>1, <1>3, <1>4, Committed
<1>6. Shown => Shown'
  <2>1. SUFFICES ASSUME Shown PROVE Shown'
    OBVIOUS
  <2>2. PICK list \in Seq(LogRecord) :
          /\ list = evicted \o records /\ Increasing(list) /\ KitsOf(list) \subseteq base + 1..cursor
    <3>1. evicted \o records \in Seq(LogRecord)
      BY <1>1, OneAfterAnother
    <3>. QED  BY <2>1, <3>1 DEF Shown
  <2>3. PICK n \in 1..MaxRuntimeFailures : n = failures + 1 /\ r = <<"app", n>>
    BY <1>4
  <2>5. KitsOf(rs) = KitsOf(records)
    <3>1. Increasing(records)
      BY <1>1, <2>2, LaterIncreases
    <3>2. rs = Append(records, <<"app", n>>)
      BY <1>2, <2>3
    <3>. QED  BY <1>1, <3>1, <3>2, FailureAdded
  <2>6. Increasing(evicted \o rs) /\ KitsOf(evicted \o rs) = KitsOf(list)
    <3>1. PICK more : more = Append(list, <<"app", n>>)
      OBVIOUS
    <3>2. Increasing(more) /\ KitsOf(more) = KitsOf(list)
      BY <2>2, <3>1, FailureAdded
    <3>3. more = list \o <<r>>
      <4>1. \A a \in Seq(LogRecord) : Append(a, r) = a \o <<r>>
        OBVIOUS
      <4>. QED  BY <2>2, <2>3, <3>1, <4>1, Zenon
    <3>4. evicted \o rs = list \o <<r>>
      <4>1. PICK one \in Seq(LogRecord) : one = <<r>>
        BY <1>4
      <4>2. evicted \o (records \o one) = (evicted \o records) \o one
        BY <1>1, Associative
      <4>. QED  BY <1>4, <2>2, <4>1, <4>2
    <3>. QED  BY <3>2, <3>3, <3>4
  <2>4. historyTruncated \/ \E lo \in base..cursor :
          KitsOf(rs) = lo + 1..cursor /\ (Fits(evicted \o rs) => lo = base)
    <3>1. Fits(evicted \o rs) => Fits(evicted \o records)
      BY <1>1, <1>4, BeforeBoth
    <3>. QED  BY <2>1, <2>5, <3>1 DEF Shown
  <2>. QED  BY <1>1, <1>3, <1>4, <2>2, <2>4, <2>6, CommittedShown
<1>7. \/ /\ \E k \in DOMAIN asked : asked' = RemoveAt(asked, k)
         /\ UNCHANGED <<answers, clearLost>>
      \/ \E k \in DOMAIN answers : /\ answers' = RemoveAt(answers, k) /\ UNCHANGED asked
                                   /\ clearLost' = (clearLost \/ answers[k].kind = "clear")
      \/ UNCHANGED <<asked, answers, clearLost>>
  BY DEF LogCallFails
<1>8. /\ asked' \in Seq(Asked)
      /\ \A j \in DOMAIN asked' : \E o \in DOMAIN asked : asked'[j] = asked[o]
  <2>1. CASE asked' = asked
    BY <1>1, <2>1
  <2>2. CASE \E k \in DOMAIN asked : asked' = RemoveAt(asked, k)
    BY <1>1, <2>2, CallTaken
  <2>. QED  BY <1>7, <2>1, <2>2
<1>9. /\ answers' \in Seq(Answer) /\ EntriesFollow' /\ clearLost' \in BOOLEAN
      /\ \A i \in DOMAIN answers' : Upto(answers'[i]) <= journal'.last
      /\ \A i, j \in DOMAIN answers' : i < j => Upto(answers'[i]) <= Upto(answers'[j])
  <2>1. CASE UNCHANGED <<answers, clearLost>>
    BY <1>1, <1>3, <2>1 DEF EntriesFollow, JournalAhead
  <2>2. CASE \E k \in DOMAIN answers : /\ answers' = RemoveAt(answers, k)
                                       /\ clearLost' = (clearLost \/ answers[k].kind = "clear")
    <3>1. PICK k \in DOMAIN answers : answers' = RemoveAt(answers, k)
                                      /\ clearLost' = (clearLost \/ answers[k].kind = "clear")
      BY <2>2
    <3>2. clearLost' \in BOOLEAN
      BY <1>1, <3>1
    <3>. QED  BY <1>1, <1>3, <3>1, <3>2, AnswerTaken
  <2>. QED  BY <1>7, <2>1, <2>2
<1>10. LogTypes'
  <2>1. failures' \in 0..MaxRuntimeFailures
    BY <1>1, <1>3
  <2>. QED  BY <1>1, <1>3, <1>5, <1>8, <1>9, <2>1 DEF LogTypes
<1>11. JournalAhead'
  <2>1. \A j \in DOMAIN asked' : asked'[j].kind = "read" => asked'[j].after <= journal.last
    BY <1>1, <1>8 DEF JournalAhead
  <2>. QED  BY <1>1, <1>3, <1>9, <2>1 DEF JournalAhead
<1>12. ASSUME ~clearLost'
       PROVE  ClearsAhead' /\ Shown'
  <2>1. CASE UNCHANGED <<answers, clearLost>>
    <3>1. ClearsAhead /\ Shown
      BY <1>12, <2>1 DEF MirrorInv
    <3>2. \A j \in DOMAIN asked' : asked'[j].kind = "read" => asked'[j].after <= cursor
      BY <1>8, <3>1 DEF ClearsAhead
    <3>3. ClearsAhead'
      BY <1>3, <2>1, <3>1, <3>2 DEF ClearsAhead, ClearKnown
    <3>. QED  BY <1>6, <3>1, <3>3
  <2>2. CASE \E k \in DOMAIN answers : /\ answers' = RemoveAt(answers, k) /\ UNCHANGED asked
                                       /\ clearLost' = (clearLost \/ answers[k].kind = "clear")
    <3>1. PICK k \in DOMAIN answers : /\ answers' = RemoveAt(answers, k) /\ UNCHANGED asked
                                      /\ clearLost' = (clearLost \/ answers[k].kind = "clear")
      BY <2>2
    <3>2. ~clearLost /\ answers[k].kind # "clear"
      BY <1>1, <1>12, <3>1
    <3>3. answers[k].kind = "read"
      <4>1. answers[k] \in Answer
        BY <1>1
      <4>. QED  BY <3>2, <4>1 DEF Answer
    <3>4. ClearsAhead /\ Shown
      BY <3>2 DEF MirrorInv
    <3>5. ClearsAhead'
      BY <1>1, <1>3, <3>1, <3>2, <3>3, <3>4, ReadTaken
    <3>. QED  BY <1>6, <3>4, <3>5
  <2>. QED  BY <1>7, <2>1, <2>2
<1>13. failures' # 0
  BY <1>1, <1>3
<1>. QED  BY <1>5, <1>9, <1>10, <1>11, <1>12, <1>13 DEF MirrorInv

-----------------------------------------------------------------------------
(* The theorem.                                                             *)

\* The invariant holds when the application is mounted.
LEMMA MirrorInit ==
  ASSUME LogInit
  PROVE  MirrorInv
<1>1. 0 \in Sequence /\ 0 \in 0..MaxPending /\ 0 \in 0..MaxRuntimeFailures
  BY LogBounds DEF Sequence
<1>2. PICK c \in Asked : c = ReadCall(0) /\ c.kind = "read" /\ c.after = 0
  <2>1. ReadCall(0) \in Asked /\ ReadCall(0).kind = "read" /\ ReadCall(0).after = 0
    BY <1>1 DEF ReadCall, Asked
  <2>. QED  BY <2>1
<1>3. asked = <<c>> /\ asked \in Seq(Asked) /\ Len(asked) = 1 /\ \A i \in DOMAIN asked : asked[i] = c
  <2>1. asked = <<c>>
    BY <1>2 DEF LogInit
  <2>2. asked \in Seq(Asked) /\ Len(asked) = 1 /\ asked[1] = c
    BY <2>1
  <2>3. DOMAIN asked = 1..1
    BY <2>2
  <2>. QED  BY <2>1, <2>2, <2>3
<1>4. /\ journal = [last |-> 0, dropped |-> 0, cleared |-> 0] /\ changed = FALSE /\ announced = 0
      /\ answers = <<>> /\ records = <<>> /\ selectedId = NotSelected /\ followLive = TRUE
      /\ cursor = 0 /\ historyTruncated = FALSE /\ failures = 0 /\ base = 0 /\ evicted = <<>>
      /\ clearLost = FALSE
  BY DEF LogInit
<1>5. LogTypes
  <2>1. answers \in Seq(Answer) /\ records \in Seq(LogRecord) /\ evicted \in Seq(LogRecord) /\ Fits(records)
    BY <1>4, NothingFits
  <2>. QED  BY <1>1, <1>3, <1>4, <2>1 DEF LogTypes
<1>6. JournalAhead
  BY <1>2, <1>3, <1>4 DEF JournalAhead
<1>7. EntriesFollow /\ SelectionShown
  BY <1>4 DEF EntriesFollow, SelectionShown, Newest
<1>8. ClearsAhead
  BY <1>2, <1>3, <1>4 DEF ClearsAhead, ClearKnown
<1>9. Shown
  <2>1. evicted \o records = <<>> /\ Increasing(<<>>) /\ KitsOf(<<>>) = {}
    BY <1>4 DEF Increasing, KitsOf
  <2>2. 0 \in 0..0 /\ {} = 0 + 1..0
    OBVIOUS
  <2>3. KitsOf(records) = {}
    BY <1>4, <2>1
  <2>4. \E lo \in base..cursor : KitsOf(records) = lo + 1..cursor /\ (Fits(evicted \o records) => lo = base)
    BY <1>4, <2>2, <2>3
  <2>. QED  BY <1>4, <2>1, <2>3, <2>4 DEF Shown
<1>10. WillRead
  BY <1>4 DEF WillRead
<1>. QED  BY <1>5, <1>6, <1>7, <1>8, <1>9, <1>10 DEF MirrorInv

\* Every step keeps it.
LEMMA MirrorStep ==
  ASSUME MirrorInv, [LogNext]_logVars
  PROVE  MirrorInv'
<1>1. CASE Journaled \/ Announce
  BY <1>1, JournalSteps
<1>2. CASE SyncLogJournal \/ ClearLogJournal
  BY <1>2, CallStep
<1>3. CASE LogCallFails
  BY <1>3, FailStep
<1>4. ASSUME NEW i \in DOMAIN asked, ServeLogs(i)
      PROVE  MirrorInv'
  BY <1>4, ServeStep
<1>5. ASSUME NEW i \in DOMAIN answers, LogAnswer(i)
      PROVE  MirrorInv'
  BY <1>5, ReadAnswered, ClearAnswered
<1>6. ASSUME NEW r \in ToSet(records), SelectRecord(r)
      PROVE  MirrorInv'
  BY <1>6, SelectStep
<1>7. CASE UNCHANGED logVars
  <2>1. UNCHANGED <<journal, changed, announced, asked, answers, records, selectedId, followLive, cursor,
                    historyTruncated, failures, base, evicted, clearLost>>
    BY <1>7 DEF logVars, journalVars, controllerVars
  <2>2. LogTypes' /\ JournalAhead' /\ EntriesFollow' /\ SelectionShown'
    BY <2>1 DEF MirrorInv, LogTypes, JournalAhead, EntriesFollow, SelectionShown
  <2>3. ~clearLost' => ClearsAhead' /\ Shown'
    BY <2>1 DEF MirrorInv, ClearsAhead, ClearKnown, Shown
  <2>4. failures' = 0 => WillRead'
    BY <2>1 DEF MirrorInv, WillRead
  <2>. QED  BY <2>2, <2>3, <2>4 DEF MirrorInv
<1>. QED  BY <1>1, <1>2, <1>3, <1>4, <1>5, <1>6, <1>7 DEF LogNext

\* What is under way is counted.
LEMMA MirrorShows ==
  ASSUME MirrorInv
  PROVE  LogInv
<1>1. LogTypes /\ JournalAhead /\ SelectionShown /\ MaxSequence \in Nat /\ cursor \in Sequence
  BY LogBounds DEF MirrorInv, LogTypes
<1>2. ASSUME ~clearLost, Pending = 0, ~changed, failures = 0
      PROVE  cursor = journal.last
  <2>1. Len(asked) \in Nat /\ Len(answers) \in Nat /\ announced \in Nat
    BY <1>1 DEF LogTypes
  <2>2. Len(asked) = 0 /\ Len(answers) = 0 /\ announced = 0
    BY <1>2, <2>1 DEF Pending
  <2>3. asked = <<>> /\ DOMAIN answers = {}
    BY <1>1, <2>2 DEF LogTypes
  <2>4. ~(announced > 0)
    BY <2>2
  <2>. QED  BY <1>2, <2>3, <2>4 DEF MirrorInv, WillRead
<1>3. MirrorOfJournal
  BY <1>2 DEF MirrorInv, Shown, MirrorOfJournal
<1>4. LogTypeOK
  BY <1>1 DEF LogTypes, LogTypeOK, Sequence
<1>. QED  BY <1>1, <1>3, <1>4 DEF LogInv, LogSelection, SelectionShown

\* The window's copy agrees with the journal, and what is selected with the copy: for
\* any limits of the two, whatever is logged, cleared, lost or answered late
\* (logs-controller.ts, LogController).
THEOREM LogMirrored == LogSpec => []LogInv
<1>1. LogInit => MirrorInv
  BY MirrorInit
<1>2. MirrorInv /\ [LogNext]_logVars => MirrorInv'
  BY MirrorStep
<1>3. MirrorInv => LogInv
  BY MirrorShows
<1>. QED  BY <1>1, <1>2, <1>3, PTL DEF LogSpec

-----------------------------------------------------------------------------
(* The Lab: results are those of the session they are shown in.             *)

LabStep == [phase : Phase, result : 0..MaxLabSelections]
LabRecord ==
  [step : [Operation -> LabStep], check : [Verification -> {"idle", "loading", "ready", "error"}],
   pending : 0..MaxLabSelections, handed : 0..MaxLabSelections]
LabMessage ==
  [kind : {"snapshot"}, id : 0..MaxLabSelections, attached : BOOLEAN]
  \cup [kind : {"answer"}, call : LabCall, ok : BOOLEAN, closed : BOOLEAN, on : 0..MaxLabSelections]
LabRun == [op : Operation, stage : {"preview", "execute"}, served : BOOLEAN] \cup {NoRun}

LabTypes ==
  /\ lab \in LabRecord
  /\ labSession \in [id : 0..MaxLabSelections, attached : BOOLEAN] /\ labBusy \in BOOLEAN
  /\ runs \in [LabCall -> LabRun]
  /\ verifying \in [Verification -> Nat]
  /\ captured # NoCapture => captured \in LabRecord
  /\ labMade \in 0..MaxLabSelections /\ labService \in 0..labMade
  /\ labWire \in Seq(LabMessage)
  /\ arkg \in BOOLEAN

\* Message i changes the session of the window, to SessionAfter(i).
ChangesSession(i) == labWire[i].kind = "snapshot" \/ labWire[i].closed
SessionAfter(i) == IF labWire[i].kind = "snapshot" THEN labWire[i].id ELSE 0

\* The window will have session id when it has handled the messages before the n-th.
ViewIs(n, id) ==
  /\ (\A j \in 1..n - 1 : ~ChangesSession(j)) => labSession.id = id
  /\ \A j \in 1..n - 1 :
       ChangesSession(j) /\ (\A k \in j + 1..n - 1 : ~ChangesSession(k)) => SessionAfter(j) = id

\* The window will have the session of the service, and a result arrives in the
\* session it was made in.
LabView ==
  /\ ViewIs(Len(labWire) + 1, labService)
  /\ \A i \in DOMAIN labWire :
       labWire[i].kind = "answer" /\ labWire[i].ok /\ ~labWire[i].closed => ViewIs(i, labWire[i].on)

LabRecordInv ==
  /\ LabTypes /\ LabView
  /\ ~arkg => /\ captured = NoCapture
              /\ LabWaits /\ LabResultsOfSession /\ LabHandoffOfSession

-----------------------------------------------------------------------------
(* The wire.                                                                *)

\* What is sent comes last.
LEMMA LabSent ==
  ASSUME LabTypes, NEW m \in LabMessage, LabSend(m)
  PROVE  /\ labWire' \in Seq(LabMessage) /\ Len(labWire) \in Nat /\ Len(labWire') = Len(labWire) + 1
         /\ \A i \in 1..Len(labWire) : labWire'[i] = labWire[i]
         /\ labWire'[Len(labWire) + 1] = m
BY DEF LabTypes, LabSend

\* A message that is sent does not disturb what messages before it will show, and is
\* the last to do so itself.
LEMMA SentView ==
  ASSUME LabTypes, NEW m \in LabMessage, LabSend(m), UNCHANGED labSession,
         NEW n \in 1..Len(labWire) + 1, NEW id
  PROVE  /\ ViewIs(n, id) => ViewIs(n, id)'
         /\ n = Len(labWire) + 1 =>
              /\ m.kind = "snapshot" /\ id = m.id => ViewIs(n + 1, id)'
              /\ m.kind # "snapshot" /\ m.closed /\ id = 0 => ViewIs(n + 1, id)'
              /\ m.kind # "snapshot" /\ ~m.closed /\ ViewIs(n, id) => ViewIs(n + 1, id)'
<1>1. /\ n - 1 \in 0..Len(labWire) /\ Len(labWire) \in Nat
      /\ \A i \in 1..Len(labWire) : labWire'[i] = labWire[i]
      /\ labWire'[Len(labWire) + 1] = m
  BY LabSent
<1>2. \A j \in 1..Len(labWire) :
        (ChangesSession(j)' <=> ChangesSession(j)) /\ SessionAfter(j)' = SessionAfter(j)
  BY <1>1 DEF ChangesSession, SessionAfter
<1>3. ViewIs(n, id) => ViewIs(n, id)'
  BY <1>1, <1>2 DEF ViewIs
<1>4. ASSUME n = Len(labWire) + 1
      PROVE  /\ ChangesSession(n)' <=> m.kind = "snapshot" \/ m.closed
             /\ SessionAfter(n)' = IF m.kind = "snapshot" THEN m.id ELSE 0
             /\ n + 1 - 1 = n /\ n \in 1..n /\ \A j \in 1..n : j = n \/ j \in 1..n - 1
             /\ \A j \in 1..n - 1 : n \in j + 1..n
  BY <1>1, <1>4 DEF ChangesSession, SessionAfter
<1>5. ASSUME n = Len(labWire) + 1, m.kind = "snapshot" \/ m.closed,
             id = IF m.kind = "snapshot" THEN m.id ELSE 0
      PROVE  ViewIs(n + 1, id)'
  BY <1>4, <1>5 DEF ViewIs
<1>6. ASSUME n = Len(labWire) + 1, m.kind # "snapshot", ~m.closed, ViewIs(n, id)
      PROVE  ViewIs(n + 1, id)'
  <2>1. ViewIs(n, id)' /\ ~ChangesSession(n)'
    BY <1>3, <1>4, <1>6
  <2>2. ASSUME \A j \in 1..n : ~ChangesSession(j)'
        PROVE  labSession'.id = id
    BY <2>1, <2>2, <1>1 DEF ViewIs
  <2>3. ASSUME NEW j \in 1..n, ChangesSession(j)', \A k \in j + 1..n : ~ChangesSession(k)'
        PROVE  SessionAfter(j)' = id
    <3>1. j \in 1..n - 1 /\ \A k \in j + 1..n - 1 : k \in j + 1..n
      BY <1>1, <1>4, <1>6, <2>1, <2>3
    <3>. QED  BY <2>1, <2>3, <3>1 DEF ViewIs
  <2>. QED  BY <1>4, <1>6, <2>2, <2>3 DEF ViewIs
<1>. QED  BY <1>3, <1>5, <1>6

\* Handling the first message makes true what was to be.
LEMMA ReceivedView ==
  ASSUME LabTypes, labWire # <<>>, labWire' = Tail(labWire),
         labSession'.id = IF ChangesSession(1) THEN SessionAfter(1) ELSE labSession.id,
         NEW n \in 1..Len(labWire), NEW id, ViewIs(n + 1, id)
  PROVE  ViewIs(n, id)'
<1>1. /\ Len(labWire) \in Nat \ {0}
      /\ \A j \in 1..Len(labWire) - 1 : labWire'[j] = labWire[j + 1]
  BY DEF LabTypes
<1>2. \A j \in 1..n - 1 :
        /\ ChangesSession(j)' <=> ChangesSession(j + 1)
        /\ SessionAfter(j)' = SessionAfter(j + 1)
        /\ j + 1 \in 1..n
  BY <1>1 DEF ChangesSession, SessionAfter
<1>3. \A k \in 2..n : k - 1 \in 1..n - 1 /\ k = (k - 1) + 1
  OBVIOUS
<1>4. n + 1 - 1 = n
  OBVIOUS
<1>5. ASSUME \A j \in 1..n - 1 : ~ChangesSession(j)'
      PROVE  labSession'.id = id
  <2>1. \A k \in 2..n : ~ChangesSession(k)
    BY <1>2, <1>3, <1>5
  <2>2. 1 \in 1..n /\ 1 + 1 = 2 /\ \A k \in 1..n : k = 1 \/ k \in 2..n
    OBVIOUS
  <2>. QED  BY <1>4, <2>1, <2>2 DEF ViewIs
<1>6. ASSUME NEW j \in 1..n - 1, ChangesSession(j)', \A k \in j + 1..n - 1 : ~ChangesSession(k)'
      PROVE  SessionAfter(j)' = id
  <2>1. \A k \in j + 2..n : k - 1 \in j + 1..n - 1 /\ k - 1 \in 1..n - 1 /\ k = (k - 1) + 1
    OBVIOUS
  <2>2. \A k \in j + 2..n : ~ChangesSession(k)
    BY <1>2, <1>6, <2>1
  <2>3. (j + 1) + 1 = j + 2
    OBVIOUS
  <2>. QED  BY <1>2, <1>4, <1>6, <2>2, <2>3 DEF ViewIs
<1>. QED  BY <1>5, <1>6 DEF ViewIs

\* A message is taken from the wire; of a result that is shown this is the session.
LEMMA ReceivedAll ==
  ASSUME LabTypes, LabView, labWire # <<>>, labWire' = Tail(labWire), UNCHANGED labService,
         labSession'.id = IF ChangesSession(1) THEN SessionAfter(1) ELSE labSession.id
  PROVE  /\ LabView' /\ labWire' \in Seq(LabMessage) /\ Head(labWire) = labWire[1]
         /\ Head(labWire) \in LabMessage
         /\ labWire[1].kind = "answer" /\ labWire[1].ok /\ ~labWire[1].closed =>
              labWire[1].on = labSession.id
<1>1. /\ Len(labWire) \in Nat \ {0} /\ labWire' \in Seq(LabMessage) /\ Len(labWire') = Len(labWire) - 1
      /\ \A j \in 1..Len(labWire) - 1 : labWire'[j] = labWire[j + 1]
      /\ 1 \in DOMAIN labWire /\ Head(labWire) = labWire[1] /\ labWire[1] \in LabMessage
      /\ DOMAIN labWire = 1..Len(labWire) /\ DOMAIN labWire' = 1..Len(labWire) - 1
  BY DEF LabTypes
<1>2. ViewIs(Len(labWire) + 1, labService) /\ Len(labWire) \in 1..Len(labWire)
  BY <1>1 DEF LabView
<1>3. PICK n : n = Len(labWire)
  OBVIOUS
<1>4. PICK id : id = labService
  OBVIOUS
<1>5. ViewIs(n, id)'
  BY <1>2, <1>3, <1>4, ReceivedView
<1>6. ViewIs(Len(labWire) + 1, labService)'
  <2>1. n = Len(labWire') + 1 /\ id = labService'
    BY <1>1, <1>3, <1>4
  <2>. QED  BY <1>5, <2>1 DEF ViewIs
<1>7. ASSUME NEW i \in DOMAIN labWire',
             labWire'[i].kind = "answer", labWire'[i].ok, ~labWire'[i].closed
      PROVE  ViewIs(i, labWire[i].on)'
  <2>1. i \in 1..Len(labWire) /\ i + 1 \in DOMAIN labWire /\ labWire'[i] = labWire[i + 1]
    BY <1>1
  <2>2. PICK on : on = labWire'[i].on
    OBVIOUS
  <2>3. ViewIs(i + 1, on)
    BY <1>7, <2>1, <2>2 DEF LabView
  <2>4. ViewIs(i, on)'
    BY <2>1, <2>3, ReceivedView
  <2>. QED  BY <2>2, <2>4 DEF ViewIs
<1>8. labWire[1].kind = "answer" /\ labWire[1].ok /\ ~labWire[1].closed => labWire[1].on = labSession.id
  <2>1. ASSUME labWire[1].kind = "answer", labWire[1].ok, ~labWire[1].closed
        PROVE  ViewIs(1, labWire[1].on) /\ \A j \in 1..1 - 1 : FALSE
    BY <1>1, <2>1 DEF LabView
  <2>. QED  BY <2>1 DEF ViewIs
<1>. QED  BY <1>1, <1>6, <1>7, <1>8 DEF LabView

-----------------------------------------------------------------------------
(* The record.                                                              *)

Check == {"idle", "loading", "ready", "error"}

\* Publishing a step changes this step and the verifications of its operation only.
LEMMA PublishedShape ==
  ASSUME NEW s \in LabRecord, NEW op \in Operation \cup {"none"}, NEW step \in LabStep,
         NEW check \in Check, NEW p, p = Published(s, op, step, check)
  PROVE  /\ p \in LabRecord
         /\ op \in Operation => p.step[op] = step
         /\ \A o \in Operation \ {op} : p.step[o] = s.step[o]
         /\ \A v \in Verification : p.check[v] = IF Of(v) = op THEN check ELSE s.check[v]
         /\ p.pending = s.pending /\ p.handed = s.handed
<1>1. /\ s.step \in [Operation -> LabStep] /\ s.check \in [Verification -> Check]
      /\ s = [step |-> s.step, check |-> s.check, pending |-> s.pending, handed |-> s.handed]
      /\ s.pending \in 0..MaxLabSelections /\ s.handed \in 0..MaxLabSelections
  BY DEF LabRecord, Check
<1> DEFINE steps == [s.step EXCEPT ![op] = step]
           checks == [v \in Verification |-> IF Of(v) = op THEN check ELSE s.check[v]]
<1>2. p = [step |-> steps, check |-> checks, pending |-> s.pending, handed |-> s.handed]
  BY <1>1 DEF Published
<1>3. steps \in [Operation -> LabStep] /\ checks \in [Verification -> Check]
  BY <1>1
<1>4. /\ op \in Operation => steps[op] = step
      /\ \A o \in Operation \ {op} : steps[o] = s.step[o]
      /\ \A v \in Verification : checks[v] = IF Of(v) = op THEN check ELSE s.check[v]
  BY <1>1
<1> HIDE DEF steps, checks
<1>. QED  BY <1>1, <1>2, <1>3, <1>4 DEF LabRecord, Check

\* A record shows nothing of another session, and waits for nothing that is not under way.
OfSession(s) ==
  /\ \A op \in Operation : s.step[op].phase = "success" => s.step[op].result = labSession.id
  /\ s.pending \in {0, labSession.id} /\ s.handed \in {0, labSession.id}
WaitsForRuns(s) ==
  \A op \in Operation :
    /\ s.step[op].phase = "previewing" => RunUnderWay(op, "preview")
    /\ s.step[op].phase = "executing" => RunUnderWay(op, "execute")
WaitsForChecks(s) == \A v \in Verification : s.check[v] = "loading" => verifying[v] > 0
BusyWithRun == labBusy => \E k \in LabCall : runs[k] # NoRun

\* The parts of the property, of the record.
LEMMA PartsOfRecord ==
  /\ LabWaits <=> WaitsForRuns(lab) /\ WaitsForChecks(lab) /\ BusyWithRun
  /\ LabResultsOfSession /\ LabHandoffOfSession <=> OfSession(lab)
BY DEF LabWaits, WaitsForRuns, WaitsForChecks, BusyWithRun, LabResultsOfSession,
       LabHandoffOfSession, OfSession

\* An empty record shows nothing.
LEMMA EmptyRecord ==
  /\ CreateLabState \in LabRecord
  /\ \A op \in Operation : CreateLabState.step[op].phase = "editing"
  /\ \A v \in Verification : CreateLabState.check[v] = "idle"
  /\ CreateLabState.pending = 0 /\ CreateLabState.handed = 0
<1>1. 0 \in 0..MaxLabSelections
  BY LabAssumption
<1>2. Step("editing", 0) \in LabStep /\ Step("editing", 0).phase = "editing"
  BY <1>1 DEF Step, LabStep, Phase
<1>. QED  BY <1>1, <1>2 DEF CreateLabState, LabRecord

\* A hand-over keeps the shape, and shows of the session what the record showed.
LEMMA HandedOverShape ==
  ASSUME NEW s \in LabRecord, NEW result \in 0..MaxLabSelections
  PROVE  /\ HandedOver(s, result) \in LabRecord
         /\ HandedOver(s, result).pending = 0 /\ HandedOver(s, result).handed = result
         /\ HandedOver(s, result).step["make"] = s.step["make"]
         /\ HandedOver(s, result).step["get"].phase = "editing"
         /\ \A v \in Verification : HandedOver(s, result).check[v] \in {"idle", s.check[v]}
<1>1. PICK p : p = Published(s, "get", Step("editing", 0), "idle")
  OBVIOUS
<1>2. Step("editing", 0) \in LabStep /\ Step("editing", 0).phase = "editing"
  BY LabAssumption DEF Step, LabStep, Phase
<1>3. "get" \in Operation /\ "make" \in Operation \ {"get"} /\ "idle" \in Check
  BY DEF Operation, Check
<1>4. /\ p \in LabRecord /\ p.step["get"] = Step("editing", 0) /\ p.step["make"] = s.step["make"]
      /\ \A v \in Verification : p.check[v] = IF Of(v) = "get" THEN "idle" ELSE s.check[v]
  BY <1>1, <1>2, <1>3, PublishedShape
<1>5. HandedOver(s, result) = [p EXCEPT !.pending = 0, !.handed = result]
  BY <1>1 DEF HandedOver
<1>6. 0 \in 0..MaxLabSelections
  BY LabAssumption
<1>. QED  BY <1>2, <1>4, <1>5, <1>6 DEF LabRecord

\* So does asking for one.
LEMMA AskOrHandShape ==
  ASSUME NEW s \in LabRecord, NEW d \in BOOLEAN, lab \in LabRecord, NEW p, p = AskOrHand(s, d)
  PROVE  /\ p \in LabRecord
         /\ s = lab => \A op \in Operation : p.step[op] = s.step[op] \/ p.step[op].phase = "editing"
         /\ s = lab => \A v \in Verification : p.check[v] \in {"idle", s.check[v]}
         /\ s = lab => /\ p.pending \in {0, s.pending, s.step["make"].result}
                       /\ p.handed \in {s.handed, s.step["make"].result}
<1>1. "make" \in Operation /\ s.step["make"].result \in 0..MaxLabSelections
  BY DEF Operation, LabRecord, LabStep
<1>2. CASE d \/ s.step["get"].phase = "success"
  <2>1. p = [s EXCEPT !.pending = s.step["make"].result]
    BY <1>2 DEF AskOrHand
  <2>. QED  BY <1>1, <2>1 DEF LabRecord
<1>3. CASE ~(d \/ s.step["get"].phase = "success")
  <2>1. p = HandedOver(lab, s.step["make"].result)
    BY <1>3 DEF AskOrHand
  <2>2. /\ p \in LabRecord /\ p.pending = 0 /\ p.handed = s.step["make"].result
        /\ p.step["make"] = lab.step["make"] /\ p.step["get"].phase = "editing"
        /\ \A v \in Verification : p.check[v] \in {"idle", lab.check[v]}
    BY <1>1, <2>1, HandedOverShape
  <2>. QED  BY <2>2 DEF Operation
<1>. QED  BY <1>2, <1>3

-----------------------------------------------------------------------------
(* The steps.                                                               *)

\* Steps of the window alone: the wire and the sessions stay, a new record is of the
\* session if it shows nothing the old one did not.
LEMMA LocalStep ==
  ASSUME LabRecordInv, UNCHANGED <<labSession, labServiceVars, labWire, arkg>>,
         lab' \in LabRecord, labBusy' \in BOOLEAN, runs' \in [LabCall -> LabRun],
         verifying' \in [Verification -> Nat], captured' # NoCapture => captured' \in LabRecord,
         ~arkg => /\ captured' = NoCapture /\ OfSession(lab)'
                  /\ WaitsForRuns(lab)' /\ WaitsForChecks(lab)' /\ BusyWithRun'
  PROVE  LabRecordInv'
<1>1. LabTypes'
  BY DEF LabRecordInv, LabTypes, labServiceVars
<1>2. LabView'
  BY DEF LabRecordInv, LabView, ViewIs, ChangesSession, SessionAfter, labServiceVars
<1>3. ~arkg => LabWaits' /\ LabResultsOfSession' /\ LabHandoffOfSession'
  BY DEF LabWaits, WaitsForRuns, WaitsForChecks, BusyWithRun, LabResultsOfSession,
         LabHandoffOfSession, OfSession
<1>. QED  BY <1>1, <1>2, <1>3 DEF LabRecordInv

\* The parts of the record that show no more than before.
LEMMA ShowsLess ==
  ASSUME LabRecordInv, ~arkg, UNCHANGED <<labSession, runs, verifying>>, labBusy' \in {labBusy, FALSE},
         \A op \in Operation : lab'.step[op] = lab.step[op]
                               \/ lab'.step[op].phase \in
                                    {"editing", "previewFailed", "executeFailed", "review"},
         \A v \in Verification : lab'.check[v] \in {"idle", "ready", "error", lab.check[v]},
         lab'.pending \in {0, labSession.id}, lab'.handed \in {0, labSession.id}
  PROVE  OfSession(lab)' /\ WaitsForRuns(lab)' /\ WaitsForChecks(lab)' /\ BusyWithRun'
<1>1. OfSession(lab) /\ WaitsForRuns(lab) /\ WaitsForChecks(lab) /\ BusyWithRun
  BY PartsOfRecord DEF LabRecordInv
<1>2. OfSession(lab)'
  BY <1>1 DEF OfSession
<1>3. WaitsForRuns(lab)'
  BY <1>1 DEF WaitsForRuns, RunUnderWay
<1>4. WaitsForChecks(lab)'
  BY <1>1 DEF WaitsForChecks
<1>5. BusyWithRun'
  BY <1>1 DEF BusyWithRun
<1>. QED  BY <1>2, <1>3, <1>4, <1>5

\* The credential that is handed over is of the session.
LEMMA HandoffNow ==
  ASSUME LabRecordInv, ~arkg
  PROVE  lab.pending \in {0, labSession.id} /\ lab.handed \in {0, labSession.id}
BY DEF LabRecordInv, LabHandoffOfSession

\* The user edits a draft or leaves a result.
LEMMA LabEdits ==
  ASSUME LabRecordInv, NEW op \in Operation, UpdateLabDraft(op) \/ EditLab(op)
  PROVE  LabRecordInv'
<1>1. UNCHANGED <<labSession, labBusy, runs, verifying, captured, labServiceVars, labWire, arkg>>
  BY DEF UpdateLabDraft, EditLab
<1>2. PICK p : p = Published(lab, op, Step("editing", 0), "idle")
  OBVIOUS
<1>3. Step("editing", 0) \in LabStep /\ Step("editing", 0).phase = "editing"
  BY LabAssumption DEF Step, LabStep, Phase
<1>4. lab \in LabRecord /\ "idle" \in Check /\ 0 \in 0..MaxLabSelections
  BY LabAssumption DEF LabRecordInv, LabTypes, Check
<1>5. /\ p \in LabRecord /\ p.step[op] = Step("editing", 0)
      /\ \A o \in Operation \ {op} : p.step[o] = lab.step[o]
      /\ \A v \in Verification : p.check[v] \in {"idle", lab.check[v]}
      /\ p.pending = lab.pending /\ p.handed = lab.handed
  BY <1>2, <1>3, <1>4, PublishedShape
<1>6. lab' \in {p, [p EXCEPT !.handed = 0], [p EXCEPT !.pending = 0]}
  <2>1. UpdateLabDraft(op) => lab' \in {p, [p EXCEPT !.handed = IF op = "get" THEN 0 ELSE @]}
    BY <1>2 DEF UpdateLabDraft
  <2>2. [p EXCEPT !.handed = p.handed] = p
    BY <1>5 DEF LabRecord
  <2>3. EditLab(op) => lab' = [p EXCEPT !.pending = 0]
    BY <1>2 DEF EditLab
  <2>. QED  BY <2>1, <2>2, <2>3
<1>7. /\ lab' \in LabRecord /\ lab'.step = p.step /\ lab'.check = p.check
      /\ lab'.pending \in {0, lab.pending} /\ lab'.handed \in {0, lab.handed}
  BY <1>4, <1>5, <1>6 DEF LabRecord
<1>8. ASSUME ~arkg
      PROVE  OfSession(lab)' /\ WaitsForRuns(lab)' /\ WaitsForChecks(lab)' /\ BusyWithRun'
  <2>1. lab'.pending \in {0, labSession.id} /\ lab'.handed \in {0, labSession.id}
    BY <1>7, <1>8, HandoffNow
  <2>2. /\ \A o \in Operation : lab'.step[o] = lab.step[o] \/ lab'.step[o].phase = "editing"
        /\ \A v \in Verification : lab'.check[v] \in {"idle", lab.check[v]}
    BY <1>3, <1>5, <1>7
  <2>. QED  BY <1>1, <1>8, <2>1, <2>2, ShowsLess
<1>9. /\ labBusy' \in BOOLEAN /\ runs' \in [LabCall -> LabRun] /\ verifying' \in [Verification -> Nat]
      /\ captured' # NoCapture => captured' \in LabRecord
      /\ ~arkg => captured' = NoCapture
  BY <1>1 DEF LabRecordInv, LabTypes
<1>. QED  BY <1>1, <1>7, <1>8, <1>9, LocalStep

\* The user previews or executes: the call is under way with what is shown.
LEMMA LabRuns ==
  ASSUME LabRecordInv, NEW k \in LabCall, NEW op \in Operation, PreviewLab(k, op) \/ ConfirmLab(k, op)
  PROVE  LabRecordInv'
<1>1. PICK stage \in {"preview", "execute"} : Run(k, op, stage)
  BY DEF PreviewLab, ConfirmLab
<1>2. PICK step : step = Step(IF stage = "preview" THEN "previewing" ELSE "executing", 0)
  OBVIOUS
<1>3. /\ step \in LabStep /\ step.phase \in {"previewing", "executing"}
      /\ step.phase = "previewing" <=> stage = "preview"
  BY <1>2, LabAssumption DEF Step, LabStep, Phase
<1>4. /\ runs[k] = NoRun /\ runs' = [runs EXCEPT ![k] = [op |-> op, stage |-> stage, served |-> FALSE]]
      /\ lab' = Published(lab, op, step, "idle") /\ labBusy' = TRUE
      /\ UNCHANGED <<labSession, verifying, captured, labServiceVars, labWire, arkg>>
  BY <1>1, <1>2 DEF Run
<1>5. /\ lab \in LabRecord /\ "idle" \in Check /\ runs \in [LabCall -> LabRun]
      /\ verifying \in [Verification -> Nat] /\ (captured # NoCapture => captured \in LabRecord)
      /\ (~arkg => captured = NoCapture)
  BY DEF LabRecordInv, LabTypes, Check
<1>6. /\ lab' \in LabRecord /\ lab'.step[op] = step
      /\ \A o \in Operation \ {op} : lab'.step[o] = lab.step[o]
      /\ \A v \in Verification : lab'.check[v] \in {"idle", lab.check[v]}
      /\ lab'.pending = lab.pending /\ lab'.handed = lab.handed
  BY <1>3, <1>4, <1>5, PublishedShape
<1>7. /\ runs' \in [LabCall -> LabRun]
      /\ runs'[k] = [op |-> op, stage |-> stage, served |-> FALSE]
      /\ \A c \in LabCall \ {k} : runs'[c] = runs[c]
  BY <1>4, <1>5 DEF LabRun
<1>8. runs'[k] # NoRun /\ runs'[k].op = op /\ runs'[k].stage = stage
  BY <1>7 DEF NoRun, Operation
<1>9. ASSUME ~arkg
      PROVE  OfSession(lab)' /\ WaitsForRuns(lab)' /\ WaitsForChecks(lab)' /\ BusyWithRun'
  <2>1. OfSession(lab) /\ WaitsForRuns(lab) /\ WaitsForChecks(lab)
    BY <1>9, PartsOfRecord DEF LabRecordInv
  <2>2. OfSession(lab)'
    <3>1. \A o \in Operation : lab'.step[o].phase = "success" => o # op
      BY <1>3, <1>6
    <3>. QED  BY <1>4, <1>6, <2>1, <3>1 DEF OfSession
  <2>3. WaitsForRuns(lab)'
    <3>1. RunUnderWay(op, stage)'
      BY <1>8 DEF RunUnderWay
    <3>2. ASSUME NEW o \in Operation, NEW st, RunUnderWay(o, st)
          PROVE  RunUnderWay(o, st)'
      <4>1. PICK c \in LabCall : runs[c].op = o /\ runs[c].stage = st
        BY <3>2 DEF RunUnderWay
      <4>2. c # k
        BY <1>4, <4>1 DEF NoRun, Operation
      <4>. QED  BY <1>7, <4>1, <4>2 DEF RunUnderWay
    <3>. QED  BY <1>3, <1>6, <2>1, <3>1, <3>2 DEF WaitsForRuns
  <2>4. WaitsForChecks(lab)'
    BY <1>4, <1>6, <2>1 DEF WaitsForChecks
  <2>. QED  BY <1>8, <2>2, <2>3, <2>4 DEF BusyWithRun
<1>. QED  BY <1>4, <1>5, <1>6, <1>7, <1>9, LocalStep

\* A verification begins again, or returns.
LEMMA LabVerifies ==
  ASSUME LabRecordInv, NEW v \in Verification, VerifyAgain(v) \/ VerificationReturns(v)
  PROVE  LabRecordInv'
<1>1. UNCHANGED <<labSession, labBusy, runs, captured, labServiceVars, labWire, arkg>>
  BY DEF VerifyAgain, VerificationReturns
<1>2. PICK check \in {"loading", "ready", "error"} :
        /\ lab' = [lab EXCEPT !.check[v] = check]
        /\ IF check = "loading" THEN verifying' = [verifying EXCEPT ![v] = @ + 1]
           ELSE verifying[v] > 0 /\ verifying' = [verifying EXCEPT ![v] = @ - 1]
  BY DEF VerifyAgain, VerificationReturns
<1>3. /\ lab \in LabRecord /\ runs \in [LabCall -> LabRun] /\ labBusy \in BOOLEAN
      /\ verifying \in [Verification -> Nat] /\ (captured # NoCapture => captured \in LabRecord)
      /\ (~arkg => captured = NoCapture)
  BY DEF LabRecordInv, LabTypes
<1>4. /\ lab' \in LabRecord /\ lab'.step = lab.step /\ lab'.check[v] = check
      /\ lab'.pending = lab.pending /\ lab'.handed = lab.handed
      /\ \A w \in Verification \ {v} : lab'.check[w] = lab.check[w]
  BY <1>2, <1>3 DEF LabRecord
<1>5. /\ verifying' \in [Verification -> Nat] /\ (check = "loading" => verifying'[v] > 0)
      /\ \A w \in Verification \ {v} : verifying'[w] = verifying[w]
  <2>1. verifying[v] \in Nat
    BY <1>3
  <2>2. CASE check = "loading"
    BY <1>2, <1>3, <2>1, <2>2
  <2>3. CASE check # "loading"
    BY <1>2, <1>3, <2>1, <2>3
  <2>. QED  BY <2>2, <2>3
<1>6. ASSUME ~arkg
      PROVE  OfSession(lab)' /\ WaitsForRuns(lab)' /\ WaitsForChecks(lab)' /\ BusyWithRun'
  <2>1. OfSession(lab) /\ WaitsForRuns(lab) /\ WaitsForChecks(lab) /\ BusyWithRun
    BY <1>6, PartsOfRecord DEF LabRecordInv
  <2>2. OfSession(lab)'
    BY <1>1, <1>4, <2>1 DEF OfSession
  <2>3. WaitsForRuns(lab)'
    BY <1>1, <1>4, <2>1 DEF WaitsForRuns, RunUnderWay
  <2>4. WaitsForChecks(lab)'
    BY <1>2, <1>4, <1>5, <2>1 DEF WaitsForChecks
  <2>5. BusyWithRun'
    BY <1>1, <2>1 DEF BusyWithRun
  <2>. QED  BY <2>2, <2>3, <2>4, <2>5
<1>. QED  BY <1>1, <1>3, <1>4, <1>5, <1>6, LocalStep

\* A credential is handed over, at once or after the dialog or the derivation.
LEMMA LabHandsOver ==
  ASSUME LabRecordInv,
         HandoffLabCredential \/ ConfirmLabHandoff \/ CancelLabHandoff \/ DerivationReturns
  PROVE  LabRecordInv'
<1>1. UNCHANGED <<labSession, labBusy, runs, verifying, labServiceVars, labWire, arkg>>
  BY DEF HandoffLabCredential, ConfirmLabHandoff, CancelLabHandoff, DerivationReturns
<1>2. /\ lab \in LabRecord /\ runs \in [LabCall -> LabRun] /\ labBusy \in BOOLEAN
      /\ verifying \in [Verification -> Nat] /\ (captured # NoCapture => captured \in LabRecord)
      /\ (~arkg => captured = NoCapture) /\ lab.pending \in 0..MaxLabSelections
      /\ 0 \in 0..MaxLabSelections
  BY LabAssumption DEF LabRecordInv, LabTypes, LabRecord
<1>3. ASSUME lab' \in LabRecord, captured' \in LabRecord \cup {NoCapture}, ~arkg => captured' = NoCapture,
             ~arkg => /\ \A op \in Operation : lab'.step[op] = lab.step[op] \/ lab'.step[op].phase = "editing"
                      /\ \A v \in Verification : lab'.check[v] \in {"idle", lab.check[v]}
                      /\ lab'.pending \in {0, labSession.id} /\ lab'.handed \in {0, labSession.id}
      PROVE  LabRecordInv'
  <2>1. ~arkg => OfSession(lab)' /\ WaitsForRuns(lab)' /\ WaitsForChecks(lab)' /\ BusyWithRun'
    BY <1>1, <1>3, ShowsLess
  <2>. QED  BY <1>1, <1>2, <1>3, <2>1, LocalStep
<1>4. CASE HandoffLabCredential /\ arkg
  BY <1>2, <1>3, <1>4 DEF HandoffLabCredential
<1>5. CASE HandoffLabCredential /\ ~arkg
  <2>1. PICK d \in BOOLEAN : lab' = AskOrHand(lab, d)
    BY <1>5 DEF HandoffLabCredential
  <2>2. captured' = captured /\ lab.step["make"].phase = "success"
    BY <1>5 DEF HandoffLabCredential
  <2>3. lab.step["make"].result = labSession.id
    BY <1>5, <2>2 DEF LabRecordInv, LabResultsOfSession, Operation
  <2>4. lab.pending \in {0, labSession.id} /\ lab.handed \in {0, labSession.id}
    BY <1>5, HandoffNow
  <2>5. /\ lab' \in LabRecord
        /\ \A op \in Operation : lab'.step[op] = lab.step[op] \/ lab'.step[op].phase = "editing"
        /\ \A v \in Verification : lab'.check[v] \in {"idle", lab.check[v]}
        /\ lab'.pending \in {0, lab.pending, lab.step["make"].result}
        /\ lab'.handed \in {lab.handed, lab.step["make"].result}
    BY <1>2, <2>1, AskOrHandShape
  <2>. QED  BY <1>2, <1>3, <1>5, <2>2, <2>3, <2>4, <2>5
<1>6. CASE ConfirmLabHandoff
  <2>1. lab' = HandedOver(lab, lab.pending) /\ captured' = captured
    BY <1>6 DEF ConfirmLabHandoff
  <2>2. /\ lab' \in LabRecord /\ lab'.pending = 0 /\ lab'.handed = lab.pending
        /\ lab'.step["make"] = lab.step["make"] /\ lab'.step["get"].phase = "editing"
        /\ \A v \in Verification : lab'.check[v] \in {"idle", lab.check[v]}
    BY <1>2, <2>1, HandedOverShape
  <2>3. \A op \in Operation : lab'.step[op] = lab.step[op] \/ lab'.step[op].phase = "editing"
    BY <2>2 DEF Operation
  <2>. QED  BY <1>2, <1>3, <2>1, <2>2, <2>3, HandoffNow
<1>7. CASE CancelLabHandoff
  <2>1. lab' = [lab EXCEPT !.pending = 0] /\ captured' = captured
    BY <1>7 DEF CancelLabHandoff
  <2>2. /\ lab' \in LabRecord /\ lab'.step = lab.step /\ lab'.check = lab.check
        /\ lab'.pending = 0 /\ lab'.handed = lab.handed
    BY <1>2, <2>1 DEF LabRecord
  <2>. QED  BY <1>2, <1>3, <2>1, <2>2, HandoffNow
<1>8. CASE DerivationReturns
  <2>1. arkg /\ captured \in LabRecord /\ captured' = NoCapture
    BY <1>2, <1>8 DEF DerivationReturns
  <2>2. lab' = lab \/ \E d \in BOOLEAN : lab' = AskOrHand(captured, d)
    BY <1>8 DEF DerivationReturns
  <2>3. lab' \in LabRecord
    BY <1>2, <2>1, <2>2, AskOrHandShape
  <2>. QED  BY <1>3, <2>1, <2>3
<1>. QED  BY <1>4, <1>5, <1>6, <1>7, <1>8

\* The operation of another screen ends.
LEMMA LabIdles ==
  ASSUME LabRecordInv, OtherOperationEnds
  PROVE  LabRecordInv'
<1>1. /\ labBusy' = FALSE
      /\ UNCHANGED <<lab, labSession, runs, verifying, captured, labServiceVars, labWire, arkg>>
  BY DEF OtherOperationEnds
<1>2. ~arkg => OfSession(lab)' /\ WaitsForRuns(lab)' /\ WaitsForChecks(lab)' /\ BusyWithRun'
  <2>1. ~arkg => lab.pending \in {0, labSession.id} /\ lab.handed \in {0, labSession.id}
    BY HandoffNow
  <2>. QED  BY <1>1, <2>1, ShowsLess
<1>3. /\ lab' \in LabRecord /\ labBusy' \in BOOLEAN /\ runs' \in [LabCall -> LabRun]
      /\ verifying' \in [Verification -> Nat]
      /\ captured' # NoCapture => captured' \in LabRecord
      /\ ~arkg => captured' = NoCapture
  BY <1>1 DEF LabRecordInv, LabTypes
<1>. QED  BY <1>1, <1>2, <1>3, LocalStep

\* Whatever the service sends, the window will see its session.
LEMMA SentAll ==
  ASSUME LabTypes, LabView, NEW m \in LabMessage, LabSend(m), UNCHANGED labSession,
         NEW s, labService' = s,
         \/ m.kind = "snapshot" /\ s = m.id
         \/ m.kind = "answer" /\ m.closed /\ s = 0
         \/ m.kind = "answer" /\ ~m.closed /\ s = labService /\ m.on = labService
  PROVE  LabView'
<1>1. /\ labWire' \in Seq(LabMessage) /\ Len(labWire) \in Nat /\ Len(labWire') = Len(labWire) + 1
      /\ \A i \in 1..Len(labWire) : labWire'[i] = labWire[i]
      /\ labWire'[Len(labWire) + 1] = m
  BY LabSent
<1>2. PICK n : n = Len(labWire) + 1
  OBVIOUS
<1>3. n \in 1..Len(labWire) + 1 /\ n = Len(labWire')
  BY <1>1, <1>2
<1>4. PICK old : old = labService
  OBVIOUS
<1>5. ViewIs(n, old)
  BY <1>2, <1>4 DEF LabView
<1>6. ViewIs(n + 1, s)'
  <2>1. CASE m.kind = "snapshot" /\ s = m.id
    BY <1>2, <1>3, <2>1, SentView
  <2>2. CASE m.kind = "answer" /\ m.closed /\ s = 0
    BY <1>2, <1>3, <2>2, SentView
  <2>3. CASE m.kind = "answer" /\ ~m.closed /\ s = labService /\ m.on = labService
    BY <1>2, <1>3, <1>4, <1>5, <2>3, SentView
  <2>. QED  BY <2>1, <2>2, <2>3
<1>7. ViewIs(Len(labWire) + 1, labService)'
  <2>1. n + 1 = Len(labWire') + 1 /\ s = labService'
    BY <1>3
  <2>. QED  BY <1>6, <2>1 DEF ViewIs
<1>8. ASSUME NEW i \in DOMAIN labWire', labWire'[i].kind = "answer", labWire'[i].ok, ~labWire'[i].closed
      PROVE  ViewIs(i, labWire[i].on)'
  <2>1. PICK on : on = labWire'[i].on
    OBVIOUS
  <2>2. i \in 1..Len(labWire) + 1 /\ i \in 1..n
    BY <1>1, <1>2
  <2>3. CASE i = n
    <3>1. labWire'[i] = m /\ m.kind = "answer" /\ ~m.closed /\ on = old
      BY <1>1, <1>2, <1>4, <1>8, <2>1, <2>3
    <3>2. ViewIs(i, on)'
      BY <1>5, <2>2, <2>3, <3>1, SentView
    <3>. QED  BY <2>1, <3>2 DEF ViewIs
  <2>4. CASE i # n
    <3>1. i \in 1..Len(labWire) /\ labWire'[i] = labWire[i] /\ i \in DOMAIN labWire
      BY <1>1, <1>2, <2>2, <2>4 DEF LabTypes
    <3>2. ViewIs(i, on)
      BY <1>8, <2>1, <3>1 DEF LabView
    <3>3. ViewIs(i, on)'
      BY <2>2, <3>2, SentView
    <3>. QED  BY <2>1, <3>3 DEF ViewIs
  <2>. QED  BY <2>3, <2>4
<1>. QED  BY <1>7, <1>8 DEF LabView

\* The service selects, loses its authenticator or ends a run.
LEMMA LabServes ==
  ASSUME LabRecordInv, PublishLabSelection \/ \E k \in LabCall : ServeRun(k)
  PROVE  LabRecordInv'
<1>1. /\ UNCHANGED <<lab, labSession, labBusy, verifying, captured, arkg>>
      /\ LabTypes /\ LabView /\ labMade \in 0..MaxLabSelections /\ labService \in 0..labMade
      /\ MaxLabSelections \in Nat /\ runs \in [LabCall -> LabRun]
  BY LabAssumption DEF PublishLabSelection, ServeRun, LabRecordInv, LabTypes
<1>2. CASE PublishLabSelection
  <2>1. PICK id \in 0..MaxLabSelections, att \in BOOLEAN, made \in 0..MaxLabSelections :
          /\ LabSend([kind |-> "snapshot", id |-> id, attached |-> att])
          /\ labService' = id /\ labMade' = made /\ id <= made
    <3>1. CASE labMade < MaxLabSelections /\ labMade' = labMade + 1 /\ labService' = labMade + 1
               /\ LabSend([kind |-> "snapshot", id |-> labMade + 1, attached |-> TRUE])
      <4>1. labMade + 1 \in 0..MaxLabSelections /\ labMade + 1 <= labMade + 1
        BY <1>1, <3>1
      <4>. QED  BY <3>1, <4>1
    <3>2. CASE labService' = 0 /\ UNCHANGED labMade
               /\ \E att \in BOOLEAN : LabSend([kind |-> "snapshot", id |-> 0, attached |-> att])
      <4>1. 0 \in 0..MaxLabSelections /\ 0 <= labMade
        BY <1>1
      <4>. QED  BY <1>1, <3>2, <4>1
    <3>. QED  BY <1>2, <3>1, <3>2 DEF PublishLabSelection
  <2>2. UNCHANGED runs
    BY <1>2 DEF PublishLabSelection
  <2>3. PICK m \in LabMessage : m = [kind |-> "snapshot", id |-> id, attached |-> att]
    BY DEF LabMessage
  <2>4. LabView' /\ labWire' \in Seq(LabMessage)
    BY <1>1, <2>1, <2>3, SentAll, LabSent
  <2>5. labService' \in 0..labMade'
    BY <2>1
  <2>6. LabTypes'
    BY <1>1, <2>1, <2>2, <2>4, <2>5 DEF LabTypes
  <2>7. ~arkg => LabWaits' /\ LabResultsOfSession' /\ LabHandoffOfSession'
    BY <1>1, <2>2 DEF LabRecordInv, LabWaits, LabResultsOfSession, LabHandoffOfSession, RunUnderWay
  <2>. QED  BY <1>1, <2>4, <2>6, <2>7 DEF LabRecordInv
<1>3. CASE \E k \in LabCall : ServeRun(k)
  <2>1. PICK k \in LabCall, ok \in BOOLEAN, closed \in BOOLEAN :
          /\ runs[k] # NoRun /\ ~runs[k].served /\ runs' = [runs EXCEPT ![k].served = TRUE]
          /\ labService' = IF closed THEN 0 ELSE labService
          /\ LabSend([kind |-> "answer", call |-> k, ok |-> ok, closed |-> closed, on |-> labService])
          /\ UNCHANGED labMade
    BY <1>3 DEF ServeRun
  <2>2. labService \in 0..MaxLabSelections /\ 0 \in 0..labMade
    BY <1>1
  <2>3. PICK m \in LabMessage :
          m = [kind |-> "answer", call |-> k, ok |-> ok, closed |-> closed, on |-> labService]
    BY <2>2 DEF LabMessage
  <2>4. LabView' /\ labWire' \in Seq(LabMessage)
    BY <1>1, <2>1, <2>3, SentAll, LabSent
  <2>5. /\ runs' \in [LabCall -> LabRun]
        /\ \A c \in LabCall : runs'[c].op = runs[c].op /\ runs'[c].stage = runs[c].stage
        /\ \A c \in LabCall : runs[c] # NoRun => runs'[c] # NoRun
    <3>1. runs' \in [LabCall -> LabRun]
          /\ \A c \in LabCall : runs'[c].op = runs[c].op /\ runs'[c].stage = runs[c].stage
      BY <1>1, <2>1 DEF LabRun
    <3>2. runs'[k].served = TRUE /\ \A c \in LabCall \ {k} : runs'[c] = runs[c]
      BY <1>1, <2>1 DEF LabRun
    <3>3. NoRun.served = FALSE
      BY DEF NoRun
    <3>4. runs'[k] # NoRun
      BY <3>2, <3>3
    <3>. QED  BY <3>1, <3>2, <3>4
  <2>6. labService' \in 0..labMade' /\ labMade' \in 0..MaxLabSelections
    BY <1>1, <2>1, <2>2
  <2>7. LabTypes'
    BY <1>1, <2>4, <2>5, <2>6 DEF LabTypes
  <2>8. ASSUME ~arkg
        PROVE  LabWaits' /\ LabResultsOfSession' /\ LabHandoffOfSession'
    <3>1. LabResultsOfSession' /\ LabHandoffOfSession'
      BY <1>1, <2>8 DEF LabRecordInv, LabResultsOfSession, LabHandoffOfSession
    <3>2. LabWaits'
      BY <1>1, <2>5, <2>8 DEF LabRecordInv, LabWaits, RunUnderWay
    <3>. QED  BY <3>1, <3>2
  <2>. QED  BY <1>1, <2>4, <2>7, <2>8 DEF LabRecordInv
<1>. QED  BY <1>2, <1>3

\* A snapshot arrives.
LEMMA LabApplies ==
  ASSUME LabRecordInv, ApplyLabSnapshot
  PROVE  LabRecordInv'
<1>1. /\ labWire # <<>> /\ Head(labWire).kind = "snapshot" /\ labWire' = Tail(labWire)
      /\ labSession' = [id |-> Head(labWire).id, attached |-> Head(labWire).attached]
      /\ lab' = IF labSession' # labSession THEN CreateLabState ELSE lab
      /\ UNCHANGED <<labBusy, runs, verifying, captured, labServiceVars, arkg>>
  BY DEF ApplyLabSnapshot, LabDelivers, Boundary
<1>2. Head(labWire) = labWire[1] /\ UNCHANGED labService
  BY <1>1 DEF LabRecordInv, LabTypes, labServiceVars
<1>3. LabView' /\ labWire' \in Seq(LabMessage) /\ Head(labWire) \in LabMessage
  BY <1>1, <1>2, ReceivedAll DEF LabRecordInv, ChangesSession, SessionAfter
<1>4. labSession' \in [id : 0..MaxLabSelections, attached : BOOLEAN]
  BY <1>1, <1>3 DEF LabMessage
<1>5. LabTypes'
  BY <1>1, <1>3, <1>4, EmptyRecord DEF LabRecordInv, LabTypes, labServiceVars
<1>6. ASSUME ~arkg
      PROVE  LabWaits' /\ LabResultsOfSession' /\ LabHandoffOfSession'
  <2>1. CASE labSession' # labSession
    <3>1. BusyWithRun'
      BY <1>1, <1>6 DEF LabRecordInv, LabWaits, BusyWithRun
    <3>2. OfSession(lab)' /\ WaitsForRuns(lab)' /\ WaitsForChecks(lab)'
      BY <1>1, <2>1, EmptyRecord DEF OfSession, WaitsForRuns, WaitsForChecks
    <3>. QED  BY <3>1, <3>2 DEF LabWaits, WaitsForRuns, WaitsForChecks, BusyWithRun,
                 LabResultsOfSession, LabHandoffOfSession, OfSession
  <2>2. CASE labSession' = labSession
    BY <1>1, <1>6, <2>2 DEF LabRecordInv, LabWaits, LabResultsOfSession, LabHandoffOfSession, RunUnderWay
  <2>. QED  BY <2>1, <2>2
<1>. QED  BY <1>1, <1>3, <1>5, <1>6 DEF LabRecordInv

\* A run returns: its result is of the session the window has by then.
LEMMA LabReturns ==
  ASSUME LabRecordInv, RunReturns
  PROVE  LabRecordInv'
<1> DEFINE a == labWire[1]
           run == runs[a.call]
<1>1. /\ labWire # <<>> /\ Head(labWire).kind = "answer" /\ labWire' = Tail(labWire)
      /\ Head(labWire) = a
      /\ labBusy' = FALSE /\ UNCHANGED <<captured, labServiceVars, arkg>>
  BY DEF RunReturns, LabDelivers, LabRecordInv, LabTypes
<1>2. /\ lab' = IF a.closed THEN CreateLabState ELSE Returned(run, a)
      /\ labSession' = IF a.closed THEN [labSession EXCEPT !.id = 0] ELSE labSession
      /\ runs' = [runs EXCEPT ![a.call] = NoRun]
      /\ verifying' = [v \in Verification |->
           IF a.ok /\ run.stage = "execute" /\ Of(v) = run.op THEN verifying[v] + 1 ELSE verifying[v]]
  BY <1>1 DEF RunReturns
<1>3. a \in LabMessage /\ a.kind = "answer"
  BY <1>1 DEF LabRecordInv, LabTypes
<1>4. a.call \in LabCall /\ a.ok \in BOOLEAN /\ a.closed \in BOOLEAN /\ a.on \in 0..MaxLabSelections
  BY <1>3 DEF LabMessage
<1>5. /\ lab \in LabRecord /\ runs \in [LabCall -> LabRun] /\ verifying \in [Verification -> Nat]
      /\ labSession \in [id : 0..MaxLabSelections, attached : BOOLEAN] /\ 0 \in 0..MaxLabSelections
  BY LabAssumption DEF LabRecordInv, LabTypes
<1>6. run \in LabRun
  BY <1>4, <1>5
<1>7. /\ labSession' \in [id : 0..MaxLabSelections, attached : BOOLEAN]
      /\ labSession'.id = IF a.closed THEN 0 ELSE labSession.id
  BY <1>2, <1>5
<1> HIDE DEF run
<1>8. /\ runs' \in [LabCall -> LabRun] /\ (\A c \in LabCall \ {a.call} : runs'[c] = runs[c])
      /\ verifying' \in [Verification -> Nat] /\ \A v \in Verification : verifying'[v] >= verifying[v]
  <2>1. NoRun \in LabRun
    BY DEF LabRun
  <2>2. \A v \in Verification : verifying[v] \in Nat
    BY <1>5
  <2>. QED  BY <1>2, <1>4, <1>5, <2>1, <2>2
<1>9. /\ LabView' /\ labWire' \in Seq(LabMessage)
      /\ a.ok /\ ~a.closed => a.on = labSession.id
  <2>1. labSession'.id = IF ChangesSession(1) THEN SessionAfter(1) ELSE labSession.id
    BY <1>3, <1>7 DEF ChangesSession, SessionAfter
  <2>. QED  BY <1>1, <1>3, <2>1, ReceivedAll DEF LabRecordInv, labServiceVars
<1>10. ASSUME ~a.closed
       PROVE  \E step \in LabStep, check \in Check :
                /\ lab' = Published(lab, run.op, step, check)
                /\ step.phase \in {"previewFailed", "executeFailed", "review", "success"}
                /\ step.phase = "success" => step.result = labSession.id
                /\ check = "loading" => a.ok /\ run.stage # "preview" /\ step.phase = "success"
                /\ check \in {"idle", "loading"}
  <2>1. CASE ~a.ok
    <3>1. PICK step : step = Step(IF run.stage = "preview" THEN "previewFailed" ELSE "executeFailed", 0)
      OBVIOUS
    <3>2. step \in LabStep /\ step.phase \in {"previewFailed", "executeFailed"}
      BY <1>5, <3>1 DEF Step, LabStep, Phase
    <3>3. lab' = Published(lab, run.op, step, "idle")
      BY <1>2, <1>10, <2>1, <3>1 DEF Returned
    <3>. QED  BY <3>2, <3>3 DEF Check
  <2>2. CASE a.ok /\ run.stage = "preview"
    <3>1. Step("review", 0) \in LabStep /\ Step("review", 0).phase = "review"
      BY <1>5 DEF Step, LabStep, Phase
    <3>2. lab' = Published(lab, run.op, Step("review", 0), "idle")
      BY <1>2, <1>10, <2>2 DEF Returned
    <3>. QED  BY <3>1, <3>2 DEF Check
  <2>3. CASE a.ok /\ run.stage # "preview"
    <3>1. /\ Step("success", a.on) \in LabStep /\ Step("success", a.on).phase = "success"
          /\ Step("success", a.on).result = a.on
      BY <1>4 DEF Step, LabStep, Phase
    <3>2. lab' = Published(lab, run.op, Step("success", a.on), "loading")
      BY <1>2, <1>10, <2>3 DEF Returned
    <3>. QED  BY <1>9, <1>10, <2>3, <3>1, <3>2 DEF Check
  <2>. QED  BY <1>4, <2>1, <2>2, <2>3
<1>11. /\ run.op \in Operation \cup {"none"}
       /\ run.op \in Operation => run.stage \in {"preview", "execute"}
  BY <1>6 DEF LabRun, NoRun, Operation
<1>12. lab' \in LabRecord
  <2>1. CASE a.closed
    BY <1>2, <2>1, EmptyRecord
  <2>2. CASE ~a.closed
    BY <1>5, <1>10, <1>11, <2>2, PublishedShape
  <2>. QED  BY <2>1, <2>2
<1>13. LabTypes'
  BY <1>1, <1>7, <1>8, <1>9, <1>12 DEF LabRecordInv, LabTypes, labServiceVars

<1>14. ASSUME ~arkg
       PROVE  LabWaits' /\ LabResultsOfSession' /\ LabHandoffOfSession'
  <2>1. OfSession(lab) /\ WaitsForRuns(lab) /\ WaitsForChecks(lab)
    BY <1>14, PartsOfRecord DEF LabRecordInv
  <2>2. BusyWithRun'
    BY <1>1 DEF BusyWithRun
  <2>3. ASSUME a.closed
        PROVE  OfSession(lab)' /\ WaitsForRuns(lab)' /\ WaitsForChecks(lab)'
    BY <1>2, <2>3, EmptyRecord DEF OfSession, WaitsForRuns, WaitsForChecks
  <2>4. ASSUME ~a.closed
        PROVE  OfSession(lab)' /\ WaitsForRuns(lab)' /\ WaitsForChecks(lab)'
    <3>1. PICK step \in LabStep, check \in Check :
            /\ lab' = Published(lab, run.op, step, check)
            /\ step.phase \in {"previewFailed", "executeFailed", "review", "success"}
            /\ step.phase = "success" => step.result = labSession.id
            /\ check = "loading" => a.ok /\ run.stage # "preview" /\ step.phase = "success"
            /\ check \in {"idle", "loading"}
      BY <1>10, <2>4
    <3>2. /\ run.op \in Operation => lab'.step[run.op] = step
          /\ \A o \in Operation \ {run.op} : lab'.step[o] = lab.step[o]
          /\ \A v \in Verification : lab'.check[v] = IF Of(v) = run.op THEN check ELSE lab.check[v]
          /\ lab'.pending = lab.pending /\ lab'.handed = lab.handed
      BY <1>5, <1>11, <3>1, PublishedShape
    <3>3. labSession'.id = labSession.id
      BY <1>7, <2>4
    <3>4. OfSession(lab)'
      <4>1. ASSUME NEW o \in Operation, lab'.step[o].phase = "success"
            PROVE  lab'.step[o].result = labSession'.id
        <5>1. CASE o = run.op
          BY <3>1, <3>2, <3>3, <4>1, <5>1
        <5>2. CASE o # run.op
          BY <2>1, <3>2, <3>3, <4>1, <5>2 DEF OfSession
        <5>. QED  BY <5>1, <5>2
      <4>2. lab'.pending \in {0, labSession'.id} /\ lab'.handed \in {0, labSession'.id}
        BY <2>1, <3>2, <3>3 DEF OfSession
      <4>. QED  BY <4>1, <4>2 DEF OfSession
    <3>5. WaitsForRuns(lab)'
      <4>1. ASSUME NEW o \in Operation, NEW st, o # run.op, RunUnderWay(o, st)
            PROVE  RunUnderWay(o, st)'
        <5>1. PICK c \in LabCall : runs[c].op = o /\ runs[c].stage = st
          BY <4>1 DEF RunUnderWay
        <5>2. c # a.call
          BY <4>1, <5>1 DEF run
        <5>. QED  BY <1>8, <5>1, <5>2 DEF RunUnderWay
      <4>2. ASSUME NEW o \in Operation
            PROVE  /\ lab'.step[o].phase = "previewing" => RunUnderWay(o, "preview")'
                   /\ lab'.step[o].phase = "executing" => RunUnderWay(o, "execute")'
        <5>1. CASE o = run.op
          BY <3>1, <3>2, <5>1
        <5>2. CASE o # run.op
          BY <2>1, <3>2, <4>1, <5>2 DEF WaitsForRuns
        <5>. QED  BY <5>1, <5>2
      <4>. QED  BY <4>2 DEF WaitsForRuns
    <3>6. WaitsForChecks(lab)'
      <4>1. ASSUME NEW v \in Verification, lab'.check[v] = "loading"
            PROVE  verifying'[v] > 0
        <5>1. verifying[v] \in Nat /\ verifying'[v] \in Nat /\ verifying'[v] >= verifying[v]
          BY <1>5, <1>8
        <5>2. CASE Of(v) = run.op
          <6>1. run.op \in Operation
            BY <5>2 DEF Of, Verification, Operation
          <6>2. a.ok /\ run.stage = "execute"
            BY <1>11, <3>1, <3>2, <4>1, <5>2, <6>1
          <6>. QED  BY <1>2, <5>1, <5>2, <6>2
        <5>3. CASE Of(v) # run.op
          BY <2>1, <3>2, <4>1, <5>1, <5>3 DEF WaitsForChecks
        <5>. QED  BY <5>2, <5>3
      <4>. QED  BY <4>1 DEF WaitsForChecks
    <3>. QED  BY <3>4, <3>5, <3>6
  <2>. QED  BY <2>2, <2>3, <2>4 DEF LabWaits, WaitsForRuns, WaitsForChecks, BusyWithRun,
               LabResultsOfSession, LabHandoffOfSession, OfSession
<1>. QED  BY <1>1, <1>9, <1>13, <1>14 DEF LabRecordInv

\* At the start.
LEMMA LabInitInv == LabInit => LabRecordInv
<1> SUFFICES ASSUME LabInit PROVE LabRecordInv
  OBVIOUS
<1>1. lab = CreateLabState /\ labBusy = FALSE /\ labWire = <<>> /\ labSession.id = 0
      /\ captured = NoCapture
  BY DEF LabInit
<1>2. LabTypes
  <2>1. runs \in [LabCall -> LabRun] /\ verifying \in [Verification -> Nat]
    BY DEF LabInit, LabRun
  <2>2. labSession \in [id : 0..MaxLabSelections, attached : BOOLEAN]
    BY LabAssumption DEF LabInit
  <2>3. labMade = 0 /\ labService = 0 /\ arkg \in BOOLEAN /\ lab \in LabRecord
    BY EmptyRecord DEF LabInit
  <2>4. labMade \in 0..MaxLabSelections /\ labService \in 0..labMade
    BY <2>3, LabAssumption
  <2>5. labWire \in Seq(LabMessage)
    BY <1>1
  <2>6. labBusy \in BOOLEAN
    BY <1>1
  <2>. QED  BY <1>1, <2>1, <2>2, <2>3, <2>4, <2>5, <2>6 DEF LabTypes
<1>3. LabView
  BY DEF LabInit, LabView, ViewIs
<1>4. LabWaits /\ LabResultsOfSession /\ LabHandoffOfSession
  BY <1>1, EmptyRecord DEF LabWaits, LabResultsOfSession, LabHandoffOfSession
<1>. QED  BY <1>1, <1>2, <1>3, <1>4 DEF LabRecordInv

\* Every step of the Lab.
LEMMA LabInvStep == LabRecordInv /\ [LabNext]_labVars => LabRecordInv'
<1>1. ASSUME LabRecordInv, LabNext
      PROVE  LabRecordInv'
  BY <1>1, LabServes, LabRuns, LabEdits, LabVerifies, LabHandsOver, LabApplies, LabReturns, LabIdles
     DEF LabNext
<1>2. ASSUME LabRecordInv, UNCHANGED labVars
      PROVE  LabRecordInv'
  <2>1. LabTypes'
    BY <1>2 DEF LabRecordInv, LabTypes, labVars, labServiceVars
  <2>2. LabView'
    BY <1>2 DEF LabRecordInv, LabView, ViewIs, ChangesSession, SessionAfter, labVars, labServiceVars
  <2>3. (~arkg => captured = NoCapture /\ LabWaits /\ LabResultsOfSession /\ LabHandoffOfSession)'
    BY <1>2 DEF LabRecordInv, LabWaits, LabResultsOfSession, LabHandoffOfSession, RunUnderWay,
       labVars, labServiceVars
  <2>. QED  BY <2>1, <2>2, <2>3 DEF LabRecordInv
<1>. QED  BY <1>1, <1>2

\* For any number of calls, selections and messages: what the Lab shows as under way
\* is under way, and without derived keys its results are of its session.
THEOREM LabKeepsSession == LabSpec => []LabInv
<1>1. LabRecordInv => LabInv
  <2>1. LabTypes => LabTypeOK
    BY DEF LabTypes, LabTypeOK, LabRecord, LabStep
  <2>. QED  BY <2>1 DEF LabRecordInv, LabInv
<1>. QED  BY <1>1, LabInitInv, LabInvStep, PTL DEF LabSpec

-----------------------------------------------------------------------------
(* The directory of passkeys: answers are fresh, and shown of their inventory.*)

LookupRecord ==
  [stage : {"none"}]
  \cup [stage : {"sent"}, id : 1..MaxLookups, report : 1..MaxLookups]
  \cup [stage : {"answered"}, id : 1..MaxLookups, report : 1..MaxLookups,
        from : CacheRecord \cup {Nothing}, at : 0..MaxClock]

ServiceTypes ==
  /\ loaded \in BOOLEAN /\ current \in CacheRecord \cup {Nothing}
  /\ refreshing \in [lookup : Lookup, now : 0..MaxClock] \cup {Nothing}
  /\ cacheFile \in CacheRecord \cup {Nothing, Corrupt}
  /\ earlier \in CacheRecord \cup {Nothing, Corrupt}
  /\ clock \in 0..MaxClock /\ version \in 1..MaxVersions

LookupTypes ==
  /\ report \in 0..MaxLookups /\ lookupID \in 0..MaxLookups
  /\ directory.phase \in {"idle", "loading", "ready", "unavailable"}
  /\ lookups \in [Lookup -> LookupRecord]

\* Who holds the mutex is a lookup that has no answer yet.
MutexHeldBySent == refreshing # Nothing => lookups[refreshing.lookup].stage = "sent"

\* The inductive invariant of the service.
ServiceInv == ServiceTypes /\ LookupTypes /\ MutexHeldBySent /\ AnswersFresh /\ MemoryIsStored

\* What the lookup last begun captured, while it is under way, is the inventory that
\* is shown, and no lookup is later than it.
LastLookupOfReport ==
  \A k \in Lookup : lookups[k].stage # "none" =>
    lookups[k].id <= lookupID /\ (lookups[k].id = lookupID => lookups[k].report = report)

\* With it, the inductive invariant of the window.
WindowInv == ServiceInv /\ LastLookupOfReport /\ DirectoryOfReport

-----------------------------------------------------------------------------

\* What the service answers and keeps survives failures, restarts, crashes and a
\* clock that is set back: the answers are fresh, and memory is what is stored.
LEMMA ServiceInit == DirectoryInit => ServiceInv
<1> SUFFICES ASSUME DirectoryInit PROVE ServiceInv
  OBVIOUS
<1>1. ServiceTypes
  <2>1. loaded \in BOOLEAN
    BY Zenon DEF DirectoryInit
  <2>2. /\ current \in CacheRecord \cup {Nothing}
        /\ refreshing \in [lookup : Lookup, now : 0..MaxClock] \cup {Nothing}
        /\ cacheFile \in CacheRecord \cup {Nothing, Corrupt}
        /\ earlier \in CacheRecord \cup {Nothing, Corrupt}
    BY Zenon DEF DirectoryInit
  <2>3. clock \in 0..MaxClock /\ version \in 1..MaxVersions
    BY DirectoryBounds DEF DirectoryInit
  <2>. QED  BY <2>1, <2>2, <2>3 DEF ServiceTypes
<1>2. LookupTypes
  BY DirectoryBounds DEF DirectoryInit, LookupTypes, NoDirectory, NoLookup, LookupRecord
<1>3. MutexHeldBySent /\ AnswersFresh /\ MemoryIsStored
  BY DEF DirectoryInit, MutexHeldBySent, AnswersFresh, MemoryIsStored, NoLookup
<1>. QED  BY <1>1, <1>2, <1>3 DEF ServiceInv

\* Lookups and answers are records of their stage.
LEMMA LookupShape ==
  ASSUME LookupTypes, NEW k \in Lookup
  PROVE  /\ lookups[k] \in LookupRecord
         /\ lookups[k].stage \in {"none", "sent", "answered"}
         /\ lookups[k].stage # "none" => /\ lookups[k].id \in 1..MaxLookups
                                         /\ lookups[k].report \in 1..MaxLookups
         /\ lookups[k].stage = "answered" => /\ lookups[k].from \in CacheRecord \cup {Nothing}
                                             /\ lookups[k].at \in 0..MaxClock
  BY DEF LookupTypes, LookupRecord

\* An answer takes a lookup that waits for one to its next stage, and nothing else.
LEMMA AnswerKeeps ==
  ASSUME LookupTypes, NEW k \in Lookup, lookups[k].stage = "sent",
         NEW record \in CacheRecord \cup {Nothing}, NEW at \in 0..MaxClock
  PROVE  /\ Answered(k, record, at) \in [Lookup -> LookupRecord]
         /\ Answered(k, record, at)[k] =
              [stage |-> "answered", id |-> lookups[k].id, report |-> lookups[k].report,
               from |-> record, at |-> at]
         /\ \A j \in Lookup \ {k} : Answered(k, record, at)[j] = lookups[j]
<1>1. lookups[k].id \in 1..MaxLookups /\ lookups[k].report \in 1..MaxLookups
  BY LookupShape
<1>2. [stage |-> "answered", id |-> lookups[k].id, report |-> lookups[k].report,
       from |-> record, at |-> at] \in LookupRecord
  BY <1>1 DEF LookupRecord
<1>. QED  BY <1>2 DEF LookupTypes, Answered

\* An answer from nothing, or from a record that is fresh at its time, is fresh.
LEMMA AnswerFresh ==
  ASSUME LookupTypes, AnswersFresh, NEW k \in Lookup, lookups[k].stage = "sent",
         NEW record \in CacheRecord \cup {Nothing}, NEW at \in 0..MaxClock,
         record # Nothing => CacheFresh(record.validatedAt, at),
         lookups' = Answered(k, record, at)
  PROVE  AnswersFresh'
<1> SUFFICES ASSUME NEW j \in Lookup, lookups'[j].stage = "answered", lookups'[j].from # Nothing
             PROVE  /\ lookups'[j].from.validatedAt <= lookups'[j].at
                    /\ lookups'[j].at - lookups'[j].from.validatedAt < RefreshInterval
  BY DEF AnswersFresh
<1>a. /\ Answered(k, record, at)[k] =
           [stage |-> "answered", id |-> lookups[k].id, report |-> lookups[k].report,
            from |-> record, at |-> at]
      /\ \A i \in Lookup \ {k} : Answered(k, record, at)[i] = lookups[i]
  BY AnswerKeeps
<1>b. /\ lookups'[k] =
           [stage |-> "answered", id |-> lookups[k].id, report |-> lookups[k].report,
            from |-> record, at |-> at]
      /\ \A i \in Lookup \ {k} : lookups'[i] = lookups[i]
  BY <1>a
<1>1. CASE j = k
  <2>1. lookups'[k].from = record /\ lookups'[k].at = at
    BY <1>b
  <2>2. record \in CacheRecord /\ record.validatedAt \in 0..MaxClock
    BY <1>1, <2>1 DEF CacheRecord
  <2>. QED  BY <1>1, <2>1, <2>2, DirectoryBounds DEF CacheFresh
<1>2. CASE j # k
  BY <1>2, <1>b DEF AnswersFresh
<1>. QED  BY <1>1, <1>2

\* A new lookup for an inventory shows as loading.
LEMMA NewLookup ==
  ASSUME LookupTypes, NEW r \in 1..MaxLookups, lookupID < MaxLookups, LoadPasskeyDirectory(r)
  PROVE  /\ lookupID' = lookupID + 1
         /\ directory'.phase \in {"idle", "loading"}
         /\ lookups' \in [Lookup -> LookupRecord]
         /\ \A k \in Lookup :
              \/ lookups'[k] = lookups[k]
              \/ /\ lookups[k].stage = "none"
                 /\ lookups'[k] = [stage |-> "sent", id |-> lookupID + 1, report |-> r]
         /\ directory'.phase = "loading" =>
              \E k \in Lookup : lookups'[k] = [stage |-> "sent", id |-> lookupID + 1, report |-> r]
<1>1. CASE ResetLookup
  BY <1>1 DEF ResetLookup, NoDirectory, LookupTypes
<1>2. CASE ~ResetLookup
  <2>1. PICK k \in FreeLookups :
          /\ lookupID' = lookupID + 1
          /\ directory' = [phase |-> "loading"]
          /\ lookups' = [lookups EXCEPT ![k] = [stage |-> "sent", id |-> lookupID + 1, report |-> r]]
    BY <1>2 DEF LoadPasskeyDirectory
  <2>2. k \in Lookup /\ lookups[k].stage = "none"
    BY DEF FreeLookups
  <2>3. lookupID + 1 \in 1..MaxLookups
    BY DirectoryBounds DEF LookupTypes
  <2>4. [stage |-> "sent", id |-> lookupID + 1, report |-> r] \in LookupRecord
    BY <2>3 DEF LookupRecord
  <2>. QED  BY <2>1, <2>2, <2>4 DEF LookupTypes
<1>. QED  BY <1>1, <1>2

\* The steps of the service and of the world keep the invariant of the service.
LEMMA ServiceStep ==
  ASSUME ServiceInv, [DirectoryNext]_directoryVars
  PROVE  ServiceInv'
<1> USE DirectoryBounds, NoRecord
<1> USE DEF ServiceInv
<1>1. ASSUME NEW k \in Lookup, ResolveCatalog(k) PROVE ServiceInv'
  <2>1. lookups[k].stage = "sent" /\ refreshing = Nothing /\ loaded' = TRUE /\ current' = LoadCache
    BY <1>1 DEF ResolveCatalog
  <2>2. /\ current' \in CacheRecord \cup {Nothing}
        /\ current' # Nothing => cacheFile = current'
    BY <2>1 DEF LoadCache, ServiceTypes, MemoryIsStored
  <2>3. UNCHANGED <<cacheFile, earlier, clock, version, report, lookupID, directory>>
    BY <1>1 DEF ResolveCatalog, directoryWorld, directoryWindow
  <2>4. MemoryIsStored'
    BY <2>2, <2>3 DEF MemoryIsStored
  <2>5. CASE current' # Nothing /\ CacheFresh(current'.validatedAt, clock)
    <3>1. lookups' = Answered(k, current', clock) /\ refreshing' = Nothing
      BY <1>1, <2>1, <2>5 DEF ResolveCatalog
    <3>2. ServiceTypes'
      BY <2>1, <2>2, <2>3, <3>1 DEF ServiceTypes
    <3>3. LookupTypes'
      BY <2>1, <2>2, <2>3, <3>1, AnswerKeeps DEF LookupTypes, ServiceTypes
    <3>4. AnswersFresh'
      BY <2>1, <2>2, <2>5, <3>1, AnswerFresh DEF ServiceTypes
    <3>. QED  BY <2>4, <3>1, <3>2, <3>3, <3>4 DEF MutexHeldBySent
  <2>6. CASE ~(current' # Nothing /\ CacheFresh(current'.validatedAt, clock))
    <3>1. refreshing' = [lookup |-> k, now |-> clock] /\ lookups' = lookups
      BY <1>1, <2>6 DEF ResolveCatalog
    <3>2. ServiceTypes'
      BY <2>1, <2>2, <2>3, <3>1 DEF ServiceTypes
    <3>. QED  BY <2>1, <2>3, <2>4, <3>1, <3>2 DEF MutexHeldBySent, LookupTypes, AnswersFresh
  <2>. QED  BY <2>5, <2>6
<1>2. ASSUME RefreshSucceeds PROVE ServiceInv'
  <2>1. /\ refreshing \in [lookup : Lookup, now : 0..MaxClock]
        /\ lookups[refreshing.lookup].stage = "sent"
    BY <1>2 DEF RefreshSucceeds, ServiceTypes, MutexHeldBySent
  <2>2. /\ Refreshed \in CacheRecord
        /\ Refreshed # Nothing => CacheFresh(Refreshed.validatedAt, refreshing.now)
    BY <2>1 DEF Refreshed, CacheRecord, CacheFresh, ServiceTypes
  <2>3. /\ cacheFile' = Refreshed /\ earlier' = cacheFile /\ current' = Refreshed
        /\ lookups' = Answered(refreshing.lookup, Refreshed, refreshing.now)
        /\ refreshing' = Nothing
        /\ UNCHANGED <<loaded, clock, version, report, lookupID, directory>>
    BY <1>2 DEF RefreshSucceeds, directoryWindow
  <2>4. ServiceTypes'
    BY <2>2, <2>3 DEF ServiceTypes
  <2>5. LookupTypes'
    BY <2>1, <2>2, <2>3, AnswerKeeps DEF LookupTypes
  <2>6. AnswersFresh'
    BY <2>1, <2>2, <2>3, AnswerFresh
  <2>. QED  BY <2>3, <2>4, <2>5, <2>6 DEF MutexHeldBySent, MemoryIsStored
<1>3. ASSUME RefreshFails PROVE ServiceInv'
  <2>1. /\ refreshing \in [lookup : Lookup, now : 0..MaxClock]
        /\ lookups[refreshing.lookup].stage = "sent"
    BY <1>3 DEF RefreshFails, ServiceTypes, MutexHeldBySent
  <2>2. /\ lookups' = Answered(refreshing.lookup, Nothing, refreshing.now)
        /\ refreshing' = Nothing
        /\ UNCHANGED <<loaded, current, cacheFile, earlier, clock, version, report, lookupID, directory>>
    BY <1>3 DEF RefreshFails, directoryWindow, directoryWorld
  <2>3. ServiceTypes'
    BY <2>2 DEF ServiceTypes
  <2>4. LookupTypes'
    BY <2>1, <2>2, AnswerKeeps DEF LookupTypes
  <2>5. AnswersFresh'
    BY <2>1, <2>2, AnswerFresh
  <2>. QED  BY <2>2, <2>3, <2>4, <2>5 DEF MutexHeldBySent, MemoryIsStored
<1>4. ASSUME ClockChanges PROVE ServiceInv'
  BY <1>4 DEF ClockChanges, directoryService, directoryWindow, ServiceTypes, LookupTypes,
      MutexHeldBySent, AnswersFresh, MemoryIsStored
<1>5. ASSUME ServerPublishes PROVE ServiceInv'
  BY <1>5 DEF ServerPublishes, directoryService, directoryWindow, ServiceTypes, LookupTypes,
      MutexHeldBySent, AnswersFresh, MemoryIsStored
<1>6. ASSUME DirectoryRestarts PROVE ServiceInv'
  <2>1. ServiceTypes'
    <3>1. loaded' = FALSE
      BY <1>6 DEF DirectoryRestarts
    <3>2. loaded' \in BOOLEAN
      BY <3>1, Zenon
    <3>3. /\ current' = Nothing /\ refreshing' = Nothing
          /\ cacheFile' \in {cacheFile, earlier} /\ earlier' = cacheFile'
          /\ UNCHANGED <<clock, version>>
      BY <1>6 DEF DirectoryRestarts
    <3>. QED  BY <3>2, <3>3 DEF ServiceTypes
  <2>2. LookupTypes'
    BY <1>6 DEF DirectoryRestarts, LookupTypes, NoDirectory, NoLookup, LookupRecord
  <2>3. MutexHeldBySent' /\ AnswersFresh' /\ MemoryIsStored'
    BY <1>6 DEF DirectoryRestarts, NoLookup, MutexHeldBySent, AnswersFresh, MemoryIsStored
  <2>. QED  BY <2>1, <2>2, <2>3
<1>7. ASSUME NEW r \in 1..MaxLookups, lookupID < MaxLookups, LoadPasskeyDirectory(r),
             report' \in 0..MaxLookups, UNCHANGED <<directoryService, directoryWorld>>
      PROVE  ServiceInv'
  <2>1. UNCHANGED <<loaded, current, refreshing, cacheFile, earlier, clock, version>>
    BY <1>7 DEF directoryService, directoryWorld
  <2>2. /\ lookupID' = lookupID + 1
        /\ directory'.phase \in {"idle", "loading"}
        /\ lookups' \in [Lookup -> LookupRecord]
        /\ \A k \in Lookup :
             \/ lookups'[k] = lookups[k]
             \/ /\ lookups[k].stage = "none"
                /\ lookups'[k] = [stage |-> "sent", id |-> lookupID + 1, report |-> r]
    BY <1>7, NewLookup
  <2>3. ServiceTypes'
    BY <2>1 DEF ServiceTypes
  <2>4. LookupTypes'
    BY <1>7, <2>2 DEF LookupTypes
  <2>5. MutexHeldBySent'
    BY <2>1, <2>2 DEF MutexHeldBySent, ServiceTypes
  <2>6. AnswersFresh'
    BY <2>2 DEF AnswersFresh
  <2>. QED  BY <2>1, <2>3, <2>4, <2>5, <2>6 DEF MemoryIsStored
<1>8. ASSUME CompleteInventoryLoad PROVE ServiceInv'
  <2>1. lookupID + 1 \in 1..MaxLookups
    BY <1>8 DEF CompleteInventoryLoad, LookupTypes
  <2>. QED  BY <1>7, <1>8, <2>1 DEF CompleteInventoryLoad
<1>9. ASSUME VisitPasskeys PROVE ServiceInv'
  <2>1. report \in 1..MaxLookups /\ report' = report
    BY <1>9 DEF VisitPasskeys, LookupTypes
  <2>2. lookupID < MaxLookups /\ LoadPasskeyDirectory(report) /\ UNCHANGED <<directoryService, directoryWorld>>
    BY <1>9 DEF VisitPasskeys
  <2>. QED  BY <1>7, <2>1, <2>2
<1>10. ASSUME InvalidateInventory PROVE ServiceInv'
  BY <1>10 DEF InvalidateInventory, ResetLookup, NoDirectory, directoryService, directoryWorld,
      ServiceTypes, LookupTypes, MutexHeldBySent, AnswersFresh, MemoryIsStored
<1>11. ASSUME NEW k \in Lookup, LookupReturns(k) PROVE ServiceInv'
  <2>1. /\ lookups[k].stage = "answered"
        /\ lookups' = [lookups EXCEPT ![k] = NoLookup]
        /\ directory'.phase \in {directory.phase, "unavailable", "ready"}
        /\ UNCHANGED <<loaded, current, refreshing, cacheFile, earlier, clock, version, report, lookupID>>
    BY <1>11 DEF LookupReturns, directoryService, directoryWorld
  <2>2. ServiceTypes'
    BY <2>1 DEF ServiceTypes
  <2>3. LookupTypes'
    BY <2>1 DEF LookupTypes, NoLookup, LookupRecord
  <2>4. MutexHeldBySent' /\ AnswersFresh' /\ MemoryIsStored'
    BY <2>1 DEF MutexHeldBySent, AnswersFresh, MemoryIsStored, NoLookup, LookupTypes, ServiceTypes
  <2>. QED  BY <2>2, <2>3, <2>4
<1>12. CASE UNCHANGED directoryVars
  BY <1>12 DEF directoryVars, directoryService, directoryWorld, directoryWindow, ServiceTypes,
      LookupTypes, MutexHeldBySent, AnswersFresh, MemoryIsStored
<1>. QED  BY <1>1, <1>2, <1>3, <1>4, <1>5, <1>6, <1>8, <1>9, <1>10, <1>11, <1>12 DEF DirectoryNext

\* Whatever fails, restarts or is set back, an answer comes from a data set that the
\* server vouched for within the refresh interval, and memory is what is stored.
THEOREM DirectoryInvariant == DirectorySpec => []DirectoryInv
<1>1. ServiceInv => DirectoryInv
  BY DEF ServiceInv, ServiceTypes, LookupTypes, DirectoryInv, DirectoryTypeOK
<1>. QED  BY <1>1, ServiceInit, ServiceStep, PTL DEF DirectorySpec

-----------------------------------------------------------------------------

\* The steps of the window keep its invariant; of the others, those that answer.
LEMMA WindowStep ==
  ASSUME WindowInv, [DirectoryNext]_directoryVars
  PROVE  WindowInv'
<1> USE DirectoryBounds, NoRecord
<1>0. ServiceInv'
  BY ServiceStep DEF WindowInv
<1> SUFFICES LastLookupOfReport' /\ DirectoryOfReport'
  BY <1>0 DEF WindowInv
<1>a. LookupTypes /\ MutexHeldBySent /\ ServiceTypes /\ LastLookupOfReport /\ DirectoryOfReport
  BY DEF WindowInv, ServiceInv
<1> HIDE DEF WindowInv
\* The service answers without touching what the window captured.
<1>1. ASSUME NEW k \in Lookup, lookups[k].stage = "sent",
             NEW record \in CacheRecord \cup {Nothing}, NEW at \in 0..MaxClock,
             lookups' = Answered(k, record, at), UNCHANGED directoryWindow
      PROVE  LastLookupOfReport' /\ DirectoryOfReport'
  <2>1. /\ Answered(k, record, at)[k] =
             [stage |-> "answered", id |-> lookups[k].id, report |-> lookups[k].report,
              from |-> record, at |-> at]
        /\ \A i \in Lookup \ {k} : Answered(k, record, at)[i] = lookups[i]
    BY <1>1, <1>a, AnswerKeeps
  <2>2. \A i \in Lookup : /\ lookups'[i].id = lookups[i].id \/ lookups[i].stage = "none"
                          /\ lookups'[i].report = lookups[i].report \/ lookups[i].stage = "none"
                          /\ (lookups'[i].stage = "none") <=> (lookups[i].stage = "none")
    BY <1>1, <2>1
  <2>. QED  BY <1>1, <1>a, <2>2 DEF directoryWindow, LastLookupOfReport, DirectoryOfReport
<1>2. ASSUME UNCHANGED <<directoryWindow, lookups>> PROVE LastLookupOfReport' /\ DirectoryOfReport'
  BY <1>2, <1>a DEF directoryWindow, LastLookupOfReport, DirectoryOfReport
<1>3. ASSUME NEW k \in Lookup, ResolveCatalog(k) PROVE LastLookupOfReport' /\ DirectoryOfReport'
  <2>1. CASE UNCHANGED lookups
    BY <1>2, <1>3, <2>1 DEF ResolveCatalog
  <2>2. CASE ~UNCHANGED lookups
    <3>1. /\ lookups[k].stage = "sent"
          /\ lookups' = Answered(k, current', clock)
          /\ UNCHANGED directoryWindow
          /\ current' = LoadCache
      BY <1>3, <2>2 DEF ResolveCatalog
    <3>2. current' \in CacheRecord \cup {Nothing} /\ clock \in 0..MaxClock
      BY <3>1, <1>a DEF LoadCache, ServiceTypes
    <3>. QED  BY <1>1, <3>1, <3>2
  <2>. QED  BY <2>1, <2>2
<1>4. ASSUME RefreshSucceeds PROVE LastLookupOfReport' /\ DirectoryOfReport'
  <2>1. /\ refreshing \in [lookup : Lookup, now : 0..MaxClock]
        /\ lookups[refreshing.lookup].stage = "sent"
    BY <1>4, <1>a DEF RefreshSucceeds, ServiceTypes, MutexHeldBySent
  <2>2. Refreshed \in CacheRecord
    BY <2>1, <1>a DEF Refreshed, CacheRecord, ServiceTypes
  <2>3. lookups' = Answered(refreshing.lookup, Refreshed, refreshing.now) /\ UNCHANGED directoryWindow
    BY <1>4 DEF RefreshSucceeds
  <2>. QED  BY <1>1, <2>1, <2>2, <2>3
<1>5. ASSUME RefreshFails PROVE LastLookupOfReport' /\ DirectoryOfReport'
  <2>1. /\ refreshing \in [lookup : Lookup, now : 0..MaxClock]
        /\ lookups[refreshing.lookup].stage = "sent"
    BY <1>5, <1>a DEF RefreshFails, ServiceTypes, MutexHeldBySent
  <2>2. lookups' = Answered(refreshing.lookup, Nothing, refreshing.now) /\ UNCHANGED directoryWindow
    BY <1>5 DEF RefreshFails
  <2>. QED  BY <1>1, <2>1, <2>2
<1>6. ASSUME ClockChanges \/ ServerPublishes PROVE LastLookupOfReport' /\ DirectoryOfReport'
  BY <1>2, <1>6 DEF ClockChanges, ServerPublishes
<1>7. ASSUME DirectoryRestarts PROVE LastLookupOfReport' /\ DirectoryOfReport'
  BY <1>7 DEF DirectoryRestarts, NoDirectory, NoLookup, LastLookupOfReport, DirectoryOfReport
\* A lookup that begins is later than all others.
<1>8. ASSUME NEW r \in 1..MaxLookups, lookupID < MaxLookups, LoadPasskeyDirectory(r), report' = r
      PROVE  LastLookupOfReport' /\ DirectoryOfReport'
  <2>1. /\ lookupID' = lookupID + 1
        /\ directory'.phase \in {"idle", "loading"}
        /\ \A k \in Lookup :
             \/ lookups'[k] = lookups[k]
             \/ lookups'[k] = [stage |-> "sent", id |-> lookupID + 1, report |-> r]
        /\ directory'.phase = "loading" =>
             \E k \in Lookup : lookups'[k] = [stage |-> "sent", id |-> lookupID + 1, report |-> r]
    BY <1>8, <1>a, NewLookup
  <2>2. LastLookupOfReport'
    BY <1>8, <1>a, <2>1, LookupShape DEF LastLookupOfReport, LookupTypes
  <2>3. DirectoryOfReport'
    BY <2>1 DEF DirectoryOfReport
  <2>. QED  BY <2>2, <2>3
<1>9. ASSUME CompleteInventoryLoad PROVE LastLookupOfReport' /\ DirectoryOfReport'
  <2>1. lookupID + 1 \in 1..MaxLookups
    BY <1>9, <1>a DEF CompleteInventoryLoad, LookupTypes
  <2>. QED  BY <1>8, <1>9, <2>1 DEF CompleteInventoryLoad
<1>10. ASSUME VisitPasskeys PROVE LastLookupOfReport' /\ DirectoryOfReport'
  <2>1. report \in 1..MaxLookups /\ report' = report
    BY <1>10, <1>a DEF VisitPasskeys, LookupTypes
  <2>. QED  BY <1>8, <1>10, <2>1 DEF VisitPasskeys
<1>11. ASSUME InvalidateInventory PROVE LastLookupOfReport' /\ DirectoryOfReport'
  <2>1. LastLookupOfReport'
    BY <1>11, <1>a, LookupShape DEF InvalidateInventory, ResetLookup, LastLookupOfReport, LookupTypes
  <2>2. DirectoryOfReport'
    BY <1>11 DEF InvalidateInventory, ResetLookup, NoDirectory, DirectoryOfReport
  <2>. QED  BY <2>1, <2>2
\* An answer is shown only if its lookup is the last one, which is of the inventory.
<1>12. ASSUME NEW k \in Lookup, LookupReturns(k) PROVE LastLookupOfReport' /\ DirectoryOfReport'
  <2>1. /\ lookups[k].stage = "answered"
        /\ lookups' = [lookups EXCEPT ![k] = NoLookup]
        /\ report' = report /\ lookupID' = lookupID
    BY <1>12 DEF LookupReturns
  <2>2. LastLookupOfReport'
    BY <2>1, <1>a DEF LastLookupOfReport, NoLookup, LookupTypes
  <2>3. CASE lookups[k].id # lookupID
    <3>1. directory' = directory
      BY <1>12, <2>3 DEF LookupReturns
    <3>. QED  BY <2>1, <2>2, <2>3, <3>1, <1>a DEF DirectoryOfReport, LookupTypes
  <2>4. CASE lookups[k].id = lookupID
    <3>1. \/ directory' = [phase |-> "unavailable"]
          \/ directory' = [phase |-> "ready", report |-> lookups[k].report]
      BY <1>12, <2>4 DEF LookupReturns
    <3>2. lookups[k].report = report
      BY <2>1, <2>4, <1>a DEF LastLookupOfReport
    <3>. QED  BY <2>1, <2>2, <3>1, <3>2 DEF DirectoryOfReport
  <2>. QED  BY <2>3, <2>4
<1>13. CASE UNCHANGED directoryVars
  BY <1>2, <1>13 DEF directoryVars
<1>. QED  BY <1>3, <1>4, <1>5, <1>6, <1>7, <1>9, <1>10, <1>11, <1>12, <1>13 DEF DirectoryNext

\* The matches on the screen are those of the inventory on the screen, and a screen
\* that shows that it looks them up has a lookup under way.
THEOREM DirectoryFollowsReport == DirectorySpec => []DirectoryOfReport
<1>1. DirectoryInit => WindowInv
  BY ServiceInit DEF DirectoryInit, WindowInv, LastLookupOfReport, DirectoryOfReport, NoDirectory, NoLookup
<1>2. WindowInv => DirectoryOfReport
  BY DEF WindowInv
<1>. QED  BY <1>1, <1>2, WindowStep, PTL DEF DirectorySpec

-----------------------------------------------------------------------------
(* The search in the data set of the directory.                             *)

\* A name that is read from its end.
LEMMA SuffixIs ==
  ASSUME NEW s \in Seq(Label), NEW t \in Seq(Label)
  PROVE  IsSuffix(s, t) <=>
           /\ Len(s) <= Len(t)
           /\ \A i \in 1..Len(s) : s[i] = t[Len(t) - Len(s) + i]
<1> DEFINE m == Len(s)
           n == Len(t)
<1>1. m \in Nat /\ n \in Nat /\ s \in [1..m -> Label] /\ t \in [1..n -> Label]
  OBVIOUS
<1>2. Reverse(s) = [i \in 1..m |-> s[(m - i) + 1]] /\ Reverse(t) = [i \in 1..n |-> t[(n - i) + 1]]
  BY DEF Reverse
<1>3. /\ Reverse(s) \in [1..m -> Label] /\ Reverse(t) \in [1..n -> Label]
      /\ \A i \in 1..m : Reverse(s)[i] = s[(m - i) + 1]
      /\ \A i \in 1..n : Reverse(t)[i] = t[(n - i) + 1]
  BY <1>1, <1>2
<1> HIDE DEF m, n
<1>4. Reverse(s) \in Seq(Label) /\ Len(Reverse(s)) = m /\ Reverse(t) \in Seq(Label) /\ Len(Reverse(t)) = n
  BY <1>1, <1>3
<1>5. IsSuffix(s, t) <=> m <= n /\ SubSeq(Reverse(s), 1, m) = SubSeq(Reverse(t), 1, m)
  BY <1>4 DEF IsSuffix, IsPrefix
<1>6. SubSeq(Reverse(s), 1, m) = [i \in 1..m |-> Reverse(s)[i]]
  BY <1>1, <1>4
<1>7. m <= n => SubSeq(Reverse(t), 1, m) = [i \in 1..m |-> Reverse(t)[i]]
  BY <1>1, <1>4
<1>8. IsSuffix(s, t) <=> m <= n /\ \A i \in 1..m : Reverse(s)[i] = Reverse(t)[i]
  BY <1>5, <1>6, <1>7
<1>9. m <= n => \A i \in 1..m : i \in 1..n /\ (m - i) + 1 \in 1..m /\ (n - i) + 1 = n - m + ((m - i) + 1)
  BY <1>1
<1>10. m <= n => \A i \in 1..m : Reverse(s)[i] = s[(m - i) + 1] /\ Reverse(t)[i] = t[n - m + ((m - i) + 1)]
  BY <1>3, <1>9
<1>11. \A i \in 1..m : (m - ((m - i) + 1)) + 1 = i /\ (m - i) + 1 \in 1..m
  BY <1>1
<1>12. ASSUME m <= n
       PROVE  (\A i \in 1..m : Reverse(s)[i] = Reverse(t)[i]) <=> \A i \in 1..m : s[i] = t[n - m + i]
  <2>1. ASSUME \A i \in 1..m : s[i] = t[n - m + i], NEW i \in 1..m
        PROVE  Reverse(s)[i] = Reverse(t)[i]
    BY <1>10, <1>11, <1>12, <2>1
  <2>2. ASSUME \A i \in 1..m : Reverse(s)[i] = Reverse(t)[i], NEW i \in 1..m
        PROVE  s[i] = t[n - m + i]
    <3>1. PICK j \in 1..m : j = (m - i) + 1
      BY <1>11
    <3>2. (m - j) + 1 = i
      BY <1>11, <3>1
    <3>3. Reverse(s)[j] = s[i] /\ Reverse(t)[j] = t[n - m + i]
      BY <1>10, <1>12, <3>2
    <3>. QED  BY <2>2, <3>3
  <2>. QED  BY <2>1, <2>2
<1>. QED  BY <1>8, <1>12 DEF m, n

\* A name is above itself; above what is above, and of two names above a third the
\* longer one is below the other.
LEMMA SuffixOrder ==
  ASSUME NEW s \in Seq(Label), NEW t \in Seq(Label), NEW u \in Seq(Label)
  PROVE  /\ IsSuffix(s, s)
         /\ IsSuffix(s, t) /\ IsSuffix(t, u) => IsSuffix(s, u)
         /\ IsSuffix(s, u) /\ IsSuffix(t, u) /\ Len(s) <= Len(t) => IsSuffix(s, t)
         /\ IsSuffix(s, t) => Len(s) <= Len(t)
         /\ IsSuffix(s, t) /\ Len(s) = Len(t) => s = t
<1> DEFINE m == Len(s)
           n == Len(t)
           l == Len(u)
<1>1. /\ m \in Nat /\ n \in Nat /\ l \in Nat
      /\ s \in [1..m -> Label] /\ t \in [1..n -> Label] /\ u \in [1..l -> Label]
  OBVIOUS
<1>2. /\ IsSuffix(s, s) <=> m <= m /\ \A i \in 1..m : s[i] = s[m - m + i]
      /\ IsSuffix(s, t) <=> m <= n /\ \A i \in 1..m : s[i] = t[n - m + i]
      /\ IsSuffix(s, u) <=> m <= l /\ \A i \in 1..m : s[i] = u[l - m + i]
      /\ IsSuffix(t, u) <=> n <= l /\ \A i \in 1..n : t[i] = u[l - n + i]
  BY SuffixIs
<1> HIDE DEF m, n, l
<1>3. IsSuffix(s, s)
  BY <1>1, <1>2
<1>4. m <= n => \A i \in 1..m : n - m + i \in 1..n /\ l - n + (n - m + i) = l - m + i
  BY <1>1
<1>5. IsSuffix(s, t) /\ IsSuffix(t, u) => IsSuffix(s, u)
  <2>1. m <= n /\ n <= l => m <= l
    BY <1>1
  <2>. QED  BY <1>2, <1>4, <2>1
<1>6. IsSuffix(s, u) /\ IsSuffix(t, u) /\ m <= n => IsSuffix(s, t)
  BY <1>2, <1>4
<1>7. IsSuffix(s, t) /\ m = n => s = t
  <2>1. m = n => \A i \in 1..m : n - m + i = i
    BY <1>1
  <2>2. IsSuffix(s, t) /\ m = n => \A i \in 1..m : s[i] = t[i]
    BY <1>2, <2>1
  <2>. QED  BY <1>1, <2>2
<1>. QED  BY <1>2, <1>3, <1>5, <1>6, <1>7 DEF m, n

\* The name without its first label.
LEMMA Parent ==
  ASSUME NEW p \in Seq(Label), p # <<>>
  PROVE  /\ Tail(p) \in Seq(Label) /\ Len(Tail(p)) = Len(p) - 1 /\ IsSuffix(Tail(p), p)
         /\ \A s \in Seq(Label) : IsSuffix(s, p) /\ s # p => IsSuffix(s, Tail(p))
<1>1. /\ Len(p) \in Nat /\ Len(p) # 0 /\ Tail(p) \in Seq(Label) /\ Len(Tail(p)) = Len(p) - 1
      /\ \A i \in 1..Len(p) - 1 : Tail(p)[i] = p[i + 1]
  OBVIOUS
<1>2. IsSuffix(Tail(p), p)
  <2>1. PICK q \in Seq(Label) : q = Tail(p)
    BY <1>1
  <2>2. Len(q) = Len(p) - 1 /\ \A i \in 1..Len(q) : q[i] = p[i + 1]
    BY <1>1, <2>1
  <2>3. Len(q) <= Len(p) /\ \A i \in 1..Len(q) : Len(p) - Len(q) + i = i + 1
    BY <1>1, <2>2
  <2>4. \A i \in 1..Len(q) : q[i] = p[Len(p) - Len(q) + i]
    BY <2>2, <2>3
  <2>5. IsSuffix(q, p)
    BY <2>3, <2>4, SuffixIs
  <2>. QED  BY <2>1, <2>5
<1>3. ASSUME NEW s \in Seq(Label), IsSuffix(s, p), s # p
      PROVE  IsSuffix(s, Tail(p))
  <2>1. Len(s) \in Nat /\ Len(s) <= Len(p) /\ Len(s) # Len(p)
    BY <1>3, SuffixOrder
  <2>2. Len(s) <= Len(Tail(p))
    BY <1>1, <2>1
  <2>. QED  BY <1>1, <1>2, <1>3, <2>2, SuffixOrder
<1>. QED  BY <1>1, <1>2, <1>3

-----------------------------------------------------------------------------
\* The domains from d up to its registrable domain, and those of them above p that
\* an indexed entry claims.
Chain(d) == {s \in Domain : IsSuffix(s, d) /\ IsSuffix(Registrable[d], s)}
ClaimedAbove(d, p) == {s \in Chain(d) : IsSuffix(s, p) /\ s # p /\ index[s] # Unclaimed}

\* What is found above p: the entry of the longest.
Found(d, p, r) ==
  \/ ClaimedAbove(d, p) = {} /\ r = Unclaimed
  \/ \E s \in ClaimedAbove(d, p) : r = index[s] /\ \A t \in ClaimedAbove(d, p) : Len(t) <= Len(s)

\* A domain that may have a parent to look up.
HasParents(d) == d \in Domain /\ Registrable[d] # <<>>

\* The domains from d up to its registrable domain are the parents of one another.
LEMMA ChainShape ==
  ASSUME CatalogAssumption, NEW d, HasParents(d)
  PROVE  /\ d \in Chain(d) /\ Registrable[d] \in Chain(d)
         /\ \A p \in Chain(d) :
              /\ p \in Domain /\ p \in Seq(Label) /\ p # <<>> /\ Len(p) \in Nat
              /\ IsSuffix(p, d) /\ IsSuffix(Registrable[d], p)
              /\ p # Registrable[d] => Tail(p) \in Chain(d)
<1>1. /\ d \in Domain /\ d \in Seq(Label)
      /\ Registrable[d] \in Domain /\ Registrable[d] \in Seq(Label) /\ Registrable[d] # <<>>
      /\ IsSuffix(Registrable[d], d)
  BY DEF CatalogAssumption, HasParents
<1>2. d \in Chain(d) /\ Registrable[d] \in Chain(d)
  BY <1>1, SuffixOrder DEF Chain
<1>3. ASSUME NEW p \in Chain(d)
      PROVE  /\ p \in Domain /\ p \in Seq(Label) /\ p # <<>> /\ Len(p) \in Nat
             /\ IsSuffix(p, d) /\ IsSuffix(Registrable[d], p)
  BY DEF Chain, CatalogAssumption
<1>4. ASSUME NEW p \in Chain(d), p # Registrable[d]
      PROVE  Tail(p) \in Chain(d)
  <2>1. /\ p \in Domain /\ p \in Seq(Label) /\ p # <<>>
        /\ IsSuffix(p, d) /\ IsSuffix(Registrable[d], p)
    BY <1>3
  <2>2. PICK g : g = Registrable[d]
    OBVIOUS
  <2>3. g \in Seq(Label) /\ Len(g) \in Nat /\ Len(g) # 0 /\ Len(p) \in Nat
    BY <1>1, <2>1, <2>2
  <2>4. IsSuffix(g, p) /\ g # p
    BY <1>4, <2>1, <2>2
  <2>5. Len(g) <= Len(p) /\ Len(g) # Len(p)
    BY <2>1, <2>3, <2>4, SuffixOrder
  <2>6. Len(p) > 1
    <3>1. PICK m \in Nat, n \in Nat : m = Len(g) /\ n = Len(p)
      BY <2>3
    <3>2. m <= n /\ m # n /\ m # 0
      BY <2>3, <2>5, <3>1
    <3>3. n > 1
      BY <3>2
    <3>. QED  BY <3>1, <3>3
  <2>7. Tail(p) \in Domain
    BY <2>1, <2>6 DEF CatalogAssumption
  <2>8. PICK q \in Seq(Label) : q = Tail(p)
    BY <2>1, Parent
  <2>9. IsSuffix(q, p) /\ IsSuffix(g, q)
    BY <2>1, <2>3, <2>4, <2>8, Parent
  <2>10. IsSuffix(q, d)
    BY <1>1, <2>1, <2>8, <2>9, SuffixOrder
  <2>. QED  BY <2>2, <2>7, <2>8, <2>9, <2>10 DEF Chain
<1>. QED  BY <1>2, <1>3, <1>4

\* The domains above p are that above its parent, and the parent.
LEMMA ClaimedAboveParent ==
  ASSUME CatalogAssumption, NEW d, HasParents(d), NEW p \in Chain(d)
  PROVE  /\ p = Registrable[d] => ClaimedAbove(d, p) = {}
         /\ p # Registrable[d] =>
              /\ Tail(p) \in Chain(d) /\ Len(Tail(p)) < Len(p)
              /\ ClaimedAbove(d, p) = ClaimedAbove(d, Tail(p))
                               \cup (IF index[Tail(p)] # Unclaimed THEN {Tail(p)} ELSE {})
              /\ \A s \in ClaimedAbove(d, Tail(p)) : Len(s) <= Len(Tail(p))
<1>1. /\ p \in Domain /\ p \in Seq(Label) /\ p # <<>> /\ Len(p) \in Nat
      /\ IsSuffix(Registrable[d], p)
  BY ChainShape
<1>2. \A s \in Chain(d) : s \in Seq(Label) /\ IsSuffix(Registrable[d], s)
  BY ChainShape
<1>3. ASSUME p = Registrable[d], NEW s \in ClaimedAbove(d, p)
      PROVE  FALSE
  <2>1. s \in Seq(Label) /\ IsSuffix(s, p) /\ IsSuffix(p, s) /\ s # p
    BY <1>2, <1>3 DEF ClaimedAbove
  <2>2. Len(s) <= Len(p) /\ Len(p) <= Len(s) /\ Len(s) \in Nat
    BY <1>1, <2>1, SuffixOrder
  <2>3. Len(s) = Len(p)
    BY <1>1, <2>2
  <2>. QED  BY <1>1, <2>1, <2>3, SuffixOrder
<1>4. ASSUME p # Registrable[d]
      PROVE  /\ Tail(p) \in Chain(d) /\ Len(Tail(p)) < Len(p)
             /\ ClaimedAbove(d, p) = ClaimedAbove(d, Tail(p))
                              \cup (IF index[Tail(p)] # Unclaimed THEN {Tail(p)} ELSE {})
             /\ \A s \in ClaimedAbove(d, Tail(p)) : Len(s) <= Len(Tail(p))
  <2>1. PICK q : q = Tail(p)
    OBVIOUS
  <2>2. /\ q \in Seq(Label) /\ Len(q) = Len(p) - 1 /\ IsSuffix(q, p)
        /\ \A s \in Seq(Label) : IsSuffix(s, p) /\ s # p => IsSuffix(s, q)
    BY <1>1, <2>1, Parent
  <2>3. q \in Chain(d)
    BY <1>4, <2>1, ChainShape
  <2>4. Len(q) < Len(p) /\ Len(q) \in Nat
    BY <1>1, <2>2
  <2>5. q # p
    BY <2>4
  <2>6. ASSUME NEW s \in Chain(d), s # q
        PROVE  IsSuffix(s, p) /\ s # p <=> IsSuffix(s, q)
    <3>1. s \in Seq(Label)
      BY <1>2
    <3>2. IsSuffix(s, p) /\ s # p => IsSuffix(s, q)
      BY <2>2, <3>1
    <3>3. IsSuffix(s, q) => IsSuffix(s, p)
      BY <1>1, <2>2, <3>1, SuffixOrder
    <3>4. IsSuffix(s, q) => Len(s) <= Len(q)
      BY <2>2, <3>1, SuffixOrder
    <3>5. Len(s) <= Len(q) => s # p
      BY <1>1, <2>4
    <3>. QED  BY <3>2, <3>3, <3>4, <3>5
  <2>7. ClaimedAbove(d, p) = ClaimedAbove(d, q) \cup (IF index[q] # Unclaimed THEN {q} ELSE {})
    <3>1. \A s \in Chain(d) : s # q => (s \in ClaimedAbove(d, p) <=> s \in ClaimedAbove(d, q))
      BY <2>6 DEF ClaimedAbove
    <3>2. q \in ClaimedAbove(d, p) <=> index[q] # Unclaimed
      BY <2>2, <2>3, <2>5 DEF ClaimedAbove
    <3>3. q \notin ClaimedAbove(d, q) /\ ClaimedAbove(d, p) \subseteq Chain(d) /\ ClaimedAbove(d, q) \subseteq Chain(d)
      BY DEF ClaimedAbove
    <3>. QED  BY <3>1, <3>2, <3>3
  <2>8. \A s \in ClaimedAbove(d, q) : Len(s) <= Len(q)
    BY <1>2, <2>2, SuffixOrder DEF ClaimedAbove
  <2>. QED  BY <2>1, <2>3, <2>4, <2>7, <2>8
<1>. QED  BY <1>3, <1>4

\* One entry at most is found.
LEMMA FoundOnce ==
  ASSUME CatalogAssumption, NEW d, HasParents(d), NEW p \in Chain(d),
         NEW r, NEW o, Found(d, p, r), Found(d, p, o)
  PROVE  r = o
<1>1. CASE ClaimedAbove(d, p) = {}
  BY <1>1 DEF Found
<1>2. CASE ClaimedAbove(d, p) # {}
  <2>1. PICK s \in ClaimedAbove(d, p) : r = index[s] /\ \A t \in ClaimedAbove(d, p) : Len(t) <= Len(s)
    BY <1>2 DEF Found
  <2>2. PICK t \in ClaimedAbove(d, p) : o = index[t] /\ \A u \in ClaimedAbove(d, p) : Len(u) <= Len(t)
    BY <1>2 DEF Found
  <2>3. s \in Seq(Label) /\ t \in Seq(Label) /\ p \in Seq(Label) /\ IsSuffix(s, p) /\ IsSuffix(t, p)
    BY ChainShape DEF ClaimedAbove
  <2>4. Len(s) \in Nat /\ Len(t) \in Nat /\ Len(s) <= Len(t) /\ Len(t) <= Len(s)
    BY <2>1, <2>2, <2>3
  <2>5. Len(s) = Len(t)
    <3>1. PICK m \in Nat, n \in Nat : m = Len(s) /\ n = Len(t)
      BY <2>4
    <3>2. m <= n /\ n <= m
      BY <2>4, <3>1
    <3>3. m = n
      BY <3>2
    <3>. QED  BY <3>1, <3>3
  <2>6. s = t
    BY <2>3, <2>4, <2>5, SuffixOrder
  <2>. QED  BY <2>1, <2>2, <2>6
<1>. QED  BY <1>1, <1>2

\* Above the registrable domain nothing is found, above another what its parent has or
\* what is found above the parent.
LEMMA FoundAbove ==
  ASSUME CatalogAssumption, NEW d, HasParents(d), NEW p \in Chain(d)
  PROVE  /\ p = Registrable[d] => Found(d, p, Unclaimed)
         /\ p # Registrable[d] /\ index[Tail(p)] # Unclaimed => Found(d, p, index[Tail(p)])
         /\ p # Registrable[d] /\ index[Tail(p)] = Unclaimed =>
              \A r : Found(d, Tail(p), r) => Found(d, p, r)
<1>1. CASE p = Registrable[d]
  BY <1>1, ClaimedAboveParent DEF Found
<1>2. CASE p # Registrable[d] /\ index[Tail(p)] # Unclaimed
  <2>1. PICK q : q = Tail(p)
    OBVIOUS
  <2>2. /\ ClaimedAbove(d, p) = ClaimedAbove(d, q) \cup {q}
        /\ \A s \in ClaimedAbove(d, q) : Len(s) <= Len(q)
        /\ q \in Chain(d)
    BY <1>2, <2>1, ClaimedAboveParent
  <2>3. Len(q) <= Len(q)
    BY <2>2, ChainShape
  <2>. QED  BY <1>2, <2>1, <2>2, <2>3 DEF Found
<1>3. CASE p # Registrable[d] /\ index[Tail(p)] = Unclaimed
  <2>1. PICK q : q = Tail(p)
    OBVIOUS
  <2>2. index[q] = Unclaimed
    BY <1>3, <2>1
  <2>3. ClaimedAbove(d, p) = ClaimedAbove(d, q) \cup (IF index[q] # Unclaimed THEN {q} ELSE {})
    BY <1>3, <2>1, ClaimedAboveParent
  <2>4. ClaimedAbove(d, p) = ClaimedAbove(d, q)
    BY <2>2, <2>3
  <2>. QED  BY <1>3, <2>1, <2>4 DEF Found
<1>. QED  BY <1>1, <1>2, <1>3

\* There is something to find, be it Unclaimed: a shortest domain for which there is
\* not would have a parent.
LEMMA FoundSome ==
  ASSUME CatalogAssumption, NEW d, HasParents(d)
  PROVE  \A p \in Chain(d) : \E r : Found(d, p, r)
<1> DEFINE T == {n \in Nat : \E p \in Chain(d) : Len(p) = n /\ ~\E r : Found(d, p, r)}
<1> SUFFICES ASSUME NEW p0 \in Chain(d), ~\E r : Found(d, p0, r)
             PROVE  FALSE
  OBVIOUS
<1>1. Len(p0) \in T
  BY ChainShape
<1>2. PICK n \in T : \A y \in T : n <= y
  BY <1>1, NatMin
<1>3. PICK p \in Chain(d) : Len(p) = n /\ ~\E r : Found(d, p, r)
  OBVIOUS
<1>4. p # Registrable[d] /\ index[Tail(p)] = Unclaimed
  BY <1>3, FoundAbove
<1>5. PICK q \in Chain(d) : q = Tail(p) /\ Len(q) < Len(p)
  BY <1>4, ClaimedAboveParent
<1>6. Len(q) \notin T
  <2>1. Len(q) \in Nat /\ Len(p) \in Nat
    BY ChainShape
  <2>2. PICK m \in Nat : m = Len(q)
    BY <2>1
  <2>3. m < n
    BY <1>3, <1>5, <2>2
  <2>4. ~(n <= m)
    BY <2>3
  <2>. QED  BY <1>2, <2>2, <2>4
<1>7. PICK r : Found(d, q, r)
  BY <1>6, ChainShape
<1>8. Found(d, p, r)
  BY <1>4, <1>5, <1>7, FoundAbove
<1>. QED  BY <1>3, <1>8

\* The loop over the parents: a function that goes from p to its parent.
Loops(f, d) ==
  f = [p \in Chain(d) |->
         IF p = Registrable[d] THEN Unclaimed
         ELSE IF index[Tail(p)] # Unclaimed THEN index[Tail(p)] ELSE f[Tail(p)]]

\* There is one.
LEMMA LoopExists ==
  ASSUME CatalogAssumption, NEW d, HasParents(d)
  PROVE  \E f : Loops(f, d)
<1> DEFINE found(p) == CHOOSE r : Found(d, p, r)
<1>1. \A p \in Chain(d) : Found(d, p, found(p))
  BY FoundSome
<1> HIDE DEF found
<1>2. PICK f : f = [p \in Chain(d) |-> found(p)]
  OBVIOUS
<1>3. ASSUME NEW p \in Chain(d)
      PROVE  found(p) = IF p = Registrable[d] THEN Unclaimed
                        ELSE IF index[Tail(p)] # Unclaimed THEN index[Tail(p)] ELSE f[Tail(p)]
  <2>1. CASE p = Registrable[d]
    BY <1>1, <2>1, FoundAbove, FoundOnce
  <2>2. CASE p # Registrable[d] /\ index[Tail(p)] # Unclaimed
    BY <1>1, <2>2, FoundAbove, FoundOnce
  <2>3. CASE p # Registrable[d] /\ index[Tail(p)] = Unclaimed
    <3>1. PICK q \in Chain(d) : q = Tail(p)
      BY <2>3, ClaimedAboveParent
    <3>2. Found(d, q, found(q)) /\ f[q] = found(q)
      BY <1>1, <1>2
    <3>3. Found(d, p, found(q))
      BY <2>3, <3>1, <3>2, FoundAbove
    <3>4. found(p) = found(q)
      BY <1>1, <3>3, FoundOnce
    <3>. QED  BY <2>3, <3>1, <3>2, <3>4
  <2>. QED  BY <2>1, <2>2, <2>3
<1>4. f = [p \in Chain(d) |->
             IF p = Registrable[d] THEN Unclaimed
             ELSE IF index[Tail(p)] # Unclaimed THEN index[Tail(p)] ELSE f[Tail(p)]]
  BY <1>2, <1>3
<1>. QED  BY <1>4 DEF Loops

\* Such a function finds, for any domain: a shortest one for which it does not would
\* have a parent.
LEMMA LoopFinds ==
  ASSUME CatalogAssumption, NEW d, HasParents(d), NEW f, Loops(f, d)
  PROVE  \A p \in Chain(d) : Found(d, p, f[p])
<1> DEFINE T == {n \in Nat : \E p \in Chain(d) : Len(p) = n /\ ~Found(d, p, f[p])}
<1> SUFFICES ASSUME NEW p0 \in Chain(d), ~Found(d, p0, f[p0])
             PROVE  FALSE
  OBVIOUS
<1>1. Len(p0) \in T
  BY ChainShape
<1>2. PICK n \in T : \A y \in T : n <= y
  BY <1>1, NatMin
<1>3. PICK p \in Chain(d) : Len(p) = n /\ ~Found(d, p, f[p])
  OBVIOUS
<1>4. f[p] = IF p = Registrable[d] THEN Unclaimed
             ELSE IF index[Tail(p)] # Unclaimed THEN index[Tail(p)] ELSE f[Tail(p)]
  BY DEF Loops
<1>5. p # Registrable[d] /\ index[Tail(p)] = Unclaimed /\ f[p] = f[Tail(p)]
  BY <1>3, <1>4, FoundAbove
<1>6. PICK q \in Chain(d) : q = Tail(p) /\ Len(q) < Len(p)
  BY <1>5, ClaimedAboveParent
<1>7. Len(q) \notin T
  <2>1. Len(q) \in Nat /\ Len(p) \in Nat
    BY ChainShape
  <2>2. PICK m \in Nat : m = Len(q)
    BY <2>1
  <2>3. m < n
    BY <1>3, <1>6, <2>2
  <2>4. ~(n <= m)
    BY <2>3
  <2>. QED  BY <1>2, <2>2, <2>4
<1>8. Found(d, q, f[q])
  BY <1>7, ChainShape
<1>9. Found(d, p, f[q])
  BY <1>5, <1>6, <1>8, FoundAbove
<1>. QED  BY <1>3, <1>5, <1>6, <1>9

\* What the loop over the parents of a domain returns is found above it.
LEMMA ParentsFound ==
  ASSUME CatalogAssumption, NEW d, HasParents(d)
  PROVE  Found(d, d, LookupParents(d))
<1> DEFINE f == CHOOSE f : Loops(f, d)
<1>1. Loops(f, d)
  BY LoopExists
<1>2. LookupParents(d) = f[d]
  BY DEF LookupParents, Loops, Chain
<1> HIDE DEF f
<1>. QED  BY <1>1, <1>2, LoopFinds, ChainShape

-----------------------------------------------------------------------------
\* What has been indexed, and what the index says of it: each domain that an entry
\* claims has an entry of that name, and each entry is one that claims the domain.
Indexed == payload \ left

CatalogTypes ==
  /\ payload \subseteq Entry /\ left \subseteq payload
  /\ index \in [Domain -> Indexed \cup {Unclaimed}]
  /\ outcome \in {"parsing", "ok", "error"}

IndexRight ==
  outcome # "error" =>
    /\ \A e \in Indexed :
         /\ <<>> \notin Claims(e) /\ e.valid
         /\ \A d \in Claims(e) : index[d] # Unclaimed /\ Canonical(index[d]) = Canonical(e)
    /\ \A d \in Domain : index[d] # Unclaimed => d \in Claims(index[d])

OutcomeRight ==
  /\ outcome = "error" => Unusable
  /\ outcome = "ok" => left = {} /\ payload # {}

\* Inductive.
CatalogInv == CatalogTypes /\ IndexRight /\ OutcomeRight

\* What an entry claims.
LEMMA ClaimsShape ==
  ASSUME CatalogAssumption, NEW e \in Entry
  PROVE  /\ Claims(e) \subseteq Domain \cup {<<>>} /\ Canonical(e) \in Claims(e)
         /\ e # Unclaimed /\ e.valid \in BOOLEAN
BY DEF CatalogAssumption, Claims, Canonical

\* An entry that is refused makes the data set unusable.
LEMMA RefusedUnusable ==
  ASSUME CatalogAssumption, CatalogTypes, IndexRight, outcome = "parsing", NEW e \in left, Refused(e)
  PROVE  Unusable
<1>1. e \in payload /\ e \in Entry
  BY DEF CatalogTypes
<1>2. CASE <<>> \in Claims(e) \/ ~e.valid
  BY <1>1, <1>2 DEF Unusable
<1>3. CASE <<>> \notin Claims(e)
           /\ \E d \in Claims(e) : index[d] # Unclaimed /\ Canonical(index[d]) # Canonical(e)
  <2>1. PICK d \in Claims(e) : index[d] # Unclaimed /\ Canonical(index[d]) # Canonical(e)
    BY <1>3
  <2>2. d \in Domain
    BY <1>1, <1>3, ClaimsShape
  <2>3. index[d] \in payload /\ d \in Claims(index[d])
    BY <2>1, <2>2 DEF CatalogTypes, IndexRight, Indexed
  <2>4. Claims(index[d]) \cap Claims(e) # {}
    BY <2>3
  <2>. QED  BY <1>1, <2>1, <2>3, <2>4 DEF Unusable
<1>. QED  BY <1>2, <1>3 DEF Refused

\* An entry is indexed, or refused.
LEMMA IndexStep ==
  ASSUME CatalogAssumption, CatalogInv, NEW e \in Entry, IndexEntry(e)
  PROVE  CatalogInv'
<1>1. /\ outcome = "parsing" /\ e \in left /\ left' = left \ {e} /\ payload' = payload
      /\ e \in payload /\ e \notin Indexed /\ Indexed' = Indexed \cup {e}
  BY DEF IndexEntry, CatalogInv, CatalogTypes, Indexed
<1>2. payload' \subseteq Entry /\ left' \subseteq payload' /\ Indexed \subseteq Entry
  BY <1>1 DEF CatalogInv, CatalogTypes, Indexed
<1>3. CASE Refused(e)
  <2>1. outcome' = "error" /\ index' = index
    BY <1>3 DEF IndexEntry
  <2>2. Unusable
    BY <1>1, <1>3, RefusedUnusable DEF CatalogInv
  <2>3. Unusable'
    BY <1>1, <2>2 DEF Unusable, Claims, Canonical
  <2>4. CatalogTypes'
    BY <1>1, <1>2, <2>1 DEF CatalogInv, CatalogTypes
  <2>. QED  BY <2>1, <2>3, <2>4 DEF CatalogInv, IndexRight, OutcomeRight
<1>4. CASE ~Refused(e)
  <2>1. /\ index' = [d \in Domain |-> IF d \in Claims(e) THEN e ELSE index[d]]
        /\ outcome' = IF left' = {} THEN "ok" ELSE "parsing"
    BY <1>4 DEF IndexEntry
  <2>2. /\ <<>> \notin Claims(e) /\ e.valid /\ Claims(e) \subseteq Domain /\ e # Unclaimed
        /\ \A d \in Claims(e) : index[d] # Unclaimed => Canonical(index[d]) = Canonical(e)
    BY <1>4, ClaimsShape DEF Refused
  <2>3. index \in [Domain -> Indexed \cup {Unclaimed}]
    BY DEF CatalogInv, CatalogTypes
  <2>4. \A d \in Domain : index'[d] = IF d \in Claims(e) THEN e ELSE index[d]
    BY <2>1
  <2>5. CatalogTypes'
    <3>1. index' \in [Domain -> Indexed' \cup {Unclaimed}]
      BY <1>1, <2>1, <2>3
    <3>. QED  BY <1>2, <2>1, <3>1 DEF CatalogTypes
  <2>6. OutcomeRight'
    <3>1. payload' # {}
      BY <1>1
    <3>. QED  BY <2>1, <3>1 DEF OutcomeRight
  <2>7. \A o : Claims(o)' = Claims(o) /\ Canonical(o)' = Canonical(o)
    BY DEF Claims, Canonical
  <2>8. ASSUME NEW o \in Indexed', NEW d \in Claims(o)
        PROVE  index'[d] # Unclaimed /\ Canonical(index'[d]) = Canonical(o)
    <3>1. CASE o = e
      BY <2>2, <2>4, <2>8, <3>1
    <3>2. CASE o \in Indexed
      <4>1. /\ <<>> \notin Claims(o) /\ index[d] # Unclaimed /\ Canonical(index[d]) = Canonical(o)
        BY <1>1, <2>8, <3>2 DEF CatalogInv, IndexRight
      <4>2. d \in Domain
        BY <1>2, <2>8, <3>2, <4>1, ClaimsShape
      <4>. QED  BY <2>2, <2>4, <4>1, <4>2
    <3>. QED  BY <1>1, <3>1, <3>2
  <2>9. ASSUME NEW o \in Indexed'
        PROVE  <<>> \notin Claims(o) /\ o.valid
    BY <1>1, <2>2 DEF CatalogInv, IndexRight
  <2>10. ASSUME NEW d \in Domain, index'[d] # Unclaimed
         PROVE  d \in Claims(index'[d])
    BY <1>1, <2>4, <2>10 DEF CatalogInv, IndexRight
  <2>11. IndexRight'
    BY <2>8, <2>9, <2>10 DEF IndexRight, Claims, Canonical
  <2>. QED  BY <2>5, <2>6, <2>11 DEF CatalogInv
<1>. QED  BY <1>3, <1>4

\* The index holds what was indexed, and a data set is refused for a reason.
THEOREM CatalogInvariant == CatalogSpec => []CatalogInv
<1>1. CatalogAssumption /\ CatalogInit => CatalogInv
  <2> SUFFICES ASSUME CatalogAssumption, CatalogInit
               PROVE  CatalogInv
    OBVIOUS
  <2>1. payload \subseteq Entry /\ left = payload /\ Indexed = {}
    BY DEF CatalogInit, Payloads, Indexed
  <2>2. index \in [Domain -> Indexed \cup {Unclaimed}] /\ \A d \in Domain : index[d] = Unclaimed
    BY DEF CatalogInit
  <2>3. CatalogTypes
    BY <2>1, <2>2 DEF CatalogInit, CatalogTypes
  <2>4. IndexRight
    BY <2>1, <2>2 DEF IndexRight
  <2>5. OutcomeRight
    BY DEF CatalogInit, OutcomeRight, Unusable
  <2>. QED  BY <2>3, <2>4, <2>5 DEF CatalogInv
<1>2. CatalogAssumption /\ CatalogInv /\ [CatalogNext]_catalogVars => CatalogInv'
  <2> SUFFICES ASSUME CatalogAssumption, CatalogInv, [CatalogNext]_catalogVars
               PROVE  CatalogInv'
    OBVIOUS
  <2>1. CASE CatalogNext
    BY <2>1, IndexStep DEF CatalogNext
  <2>2. CASE UNCHANGED catalogVars
    BY <2>2 DEF catalogVars, CatalogInv, CatalogTypes, IndexRight, OutcomeRight, Indexed,
                Unusable, Claims, Canonical
  <2>. QED  BY <2>1, <2>2
<1>. QED  BY <1>1, <1>2, CatalogAssumption, PTL DEF CatalogSpec

\* Of a data set that is in use, the index has an entry for the domains that an entry
\* claims, and it is one that does.
LEMMA IndexOfClaims ==
  ASSUME CatalogAssumption, CatalogInv, outcome = "ok"
  PROVE  /\ ~Unusable
         /\ \A d \in Domain : /\ index[d] # Unclaimed <=> Claimants(d) # {}
                              /\ index[d] # Unclaimed => index[d] \in Claimants(d)
<1>1. Indexed = payload /\ payload # {} /\ payload \subseteq Entry
  BY DEF CatalogInv, OutcomeRight, CatalogTypes, Indexed
<1>2. /\ \A e \in payload :
           /\ <<>> \notin Claims(e) /\ e.valid
           /\ \A d \in Claims(e) : index[d] # Unclaimed /\ Canonical(index[d]) = Canonical(e)
      /\ \A d \in Domain : index[d] # Unclaimed => d \in Claims(index[d])
      /\ index \in [Domain -> payload \cup {Unclaimed}]
  BY <1>1 DEF CatalogInv, IndexRight, CatalogTypes
<1>3. ~Unusable
  <2>1. ASSUME NEW d \in payload, NEW e \in payload, Claims(d) \cap Claims(e) # {}
        PROVE  Canonical(d) = Canonical(e)
    <3>1. PICK x : x \in Claims(d) /\ x \in Claims(e)
      BY <2>1
    <3>. QED  BY <1>2, <3>1
  <2>. QED  BY <1>1, <1>2, <2>1 DEF Unusable
<1>4. ASSUME NEW d \in Domain
      PROVE  /\ index[d] # Unclaimed <=> Claimants(d) # {}
             /\ index[d] # Unclaimed => index[d] \in Claimants(d)
  <2>1. index[d] # Unclaimed => index[d] \in Claimants(d)
    BY <1>2 DEF Claimants
  <2>2. Claimants(d) # {} => index[d] # Unclaimed
    BY <1>2 DEF Claimants
  <2>. QED  BY <2>1, <2>2
<1>. QED  BY <1>3, <1>4

-----------------------------------------------------------------------------
\* The domains that may answer for d and have an entry.
Answering(d) == {s \in Within(d) : index[s] # Unclaimed}

\* What may answer for d is d, or above it.
LEMMA WithinShape ==
  ASSUME CatalogAssumption, NEW d \in Domain
  PROVE  /\ d \in Within(d) /\ d \in Seq(Label)
         /\ \A s \in Within(d) : s \in Domain /\ s \in Seq(Label) /\ Len(s) \in Nat /\ IsSuffix(s, d)
<1>1. d \in Seq(Label) /\ Domain \subseteq Seq(Label)
  BY DEF CatalogAssumption
<1>2. IsSuffix(d, d)
  BY <1>1, SuffixOrder
<1>3. d \in Within(d) /\ \A s \in Within(d) : s \in Domain /\ IsSuffix(s, d)
  BY <1>2 DEF Within
<1>4. \A s \in Seq(Label) : Len(s) \in Nat
  OBVIOUS
<1>. QED  BY <1>1, <1>3, <1>4

\* A lookup finds the entry of the closest of them.
LEMMA LookupFinds ==
  ASSUME CatalogAssumption, NEW d \in Domain
  PROVE  /\ Answering(d) = {} => LookupCatalogEntry(d) = Unclaimed
         /\ Answering(d) # {} =>
              \E s \in Answering(d) : /\ LookupCatalogEntry(d) = index[s]
                                      /\ \A t \in Answering(d) : Len(t) <= Len(s)
<1>1. CASE index[d] # Unclaimed
  <2>1. LookupCatalogEntry(d) = index[d]
    BY <1>1 DEF LookupCatalogEntry
  <2>2. d \in Answering(d)
    BY <1>1, WithinShape DEF Answering
  <2>3. ASSUME NEW t \in Answering(d)
        PROVE  Len(t) <= Len(d)
    BY WithinShape, SuffixOrder DEF Answering
  <2>. QED  BY <2>1, <2>2, <2>3
<1>2. CASE index[d] = Unclaimed /\ Registrable[d] = <<>>
  <2>1. LookupCatalogEntry(d) = Unclaimed
    BY <1>2 DEF LookupCatalogEntry
  <2>2. Answering(d) = {}
    BY <1>2 DEF Answering, Within
  <2>. QED  BY <2>1, <2>2
<1>3. CASE index[d] = Unclaimed /\ Registrable[d] # <<>>
  <2>1. HasParents(d)
    BY <1>3 DEF HasParents
  <2>2. Within(d) = {d} \cup Chain(d)
    BY <1>3 DEF Within, Chain
  <2>3. Answering(d) = ClaimedAbove(d, d)
    <3>1. \A s \in Chain(d) : IsSuffix(s, d)
      BY DEF Chain
    <3>. QED  BY <1>3, <2>2, <3>1 DEF Answering, ClaimedAbove
  <2>4. CASE Registrable[d] = d
    <3>1. LookupCatalogEntry(d) = Unclaimed
      BY <1>3, <2>4 DEF LookupCatalogEntry
    <3>2. ClaimedAbove(d, d) = {}
      BY <2>1, <2>4, ChainShape, ClaimedAboveParent
    <3>. QED  BY <2>3, <3>1, <3>2
  <2>5. CASE Registrable[d] # d
    <3>1. LookupCatalogEntry(d) = LookupParents(d)
      BY <1>3, <2>5 DEF LookupCatalogEntry
    <3>2. Found(d, d, LookupCatalogEntry(d))
      BY <2>1, <3>1, ParentsFound
    <3>. QED  BY <2>3, <3>2 DEF Found
  <2>. QED  BY <2>4, <2>5
<1>. QED  BY <1>1, <1>2, <1>3

\* In a data set that is in use it is an entry that claims the closest of the claimed.
LEMMA LookupIsClosest ==
  ASSUME CatalogAssumption, CatalogInv, outcome = "ok", NEW d \in Domain
  PROVE  /\ Closest(d) = {} => LookupCatalogEntry(d) = Unclaimed
         /\ Closest(d) # {} => LookupCatalogEntry(d) \in Closest(d)
         /\ Closest(d) \subseteq Entry
<1> DEFINE claimed == {s \in Within(d) : Claimants(s) # {}}
           longest == CHOOSE s \in claimed : \A t \in claimed : Len(t) <= Len(s)
<1>1. claimed = Answering(d)
  BY WithinShape, IndexOfClaims DEF Answering
<1>2. Closest(d) = IF claimed = {} THEN {} ELSE Claimants(longest)
  BY DEF Closest
<1>3. \A s : Claimants(s) \subseteq Entry
  BY DEF Claimants, CatalogInv, CatalogTypes
<1> HIDE DEF claimed
<1>4. CASE claimed = {}
  BY <1>1, <1>2, <1>4, LookupFinds
<1>5. CASE claimed # {}
  <2>1. PICK s \in claimed : /\ LookupCatalogEntry(d) = index[s]
                             /\ \A t \in claimed : Len(t) <= Len(s)
    BY <1>1, <1>5, LookupFinds
  <2>2. longest \in claimed /\ \A t \in claimed : Len(t) <= Len(longest)
    BY <2>1
  <2> HIDE DEF longest
  <2>3. PICK l : l = longest
    OBVIOUS
  <2>4. /\ s \in Seq(Label) /\ Len(s) \in Nat /\ IsSuffix(s, d)
        /\ l \in Seq(Label) /\ Len(l) \in Nat /\ IsSuffix(l, d) /\ d \in Seq(Label)
    BY <1>1, <2>1, <2>2, <2>3, WithinShape DEF Answering
  <2>5. Len(s) <= Len(l) /\ Len(l) <= Len(s)
    BY <2>1, <2>2, <2>3
  <2>6. Len(s) = Len(l)
    BY <2>4, <2>5
  <2>7. s = l
    BY <2>4, <2>6, SuffixOrder
  <2>8. s \in Domain /\ index[s] # Unclaimed
    BY <1>1, <2>1, WithinShape DEF Answering
  <2>9. index[s] \in Claimants(s)
    BY <2>8, IndexOfClaims
  <2>10. Closest(d) = Claimants(s)
    BY <1>2, <1>5, <2>3, <2>7
  <2>. QED  BY <1>3, <2>1, <2>9, <2>10
<1>. QED  BY <1>4, <1>5

-----------------------------------------------------------------------------
\* The matches of a list.
Match == [rpID : Written, entry : Entry]

\* One match more, or none.
Unmatched(s, w) ==
  Normal[w] = <<>> \/ (\E m \in ToSet(s) : Normal[m.rpID] = Normal[w])
    \/ LookupCatalogEntry(Normal[w]) = Unclaimed
Matching(s, w) ==
  IF Unmatched(s, w) THEN s ELSE Append(s, [rpID |-> w, entry |-> LookupCatalogEntry(Normal[w])])

\* The function that goes through a list.
Goes(f, rpIDs, n) ==
  f = [m \in 1..n |-> Matching(IF m = 1 THEN <<>> ELSE f[m - 1], rpIDs[m])]

\* There is one.
LEMMA GoesExists ==
  ASSUME NEW rpIDs, NEW n \in Nat
  PROVE  \E f : Goes(f, rpIDs, n)
<1> DEFINE T == {l \in Nat : ~\E f : Goes(f, rpIDs, l)}
<1> SUFFICES ASSUME T # {}
             PROVE  FALSE
  OBVIOUS
<1>1. PICK l \in T : \A y \in T : l <= y
  BY NatMin
<1>2. l \in Nat /\ ~\E f : Goes(f, rpIDs, l)
  OBVIOUS
<1>3. CASE l = 0
  <2> DEFINE f == [m \in 1..0 |-> <<>>]
  <2>1. Goes(f, rpIDs, 0)
    BY DEF Goes
  <2>. QED  BY <1>2, <1>3, <2>1
<1>4. CASE l # 0
  <2>1. l - 1 \in Nat /\ ~(l - 1 \in T)
    BY <1>1, <1>2, <1>4
  <2>2. PICK g : Goes(g, rpIDs, l - 1)
    BY <2>1
  <2> DEFINE before(m) == IF m = 1 THEN <<>> ELSE g[m - 1]
             f == [m \in 1..l |-> Matching(before(m), rpIDs[m])]
  <2>3. \A m \in 1..l : m # 1 => m - 1 \in 1..l - 1 /\ m - 1 \in 1..l
    BY <1>2
  <2>4. \A m \in 1..l - 1 : g[m] = Matching(before(m), rpIDs[m])
    BY <2>2 DEF Goes
  <2>5. \A m \in 1..l - 1 : m \in 1..l
    BY <1>2
  <2>6. \A m \in 1..l : f[m] = Matching(before(m), rpIDs[m])
    OBVIOUS
  <2> HIDE DEF f
  <2>7. \A m \in 1..l - 1 : f[m] = g[m]
    BY <2>4, <2>5, <2>6
  <2>8. \A m \in 1..l : before(m) = IF m = 1 THEN <<>> ELSE f[m - 1]
    BY <2>3, <2>7
  <2>9. f = [m \in 1..l |-> Matching(IF m = 1 THEN <<>> ELSE f[m - 1], rpIDs[m])]
    BY <2>8 DEF f
  <2>. QED  BY <1>2, <2>9 DEF Goes
<1>. QED  BY <1>3, <1>4

\* What s has of the first l names: for each normal form that an entry is found for, it.
MatchesOf(s, rpIDs, l) ==
  /\ s \in Seq(Match)
  /\ \A m \in ToSet(s) : m.entry = LookupCatalogEntry(Normal[m.rpID])
  /\ \A i \in 1..l : Normal[rpIDs[i]] # <<>> /\ LookupCatalogEntry(Normal[rpIDs[i]]) # Unclaimed =>
       \E m \in ToSet(s) : Normal[m.rpID] = Normal[rpIDs[i]]
  /\ \A m \in ToSet(s) : Normal[m.rpID] # <<>> /\ LookupCatalogEntry(Normal[m.rpID]) # Unclaimed

\* One match after the others.
LEMMA MatchAppended ==
  ASSUME NEW s \in Seq(Match), NEW m \in Match
  PROVE  Append(s, m) \in Seq(Match) /\ ToSet(Append(s, m)) = ToSet(s) \cup {m}
<1>1. /\ Append(s, m) \in Seq(Match) /\ Len(s) \in Nat
      /\ DOMAIN s = 1..Len(s) /\ DOMAIN Append(s, m) = 1..Len(s) + 1
      /\ \A i \in 1..Len(s) : Append(s, m)[i] = s[i]
      /\ Append(s, m)[Len(s) + 1] = m
  OBVIOUS
<1>2. PICK t : t = Append(s, m)
  OBVIOUS
<1>3. ToSet(s) = {s[i] : i \in 1..Len(s)} /\ ToSet(t) = {t[i] : i \in 1..Len(s) + 1}
  BY <1>1, <1>2 DEF ToSet
<1>4. \A i \in 1..Len(s) + 1 : i \in 1..Len(s) \/ i = Len(s) + 1
  BY <1>1
<1>5. \A i \in 1..Len(s) : i \in 1..Len(s) + 1
  BY <1>1
<1>6. Len(s) + 1 \in 1..Len(s) + 1
  BY <1>1
<1>7. ToSet(t) \subseteq ToSet(s) \cup {m}
  BY <1>1, <1>2, <1>3, <1>4
<1>8. m \in ToSet(t)
  BY <1>1, <1>2, <1>3, <1>6
<1>9. ToSet(s) \subseteq ToSet(t)
  <2>1. ASSUME NEW i \in 1..Len(s)
        PROVE  s[i] \in ToSet(t)
    BY <1>1, <1>2, <1>3, <1>5
  <2>. QED  BY <1>3, <2>1
<1>. QED  BY <1>1, <1>2, <1>7, <1>8, <1>9

\* One name more.
LEMMA MatchesOfNext ==
  ASSUME CatalogAssumption, CatalogInv, outcome = "ok", NEW rpIDs \in Seq(Written),
         NEW l \in 1..Len(rpIDs), NEW s, MatchesOf(s, rpIDs, l - 1)
  PROVE  MatchesOf(Matching(s, rpIDs[l]), rpIDs, l)
<1>1. PICK w \in Written : w = rpIDs[l]
  OBVIOUS
<1>2. Normal[w] \in Domain \cup {<<>>}
  BY DEF CatalogAssumption
<1>3. PICK found : found = LookupCatalogEntry(Normal[w])
  OBVIOUS
<1>4. /\ s \in Seq(Match)
      /\ \A m \in ToSet(s) : m.entry = LookupCatalogEntry(Normal[m.rpID])
      /\ \A i \in 1..l - 1 : Normal[rpIDs[i]] # <<>> /\ LookupCatalogEntry(Normal[rpIDs[i]]) # Unclaimed =>
           \E m \in ToSet(s) : Normal[m.rpID] = Normal[rpIDs[i]]
      /\ \A m \in ToSet(s) : Normal[m.rpID] # <<>> /\ LookupCatalogEntry(Normal[m.rpID]) # Unclaimed
  BY DEF MatchesOf
<1>5. \A i \in 1..l : i \in 1..l - 1 \/ i = l
  OBVIOUS
<1>6. CASE Unmatched(s, w)
  <2>1. Matching(s, w) = s
    BY <1>6 DEF Matching
  <2>2. Normal[w] # <<>> /\ LookupCatalogEntry(Normal[w]) # Unclaimed =>
          \E m \in ToSet(s) : Normal[m.rpID] = Normal[w]
    BY <1>6 DEF Unmatched
  <2>3. \A i \in 1..l : Normal[rpIDs[i]] # <<>> /\ LookupCatalogEntry(Normal[rpIDs[i]]) # Unclaimed =>
          \E m \in ToSet(s) : Normal[m.rpID] = Normal[rpIDs[i]]
    BY <1>1, <1>4, <1>5, <2>2
  <2>. QED  BY <1>1, <1>4, <2>1, <2>3 DEF MatchesOf
<1>7. CASE ~Unmatched(s, w)
  <2>1. Normal[w] # <<>> /\ found # Unclaimed /\ Normal[w] \in Domain
    BY <1>2, <1>3, <1>7 DEF Unmatched
  <2>2. found \in Entry
    BY <1>3, <2>1, LookupIsClosest
  <2>3. PICK m \in Match : m = [rpID |-> w, entry |-> found]
    BY <2>2 DEF Match
  <2>4. PICK t : t = Append(s, m)
    OBVIOUS
  <2>5. t \in Seq(Match) /\ ToSet(t) = ToSet(s) \cup {m}
    BY <1>4, <2>4, MatchAppended
  <2>6. Matching(s, w) = t
    BY <1>3, <1>7, <2>3, <2>4 DEF Matching
  <2>7. m.rpID = w /\ m.entry = found
    BY <2>3
  <2>8. \A i \in 1..l : Normal[rpIDs[i]] # <<>> /\ LookupCatalogEntry(Normal[rpIDs[i]]) # Unclaimed =>
          \E o \in ToSet(t) : Normal[o.rpID] = Normal[rpIDs[i]]
    BY <1>1, <1>4, <1>5, <2>5, <2>7
  <2>9. \A o \in ToSet(t) : o.entry = LookupCatalogEntry(Normal[o.rpID])
    BY <1>3, <1>4, <2>5, <2>7
  <2>10. \A o \in ToSet(t) : Normal[o.rpID] # <<>> /\ LookupCatalogEntry(Normal[o.rpID]) # Unclaimed
    BY <1>3, <1>4, <2>1, <2>5, <2>7
  <2>. QED  BY <1>1, <2>5, <2>6, <2>8, <2>9, <2>10 DEF MatchesOf
<1>. QED  BY <1>6, <1>7

\* The matches of a list have each name that an entry is found for.
LEMMA ResultMatches ==
  ASSUME CatalogAssumption, CatalogInv, outcome = "ok", NEW rpIDs \in Seq(Written)
  PROVE  MatchesOf(LookupResult(rpIDs), rpIDs, Len(rpIDs))
<1>1. MatchesOf(<<>>, rpIDs, 0)
  <2>1. <<>> \in Seq(Match) /\ ToSet(<<>>) = {}
    BY DEF ToSet
  <2>. QED  BY <2>1 DEF MatchesOf
<1>2. CASE rpIDs = <<>>
  <2>1. LookupResult(rpIDs) = <<>> /\ Len(rpIDs) = 0
    BY <1>2 DEF LookupResult
  <2>. QED  BY <1>1, <2>1
<1>3. CASE rpIDs # <<>>
  <2> DEFINE f == CHOOSE f : Goes(f, rpIDs, Len(rpIDs))
  <2>1. Len(rpIDs) \in Nat /\ DOMAIN rpIDs = 1..Len(rpIDs) /\ Len(rpIDs) \in 1..Len(rpIDs)
    BY <1>3
  <2>2. Goes(f, rpIDs, Len(rpIDs))
    BY <2>1, GoesExists
  <2>3. LookupResult(rpIDs) = f[Len(rpIDs)]
    BY <1>3, <2>1 DEF LookupResult, Goes, Matching, Unmatched
  <2> HIDE DEF f
  <2>4. \A m \in 1..Len(rpIDs) : f[m] = Matching(IF m = 1 THEN <<>> ELSE f[m - 1], rpIDs[m])
    BY <2>2 DEF Goes
  <2> DEFINE T == {n \in Nat : n \in 1..Len(rpIDs) /\ ~MatchesOf(f[n], rpIDs, n)}
  <2>5. T = {}
    <3> SUFFICES ASSUME T # {}
                 PROVE  FALSE
      OBVIOUS
    <3>1. PICK n \in T : \A y \in T : n <= y
      BY NatMin
    <3>2. n \in 1..Len(rpIDs) /\ ~MatchesOf(f[n], rpIDs, n)
      OBVIOUS
    <3>3. CASE n = 1
      <4>1. f[n] = Matching(<<>>, rpIDs[n]) /\ n - 1 = 0
        BY <2>4, <3>2, <3>3
      <4>2. MatchesOf(<<>>, rpIDs, n - 1)
        BY <1>1, <4>1
      <4>3. MatchesOf(Matching(<<>>, rpIDs[n]), rpIDs, n)
        BY <3>2, <4>2, MatchesOfNext
      <4>. QED  BY <3>2, <4>1, <4>3
    <3>4. CASE n # 1
      <4>1. n - 1 \in Nat /\ n - 1 \in 1..Len(rpIDs) /\ ~(n <= n - 1)
        BY <2>1, <3>2, <3>4
      <4>2. MatchesOf(f[n - 1], rpIDs, n - 1)
        BY <3>1, <4>1
      <4>3. f[n] = Matching(f[n - 1], rpIDs[n])
        BY <2>4, <3>2, <3>4
      <4>4. MatchesOf(Matching(f[n - 1], rpIDs[n]), rpIDs, n)
        BY <3>2, <4>2, MatchesOfNext
      <4>. QED  BY <3>2, <4>3, <4>4
    <3>. QED  BY <3>3, <3>4
  <2>. QED  BY <2>1, <2>3, <2>5
<1>. QED  BY <1>2, <1>3

\* What the window finds for a name of the list: the closest entry, and none if there
\* is none.
LEMMA MatchOfName ==
  ASSUME CatalogAssumption, CatalogInv, outcome = "ok", NEW rpIDs \in Seq(Written),
         NEW i \in 1..Len(rpIDs), NEW w, w = rpIDs[i]
  PROVE  IF Normal[w] = <<>> \/ LookupCatalogEntry(Normal[w]) = Unclaimed THEN MatchOf(rpIDs, w) = {}
         ELSE MatchOf(rpIDs, w) = {LookupCatalogEntry(Normal[w])}
<1>1. PICK s : s = LookupResult(rpIDs)
  OBVIOUS
<1>2. MatchesOf(s, rpIDs, Len(rpIDs))
  BY <1>1, ResultMatches
<1>3. MatchOf(rpIDs, w) = {m.entry : m \in {n \in ToSet(s) : Normal[n.rpID] = Normal[w]}}
  BY <1>1 DEF MatchOf
<1>4. \A m \in ToSet(s) : Normal[m.rpID] = Normal[w] => m.entry = LookupCatalogEntry(Normal[w])
  BY <1>2 DEF MatchesOf
<1>5. CASE Normal[w] = <<>> \/ LookupCatalogEntry(Normal[w]) = Unclaimed
  <2>1. \A m \in ToSet(s) : Normal[m.rpID] # Normal[w]
    BY <1>2, <1>5 DEF MatchesOf
  <2>. QED  BY <1>3, <1>5, <2>1
<1>6. CASE ~(Normal[w] = <<>> \/ LookupCatalogEntry(Normal[w]) = Unclaimed)
  <2>1. PICK m \in ToSet(s) : Normal[m.rpID] = Normal[w]
    BY <1>2, <1>6 DEF MatchesOf
  <2>2. PICK e : e = LookupCatalogEntry(Normal[w])
    OBVIOUS
  <2>3. m.entry = e /\ \A n \in ToSet(s) : Normal[n.rpID] = Normal[w] => n.entry = e
    BY <1>4, <2>1, <2>2
  <2>4. e \in MatchOf(rpIDs, w)
    BY <1>3, <2>1, <2>3
  <2>5. MatchOf(rpIDs, w) \subseteq {e}
    BY <1>3, <2>3
  <2>6. MatchOf(rpIDs, w) = {e}
    BY <2>4, <2>5
  <2>. QED  BY <1>6, <2>2, <2>6
<1>. QED  BY <1>5, <1>6

\* Whatever the order in which the entries are indexed, a data set is refused exactly
\* if it is not usable, and each group of the inventory is shown the closest entry
\* that claims its relying party (parseCatalog, lookupCatalogEntry, lookupResult).
THEOREM CatalogAnswersClosest == CatalogSpec => []CatalogAnswers
<1>1. CatalogAssumption /\ CatalogInv => CatalogAnswers
  <2> SUFFICES ASSUME CatalogAssumption, CatalogInv
               PROVE  CatalogAnswers
    OBVIOUS
  <2>1. outcome = "error" => Unusable
    BY DEF CatalogInv, OutcomeRight
  <2>2. outcome = "ok" => ~Unusable
    BY IndexOfClaims
  <2>3. ASSUME outcome = "ok", NEW v \in Written, NEW w \in Written
        PROVE  IF Normal[w] = <<>> \/ Closest(Normal[w]) = {} THEN MatchOf(<<v, w>>, w) = {}
               ELSE /\ Cardinality(MatchOf(<<v, w>>, w)) = 1
                    /\ MatchOf(<<v, w>>, w) \subseteq Closest(Normal[w])
    <3>. <<v, w>> \in Seq(Written) /\ Len(<<v, w>>) = 2 /\ <<v, w>>[2] = w
      OBVIOUS
    <3>1. PICK rpIDs \in Seq(Written) : rpIDs = <<v, w>>
      OBVIOUS
    <3>2. PICK i \in 1..Len(rpIDs) : w = rpIDs[i]
      <4>1. 2 \in 1..Len(rpIDs) /\ w = rpIDs[2]
        BY <3>1
      <4>. QED  BY <4>1
    <3>3. IF Normal[w] = <<>> \/ LookupCatalogEntry(Normal[w]) = Unclaimed THEN MatchOf(rpIDs, w) = {}
          ELSE MatchOf(rpIDs, w) = {LookupCatalogEntry(Normal[w])}
      BY <2>3, <3>2, MatchOfName
    <3>4. CASE Normal[w] = <<>>
      BY <3>1, <3>3, <3>4
    <3>5. CASE Normal[w] # <<>>
      <4>1. Normal[w] \in Domain
        BY <3>5 DEF CatalogAssumption
      <4>2. /\ Closest(Normal[w]) = {} => LookupCatalogEntry(Normal[w]) = Unclaimed
            /\ Closest(Normal[w]) # {} => LookupCatalogEntry(Normal[w]) \in Closest(Normal[w])
            /\ Closest(Normal[w]) \subseteq Entry
        BY <2>3, <4>1, LookupIsClosest
      <4>3. Unclaimed \notin Entry
        BY DEF CatalogAssumption
      <4>4. CASE Closest(Normal[w]) = {}
        BY <3>1, <3>3, <4>2, <4>4
      <4>5. CASE Closest(Normal[w]) # {}
        <5>1. LookupCatalogEntry(Normal[w]) \in Closest(Normal[w]) /\ LookupCatalogEntry(Normal[w]) # Unclaimed
          BY <4>2, <4>3, <4>5
        <5>2. PICK e \in Closest(Normal[w]) : MatchOf(rpIDs, w) = {e}
          BY <3>3, <3>5, <5>1
        <5>3. Cardinality({e}) = 1
          BY FS_Singleton
        <5>. QED  BY <3>1, <3>5, <4>5, <5>2, <5>3
      <4>. QED  BY <4>4, <4>5
    <3>. QED  BY <3>4, <3>5
  <2>. QED  BY <2>1, <2>2, <2>3 DEF CatalogAnswers
<1>. QED  BY <1>1, CatalogInvariant, CatalogAssumption, PTL

-----------------------------------------------------------------------------
(* The parts side by side.                                                  *)

\* A step of a part is one of it, and the others stutter.
LEMMA PartStep ==
  ASSUME PartNext \/ UNCHANGED <<part, PartVars>>
  PROVE  /\ [DirectoryNext]_directoryVars /\ [CatalogNext]_catalogVars /\ [LogNext]_logVars
         /\ [WindowNext]_windowVars /\ [LabNext]_labVars
<1>1. CASE UNCHANGED <<part, PartVars>>
  BY <1>1 DEF PartVars
<1>2. ASSUME DirectoryNext, UNCHANGED <<part, catalogVars, logVars, windowVars, labVars>>
      PROVE  /\ [DirectoryNext]_directoryVars /\ [CatalogNext]_catalogVars /\ [LogNext]_logVars
             /\ [WindowNext]_windowVars /\ [LabNext]_labVars
  BY <1>2
<1>3. ASSUME CatalogNext, UNCHANGED <<part, directoryVars, logVars, windowVars, labVars>>
      PROVE  /\ [DirectoryNext]_directoryVars /\ [CatalogNext]_catalogVars /\ [LogNext]_logVars
             /\ [WindowNext]_windowVars /\ [LabNext]_labVars
  BY <1>3
<1>4. ASSUME LogNext, UNCHANGED <<part, directoryVars, catalogVars, windowVars, labVars>>
      PROVE  /\ [DirectoryNext]_directoryVars /\ [CatalogNext]_catalogVars /\ [LogNext]_logVars
             /\ [WindowNext]_windowVars /\ [LabNext]_labVars
  BY <1>4
<1>5. ASSUME WindowNext, UNCHANGED <<part, directoryVars, catalogVars, logVars, labVars>>
      PROVE  /\ [DirectoryNext]_directoryVars /\ [CatalogNext]_catalogVars /\ [LogNext]_logVars
             /\ [WindowNext]_windowVars /\ [LabNext]_labVars
  BY <1>5
<1>6. ASSUME LabNext, UNCHANGED <<part, directoryVars, catalogVars, logVars, windowVars>>
      PROVE  /\ [DirectoryNext]_directoryVars /\ [CatalogNext]_catalogVars /\ [LogNext]_logVars
             /\ [WindowNext]_windowVars /\ [LabNext]_labVars
  BY <1>6
<1>. QED  BY <1>1, <1>2, <1>3, <1>4, <1>5, <1>6 DEF PartNext

\* What is proved of the parts holds of the composition that is checked.
THEOREM PartsKept ==
  PartSpec => [](/\ DirectoryInv /\ DirectoryOfReport /\ CatalogAnswers
                 /\ LogInv /\ WindowComesBack /\ LabInv)
<1>1. PartInit => DirectoryInit /\ CatalogInit /\ LogInit /\ WindowInit /\ LabInit
  BY DEF PartInit
<1>2. [PartNext]_<<part, PartVars>> =>
        /\ [DirectoryNext]_directoryVars /\ [CatalogNext]_catalogVars /\ [LogNext]_logVars
        /\ [WindowNext]_windowVars /\ [LabNext]_labVars
  BY PartStep
<1>. QED  BY <1>1, <1>2, DirectoryInvariant, DirectoryFollowsReport, CatalogAnswersClosest,
             LogMirrored, WindowRestored, LabKeepsSession, PTL
          DEF PartSpec, DirectorySpec, CatalogSpec, LogSpec, WindowSpec, LabSpec

=============================================================================
