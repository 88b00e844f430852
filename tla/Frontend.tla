------------------------------ MODULE Frontend ------------------------------
(***************************************************************************)
(* The IDA front end (frontend/core.py, plugin.py and the widgets): which  *)
(* windows are open, which time they show, and the two bars of the         *)
(* timeline.  Every action is a handler that the one thread of Qt runs to  *)
(* its end; painting is an event of its own, later.                        *)
(*                                                                         *)
(* Qt and IDA are modelled from how the plugin uses them: Close destroys   *)
(* the widget of a dockable window without calling the close() its class   *)
(* overrides, so that nothing is ever taken out of _time_observers; the    *)
(* timeline, a tool bar, is hidden and lives on.                           *)
(***************************************************************************)
EXTENDS Integers, FiniteSets, FiniteSetsExt, Functions

CONSTANTS Traces,      \* bound: the time_bbox of the traces, <<first, last>>
          MaxOpens,    \* bound: traces that are opened
          Height,      \* of a bar of the timeline, in pixels
          Mouse,       \* bound: where the mouse may be, above and below the bar included
          TimeBound,   \* bound: how far past the trace a selection may reach
          None

ASSUME FrontendAssumption ==
  /\ Height \in Nat \ {0} /\ Mouse \subseteq Int
  /\ MaxOpens \in Nat /\ TimeBound \in Nat
  /\ \A t \in Traces : t \in Nat \X Nat /\ t[1] <= t[2]

\* An absent value is neither a selection nor an open trace.
ASSUME NoneAssumption ==
  None \notin (Int \X Int) \cup [opened : Nat, bbox : Traces, time : Nat]

VARIABLES db,         \* the open trace and its current time, or None
          opens,      \* traces opened so far
          listed,     \* the lists of windows the decompiler closes
          destroyed,  \* windows whose Qt widget is gone
          observers,  \* _time_observers
          seen,       \* window on the screen -> the time of what it shows, or None
          line,       \* the line of the registers on the screen, which has the time, or None
          pending,    \* windows on the screen that Qt is to paint
          bars,       \* the timeline on the screen: its selections and the local bar
          drag        \* the drag of the mouse over a bar, or None

vars == <<db, opens, listed, destroyed, observers, seen, line, pending, bars, drag>>

Dockable == {"registers", "memory", "results"}
Followers == {"timeline", "registers", "memory"}
Window == [kind : Dockable \cup Followers, opened : 1..MaxOpens]

\* The times asked for, from before the start of a trace to after its end.
Times == 0..(Max({t[2] : t \in Traces}) + 1)

\* TimelineBar.__init__ and setup_user_interface.
NewBars == [global |-> None, local |-> None, bounds |-> <<0, 0>>, local_shown |-> FALSE]

Init ==
  /\ db = None /\ opens = 0
  /\ listed = {} /\ destroyed = {} /\ observers = {}
  /\ seen = <<>> /\ line = None /\ pending = {}
  /\ bars = NewBars /\ drag = None

shown == DOMAIN seen

-----------------------------------------------------------------------------
(* Opening and closing *)

\* What close_all_windows hides: all it has in its lists, where a window stays
\* that the user has closed.
ToClose == listed

\* close_all_windows, and what opens next.
Replace(closed, opened) ==
  /\ listed' = IF closed = {} THEN listed \cup opened ELSE opened
  /\ destroyed' = destroyed \cup {w \in closed : w.kind \in Dockable}
  /\ pending' = {w \in opened : w.kind # "registers"}
  /\ seen' = [w \in (shown \ closed) \cup opened |->
                CASE w \in shown \ closed    -> seen[w]
                  [] w.kind = "registers"    -> db'.time
                  [] OTHER                   -> None]
  /\ line' = IF opened = {} THEN None ELSE db'.time
  /\ bars' = NewBars /\ drag' = None

\* open_db calls close_db when has_db.
Closing == IF db # None THEN ToClose ELSE {}

\* close_db, from the context menu of the timeline.
CloseDb ==
  /\ \E w \in shown : w.kind = "timeline"
  /\ db' = None
  /\ Replace(ToClose, {})
  /\ UNCHANGED <<opens, observers>>

\* open_db of a file that is no database, or has no pc register.
OpenFails ==
  /\ db' = None
  /\ Replace(Closing, {})
  /\ UNCHANGED <<opens, observers>>

\* open_db: three windows come up at the start of the trace.  The registers
\* are written at once, the others when they are painted.
OpenDb(trace) ==
  LET windows == [kind : Followers, opened : {opens + 1}]
  IN  /\ opens < MaxOpens /\ opens' = opens + 1
      /\ db' = [opened |-> opens + 1, bbox |-> trace, time |-> trace[1]]
      /\ Replace(Closing, windows)
      /\ observers' = observers \cup windows

\* The user closes a window; nobody is told.
UserCloses(w) ==
  /\ w \in shown /\ w.kind \in Dockable
  /\ seen' = Restrict(seen, shown \ {w})
  /\ line' = IF w.kind = "registers" THEN None ELSE line
  /\ destroyed' = destroyed \cup {w}
  /\ pending' = pending \ {w}
  /\ UNCHANGED <<db, opens, listed, observers, bars, drag>>

\* search, from the dialog of the memory window.  Bound: one window of
\* results for each trace.
Search ==
  LET w == [kind |-> "results", opened |-> db.opened]
  IN  /\ db # None
      /\ [kind |-> "memory", opened |-> db.opened] \in shown
      /\ w \notin listed
      /\ listed' = listed \cup {w}
      /\ seen' = [v \in shown \cup {w} |-> IF v = w THEN None ELSE seen[v]]
      /\ UNCHANGED <<db, opens, destroyed, observers, line, pending, bars, drag>>

-----------------------------------------------------------------------------
(* The current time *)

\* A mutated ClampTime without its lower bound.
ClampAbove(time) == Min({db.bbox[2], time})

ClampTime(time) == Min({db.bbox[2], Max({time, db.bbox[1]})})

\* A mutated Notified that ends at the first observer that raises; the set
\* may yield that one first.
NotifiedUntilOneFails == IF observers \cap destroyed # {} THEN {} ELSE observers

\* The observers whose on_time_update returns.  A destroyed widget raises,
\* which set_time catches for each of them.
Notified == observers \ destroyed

\* set_time, with some text in the line of the registers: the registers and
\* their line are written at once, the others ask to be painted, which a
\* hidden widget never is.  Nobody hears of a time that is clamped to the
\* current one, and the line keeps its text.
SetTime(new_time, text) ==
  LET time == ClampTime(new_time)
      written == {w \in Notified : w.kind = "registers"}
  IN  \/ /\ time = db.time
         /\ line' = text
         /\ UNCHANGED <<db, seen, pending>>
      \/ /\ time # db.time
         /\ db' = [db EXCEPT !.time = time]
         /\ seen' = [w \in shown |-> IF w \in written THEN time ELSE seen[w]]
         /\ line' = IF written = {} THEN text ELSE time
         /\ pending' = pending \cup ((Notified \ written) \cap shown)

\* The jumps of the registers, the memory, the results and the disassembly,
\* and the wheel over the timeline.
Jump(time) ==
  /\ db # None
  /\ SetTime(time, line)
  /\ UNCHANGED <<opens, listed, destroyed, observers, bars, drag>>

\* on_time_edit: the user has typed something into the line and presses Enter;
\* None is no number, for which the line is written again and the handler
\* raises before it gets to set_time.  What is typed before Enter is the
\* user's and in no state.
EditTime(text) ==
  /\ \E w \in shown : w.kind = "registers"
  /\ \/ /\ text = None
        /\ line' = db.time
        /\ UNCHANGED <<db, seen, pending>>
     \/ /\ text # None
        /\ SetTime(text, text)
  /\ UNCHANGED <<opens, listed, destroyed, observers, bars, drag>>

\* paintEvent.  The global bar divides by the length of the trace: with one
\* instant it raises before it has drawn the time.
Paint(w) ==
  /\ w \in pending \cap shown
  /\ pending' = pending \ {w}
  /\ seen' = IF db = None \/ (w.kind = "timeline" /\ db.bbox[1] = db.bbox[2])
             THEN seen ELSE [seen EXCEPT ![w] = db.time]
  /\ UNCHANGED <<db, opens, listed, destroyed, observers, line, bars, drag>>

-----------------------------------------------------------------------------
(* The bars of the timeline *)

\* int() of the quotient of two integers.
Truncated(a, b) == IF a >= 0 THEN a \div b ELSE -((-a) \div b)

Bounds(bar) == IF bar = "local" THEN bars.bounds ELSE db.bbox

\* _y_to_time, which is not clamped.
TimeAt(bar, y) ==
  LET b == Bounds(bar)
  IN  b[1] + Truncated(y * (b[2] - b[1]), Height)

\* mousePressEvent.
Press(bar, y) ==
  /\ drag = None
  /\ \E w \in shown : w.kind = "timeline"
  /\ bar = "local" => bars.local_shown
  /\ drag' = [bar |-> bar, start_time |-> TimeAt(bar, y), current_time |-> TimeAt(bar, y),
              is_dragging |-> FALSE]
  /\ UNCHANGED <<db, opens, listed, destroyed, observers, seen, line, pending, bars>>

\* mouseMoveEvent; the bar has the mouse, and it may leave the bar.
Move(y) ==
  /\ drag # None
  /\ drag' = [drag EXCEPT !.is_dragging = TRUE, !.current_time = TimeAt(drag.bar, y)]
  /\ UNCHANGED <<db, opens, listed, destroyed, observers, seen, line, pending, bars>>

HideLocalBar == [bars EXCEPT !.global = None, !.local_shown = FALSE]

\* on_local_selection; the bar's own selection has been set, or ended, before.
OnLocalSelection(selection) ==
  IF selection = None THEN [HideLocalBar EXCEPT !.local = None]
  ELSE [bars EXCEPT !.bounds = selection, !.local = None, !.global = selection]

\* on_global_selection; the bar has set its own selection before.
OnGlobalSelection(selection) ==
  IF selection = None THEN HideLocalBar
  ELSE [bars EXCEPT !.bounds = selection, !.local = None, !.local_shown = TRUE,
                    !.global = selection]

OnSelection(bar, selection) ==
  bars' = IF bar = "local" THEN OnLocalSelection(selection) ELSE OnGlobalSelection(selection)

Within(time, range) == range # None /\ range[1] <= time /\ time <= range[2]

\* mouseReleaseEvent.  A click sets the time, and ends a selection it falls
\* into; a drag selects.
Release ==
  /\ drag # None /\ drag' = None
  /\ LET click == ~drag.is_dragging \/ drag.start_time = drag.current_time
         low  == Min({drag.start_time, drag.current_time})
         high == Max({drag.start_time, drag.current_time})
     IN  \/ /\ click
            /\ SetTime(drag.start_time, line)
            /\ IF Within(drag.start_time, bars[drag.bar]) THEN OnSelection(drag.bar, None)
                                                          ELSE UNCHANGED bars
         \/ /\ ~click
            /\ -TimeBound <= low /\ high <= db.bbox[2] + TimeBound
            /\ OnSelection(drag.bar, <<low, high>>)
            /\ UNCHANGED <<db, seen, line, pending>>
  /\ UNCHANGED <<opens, listed, destroyed, observers>>

-----------------------------------------------------------------------------

Next ==
  \/ CloseDb \/ OpenFails \/ Search \/ Release
  \/ \E trace \in Traces : OpenDb(trace)
  \/ \E w \in shown : UserCloses(w) \/ Paint(w)
  \/ \E time \in Times : Jump(time)
  \/ \E text \in Times \cup {None} : EditTime(text)
  \/ \E bar \in {"local", "global"}, y \in Mouse \cap 0..(Height - 1) : Press(bar, y)
  \/ \E y \in Mouse : Move(y)

Spec == Init /\ [][Next]_vars

-----------------------------------------------------------------------------
(* Properties *)

\* Types: the current time is a time of the open trace (core.Db), and only
\* windows on the screen are painted.
TypeOK ==
  /\ \/ db = None
     \/ /\ db.opened = opens /\ db.bbox \in Traces
        /\ db.time \in db.bbox[1]..db.bbox[2]
  /\ opens \in 0..MaxOpens
  /\ shown \subseteq Window /\ listed \subseteq Window /\ destroyed \subseteq Window
  /\ observers \subseteq {w \in Window : w.kind \in Followers}
  /\ pending \subseteq shown
  /\ \A w \in shown : seen[w] \in Nat \cup {None}
  /\ line \in Int \cup {None}
  /\ bars.bounds \in Int \X Int
  /\ drag # None => drag.bar \in {"local", "global"}

\* Every window on the screen is of the open trace: what it reads through Ctx
\* is there, and a result never sets the time of another trace.
WindowsAreOfTheTrace == \A w \in shown : db # None /\ w.opened = db.opened

\* ... is one the next close_all_windows closes ...
WindowsWillClose == \A w \in shown : w \in listed

\* ... and shows the current time or is about to, whatever else was opened and
\* closed before.  A trace of one instant has no timeline.
WindowsFollowTheTime ==
  \A w \in shown :
    \/ w.kind \notin Followers
    \/ seen[w] = db.time
    \/ w \in pending
    \/ w.kind = "timeline" /\ db.bbox[1] = db.bbox[2]

\* The line of the registers has the current time, unless the current time is
\* the first or the last of the trace and the user has typed one beyond it:
\* set_time returns before it has told anyone, and what was typed stays, until
\* the time changes.  No other time is ever left in the line.
LineFollowsTheTime ==
  \A w \in shown : w.kind = "registers" => ClampTime(line) = db.time

\* The local bar is there just while the global one has a selection, and has
\* its bounds; its own selection never outlives the release of the mouse.
BarsAgree ==
  /\ bars.local_shown <=> bars.global # None
  /\ bars.local_shown => bars.bounds = bars.global /\ bars.global[1] < bars.global[2]
  /\ bars.local = None

\* What is on the screen is current, but for a time typed beyond the end of the
\* trace that the current time is at (Ctx.open_db, close_db, set_time,
\* RegistersWidget.on_time_edit and the two bars of the timeline).
WhatIsShownIsCurrent ==
  /\ WindowsAreOfTheTrace /\ WindowsWillClose
  /\ WindowsFollowTheTime /\ LineFollowsTheTime
  /\ BarsAgree
=============================================================================
