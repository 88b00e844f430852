--------------------------- MODULE FrontendProofs ---------------------------
(***************************************************************************)
(* Whatever traces are opened and closed, whatever times are asked for or  *)
(* typed, and however the mouse is moved: the windows on the screen are of *)
(* the open trace and follow its time, the line of the registers has it or *)
(* one beyond the end it is at, and the two bars of the timeline agree.    *)
(*                                                                         *)
(* The windows follow the time because set_time reaches every one of them: *)
(* each is an observer whose widget is alive.  That is no part of          *)
(* WhatIsShownIsCurrent, and needs the history of the windows: a destroyed *)
(* one stays an observer, and is of this trace or an earlier one, so that  *)
(* none of the windows a new trace brings up is already destroyed.  The    *)
(* bars agree because a drag over the local bar keeps that bar on the      *)
(* screen until the mouse is released.                                     *)
(***************************************************************************)
EXTENDS Frontend, TLAPS

Database == [opened : Nat, bbox : Traces, time : Nat]

Drag == [bar : {"local", "global"}, start_time : Int, current_time : Int, is_dragging : BOOLEAN]

Bars == [global : {None} \cup (Int \X Int), local : {None}, bounds : Int \X Int,
         local_shown : BOOLEAN]

\* The current time is a time of the open trace.
DbInv ==
  /\ opens \in 0..MaxOpens
  /\ db # None => /\ db \in Database /\ db.opened = opens
                  /\ db.time \in db.bbox[1]..db.bbox[2]

\* A window on the screen is of the open trace, will be closed with it, and
\* hears of every change of the time.
WindowsInv ==
  /\ seen \in [shown -> Nat \cup {None}]
  /\ shown \subseteq Window /\ listed \subseteq Window /\ destroyed \subseteq Window
  /\ observers \subseteq {w \in Window : w.kind \in Followers}
  /\ pending \subseteq shown /\ line \in Int \cup {None}
  /\ \A w \in listed \cup destroyed : w.opened <= opens
  /\ \A w \in shown : w.kind \in Followers => w \in Notified
  /\ WindowsAreOfTheTrace /\ WindowsWillClose /\ WindowsFollowTheTime /\ LineFollowsTheTime

\* A drag is over a bar that is on the screen.
BarsInv ==
  /\ bars \in Bars /\ BarsAgree
  /\ drag # None => /\ drag \in Drag /\ db # None
                    /\ drag.bar = "local" => bars.local_shown

\* The inductive invariant: the database, the windows, and the bars.
IInv == DbInv /\ WindowsInv /\ BarsInv

-----------------------------------------------------------------------------
(* Operators *)

\* min and max of two numbers.
LEMMA MinMaxOfTwo ==
  ASSUME NEW a \in Int, NEW b \in Int
  PROVE  /\ Min({a, b}) = IF a <= b THEN a ELSE b
         /\ Max({a, b}) = IF a <= b THEN b ELSE a
<1>1. ASSUME NEW x \in {a, b}, \A y \in {a, b} : x <= y
      PROVE  x = IF a <= b THEN a ELSE b
  BY <1>1
<1>2. ASSUME NEW x \in {a, b}, \A y \in {a, b} : x >= y
      PROVE  x = IF a <= b THEN b ELSE a
  BY <1>2
<1>3. /\ \E x \in {a, b} : \A y \in {a, b} : x <= y
      /\ \E x \in {a, b} : \A y \in {a, b} : x >= y
  <2>1. CASE a <= b
    BY <2>1
  <2>2. CASE b <= a
    BY <2>2
  <2>. QED  BY <2>1, <2>2
<1>4. Min({a, b}) \in {a, b} /\ \A y \in {a, b} : Min({a, b}) <= y
  BY <1>3 DEF Min
<1>5. Max({a, b}) \in {a, b} /\ \A y \in {a, b} : Max({a, b}) >= y
  BY <1>3 DEF Max
<1>6. Min({a, b}) = IF a <= b THEN a ELSE b
  BY <1>1, <1>4
<1>7. Max({a, b}) = IF a <= b THEN b ELSE a
  BY <1>2, <1>5
<1>. QED  BY <1>6, <1>7

\* A clamped time is a time of the trace, whatever is asked for.
LEMMA ClampedIsInTheTrace ==
  ASSUME DbInv, db # None, NEW time \in Int
  PROVE  ClampTime(time) \in db.bbox[1]..db.bbox[2] /\ ClampTime(time) \in Nat
<1> DEFINE first == db.bbox[1]
           last == db.bbox[2]
           m == Max({time, first})
<1>1. first \in Nat /\ last \in Nat /\ first <= last
  BY FrontendAssumption DEF DbInv, Database
<1>2. ClampTime(time) = Min({last, m})
  BY DEF ClampTime
<1> HIDE DEF first, last
<1>3. m = IF time <= first THEN first ELSE time
  BY <1>1, MinMaxOfTwo
<1> HIDE DEF m
<1>4. m \in Int /\ m >= first
  BY <1>1, <1>3
<1>5. Min({last, m}) = IF last <= m THEN last ELSE m
  BY <1>1, <1>4, MinMaxOfTwo
<1>6. Min({last, m}) \in first..last /\ Min({last, m}) \in Nat
  BY <1>1, <1>4, <1>5
<1>. QED  BY <1>2, <1>6 DEF first, last

\* A number between two bounds is not clamped to them.
LEMMA BetweenBoundsStays ==
  ASSUME NEW first \in Nat, NEW last \in Nat, NEW time \in first..last
  PROVE  Min({last, Max({time, first})}) = time
<1> DEFINE m == Max({time, first})
<1>1. m = time
  BY MinMaxOfTwo
<1> HIDE DEF m
<1>2. Min({last, m}) = time
  BY <1>1, MinMaxOfTwo
<1>. QED  BY <1>2 DEF m

\* A time of the trace is not clamped.
LEMMA TimesOfTheTraceStay ==
  ASSUME DbInv, db # None, NEW time \in db.bbox[1]..db.bbox[2]
  PROVE  ClampTime(time) = time
<1>1. db.bbox[1] \in Nat /\ db.bbox[2] \in Nat
  BY FrontendAssumption DEF DbInv, Database
<1>. QED  BY <1>1, BetweenBoundsStays DEF ClampTime

\* A place on a bar is some time, not always one of the trace.
LEMMA PlacesAreTimes ==
  ASSUME DbInv, BarsInv, db # None, NEW bar \in {"local", "global"}, NEW y \in Mouse
  PROVE  TimeAt(bar, y) \in Int
<1>1. db.bbox[1] \in Int /\ db.bbox[2] \in Int
  BY FrontendAssumption DEF DbInv, Database
<1>2. bars.bounds[1] \in Int /\ bars.bounds[2] \in Int
  BY DEF BarsInv, Bars
<1> DEFINE b == Bounds(bar)
<1>3. b[1] \in Int /\ b[2] \in Int
  BY <1>1, <1>2 DEF Bounds
<1> HIDE DEF b
<1>4. Height \in Nat \ {0} /\ y \in Int
  BY FrontendAssumption
<1>5. \A a \in Int : Truncated(a, Height) \in Int
  BY <1>4 DEF Truncated
<1>6. y * (b[2] - b[1]) \in Int
  BY <1>3, <1>4
<1>. QED  BY <1>3, <1>5, <1>6 DEF TimeAt, b

-----------------------------------------------------------------------------
(* The steps *)

\* Nothing is open at first.
LEMMA FrontendInitInv == Init => IInv
<1> SUFFICES ASSUME Init PROVE IInv
  OBVIOUS
<1>1. /\ db = None /\ opens = 0 /\ listed = {} /\ destroyed = {} /\ observers = {}
      /\ seen = <<>> /\ line = None /\ pending = {} /\ bars = NewBars /\ drag = None
      /\ shown = {}
  BY DEF Init, shown
<1>2. DbInv
  BY <1>1, FrontendAssumption DEF DbInv
<1>3. WindowsInv
  <2>1. seen \in [shown -> Nat \cup {None}]
    BY <1>1
  <2>. QED  BY <1>1, <2>1 DEF WindowsInv, WindowsAreOfTheTrace, WindowsWillClose,
                              WindowsFollowTheTime, LineFollowsTheTime
<1>4. BarsInv
  BY <1>1 DEF BarsInv, Bars, NewBars, BarsAgree
<1>. QED  BY <1>2, <1>3, <1>4 DEF IInv

\* A step that changes nothing about the windows keeps what holds of them.
LEMMA WindowsStay ==
  ASSUME WindowsInv,
         UNCHANGED <<db, opens, listed, destroyed, observers, seen, line, pending>>
  PROVE  WindowsInv'
BY DEF WindowsInv, WindowsAreOfTheTrace, WindowsWillClose, WindowsFollowTheTime,
       LineFollowsTheTime, ClampTime, shown, Notified

\* set_time reaches every window that shows the time, and the line has a time
\* that is clamped to the current one: the one it had, one that was just typed,
\* or the current time.
LEMMA SetTimeKeeps ==
  ASSUME DbInv, WindowsInv, db # None, NEW time \in Int, NEW text \in Int \cup {None},
         SetTime(time, text), UNCHANGED <<opens, listed, destroyed, observers>>,
         text = line \/ text = time
  PROVE  DbInv' /\ WindowsInv' /\ db' # None
<1> DEFINE now == ClampTime(time)
           written == {w \in Notified : w.kind = "registers"}
<1>1. now \in db.bbox[1]..db.bbox[2] /\ now \in Nat
  BY ClampedIsInTheTrace
<1>2. ClampTime(now) = now
  BY <1>1, TimesOfTheTraceStay
<1>3. CASE now = db.time /\ line' = text /\ UNCHANGED <<db, seen, pending>>
  <2>1. \A w \in shown : w.kind = "registers" => ClampTime(text) = db.time
    BY <1>3 DEF WindowsInv, LineFollowsTheTime
  <2>2. LineFollowsTheTime'
    BY <1>3, <2>1 DEF LineFollowsTheTime, ClampTime, shown
  <2>3. /\ WindowsAreOfTheTrace' /\ WindowsWillClose' /\ WindowsFollowTheTime'
        /\ line' \in Int \cup {None}
    BY <1>3 DEF WindowsInv, WindowsAreOfTheTrace, WindowsWillClose, WindowsFollowTheTime, shown
  <2>. QED  BY <1>3, <2>2, <2>3 DEF DbInv, WindowsInv, shown, Notified
<1> HIDE DEF now
<1>4. CASE /\ db' = [db EXCEPT !.time = now]
           /\ seen' = [w \in shown |-> IF w \in written THEN now ELSE seen[w]]
           /\ line' = IF written = {} THEN text ELSE now
           /\ pending' = pending \cup ((Notified \ written) \cap shown)
  <2>1. db \in Database /\ db.opened = opens
    BY DEF DbInv
  <2>2. /\ db' \in Database /\ db'.opened = db.opened /\ db'.bbox = db.bbox /\ db'.time = now
    BY <1>1, <1>4, <2>1 DEF Database
  <2>3. db' # None
    BY <2>2, FrontendAssumption, NoneAssumption DEF Database
  <2>4. DbInv'
    BY <1>1, <2>1, <2>2 DEF DbInv
  <2>5. shown' = shown /\ \A w \in shown : seen'[w] = IF w \in written THEN now ELSE seen[w]
    BY <1>4 DEF shown
  <2>6. seen' \in [shown' -> Nat \cup {None}]
    BY <1>1, <1>4, <2>5 DEF WindowsInv
  <2>7. \A w \in shown : w.kind \in Followers => w \in written \/ w \in pending'
    BY <1>4 DEF WindowsInv
  <2>8. WindowsFollowTheTime'
    BY <2>2, <2>5, <2>7 DEF WindowsFollowTheTime
  <2>9. WindowsAreOfTheTrace' /\ WindowsWillClose'
    BY <2>2, <2>3, <2>5 DEF WindowsInv, WindowsAreOfTheTrace, WindowsWillClose
  <2>10. pending' \subseteq shown'
    BY <1>4, <2>5 DEF WindowsInv
  <2>11. LineFollowsTheTime' /\ line' \in Int \cup {None}
    <3>1. \A w \in shown : w.kind = "registers" => written # {}
      BY DEF WindowsInv, Followers
    <3>2. written # {} => ClampTime(line)' = now
      BY <1>2, <1>4, <2>2 DEF ClampTime
    <3>3. line' \in Int \cup {None}
      BY <1>1, <1>4
    <3>. QED  BY <2>2, <2>5, <3>1, <3>2, <3>3 DEF LineFollowsTheTime
  <2>12. WindowsInv'
    BY <2>5, <2>6, <2>8, <2>9, <2>10, <2>11 DEF WindowsInv, Notified
  <2>. QED  BY <2>3, <2>4, <2>12
<1>. QED  BY <1>3, <1>4 DEF SetTime, now

\* When a trace closes all its windows go, and those of the next trace are
\* none that was ever destroyed.
LEMMA ReplaceKeeps ==
  ASSUME IInv, NEW closed \in SUBSET listed, shown \subseteq closed, NEW opened,
         Replace(closed, opened), DbInv',
         \/ opened = {} /\ UNCHANGED <<opens, observers>>
         \/ /\ opened = [kind : Followers, opened : {opens + 1}]
            /\ opens' = opens + 1 /\ observers' = observers \cup opened /\ db' # None
  PROVE  IInv'
<1>1. /\ listed' = IF closed = {} THEN listed \cup opened ELSE opened
      /\ destroyed' = destroyed \cup {w \in closed : w.kind \in Dockable}
      /\ pending' = {w \in opened : w.kind # "registers"}
      /\ line' = IF opened = {} THEN None ELSE db'.time
      /\ bars' = NewBars /\ drag' = None
  BY DEF Replace
<1>2. /\ shown' = opened
      /\ \A w \in opened : seen'[w] = IF w.kind = "registers" THEN db'.time ELSE None
      /\ seen' = [w \in opened |-> seen'[w]]
  <2>1. shown \ closed = {}
    OBVIOUS
  <2>2. seen' = [w \in opened |-> CASE w \in shown \ closed -> seen[w]
                                    [] w.kind = "registers" -> db'.time
                                    [] OTHER                -> None]
    BY <2>1 DEF Replace
  <2>3. DOMAIN seen' = opened
    BY <2>2
  <2>4. \A w \in opened : seen'[w] = IF w.kind = "registers" THEN db'.time ELSE None
    BY <2>1, <2>2
  <2>5. seen' = [w \in opened |-> seen'[w]]
    BY <2>2
  <2>. QED  BY <2>3, <2>4, <2>5 DEF shown
<1>4. /\ opens' \in Nat /\ opens \in Nat /\ opens <= opens' /\ opens' \in 0..MaxOpens
  BY FrontendAssumption DEF IInv, DbInv
<1>5. /\ opened \subseteq Window
      /\ \A w \in opened : /\ w.kind \in Followers /\ w.opened = opens' /\ opens' = opens + 1
                           /\ db' # None /\ w \in observers'
  <2>1. CASE opened = {}
    BY <2>1
  <2>2. CASE /\ opened = [kind : Followers, opened : {opens + 1}]
             /\ opens' = opens + 1 /\ observers' = observers \cup opened /\ db' # None
    <3>1. opens + 1 \in 1..MaxOpens
      BY <1>4, <2>2
    <3>2. \A w \in opened : w \in Window /\ w.kind \in Followers /\ w.opened = opens + 1
      BY <2>2, <3>1 DEF Window
    <3>. QED  BY <2>2, <3>2
  <2>. QED  BY <2>1, <2>2
<1>6. /\ listed' \subseteq Window /\ destroyed' \subseteq Window
      /\ \A w \in listed' \cup destroyed' : w.opened <= opens'
  <2>1. /\ listed \subseteq Window /\ destroyed \subseteq Window
        /\ \A w \in listed \cup destroyed : w.opened <= opens
    BY DEF IInv, WindowsInv
  <2>2. \A w \in Window : w.opened \in Nat
    BY FrontendAssumption DEF Window
  <2>3. listed' \subseteq listed \cup opened /\ destroyed' \subseteq listed \cup destroyed
    BY <1>1
  <2>4. \A w \in listed' \cup destroyed' : w \in Window /\ w.opened <= opens'
    BY <1>4, <1>5, <2>1, <2>2, <2>3
  <2>. QED  BY <2>4
<1>7. \A w \in opened : w \in Notified'
  <2>1. \A w \in destroyed' : w.opened <= opens
    BY <1>1 DEF IInv, WindowsInv
  <2>2. \A w \in opened : w \notin destroyed'
    BY <1>4, <1>5, <2>1
  <2>. QED  BY <1>5, <2>2 DEF Notified
<1>8. \A w \in opened : db'.opened = opens' /\ db'.time \in Nat
  BY <1>5 DEF DbInv, Database
<1>9. observers' \subseteq {w \in Window : w.kind \in Followers}
  BY <1>5 DEF IInv, WindowsInv
<1>10. seen' \in [shown' -> Nat \cup {None}]
  BY <1>2, <1>8
<1>11. WindowsAreOfTheTrace' /\ WindowsWillClose' /\ WindowsFollowTheTime'
  <2>1. opened \subseteq listed'
    BY <1>1
  <2>. QED  BY <1>1, <1>2, <1>5, <1>8, <2>1
            DEF WindowsAreOfTheTrace, WindowsWillClose, WindowsFollowTheTime
<1>12. pending' \subseteq shown'
  BY <1>1, <1>2
<1>13. LineFollowsTheTime' /\ line' \in Int \cup {None}
  <2>1. CASE opened = {}
    BY <1>1, <1>2, <2>1 DEF LineFollowsTheTime
  <2>2. CASE opened # {}
    <3>1. db' # None /\ db'.time \in Int /\ line' = db'.time
      BY <1>1, <1>5, <1>8, <2>2
    <3>2. /\ db'.bbox[1] \in Nat /\ db'.bbox[2] \in Nat
          /\ db'.time \in db'.bbox[1]..db'.bbox[2]
      BY <3>1, FrontendAssumption DEF DbInv, Database
    <3>3. ClampTime(line)' = db'.time
      BY <3>1, <3>2, BetweenBoundsStays DEF ClampTime
    <3>. QED  BY <3>1, <3>3 DEF LineFollowsTheTime
  <2>. QED  BY <2>1, <2>2
<1>14. WindowsInv'
  BY <1>2, <1>6, <1>7, <1>9, <1>10, <1>11, <1>12, <1>13 DEF WindowsInv
<1>15. BarsInv'
  BY <1>1 DEF BarsInv, Bars, NewBars, BarsAgree
<1>. QED  BY <1>14, <1>15 DEF IInv

\* Opening and closing traces.
LEMMA OpenCloseKeeps ==
  ASSUME IInv, CloseDb \/ OpenFails \/ \E trace \in Traces : OpenDb(trace)
  PROVE  IInv'
<1>1. shown \subseteq listed /\ (db = None => shown = {})
  BY DEF IInv, WindowsInv, WindowsAreOfTheTrace, WindowsWillClose
<1>2. /\ ToClose \in SUBSET listed /\ shown \subseteq ToClose
      /\ Closing \in SUBSET listed /\ shown \subseteq Closing
  BY <1>1 DEF ToClose, Closing
<1>3. opens \in 0..MaxOpens /\ opens \in Nat
  BY FrontendAssumption DEF IInv, DbInv
<1>4. CASE CloseDb
  <2>1. db' = None /\ Replace(ToClose, {}) /\ UNCHANGED <<opens, observers>>
    BY <1>4 DEF CloseDb
  <2>2. DbInv'
    BY <1>3, <2>1 DEF DbInv
  <2>. QED  BY <1>2, <2>1, <2>2, ReplaceKeeps
<1>5. CASE OpenFails
  <2>1. db' = None /\ Replace(Closing, {}) /\ UNCHANGED <<opens, observers>>
    BY <1>5 DEF OpenFails
  <2>2. DbInv'
    BY <1>3, <2>1 DEF DbInv
  <2>. QED  BY <1>2, <2>1, <2>2, ReplaceKeeps
<1>6. ASSUME NEW trace \in Traces, OpenDb(trace)
      PROVE  IInv'
  <2> DEFINE windows == [kind : Followers, opened : {opens + 1}]
  <2>1. /\ opens < MaxOpens /\ opens' = opens + 1
        /\ db' = [opened |-> opens + 1, bbox |-> trace, time |-> trace[1]]
        /\ Replace(Closing, windows) /\ observers' = observers \cup windows
    BY <1>6 DEF OpenDb
  <2> HIDE DEF windows
  <2>2. trace[1] \in Nat /\ trace[2] \in Nat /\ trace[1] <= trace[2]
    BY FrontendAssumption
  <2>3. db' \in Database
    BY <1>3, <2>1, <2>2 DEF Database
  <2>4. db' # None
    BY <2>3, NoneAssumption DEF Database
  <2>5. DbInv'
    BY <1>3, <2>1, <2>2, <2>3, FrontendAssumption DEF DbInv
  <2>. QED  BY <1>2, <2>1, <2>4, <2>5, ReplaceKeeps DEF windows
<1>. QED  BY <1>4, <1>5, <1>6

\* The user closes a window: the others still hear of the time.
LEMMA UserClosesKeeps ==
  ASSUME IInv, NEW w \in shown, UserCloses(w)
  PROVE  IInv'
<1>1. /\ seen' = [v \in shown \cap (shown \ {w}) |-> seen[v]]
      /\ destroyed' = destroyed \cup {w} /\ pending' = pending \ {w}
      /\ line' = IF w.kind = "registers" THEN None ELSE line
      /\ UNCHANGED <<db, opens, listed, observers, bars, drag>>
  BY DEF UserCloses, Restrict, shown
<1>2. shown' = shown \ {w} /\ \A v \in shown' : seen'[v] = seen[v]
  BY <1>1 DEF shown
<1>3. WindowsInv
  BY DEF IInv
<1>4. seen' \in [shown' -> Nat \cup {None}]
  BY <1>1, <1>2, <1>3 DEF WindowsInv
<1>5. w \in Window /\ w \in listed
  BY <1>3 DEF WindowsInv, WindowsWillClose
<1>6. /\ destroyed' \subseteq Window /\ \A v \in listed' \cup destroyed' : v.opened <= opens'
  BY <1>1, <1>3, <1>5 DEF WindowsInv
<1>7. \A v \in shown' : v.kind \in Followers => v \in Notified'
  BY <1>1, <1>2, <1>3 DEF WindowsInv, Notified
<1>8. WindowsAreOfTheTrace' /\ WindowsWillClose' /\ WindowsFollowTheTime'
  BY <1>1, <1>2, <1>3 DEF WindowsInv, WindowsAreOfTheTrace, WindowsWillClose, WindowsFollowTheTime
<1>9. shown' \subseteq Window /\ pending' \subseteq shown'
  BY <1>1, <1>2, <1>3 DEF WindowsInv
<1>10. LineFollowsTheTime' /\ line' \in Int \cup {None}
  <2>1. CASE w.kind # "registers"
    BY <1>1, <1>2, <1>3, <2>1 DEF WindowsInv, LineFollowsTheTime, ClampTime
  <2>2. CASE w.kind = "registers"
    <3>1. \A v \in shown : v.kind = "registers" => v = w
      BY <2>2, <1>3 DEF WindowsInv, WindowsAreOfTheTrace, Window
    <3>2. \A v \in shown' : v.kind # "registers"
      BY <1>2, <3>1
    <3>. QED  BY <1>1, <2>2, <3>2 DEF LineFollowsTheTime
  <2>. QED  BY <2>1, <2>2
<1>11. WindowsInv'
  BY <1>1, <1>3, <1>4, <1>6, <1>7, <1>8, <1>9, <1>10 DEF WindowsInv
<1>12. DbInv' /\ BarsInv'
  BY <1>1 DEF IInv, DbInv, BarsInv, BarsAgree
<1>. QED  BY <1>11, <1>12 DEF IInv

\* A window of results, which does not follow the time.
LEMMA SearchKeeps ==
  ASSUME IInv, Search
  PROVE  IInv'
<1> DEFINE w == [kind |-> "results", opened |-> db.opened]
<1>1. /\ db # None /\ listed' = listed \cup {w}
      /\ seen' = [v \in shown \cup {w} |-> IF v = w THEN None ELSE seen[v]]
      /\ UNCHANGED <<db, opens, destroyed, observers, line, pending, bars, drag>>
      /\ [kind |-> "memory", opened |-> db.opened] \in shown
  BY DEF Search
<1>2. shown' = shown \cup {w} /\ \A v \in shown' : seen'[v] = IF v = w THEN None ELSE seen[v]
  BY <1>1 DEF shown
<1>3. WindowsInv /\ db.opened = opens /\ opens \in Nat
  BY <1>1 DEF IInv, DbInv, Database
<1>4. w \in Window /\ w.kind \notin Followers /\ w.opened = opens
  <2>1. [kind |-> "memory", opened |-> db.opened] \in Window
    BY <1>1, <1>3 DEF WindowsInv
  <2>2. db.opened \in 1..MaxOpens
    BY <2>1 DEF Window
  <2>. QED  BY <1>3, <2>2 DEF Window, Dockable, Followers
<1> HIDE DEF w
<1>5. seen' \in [shown' -> Nat \cup {None}]
  BY <1>1, <1>2, <1>3 DEF WindowsInv
<1>6. listed' \subseteq Window /\ \A v \in listed' \cup destroyed' : v.opened <= opens'
  BY <1>1, <1>3, <1>4 DEF WindowsInv
<1>7. \A v \in shown' : v.kind \in Followers => v \in Notified' /\ v # w /\ v \in shown
  BY <1>1, <1>2, <1>3, <1>4 DEF WindowsInv, Notified
<1>8. WindowsAreOfTheTrace' /\ WindowsWillClose'
  BY <1>1, <1>2, <1>3, <1>4 DEF WindowsInv, WindowsAreOfTheTrace, WindowsWillClose
<1>9. WindowsFollowTheTime'
  BY <1>1, <1>2, <1>3, <1>7 DEF WindowsInv, WindowsFollowTheTime
<1>10. shown' \subseteq Window /\ pending' \subseteq shown'
  BY <1>1, <1>2, <1>3, <1>4 DEF WindowsInv
<1>11. LineFollowsTheTime' /\ line' \in Int \cup {None}
  <2>1. w.kind # "registers"
    BY <1>4 DEF Followers
  <2>. QED  BY <1>1, <1>2, <1>3, <2>1 DEF WindowsInv, LineFollowsTheTime, ClampTime
<1>12. WindowsInv'
  BY <1>1, <1>3, <1>5, <1>6, <1>7, <1>8, <1>9, <1>10, <1>11 DEF WindowsInv
<1>13. DbInv' /\ BarsInv'
  BY <1>1 DEF IInv, DbInv, BarsInv, BarsAgree
<1>. QED  BY <1>12, <1>13 DEF IInv

\* A window that has been painted shows the time, a timeline that cannot draw
\* it apart.
LEMMA PaintKeeps ==
  ASSUME IInv, NEW w \in shown, Paint(w)
  PROVE  IInv'
<1> DEFINE blank == db = None \/ (w.kind = "timeline" /\ db.bbox[1] = db.bbox[2])
<1>1. /\ pending' = pending \ {w}
      /\ seen' = IF blank THEN seen ELSE [seen EXCEPT ![w] = db.time]
      /\ UNCHANGED <<db, opens, listed, destroyed, observers, line, bars, drag>>
  BY DEF Paint
<1>2. WindowsInv
  BY DEF IInv
<1>3. db # None /\ db.time \in Nat
  BY DEF IInv, WindowsInv, WindowsAreOfTheTrace, DbInv, Database
<1>4. seen \in [shown -> Nat \cup {None}]
  BY <1>2 DEF WindowsInv
<1>5. /\ seen' \in [shown -> Nat \cup {None}]
      /\ \A v \in shown : seen'[v] = IF v = w /\ ~ blank THEN db.time ELSE seen[v]
  BY <1>1, <1>3, <1>4
<1>6. shown' = shown
  BY <1>5 DEF shown
<1>7. WindowsFollowTheTime'
  <2> SUFFICES ASSUME NEW v \in shown
               PROVE  \/ v.kind \notin Followers
                      \/ seen'[v] = db.time
                      \/ v \in pending'
                      \/ v.kind = "timeline" /\ db.bbox[1] = db.bbox[2]
    BY <1>1, <1>6 DEF WindowsFollowTheTime
  <2>1. CASE v = w
    BY <1>3, <1>5, <2>1
  <2>2. CASE v # w
    BY <1>1, <1>2, <1>5, <2>2 DEF WindowsInv, WindowsFollowTheTime
  <2>. QED  BY <2>1, <2>2
<1> HIDE DEF blank
<1>8. /\ shown' \subseteq Window /\ pending' \subseteq shown'
      /\ \A v \in shown' : v.kind \in Followers => v \in Notified'
  BY <1>1, <1>2, <1>6 DEF WindowsInv, Notified
<1>9. WindowsAreOfTheTrace' /\ WindowsWillClose'
  BY <1>1, <1>2, <1>6 DEF WindowsInv, WindowsAreOfTheTrace, WindowsWillClose
<1>10. LineFollowsTheTime' /\ line' \in Int \cup {None}
  BY <1>1, <1>2, <1>6 DEF WindowsInv, LineFollowsTheTime, ClampTime
<1>11. WindowsInv'
  BY <1>1, <1>2, <1>5, <1>6, <1>7, <1>8, <1>9, <1>10 DEF WindowsInv
<1>12. DbInv' /\ BarsInv'
  BY <1>1 DEF IInv, DbInv, BarsInv, BarsAgree
<1>. QED  BY <1>11, <1>12 DEF IInv

\* A jump to any time, one outside of the trace included.
LEMMA JumpKeeps ==
  ASSUME IInv, NEW time \in Int, Jump(time)
  PROVE  IInv'
<1>1. /\ db # None /\ SetTime(time, line)
      /\ UNCHANGED <<opens, listed, destroyed, observers, bars, drag>>
  BY DEF Jump
<1>2. line \in Int \cup {None}
  BY DEF IInv, WindowsInv
<1>3. DbInv' /\ WindowsInv' /\ db' # None
  BY <1>1, <1>2, SetTimeKeeps DEF IInv
<1>4. BarsInv'
  BY <1>1, <1>3 DEF IInv, BarsInv, BarsAgree
<1>. QED  BY <1>3, <1>4 DEF IInv

\* Enter in the line of the registers, after any time or no number.
LEMMA EditTimeKeeps ==
  ASSUME IInv, NEW text \in Int \cup {None}, EditTime(text)
  PROVE  IInv'
<1>1. db # None /\ DbInv /\ WindowsInv /\ BarsInv
  BY DEF EditTime, IInv, WindowsInv, WindowsAreOfTheTrace
<1>2. UNCHANGED <<opens, listed, destroyed, observers, bars, drag>>
  BY DEF EditTime
<1>3. CASE text # None /\ SetTime(text, text)
  <2>1. DbInv' /\ WindowsInv' /\ db' # None
    BY <1>1, <1>2, <1>3, SetTimeKeeps
  <2>2. BarsInv'
    BY <1>1, <1>2, <2>1 DEF BarsInv, BarsAgree
  <2>. QED  BY <2>1, <2>2 DEF IInv
<1>4. CASE line' = db.time /\ UNCHANGED <<db, seen, pending>>
  <2>1. db.time \in db.bbox[1]..db.bbox[2] /\ db.time \in Int
    BY <1>1 DEF DbInv, Database
  <2>2. ClampTime(db.time) = db.time
    BY <1>1, <2>1, TimesOfTheTraceStay
  <2>3. LineFollowsTheTime' /\ line' \in Int \cup {None}
    BY <1>4, <2>1, <2>2 DEF LineFollowsTheTime, ClampTime
  <2>4. WindowsAreOfTheTrace' /\ WindowsWillClose' /\ WindowsFollowTheTime'
    BY <1>1, <1>2, <1>4 DEF WindowsInv, WindowsAreOfTheTrace, WindowsWillClose,
                            WindowsFollowTheTime, shown
  <2>5. WindowsInv'
    BY <1>1, <1>2, <1>4, <2>3, <2>4 DEF WindowsInv, shown, Notified
  <2>6. DbInv' /\ BarsInv'
    BY <1>1, <1>2, <1>4 DEF DbInv, BarsInv, BarsAgree
  <2>. QED  BY <2>5, <2>6 DEF IInv
<1>. QED  BY <1>3, <1>4 DEF EditTime

\* The mouse goes down on a bar of a timeline on the screen, and moves.
LEMMA DragKeeps ==
  ASSUME IInv,
         \/ \E bar \in {"local", "global"}, y \in Mouse : Press(bar, y)
         \/ \E y \in Mouse : Move(y)
  PROVE  IInv'
<1>1. UNCHANGED <<db, opens, listed, destroyed, observers, seen, line, pending, bars>>
  BY DEF Press, Move
<1>2. DbInv' /\ WindowsInv'
  BY <1>1, WindowsStay DEF IInv, DbInv
<1>3. BarsInv
  BY DEF IInv
<1>4. ASSUME NEW bar \in {"local", "global"}, NEW y \in Mouse, Press(bar, y)
      PROVE  BarsInv'
  <2>1. db # None
    BY <1>4 DEF Press, IInv, WindowsInv, WindowsAreOfTheTrace
  <2>2. TimeAt(bar, y) \in Int
    BY <1>3, <2>1, PlacesAreTimes DEF IInv
  <2>3. /\ drag' = [bar |-> bar, start_time |-> TimeAt(bar, y), current_time |-> TimeAt(bar, y),
                    is_dragging |-> FALSE]
        /\ bar = "local" => bars.local_shown
    BY <1>4 DEF Press
  <2>4. drag' \in Drag /\ drag'.bar = bar
    BY <2>2, <2>3 DEF Drag
  <2>5. db' = db /\ bars' = bars
    BY <1>1
  <2>. QED  BY <1>3, <2>1, <2>3, <2>4, <2>5 DEF BarsInv, BarsAgree
<1>5. ASSUME NEW y \in Mouse, Move(y)
      PROVE  BarsInv'
  <2>1. /\ drag # None
        /\ drag' = [drag EXCEPT !.is_dragging = TRUE, !.current_time = TimeAt(drag.bar, y)]
    BY <1>5 DEF Move
  <2>2. drag \in Drag /\ db # None /\ (drag.bar = "local" => bars.local_shown)
    BY <1>3, <2>1 DEF BarsInv
  <2>3. drag.bar \in {"local", "global"}
    BY <2>2 DEF Drag
  <2>4. TimeAt(drag.bar, y) \in Int
    BY <1>3, <2>2, <2>3, PlacesAreTimes DEF IInv
  <2>5. drag' \in Drag /\ drag'.bar = drag.bar
    BY <2>1, <2>2, <2>4 DEF Drag
  <2>6. db' = db /\ bars' = bars
    BY <1>1
  <2>. QED  BY <1>3, <2>2, <2>5, <2>6 DEF BarsInv, BarsAgree
<1>. QED  BY <1>2, <1>4, <1>5 DEF IInv

\* The mouse goes up: a click, or a selection on either bar.
LEMMA ReleaseKeeps ==
  ASSUME IInv, Release
  PROVE  IInv'
<1> DEFINE click == ~drag.is_dragging \/ drag.start_time = drag.current_time
           low == Min({drag.start_time, drag.current_time})
           high == Max({drag.start_time, drag.current_time})
<1>1. drag # None /\ drag' = None /\ UNCHANGED <<opens, listed, destroyed, observers>>
  BY DEF Release
<1>2. /\ drag \in Drag /\ db # None /\ (drag.bar = "local" => bars.local_shown)
      /\ bars \in Bars /\ BarsAgree
  BY <1>1 DEF IInv, BarsInv
<1>3. /\ drag.bar \in {"local", "global"} /\ drag.start_time \in Int /\ drag.current_time \in Int
  BY <1>2 DEF Drag
<1>4. CASE /\ click /\ SetTime(drag.start_time, line)
           /\ IF Within(drag.start_time, bars[drag.bar]) THEN OnSelection(drag.bar, None)
                                                         ELSE UNCHANGED bars
  <2>1. line \in Int \cup {None}
    BY DEF IInv, WindowsInv
  <2>2. DbInv' /\ WindowsInv' /\ db' # None
    BY <1>1, <1>2, <1>3, <1>4, <2>1, SetTimeKeeps DEF IInv
  <2>3. CASE UNCHANGED bars
    BY <1>1, <1>2, <2>2, <2>3 DEF IInv, BarsInv, BarsAgree
  <2>4. CASE Within(drag.start_time, bars[drag.bar]) /\ OnSelection(drag.bar, None)
    <3>1. drag.bar = "global"
      BY <1>2, <1>3, <2>4 DEF Within, BarsAgree
    <3>2. bars' = [bars EXCEPT !.global = None, !.local_shown = FALSE]
      BY <2>4, <3>1 DEF OnSelection, OnGlobalSelection, HideLocalBar
    <3>3. bars' \in Bars /\ bars'.global = None /\ ~ bars'.local_shown /\ bars'.local = None
      BY <1>2, <3>2 DEF Bars
    <3>4. BarsInv'
      BY <1>1, <3>3 DEF BarsInv, BarsAgree
    <3>. QED  BY <2>2, <3>4 DEF IInv
  <2>. QED  BY <1>4, <2>3, <2>4
<1>5. CASE /\ ~click /\ OnSelection(drag.bar, <<low, high>>)
           /\ UNCHANGED <<db, seen, line, pending>>
  <2>1. low \in Int /\ high \in Int /\ low < high
    <3>1. drag.start_time # drag.current_time
      BY <1>5
    <3> DEFINE a == drag.start_time
               b == drag.current_time
    <3>2. a \in Int /\ b \in Int /\ a # b
      BY <1>3, <3>1
    <3> HIDE DEF a, b
    <3>3. Min({a, b}) < Max({a, b}) /\ Min({a, b}) \in Int /\ Max({a, b}) \in Int
      BY <3>2, MinMaxOfTwo
    <3>. QED  BY <3>3 DEF a, b
  <2> DEFINE selection == <<low, high>>
  <2> HIDE DEF low, high
  <2>2. /\ selection \in Int \X Int /\ selection # None /\ selection[1] < selection[2]
    BY <2>1, NoneAssumption
  <2>3. OnSelection(drag.bar, selection)
    BY <1>5
  <2> HIDE DEF selection
  <2>4. \/ /\ drag.bar = "local"
           /\ bars' = [bars EXCEPT !.bounds = selection, !.local = None, !.global = selection]
        \/ bars' = [bars EXCEPT !.bounds = selection, !.local = None, !.local_shown = TRUE,
                                !.global = selection]
    BY <1>3, <2>2, <2>3 DEF OnSelection, OnLocalSelection, OnGlobalSelection
  <2>5. /\ bars' \in Bars /\ bars'.global = selection /\ bars'.bounds = selection
        /\ bars'.local_shown /\ bars'.local = None
    BY <1>2, <2>2, <2>4 DEF Bars
  <2>6. BarsInv'
    BY <1>1, <2>2, <2>5 DEF BarsInv, BarsAgree
  <2>7. DbInv' /\ WindowsInv'
    BY <1>1, <1>5, WindowsStay DEF IInv, DbInv
  <2>. QED  BY <2>6, <2>7 DEF IInv
<1>. QED  BY <1>4, <1>5 DEF Release

-----------------------------------------------------------------------------

\* Every handler keeps the invariant.
LEMMA FrontendInvariance == Spec => []IInv
<1>1. IInv /\ [Next]_vars => IInv'
  <2> SUFFICES ASSUME IInv, [Next]_vars PROVE IInv'
    OBVIOUS
  <2>1. CASE CloseDb \/ OpenFails \/ \E trace \in Traces : OpenDb(trace)
    BY <2>1, OpenCloseKeeps
  <2>2. CASE \E w \in shown : UserCloses(w) \/ Paint(w)
    BY <2>2, UserClosesKeeps, PaintKeeps
  <2>3. CASE Search
    BY <2>3, SearchKeeps
  <2>4. CASE \E time \in Times : Jump(time)
    BY <2>4, JumpKeeps DEF Times
  <2>5. CASE \E text \in Times \cup {None} : EditTime(text)
    BY <2>5, EditTimeKeeps DEF Times
  <2>6. CASE \/ \E bar \in {"local", "global"}, y \in Mouse \cap 0..(Height - 1) : Press(bar, y)
             \/ \E y \in Mouse : Move(y)
    BY <2>6, DragKeeps
  <2>7. CASE Release
    BY <2>7, ReleaseKeeps
  <2>8. CASE UNCHANGED vars
    BY <2>8, WindowsStay DEF vars, IInv, DbInv, BarsInv, BarsAgree
  <2>. QED  BY <2>1, <2>2, <2>3, <2>4, <2>5, <2>6, <2>7, <2>8 DEF Next
<1>. QED  BY <1>1, FrontendInitInv, PTL DEF Spec

\* In every reachable state the current time is one of the open trace, and
\* only windows on the screen are to be painted.
THEOREM FrontendTypeCorrectness == Spec => []TypeOK
<1>1. IInv => TypeOK
  <2> SUFFICES ASSUME IInv PROVE TypeOK
    OBVIOUS
  <2>1. \/ db = None
        \/ /\ db.opened = opens /\ db.bbox \in Traces
           /\ db.time \in db.bbox[1]..db.bbox[2]
    BY DEF IInv, DbInv, Database
  <2>2. opens \in 0..MaxOpens
    BY DEF IInv, DbInv
  <2>3. WindowsInv
    BY DEF IInv
  <2>4. bars.bounds \in Int \X Int /\ (drag # None => drag.bar \in {"local", "global"})
    BY DEF IInv, BarsInv, Bars, Drag
  <2>5. \A w \in shown : seen[w] \in Nat \cup {None}
    BY <2>3 DEF WindowsInv
  <2>. QED  BY <2>1, <2>2, <2>3, <2>4, <2>5 DEF TypeOK, WindowsInv
<1>. QED  BY <1>1, FrontendInvariance, PTL

\* What is on the screen is current in every reachable state: the windows are
\* of the open trace, will be closed with it and show its time or are about
\* to, the line of the registers has that time, or one the user typed beyond
\* the end of the trace it is at, and the two bars of the timeline agree.
THEOREM FrontendShowsWhatIsCurrent == Spec => []WhatIsShownIsCurrent
<1>1. IInv => WhatIsShownIsCurrent
  BY DEF IInv, WindowsInv, BarsInv, WhatIsShownIsCurrent
<1>. QED  BY <1>1, FrontendInvariance, PTL
=============================================================================
