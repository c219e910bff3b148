---------------------------- MODULE CurveEditor ----------------------------
(***************************************************************************)
(* The window in which the user edits the temperature curve of a fan       *)
(* (open_editor and Editor of crates/fan-app/src/ui.rs): a table of points *)
(* typed as texts, a chart whose points are dragged (crates/fan-app/src/   *)
(* chart.rs), three presets, and a stack of earlier drafts.                *)
(*                                                                         *)
(* The window is built anew by everything but typing and dragging.  Texts  *)
(* are the numbers they parse to, or Junk.  A midpoint is rounded down.    *)
(***************************************************************************)
EXTENDS Settings, SequencesExt

CONSTANTS
  Inputs,     \* what the user types for the input of a point, or drags it to
  Speeds,     \* and for its speed
  Hystereses, \* and for the hysteresis
  MaxRows,    \* the largest number of points, 12 in the code
  MaxUndo     \* the drafts kept by open_editor, 50 in the code

ASSUME EditorAssumption == MaxUndo \in Nat \ {0}

Junk == -1000

VARIABLES
  editor,     \* editor: <<>> when the window is closed
  before      \* history: what the window showed when a step was last recorded

curve == <<editor, before>>

Presets == {"quiet", "balanced", "cool"}

-----------------------------------------------------------------------------
(* Points and presets.                                                     *)

Sorted(points) == SortSeq(points, LAMBDA a, b : a[1] < b[1])

Numbers(points) == \A i \in DOMAIN points : points[i][1] # Junk /\ points[i][2] # Junk

Lesser(a, b)  == IF a < b THEN a ELSE b
Greater(a, b) == IF a > b THEN a ELSE b

(* preset_curve: the last point stays at full speed. *)
Preset(preset, speed) ==
  CASE preset = "balanced" -> speed
    [] preset = "quiet"    -> IF speed > 0 THEN (6 * speed + 5) \div 10 ELSE speed
    [] preset = "cool"     -> Lesser(Greater(speed, 0) + 15, 100)

PresetCurve(preset, key) ==
  LET c == BalancedCurve(key)
  IN [c EXCEPT !.points = [i \in DOMAIN @ |->
        IF i = Len(@) THEN @[i] ELSE <<@[i][1], Preset(preset, @[i][2])>>]]

(* set_sensor_key: another unit restores the balanced curve.               *)
SetSensorKey(c, key) ==
  IF Unit(c.key) = Unit(key) THEN [c EXCEPT !.key = key] ELSE BalancedCurve(key)

(* add_point: in the middle of the widest gap, the last of those as wide,  *)
(* on the curve.                                                           *)
Gap(points, i) == points[i + 1][1] - points[i][1]

Widest(points) ==
  CHOOSE i \in 1 .. Len(points) - 1 : \A j \in 1 .. Len(points) - 1 :
    Gap(points, i) > Gap(points, j) \/ (Gap(points, i) = Gap(points, j) /\ i >= j)

Middle(points) ==
  LET i == Widest(points)
  IN <<(points[i][1] + points[i + 1][1]) \div 2, (points[i][2] + points[i + 1][2]) \div 2>>

WithPoint(c) ==
  IF Len(c.points) < MaxRows
    THEN [c EXCEPT !.points = InsertAt(@, Widest(@) + 1, Middle(@))]
    ELSE c

(* move_point: among its neighbours of the sorted curve, one unit from     *)
(* each, unless they leave no room.                                        *)
MovePoint(c, i, to) ==
  LET s    == Sorted(c.points)
      low  == IF i = 1 THEN 0 ELSE s[i - 1][1] + 1
      high == IF i = Len(s) THEN InputMaximum(c.key) ELSE s[i + 1][1] - 1
      x    == IF low <= high THEN Lesser(Greater(to[1], low), high) ELSE s[i][1]
  IN [c EXCEPT !.points = [s EXCEPT ![i] = <<x, Lesser(Greater(to[2], -20), 100)>>]]

-----------------------------------------------------------------------------
(* The window.                                                             *)

(* The fan settings the interface sees. *)
Seen(f) == published.config.fans[f]

(* The window built for a draft: the rows are sorted, the chart is not.    *)
Window(f, draft, undo, all) ==
  LET c == IF draft.curve = <<>> THEN BalancedCurve("demand") ELSE draft.curve[1]
  IN [fan |-> f, draft |-> [draft EXCEPT !.curve = <<c>>], rows |-> Sorted(c.points),
      hysteresis |-> c.hysteresis, chart |-> c, grabbed |-> 0, undo |-> undo,
      recorded |-> FALSE, all |-> all]

(* read_values, whose rows may be out of order: <<>> where one is no       *)
(* number.  The popup shows the draft's own key whenever this is called.   *)
Values(e, rows) ==
  IF Numbers(rows) /\ e.hysteresis # Junk
    THEN <<[e.draft EXCEPT !.mode = "curve", !.curve[1].points = rows,
                           !.curve[1].hysteresis = e.hysteresis]>>
    ELSE <<>>

(* read: sorted, and validated. *)
Read(e) ==
  LET v == Values(e, Sorted(e.rows))
  IN IF v # <<>> /\ ValidCurve(v[1].curve[1]) THEN v ELSE <<>>

(* The draft an edit starts from, or the one the window was built for.     *)
Previous(e) == LET v == Values(e, e.rows) IN IF v = <<>> THEN e.draft ELSE v[1]

(* The stack after open_editor(record): no step twice, the oldest dropped. *)
Recorded(e) ==
  LET known == e.undo # <<>> /\ Last(e.undo) = Previous(e)
      undo  == IF known THEN e.undo ELSE Append(e.undo, Previous(e))
  IN IF Len(undo) > MaxUndo THEN Tail(undo) ELSE undo

(* What the rows and the hysteresis show of a draft. *)
Shown(draft) == <<Sorted(draft.curve[1].points), draft.curve[1].hysteresis>>

(* open_editor(draft, true), and (None, false). *)
Rebuild(draft) ==
  LET e == editor[1]
  IN /\ editor' = <<Window(e.fan, draft, Recorded(e), e.all)>>
     /\ before' = <<Shown(Previous(e))>>
     /\ UNCHANGED <<worker, channel>>

(* The window for a fan, as it is saved, in place of an open one.  The     *)
(* switch for all fans is on where fanCurve has closed the window first,   *)
(* and stays as it was with useCurve and editCurve.                        *)
OpenEditor ==
  /\ \E f \in Fans, all \in {TRUE, editor = <<>> \/ editor[1].all} :
       editor' = <<Window(f, Seen(f), <<>>, all)>>
  /\ before' = <<>>
  /\ UNCHANGED <<worker, channel>>

CloseEditor == editor' = <<>> /\ before' = <<>>

Cancel == editor # <<>> /\ CloseEditor /\ UNCHANGED <<worker, channel>>

(* Typing changes a field and nothing else. *)
TypeRow ==
  /\ editor # <<>>
  /\ \E i \in DOMAIN editor[1].rows :
       \/ \E x \in Inputs \cup {Junk} : editor' = <<[editor[1] EXCEPT !.rows[i][1] = x]>>
       \/ \E s \in Speeds : editor' = <<[editor[1] EXCEPT !.rows[i][2] = s]>>
  /\ UNCHANGED <<before, worker, channel>>

TypeHysteresis ==
  /\ editor # <<>>
  /\ \E h \in Hystereses : editor' = <<[editor[1] EXCEPT !.hysteresis = h]>>
  /\ UNCHANGED <<before, worker, channel>>

AllFans ==
  /\ editor # <<>> /\ editor' = <<[editor[1] EXCEPT !.all = ~@]>>
  /\ UNCHANGED <<before, worker, channel>>

(* curvePreset and resetCurve start from the draft of the window, not from *)
(* the fields.                                                             *)
CurvePreset ==
  /\ editor # <<>>
  /\ \E p \in Presets :
       LET d == editor[1].draft IN Rebuild([d EXCEPT !.curve = <<PresetCurve(p, d.curve[1].key)>>])

ResetCurve ==
  /\ editor # <<>>
  /\ LET d == editor[1].draft IN Rebuild([d EXCEPT !.curve = <<BalancedCurve(d.curve[1].key)>>])

AddPoint ==
  /\ editor # <<>> /\ Len(editor[1].rows) < MaxRows /\ Read(editor[1]) # <<>>
  /\ Rebuild([Read(editor[1])[1] EXCEPT !.curve[1] = WithPoint(@)])

RemovePoint ==
  /\ editor # <<>> /\ Len(editor[1].rows) > 2
  /\ \E i \in DOMAIN editor[1].rows :
       LET v == Values(editor[1], RemoveAt(editor[1].rows, i)) IN v # <<>> /\ Rebuild(v[1])

SourceChoice ==
  /\ editor # <<>>
  /\ \E key \in Keys \ {editor[1].draft.curve[1].key} :
       Rebuild([Previous(editor[1]) EXCEPT !.curve[1] = SetSensorKey(@, key)])

Undo ==
  /\ editor # <<>> /\ editor[1].undo # <<>>
  /\ LET e == editor[1] IN editor' = <<Window(e.fan, Last(e.undo), Front(e.undo), e.all)>>
  /\ before' = <<>>
  /\ UNCHANGED <<worker, channel>>

(* mouseDown: some point of the chart, numbered as the chart holds them.   *)
Grab ==
  /\ editor # <<>> /\ editor[1].grabbed = 0
  /\ \E i \in DOMAIN editor[1].chart.points : editor' = <<[editor[1] EXCEPT !.grabbed = i]>>
  /\ UNCHANGED <<before, worker, channel>>

(* curve_dragged: the first of a drag records what the fields showed.      *)
DragRecorded(e, rows) ==
  LET v == Values(e, rows)
  IN IF e.recorded \/ v = <<>> \/ (e.undo # <<>> /\ Last(e.undo) = v[1]) THEN e.undo
     ELSE Append(e.undo, v[1])

(* Mutated form: the fields are read after the chart has written them. *)
DragThenRecord ==
  /\ editor # <<>> /\ editor[1].grabbed # 0
  /\ \E x \in Inputs, s \in Speeds :
       LET e == editor[1]
           c == MovePoint(e.chart, e.grabbed, <<x, s>>)
       IN editor' = <<[e EXCEPT !.chart = c, !.rows = Sorted(c.points), !.recorded = TRUE,
                                !.undo = DragRecorded(e, Sorted(c.points))]>>
  /\ before' = (IF editor[1].recorded THEN before
                ELSE LET v == Values(editor[1], editor[1].rows)
                     IN IF v = <<>> THEN <<>> ELSE <<Shown(v[1])>>)
  /\ UNCHANGED <<worker, channel>>

(* mouseDragged and curve_dragged: the fields follow the chart.            *)
Drag ==
  /\ editor # <<>> /\ editor[1].grabbed # 0
  /\ \E x \in Inputs, s \in Speeds :
       LET e == editor[1]
           c == MovePoint(e.chart, e.grabbed, <<x, s>>)
       IN editor' = <<[e EXCEPT !.chart = c, !.rows = Sorted(c.points), !.recorded = TRUE,
                                !.undo = DragRecorded(e, e.rows)]>>
  /\ before' = (IF editor[1].recorded THEN before
                ELSE LET v == Values(editor[1], editor[1].rows)
                     IN IF v = <<>> THEN <<>> ELSE <<Shown(v[1])>>)
  /\ UNCHANGED <<worker, channel>>

Release ==
  /\ editor # <<>> /\ editor[1].grabbed # 0
  /\ editor' = <<[editor[1] EXCEPT !.grabbed = 0]>>
  /\ UNCHANGED <<before, worker, channel>>

(* The editor's part of a tick: unless a drag is on, the next drag is a    *)
(* step of its own, and the chart takes what the fields hold.              *)
RefreshedEditor ==
  IF editor = <<>> \/ editor[1].grabbed # 0 THEN editor
  ELSE LET e == editor[1]
           v == Values(e, e.rows)
       IN <<[e EXCEPT !.recorded = FALSE,
                      !.chart = IF v = <<>> THEN @ ELSE v[1].curve[1]]>>

-----------------------------------------------------------------------------
(* Saving.                                                                 *)

Controllable(f) == f \notin published.found.unranged

(* configs_for_curve: every controllable fan, with its own identity of the *)
(* curve, which is left out here.                                          *)
ConfigsForCurve(c) ==
  ConfigureEach({ f \in Fans : Controllable(f) },
                [f \in Fans |-> [Seen(f) EXCEPT !.mode = "curve", !.curve = <<c>>]])

(* save_curve: nothing while the helper is not ready or being installed.   *)
SaveCurve ==
  /\ editor # <<>> /\ published.ready /\ ~published.installing
  /\ LET e == editor[1]
         v == Read(e)
     IN /\ v # <<>>
        /\ IF e.all
             THEN Send(IF published.found.fans THEN ConfigsForCurve(v[1].curve[1]) ELSE <<>>)
             ELSE Send(<<ConfigureCommand(e.fan, v[1])>>)
  /\ CloseEditor
  /\ UNCHANGED <<worker, reply, prompts, published>>
=============================================================================
