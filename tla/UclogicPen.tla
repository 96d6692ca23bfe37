----------------------------- MODULE UclogicPen -----------------------------
(***************************************************************************)
(* In-range emulation of hid-uclogic-core.c for pens that never report     *)
(* leaving (UCLOGIC_PARAMS_PEN_INRANGE_NONE): uclogic_raw_event restarts a *)
(* timer with every report, and uclogic_inrange_timeout sends the events   *)
(* of a pen going away.  Reports and the timer run on different CPUs; each *)
(* input event takes the input device's lock, a sequence of them does not. *)
(* remove stops the timer while the HID core holds driver_input_lock,      *)
(* without which no report reaches the driver.                             *)
(* A report is done before the 100 ms it has set have passed.              *)
(***************************************************************************)
VARIABLES
    life,           \* "bound", or where uclogic_remove stands, up to "gone"
    pen,            \* the pen is "near" the tablet or "away"
    pen_input,      \* drvdata->pen_input is not NULL
    timer,          \* inrange_timer: "off", "pending" or "due" (expired)
    tmr,            \* where uclogic_inrange_timeout stands
    rep,            \* where the processing of a report stands
    tip,            \* the tip switch of that report
    key,            \* BTN_TOUCH, BTN_TOOL_PEN and ABS_PRESSURE # 0
    seen            \* the same at the last SYN, as the user sees them

vars == <<life, pen, pen_input, timer, tmr, rep, tip, key, seen>>

Up == [touch |-> FALSE, tool |-> FALSE, pressure |-> FALSE]
Keys == [touch : BOOLEAN, tool : BOOLEAN, pressure : BOOLEAN]

Init ==
    /\ life = "bound" /\ pen = "away" /\ pen_input \in BOOLEAN
    /\ timer = "off" /\ tmr = "idle" /\ rep = "idle" /\ tip = FALSE
    /\ key = Up /\ seen = Up

\* The user moves the pen.
Move ==
    /\ pen' = IF pen = "near" THEN "away" ELSE "near"
    /\ UNCHANGED <<life, pen_input, timer, tmr, rep, tip, key, seen>>

-----------------------------------------------------------------------------
(* A report: uclogic_raw_event, then the HID core reports its fields in the *)
(* order of the descriptor and synchronises.                                *)

\* Mutant: the timer is started, not restarted: a pending one is left alone
\* and so is one whose handler is running.
MutRawEvent ==
    /\ life = "bound" /\ pen = "near" /\ rep = "idle"
    /\ rep' = "touch" /\ tip' \in BOOLEAN
    /\ timer' = IF timer = "off" /\ tmr = "idle" THEN "pending" ELSE timer
    /\ UNCHANGED <<life, pen, pen_input, tmr, key, seen>>

\* mod_timer also takes back an expiry whose handler has not begun.
RawEvent ==
    /\ life = "bound" /\ pen = "near" /\ rep = "idle"
    /\ rep' = "touch" /\ tip' \in BOOLEAN
    /\ timer' = "pending"
    /\ UNCHANGED <<life, pen, pen_input, tmr, key, seen>>

Report(from, to, k, s) ==
    /\ rep = from /\ rep' = to /\ key' = k /\ seen' = s
    /\ UNCHANGED <<life, pen, pen_input, timer, tmr, tip>>

\* raw_event has set the in-range bit, so BTN_TOOL_PEN is always reported.
ReportTouch == Report("touch", "tool", [key EXCEPT !.touch = tip], seen)
ReportTool == Report("tool", "pressure", [key EXCEPT !.tool = TRUE], seen)
ReportPressure == Report("pressure", "sync", [key EXCEPT !.pressure = tip], seen)
ReportSync == Report("sync", "idle", key, key)

-----------------------------------------------------------------------------
(* uclogic_inrange_timeout                                                 *)

\* 100 ms without a report.
Expire ==
    /\ timer = "pending" /\ rep = "idle"
    /\ timer' = "due"
    /\ UNCHANGED <<life, pen, pen_input, tmr, rep, tip, key, seen>>

TimeoutBegin ==
    /\ timer = "due" /\ tmr = "idle"
    /\ timer' = "off"
    /\ tmr' = IF pen_input THEN "pressure" ELSE "idle"
    /\ UNCHANGED <<life, pen, pen_input, rep, tip, key, seen>>

Timeout(from, to, k, s) ==
    /\ tmr = from /\ tmr' = to /\ key' = k /\ seen' = s
    /\ UNCHANGED <<life, pen, pen_input, timer, rep, tip>>

TimeoutPressure == Timeout("pressure", "test", [key EXCEPT !.pressure = FALSE], seen)

\* BTN_TOUCH is tested here and reported in the next step.
TimeoutTest == Timeout("test", IF key.touch THEN "touch" ELSE "tool", key, seen)
TimeoutTouch == Timeout("touch", "tool", [key EXCEPT !.touch = FALSE], seen)

\* Mutant: the pen is lifted and left in range.
MutTimeoutTool == Timeout("tool", "sync", key, seen)

TimeoutTool == Timeout("tool", "sync", [key EXCEPT !.tool = FALSE], seen)
TimeoutSync == Timeout("sync", "idle", key, key)

-----------------------------------------------------------------------------
(* uclogic_remove                                                          *)

Life(from, to) ==
    /\ life = from /\ life' = to
    /\ UNCHANGED <<pen, pen_input, tmr, rep, tip, key, seen>>

\* The HID core takes driver_input_lock: no report is in the driver.
RemoveBegin == Life("bound", "del_timer") /\ rep = "idle" /\ UNCHANGED timer

\* Mutant: del_timer, which does not wait for the handler.
MutRemoveTimer == Life("del_timer", "stop") /\ timer' = "off"

\* del_timer_sync
RemoveTimer == Life("del_timer", "stop") /\ tmr = "idle" /\ timer' = "off"

\* hid_hw_stop unregisters the input device; then drvdata is freed.
RemoveStop == Life("stop", "free") /\ UNCHANGED timer
RemoveFree == Life("free", "gone") /\ UNCHANGED timer

-----------------------------------------------------------------------------
ReportStep == ReportTouch \/ ReportTool \/ ReportPressure \/ ReportSync
TimeoutStep == \/ TimeoutBegin \/ TimeoutPressure \/ TimeoutTest
               \/ TimeoutTouch \/ TimeoutTool \/ TimeoutSync
RemoveStep == RemoveTimer \/ RemoveStop \/ RemoveFree

Next == Move \/ RawEvent \/ ReportStep \/ Expire \/ TimeoutStep \/ RemoveBegin \/ RemoveStep

Spec == Init /\ [][Next]_vars

(***************************************************************************)
(* Reports and handlers that have begun go on; a timer nobody restarts     *)
(* expires; remove goes on.  The pen, its reports and the unbinding owe    *)
(* nothing.                                                                *)
(***************************************************************************)
Fairness == WF_vars(ReportStep) /\ WF_vars(TimeoutStep) /\ WF_vars(Expire) /\ WF_vars(RemoveStep)

FairSpec == Spec /\ Fairness

-----------------------------------------------------------------------------
TypeOK ==
    /\ life \in {"bound", "del_timer", "stop", "free", "gone"}
    /\ pen \in {"near", "away"} /\ pen_input \in BOOLEAN /\ tip \in BOOLEAN
    /\ timer \in {"off", "pending", "due"}
    /\ tmr \in {"idle", "pressure", "test", "touch", "tool", "sync"}
    /\ rep \in {"idle", "touch", "tool", "pressure", "sync"}
    /\ key \in Keys /\ seen \in Keys

\* A pen that has been reported in range, or touching, is always watched: the
\* timer is set, or its handler is still to take back what was reported.  The
\* handler tests BTN_TOUCH in one step and reports BTN_TOOL_PEN in a later one
\* (66-72), so a late report may leave a pen that touches and is out of range,
\* but neither for good.
InRangeIsWatched ==
    life = "bound" /\ pen_input =>
        /\ key.tool => timer # "off" \/ tmr \in {"pressure", "test", "touch", "tool"}
        /\ key.touch => timer # "off" \/ tmr \in {"pressure", "test", "touch"}

\* The timer's handler never runs on an input device that hid_hw_stop has
\* taken down, or on a freed drvdata: del_timer_sync (362) comes first, and
\* no report can set the timer again after it.
TimerStopsFirst ==
    life \in {"stop", "free", "gone"} => timer = "off" /\ tmr = "idle" /\ rep = "idle"

\* A report in progress has set the timer, which does not expire meanwhile,
\* and the HID core does not let go of the driver in the middle of it.
ReportSetsTimer == rep # "idle" => timer = "pending" /\ life = "bound"

\* The inductive invariant: a timer that a report has just set is what keeps
\* the pen watched, and what remove has to stop.
IInv == TypeOK /\ ReportSetsTimer /\ InRangeIsWatched /\ TimerStopsFirst

\* A pen taken away for good is at last, and for good, reported gone: out of
\* range, not touching, no pressure, whatever the race of its last report and
\* the handler has shown before.
PenLeaves ==
    <>[](pen = "away" /\ pen_input /\ life = "bound") => <>[](seen = Up)
=============================================================================
