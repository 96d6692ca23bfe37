-------------------------- MODULE UclogicPenProofs --------------------------
(***************************************************************************)
(* The in-range timer of hid-uclogic-core.c, for every number and order of *)
(* reports: a pen in range is watched, and remove outlives the timer.      *)
(***************************************************************************)
EXTENDS UclogicPen, TLAPS

LEMMA InitInv == Init => IInv
<1> SUFFICES ASSUME Init PROVE IInv
    OBVIOUS
<1>1. Up \in Keys /\ Up.tool = FALSE /\ Up.touch = FALSE
      BY DEF Up, Keys
<1>2. TypeOK
      BY <1>1 DEF Init, TypeOK
<1>3. ReportSetsTimer /\ TimerStopsFirst
      BY DEF Init, ReportSetsTimer, TimerStopsFirst
<1>4. InRangeIsWatched
      BY <1>1 DEF Init, InRangeIsWatched
<1> QED BY <1>2, <1>3, <1>4 DEF IInv

\* A report sets the timer before it reports the pen in range, so that from
\* its first step to its last the pen is watched.
LEMMA ReportKeepsInv == IInv /\ (RawEvent \/ ReportStep) => IInv'
<1> SUFFICES ASSUME IInv, RawEvent \/ ReportStep PROVE IInv'
    OBVIOUS
<1> USE DEF IInv, TypeOK, ReportSetsTimer, InRangeIsWatched, TimerStopsFirst, Keys
<1>1. CASE RawEvent
      BY <1>1 DEF RawEvent
<1>2. CASE ReportTouch
      BY <1>2 DEF ReportTouch, Report
<1>3. CASE ReportTool
      BY <1>3 DEF ReportTool, Report
<1>4. CASE ReportPressure
      BY <1>4 DEF ReportPressure, Report
<1>5. CASE ReportSync
      BY <1>5 DEF ReportSync, Report
<1> QED BY <1>1, <1>2, <1>3, <1>4, <1>5 DEF ReportStep

\* What a step of the handler owes to the invariant: what it leaves of a pen in
\* range is still to be taken back, or the timer is set.
LEMMA TimeoutStepKeepsInv ==
  ASSUME IInv, NEW from, from # "idle", NEW to \in {"test", "touch", "tool", "sync", "idle"},
         NEW k \in Keys, NEW s \in Keys, Timeout(from, to, k, s),
         k.tool => (key.tool /\ to \in {"test", "touch", "tool"}) \/ timer # "off" \/ ~(life = "bound" /\ pen_input),
         k.touch => (key.touch /\ to \in {"test", "touch"}) \/ timer # "off" \/ ~(life = "bound" /\ pen_input)
  PROVE  IInv'
<1>1. TypeOK /\ ReportSetsTimer /\ InRangeIsWatched /\ TimerStopsFirst
      BY DEF IInv
<1>2. /\ tmr = from /\ tmr' = to /\ key' = k /\ seen' = s
      /\ life' = life /\ pen' = pen /\ pen_input' = pen_input /\ timer' = timer
      /\ rep' = rep /\ tip' = tip
      BY DEF Timeout
<1>3. tmr' \in {"idle", "pressure", "test", "touch", "tool", "sync"}
      BY <1>2
<1>4. TypeOK'
      BY <1>1, <1>2, <1>3, Zenon DEF TypeOK
<1>5. ReportSetsTimer'
      BY <1>1, <1>2 DEF ReportSetsTimer
<1>6. InRangeIsWatched'
      BY <1>2 DEF InRangeIsWatched
<1>7. TimerStopsFirst'
      BY <1>1, <1>2 DEF TimerStopsFirst
<1> QED BY <1>4, <1>5, <1>6, <1>7 DEF IInv

\* What is left of the keys when one of them is reported up.
LEMMA KeysUp ==
  ASSUME key \in Keys
  PROVE  /\ [key EXCEPT !.pressure = FALSE] \in Keys /\ [key EXCEPT !.touch = FALSE] \in Keys
         /\ [key EXCEPT !.tool = FALSE] \in Keys
         /\ [key EXCEPT !.pressure = FALSE].tool = key.tool
         /\ [key EXCEPT !.pressure = FALSE].touch = key.touch
         /\ [key EXCEPT !.touch = FALSE].tool = key.tool
         /\ [key EXCEPT !.touch = FALSE].touch = FALSE
         /\ [key EXCEPT !.tool = FALSE].tool = FALSE
         /\ [key EXCEPT !.tool = FALSE].touch = key.touch
BY DEF Keys

\* The handler leaves the timer off only to report the pen gone itself.
LEMMA TimeoutKeepsInv == IInv /\ (Expire \/ TimeoutStep) => IInv'
<1> SUFFICES ASSUME IInv, Expire \/ TimeoutStep PROVE IInv'
    OBVIOUS
<1>0. key \in Keys /\ seen \in Keys /\ InRangeIsWatched
      BY DEF IInv, TypeOK
<1>1. CASE Expire
      BY <1>1 DEF Expire, IInv, TypeOK, ReportSetsTimer, InRangeIsWatched, TimerStopsFirst
<1>2. CASE TimeoutBegin
      BY <1>2 DEF TimeoutBegin, IInv, TypeOK, ReportSetsTimer, InRangeIsWatched, TimerStopsFirst
<1>3. CASE TimeoutPressure
  <2>1. Timeout("pressure", "test", [key EXCEPT !.pressure = FALSE], seen)
        BY <1>3 DEF TimeoutPressure
  <2> QED BY <1>0, <2>1, KeysUp, TimeoutStepKeepsInv
<1>4. CASE TimeoutTest
  <2>1. Timeout("test", IF key.touch THEN "touch" ELSE "tool", key, seen)
        BY <1>4 DEF TimeoutTest
  <2> QED BY <1>0, <2>1, TimeoutStepKeepsInv
<1>5. CASE TimeoutTouch
  <2>1. Timeout("touch", "tool", [key EXCEPT !.touch = FALSE], seen)
        BY <1>5 DEF TimeoutTouch
  <2> QED BY <1>0, <2>1, KeysUp, TimeoutStepKeepsInv
<1>6. CASE TimeoutTool
  <2>1. Timeout("tool", "sync", [key EXCEPT !.tool = FALSE], seen)
        BY <1>6 DEF TimeoutTool
  <2>2. tmr = "tool"
        BY <2>1 DEF Timeout
  <2>3. life = "bound" /\ pen_input /\ key.touch => timer # "off"
        BY <1>0, <2>2 DEF InRangeIsWatched
  <2> QED BY <1>0, <2>1, <2>3, KeysUp, TimeoutStepKeepsInv
<1>7. CASE TimeoutSync
  <2>1. Timeout("sync", "idle", key, key)
        BY <1>7 DEF TimeoutSync
  <2>2. tmr = "sync"
        BY <2>1 DEF Timeout
  <2>3. life = "bound" /\ pen_input => (key.tool => timer # "off") /\ (key.touch => timer # "off")
        BY <1>0, <2>2 DEF InRangeIsWatched
  <2> QED BY <1>0, <2>1, <2>3, TimeoutStepKeepsInv
<1> QED BY <1>1, <1>2, <1>3, <1>4, <1>5, <1>6, <1>7 DEF TimeoutStep

\* No report is in progress once remove has begun, so nothing sets the timer
\* again after del_timer_sync.
LEMMA RemoveKeepsInv == IInv /\ (RemoveBegin \/ RemoveStep) => IInv'
<1> SUFFICES ASSUME IInv, RemoveBegin \/ RemoveStep PROVE IInv'
    OBVIOUS
<1> USE DEF IInv, TypeOK, ReportSetsTimer, InRangeIsWatched, TimerStopsFirst, Keys, Life
<1>1. CASE RemoveBegin
      BY <1>1 DEF RemoveBegin
<1>2. CASE RemoveTimer
      BY <1>2 DEF RemoveTimer
<1>3. CASE RemoveStop
      BY <1>3 DEF RemoveStop
<1>4. CASE RemoveFree
      BY <1>4 DEF RemoveFree
<1> QED BY <1>1, <1>2, <1>3, <1>4 DEF RemoveStep

LEMMA NextInv == IInv /\ [Next]_vars => IInv'
<1> SUFFICES ASSUME IInv, [Next]_vars PROVE IInv'
    OBVIOUS
<1>1. CASE Move
      BY <1>1 DEF Move, IInv, TypeOK, ReportSetsTimer, InRangeIsWatched, TimerStopsFirst
<1>2. CASE UNCHANGED vars
      BY <1>2 DEF vars, IInv, TypeOK, ReportSetsTimer, InRangeIsWatched, TimerStopsFirst
<1> QED BY <1>1, <1>2, ReportKeepsInv, TimeoutKeepsInv, RemoveKeepsInv DEF Next

\* The inductive invariant holds of every behaviour.
THEOREM InvHolds == Spec => []IInv
  BY InitInv, NextInv, PTL DEF Spec

\* A pen reported in range or touching always has a timer, or its handler, to
\* report it gone (uclogic_raw_event 316-317, uclogic_inrange_timeout 66-72).
THEOREM PensAreWatched == Spec => []InRangeIsWatched
  BY InvHolds, PTL DEF IInv

\* After del_timer_sync of uclogic_remove (362) the timer is off for good, so
\* hid_hw_stop and the freeing of drvdata never meet its handler.
THEOREM RemoveStopsTimer == Spec => []TimerStopsFirst
  BY InvHolds, PTL DEF IInv
=============================================================================
