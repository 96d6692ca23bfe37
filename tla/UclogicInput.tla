---------------------------- MODULE UclogicInput ----------------------------
(***************************************************************************)
(* The input devices of a UC-Logic interface: hid_hw_start makes one for   *)
(* each report (HID_QUIRK_MULTI_INPUT), asks uclogic_input_mapping about   *)
(* its fields and uclogic_input_configured about the device, registers it, *)
(* and takes all of them back when one fails.  A driver with a raw_event   *)
(* callback is bound nonetheless and gets its reports when somebody reads  *)
(* them through hidraw.  pen_input must survive all that, because the      *)
(* in-range timeout works on it, and the reports that UclogicReport        *)
(* rewrites must find theirs.  The i-th report has the i-th input device.  *)
(***************************************************************************)
EXTENDS Sequences, ReportTables, UclogicReport

VARIABLES
    reports,        \* the reports of its descriptor, in order
    pc,             \* where hid_hw_start stands
    at,             \* the report or input device it works on
    inputs,         \* inputs[i]: "none", "allocated", "registered", "freed"
    mapped,         \* the reports whose fields were mapped
    pen_input,      \* drvdata->pen_input; 0 is NULL
    claimed,        \* hid_device.claimed
    timer,          \* inrange_timer is pending
    handled         \* the input device the last timeout worked on

connecting == <<reports, pc, at, inputs, mapped, pen_input, claimed>>
session == <<connecting, timer, handled, vars>>

par == KindParams[kind]

\* What an interface describes itself when its descriptor is not replaced.
OwnPen(id) == Input(id, <<Bits("pen", 1)>>)
OwnMouse(id) == Input(id, <<Bits("button", 3)>>)
OwnDescriptors == {<<OwnMouse(0)>>, <<OwnPen(0)>>, <<OwnMouse(1), OwnPen(2)>>}

\* The descriptor: the pen's reports, then the frame's.
Descriptors ==
    [plain |-> OwnDescriptors, mouse |-> OwnDescriptors,
     v1 |-> {<<r>> : r \in PenV1}
            \cup {<<r, f>> : r \in PenV1, f \in Deco01Frame \cup Ex07Buttonpad(PressureMax)},
     v1_buttons |-> {<<r, f>> : r \in PenV1, f \in ButtonpadV1},
     v2_buttons |-> {<<r, f>> : r \in PenV2, f \in ButtonpadV2},
     g5 |-> {<<r, f>> : r \in PenV1, f \in G5Frame}]

\* The application HID_DG_PEN of a report's fields.
IsPen(r) == r.fields[1].use = "pen"

Start ==
    /\ Init /\ reports \in Descriptors[kind]
    /\ pc = "alloc" /\ at = 1
    /\ inputs = [i \in DOMAIN reports |-> "none"] /\ mapped = {}
    /\ pen_input = 0 /\ claimed = {} /\ timer = FALSE /\ handled = 0

-----------------------------------------------------------------------------
(* hidinput_connect                                                        *)

Fail(from) == pc = from /\ pc' = "unwind" /\ UNCHANGED at
Live(i) == inputs[i] \in {"allocated", "registered"}
Other == UNCHANGED <<reports, claimed, timer, handled, vars>>

\* On to the next report, or to the next phase.
Advance(from, next) ==
    /\ pc = from
    /\ IF at < Len(reports) THEN at' = at + 1 /\ UNCHANGED pc
                            ELSE at' = 1 /\ pc' = next

\* Mutant: everything is discarded.
MutDiscarded(r) == par.unused

\* uclogic_input_mapping discards the pen of an interface that does not use it.
Discarded(r) == par.unused /\ IsPen(r)

\* One input device per report, and its usages.
Allocate ==
    /\ \/ /\ Advance("alloc", "configure")
          /\ inputs' = [inputs EXCEPT ![at] = "allocated"]
          /\ mapped' = IF Discarded(reports[at]) THEN mapped ELSE mapped \cup {at}
       \/ Fail("alloc") /\ UNCHANGED <<inputs, mapped>>
    /\ UNCHANGED pen_input /\ Other

\* Mutant: the frame's input device is remembered.
MutPenInput == IF reports[at].id = par.frame THEN at ELSE pen_input

\* uclogic_input_configured
PenInput == IF reports[at].id = par.pen THEN at ELSE pen_input

\* input_configured, then an empty input device is dropped
\* (HID_QUIRK_NO_EMPTY_INPUT) and any other registered.
Configure ==
    /\ pc = "configure" /\ pen_input' = PenInput
    /\ \/ Advance("configure", "claim")
          /\ inputs' = [inputs EXCEPT ![at] = IF at \in mapped THEN "registered" ELSE "freed"]
       \/ at \in mapped /\ Fail("configure") /\ UNCHANGED inputs
    /\ UNCHANGED mapped /\ Other

\* hidinput_disconnect; nothing tells the driver.
Unwind ==
    /\ pc = "unwind" /\ pc' = "hidraw"
    /\ inputs' = [i \in DOMAIN inputs |-> IF Live(i) THEN "freed" ELSE inputs[i]]
    /\ UNCHANGED <<at, mapped, pen_input>> /\ Other

-----------------------------------------------------------------------------
(* hid_connect                                                             *)

\* Without any input device left there is nothing to claim.
ClaimInput ==
    /\ pc = "claim" /\ pc' = "hidraw"
    /\ claimed' = IF \E i \in DOMAIN inputs : Live(i) THEN {"input"} ELSE {}
    /\ UNCHANGED <<reports, at, inputs, mapped, pen_input, timer, handled, vars>>

ClaimHidraw ==
    /\ pc = "hidraw" /\ pc' = "bound"
    /\ claimed' \in {claimed, claimed \cup {"hidraw"}}
    /\ UNCHANGED <<reports, at, inputs, mapped, pen_input, timer, handled, vars>>

-----------------------------------------------------------------------------
(* The bound interface                                                     *)

\* Reports come only while somebody has the input device or hidraw open.
ReportComes ==
    /\ pc = "bound" /\ claimed # {}
    /\ Reported
    /\ timer' = (timer \/ restarted')
    /\ UNCHANGED <<connecting, handled>>

TurnsUnheard == pc = "bound" /\ TurnUnheard /\ UNCHANGED <<connecting, timer, handled>>

Timeout ==
    /\ timer /\ timer' = FALSE
    /\ handled' = pen_input
    /\ UNCHANGED <<connecting, vars>>

\* uclogic_remove, and the interface is probed again with new drvdata.
Remove ==
    /\ pc = "bound" /\ pc' = "alloc" /\ at' = 1
    /\ inputs' = [i \in DOMAIN reports |-> "none"] /\ mapped' = {}
    /\ pen_input' = 0 /\ claimed' = {} /\ timer' = FALSE /\ handled' = 0
    /\ dial' \in Detents /\ lag' = 0 /\ re_state' = 255
    /\ got' = Report(0, 0, FALSE, FALSE, 0) /\ restarted' = FALSE
    /\ sent' = [what |-> "nothing", near |-> FALSE, raw |-> got']
    /\ UNCHANGED <<kind, dir, reports>>

SessionNext ==
    \/ Allocate \/ Configure \/ Unwind \/ ClaimInput \/ ClaimHidraw
    \/ ReportComes \/ TurnsUnheard \/ Timeout \/ Remove

Session == Start /\ [][SessionNext]_session

-----------------------------------------------------------------------------
\* Where a tablet's input devices exist, the timeout simulates events on the
\* one that the pen's reports go to, not on the pad's (127-133, 58-74).
SimulatesOnPen ==
    "input" \in claimed =>
        /\ par.inrange = "none" => pen_input # 0
        /\ handled # 0 => inputs[handled] = "registered" /\ IsPen(reports[handled])

\* When none of them fails, every report gets its input device but the pen of
\* an interface that is not to have one; when one fails, no report keeps one
\* (87-102).
DiscardsUnused ==
    /\ pc = "claim" => \A i \in DOMAIN reports :
           Live(i) <=> ~(kind = "mouse" /\ IsPen(reports[i]))
    /\ pc = "bound" /\ "input" \notin claimed => \A i \in DOMAIN reports : ~Live(i)

\* A whole report that the driver passes on is one that the HID core can take
\* apart: its ID, though rewritten, is that of a report in the descriptor, as
\* long as that says, and its input device is there to take it (273-357,
\* hid-uclogic-rdesc.c).
ReachesInput ==
    kind \in Tablets /\ sent.what # "nothing" /\ Whole =>
        \E i \in DOMAIN reports :
            /\ reports[i].id = got.id /\ Length(reports[i]) = 8 * (got.size - 1)
            /\ "input" \in claimed => inputs[i] = "registered"
-----------------------------------------------------------------------------
(* The inductive invariant behind these properties                         *)

\* The reports whose fields are to be mapped.
Wanted == {i \in DOMAIN reports : ~Discarded(reports[i])}

\* The pen of the interfaces whose timeout is ever started comes first.
KnowsPen == par.inrange = "none" => pen_input = 1

\* Every device is configured: it has its fields or it is gone.
Configured ==
    /\ mapped = Wanted
    /\ inputs = [i \in DOMAIN reports |-> IF i \in Wanted THEN "registered" ELSE "freed"]
    /\ KnowsPen

\* How far hid_hw_start has come.
AllocInv ==
    /\ at \in DOMAIN reports
    /\ mapped = {i \in Wanted : i < at}
    /\ inputs = [i \in DOMAIN reports |-> IF i < at THEN "allocated" ELSE "none"]

ConfigureInv ==
    /\ at \in DOMAIN reports
    /\ mapped = Wanted
    /\ inputs = [i \in DOMAIN reports |->
                   IF i >= at THEN "allocated" ELSE IF i \in Wanted THEN "registered" ELSE "freed"]
    /\ at > 1 => KnowsPen

\* The input devices are claimed as a whole or none of them is left.
ClaimedInv ==
    IF "input" \in claimed THEN Configured ELSE \A i \in DOMAIN reports : ~Live(i)

ConnectInv ==
    /\ reports \in Descriptors[kind]
    /\ pc \in {"alloc", "configure", "unwind", "claim", "hidraw", "bound"}
    /\ DOMAIN inputs = DOMAIN reports
    /\ pc = "alloc" => AllocInv
    /\ pc = "configure" => ConfigureInv
    /\ pc = "claim" => Configured
    /\ pc \in {"hidraw", "bound"} => ClaimedInv
    /\ pc \notin {"hidraw", "bound"} => claimed = {}

\* Only the interfaces whose pens do not report their range start the timer,
\* and only once they are bound.
TimerInv ==
    /\ timer \/ handled # 0 => pc = "bound" /\ par.inrange = "none"
    /\ handled # 0 => handled = pen_input

\* What has been sent and not been forgotten since came to a bound interface.
SentInv == sent.what # "nothing" => pc = "bound"

SessionInv ==
    /\ DialInv /\ BytesInPlace /\ RightDevice
    /\ ConnectInv /\ TimerInv /\ SentInv
=============================================================================
