----------------------------- MODULE HidTablets -----------------------------
(***************************************************************************)
(* The drivers hid-kye.c, hid-polostar.c and hid-viewsonic.c for one       *)
(* interface of a device: what report_fixup makes of its descriptor, probe *)
(* step by step, and the users who open its input devices as soon as       *)
(* hid_hw_start has published them.  A device is bound at most once while  *)
(* it is plugged in.                                                       *)
(***************************************************************************)
EXTENDS Integers, ReportTables

CONSTANTS
    MaxInputs,      \* the input devices of one interface
    Width           \* the HID core's open count is a number modulo Width

ASSUME InputsAssumption == MaxInputs \in Nat
ASSUME WidthAssumption == Width \in Nat /\ Width > MaxInputs + 1

VARIABLES
    dev,            \* the interface: product, number, descriptor
    pc,             \* the next step of probe; "bound" or "refused" after it
    reports,        \* what hid_parse has registered
    multi,          \* HID_QUIRK_MULTI_INPUT is set
    started,        \* between hid_hw_start and hid_hw_stop
    enabled,        \* the tablet-enabling report was sent
    inputs,         \* how many input devices are open
    count,          \* the HID core's open count
    polled,         \* the hardware is open
    own             \* the opening that probe asked for: "none", "ok", "failed"

vars == <<dev, pc, reports, multi, started, enabled, inputs, count, polled, own>>
opening == <<inputs, count, polled, own>>

Tablet == {"i405x", "i608x", "i608x_v2", "m610x", "m406xe", "m912"}
Gaming == {"gila", "imperator", "manticore"}

\* orig: the descriptor is the one that report_fixup looks for, by its size
\* or, for the Ergo mouse, by its contents.  feature: feature report 5 of the
\* device's own descriptor.  usage: the highest usage of its consumer control.
Device ==
    [product : Tablet, iface : {0}, orig : BOOLEAN,
     feature : {"none", "empty", "short", "whole"}, usage : {0}]
    \cup [product : Gaming, iface : {0}, orig : BOOLEAN, feature : {"none"},
          usage : {12287, 12288, 65535}]
    \cup [product : {"ergo", "pt1001", "pd1011"}, iface : 0..2, orig : BOOLEAN,
          feature : {"none"}, usage : {0}]

LedField == Field("led", 8, 1, 0, 1)
ConsumerField(usage) == Field("consumer", 16, 1, 0, usage)

\* The device's own descriptor, as far as a driver looks into it.
OwnReports ==
    CASE dev.feature = "empty" -> {Feature(5, <<>>)}
      [] dev.feature = "short" -> {Feature(5, <<Field("mode", 8, 6, -128, 127)>>)}
      [] dev.feature = "whole" -> {Feature(5, <<Field("mode", 8, 7, -128, 127)>>)}
      [] dev.product \in Gaming -> {Input(3, <<ConsumerField(dev.usage)>>)}
      [] dev.product = "ergo" -> {Input(0, <<IF dev.orig THEN LedField ELSE Bits("button", 8)>>)}
      [] OTHER -> {}

-----------------------------------------------------------------------------
(* kye_report_fixup, polostar_report_fixup, viewsonic_report_fixup         *)

Fixed ==
    [i405x |-> EasyPenI405X, i608x |-> MousePenI608X, i608x_v2 |-> MousePenI608XV2,
     m610x |-> EasyPenM610X, m406xe |-> EasyPenM406XE, m912 |-> PenSketchM912,
     pt1001 |-> Pt1001, pd1011 |-> Pd1011]

\* kye_consumer_control_fixup sets the high byte of the usage maximum.
Clipped(usage) == IF usage \div 256 > 47 THEN 47 * 256 + (usage % 256) ELSE usage

ReportFixup ==
    CASE dev.product \in DOMAIN Fixed /\ dev.orig
             /\ (dev.product = "pt1001" => dev.iface = 1) -> Fixed[dev.product]
      [] dev.product \in Gaming /\ dev.orig -> {Input(3, <<ConsumerField(Clipped(dev.usage))>>)}
      [] dev.product = "ergo" /\ dev.orig -> {Input(0, <<Bits("button", 8)>>)}
      [] OTHER -> OwnReports

-----------------------------------------------------------------------------
(* The HID core                                                            *)

\* hid_hw_open: the first opening opens the hardware, which may fail.
Opened == /\ count' = (count + 1) % Width
          /\ polled' = IF count = 0 THEN TRUE ELSE polled
NotOpened == count = 0 /\ UNCHANGED <<count, polled>>

\* hid_hw_close: the last closing closes the hardware.
Closed == /\ count' = (count - 1) % Width
          /\ polled' = IF count' = 0 THEN FALSE ELSE polled

\* hid_hw_stop withdraws the input devices, which closes the open ones, and
\* stops the hardware.
Stopped ==
    /\ started' = FALSE /\ enabled' = FALSE
    /\ count' = (count - inputs) % Width
    /\ inputs' = 0 /\ polled' = FALSE

UserOpen ==
    /\ started /\ inputs < MaxInputs
    /\ Opened /\ inputs' = inputs + 1
    /\ UNCHANGED <<dev, pc, reports, multi, started, enabled, own>>

UserClose ==
    /\ inputs > 0
    /\ Closed /\ inputs' = inputs - 1
    /\ UNCHANGED <<dev, pc, reports, multi, started, enabled, own>>

-----------------------------------------------------------------------------
(* probe                                                                   *)

Goto(from, to) == pc = from /\ pc' = to

\* polostar_probe leaves interface 2 to another driver.
Probe ==
    /\ Goto("new", IF dev.product = "pt1001" /\ dev.iface = 2 THEN "refused" ELSE "parse")
    /\ multi' = (pc' = "parse" /\ dev.product \in {"i608x_v2", "m912", "m406xe", "pt1001"})
    /\ UNCHANGED <<dev, reports, started, enabled, opening>>

\* hid_parse, which calls report_fixup.
Parse ==
    /\ \/ Goto("parse", "start") /\ reports' = ReportFixup
       \/ Goto("parse", "refused") /\ UNCHANGED reports
    /\ UNCHANGED <<dev, multi, started, enabled, opening>>

Start ==
    /\ \/ /\ Goto("start", IF dev.product \in Tablet THEN "enable"
                           ELSE IF dev.product = "manticore" THEN "open" ELSE "bound")
          /\ started' = TRUE
       \/ Goto("start", "refused") /\ UNCHANGED started
    /\ UNCHANGED <<dev, reports, multi, enabled, opening>>

\* Mutant: one value too many is asked for.
MutEnablingReport(r) ==
    r.type = "feature" /\ r.id = 5 /\ Len(r.fields) >= 1 /\ r.fields[1].count > 7

EnablingReport(r) ==
    r.type = "feature" /\ r.id = 5 /\ Len(r.fields) >= 1 /\ r.fields[1].count >= 7

\* kye_tablet_enable; the request is not waited for.
TabletEnable ==
    /\ \/ /\ \E r \in reports : EnablingReport(r)
          /\ Goto("enable", "bound") /\ enabled' = TRUE
       \/ /\ ~ \E r \in reports : EnablingReport(r)
          /\ Goto("enable", "stop") /\ UNCHANGED enabled
    /\ UNCHANGED <<dev, reports, multi, started, opening>>

\* Mutant: the label of the error is that of earlier ones.
MutEnablingErr ==
    /\ Goto("stop", "refused")
    /\ UNCHANGED <<dev, reports, multi, started, enabled, opening>>

EnablingErr ==
    /\ Goto("stop", "refused")
    /\ Stopped
    /\ UNCHANGED <<dev, reports, multi, own>>

\* Mutant: the hardware is closed again whatever came of its opening.
MutOpenAll ==
    /\ \/ Goto("open", "close") /\ Opened /\ own' = "ok"
       \/ Goto("open", "close") /\ NotOpened /\ own' = "failed"
    /\ UNCHANGED <<dev, reports, multi, started, enabled, inputs>>

\* The Manticore: opened, and closed if opening has failed.
OpenAll ==
    /\ \/ Goto("open", "bound") /\ Opened /\ own' = "ok"
       \/ Goto("open", "close") /\ NotOpened /\ own' = "failed"
    /\ UNCHANGED <<dev, reports, multi, started, enabled, inputs>>

CloseAll ==
    /\ Goto("close", "bound") /\ Closed
    /\ UNCHANGED <<dev, reports, multi, started, enabled, inputs, own>>

-----------------------------------------------------------------------------
\* The interface leaves; a driver without a remove callback has hid_hw_stop
\* called for it.
Unplug ==
    /\ pc \in {"bound", "refused"}
    /\ pc' = "new" /\ dev' \in Device
    /\ reports' = {} /\ multi' = FALSE /\ own' = "none" /\ count' = 0
    /\ started' = FALSE /\ enabled' = FALSE /\ inputs' = 0 /\ polled' = FALSE

Init ==
    /\ dev \in Device /\ pc = "new"
    /\ reports = {} /\ multi = FALSE /\ own = "none" /\ count = 0
    /\ started = FALSE /\ enabled = FALSE /\ inputs = 0 /\ polled = FALSE

Next ==
    \/ Probe \/ Parse \/ Start \/ TabletEnable \/ EnablingErr \/ OpenAll \/ CloseAll
    \/ UserOpen \/ UserClose \/ Unplug

Spec == Init /\ [][Next]_vars

-----------------------------------------------------------------------------
TypeOK ==
    /\ dev \in Device
    /\ pc \in {"new", "parse", "start", "enable", "stop", "open", "close", "bound", "refused"}
    /\ multi \in BOOLEAN /\ started \in BOOLEAN /\ enabled \in BOOLEAN
    /\ inputs \in 0..MaxInputs /\ count \in 0..(Width - 1)
    /\ polled \in BOOLEAN /\ own \in {"none", "ok", "failed"}

\* A device that probe has refused is left as it was, though its input devices
\* were open to users while the enabling failed (738-756).
RefusedIsStopped ==
    pc \in {"new", "refused"} => ~started /\ ~polled /\ inputs = 0 /\ count = 0

\* A tablet is bound only when enabled, and one whose descriptor was replaced
\* never fails to be: the enabling report that kye_tablet_enable looks for is
\* in each of the six descriptors that kye_report_fixup puts in its place.
FixedIsEnabled ==
    dev.product \in Tablet =>
        /\ pc = "bound" => enabled
        /\ pc = "stop" => ~dev.orig

\* The hardware is polled exactly while there is an input device open or probe
\* has opened it, whatever users do while probe is under way, unless probe's
\* own opening has failed.
PolledForUsers ==
    own # "failed" =>
        /\ count = inputs + (IF own = "ok" THEN 1 ELSE 0)
        /\ polled <=> count > 0

\* What holds besides: by step of probe, what has been started, opened and
\* parsed so far.
ProbeInv ==
    /\ ~started => ~enabled /\ inputs = 0
    /\ pc \in {"new", "parse", "start", "refused"} <=> ~started
    /\ own # "none" => pc \in {"close", "bound"}
    /\ pc = "close" => own = "failed"
    /\ pc \in {"enable", "stop"} => dev.product \in Tablet
    /\ pc \in {"open", "close"} => dev.product = "manticore"
    /\ pc \in {"start", "enable", "stop", "open", "close", "bound"} => reports = ReportFixup

IInv == TypeOK /\ ProbeInv /\ RefusedIsStopped /\ FixedIsEnabled /\ PolledForUsers

\* Reports that the HID core takes apart are whole bytes with fields that have
\* room for their limits, one report to an ID, and the mice and keyboards claim
\* no more consumer usages than there are (the descriptors of hid-kye.c,
\* hid-polostar.c and hid-viewsonic.c).
ReportsSound ==
    dev.orig => \A r \in reports :
        /\ Length(r) % 8 = 0
        /\ \A i \in DOMAIN r.fields :
               /\ Fits(r.fields[i])
               /\ r.fields[i].use = "consumer" => r.fields[i].hi < 12288
        /\ \A r2 \in reports : r2.type = r.type /\ r2.id = r.id => r2 = r

\* "The manticore keyboard needs to have all the interfaces opened at least
\* once to be fully functional" (hid-kye.c:746-747).
ManticoreOpened ==
    dev.product = "manticore" /\ pc = "bound" /\ inputs > 0 => polled
=============================================================================
