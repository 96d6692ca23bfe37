---------------------------- MODULE UclogicProbe ----------------------------
(***************************************************************************)
(* Probe, remove, suspend and resume of one interface of a tablet in       *)
(* hid-uclogic-core.c, with uclogic_params_init and everything it calls in *)
(* hid-uclogic-params.c.  Every kmalloc may fail and every USB request may *)
(* fail or be answered in each way the code tells apart.  Pointers are     *)
(* modelled by whether they are NULL, the heap by the number of blocks of  *)
(* each kind that are allocated.                                           *)
(***************************************************************************)
EXTENDS Integers, FiniteSets, ReportTables, UclogicKinds

VARIABLES
    dev,            \* the interface plugged in: what it is, how it answers
    pc,             \* where the driver's thread stands
    caller,         \* who runs uclogic_params_init: "probe" or "resume"
    p,              \* the parameters under construction
    found,          \* what the last pen probing has found
    drv,            \* drvdata->params
    desc,           \* drvdata->desc_ptr is not NULL
    heap,           \* heap[k]: the live blocks of kind k
    mode,           \* the mode of the tablet: "mouse", "v1" or "v2"
    restored        \* the last resume returned 0

vars == <<dev, pc, caller, p, found, drv, desc, heap, mode, restored>>
drvdata == <<drv, desc>>

\* "common", "pen" and "frame" are the descriptor parts of the parameters,
\* "desc" the replacement descriptor, the others the buffers of requests.
Part == {"common", "pen", "frame"}
Temp == {"ver", "buf", "str"}
Kind == Part \cup Temp \cup {"desc"}

Zero == [invalid |-> FALSE, unused |-> FALSE, has |-> {}, pen |-> 0, frame |-> 0, flag |-> FALSE]
Invalid(q) == [q EXCEPT !.invalid = TRUE]
PenUnused == [Zero EXCEPT !.unused = TRUE]

\* An interface as the code sees it: the product or family of products, the
\* interface number, the size of its report descriptor, the firmware, and
\* the answers to the string requests 200, 100 and 123 (of which any prefix
\* of "HK On" is accepted).  Products known by their report descriptor are
\* asked nothing.
Device ==
    [family : {"pf1209", "wp4030u", "wp8060u", "wp1062", "twhl850", "twha60"},
     iface : 0..2, size : {"orig", "odd"}, transition : {FALSE},
     s200 : {"stall"}, s100 : {"stall"}, s123 : {"stall"}]
    \cup
    [family : {"wp5540u", "huion", "g540", "deco01", "g5", "ex07s"},
     iface : {0, 1}, size : {"orig", "v2", "odd"}, transition : BOOLEAN,
     s200 : {"ok", "text", "short", "stall"}, s100 : {"ok", "short", "stall"},
     s123 : {"accepted", "other", "stall"}]

Init ==
    /\ dev \in Device
    /\ pc = "unbound" /\ caller = "probe"
    /\ p = Zero /\ found = FALSE /\ drv = Zero /\ desc = FALSE
    /\ heap = [k \in Kind |-> 0]
    /\ mode = "mouse" /\ restored = TRUE

Step(from, to) == pc = from /\ pc' = to
Goto(l) == pc' = l

\* kmalloc of a block of kind k at from, and the label of its failure.
Alloc(k, from, to, fail) ==
    \/ Step(from, to) /\ heap' = [heap EXCEPT ![k] = @ + 1]
    \/ Step(from, fail) /\ UNCHANGED heap

Without(h, ks) == [k \in Kind |-> IF k \in ks THEN h[k] - 1 ELSE h[k]]

\* uclogic_params_cleanup(q): what it frees and what it leaves in q.
CleanupFrees(q) == IF q.invalid THEN {}
                   ELSE q.has \ (IF q.unused THEN {"pen"} ELSE {})
Cleaned(q) == IF q.invalid THEN q ELSE Zero

-----------------------------------------------------------------------------
(* uclogic_params_init: the choice by product and interface                *)

\* The labels of pen probing in protocol v.
Label == [v1 |-> [msg |-> "v1_msg", desc |-> "v1_desc", ret |-> "v1_ret"],
          v2 |-> [msg |-> "v2_msg", desc |-> "v2_desc", ret |-> "v2_ret"]]

\* Products that are asked for their parameters.
Asked == {"huion", "g540", "deco01", "g5", "ex07s"}

\* The reports of the fixed descriptor for a product and interface, if any.
OptTable ==
    LET per_iface == [twhl850 |-> <<Twhl850Pen, Twhl850Mouse, Twhl850Keys>>,
                      twha60 |-> <<Twha60Pen, Twha60Keys, {}>>]
        same == [pf1209 |-> Pf1209, wp4030u |-> Wp4030u, wp5540u |-> Wp5540u,
                 wp8060u |-> Wp8060u, wp1062 |-> Wp1062]
    IN IF dev.family \in DOMAIN per_iface THEN per_iface[dev.family][dev.iface + 1]
       ELSE same[dev.family]

InitFrame == UNCHANGED <<dev, caller, drvdata, mode, restored>>

\* Tablets known by their report descriptor.
SelectTables ==
    /\ pc = "switch"
    /\ \/ dev.family \notin Asked \cup {"wp5540u"} /\ UNCHANGED p
          /\ Goto(IF OptTable = {} THEN "output" ELSE "opt_desc")
       \/ /\ dev.family = "wp5540u"
          /\ \/ dev.size # "v2" /\ Goto("opt_desc") /\ UNCHANGED p
             \/ dev.size = "v2" /\ dev.iface = 0 /\ Goto("v1_buf") /\ UNCHANGED p
             \/ dev.size = "v2" /\ dev.iface # 0 /\ Goto("output") /\ p' = Invalid(p)
    /\ UNCHANGED <<found, heap>> /\ InitFrame

\* uclogic_params_huion_init: interface 0 is the pen.
SelectHuion ==
    /\ pc = "switch" /\ dev.family = "huion"
    /\ IF dev.iface = 0 THEN Goto("ver_buf") /\ UNCHANGED p
                        ELSE Goto("output") /\ p' = PenUnused
    /\ UNCHANGED <<found, heap>> /\ InitFrame

\* Ugee and XP-Pen: interface 1 is the pen; the others are kept without a
\* pen or given up as a whole.
SelectUgee ==
    /\ pc = "switch"
    /\ \/ /\ dev.family \in {"g540", "deco01", "g5", "ex07s"} /\ dev.iface = 1
          /\ Goto("v1_buf") /\ UNCHANGED p
       \/ /\ dev.family \in {"g540", "deco01"} /\ dev.iface # 1
          /\ Goto("output") /\ p' = PenUnused
       \/ /\ dev.family \in {"g5", "ex07s"} /\ dev.iface # 1
          /\ Goto("output") /\ p' = Invalid(p)
    /\ UNCHANGED <<found, heap>> /\ InitFrame

\* uclogic_params_init_with_opt_desc
OptDesc ==
    /\ IF dev.size = "orig"
       THEN /\ Alloc("common", "opt_desc", "output", "cleanup")
            /\ p' = IF pc' = "output" THEN [Zero EXCEPT !.has = {"common"}] ELSE p
       ELSE Step("opt_desc", "output") /\ p' = Zero /\ UNCHANGED heap
    /\ UNCHANGED found /\ InitFrame

-----------------------------------------------------------------------------
(* Pen probing: string 100 (v1) or 200 (v2); reading it switches the mode. *)

PenBuf ==
    /\ Alloc("buf", "v1_buf", "v1_msg", "cleanup") \/ Alloc("buf", "v2_buf", "v2_msg", "cleanup")
    /\ UNCHANGED <<p, found>> /\ InitFrame

\* Mutant: the buffer of the answer is forgotten when it is too short.
MutPenMsg(v, answer) ==
    /\ \/ Step(Label[v].msg, "cleanup") /\ heap' = Without(heap, {"buf"}) /\ UNCHANGED <<found, mode>>
       \/ /\ answer # "ok" /\ Step(Label[v].msg, Label[v].ret)
          /\ found' = FALSE /\ UNCHANGED <<heap, mode>>
       \/ /\ answer = "ok" /\ Step(Label[v].msg, Label[v].desc)
          /\ mode' = v /\ UNCHANGED <<found, heap>>
    /\ UNCHANGED <<dev, caller, p, drvdata, restored>>

\* A transfer error ends params_init; no, a short or a textual answer means
\* that the tablet does not speak this protocol.
PenMsg(v, answer) ==
    /\ \/ Step(Label[v].msg, "cleanup") /\ heap' = Without(heap, {"buf"}) /\ UNCHANGED <<found, mode>>
       \/ /\ answer # "ok" /\ Step(Label[v].msg, Label[v].ret)
          /\ heap' = Without(heap, {"buf"}) /\ found' = FALSE /\ UNCHANGED mode
       \/ /\ answer = "ok" /\ Step(Label[v].msg, Label[v].desc)
          /\ mode' = v /\ UNCHANGED <<found, heap>>
    /\ UNCHANGED <<dev, caller, p, drvdata, restored>>

\* uclogic_rdesc_template_apply allocates the pen's part of the descriptor.
PenDesc(v, id) ==
    /\ \/ /\ Step(Label[v].desc, Label[v].ret)
          /\ heap' = [Without(heap, {"buf"}) EXCEPT !["pen"] = @ + 1]
          /\ p' = [p EXCEPT !.has = @ \cup {"pen"}, !.pen = id]
          /\ found' = TRUE
       \/ /\ Step(Label[v].desc, "cleanup")
          /\ heap' = Without(heap, {"buf"}) /\ UNCHANGED <<p, found>>
    /\ InitFrame

\* After v1: each product has its own use for the pen, or the lack of it.
PenV1Ret ==
    /\ pc = "v1_ret"
    /\ LET next == CASE dev.family = "huion" /\ found -> "btn_buf"
                     [] dev.family \in {"g5", "ex07s"} /\ found -> "frame"
                     [] dev.family = "deco01" -> "frame"
                     [] OTHER -> "output"
       IN Goto(next)
    /\ p' = IF ~found /\ dev.family \in {"huion", "g540", "g5", "ex07s"} THEN Invalid(p) ELSE p
    /\ UNCHANGED <<found, heap>> /\ InitFrame

-----------------------------------------------------------------------------
(* The rest of uclogic_params_huion_init                                   *)

VerBuf ==
    /\ Alloc("ver", "ver_buf", "ver_msg", "cleanup")
    /\ UNCHANGED <<p, found>> /\ InitFrame

\* The transition firmware is never asked for string 200.
VerMsg ==
    /\ \/ Step("ver_msg", "cleanup")
       \/ Step("ver_msg", IF dev.transition THEN "v1_buf" ELSE "v2_buf")
    /\ UNCHANGED <<p, found, heap>> /\ InitFrame

PenV2Ret ==
    /\ Step("v2_ret", IF found THEN "frame" ELSE "v1_buf")
    /\ UNCHANGED <<p, found, heap>> /\ InitFrame

\* uclogic_params_frame_init_v1_buttonpad: string 123 turns the buttons on.
BtnBuf ==
    /\ Alloc("str", "btn_buf", "btn_msg", "cleanup")
    /\ UNCHANGED <<p, found>> /\ InitFrame

\* Mutant: frame reports are announced whether the buttons answered or not.
MutBtnMsg ==
    /\ \/ Step("btn_msg", "cleanup") /\ heap' = Without(heap, {"str"}) /\ UNCHANGED <<found, p>>
       \/ /\ dev.s123 # "accepted" /\ Step("btn_msg", "output")
          /\ heap' = Without(heap, {"str"}) /\ found' = FALSE /\ p' = [p EXCEPT !.flag = TRUE]
       \/ dev.s123 = "accepted" /\ Step("btn_msg", "frame") /\ UNCHANGED <<heap, found, p>>
    /\ InitFrame

BtnMsg ==
    /\ \/ Step("btn_msg", "cleanup") /\ heap' = Without(heap, {"str"}) /\ UNCHANGED found
       \/ /\ dev.s123 # "accepted" /\ Step("btn_msg", "output")
          /\ heap' = Without(heap, {"str"}) /\ found' = FALSE
       \/ dev.s123 = "accepted" /\ Step("btn_msg", "frame") /\ UNCHANGED <<heap, found>>
    /\ UNCHANGED p /\ InitFrame

\* The report ID of frame reports that are to be tweaked.
FrameId == CASE dev.family = "huion" -> 247 [] dev.family = "g5" -> 6 [] OTHER -> 0

\* uclogic_params_frame_init_with_desc; only Huion's pen reports carry frame
\* reports.  On the way from string 123 it also lets its buffer go.
Frame ==
    /\ LET h == [heap EXCEPT !["str"] = 0]
       IN \/ /\ Step("frame", "output")
             /\ heap' = [h EXCEPT !["frame"] = @ + 1]
             /\ p' = [p EXCEPT !.has = @ \cup {"frame"}, !.frame = FrameId,
                               !.flag = dev.family = "huion"]
          \/ Step("frame", "cleanup") /\ heap' = h /\ UNCHANGED p
    /\ UNCHANGED found /\ InitFrame

-----------------------------------------------------------------------------
(* The end of uclogic_params_init, and its two callers                     *)

\* The parameters go to the caller and the local copy is cleared.
Output ==
    /\ Step("output", IF caller = "probe" THEN "check" ELSE "resume_cleanup")
    /\ IF caller = "probe" THEN drv' = p /\ p' = Zero ELSE UNCHANGED <<drv, p>>
    /\ heap' = [heap EXCEPT !["ver"] = 0]
    /\ UNCHANGED <<dev, caller, found, desc, mode, restored>>

Cleanup ==
    /\ Step("cleanup", IF caller = "probe" THEN "unbound" ELSE "bound")
    /\ heap' = [Without(heap, CleanupFrees(p)) EXCEPT !["ver"] = 0]
    /\ p' = Cleaned(p)
    /\ restored' = (caller = "probe")
    /\ UNCHANGED <<dev, caller, found, drvdata, mode>>

\* uclogic_resume throws the parameters away.
ResumeCleanup ==
    /\ Step("resume_cleanup", "bound")
    /\ heap' = Without(heap, CleanupFrees(p))
    /\ p' = Zero /\ restored' = TRUE
    /\ UNCHANGED <<dev, caller, found, drvdata, mode>>

-----------------------------------------------------------------------------
(* hid-uclogic-core.c                                                      *)

\* A replacement descriptor that an earlier probe has lost is not followed
\* any further.
Probe ==
    /\ Step("unbound", "switch")
    /\ heap' = [heap EXCEPT !["desc"] = 0]
    /\ caller' = "probe" /\ p' = Zero /\ drv' = Zero /\ desc' = FALSE /\ restored' = TRUE
    /\ UNCHANGED <<dev, found, mode>>

ProbeFrame == UNCHANGED <<dev, caller, p, found, mode, restored>>

ProbeCheck ==
    /\ Step("check", IF drv.invalid THEN "failure" ELSE "get_desc")
    /\ UNCHANGED <<drvdata, heap>> /\ ProbeFrame

\* Mutant: the pen's part is left out.
MutDescParts(q) == q.has \ {"pen"}

\* uclogic_params_get_desc: the parts of the parameters that count.
DescParts(q) == q.has \ (IF q.unused THEN {"pen"} ELSE {})

\* The frame's reports by product; on Huion's the protocol decides.  That of
\* the EX07 follows the pen's part, whose last limits are the pressure's.
FrameTable(q) ==
    CASE dev.family = "huion" -> (IF q.pen = 8 THEN ButtonpadV2 ELSE ButtonpadV1)
      [] dev.family = "deco01" -> Deco01Frame
      [] dev.family = "g5" -> G5Frame
      [] dev.family = "ex07s" -> Ex07Buttonpad(PressureMax)

\* The reports that part k of the descriptor describes.
PartTable(q, k) ==
    CASE k = "common" -> OptTable
      [] k = "pen" -> (IF q.pen = 8 THEN PenV2 ELSE PenV1)
      [] k = "frame" -> FrameTable(q)

GetDesc ==
    /\ IF DescParts(drv) = {}
       THEN Step("get_desc", "parse") /\ UNCHANGED heap
       ELSE Alloc("desc", "get_desc", "parse", "failure")
    /\ desc' = (pc' = "parse" /\ DescParts(drv) # {})
    /\ UNCHANGED drv /\ ProbeFrame

\* hid_parse reads the descriptor through uclogic_report_fixup.
Parse ==
    /\ Step("parse", "start") \/ Step("parse", "failure")
    /\ UNCHANGED <<drvdata, heap>> /\ ProbeFrame

Start ==
    /\ Step("start", "bound") \/ Step("start", "failure")
    /\ UNCHANGED <<drvdata, heap>> /\ ProbeFrame

\* Mutant: the parameters are left for remove to clean up.
MutFailure ==
    /\ Step("failure", "unbound")
    /\ drv' = Zero /\ desc' = FALSE
    /\ UNCHANGED heap /\ ProbeFrame

\* The parameters are cleaned up; drvdata goes with the device's resources,
\* and drvdata->desc_ptr is not looked at.
Failure ==
    /\ Step("failure", "unbound")
    /\ heap' = Without(heap, CleanupFrees(drv))
    /\ drv' = Zero /\ desc' = FALSE
    /\ ProbeFrame

Remove ==
    /\ Step("bound", "unbound")
    /\ heap' = Without(heap, CleanupFrees(drv) \cup (IF desc THEN {"desc"} ELSE {}))
    /\ drv' = Zero /\ desc' = FALSE
    /\ ProbeFrame

\* A suspended tablet may lose its power, and with it its mode.
Suspend ==
    /\ Step("bound", "suspended")
    /\ mode' \in {mode, "mouse"}
    /\ UNCHANGED <<dev, caller, p, found, drvdata, heap, restored>>

\* Mutant: the device is taken to be as it was.
MutResume ==
    /\ Step("suspended", "bound")
    /\ restored' = TRUE
    /\ UNCHANGED <<dev, caller, p, found, drvdata, heap, mode>>

Resume ==
    /\ Step("suspended", "switch")
    /\ caller' = "resume" /\ p' = Zero
    /\ UNCHANGED <<dev, found, drvdata, heap, mode, restored>>

ParamsInit ==
    \/ SelectTables \/ SelectHuion \/ SelectUgee \/ OptDesc
    \/ PenBuf \/ PenMsg("v1", dev.s100) \/ PenMsg("v2", dev.s200)
    \/ PenDesc("v1", 7) \/ PenDesc("v2", 8) \/ PenV1Ret \/ PenV2Ret
    \/ VerBuf \/ VerMsg \/ BtnBuf \/ BtnMsg \/ Frame \/ Output \/ Cleanup

Next ==
    \/ Probe \/ ParamsInit \/ ProbeCheck \/ GetDesc \/ Parse \/ Start \/ Failure
    \/ Remove \/ Suspend \/ Resume \/ ResumeCleanup

Spec == Init /\ [][Next]_vars

-----------------------------------------------------------------------------
AtRest == pc \in {"unbound", "bound", "suspended"}

Params == [invalid : BOOLEAN, unused : BOOLEAN, has : SUBSET Part, pen : {0, 7, 8},
           frame : {0, 6, 247}, flag : BOOLEAN]

PC == {"unbound", "switch", "opt_desc", "v1_buf", "v1_msg", "v1_desc", "v1_ret",
       "v2_buf", "v2_msg", "v2_desc", "v2_ret", "ver_buf", "ver_msg", "btn_buf",
       "btn_msg", "frame", "output", "cleanup", "resume_cleanup", "check",
       "get_desc", "parse", "start", "failure", "bound", "suspended"}

TypeOK ==
    /\ dev \in Device /\ pc \in PC /\ caller \in {"probe", "resume"}
    /\ p \in Params /\ drv \in Params /\ found \in BOOLEAN /\ desc \in BOOLEAN
    /\ heap \in [Kind -> 0..2]
    /\ mode \in {"mouse", "v1", "v2"} /\ restored \in BOOLEAN

IDs(q, k) == IF k \in DescParts(q) THEN {r.id : r \in PartTable(q, k)} ELSE {}
Ref(q, k) == IF k \in q.has THEN 1 ELSE 0

\* Every descriptor part allocated is held by exactly one set of parameters,
\* through every failing allocation and request of params_init, resume's
\* discarding and probe's failure path; no request buffer survives a call.
BlocksAccounted ==
    /\ \A k \in Part : heap[k] = Ref(p, k) + Ref(drv, k)
    /\ AtRest => \A k \in Temp : heap[k] = 0
    /\ desc => heap["desc"] > 0

\* Reports are tweaked (pen.id, frame.id) only on an interface whose report
\* descriptor was replaced by one with the pen or frame part, which describes
\* a report of this ID.
TweaksOwnReports ==
    pc \in {"bound", "suspended"} =>
        /\ drv.pen # 0 => desc /\ drv.pen \in IDs(drv, "pen")
        /\ drv.frame # 0 => desc /\ drv.frame \in IDs(drv, "frame")

\* The parts that are joined to one descriptor describe different reports, so
\* that no field of one shifts those of another, and every report is a whole
\* number of bytes in which each field has room for its limits
\* (hid-uclogic-rdesc.c, joined by hid-uclogic-params.c:565-584).  Only the
\* EX07's frame leans on the order of the parts: its single bits set no limits
\* and have the pen's pressure maximum (hid-uclogic-rdesc.c:577, 704-726).
PartsFitTogether ==
    pc \in {"bound", "suspended"} /\ desc =>
        /\ \A k1, k2 \in DescParts(drv) : k1 # k2 => IDs(drv, k1) \cap IDs(drv, k2) = {}
        /\ \A k \in DescParts(drv) : \A r \in PartTable(drv, k) :
               /\ Length(r) % 8 = 0
               /\ \A i \in DOMAIN r.fields :
                      \/ Fits(r.fields[i])
                      \/ k = "frame" /\ dev.family = "ex07s" /\ r.fields[i].size = 1
               /\ \A r2 \in PartTable(drv, k) : r.id = r2.id => r = r2

\* The bits that uclogic_raw_event reads and writes by number are those of the
\* fields in the descriptor it was given: bit 0x40 of a pen report is its
\* range; bit 0x20 belongs to no field of the pen's where it tells frame
\* controls, and to none of theirs once the ID is changed, with as many bytes;
\* the pad's device ID and the encoder are where the G5's frame says.
TweaksFit ==
    pc \in {"bound", "suspended"} =>
        /\ drv.pen # 0 => \A r \in PartTable(drv, "pen") : FieldAt(r, 6).use = "inrange"
        /\ drv.flag => \A r1 \in PartTable(drv, "pen"), r2 \in PartTable(drv, "frame") :
               /\ FieldAt(r1, 5).use = "pad" /\ FieldAt(r2, 5).use = "pad"
               /\ Length(r1) = Length(r2)
        /\ dev.family = "g5" /\ drv.frame # 0 => \A r \in PartTable(drv, "frame") :
               /\ FieldAt(r, 8 * (G5DevIdByte - 1)).use = "dev_id"
               /\ FieldAt(r, G5ReLsb - 8) = Notch("wheel", 2, 1)
               /\ FieldAt(r, G5ReLsb - 9).use # "wheel"

\* The parameters of a bound interface are of one of the kinds that
\* UclogicKinds lists and raw_event is modelled for.  In none of them are frame
\* controls looked for in pen reports unless both IDs are known
\* (hid-uclogic-params.h:150-153).
KindKnown ==
    pc \in {"bound", "suspended"} => \E k \in Kinds :
        LET par == KindParams[k]
        IN <<drv.unused, drv.pen, drv.frame, drv.flag>> = <<par.unused, par.pen, par.frame, par.flag>>

\* While the interface is bound and awake the tablet is in the mode whose
\* reports probe has prepared for, even after any number of suspends that
\* reset it, unless resume has reported a failure.
ModeMatches ==
    pc = "bound" /\ restored => /\ drv.pen = 7 => mode = "v1"
                                /\ drv.pen = 8 => mode = "v2"

\* "Assume "remove" might not be called if "probe" failed" (236): what a failed
\* probe has allocated is gone when it returns.
NothingLost == pc = "unbound" => \A k \in Kind : heap[k] = 0

-----------------------------------------------------------------------------
(* The inductive invariant behind these properties.                        *)

\* The ID of the pen that an interface has for the driver, found again by each
\* params_init that does not fail.
PenID ==
    LET v1 == IF dev.s100 = "ok" THEN 7 ELSE 0
    IN CASE dev.family = "huion" /\ dev.iface = 0 ->
                (IF ~dev.transition /\ dev.s200 = "ok" THEN 8 ELSE v1)
         [] dev.family = "wp5540u" /\ dev.size = "v2" /\ dev.iface = 0 -> v1
         [] dev.family \in {"g540", "deco01", "g5", "ex07s"} /\ dev.iface = 1 -> v1
         [] OTHER -> 0

\* The parameters on the way, and those that params_init may end with.
Common == [Zero EXCEPT !.has = {"common"}]
PenOnly(id) == [Zero EXCEPT !.has = {"pen"}, !.pen = id]
Framed(q) ==
    [q EXCEPT !.has = @ \cup {"frame"}, !.frame = FrameId, !.flag = dev.family = "huion"]
Unframed ==
    CASE dev.family = "huion" -> {PenOnly(7), PenOnly(8)}
      [] dev.family = "deco01" -> {Zero, PenOnly(7)}
      [] dev.family \in {"g5", "ex07s"} -> {PenOnly(7)}
      [] OTHER -> {}
Outcomes ==
    {Zero, Invalid(Zero), PenUnused, Common, PenOnly(7)} \cup {Framed(q) : q \in Unframed}

V1PC == {"v1_buf", "v1_msg", "v1_desc", "v1_ret"}
V2PC == {"v2_buf", "v2_msg", "v2_desc", "v2_ret"}
BlankPC == {"switch", "opt_desc", "v1_buf", "v1_msg", "v1_desc", "v2_buf", "v2_msg", "v2_desc",
            "ver_buf", "ver_msg"}
InitPC == BlankPC \cup {"v1_ret", "v2_ret", "btn_buf", "btn_msg", "frame", "output", "cleanup"}

\* drv are the parameters of an interface that is, or may still be, bound.
Settled == \/ pc \in {"parse", "start", "bound", "suspended"}
           \/ (caller = "resume" /\ pc \in InitPC \cup {"resume_cleanup"})

\* The parameters under construction follow params_init.
ParamsInv ==
    /\ pc \notin InitPC \ BlankPC /\ pc # "resume_cleanup" => p = Zero
    /\ pc = "v1_ret" => p = (IF found THEN PenOnly(7) ELSE Zero)
    /\ pc = "v2_ret" => p = (IF found THEN PenOnly(8) ELSE Zero)
    /\ pc \in {"btn_buf", "btn_msg"} => p = PenOnly(7)
    /\ pc = "frame" => p \in Unframed
    /\ pc = "cleanup" => p \in {Zero, PenOnly(7), PenOnly(8)}
    /\ pc \in {"output", "resume_cleanup"} => p \in Outcomes

\* So does what is known of the tablet.
PathInv ==
    /\ pc = "opt_desc" => PenID = 0
    /\ pc \in V1PC => PenID = (IF dev.s100 = "ok" THEN 7 ELSE 0)
    /\ pc \in V2PC => PenID = 8 <=> dev.s200 = "ok"
    /\ pc \in V2PC \cup {"ver_buf", "ver_msg"} => dev.family = "huion" /\ dev.iface = 0
    /\ pc \in V2PC => ~dev.transition
    /\ pc = "v1_desc" => dev.s100 = "ok" /\ mode = "v1"
    /\ pc = "v2_desc" => dev.s200 = "ok" /\ mode = "v2"
    /\ pc = "v1_ret" => (found <=> dev.s100 = "ok")
    /\ pc = "v2_ret" => (found <=> dev.s200 = "ok")
    /\ pc \in {"btn_buf", "btn_msg"} => dev.family = "huion"
    /\ pc \in {"btn_buf", "btn_msg", "frame", "output", "resume_cleanup"} => p.pen = PenID
    /\ pc = "resume_cleanup" => caller = "resume"

\* drvdata holds an outcome of params_init, and a replacement descriptor when
\* that has parts for one.
DrvInv ==
    /\ drv \in Outcomes
    /\ pc \in {"check", "get_desc"} \/ Settled => drv.pen = PenID
    /\ pc = "get_desc" \/ Settled => ~drv.invalid
    /\ Settled => (desc <=> DescParts(drv) # {})
    /\ pc \in {"check", "get_desc"} \cup InitPC /\ ~Settled => ~desc
    /\ pc = "unbound" \/ (pc \in InitPC /\ ~Settled) => drv = Zero

\* So the blocks are accounted for at every step, not at rest only.
PartsInv == \A k \in Part : heap[k] = Ref(p, k) + Ref(drv, k)
TempsInv ==
    /\ heap["buf"] = (IF pc \in {"v1_msg", "v1_desc", "v2_msg", "v2_desc"} THEN 1 ELSE 0)
    /\ heap["str"] \in {0, 1} /\ (heap["str"] = 1 => pc \in {"btn_msg", "frame"})
    /\ pc = "btn_msg" => heap["str"] = 1
    /\ heap["ver"] \in {0, 1}
    /\ heap["ver"] = 1 => pc \in InitPC \ {"switch", "opt_desc", "ver_buf"}
DescInv ==
    /\ heap["desc"] \in {0, 1} /\ (desc => heap["desc"] = 1)
    /\ pc \in {"check", "get_desc"} \cup InitPC /\ ~Settled => heap["desc"] = 0

\* Whoever knows a pen was the last to ask for its string.
ModeOf(q) == (q.pen = 7 => mode = "v1") /\ (q.pen = 8 => mode = "v2")
ModeInv ==
    /\ ModeOf(p)
    /\ pc \in {"check", "get_desc", "parse", "start"} \/ (pc = "bound" /\ restored) => ModeOf(drv)

\* Only a product that is asked nothing gets a fixed descriptor.
TablesInv ==
    /\ pc = "opt_desc" => dev.family \notin Asked
    /\ "common" \in p.has \cup drv.has => dev.family \notin Asked

IInv ==
    TypeOK /\ ParamsInv /\ PathInv /\ DrvInv /\ PartsInv /\ TempsInv /\ DescInv /\ ModeInv
=============================================================================
