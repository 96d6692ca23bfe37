---------------------------- MODULE UclogicReport ----------------------------
(***************************************************************************)
(* uclogic_raw_event of hid-uclogic-core.c: how the reports of a tablet    *)
(* are rewritten before the HID core takes them apart by their descriptor. *)
(* A report is a record of the parts that the code reads or writes; the    *)
(* bytes of coordinates and pressure are named by what they hold.  Along   *)
(* with the rewriting goes the rotary encoder, of which the driver knows   *)
(* the last state only.                                                    *)
(***************************************************************************)
EXTENDS Integers, UclogicKinds

VARIABLES
    kind,           \* the parameters of the interface
    dial,           \* the Gray-coded state of the rotary encoder
    dir,            \* the way the dial last turned: 1 or -1
    re_state,       \* drvdata->re_state
    lag,            \* quarter steps turned, less twice the changes reported
    sent,           \* what the user did, and the report the tablet sent
    got,            \* that report as the HID core gets it
    restarted       \* it has restarted the in-range timer

vars == <<kind, dial, dir, re_state, lag, sent, got, restarted>>

\* Bytes 2 to 9: the low and high bytes of X, Y and pressure, and v2's third
\* bytes of X and Y.
Ordered == [n \in 2..9 |-> <<"x0", "x1", "y0", "y1", "p0", "p1", "x2", "y2">>[n - 1]]
\* Where the descriptors of v1 and v2 reports look for them.
Described == [n \in 2..9 |-> <<"x0", "x1", "x2", "y0", "y1", "y2", "p0", "p1">>[n - 1]]

\* A report: its ID, its length, bits 0x20 and 0x40 of byte 1, the bytes, the
\* device ID byte and the two bits of the encoder.
Report(id, size, b20, b40, re) ==
    [id |-> id, size |-> size, b20 |-> b20, b40 |-> b40,
     bytes |-> Ordered, dev_id |-> 0, re |-> re]

-----------------------------------------------------------------------------
(* uclogic_raw_event: par is drvdata->params, r the report                 *)

PenReport(par, r) == ~par.unused /\ r.id = par.pen /\ r.size >= 2

\* Mutant: the virtual report is recognised by the flag of any report.
MutVirtualReport(par, r) == par.frame # 0 /\ r.b20

VirtualReport(par, r) == par.frame # 0 /\ par.flag /\ r.b20

\* Mutant: the high byte of Y is overwritten before it is moved.
MutHires(b0) ==
    LET b1 == [b0 EXCEPT ![5] = b0[4]]
        b2 == [b1 EXCEPT ![6] = b1[5]]
        b3 == [b2 EXCEPT ![4] = b2[8]]
        b4 == [b3 EXCEPT ![7] = b3[9]]
    IN [b4 EXCEPT ![8] = b0[6], ![9] = b0[7]]

\* The bytes are moved one by one, within the report.
Hires(b0) ==
    LET b1 == [b0 EXCEPT ![6] = b0[5]]
        b2 == [b1 EXCEPT ![5] = b1[4]]
        b3 == [b2 EXCEPT ![4] = b2[8]]
        b4 == [b3 EXCEPT ![7] = b3[9]]
    IN [b4 EXCEPT ![8] = b0[6], ![9] = b0[7]]

TweakPen(par, r) ==
    [r EXCEPT !.b40 = IF par.inrange = "inverted" THEN ~r.b40
                      ELSE par.inrange = "none" \/ r.b40,
              !.bytes = IF par.hires /\ r.size >= 10 THEN Hires(r.bytes) ELSE r.bytes]

\* Mutant: every transition into a resting state counts by itself.
MutChange(prev, state) ==
    IF prev = 1 /\ state = 0 THEN 1
    ELSE IF prev = 2 /\ state = 0 THEN 3
    ELSE 0

\* A two-bit signed integer: 3 is -1.
Change(prev, state) ==
    IF (prev = 1 /\ state = 0) \/ (prev = 2 /\ state = 3) THEN 1
    ELSE IF (prev = 2 /\ state = 0) \/ (prev = 1 /\ state = 3) THEN 3
    ELSE 0

Signed(c) == IF c = 3 THEN -1 ELSE c

\* Bytes 2 (the device ID) and 4 (the encoder) of the report.
FrameReport(par, r) == r.id = par.frame
SetsDevId(par, r) == FrameReport(par, r) /\ par.dev_id /\ 2 < r.size
ReadsEncoder(par, r) == FrameReport(par, r) /\ par.re /\ 4 < r.size

TweakFrame(par, r, prev) ==
    [r EXCEPT !.dev_id = IF SetsDevId(par, r) THEN 15 ELSE r.dev_id,
              !.re = IF ReadsEncoder(par, r) THEN Change(prev, r.re) ELSE r.re]

Remembered(par, r, prev) == IF ReadsEncoder(par, r) THEN r.re ELSE prev

\* What the user did (what, near) arrives as report r.
RawEvent(what, near, r) ==
    LET par == KindParams[kind]
        virtual == PenReport(par, r) /\ VirtualReport(par, r)
        out == IF PenReport(par, r) THEN TweakPen(par, r) ELSE r
    IN /\ sent' = [what |-> what, near |-> near, raw |-> r]
       /\ IF virtual
          THEN /\ got' = [r EXCEPT !.id = par.frame]
               /\ restarted' = FALSE /\ UNCHANGED re_state
          ELSE /\ got' = TweakFrame(par, out, re_state)
               /\ restarted' = (PenReport(par, r) /\ par.inrange = "none")
               /\ re_state' = Remembered(par, r, re_state)

-----------------------------------------------------------------------------
(* The tablet and its user                                                 *)

PenSize(par) == IF par.hires THEN 12 ELSE 8

\* A report of the pen: v1 pens report their range inverted, v2 pens not at
\* all.  Bit 0x20 means nothing unless frame controls come this way.  A
\* transfer may be cut short.
Pen(near, b20, short) ==
    LET par == KindParams[kind]
    IN /\ par.flag => ~b20
       /\ RawEvent("pen", near \/ par.inrange = "none",
                   Report(par.pen, IF short THEN 1 ELSE PenSize(par), b20,
                          IF par.inrange = "inverted" THEN ~near
                          ELSE par.inrange = "normal" /\ near, 0))
       /\ UNCHANGED <<kind, dial, dir, lag>>

\* A button of the frame, in a report of the pen's or in one of its own, which
\* carries the state of the encoder.
Button(short) ==
    LET par == KindParams[kind]
        r == Report(IF par.flag THEN par.pen ELSE par.frame,
                    IF short THEN 1 ELSE IF par.flag THEN PenSize(par) ELSE 5, par.flag, FALSE,
                    IF par.re THEN dial ELSE 0)
    IN /\ par.frame # 0
       /\ RawEvent("frame", FALSE, r)
       /\ UNCHANGED <<kind, dial, dir, lag>>

\* The states of the encoder in the order of a turn.
Turned(s, d) ==
    IF d = 1 THEN <<2, 0, 3, 1>>[s + 1] ELSE <<1, 3, 0, 2>>[s + 1]

\* The dial rests at its detents.
Detents == {0, 3}

\* A quarter step of the dial, reported; it turns back only at a detent.
Turn(d) ==
    LET par == KindParams[kind]
        state == Turned(dial, d)
        r == Report(par.frame, 5, FALSE, FALSE, state)
    IN /\ par.re
       /\ dial \in Detents \/ d = dir
       /\ dial' = state /\ dir' = d
       /\ RawEvent("frame", FALSE, r)
       /\ lag' = lag + d - 2 * Signed(got'.re)
       /\ UNCHANGED kind

\* The dial is turned while the tablet is suspended and nobody listens.
TurnUnheard ==
    /\ KindParams[kind].re /\ dial \in Detents
    /\ dial' \in Detents
    /\ UNCHANGED <<kind, dir, re_state, lag, sent, got, restarted>>

Init ==
    /\ kind \in Kinds
    /\ dial \in Detents /\ dir = 1 /\ lag = 0
    /\ re_state = 255
    /\ got = Report(0, 0, FALSE, FALSE, 0)
    /\ sent = [what |-> "nothing", near |-> FALSE, raw |-> got]
    /\ restarted = FALSE

Reported ==
    \/ \E near, b20, short \in BOOLEAN : Pen(near, b20, short)
    \/ \E short \in BOOLEAN : Button(short)
    \/ \E d \in {1, -1} : Turn(d)

Next == Reported \/ TurnUnheard

Spec == Init /\ [][Next]_vars

-----------------------------------------------------------------------------
TypeOK ==
    /\ kind \in Kinds
    /\ dial \in 0..3 /\ dir \in {1, -1} /\ re_state \in {0, 1, 2, 3, 255}
    /\ lag \in Int /\ restarted \in BOOLEAN
    /\ sent.what \in {"nothing", "pen", "frame"} /\ sent.near \in BOOLEAN

\* What a whole report had room for.
Whole == sent.raw.size # 1

\* Every byte of a pen report ends where the descriptor looks for it, though
\* the bytes of v2 reports are moved in place (294-309).
BytesInPlace ==
    sent.what = "pen" /\ Whole =>
        IF KindParams[kind].hires THEN got.bytes = Described ELSE got.bytes = Ordered

\* On a tablet, what the pen does reaches the HID core as a pen report with
\* the pen's true range, and what the frame does as a report of the frame,
\* though both may come with the same ID; only the pen restarts the in-range
\* timer, so that pressing a button does not keep a pen in range that left
\* (272-318).
RightDevice ==
    kind \in Tablets /\ Whole =>
        /\ sent.what = "pen" => got.id = KindParams[kind].pen /\ got.b40 = sent.near
        /\ sent.what = "frame" => got.id = KindParams[kind].frame
        /\ restarted => sent.what = "pen"

\* Whenever the dial rests, the changes reported so far add up to the detents
\* it has passed, whatever other reports and suspends came between (336-352).
RotationExact == dial \in Detents => lag = 0

-----------------------------------------------------------------------------
\* The inductive invariant of the encoder: between detents the driver knows
\* the dial's state and is half a detent behind; at a detent it has forgotten
\* nothing that still counts.
DialInv ==
    /\ TypeOK
    /\ dial \in Detents => lag = 0 /\ re_state \in {0, 3, 255}
    /\ dial \notin Detents => lag = dir /\ (re_state = dial)
=============================================================================
