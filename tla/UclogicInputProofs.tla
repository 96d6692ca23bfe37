------------------------- MODULE UclogicInputProofs -------------------------
(***************************************************************************)
(* The rotary encoder of uclogic_raw_event loses and invents no detent, for *)
(* every history of turns, buttons, pen reports and suspends; the pen's     *)
(* bytes arrive where the descriptor says, and every report at the device   *)
(* that it is about.  All of that holds through the sessions of an          *)
(* interface, whose input devices are claimed as a whole or not at all.     *)
(***************************************************************************)
EXTENDS UclogicInput, TLAPS, WellFoundedInduction

\* The bytes of a high-resolution report, moved one by one within it, end in
\* the order of the v2 descriptor.
LEMMA HiresOrders == Hires(Ordered) = Described
  BY DEF Hires, Ordered, Described

\* Of the six kinds of interfaces only the G5 has an encoder, whose reports
\* are not the pen's.
LEMMA EncoderIsG5 ==
  ASSUME NEW k \in Kinds
  PROVE  /\ KindParams[k].re <=> k = "g5"
         /\ k = "g5" => KindParams[k].frame = 6 /\ KindParams[k].pen = 7 /\ KindParams[k].flag = FALSE
<1>1. Noop.re = FALSE /\ [Noop EXCEPT !.unused = TRUE].re = FALSE
  BY DEF Noop
<1>2. /\ V1.re = FALSE /\ [V1 EXCEPT !.flag = TRUE, !.frame = 247].re = FALSE
      /\ [V1 EXCEPT !.frame = 6, !.dev_id = TRUE, !.re = TRUE].re = TRUE
      /\ [V1 EXCEPT !.frame = 6, !.dev_id = TRUE, !.re = TRUE].pen = 7
      /\ [V1 EXCEPT !.frame = 6, !.dev_id = TRUE, !.re = TRUE].frame = 6
      /\ [V1 EXCEPT !.frame = 6, !.dev_id = TRUE, !.re = TRUE].flag = FALSE
  BY DEF V1, Noop
<1>3. [V2 EXCEPT !.flag = TRUE, !.frame = 247].re = FALSE
  BY DEF V2, Noop
<1>4. /\ KindParams["plain"].re = FALSE /\ KindParams["mouse"].re = FALSE /\ KindParams["v1"].re = FALSE
      /\ KindParams["v1_buttons"].re = FALSE /\ KindParams["v2_buttons"].re = FALSE
  BY <1>1, <1>2, <1>3 DEF KindParams
<1>5. /\ KindParams["g5"].re = TRUE /\ KindParams["g5"].frame = 6 /\ KindParams["g5"].pen = 7
      /\ KindParams["g5"].flag = FALSE
  BY <1>2 DEF KindParams
<1>6. k \in {"plain", "mouse", "v1", "v1_buttons", "v2_buttons", "g5"}
  BY DEF Kinds
<1> QED BY <1>4, <1>5, <1>6

LEMMA InitDial == Init => DialInv
<1> SUFFICES ASSUME Init PROVE DialInv
  OBVIOUS
<1>1. sent.what = "nothing" /\ sent.near = FALSE
  BY DEF Init
<1>2. kind \in Kinds /\ dial \in {0, 3} /\ dir = 1 /\ lag = 0 /\ re_state = 255 /\ restarted = FALSE
  BY DEF Init, Detents
<1>3. TypeOK
  <2>1. dial \in 0..3 /\ dir \in {1, -1} /\ re_state \in {0, 1, 2, 3, 255} /\ lag \in Int
    BY <1>2
  <2> QED BY <1>1, <1>2, <2>1, Zenon DEF TypeOK
<1> QED BY <1>2, <1>3 DEF DialInv, Detents

\* The record of the last report keeps its type.
LEMMA RawEventType ==
  ASSUME NEW what \in {"pen", "frame"}, NEW near \in BOOLEAN, NEW r, RawEvent(what, near, r)
  PROVE  sent'.what \in {"nothing", "pen", "frame"} /\ sent'.near \in BOOLEAN /\ restarted' \in BOOLEAN
<1>1. sent'.what = what /\ sent'.near = near
  BY DEF RawEvent
<1>2. restarted' \in BOOLEAN
  BY Zenon DEF RawEvent
<1> QED BY <1>1, <1>2

\* A report that is not the G5's frame report, or too short, leaves the
\* encoder's state alone.
LEMMA EncoderIgnored ==
  ASSUME NEW what, NEW near, NEW r, RawEvent(what, near, r), kind \in Kinds,
         kind # "g5" \/ r.id = 7 \/ r.size = 1
  PROVE  re_state' = re_state
<1> DEFINE q == KindParams[kind]
<1>1. ~ReadsEncoder(q, r)
  <2>1. CASE kind # "g5"
    <3>1. ~q.re
      BY <2>1, EncoderIsG5
    <3> QED BY <3>1 DEF ReadsEncoder
  <2>2. CASE kind = "g5" /\ r.id = 7
    <3>1. q.frame = 6
      BY <2>2, EncoderIsG5
    <3> QED BY <2>2, <3>1 DEF ReadsEncoder, FrameReport
  <2>3. CASE r.size = 1
    BY <2>3 DEF ReadsEncoder
  <2> QED BY <2>1, <2>2, <2>3
<1> QED BY <1>1 DEF RawEvent, Remembered

\* A whole frame report of the G5 is read, its change written in its place.
LEMMA EncoderRead ==
  ASSUME NEW what, NEW near, NEW b20, NEW b40, NEW re, kind = "g5",
         RawEvent(what, near, Report(6, 5, b20, b40, re))
  PROVE  re_state' = re /\ got'.re = Change(re_state, re)
<1> DEFINE q == KindParams[kind]
           r == Report(6, 5, b20, b40, re)
<1>1. /\ q.re /\ q.frame = 6 /\ q.pen = 7
      /\ r.id = 6 /\ r.size = 5 /\ r.re = re /\ "re" \in DOMAIN r
  BY EncoderIsG5 DEF Kinds, Report
<1>2. ~PenReport(q, r) /\ ReadsEncoder(q, r)
  BY <1>1 DEF PenReport, ReadsEncoder, FrameReport
<1>3. re_state' = re
  BY <1>1, <1>2 DEF RawEvent, Remembered
<1>4. got' = TweakFrame(q, r, re_state)
  BY <1>2 DEF RawEvent
<1>5. TweakFrame(q, r, re_state).re = Change(re_state, re)
  BY <1>1, <1>2 DEF TweakFrame, Report
<1> QED BY <1>3, <1>4, <1>5

\* A step that does not turn the dial keeps the invariant, whether the driver
\* reads the encoder or not.
LEMMA DialKept ==
  ASSUME DialInv, NEW what \in {"pen", "frame"}, NEW near \in BOOLEAN, NEW r,
         RawEvent(what, near, r), UNCHANGED <<kind, dial, dir, lag>>,
         re_state' = re_state \/ re_state' = dial
  PROVE  DialInv'
<1>1. sent'.what \in {"nothing", "pen", "frame"} /\ sent'.near \in BOOLEAN /\ restarted' \in BOOLEAN
  BY RawEventType
<1>2. dial \in 0..3 /\ re_state \in {0, 1, 2, 3, 255}
  BY DEF DialInv, TypeOK
<1>3. re_state' \in {0, 1, 2, 3, 255}
  BY <1>2
<1>4. TypeOK'
  BY <1>1, <1>3 DEF DialInv, TypeOK
<1>5. dial' \in Detents => lag' = 0 /\ re_state' \in {0, 3, 255}
  BY DEF DialInv, Detents
<1>6. dial' \notin Detents => lag' = dir' /\ re_state' = dial'
  BY DEF DialInv
<1> QED BY <1>4, <1>5, <1>6 DEF DialInv

\* The pen's reports leave the encoder alone.
LEMMA PenKeepsDial ==
  ASSUME DialInv, NEW near \in BOOLEAN, NEW b20 \in BOOLEAN, NEW short \in BOOLEAN,
         Pen(near, b20, short)
  PROVE  DialInv'
<1> DEFINE q == KindParams[kind]
           near1 == near \/ q.inrange = "none"
           r == Report(q.pen, IF short THEN 1 ELSE PenSize(q), b20,
                       IF q.inrange = "inverted" THEN ~near
                       ELSE q.inrange = "normal" /\ near, 0)
<1>1. kind \in Kinds
  BY DEF DialInv, TypeOK
<1>2. RawEvent("pen", near1, r) /\ UNCHANGED <<kind, dial, dir, lag>>
  BY Zenon DEF Pen
<1>3. near1 \in BOOLEAN
  BY Zenon
<1>4. r.id = q.pen
  BY DEF Report
<1>5. kind # "g5" \/ r.id = 7
  BY <1>1, <1>4, EncoderIsG5
<1> HIDE DEF q, near1, r
<1>6. re_state' = re_state
  BY <1>1, <1>2, <1>5, EncoderIgnored
<1> QED BY <1>2, <1>3, <1>6, DialKept

\* A button's report carries the state that the encoder is in, or is too short
\* to carry one.
LEMMA ButtonKeepsDial ==
  ASSUME DialInv, NEW short \in BOOLEAN, Button(short)
  PROVE  DialInv'
<1> DEFINE q == KindParams[kind]
           r == Report(IF q.flag THEN q.pen ELSE q.frame,
                       IF short THEN 1 ELSE IF q.flag THEN PenSize(q) ELSE 5, q.flag, FALSE,
                       IF q.re THEN dial ELSE 0)
<1>1. kind \in Kinds
  BY DEF DialInv, TypeOK
<1>2. RawEvent("frame", FALSE, r) /\ UNCHANGED <<kind, dial, dir, lag>>
  BY Zenon DEF Button
<1>3. re_state' = re_state \/ re_state' = dial
  <2>1. CASE kind # "g5"
    <3> HIDE DEF r
    <3> QED BY <1>1, <1>2, <2>1, EncoderIgnored
  <2>2. CASE kind = "g5" /\ short
    <3>1. r.size = 1
      BY <2>2 DEF Report
    <3> HIDE DEF r
    <3> QED BY <1>1, <1>2, <3>1, EncoderIgnored
  <2>3. CASE kind = "g5" /\ ~short
    <3>1. r = Report(6, 5, FALSE, FALSE, dial)
      BY <1>1, <2>3, EncoderIsG5
    <3>2. RawEvent("frame", FALSE, Report(6, 5, FALSE, FALSE, dial))
      BY <1>2, <3>1
    <3> QED BY <2>3, <3>2, EncoderRead
  <2> QED BY <2>1, <2>2, <2>3
<1> HIDE DEF r
<1> QED BY <1>2, <1>3, DialKept

LEMMA TurnKeepsDial ==
  ASSUME DialInv, NEW d \in {1, -1}, Turn(d)
  PROVE  DialInv'
<1>1. kind \in Kinds /\ kind = "g5"
  BY EncoderIsG5 DEF Turn, DialInv, TypeOK
<1> DEFINE state == Turned(dial, d)
<1>2. KindParams[kind].frame = 6
  BY <1>1, EncoderIsG5
<1>3. /\ dial' = state /\ dir' = d /\ lag' = lag + d - 2 * Signed(got'.re) /\ kind' = kind
      /\ dial \in Detents \/ d = dir
      /\ RawEvent("frame", FALSE, Report(6, 5, FALSE, FALSE, state))
  BY <1>2 DEF Turn
<1>4. re_state' = state /\ got'.re = Change(re_state, state)
  BY <1>1, <1>3, EncoderRead
<1>5. sent'.what \in {"nothing", "pen", "frame"} /\ sent'.near \in BOOLEAN /\ restarted' \in BOOLEAN
  BY <1>3, RawEventType
<1>6. /\ state \in 0..3
      /\ dial = 0 => state = (IF d = 1 THEN 2 ELSE 1)
      /\ dial = 1 => state = (IF d = 1 THEN 0 ELSE 3)
      /\ dial = 2 => state = (IF d = 1 THEN 3 ELSE 0)
      /\ dial = 3 => state = (IF d = 1 THEN 1 ELSE 2)
  BY DEF Turned, DialInv, TypeOK
<1>7. /\ dial \in {0, 3} => state \in {1, 2} /\ lag' = d
      /\ dial \in {1, 2} => state \in {0, 3} /\ lag' = 0
  BY <1>3, <1>4, <1>6 DEF DialInv, TypeOK, Detents, Change, Signed
<1> QED BY <1>1, <1>3, <1>4, <1>5, <1>6, <1>7 DEF DialInv, TypeOK, Detents

\* Turning the dial while nobody listens leaves it at a detent, where the
\* remembered state does not count.
LEMMA UnheardKeepsDial ==
  ASSUME DialInv, TurnUnheard
  PROVE  DialInv'
<1>1. dial' \in {0, 3} /\ dial \in {0, 3} /\ UNCHANGED <<kind, dir, re_state, lag, sent, restarted>>
  BY DEF TurnUnheard, Detents
<1>2. TypeOK'
  <2>1. dial' \in 0..3
    BY <1>1
  <2>2. TypeOK
    BY DEF DialInv
  <2> QED BY <1>1, <2>1, <2>2, Zenon DEF TypeOK
<1>3. lag' = 0 /\ re_state' \in {0, 3, 255}
  BY <1>1 DEF DialInv, Detents
<1> QED BY <1>1, <1>2, <1>3, Zenon DEF DialInv, Detents

LEMMA NextDial == DialInv /\ [Next]_vars => DialInv'
<1> SUFFICES ASSUME DialInv, [Next]_vars PROVE DialInv'
  OBVIOUS
<1>1. CASE \E near, b20, short \in BOOLEAN : Pen(near, b20, short)
  BY <1>1, PenKeepsDial
<1>2. CASE \E short \in BOOLEAN : Button(short)
  BY <1>2, ButtonKeepsDial
<1>3. CASE \E d \in {1, -1} : Turn(d)
  BY <1>3, TurnKeepsDial
<1>4. CASE TurnUnheard
  BY <1>4, UnheardKeepsDial
<1>5. CASE UNCHANGED vars
  <2>1. UNCHANGED <<kind, dial, dir, re_state, lag, sent, restarted>>
    BY <1>5 DEF vars
  <2>2. TypeOK /\ UNCHANGED <<kind, dial, dir, re_state, lag, sent, restarted>> => TypeOK'
    BY DEF TypeOK
  <2>3. TypeOK'
    BY <2>1, <2>2 DEF DialInv
  <2>4. /\ dial' \in Detents => lag' = 0 /\ re_state' \in {0, 3, 255}
        /\ dial' \notin Detents => lag' = dir' /\ re_state' = dial'
    BY <2>1 DEF DialInv
  <2> QED BY <2>3, <2>4, Zenon DEF DialInv, Detents
<1> QED BY <1>1, <1>2, <1>3, <1>4, <1>5 DEF Next, Reported

\* In every reachable state the driver knows the encoder's state between
\* detents and is half a detent behind, and at a detent it owes nothing
\* (uclogic_raw_event 336-352).
THEOREM DialInductive == Spec => []DialInv
<1> QED BY InitDial, NextDial, PTL DEF Spec

\* The changes reported for the dial are the detents it has passed, for every
\* history of turns, buttons, pen reports, short transfers and suspends
\* (uclogic_raw_event 336-352).
THEOREM RotationIsExact == Spec => []RotationExact
<1>1. DialInv => RotationExact
  BY DEF DialInv, RotationExact
<1> QED BY <1>1, DialInductive, PTL

\* A report of a pen whose coordinates come in three bytes has room for them;
\* the interface with the unused pen reports no such coordinates.
LEMMA HiresHasRoom ==
  ASSUME NEW k \in Kinds
  PROVE  /\ PenSize(KindParams[k]) = IF KindParams[k].hires THEN 12 ELSE 8
         /\ k # "mouse" => KindParams[k].unused = FALSE
         /\ k = "mouse" => KindParams[k].hires = FALSE
         /\ KindParams[k].flag \in BOOLEAN /\ KindParams[k].hires \in BOOLEAN
<1>1. /\ KindParams["plain"] = Noop /\ KindParams["mouse"] = [Noop EXCEPT !.unused = TRUE]
      /\ KindParams["v1"] = V1 /\ KindParams["v1_buttons"] = [V1 EXCEPT !.flag = TRUE, !.frame = 247]
      /\ KindParams["v2_buttons"] = [V2 EXCEPT !.flag = TRUE, !.frame = 247]
      /\ KindParams["g5"] = [V1 EXCEPT !.frame = 6, !.dev_id = TRUE, !.re = TRUE]
  BY DEF KindParams
<1>2. \A x \in {"plain", "mouse"} : KindParams[x].flag = FALSE /\ KindParams[x].hires = FALSE
  BY <1>1 DEF Noop
<1>3. KindParams["plain"].unused = FALSE
  BY <1>1 DEF Noop
<1>4. /\ KindParams["v1"].flag = FALSE /\ KindParams["v1"].hires = FALSE /\ KindParams["v1"].unused = FALSE
      /\ KindParams["v1_buttons"].flag = TRUE /\ KindParams["v1_buttons"].hires = FALSE
      /\ KindParams["v1_buttons"].unused = FALSE
      /\ KindParams["g5"].flag = FALSE /\ KindParams["g5"].hires = FALSE /\ KindParams["g5"].unused = FALSE
  BY <1>1 DEF V1, Noop
<1>5. /\ KindParams["v2_buttons"].flag = TRUE /\ KindParams["v2_buttons"].hires = TRUE
      /\ KindParams["v2_buttons"].unused = FALSE
  BY <1>1 DEF V2, Noop
<1>6. k \in {"plain", "mouse", "v1", "v1_buttons", "v2_buttons", "g5"}
  BY DEF Kinds
<1> QED BY <1>2, <1>3, <1>4, <1>5, <1>6 DEF PenSize

\* What the two parts of uclogic_raw_event leave of a report's bytes.
LEMMA TweakedBytes ==
  ASSUME NEW q, NEW prev, NEW id, NEW size, NEW b, NEW c
  PROVE  LET r == Report(id, size, b, c, 0)
         IN /\ TweakFrame(q, r, prev).bytes = Ordered
            /\ TweakFrame(q, TweakPen(q, r), prev).bytes =
                 IF q.hires /\ size >= 10 THEN Hires(Ordered) ELSE Ordered
BY DEF TweakFrame, TweakPen, Report

\* A whole pen report that is not the frame's in disguise is put in order, on
\* the interfaces where the pen is used; others have nothing to put in order.
LEMMA PenInOrder ==
  ASSUME NEW near \in BOOLEAN, NEW b20 \in BOOLEAN, NEW short \in BOOLEAN, kind \in Kinds,
         Pen(near, b20, short)
  PROVE  BytesInPlace'
<1> DEFINE q == KindParams[kind]
           near1 == near \/ q.inrange = "none"
           b40 == IF q.inrange = "inverted" THEN ~near ELSE q.inrange = "normal" /\ near
           size == IF short THEN 1 ELSE PenSize(q)
           r == Report(q.pen, size, b20, b40, 0)
<1>1. RawEvent("pen", near1, r) /\ kind' = kind /\ (q.flag => ~b20)
  BY Zenon DEF Pen
<1>2. r.id = q.pen /\ r.size = size /\ r.b20 = b20
  BY DEF Report
<1>3. ~VirtualReport(q, r)
  BY <1>1, <1>2 DEF VirtualReport
<1>4. sent'.raw = r
  BY <1>1 DEF RawEvent
<1>5. got' = TweakFrame(q, IF PenReport(q, r) THEN TweakPen(q, r) ELSE r, re_state)
  BY <1>1, <1>3, Zenon DEF RawEvent
<1>6. CASE short
  <2>1. ~Whole'
    BY <1>2, <1>4, <1>6 DEF Whole
  <2> QED BY <2>1 DEF BytesInPlace
<1>7. CASE ~short
  <2>1. size = (IF q.hires THEN 12 ELSE 8)
    BY <1>7, HiresHasRoom
  <2>2. /\ q.hires => PenReport(q, r)
        /\ q.hires => size >= 10
    <3>1. CASE kind = "mouse"
      <4>1. q.hires = FALSE
        BY <3>1, HiresHasRoom
      <4> QED BY <4>1
    <3>2. CASE kind # "mouse"
      <4>1. q.unused = FALSE
        BY <3>2, HiresHasRoom
      <4>2. q.hires => size = 12
        BY <2>1
      <4> HIDE DEF q, size
      <4>3. r.id = q.pen /\ r.size = size
        BY <1>2
      <4> QED BY <4>1, <4>2, <4>3 DEF PenReport
    <3> QED BY <3>1, <3>2
  <2>3. got'.bytes = IF q.hires THEN Hires(Ordered) ELSE Ordered
    <3>1. CASE PenReport(q, r)
      <4> HIDE DEF q, size, b40
      <4>1. got' = TweakFrame(q, TweakPen(q, r), re_state)
        BY <1>5, <3>1
      <4> QED BY <4>1, <2>2, TweakedBytes
    <3>2. CASE ~PenReport(q, r)
      <4> HIDE DEF q, size, b40
      <4>1. got' = TweakFrame(q, r, re_state)
        BY <1>5, <3>2
      <4> QED BY <4>1, <3>2, <2>2, TweakedBytes
    <3> QED BY <3>1, <3>2
  <2> HIDE DEF r
  <2> QED BY <1>1, <2>3, HiresOrders DEF BytesInPlace
<1> QED BY <1>6, <1>7

LEMMA ReportedInPlace ==
  ASSUME kind \in Kinds, Reported
  PROVE  BytesInPlace'
<1>1. CASE \E near, b20, short \in BOOLEAN : Pen(near, b20, short)
  BY <1>1, PenInOrder
<1>2. CASE \E short \in BOOLEAN : Button(short)
  <2>1. sent'.what = "frame"
    BY <1>2 DEF Button, RawEvent
  <2> QED BY <2>1 DEF BytesInPlace
<1>3. CASE \E d \in {1, -1} : Turn(d)
  <2>1. sent'.what = "frame"
    BY <1>3 DEF Turn, RawEvent
  <2> QED BY <2>1 DEF BytesInPlace
<1> QED BY <1>1, <1>2, <1>3 DEF Reported

\* Wherever a whole pen report comes from, each of its bytes ends where the
\* interface's descriptor looks for it (uclogic_raw_event 294-309).
THEOREM BytesEndInPlace == Spec => []BytesInPlace
<1>1. Init => BytesInPlace
  <2> SUFFICES ASSUME Init PROVE sent.what = "nothing"
    BY DEF BytesInPlace
  <2> QED BY DEF Init
<1>2. DialInv /\ BytesInPlace /\ [Next]_vars => BytesInPlace'
  <2> SUFFICES ASSUME DialInv, BytesInPlace, [Next]_vars PROVE BytesInPlace'
    OBVIOUS
  <2>1. kind \in Kinds
    BY DEF DialInv, TypeOK
  <2>2. CASE Reported
    BY <2>1, <2>2, ReportedInPlace
  <2>5. CASE TurnUnheard
    <3>1. UNCHANGED <<kind, sent, got>>
      BY <2>5 DEF TurnUnheard
    <3> QED BY <3>1 DEF BytesInPlace, Whole
  <2>6. CASE UNCHANGED vars
    <3>1. UNCHANGED <<kind, sent, got>>
      BY <2>6 DEF vars
    <3> QED BY <3>1 DEF BytesInPlace, Whole
  <2> QED BY <2>2, <2>5, <2>6 DEF Next
<1> QED BY <1>1, <1>2, DialInductive, PTL DEF Spec
-----------------------------------------------------------------------------
(* Which device a report goes to                                           *)

\* What the tablets' interfaces have in common, and what tells them apart.
LEMMA TabletParams ==
  ASSUME NEW k \in Tablets
  PROVE  /\ k \in Kinds /\ k # "mouse"
         /\ KindParams[k].pen # KindParams[k].frame
         /\ k = "v2_buttons" => KindParams[k].inrange = "none"
         /\ k # "v2_buttons" => KindParams[k].inrange = "inverted"
         /\ k = "v1" => KindParams[k].frame = 0
<1>1. /\ KindParams["v1"] = V1 /\ KindParams["v1_buttons"] = [V1 EXCEPT !.flag = TRUE, !.frame = 247]
      /\ KindParams["v2_buttons"] = [V2 EXCEPT !.flag = TRUE, !.frame = 247]
      /\ KindParams["g5"] = [V1 EXCEPT !.frame = 6, !.dev_id = TRUE, !.re = TRUE]
  BY DEF KindParams
<1>2. /\ KindParams["v1"].pen = 7 /\ KindParams["v1"].frame = 0 /\ KindParams["v1"].inrange = "inverted"
      /\ KindParams["g5"].pen = 7 /\ KindParams["g5"].frame = 6 /\ KindParams["g5"].inrange = "inverted"
  BY <1>1 DEF V1, Noop
<1>3. /\ KindParams["v1_buttons"].pen = 7 /\ KindParams["v1_buttons"].frame = 247
      /\ KindParams["v1_buttons"].inrange = "inverted"
  BY <1>1 DEF V1, Noop
<1>4. /\ KindParams["v2_buttons"].pen = 8 /\ KindParams["v2_buttons"].frame = 247
      /\ KindParams["v2_buttons"].inrange = "none"
  BY <1>1 DEF V2, Noop
<1>5. k \in {"v1", "v1_buttons", "v2_buttons", "g5"}
  BY DEF Tablets
<1> QED BY <1>2, <1>3, <1>4, <1>5 DEF Kinds

\* Only the pens of the v2 tablets report no range, and their tablets' buttons
\* come in the pen's reports.
LEMMA RangelessPens ==
  ASSUME NEW k \in Kinds
  PROVE  /\ KindParams[k].inrange = "none" <=> k = "v2_buttons"
         /\ KindParams[k].inrange = "none" => KindParams[k].flag = TRUE
<1>1. k \in Tablets => (KindParams[k].inrange = "none" <=> k = "v2_buttons")
  <2>1. ASSUME k \in Tablets PROVE k # "v2_buttons" => KindParams[k].inrange = "inverted"
    BY <2>1, TabletParams
  <2>2. ASSUME k \in Tablets PROVE k = "v2_buttons" => KindParams[k].inrange = "none"
    BY <2>2, TabletParams
  <2>3. "inverted" # "none"
    OBVIOUS
  <2> QED BY <2>1, <2>2, <2>3
<1>2. KindParams["plain"].inrange = "normal" /\ KindParams["mouse"].inrange = "normal"
  <2>1. KindParams["plain"] = Noop /\ KindParams["mouse"] = [Noop EXCEPT !.unused = TRUE]
    BY DEF KindParams
  <2> QED BY <2>1 DEF Noop
<1>3. KindParams["v2_buttons"].flag = TRUE
  <2>1. KindParams["v2_buttons"] = [V2 EXCEPT !.flag = TRUE, !.frame = 247]
    BY DEF KindParams
  <2> QED BY <2>1 DEF V2, Noop
<1> QED BY <1>1, <1>2, <1>3 DEF Kinds, Tablets

\* A whole report of a tablet's pen.
LEMMA TabletPen ==
  ASSUME NEW near \in BOOLEAN, NEW b20 \in BOOLEAN, NEW short \in BOOLEAN, kind \in Tablets,
         Pen(near, b20, short), ~short
  PROVE  /\ got'.id = KindParams[kind].pen /\ got'.size = PenSize(KindParams[kind])
         /\ got'.b40 = sent'.near
<1> DEFINE q == KindParams[kind]
           near1 == near \/ q.inrange = "none"
           b40 == IF q.inrange = "inverted" THEN ~near ELSE q.inrange = "normal" /\ near
           size == IF short THEN 1 ELSE PenSize(q)
           r == Report(q.pen, size, b20, b40, 0)
<1>1. RawEvent("pen", near1, r) /\ (q.flag => ~b20)
  BY Zenon DEF Pen
<1>2. r.id = q.pen /\ r.size = size /\ r.b20 = b20
  BY DEF Report
<1>3. sent'.near = near1
  BY <1>1 DEF RawEvent
<1>4. kind \in Kinds /\ kind # "mouse"
  BY TabletParams
<1>5. PenReport(q, r) /\ ~VirtualReport(q, r)
  <2>1. q.unused = FALSE /\ size \in {8, 12}
    BY <1>4, HiresHasRoom
  <2> HIDE DEF q, r, size
  <2> QED BY <1>1, <1>2, <2>1 DEF PenReport, VirtualReport
<1>6. got' = TweakFrame(q, TweakPen(q, r), re_state)
  BY <1>1, <1>5, Zenon DEF RawEvent
<1>7. b40 \in BOOLEAN
  BY Zenon
<1>8. /\ got'.id = q.pen /\ got'.size = size
      /\ q.inrange = "none" => got'.b40 = TRUE
      /\ q.inrange = "inverted" /\ b40 = TRUE => got'.b40 = FALSE
      /\ q.inrange = "inverted" /\ b40 = FALSE => got'.b40 = TRUE
  <2> HIDE DEF q, size, b40
  <2>1. LET w == TweakFrame(q, TweakPen(q, Report(q.pen, size, b20, b40, 0)), re_state)
        IN /\ w.id = q.pen /\ w.size = size
           /\ q.inrange = "none" => w.b40 = TRUE
           /\ q.inrange = "inverted" /\ b40 = TRUE => w.b40 = FALSE
           /\ q.inrange = "inverted" /\ b40 = FALSE => w.b40 = TRUE
    BY <1>7 DEF TweakFrame, TweakPen, Report
  <2> QED BY <1>6, <2>1, Zenon
<1>9. got'.b40 = near1
  <2>1. CASE q.inrange = "none"
    <3>1. near1 = TRUE
      BY <2>1, Zenon
    <3>2. got'.b40 = TRUE
      BY <1>8, <2>1, Zenon
    <3> QED BY <3>1, <3>2, Zenon
  <2>2. CASE q.inrange = "inverted" /\ near = TRUE
    <3>1. near1 = TRUE /\ b40 = FALSE
      BY <2>2, Zenon
    <3>2. got'.b40 = TRUE
      BY <1>8, <2>2, <3>1, Zenon
    <3> QED BY <3>1, <3>2, Zenon
  <2>3. CASE q.inrange = "inverted" /\ near = FALSE
    <3>1. q.inrange # "none"
      BY <2>3
    <3>2. near1 = FALSE /\ b40 = TRUE
      BY <2>3, <3>1, Zenon
    <3>3. got'.b40 = FALSE
      BY <1>8, <2>3, <3>2, Zenon
    <3> QED BY <3>2, <3>3, Zenon
  <2>4. q.inrange \in {"none", "inverted"}
    BY TabletParams
  <2> QED BY <2>1, <2>2, <2>3, <2>4
<1>10. size = PenSize(q)
  BY Zenon
<1> QED BY <1>3, <1>8, <1>9, <1>10, Zenon

\* A whole report of a button of a tablet's frame: it comes as the pen's, or
\* as one of the frame's own.
LEMMA TabletButton ==
  ASSUME NEW short \in BOOLEAN, kind \in Tablets, Button(short), ~short
  PROVE  /\ got'.id = KindParams[kind].frame /\ KindParams[kind].frame # 0
         /\ got'.size = IF KindParams[kind].flag THEN PenSize(KindParams[kind]) ELSE 5
<1> DEFINE q == KindParams[kind]
           size == IF short THEN 1 ELSE IF q.flag THEN PenSize(q) ELSE 5
           r == Report(IF q.flag THEN q.pen ELSE q.frame, size, q.flag, FALSE,
                       IF q.re THEN dial ELSE 0)
<1>1. RawEvent("frame", FALSE, r) /\ q.frame # 0
  BY Zenon DEF Button
<1>2. r.id = (IF q.flag THEN q.pen ELSE q.frame) /\ r.size = size /\ r.b20 = q.flag
  BY DEF Report
<1>3. size = IF q.flag THEN PenSize(q) ELSE 5
  BY Zenon
<1>4. q.unused = FALSE /\ PenSize(q) \in {8, 12} /\ q.flag \in BOOLEAN /\ q.pen # q.frame
  BY TabletParams, HiresHasRoom
<1>5. /\ [r EXCEPT !.id = q.frame].id = q.frame /\ [r EXCEPT !.id = q.frame].size = size
      /\ TweakFrame(q, r, re_state).id = r.id /\ TweakFrame(q, r, re_state).size = size
  <2> HIDE DEF q, size
  <2> QED BY DEF Report, TweakFrame
<1> HIDE DEF q, r, size
<1>6. CASE q.flag = TRUE
  <2>1. PenReport(q, r) /\ VirtualReport(q, r)
    BY <1>1, <1>2, <1>3, <1>4, <1>6 DEF PenReport, VirtualReport
  <2>2. got' = [r EXCEPT !.id = q.frame]
    BY <1>1, <2>1, Zenon DEF RawEvent, q
  <2> QED BY <1>1, <1>3, <1>5, <2>2 DEF q
<1>7. CASE q.flag = FALSE
  <2>1. r.id = q.frame
    BY <1>2, <1>7
  <2>2. ~PenReport(q, r)
    BY <2>1, <1>4 DEF PenReport
  <2>3. got' = TweakFrame(q, r, re_state)
    BY <1>1, <2>2, Zenon DEF RawEvent, q
  <2> QED BY <1>1, <1>3, <1>5, <2>1, <2>3 DEF q
<1> QED BY <1>4, <1>6, <1>7

\* A turn of the dial comes as a report of the frame's own.
LEMMA TabletTurn ==
  ASSUME kind \in Kinds, NEW d \in {1, -1}, Turn(d)
  PROVE  kind = "g5" /\ got'.id = 6 /\ got'.size = 5
<1>1. kind = "g5"
  BY EncoderIsG5 DEF Turn
<1> DEFINE q == KindParams[kind]
           r == Report(6, 5, FALSE, FALSE, Turned(dial, d))
<1>2. q.frame = 6 /\ q.pen = 7
  BY <1>1, EncoderIsG5
<1>3. RawEvent("frame", FALSE, r)
  BY <1>2 DEF Turn
<1>4. r.id = 6 /\ TweakFrame(q, r, re_state).id = 6 /\ TweakFrame(q, r, re_state).size = 5
  <2> HIDE DEF q
  <2> QED BY DEF Report, TweakFrame
<1> HIDE DEF r
<1>5. got' = TweakFrame(q, r, re_state)
  <2>1. ~PenReport(q, r)
    BY <1>2, <1>4 DEF PenReport
  <2> QED BY <1>3, <2>1, Zenon DEF RawEvent
<1> QED BY <1>1, <1>4, <1>5

\* Only a report of the pen restarts the in-range timer, and only of a pen
\* that does not report its range.
LEMMA WhatRestarts ==
  ASSUME kind \in Kinds, Reported
  PROVE  /\ restarted' => sent'.what = "pen" /\ KindParams[kind].inrange = "none"
         /\ sent'.what \in {"pen", "frame"} /\ kind' = kind
<1> DEFINE q == KindParams[kind]
<1>1. CASE \E near, b20, short \in BOOLEAN : Pen(near, b20, short)
  <2>1. PICK near \in BOOLEAN, b20 \in BOOLEAN, short \in BOOLEAN : Pen(near, b20, short)
    BY <1>1
  <2>2. PICK r, near1 : RawEvent("pen", near1, r) /\ kind' = kind
    BY <2>1 DEF Pen
  <2>3. sent'.what = "pen"
    BY <2>2 DEF RawEvent
  <2>4. restarted' => q.inrange = "none"
    BY <2>2, Zenon DEF RawEvent
  <2> QED BY <2>2, <2>3, <2>4
<1>2. CASE \E short \in BOOLEAN : Button(short)
  <2>1. PICK short \in BOOLEAN : Button(short)
    BY <1>2
  <2>2. PICK r : /\ RawEvent("frame", FALSE, r) /\ kind' = kind
                 /\ r.id = (IF q.flag THEN q.pen ELSE q.frame) /\ r.b20 = q.flag
                 /\ q.frame # 0
    <3> DEFINE r == Report(IF q.flag THEN q.pen ELSE q.frame,
                           IF short THEN 1 ELSE IF q.flag THEN PenSize(q) ELSE 5, q.flag, FALSE,
                           IF q.re THEN dial ELSE 0)
    <3>1. RawEvent("frame", FALSE, r) /\ kind' = kind /\ q.frame # 0
      BY <2>1, Zenon DEF Button
    <3>2. r.id = (IF q.flag THEN q.pen ELSE q.frame) /\ r.b20 = q.flag
      BY DEF Report
    <3> HIDE DEF r
    <3> QED BY <3>1, <3>2
  <2>3. sent'.what = "frame"
    BY <2>2 DEF RawEvent
  <2>4. ~restarted'
    <3>1. CASE PenReport(q, r) /\ VirtualReport(q, r)
      BY <2>2, <3>1, Zenon DEF RawEvent
    <3>2. CASE ~PenReport(q, r)
      BY <2>2, <3>2, Zenon DEF RawEvent
    <3>3. CASE PenReport(q, r) /\ ~VirtualReport(q, r)
      <4>1. q.flag = FALSE
        <5>1. q.flag \in BOOLEAN
          BY HiresHasRoom
        <5> HIDE DEF q
        <5> QED BY <2>2, <3>3, <5>1, Zenon DEF VirtualReport
      <4>2. q.inrange # "none"
        <5>1. q.inrange = "none" => q.flag = TRUE
          BY RangelessPens
        <5> QED BY <4>1, <5>1
      <4> QED BY <2>2, <3>3, <4>2, Zenon DEF RawEvent
    <3> QED BY <3>1, <3>2, <3>3
  <2> QED BY <2>2, <2>3, <2>4
<1>3. CASE \E d \in {1, -1} : Turn(d)
  <2>1. PICK d \in {1, -1} : Turn(d)
    BY <1>3
  <2>2. kind = "g5" /\ q.frame = 6 /\ q.pen = 7
    BY <2>1, EncoderIsG5 DEF Turn
  <2>3. PICK r : RawEvent("frame", FALSE, r) /\ r.id = 6 /\ kind' = kind
    <3>1. Report(6, 5, FALSE, FALSE, Turned(dial, d)).id = 6
      BY DEF Report
    <3> QED BY <2>1, <2>2, <3>1 DEF Turn
  <2>4. ~PenReport(q, r)
    BY <2>2, <2>3 DEF PenReport
  <2>5. sent'.what = "frame"
    BY <2>3 DEF RawEvent
  <2>6. ~restarted'
    BY <2>3, <2>4, Zenon DEF RawEvent
  <2> QED BY <2>3, <2>5, <2>6
<1> QED BY <1>1, <1>2, <1>3 DEF Reported

\* Every report goes to the device that it is about.
LEMMA ReportedRight ==
  ASSUME kind \in Kinds, Reported
  PROVE  RightDevice'
<1>1. restarted' => sent'.what = "pen"
  BY WhatRestarts
<1>2. kind' = kind
  BY WhatRestarts
<1>3. ASSUME kind \in Tablets, Whole'
      PROVE  /\ sent'.what = "pen" => got'.id = KindParams[kind].pen /\ got'.b40 = sent'.near
             /\ sent'.what = "frame" => got'.id = KindParams[kind].frame
  <2>1. CASE \E near, b20, short \in BOOLEAN : Pen(near, b20, short)
    <3>1. PICK near \in BOOLEAN, b20 \in BOOLEAN, short \in BOOLEAN : Pen(near, b20, short)
      BY <2>1
    <3>2. sent'.what = "pen"
      BY <3>1 DEF Pen, RawEvent
    <3>3. ~short
      <4>1. short => sent'.raw.size = 1
        BY <3>1 DEF Pen, RawEvent, Report
      <4> QED BY <4>1, <1>3 DEF Whole
    <3> QED BY <1>3, <3>1, <3>2, <3>3, TabletPen
  <2>2. CASE \E short \in BOOLEAN : Button(short)
    <3>1. PICK short \in BOOLEAN : Button(short)
      BY <2>2
    <3>2. sent'.what = "frame"
      BY <3>1 DEF Button, RawEvent
    <3>3. ~short
      <4>1. short => sent'.raw.size = 1
        BY <3>1 DEF Button, RawEvent, Report
      <4> QED BY <4>1, <1>3 DEF Whole
    <3> QED BY <1>3, <3>1, <3>2, <3>3, TabletButton
  <2>3. CASE \E d \in {1, -1} : Turn(d)
    <3>1. PICK d \in {1, -1} : Turn(d)
      BY <2>3
    <3>2. sent'.what = "frame"
      BY <3>1 DEF Turn, RawEvent
    <3>3. kind = "g5" /\ got'.id = 6
      BY <3>1, TabletTurn
    <3>4. KindParams[kind].frame = 6
      BY <3>3, EncoderIsG5
    <3> QED BY <3>2, <3>3, <3>4
  <2> QED BY <2>1, <2>2, <2>3 DEF Reported
<1> QED BY <1>1, <1>2, <1>3 DEF RightDevice
-----------------------------------------------------------------------------
(* Sessions of an interface                                                *)

\* An interface describes one report or two, and the pen of a v2 tablet is the
\* first of its.
LEMMA Descriptions ==
  ASSUME kind \in Kinds, reports \in Descriptors[kind]
  PROVE  /\ Len(reports) \in {1, 2} /\ DOMAIN reports = 1..Len(reports)
         /\ par.inrange = "none" => /\ Len(reports) = 2 /\ par.unused = FALSE
                                    /\ reports[1].id = par.pen /\ reports[2].id # par.pen
                                    /\ IsPen(reports[1])
<1>1. PICK r, f : reports = <<r>> \/ reports = <<r, f>>
  BY DEF Descriptors, OwnDescriptors, Kinds
<1>2. Len(reports) \in {1, 2} /\ DOMAIN reports = 1..Len(reports)
  BY <1>1
<1>3. ASSUME kind = "v2_buttons"
      PROVE  /\ Len(reports) = 2
             /\ reports[1].id = 8 /\ reports[2].id # 8 /\ IsPen(reports[1])
  <2>1. PICK p \in PenV2, b \in ButtonpadV2 : reports = <<p, b>>
    BY <1>3 DEF Descriptors
  <2>2. b.id = 247
    BY DEF ButtonpadV2, Buttonpad, Input
  <2>3. p.id = 8 /\ p.fields[1] = Bits("pen", 3)
    BY DEF PenV2, RangedPen, Input
  <2>4. IsPen(p)
    BY <2>3 DEF IsPen, Bits, Field
  <2> QED BY <2>1, <2>2, <2>3, <2>4
<1>4. KindParams["v2_buttons"].pen = 8 /\ KindParams["v2_buttons"].unused = FALSE
  <2>1. KindParams["v2_buttons"] = [V2 EXCEPT !.flag = TRUE, !.frame = 247]
    BY DEF KindParams
  <2> QED BY <2>1 DEF V2, Noop
<1>5. par.inrange = "none" => kind = "v2_buttons"
  BY RangelessPens DEF par
<1> QED BY <1>2, <1>3, <1>4, <1>5 DEF par

\* What a step leaves alone keeps what the invariant says of it.
LEMMA QuietSession ==
  ASSUME SessionInv, UNCHANGED <<vars, timer, handled>>, ConnectInv', TimerInv', SentInv'
  PROVE  SessionInv'
<1>1. UNCHANGED <<kind, dial, dir, re_state, lag, sent, got, restarted>>
  BY DEF vars
<1>2. DialInv'
  BY <1>1, NextDial DEF SessionInv, vars
<1>3. BytesInPlace' /\ RightDevice'
  BY <1>1 DEF SessionInv, BytesInPlace, RightDevice, Whole
<1> QED BY <1>2, <1>3 DEF SessionInv

LEMMA StartSession == Start => SessionInv
<1> SUFFICES ASSUME Start PROVE SessionInv
  OBVIOUS
<1>1. DialInv
  BY InitDial DEF Start
<1>2. sent.what = "nothing" /\ restarted = FALSE /\ kind \in Kinds
  BY DEF Start, Init
<1>3. BytesInPlace /\ RightDevice
  BY <1>2 DEF BytesInPlace, RightDevice
<1>4. TimerInv /\ SentInv
  BY <1>2 DEF Start, TimerInv, SentInv
<1>5. DOMAIN reports = 1..Len(reports) /\ Len(reports) \in {1, 2}
  BY <1>2, Descriptions DEF Start
<1>6. AllocInv
  <2>1. at = 1 /\ mapped = {} /\ inputs = [i \in DOMAIN reports |-> "none"]
    BY DEF Start
  <2>2. 1 \in DOMAIN reports /\ \A i \in DOMAIN reports : ~(i < 1)
    BY <1>5
  <2>3. {i \in Wanted : i < at} = {}
    BY <2>1, <2>2 DEF Wanted
  <2>4. inputs = [i \in DOMAIN reports |-> IF i < at THEN "allocated" ELSE "none"]
    BY <2>1, <2>2
  <2> QED BY <2>1, <2>2, <2>3, <2>4 DEF AllocInv
<1>7. ConnectInv
  BY <1>6 DEF Start, ConnectInv
<1> QED BY <1>1, <1>3, <1>4, <1>7 DEF SessionInv

LEMMA AllocateKeeps ==
  ASSUME SessionInv, Allocate
  PROVE  SessionInv'
<1>1. /\ pc = "alloc" /\ AllocInv /\ reports \in Descriptors[kind] /\ claimed = {}
      /\ DOMAIN inputs = DOMAIN reports /\ kind \in Kinds
  BY DEF Allocate, Advance, Fail, SessionInv, ConnectInv, DialInv, TypeOK
<1>2. UNCHANGED <<reports, claimed, timer, handled, vars, pen_input>>
  BY DEF Allocate, Other
<1>3. UNCHANGED <<kind, sent>>
  BY <1>2 DEF vars
<1>4. ~timer /\ handled = 0 /\ sent.what = "nothing"
  BY <1>1 DEF SessionInv, TimerInv, SentInv
<1>5. TimerInv' /\ SentInv'
  BY <1>2, <1>3, <1>4 DEF TimerInv, SentInv
<1>6. Len(reports) \in {1, 2} /\ DOMAIN reports = 1..Len(reports)
  BY <1>1, Descriptions
<1>7. Wanted' = Wanted
  BY <1>2, <1>3 DEF Wanted, Discarded, par
<1>8. ConnectInv'
  <2>1. CASE Fail("alloc") /\ UNCHANGED <<inputs, mapped>>
    BY <1>1, <1>2, <1>3, <2>1 DEF ConnectInv, Fail
  <2>2. CASE /\ Advance("alloc", "configure")
             /\ inputs' = [inputs EXCEPT ![at] = "allocated"]
             /\ mapped' = IF Discarded(reports[at]) THEN mapped ELSE mapped \cup {at}
    <3>1. /\ at \in 1..Len(reports) /\ mapped = {i \in Wanted : i < at}
          /\ inputs = [i \in DOMAIN reports |-> IF i < at THEN "allocated" ELSE "none"]
      BY <1>1, <1>6 DEF AllocInv
    <3>2. mapped' = {i \in Wanted : i <= at}
      <4>1. Wanted \subseteq 1..Len(reports) /\ (at \in Wanted <=> ~Discarded(reports[at]))
        BY <1>6, <3>1 DEF Wanted
      <4>2. CASE Discarded(reports[at])
        <5>1. \A i \in Wanted : i < at <=> i <= at
          BY <1>6, <3>1, <4>1, <4>2
        <5> QED BY <2>2, <3>1, <4>2, <5>1
      <4>3. CASE ~Discarded(reports[at])
        <5>1. \A i \in Wanted : i <= at <=> i < at \/ i = at
          BY <1>6, <3>1, <4>1
        <5> QED BY <2>2, <3>1, <4>1, <4>3, <5>1
      <4> QED BY <4>2, <4>3
    <3>3. inputs' = [i \in DOMAIN reports |-> IF i <= at THEN "allocated" ELSE "none"]
      BY <1>6, <2>2, <3>1
    <3>4. CASE at < Len(reports)
      <4>1. at' = at + 1 /\ pc' = "alloc"
        BY <1>1, <2>2, <3>4 DEF Advance
      <4>2. \A i \in 1..Len(reports) : i < at' <=> i <= at
        BY <3>1, <4>1, <1>6
      <4>3. at' \in DOMAIN reports
        BY <1>6, <3>1, <3>4, <4>1
      <4>4. mapped' = {i \in Wanted : i < at'}
        BY <1>6, <3>2, <4>2 DEF Wanted
      <4>5. inputs' = [i \in DOMAIN reports |-> IF i < at' THEN "allocated" ELSE "none"]
        BY <1>6, <3>3, <4>2
      <4>6. AllocInv'
        BY <1>2, <1>7, <4>3, <4>4, <4>5 DEF AllocInv
      <4> QED BY <1>1, <1>2, <1>3, <3>3, <4>1, <4>6 DEF ConnectInv
    <3>5. CASE ~(at < Len(reports))
      <4>1. at' = 1 /\ pc' = "configure"
        BY <2>2, <3>5 DEF Advance
      <4>2. \A i \in 1..Len(reports) : i <= at /\ i >= at'
        BY <1>6, <3>1, <3>5, <4>1
      <4>3. mapped' = Wanted
        BY <1>6, <3>2, <4>2 DEF Wanted
      <4>4. inputs' = [i \in DOMAIN reports |->
                         IF i >= at' THEN "allocated" ELSE IF i \in Wanted THEN "registered" ELSE "freed"]
        BY <1>6, <3>3, <4>2
      <4>5. ConfigureInv'
        BY <1>2, <1>6, <1>7, <4>1, <4>3, <4>4 DEF ConfigureInv
      <4> QED BY <1>1, <1>2, <1>3, <3>3, <4>1, <4>5 DEF ConnectInv
    <3> QED BY <3>4, <3>5
  <2> QED BY <2>1, <2>2 DEF Allocate
<1> QED BY <1>2, <1>5, <1>8, QuietSession
LEMMA ConfigureKeeps ==
  ASSUME SessionInv, Configure
  PROVE  SessionInv'
<1>1. /\ pc = "configure" /\ ConfigureInv /\ reports \in Descriptors[kind] /\ claimed = {}
      /\ DOMAIN inputs = DOMAIN reports /\ kind \in Kinds
  BY DEF Configure, SessionInv, ConnectInv, DialInv, TypeOK
<1>2. UNCHANGED <<reports, claimed, timer, handled, vars, mapped>>
  BY DEF Configure, Other
<1>3. UNCHANGED <<kind, sent>>
  BY <1>2 DEF vars
<1>4. ~timer /\ handled = 0 /\ sent.what = "nothing"
  BY <1>1 DEF SessionInv, TimerInv, SentInv
<1>5. TimerInv' /\ SentInv'
  BY <1>2, <1>3, <1>4 DEF TimerInv, SentInv
<1>6. Len(reports) \in {1, 2} /\ DOMAIN reports = 1..Len(reports)
  BY <1>1, Descriptions
<1>7. Wanted' = Wanted /\ par' = par
  BY <1>2, <1>3 DEF Wanted, Discarded, par
<1>8. ConnectInv'
  <2>1. CASE Fail("configure") /\ UNCHANGED inputs
    BY <1>1, <1>2, <1>3, <2>1 DEF ConnectInv, Fail
  <2>2. CASE /\ Advance("configure", "claim")
             /\ inputs' = [inputs EXCEPT ![at] = IF at \in mapped THEN "registered" ELSE "freed"]
    <3>1. /\ at \in 1..Len(reports) /\ mapped = Wanted
          /\ inputs = [i \in DOMAIN reports |->
                         IF i >= at THEN "allocated" ELSE IF i \in Wanted THEN "registered" ELSE "freed"]
      BY <1>1, <1>6 DEF ConfigureInv
    <3>2. inputs' = [i \in DOMAIN reports |->
                       IF i > at THEN "allocated" ELSE IF i \in Wanted THEN "registered" ELSE "freed"]
      <4>1. \A i \in 1..Len(reports) : i # at => (i > at <=> i >= at)
        BY <1>6, <3>1
      <4>2. ~(at > at) /\ at >= at
        BY <1>6, <3>1
      <4> QED BY <1>6, <2>2, <3>1, <4>1, <4>2
    <3>3. KnowsPen'
      <4> SUFFICES ASSUME par.inrange = "none" PROVE pen_input' = 1
        BY <1>7 DEF KnowsPen
      <4>1. Len(reports) = 2 /\ reports[1].id = par.pen /\ reports[2].id # par.pen
        BY <1>1, Descriptions
      <4>2. pen_input' = IF reports[at].id = par.pen THEN at ELSE pen_input
        BY DEF Configure, PenInput
      <4>3. CASE at = 1
        BY <4>1, <4>2, <4>3
      <4>4. CASE at = 2
        <5>1. pen_input = 1
          BY <1>1, <4>4 DEF ConfigureInv, KnowsPen
        <5> QED BY <4>1, <4>2, <4>4, <5>1
      <4> QED BY <1>6, <3>1, <4>3, <4>4
    <3>4. CASE at < Len(reports)
      <4>1. at' = at + 1 /\ pc' = "configure"
        BY <1>1, <2>2, <3>4 DEF Advance
      <4>2. \A i \in 1..Len(reports) : i >= at' <=> i > at
        BY <3>1, <4>1, <1>6
      <4>3. at' \in DOMAIN reports
        BY <1>6, <3>1, <3>4, <4>1
      <4>4. inputs' = [i \in DOMAIN reports |->
                         IF i >= at' THEN "allocated" ELSE IF i \in Wanted THEN "registered" ELSE "freed"]
        BY <1>6, <3>2, <4>2
      <4>5. ConfigureInv'
        BY <1>2, <1>7, <3>1, <3>3, <4>3, <4>4 DEF ConfigureInv
      <4> QED BY <1>1, <1>2, <1>3, <3>2, <4>1, <4>5 DEF ConnectInv
    <3>5. CASE ~(at < Len(reports))
      <4>1. pc' = "claim"
        BY <2>2, <3>5 DEF Advance
      <4>2. \A i \in 1..Len(reports) : ~(i > at)
        BY <1>6, <3>1, <3>5
      <4>3. inputs' = [i \in DOMAIN reports |-> IF i \in Wanted THEN "registered" ELSE "freed"]
        BY <1>6, <3>2, <4>2
      <4>4. Configured'
        BY <1>2, <1>7, <3>1, <3>3, <4>3 DEF Configured
      <4> QED BY <1>1, <1>2, <1>3, <3>2, <4>1, <4>4 DEF ConnectInv
    <3> QED BY <3>4, <3>5
  <2> QED BY <2>1, <2>2 DEF Configure
<1> QED BY <1>2, <1>5, <1>8, QuietSession

LEMMA UnwindKeeps ==
  ASSUME SessionInv, Unwind
  PROVE  SessionInv'
<1>1. /\ pc = "unwind" /\ pc' = "hidraw" /\ reports \in Descriptors[kind] /\ claimed = {}
      /\ DOMAIN inputs = DOMAIN reports
      /\ inputs' = [i \in DOMAIN inputs |-> IF Live(i) THEN "freed" ELSE inputs[i]]
  BY DEF Unwind, SessionInv, ConnectInv
<1>2. UNCHANGED <<reports, claimed, timer, handled, vars, kind, sent>>
  BY DEF Unwind, Other, vars
<1>3. TimerInv' /\ SentInv'
  BY <1>1, <1>2 DEF TimerInv, SentInv, SessionInv
<1>4. \A i \in DOMAIN reports' : ~Live(i)'
  BY <1>1, <1>2 DEF Live
<1>5. ConnectInv'
  BY <1>1, <1>2, <1>4 DEF ConnectInv, ClaimedInv
<1> QED BY <1>2, <1>3, <1>5, QuietSession

\* A configured device is there when it was wanted.
LEMMA WantedAreLive ==
  ASSUME Configured
  PROVE  \A i \in DOMAIN reports : Live(i) <=> i \in Wanted
BY DEF Configured, Live

LEMMA ClaimInputKeeps ==
  ASSUME SessionInv, ClaimInput
  PROVE  SessionInv'
<1>1. /\ pc = "claim" /\ pc' = "hidraw" /\ reports \in Descriptors[kind] /\ Configured
      /\ DOMAIN inputs = DOMAIN reports
      /\ claimed' = IF \E i \in DOMAIN inputs : Live(i) THEN {"input"} ELSE {}
  BY DEF ClaimInput, SessionInv, ConnectInv
<1>2. UNCHANGED <<reports, at, inputs, mapped, pen_input, timer, handled, vars, kind, sent>>
  BY DEF ClaimInput, vars
<1>3. TimerInv' /\ SentInv'
  BY <1>1, <1>2 DEF TimerInv, SentInv, SessionInv
<1>4. Configured'
  BY <1>1, <1>2 DEF Configured, Wanted, Discarded, KnowsPen, par
<1>5. ClaimedInv'
  <2>1. CASE \E i \in DOMAIN inputs : Live(i)
    BY <1>1, <1>4, <2>1 DEF ClaimedInv
  <2>2. CASE ~(\E i \in DOMAIN inputs : Live(i))
    <3>1. \A i \in DOMAIN reports' : ~Live(i)'
      BY <1>1, <1>2, <2>2 DEF Live
    <3> QED BY <1>1, <2>2, <3>1 DEF ClaimedInv
  <2> QED BY <2>1, <2>2
<1>6. ConnectInv'
  BY <1>1, <1>2, <1>5 DEF ConnectInv
<1> QED BY <1>2, <1>3, <1>6, QuietSession

LEMMA ClaimHidrawKeeps ==
  ASSUME SessionInv, ClaimHidraw
  PROVE  SessionInv'
<1>1. /\ pc = "hidraw" /\ pc' = "bound" /\ reports \in Descriptors[kind] /\ ClaimedInv
      /\ DOMAIN inputs = DOMAIN reports
      /\ "input" \in claimed' <=> "input" \in claimed
  BY DEF ClaimHidraw, SessionInv, ConnectInv
<1>2. UNCHANGED <<reports, at, inputs, mapped, pen_input, timer, handled, vars, kind, sent>>
  BY DEF ClaimHidraw, vars
<1>3. TimerInv' /\ SentInv'
  BY <1>1, <1>2 DEF TimerInv, SentInv, SessionInv, par
<1>4. ClaimedInv'
  BY <1>1, <1>2 DEF ClaimedInv, Configured, Wanted, Discarded, KnowsPen, Live, par
<1>5. ConnectInv'
  BY <1>1, <1>2, <1>4 DEF ConnectInv
<1> QED BY <1>2, <1>3, <1>5, QuietSession

\* As long as the descriptor and the devices stay as they are, so does what the
\* invariant says of them.
LEMMA ConnectionStays ==
  ASSUME ConnectInv, UNCHANGED connecting, kind' = kind
  PROVE  ConnectInv'
<1>1. UNCHANGED <<reports, pc, at, inputs, mapped, pen_input, claimed>>
  BY DEF connecting
<1>2. UNCHANGED <<AllocInv, ConfigureInv, Configured, ClaimedInv>>
  BY <1>1 DEF AllocInv, ConfigureInv, Configured, ClaimedInv, Wanted, Discarded, KnowsPen, Live, par
<1> QED BY <1>1, <1>2 DEF ConnectInv

LEMMA ReportKeeps ==
  ASSUME SessionInv, ReportComes
  PROVE  SessionInv'
<1>1. /\ pc = "bound" /\ Reported /\ timer' = (timer \/ restarted')
      /\ UNCHANGED <<connecting, handled, pc, pen_input>> /\ kind \in Kinds
  BY DEF ReportComes, connecting, SessionInv, DialInv, TypeOK
<1>2. kind' = kind /\ (restarted' => par.inrange = "none")
  BY <1>1, WhatRestarts DEF par
<1>3. DialInv'
  BY <1>1, NextDial DEF SessionInv, Next
<1>4. RightDevice'
  BY <1>1, ReportedRight
<1>5. BytesInPlace'
  BY <1>1, ReportedInPlace
<1>6. ConnectInv'
  BY <1>1, <1>2, ConnectionStays DEF SessionInv
<1>7. TimerInv' /\ SentInv'
  BY <1>1, <1>2 DEF TimerInv, SentInv, SessionInv, par
<1> QED BY <1>3, <1>4, <1>5, <1>6, <1>7 DEF SessionInv

LEMMA UnheardKeeps ==
  ASSUME SessionInv, TurnsUnheard
  PROVE  SessionInv'
<1>1. /\ TurnUnheard /\ UNCHANGED <<connecting, timer, handled, pc, pen_input>>
      /\ UNCHANGED <<kind, sent, got, restarted>>
  BY DEF TurnsUnheard, TurnUnheard, connecting
<1>2. DialInv'
  BY <1>1, UnheardKeepsDial DEF SessionInv
<1>3. BytesInPlace' /\ RightDevice'
  BY <1>1 DEF SessionInv, BytesInPlace, RightDevice, Whole
<1>4. ConnectInv'
  BY <1>1, ConnectionStays DEF SessionInv
<1>5. TimerInv' /\ SentInv'
  BY <1>1 DEF TimerInv, SentInv, SessionInv, par
<1> QED BY <1>2, <1>3, <1>4, <1>5 DEF SessionInv

LEMMA TimeoutKeeps ==
  ASSUME SessionInv, Timeout
  PROVE  SessionInv'
<1>1. /\ timer /\ ~timer' /\ handled' = pen_input
      /\ UNCHANGED <<connecting, vars, pc, pen_input, kind, sent>>
  BY DEF Timeout, connecting, vars
<1>2. UNCHANGED <<dial, dir, re_state, lag, got, restarted>>
  BY <1>1 DEF vars
<1>3. DialInv'
  BY <1>1, NextDial DEF SessionInv
<1>4. BytesInPlace' /\ RightDevice'
  BY <1>1, <1>2 DEF SessionInv, BytesInPlace, RightDevice, Whole
<1>5. ConnectInv'
  BY <1>1, ConnectionStays DEF SessionInv
<1>6. TimerInv' /\ SentInv'
  BY <1>1 DEF TimerInv, SentInv, SessionInv, par
<1> QED BY <1>3, <1>4, <1>5, <1>6 DEF SessionInv

\* Whatever the interface has been through, removing it leaves the state of a
\* new one.
LEMMA RemoveKeeps ==
  ASSUME SessionInv, Remove
  PROVE  SessionInv'
<1>1. /\ dial' \in Detents /\ lag' = 0 /\ re_state' = 255 /\ kind' = kind /\ dir' = dir
      /\ sent'.what = "nothing" /\ sent'.near = FALSE /\ restarted' = FALSE
  BY DEF Remove
<1>2. kind \in Kinds /\ dir \in {1, -1} /\ reports \in Descriptors[kind]
  BY DEF SessionInv, DialInv, TypeOK, ConnectInv
<1>3. TypeOK'
  <2>1. dial' \in 0..3 /\ dir' \in {1, -1} /\ re_state' \in {0, 1, 2, 3, 255} /\ lag' \in Int
    BY <1>1, <1>2 DEF Detents
  <2> QED BY <1>1, <1>2, <2>1, Zenon DEF TypeOK
<1>4. DialInv'
  BY <1>1, <1>3 DEF DialInv, Detents
<1>5. BytesInPlace' /\ RightDevice'
  BY <1>1 DEF BytesInPlace, RightDevice
<1>6. /\ pc' = "alloc" /\ at' = 1 /\ inputs' = [i \in DOMAIN reports |-> "none"] /\ mapped' = {}
      /\ claimed' = {} /\ timer' = FALSE /\ handled' = 0 /\ reports' = reports
  BY DEF Remove
<1>7. TimerInv' /\ SentInv'
  BY <1>1, <1>6 DEF TimerInv, SentInv
<1>8. DOMAIN reports = 1..Len(reports) /\ Len(reports) \in {1, 2}
  BY <1>2, Descriptions
<1>9. AllocInv'
  <2>1. 1 \in DOMAIN reports /\ \A i \in DOMAIN reports : ~(i < 1)
    BY <1>8
  <2>2. {i \in Wanted' : i < at'} = {}
    BY <1>6, <2>1 DEF Wanted
  <2>3. inputs' = [i \in DOMAIN reports' |-> IF i < at' THEN "allocated" ELSE "none"]
    BY <1>6, <2>1
  <2> QED BY <1>6, <2>1, <2>2, <2>3 DEF AllocInv
<1>10. ConnectInv'
  BY <1>1, <1>2, <1>6, <1>9 DEF ConnectInv
<1> QED BY <1>4, <1>5, <1>7, <1>10 DEF SessionInv

LEMMA NextSession == SessionInv /\ [SessionNext]_session => SessionInv'
<1> SUFFICES ASSUME SessionInv, [SessionNext]_session PROVE SessionInv'
  OBVIOUS
<1>1. CASE UNCHANGED session
  <2>1. UNCHANGED <<connecting, timer, handled, vars, pc, pen_input, kind, sent>>
    BY <1>1 DEF session, connecting, vars
  <2>2. ConnectInv'
    BY <2>1, ConnectionStays DEF SessionInv
  <2>3. TimerInv' /\ SentInv'
    BY <2>1 DEF TimerInv, SentInv, SessionInv, par
  <2> QED BY <2>1, <2>2, <2>3, QuietSession
<1> QED BY <1>1, AllocateKeeps, ConfigureKeeps, UnwindKeeps, ClaimInputKeeps, ClaimHidrawKeeps,
           ReportKeeps, UnheardKeeps, TimeoutKeeps, RemoveKeeps DEF SessionNext

\* In every reachable state the input devices are as far as hid_hw_start has
\* come, the in-range timer only runs where pens do not report their range,
\* and the rest of the invariant holds.
THEOREM SessionInductive == Session => []SessionInv
<1> QED BY StartSession, NextSession, PTL DEF Session

\* The changes reported for the dial are the detents it has passed, also when
\* the interface is bound, removed and bound again, its reports come only while
\* somebody listens, and timeouts come between (uclogic_raw_event 336-352).
THEOREM RotationInSessions == Session => []RotationExact
<1>1. SessionInv => RotationExact
  BY DEF SessionInv, DialInv, RotationExact
<1> QED BY <1>1, SessionInductive, PTL

\* In every session each byte of a whole pen report ends where the descriptor
\* looks for it (uclogic_raw_event 294-309).
THEOREM BytesInSessions == Session => []BytesInPlace
<1>1. SessionInv => BytesInPlace
  BY DEF SessionInv
<1> QED BY <1>1, SessionInductive, PTL

\* In every session what a tablet's pen does goes to the pen, with its true
\* range, and what the frame does to the frame, and only the pen restarts the
\* in-range timer (uclogic_raw_event 272-318).
THEOREM DevicesInSessions == Session => []RightDevice
<1>1. SessionInv => RightDevice
  BY DEF SessionInv
<1> QED BY <1>1, SessionInductive, PTL

\* The timeout simulates its events on the pen's input device, whatever failed
\* before and however often the interface was bound and removed (127-133,
\* 58-74).
THEOREM SimulatesOnThePen == Session => []SimulatesOnPen
<1>1. SessionInv => SimulatesOnPen
  <2> SUFFICES ASSUME SessionInv, "input" \in claimed PROVE SimulatesOnPen
    BY Zenon DEF SimulatesOnPen
  <2>1. Configured /\ reports \in Descriptors[kind] /\ kind \in Kinds
    BY DEF SessionInv, ConnectInv, ClaimedInv, DialInv, TypeOK
  <2>2. par.inrange = "none" => pen_input = 1
    BY <2>1 DEF Configured, KnowsPen
  <2>3. ASSUME handled # 0
        PROVE  inputs[handled] = "registered" /\ IsPen(reports[handled])
    <3>1. par.inrange = "none" /\ handled = 1
      BY <2>2, <2>3 DEF SessionInv, TimerInv
    <3>2. /\ DOMAIN reports = 1..Len(reports) /\ Len(reports) = 2
          /\ par.unused = FALSE /\ IsPen(reports[1])
      BY <2>1, <3>1, Descriptions
    <3>3. 1 \in Wanted
      BY <3>2 DEF Wanted, Discarded
    <3> QED BY <2>1, <3>1, <3>2, <3>3 DEF Configured
  <2> QED BY <2>2, <2>3 DEF SimulatesOnPen
<1> QED BY <1>1, SessionInductive, PTL

\* Of the six kinds of interfaces only one is not to have a pen.
LEMMA UnusedIsMouse ==
  ASSUME NEW k \in Kinds
  PROVE  KindParams[k].unused <=> k = "mouse"
<1>1. KindParams["mouse"] = [Noop EXCEPT !.unused = TRUE]
  BY DEF KindParams
<1>2. KindParams["mouse"].unused = TRUE
  BY <1>1 DEF Noop
<1>3. k # "mouse" => KindParams[k].unused = FALSE
  BY HiresHasRoom
<1> QED BY <1>2, <1>3

\* An input device is there for every report but the pen's of an interface
\* without one, or for none (87-102).
THEOREM UnusedIsDiscarded == Session => []DiscardsUnused
<1>1. SessionInv => DiscardsUnused
  <2> SUFFICES ASSUME SessionInv PROVE DiscardsUnused
    OBVIOUS
  <2>1. ASSUME pc = "claim"
        PROVE  \A i \in DOMAIN reports : Live(i) <=> ~(kind = "mouse" /\ IsPen(reports[i]))
    <3>1. \A i \in DOMAIN reports : Live(i) <=> i \in Wanted
      BY <2>1, WantedAreLive DEF SessionInv, ConnectInv
    <3>2. par.unused <=> kind = "mouse"
      BY UnusedIsMouse DEF par, SessionInv, DialInv, TypeOK
    <3> QED BY <3>1, <3>2 DEF Wanted, Discarded
  <2>2. pc = "bound" /\ "input" \notin claimed => \A i \in DOMAIN reports : ~Live(i)
    BY DEF SessionInv, ConnectInv, ClaimedInv
  <2> QED BY <2>1, <2>2 DEF DiscardsUnused
<1> QED BY <1>1, SessionInductive, PTL

-----------------------------------------------------------------------------
(* The lengths of the reports                                              *)

\* What FirstBit's sum is by its definition.
IsSum(r, f) ==
    f = [n \in 1..(Len(r.fields) + 1) |->
            IF n = 1 THEN 0
            ELSE f[n - 1] + r.fields[n - 1].size * r.fields[n - 1].count]

\* There is one such sum, so any function that adds up is it.
LEMMA SumIsFirstBit ==
  ASSUME NEW r, Len(r.fields) \in Nat, NEW g, IsSum(r, g)
  PROVE  \A i \in 1..(Len(r.fields) + 1) : FirstBit(r, i) = g[i]
<1> DEFINE f == CHOOSE s : IsSum(r, s)
           T == {n \in 1..(Len(r.fields) + 1) : f[n] # g[n]}
<1>1. IsSum(r, f)
  BY Zenon
<1>2. \A i : FirstBit(r, i) = f[i]
  BY Zenon DEF FirstBit, IsSum
<1> HIDE DEF f
<1>3. \A n \in 1..(Len(r.fields) + 1) :
         /\ n = 1 => f[n] = 0 /\ g[n] = 0
         /\ n # 1 => /\ f[n] = f[n - 1] + r.fields[n - 1].size * r.fields[n - 1].count
                     /\ g[n] = g[n - 1] + r.fields[n - 1].size * r.fields[n - 1].count
  BY <1>1 DEF IsSum
<1>4. T = {}
  <2> SUFFICES ASSUME T # {} PROVE FALSE
    OBVIOUS
  <2>1. T \subseteq Nat
    OBVIOUS
  <2>2. PICK n \in T : \A m \in T : ~(<<m, n>> \in OpToRel(<, Nat))
    <3> HIDE DEF T
    <3> QED BY <2>1, WFMin, NatLessThanWellFounded
  <2>3. \A m \in T : ~(m < n)
    BY <2>1, <2>2 DEF OpToRel
  <2>4. n \in 1..(Len(r.fields) + 1) /\ f[n] # g[n]
    OBVIOUS
  <2>5. n # 1
    BY <1>3, <2>4
  <2>6. n - 1 \in 1..(Len(r.fields) + 1) /\ n - 1 < n
    BY <2>4, <2>5
  <2>7. f[n - 1] = g[n - 1]
    BY <2>3, <2>6
  <2> QED BY <1>3, <2>4, <2>5, <2>7
<1> QED BY <1>2, <1>4

\* The number of bits in field i of a report.
Width(r, i) == r.fields[i].size * r.fields[i].count

\* The sequence g, of length m, adds up the n fields of a report.
Sums(r, n, m, g) ==
    /\ n \in Nat /\ Len(r.fields) = n /\ m = n + 1
    /\ g \in [1..m -> Int] /\ g[1] = 0
    /\ \A i \in 1..n : g[i + 1] = g[i] + Width(r, i)

\* A report is as long as a sequence says that adds up its fields.
LEMMA AddsUp ==
  ASSUME NEW r, NEW n, NEW m, NEW g, Sums(r, n, m, g)
  PROVE  Length(r) = g[m]
<1>0. /\ n \in Nat /\ Len(r.fields) = n /\ m = n + 1
      /\ g \in [1..(n + 1) -> Int] /\ g[1] = 0
      /\ \A i \in 1..n : g[i + 1] = g[i] + Width(r, i)
  BY DEF Sums
<1>1. \A i \in 1..(n + 1) : i # 1 => i - 1 \in 1..n /\ (i - 1) + 1 = i
  BY <1>0
<1>2. \A i \in 1..(n + 1) : i # 1 => g[i] = g[i - 1] + Width(r, i - 1)
  BY <1>0, <1>1
<1>3. g = [i \in 1..(n + 1) |->
             IF i = 1 THEN 0 ELSE g[i - 1] + r.fields[i - 1].size * r.fields[i - 1].count]
  BY <1>0, <1>2 DEF Width
<1>4. IsSum(r, g)
  BY <1>0, <1>3 DEF IsSum
<1>5. \A i \in 1..(n + 1) : FirstBit(r, i) = g[i]
  BY <1>0, <1>4, SumIsFirstBit
<1> QED BY <1>0, <1>5 DEF Length

\* The width of the fields that the descriptors are made of.
LEMMA Widths ==
  /\ \A use, n : Bits(use, n).size = 1 /\ Bits(use, n).count = n
  /\ \A n : Pad(n).size = 1 /\ Pad(n).count = n
  /\ \A use, size, hi : Axis(use, size, hi).size = size /\ Axis(use, size, hi).count = 1
  /\ \A use, size, n : Notch(use, size, n).size = size /\ Notch(use, size, n).count = n
BY DEF Bits, Pad, Axis, Notch, Field

\* The pen of a v1 tablet.
LEMMA PenV1Length ==
  ASSUME NEW r \in PenV1
  PROVE  r.id = 7 /\ Length(r) = 56
<1> DEFINE g == <<0, 3, 6, 7, 8, 24, 40, 56>>
<1>1. r.id = 7 /\ Len(r.fields) = 7
  BY DEF PenV1, RangedPen, Input, PressureMax
<1>2. /\ r.fields[1].size = 1 /\ r.fields[1].count = 3
      /\ r.fields[2].size = 1 /\ r.fields[2].count = 3
      /\ r.fields[3].size = 1 /\ r.fields[3].count = 1
      /\ r.fields[4].size = 1 /\ r.fields[4].count = 1
      /\ r.fields[5].size = 16 /\ r.fields[5].count = 1
      /\ r.fields[6].size = 16 /\ r.fields[6].count = 1
      /\ r.fields[7].size = 16 /\ r.fields[7].count = 1
  BY Widths DEF PenV1, RangedPen, Input
<1>3. /\ Width(r, 1) = 3
      /\ Width(r, 2) = 3
      /\ Width(r, 3) = 1
      /\ Width(r, 4) = 1
      /\ Width(r, 5) = 16
      /\ Width(r, 6) = 16
      /\ Width(r, 7) = 16
  BY <1>2 DEF Width
<1>4. \A i \in 1..7 : g[i + 1] = g[i] + Width(r, i)
  BY <1>3
<1>5. g \in [1..8 -> Int] /\ g[1] = 0 /\ g[8] = 56
  OBVIOUS
<1> HIDE DEF g
<1>6. Sums(r, 7, 8, g)
  BY <1>1, <1>4, <1>5 DEF Sums
<1> QED BY <1>1, <1>5, <1>6, AddsUp

\* The pen of a v2 tablet.
LEMMA PenV2Length ==
  ASSUME NEW r \in PenV2
  PROVE  r.id = 8 /\ Length(r) = 88
<1> DEFINE g == <<0, 3, 6, 7, 8, 32, 56, 72, 88>>
<1>1. r.id = 8 /\ Len(r.fields) = 8
  BY DEF PenV2, RangedPen, Input
<1>2. /\ r.fields[1].size = 1 /\ r.fields[1].count = 3
      /\ r.fields[2].size = 1 /\ r.fields[2].count = 3
      /\ r.fields[3].size = 1 /\ r.fields[3].count = 1
      /\ r.fields[4].size = 1 /\ r.fields[4].count = 1
      /\ r.fields[5].size = 24 /\ r.fields[5].count = 1
      /\ r.fields[6].size = 24 /\ r.fields[6].count = 1
      /\ r.fields[7].size = 16 /\ r.fields[7].count = 1
      /\ r.fields[8].size = 1 /\ r.fields[8].count = 16
  BY Widths DEF PenV2, RangedPen, Input
<1>3. /\ Width(r, 1) = 3
      /\ Width(r, 2) = 3
      /\ Width(r, 3) = 1
      /\ Width(r, 4) = 1
      /\ Width(r, 5) = 24
      /\ Width(r, 6) = 24
      /\ Width(r, 7) = 16
      /\ Width(r, 8) = 16
  BY <1>2 DEF Width
<1>4. \A i \in 1..8 : g[i + 1] = g[i] + Width(r, i)
  BY <1>3
<1>5. g \in [1..9 -> Int] /\ g[1] = 0 /\ g[9] = 88
  OBVIOUS
<1> HIDE DEF g
<1>6. Sums(r, 8, 9, g)
  BY <1>1, <1>4, <1>5 DEF Sums
<1> QED BY <1>1, <1>5, <1>6, AddsUp

\* The buttons that come in the reports of a v1 pen.
LEMMA ButtonpadV1Length ==
  ASSUME NEW r \in ButtonpadV1
  PROVE  r.id = 247 /\ Length(r) = 56
<1> DEFINE g == <<0, 1, 3, 24, 34, 36, 56>>
<1>1. r.id = 247 /\ Len(r.fields) = 6
  BY DEF ButtonpadV1, Buttonpad, Input
<1>2. /\ r.fields[1].size = 1 /\ r.fields[1].count = 1
      /\ r.fields[2].size = 1 /\ r.fields[2].count = 2
      /\ r.fields[3].size = 1 /\ r.fields[3].count = 21
      /\ r.fields[4].size = 1 /\ r.fields[4].count = 10
      /\ r.fields[5].size = 1 /\ r.fields[5].count = 2
      /\ r.fields[6].size = 1 /\ r.fields[6].count = 20
  BY Widths DEF ButtonpadV1, Buttonpad, Input
<1>3. /\ Width(r, 1) = 1
      /\ Width(r, 2) = 2
      /\ Width(r, 3) = 21
      /\ Width(r, 4) = 10
      /\ Width(r, 5) = 2
      /\ Width(r, 6) = 20
  BY <1>2 DEF Width
<1>4. \A i \in 1..6 : g[i + 1] = g[i] + Width(r, i)
  BY <1>3
<1>5. g \in [1..7 -> Int] /\ g[1] = 0 /\ g[7] = 56
  OBVIOUS
<1> HIDE DEF g
<1>6. Sums(r, 6, 7, g)
  BY <1>1, <1>4, <1>5 DEF Sums
<1> QED BY <1>1, <1>5, <1>6, AddsUp

\* The buttons that come in the reports of a v2 pen.
LEMMA ButtonpadV2Length ==
  ASSUME NEW r \in ButtonpadV2
  PROVE  r.id = 247 /\ Length(r) = 88
<1> DEFINE g == <<0, 1, 3, 24, 34, 36, 88>>
<1>1. r.id = 247 /\ Len(r.fields) = 6
  BY DEF ButtonpadV2, Buttonpad, Input
<1>2. /\ r.fields[1].size = 1 /\ r.fields[1].count = 1
      /\ r.fields[2].size = 1 /\ r.fields[2].count = 2
      /\ r.fields[3].size = 1 /\ r.fields[3].count = 21
      /\ r.fields[4].size = 1 /\ r.fields[4].count = 10
      /\ r.fields[5].size = 1 /\ r.fields[5].count = 2
      /\ r.fields[6].size = 1 /\ r.fields[6].count = 52
  BY Widths DEF ButtonpadV2, Buttonpad, Input
<1>3. /\ Width(r, 1) = 1
      /\ Width(r, 2) = 2
      /\ Width(r, 3) = 21
      /\ Width(r, 4) = 10
      /\ Width(r, 5) = 2
      /\ Width(r, 6) = 52
  BY <1>2 DEF Width
<1>4. \A i \in 1..6 : g[i + 1] = g[i] + Width(r, i)
  BY <1>3
<1>5. g \in [1..7 -> Int] /\ g[1] = 0 /\ g[7] = 88
  OBVIOUS
<1> HIDE DEF g
<1>6. Sums(r, 6, 7, g)
  BY <1>1, <1>4, <1>5 DEF Sums
<1> QED BY <1>1, <1>5, <1>6, AddsUp

\* The buttons and the dial of the G5.
LEMMA G5FrameLength ==
  ASSUME NEW r \in G5Frame
  PROVE  r.id = 6 /\ Length(r) = 32
<1> DEFINE g == <<0, 5, 8, 16, 17, 19, 30, 32>>
<1>1. r.id = 6 /\ Len(r.fields) = 7
  BY DEF G5Frame, Input
<1>2. /\ r.fields[1].size = 1 /\ r.fields[1].count = 5
      /\ r.fields[2].size = 1 /\ r.fields[2].count = 3
      /\ r.fields[3].size = 8 /\ r.fields[3].count = 1
      /\ r.fields[4].size = 1 /\ r.fields[4].count = 1
      /\ r.fields[5].size = 1 /\ r.fields[5].count = 2
      /\ r.fields[6].size = 1 /\ r.fields[6].count = 11
      /\ r.fields[7].size = 2 /\ r.fields[7].count = 1
  BY Widths DEF G5Frame, Input
<1>3. /\ Width(r, 1) = 5
      /\ Width(r, 2) = 3
      /\ Width(r, 3) = 8
      /\ Width(r, 4) = 1
      /\ Width(r, 5) = 2
      /\ Width(r, 6) = 11
      /\ Width(r, 7) = 2
  BY <1>2 DEF Width
<1>4. \A i \in 1..7 : g[i + 1] = g[i] + Width(r, i)
  BY <1>3
<1>5. g \in [1..8 -> Int] /\ g[1] = 0 /\ g[8] = 32
  OBVIOUS
<1> HIDE DEF g
<1>6. Sums(r, 7, 8, g)
  BY <1>1, <1>4, <1>5 DEF Sums
<1> QED BY <1>1, <1>5, <1>6, AddsUp
\* Some report of the interface has this ID and this length.
Describes(id, bits) == \E i \in DOMAIN reports : reports[i].id = id /\ Length(reports[i]) = bits

\* A tablet's descriptor has a report for its pen, and one for its frame when
\* its buttons are ever reported, of the lengths that the tablet sends.
LEMMA TabletReports ==
  ASSUME kind \in Tablets, reports \in Descriptors[kind]
  PROVE  /\ Describes(par.pen, 8 * (PenSize(par) - 1))
         /\ par.frame # 0 =>
                Describes(par.frame, 8 * ((IF par.flag THEN PenSize(par) ELSE 5) - 1))
<1>1. /\ KindParams["v1"] = V1 /\ KindParams["v1_buttons"] = [V1 EXCEPT !.flag = TRUE, !.frame = 247]
      /\ KindParams["v2_buttons"] = [V2 EXCEPT !.flag = TRUE, !.frame = 247]
      /\ KindParams["g5"] = [V1 EXCEPT !.frame = 6, !.dev_id = TRUE, !.re = TRUE]
  BY DEF KindParams
<1>2. CASE kind = "v1"
  <2>1. par.pen = 7 /\ par.frame = 0 /\ par.hires = FALSE
    <3>1. par = V1
      BY <1>1, <1>2 DEF par
    <3> QED BY <3>1 DEF V1, Noop
  <2>2. PICK p \in PenV1 : reports = <<p>> \/ \E f : reports = <<p, f>>
    BY <1>2 DEF Descriptors
  <2>3. 1 \in DOMAIN reports /\ reports[1] = p
    BY <2>2
  <2>4. p.id = 7 /\ Length(p) = 56
    BY PenV1Length
  <2> QED BY <2>1, <2>3, <2>4 DEF Describes, PenSize
<1>3. CASE kind = "v1_buttons"
  <2>1. par.pen = 7 /\ par.frame = 247 /\ par.hires = FALSE /\ par.flag = TRUE
    <3>1. par = [V1 EXCEPT !.flag = TRUE, !.frame = 247]
      BY <1>1, <1>3 DEF par
    <3> QED BY <3>1 DEF V1, Noop
  <2>2. PICK p \in PenV1, b \in ButtonpadV1 : reports = <<p, b>>
    BY <1>3 DEF Descriptors
  <2>3. 1 \in DOMAIN reports /\ reports[1] = p /\ 2 \in DOMAIN reports /\ reports[2] = b
    BY <2>2
  <2>4. p.id = 7 /\ Length(p) = 56 /\ b.id = 247 /\ Length(b) = 56
    BY PenV1Length, ButtonpadV1Length
  <2> QED BY <2>1, <2>3, <2>4 DEF Describes, PenSize
<1>4. CASE kind = "v2_buttons"
  <2>1. par.pen = 8 /\ par.frame = 247 /\ par.hires = TRUE /\ par.flag = TRUE
    <3>1. par = [V2 EXCEPT !.flag = TRUE, !.frame = 247]
      BY <1>1, <1>4 DEF par
    <3> QED BY <3>1 DEF V2, Noop
  <2>2. PICK p \in PenV2, b \in ButtonpadV2 : reports = <<p, b>>
    BY <1>4 DEF Descriptors
  <2>3. 1 \in DOMAIN reports /\ reports[1] = p /\ 2 \in DOMAIN reports /\ reports[2] = b
    BY <2>2
  <2>4. p.id = 8 /\ Length(p) = 88 /\ b.id = 247 /\ Length(b) = 88
    BY PenV2Length, ButtonpadV2Length
  <2> QED BY <2>1, <2>3, <2>4 DEF Describes, PenSize
<1>5. CASE kind = "g5"
  <2>1. par.pen = 7 /\ par.frame = 6 /\ par.hires = FALSE /\ par.flag = FALSE
    <3>1. par = [V1 EXCEPT !.frame = 6, !.dev_id = TRUE, !.re = TRUE]
      BY <1>1, <1>5 DEF par
    <3> QED BY <3>1 DEF V1, Noop
  <2>2. PICK p \in PenV1, f \in G5Frame : reports = <<p, f>>
    BY <1>5 DEF Descriptors
  <2>3. 1 \in DOMAIN reports /\ reports[1] = p /\ 2 \in DOMAIN reports /\ reports[2] = f
    BY <2>2
  <2>4. p.id = 7 /\ Length(p) = 56 /\ f.id = 6 /\ Length(f) = 32
    BY PenV1Length, G5FrameLength
  <2> QED BY <2>1, <2>3, <2>4 DEF Describes, PenSize
<1> QED BY <1>2, <1>3, <1>4, <1>5 DEF Tablets

\* What a bound tablet sends is described, whatever becomes of its ID.
LEMMA ReportDescribed ==
  ASSUME kind \in Tablets, reports \in Descriptors[kind], Reported, Whole'
  PROVE  Describes(got'.id, 8 * (got'.size - 1))
<1>1. CASE \E near, b20, short \in BOOLEAN : Pen(near, b20, short)
  <2>1. PICK near \in BOOLEAN, b20 \in BOOLEAN, short \in BOOLEAN : Pen(near, b20, short)
    BY <1>1
  <2>2. ~short
    <3>1. short => sent'.raw.size = 1
      BY <2>1 DEF Pen, RawEvent, Report
    <3> QED BY <3>1 DEF Whole
  <2>3. got'.id = par.pen /\ got'.size = PenSize(par)
    BY <2>1, <2>2, TabletPen DEF par
  <2> QED BY <2>3, TabletReports
<1>2. CASE \E short \in BOOLEAN : Button(short)
  <2>1. PICK short \in BOOLEAN : Button(short)
    BY <1>2
  <2>2. ~short
    <3>1. short => sent'.raw.size = 1
      BY <2>1 DEF Button, RawEvent, Report
    <3> QED BY <3>1 DEF Whole
  <2>3. /\ got'.id = par.frame /\ par.frame # 0
        /\ got'.size = IF par.flag THEN PenSize(par) ELSE 5
    BY <2>1, <2>2, TabletButton DEF par
  <2> QED BY <2>3, TabletReports
<1>3. CASE \E d \in {1, -1} : Turn(d)
  <2>1. kind \in Kinds
    BY TabletParams
  <2>2. kind = "g5" /\ got'.id = 6 /\ got'.size = 5
    BY <1>3, <2>1, TabletTurn
  <2>3. par.frame = 6 /\ par.flag = FALSE
    BY <2>1, <2>2, EncoderIsG5 DEF par
  <2>4. Describes(6, 8 * (5 - 1))
    BY <2>3, TabletReports
  <2> QED BY <2>2, <2>4
<1> QED BY <1>1, <1>2, <1>3 DEF Reported

\* Every whole report of a tablet that the driver passes on is described, and
\* its input device is there to take it if there are any (273-357,
\* hid-uclogic-rdesc.c).
THEOREM ReportsReachInput == Session => []ReachesInput
<1>1. Start => ReachesInput
  BY DEF Start, Init, ReachesInput
<1>2. SessionInv /\ ReachesInput /\ [SessionNext]_session => ReachesInput'
  <2> SUFFICES ASSUME SessionInv, ReachesInput, [SessionNext]_session,
                      kind' \in Tablets, sent'.what # "nothing", Whole'
               PROVE  \E i \in DOMAIN reports' :
                        /\ reports'[i].id = got'.id /\ Length(reports'[i]) = 8 * (got'.size - 1)
                        /\ "input" \in claimed' => inputs'[i] = "registered"
    BY Zenon DEF ReachesInput
  <2>1. CASE ReportComes
    <3>1. /\ pc = "bound" /\ Reported /\ kind \in Kinds /\ reports \in Descriptors[kind]
          /\ UNCHANGED <<reports, inputs, claimed>>
      BY <2>1 DEF ReportComes, connecting, SessionInv, DialInv, TypeOK, ConnectInv
    <3>2. kind \in Tablets
      BY <3>1, WhatRestarts
    <3>3. PICK i \in DOMAIN reports :
             reports[i].id = got'.id /\ Length(reports[i]) = 8 * (got'.size - 1)
      BY <3>1, <3>2, ReportDescribed DEF Describes
    <3>4. "input" \in claimed => inputs[i] = "registered"
      <4> SUFFICES ASSUME "input" \in claimed PROVE inputs[i] = "registered"
        OBVIOUS
      <4>1. Configured
        BY <3>1 DEF SessionInv, ConnectInv, ClaimedInv
      <4>2. par.unused = FALSE
        BY <3>2, TabletParams, HiresHasRoom DEF par
      <4>3. i \in Wanted
        BY <4>2 DEF Wanted, Discarded
      <4> QED BY <4>1, <4>3 DEF Configured
    <3> QED BY <3>1, <3>3, <3>4
  <2>2. CASE UNCHANGED <<kind, sent, got, reports, inputs, claimed>>
    BY <2>2 DEF ReachesInput, Whole
  <2>3. CASE Allocate \/ Configure \/ Unwind \/ ClaimInput \/ ClaimHidraw
    <3>1. pc # "bound" /\ UNCHANGED sent
      BY <2>3 DEF Allocate, Configure, Unwind, ClaimInput, ClaimHidraw, Advance, Fail, Other, vars
    <3> QED BY <3>1 DEF SessionInv, SentInv
  <2>4. CASE Remove
    <3>1. sent'.what = "nothing"
      BY <2>4 DEF Remove
    <3> QED BY <3>1
  <2>5. TurnsUnheard \/ Timeout \/ UNCHANGED session => UNCHANGED <<kind, sent, got, reports, inputs, claimed>>
    BY DEF TurnsUnheard, TurnUnheard, Timeout, session, connecting, vars
  <2> QED BY <2>1, <2>2, <2>3, <2>4, <2>5 DEF SessionNext
<1> QED BY <1>1, <1>2, SessionInductive, PTL DEF Session
=============================================================================
