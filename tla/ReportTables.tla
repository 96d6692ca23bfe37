---------------------------- MODULE ReportTables ----------------------------
(***************************************************************************)
(* The fixed report descriptors of hid-uclogic-rdesc.c, hid-kye.c,         *)
(* hid-polostar.c and hid-viewsonic.c, as the reports they describe.  A    *)
(* report is its kind, its ID and its fields in the order of their bits;   *)
(* a field has a use, a size in bits, a count and logical limits, set or   *)
(* inherited from the field before it.  Constant fields are counted in     *)
(* bits; usage codes, units and physical limits are left out.              *)
(***************************************************************************)
EXTENDS Integers, Sequences

Field(use, size, count, lo, hi) ==
    [use |-> use, size |-> size, count |-> count, lo |-> lo, hi |-> hi]
Bits(use, n) == Field(use, 1, n, 0, 1)
Pad(n) == Bits("pad", n)
Axis(use, size, hi) == Field(use, size, 1, 0, hi)
Notch(use, size, n) == Field(use, size, n, -1, 1)

Feature(id, fields) == [type |-> "feature", id |-> id, fields |-> fields]
Input(id, fields) == [type |-> "input", id |-> id, fields |-> fields]

\* The bit where field i starts, counted from the end of the ID byte; for
\* i = Len + 1 the length of the report.
FirstBit(r, i) ==
    LET sum[n \in 1..(Len(r.fields) + 1)] ==
            IF n = 1 THEN 0
            ELSE sum[n - 1] + r.fields[n - 1].size * r.fields[n - 1].count
    IN sum[i]

Length(r) == FirstBit(r, Len(r.fields) + 1)

\* The field that bit b belongs to.
FieldAt(r, b) ==
    LET i == CHOOSE n \in 1..Len(r.fields) : FirstBit(r, n) <= b /\ b < FirstBit(r, n + 1)
    IN r.fields[i]

\* Whether a field has room for its logical limits.
Fits(f) == f.hi < 2 ^ (IF f.lo < 0 THEN f.size - 1 ELSE f.size)
           /\ (f.lo < 0 => f.lo >= -(2 ^ (f.size - 1)))

-----------------------------------------------------------------------------
(* hid-uclogic-rdesc.c                                                     *)

\* Three switches of the pen, then its range where it is told, X, Y, pressure.
WpPen(x, y) ==
    Input(9, <<Bits("pen", 3), Pad(5), Axis("x", 16, x), Axis("y", 16, y),
               Axis("pressure", 16, 1023)>>)
RangedPen(id, pad, size, x, y, p) ==
    Input(id, <<Bits("pen", 3), Pad(pad), Bits("inrange", 1), Pad(4 - pad),
                Axis("x", size, x), Axis("y", size, y), Axis("pressure", 16, p)>>)
WpMouse ==
    Input(8, <<Bits("button", 3), Pad(5), Field("move", 8, 2, -127, 127),
               Notch("wheel", 8, 1), Pad(8)>>)

Wp4030u == {WpPen(32767, 32767)}
Wp5540u == {WpPen(32767, 32767), WpMouse}
Wp8060u == {WpPen(32767, 32767), WpMouse}
Pf1209 == {WpPen(32767, 32767), WpMouse}
Wp1062 == {RangedPen(9, 4, 16, 20000, 13166, 1023)}
Twhl850Pen == {RangedPen(9, 3, 16, 32000, 20000, 1023)}
Twhl850Mouse ==
    {Input(1, <<Bits("button", 3), Pad(5), Field("move", 16, 2, -32768, 32767),
                Notch("wheel", 8, 1), Pad(8)>>)}
Twhl850Keys == {Input(3, <<Bits("modifier", 8), Field("key", 8, 6, 0, 255)>>)}
Twha60Pen == {RangedPen(9, 4, 16, 39999, 24999, 1023)}
Twha60Keys == {Input(5, <<Pad(8), Bits("key", 12), Bits("key", 12), Pad(8)>>)}

\* The templates, with the tablet's maxima filled in: what the strings 100 and
\* 200 give has 16 bits, X and Y of string 200 have 24.
PressureMax == 65535
PenV1 == {RangedPen(7, 3, 16, 65535, 65535, PressureMax)}
PenV2 ==
    LET pen == RangedPen(8, 3, 24, 2 ^ 24 - 1, 2 ^ 24 - 1, PressureMax)
    IN {[pen EXCEPT !.fields = Append(@, Pad(16))]}

\* UCLOGIC_RDESC_BUTTONPAD_BYTES; a stylus switch, X and Y are there to please
\* drivers of tablets.
Buttonpad(padding) ==
    {Input(247, <<Bits("barrel", 1), Bits("xy", 2), Pad(21), Bits("button", 10),
                  Bits("button", 2), Pad(padding)>>)}

\* Mutant: the padding of the v1 report is that of the v2 report.
MutButtonpadV1 == Buttonpad(52)
ButtonpadV1 == Buttonpad(20)
ButtonpadV2 == Buttonpad(52)

\* Sets no logical limits: it has those in force where it follows, 0..max.
Ex07Buttonpad(max) ==
    {Input(6, <<Field("button", 1, 4, 0, max), Field("pad", 1, 26, 0, max),
                Field("button", 1, 2, 0, max)>>)}

\* Mutant: the padding before the wheel is one bit short.
MutG5Frame ==
    {Input(6, <<Bits("button", 5), Pad(3), Axis("dev_id", 8, 255), Bits("barrel", 1),
                Bits("xy", 2), Pad(10), Notch("wheel", 2, 1)>>)}

G5Frame ==
    {Input(6, <<Bits("button", 5), Pad(3), Axis("dev_id", 8, 255), Bits("barrel", 1),
                Bits("xy", 2), Pad(11), Notch("wheel", 2, 1)>>)}

\* UCLOGIC_RDESC_UGEE_G5_FRAME_DEV_ID_BYTE and ..._RE_LSB count from the ID.
G5DevIdByte == 2
G5ReLsb == 38

Deco01Frame == {Input(6, <<Bits("button", 8), Bits("barrel", 1), Bits("xy", 2), Pad(21)>>)}

-----------------------------------------------------------------------------
(* hid-kye.c: the tablets                                                  *)

Enabling == Feature(5, <<Field("mode", 8, 7, -128, 127)>>)
KyePen(x, y, p) == RangedPen(16, 4, 16, x, y, p)
KyePuck(x, y) ==
    Input(17, <<Bits("button", 3), Pad(5), Axis("x", 16, x), Axis("y", 16, y),
                Notch("wheel", 8, 1), Pad(8)>>)
KyeKeys(n, padding) == Input(18, <<Bits("key", n), Pad(padding)>>)

EasyPenI405X == {Enabling, KyePen(14080, 10240, 1023)}
MousePenI608X == {Enabling, KyePen(20480, 15360, 1023), KyePuck(20480, 15360)}
MousePenI608XV2 == {Enabling, KyePen(40960, 30720, 2047), KyePuck(40960, 30720)}
EasyPenM610X == {Enabling, KyePen(40960, 25600, 1023), KyeKeys(4, 52)}
PenSketchM912 ==
    {Feature(5, <<Field("mode", 8, 7, -127, 127)>>), KyePen(61440, 46080, 2047),
     Input(17, <<Bits("button", 3), Pad(4), Bits("inrange", 1), Axis("x", 16, 61440),
                 Axis("y", 16, 46080), Notch("wheel", 8, 1)>>),
     KyeKeys(8, 48)}
EasyPenM406XE == {Enabling, KyePen(15360, 10240, 1023), KyeKeys(4, 52)}

-----------------------------------------------------------------------------
(* hid-polostar.c and hid-viewsonic.c                                      *)

\* Mutant: the padding of the consumer control is missing.
MutPt1001 ==
    {Input(5, <<Pad(8), Bits("key", 18)>>)}

Pt1001 ==
    {Input(1, <<Bits("button", 5), Pad(3), Field("move", 16, 2, -32767, 32767),
                Field("wheel", 8, 1, -127, 127)>>),
     Input(5, <<Pad(8), Bits("key", 18), Pad(6)>>),
     Input(9, <<Bits("pen", 3), Pad(5), Axis("x", 16, 4096), Axis("y", 16, 4096),
                Axis("pressure", 16, 1023)>>)}

Pd1011 ==
    {Input(2, <<Axis("x", 16, 43392), Axis("y", 16, 27120), Pad(1), Bits("pen", 2),
                Pad(5), Field("pressure", 16, 1, 5, 2047), Pad(16)>>)}
=============================================================================
