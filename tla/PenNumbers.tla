----------------------------- MODULE PenNumbers -----------------------------
(***************************************************************************)
(* What uclogic_params_pen_init_v1 and _v2 make of the bytes of strings    *)
(* 100 and 200: the logical maxima, and the physical maxima computed from  *)
(* them in 32-bit signed arithmetic that wraps (the kernel is built with   *)
(* -fno-strict-overflow); v2 first sets aside texts.                       *)
(***************************************************************************)
EXTENDS Integers

CONSTANT Buffers        \* bytes 2 to 11 of the strings that tablets answer

ASSUME BuffersAssumption == Buffers \subseteq [2..11 -> 0..255]

VARIABLES
    proto,          \* which string was asked for: "v1" or "v2"
    buf,            \* bytes 2 to 11 of the string
    rest,           \* the remaining bytes of string 200 look like text
    out             \* what was made of it: state "none", "text" or "filled"

numbers == <<proto, buf, rest, out>>

Word == 65536

\* Mutant: the product is taken in 16 bits.
MutTimes1000(n) == (n * 1000) % Word

\* n * 1000 for n < 2^24 as a 32-bit signed integer, from its two halves.
Times1000(n) ==
    LET low == (n % Word) * 1000
        high == ((n \div Word) * 1000 + (low \div Word)) % Word
    IN (IF high < Word \div 2 THEN high ELSE high - Word) * Word + (low % Word)

\* The division of C, which truncates.
Quotient(a, b) == IF a < 0 THEN -((-a) \div b) ELSE a \div b

\* The physical maximum in thousandths of an inch; 0 if unknown.
Physical(lm, resolution) ==
    IF resolution = 0 THEN 0 ELSE Quotient(Times1000(lm), resolution)

Le16(i) == buf[i] + 256 * buf[i + 1]

\* uclogic_params_get_le24
Le24(i) == buf[i] + 256 * buf[i + 1] + Word * buf[i + 2]

DescParams(x, y) ==
    LET resolution == Le16(10)
    IN [state |-> "filled", x |-> x, y |-> y, pressure |-> Le16(8),
        x_pm |-> Physical(x, resolution), y_pm |-> Physical(y, resolution)]

\* Mutant: control characters are text.
MutIsText == rest /\ \A i \in {2, 4, 6, 8, 10} : buf[i] < 127 /\ buf[i + 1] = 0

\* UTF-16LE-encoded ASCII to the end.
IsText ==
    rest /\ \A i \in {2, 4, 6, 8, 10} : buf[i] >= 32 /\ buf[i] < 127 /\ buf[i + 1] = 0

Nothing(state) == [state |-> state, x |-> 0, y |-> 0, pressure |-> 0, x_pm |-> 0, y_pm |-> 0]

FillV1 ==
    /\ out.state = "none" /\ proto = "v1"
    /\ out' = DescParams(Le16(2), Le16(4))
    /\ UNCHANGED <<proto, buf, rest>>

FillV2 ==
    /\ out.state = "none" /\ proto = "v2"
    /\ out' = IF IsText THEN Nothing("text") ELSE DescParams(Le24(2), Le24(5))
    /\ UNCHANGED <<proto, buf, rest>>

StringRead ==
    /\ proto \in {"v1", "v2"} /\ rest \in BOOLEAN /\ buf \in Buffers
    /\ out = Nothing("none")

Fill == FillV1 \/ FillV2

NumbersSpec == StringRead /\ [][Fill]_numbers

-----------------------------------------------------------------------------
Filled == out.state = "filled"

Text == out.state = "text"

\* Maxima below 2^21; at 5080 lines per inch, that is a tablet of 10 meters.
Sane(i) == Le24(i) < 32 * Word

\* A tablet whose maxima are sane is never taken for a text, whatever bytes
\* they are made of, and its physical maxima are not spoilt by overflow
\* (305-313, 332-341).
SaneIsExact ==
    proto = "v2" /\ Sane(2) /\ Sane(5) =>
        /\ ~Text
        /\ Filled /\ Le16(10) # 0 =>
               /\ out.x_pm = (Le24(2) * 1000) \div Le16(10)
               /\ out.y_pm = (Le24(5) * 1000) \div Le16(10)

\* With the 16 bits of v1 the arithmetic cannot overflow at all (177-196).
V1IsExact ==
    proto = "v1" /\ Filled /\ Le16(10) # 0 =>
        /\ out.x_pm = (Le16(2) * 1000) \div Le16(10)
        /\ out.y_pm = (Le16(4) * 1000) \div Le16(10)

\* What is made of a string is made of its bytes.
OutInv ==
    /\ buf \in [2..11 -> 0..255] /\ proto \in {"v1", "v2"}
    /\ Text => proto = "v2" /\ IsText
    /\ Filled => out = IF proto = "v1" THEN DescParams(Le16(2), Le16(4))
                       ELSE DescParams(Le24(2), Le24(5))
=============================================================================
