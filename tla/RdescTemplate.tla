---------------------------- MODULE RdescTemplate ----------------------------
(***************************************************************************)
(* uclogic_rdesc_template_apply of hid-uclogic-rdesc.c: the scan that      *)
(* replaces the placeholders of a report descriptor template, in place, by *)
(* the parameters of a tablet.  Positions count from 1.                    *)
(***************************************************************************)
EXTENDS Integers, Sequences

CONSTANTS
    Templates,      \* templates: sequences of bytes
    Params          \* param_list: 32-bit signed values

\* An index byte is never the first byte of a placeholder: the only list of the
\* driver has five values (hid-uclogic-rdesc.h:92-99).
ASSUME TemplateAssumption ==
    /\ Templates \subseteq Seq(0..255)
    /\ Params \in Seq(Int) /\ Len(Params) \in 0..254

VARIABLES
    pc,             \* "copy", "scan", "done" or "failed"
    template,       \* the caller's template
    rdesc,          \* the copy
    p               \* the position that the scan looks at

vars == <<pc, template, rdesc, p>>

\* Byte k of a value in little-endian order, of negative values too.
Byte(v, k) == (v \div <<1, 256, 65536, 16777216>>[k + 1]) % 256

IsHead(r, i) == r[i] = 254 /\ r[i + 1] = 237 /\ r[i + 2] = 29

\* The length of a placeholder: head and index byte.
PH == 4

\* A placeholder has room at i of a copy of t.
Room(t, i) == i + 3 <= Len(t)

\* Mutant: the scan goes on right after the head.
MutAfter(i) == i + 3

After(i) == i + PH

\* The value over the placeholder at i.
Put(r, i, v) ==
    [j \in DOMAIN r |-> IF j \in i..(i + 3) THEN Byte(v, j - i) ELSE r[j]]

Init ==
    /\ pc = "copy" /\ template \in Templates
    /\ rdesc = << >> /\ p = 1

\* kmemdup
Copy(ok) ==
    /\ pc = "copy"
    /\ pc' = IF ok THEN "scan" ELSE "failed"
    /\ rdesc' = IF ok THEN template ELSE << >>
    /\ UNCHANGED <<template, p>>

Found == IsHead(rdesc, p) /\ rdesc[p + 3] < Len(Params)

Replace ==
    /\ pc = "scan" /\ Room(template, p) /\ Found
    /\ rdesc' = Put(rdesc, p, Params[rdesc[p + 3] + 1])
    /\ p' = After(p)
    /\ UNCHANGED <<pc, template>>

Skip ==
    /\ pc = "scan" /\ Room(template, p) /\ ~Found
    /\ p' = p + 1
    /\ UNCHANGED <<pc, template, rdesc>>

Return ==
    /\ pc = "scan" /\ ~Room(template, p)
    /\ pc' = "done"
    /\ UNCHANGED <<template, rdesc, p>>

Next == (\E ok \in BOOLEAN : Copy(ok)) \/ Replace \/ Skip \/ Return

Spec == Init /\ [][Next]_vars

-----------------------------------------------------------------------------
(* What it is to do                                                        *)

\* The template itself has a placeholder at i.
Placeholder(t, i) ==
    /\ i \in 1..Len(t) /\ Room(t, i)
    /\ IsHead(t, i) /\ t[i + 3] < Len(Params)

Covered(t, j) == \E i \in 1..Len(t) : Placeholder(t, i) /\ j \in i..(i + 3)

\* Every placeholder of t replaced at once.
Applied(t) ==
    [j \in 1..Len(t) |->
        IF Covered(t, j)
        THEN LET i == CHOOSE i \in 1..Len(t) : Placeholder(t, i) /\ j \in i..(i + 3)
             IN Byte(Params[t[i + 3] + 1], j - i)
        ELSE t[j]]

\* The result has every placeholder of the template replaced and nothing else,
\* whatever bytes the values bring with them ("replaces every occurence",
\* hid-uclogic-rdesc.c:822).
PlaceholdersReplaced == pc = "done" => rdesc = Applied(template)

\* The loop invariant: what the scan has passed is as it shall be, what lies
\* ahead is the template's, and no placeholder lies across.
ScanInv ==
    /\ template \in Templates /\ p \in Nat \ {0}
    /\ pc \in {"copy", "scan", "done", "failed"}
    /\ pc \in {"copy", "failed"} => p = 1
    /\ pc \in {"scan", "done"} =>
        /\ rdesc = [j \in 1..Len(template) |->
                       IF j < p THEN Applied(template)[j] ELSE template[j]]
        /\ \A i \in 1..Len(template) : Placeholder(template, i) => After(i) <= p \/ p <= i
    /\ pc = "done" => ~Room(template, p)
=============================================================================
