--------------------------- MODULE MCUclogicDesc ---------------------------
(***************************************************************************)
(* PenNumbers and RdescTemplate for TLC, in the order of                  *)
(* uclogic_params_pen_init: a string's numbers, then a template. Neither    *)
(* depends on the other, so each is tried with all its inputs and one of   *)
(* the other's: numbers around the limits of a byte, of 16 bits, of        *)
(* printable characters, of 2^21 and of 2^31 / 1000; templates of up to    *)
(* four pieces, among them placeholders of known and unknown index and     *)
(* parts of one, that values may complete.                                 *)
(***************************************************************************)
EXTENDS PenNumbers, RdescTemplate, SequencesExt

XBytes ==
    {<<a, b, c>> : a \in {0, 50, 255}, b \in {0, 255}, c \in {0, 31, 32, 50, 255}}
        \cup {<<155, 196, 32>>, <<156, 196, 32>>}
YBytes == {<<0, 1, 0>>, <<0, 50, 0>>, <<50, 0, 50>>, <<255, 255, 31>>, <<255, 255, 255>>}
PBytes == {<<50, 0>>, <<255, 31>>}
RBytes == {<<0, 0>>, <<1, 0>>, <<50, 0>>, <<216, 19>>, <<255, 255>>}

MCBuffers ==
    {[i \in 2..11 |-> (x \o y \o p2 \o r)[i - 1]] :
        x \in XBytes, y \in YBytes, p2 \in PBytes, r \in RBytes}

Head3 == <<254, 237, 29>>
Pieces == {Head3 \o <<0>>, Head3 \o <<1>>, Head3 \o <<2>>, Head3, <<254>>, <<254, 237, 7, 0>>,
           <<237, 29, 1, 5>>}

OneBuffer == [i \in 2..11 |-> <<0, 0, 0, 0, 1, 0, 50, 0, 50, 0>>[i - 1]]

MCTemplates == {FlattenSeq(s) : s \in UNION {[1..n -> Pieces] : n \in 0..4}}

\* The bytes of the first value are themselves a placeholder, those of the
\* second end with the first byte of one.
MCParams == <<1961470, -33554432>>

\* Any numbers with an empty template, any template with one buffer.
MCInit ==
    /\ StringRead /\ Init
    /\ \/ template = << >>
       \/ proto = "v2" /\ ~rest /\ buf = OneBuffer

MCNext ==
    \/ Fill /\ UNCHANGED vars
    \/ out.state = "filled" /\ Next /\ UNCHANGED numbers

MCSpec == MCInit /\ [][MCNext]_<<numbers, vars>>
=============================================================================
