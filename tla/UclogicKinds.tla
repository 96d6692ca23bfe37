---------------------------- MODULE UclogicKinds ----------------------------
(***************************************************************************)
(* The parameters that uclogic_params_init leaves in drvdata, as far as    *)
(* hid-uclogic-core.c reads them: one kind of interface for each way to    *)
(* fill them in.                                                           *)
(***************************************************************************)

\* Interfaces by what params_init finds: a pen and its ID, how it reports its
\* range, whether its reports carry the frame controls, and how frame reports
\* are to be tweaked.
Noop == [unused |-> FALSE, pen |-> 0, inrange |-> "normal", hires |-> FALSE, flag |-> FALSE,
         frame |-> 0, dev_id |-> FALSE, re |-> FALSE]
V1 == [Noop EXCEPT !.pen = 7, !.inrange = "inverted"]
V2 == [Noop EXCEPT !.pen = 8, !.inrange = "none", !.hires = TRUE]

KindParams ==
    [plain |-> Noop,
     mouse |-> [Noop EXCEPT !.unused = TRUE],
     v1 |-> V1,
     v1_buttons |-> [V1 EXCEPT !.flag = TRUE, !.frame = 247],
     v2_buttons |-> [V2 EXCEPT !.flag = TRUE, !.frame = 247],
     g5 |-> [V1 EXCEPT !.frame = 6, !.dev_id = TRUE, !.re = TRUE]]

Kinds == {"plain", "mouse", "v1", "v1_buttons", "v2_buttons", "g5"}
Tablets == {"v1", "v1_buttons", "v2_buttons", "g5"}
=============================================================================
