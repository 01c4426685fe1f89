--------------------------- MODULE MCFragmentPath ---------------------------
(***************************************************************************)
(* FragmentPath for TLC: two events, fragments of one to three packets,    *)
(* with data which ends with a packet or leaves only the trailer for it.   *)
(***************************************************************************)
EXTENDS FragmentPath

Answer(s, t, d, e) == <<[stream |-> s, local |-> 6, dropped |-> d],
                        [stream |-> t, local |-> 4, dropped |-> e]>>

MCAnswers == {Answer(s, t, d, 0) : s \in {8, 14}, t \in {4, 6}, d \in {0, 1}}

(* The second event lacks no, one or two other FEDs; two of them need a    *)
(* longer header.                                                          *)
MCDroppedAnswers == {Answer(8, 4, 0, e) : e \in 0 .. 2}
=============================================================================
