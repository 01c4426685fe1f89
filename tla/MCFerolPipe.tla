---------------------------- MODULE MCFerolPipe ----------------------------
(***************************************************************************)
(* FerolPipe for TLC: two FEROLs, one of which sends fragments in two      *)
(* buffers, and FIFOs of one element.  No buffer differs from another but  *)
(* in its name.                                                            *)
(***************************************************************************)
EXTENDS FerolPipe, TLC

CONSTANTS b1, b2, b3
MCBuffers == {b1, b2, b3}
BufferNames == Permutations(MCBuffers)
=============================================================================
