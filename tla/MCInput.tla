------------------------------ MODULE MCInput ------------------------------
(***************************************************************************)
(* Constants for checking Input: an EVM and an RU which tolerate no errors *)
(* or all errors, and an EVM which tolerates them for a limited time.      *)
(***************************************************************************)
EXTENDS Input

All == [corrupted |-> TRUE, outOfSequence |-> TRUE, incomplete |-> TRUE]
None == [corrupted |-> FALSE, outOfSequence |-> FALSE, incomplete |-> FALSE]
Limited == [All EXCEPT !.incomplete = FALSE]

MCUnits ==
  [master : {0, 1}, tolerate : {All, None}] \cup {[master |-> 1, tolerate |-> Limited]}
=============================================================================
