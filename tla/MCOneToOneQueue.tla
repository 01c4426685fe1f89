-------------------------- MODULE MCOneToOneQueue --------------------------
(* OneToOneQueue on small rings, for TLC. *)
EXTENDS OneToOneQueue

CONSTANTS a, b, raw, http1

MCElement == {a, b}
MCRaw == raw
MCCapacities == 1 .. 2
=============================================================================
