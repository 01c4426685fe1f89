------------------------- MODULE MCResourceManager -------------------------
(* Two resources of two events, one builder, the EVM and one RU. *)
EXTENDS ResourceManager

CONSTANTS evm, ru1

MCRUs == {evm, ru1}
=============================================================================
