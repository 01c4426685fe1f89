--------------------------- MODULE MCEVMRequests ---------------------------
(* Model checking of EVMRequests, with the history of EVMRequestsHistory.  *)
EXTENDS EVMRequestsHistory

CONSTANTS R1, R2, P1, P2
MCResponders == {P1, P2}
\* Only the last builder unit ever has so much to do that it asks less urgently.
MCPrioritiesOf == [b \in BU |-> IF b = NbBUs THEN Priorities ELSE {0}]
MCOwner == [r \in Resources |-> IF r = R2 THEN 2 ELSE 1]
=============================================================================
