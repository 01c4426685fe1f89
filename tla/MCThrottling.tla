----------------------------- MODULE MCThrottling -----------------------------
(* An instance of Throttling for TLC. *)
EXTENDS Throttling

Fine == [stale |-> FALSE, missing |-> 0, hlt |-> 2, cloud |-> 0, quarantined |-> 0,
         staleFUs |-> 0, bandwidth |-> 0, queued |-> FALSE, pause |-> FALSE, maxLS |-> 0]

MCSummaries ==
  {Fine,
   [Fine EXCEPT !.hlt = 0, !.cloud = 1],              \* gone to the cloud
   [Fine EXCEPT !.hlt = 0, !.staleFUs = 1],
   [Fine EXCEPT !.pause = TRUE],
   [Fine EXCEPT !.maxLS = 1, !.bandwidth = 1],        \* one lumi section done
   [Fine EXCEPT !.stale = TRUE],
   [Fine EXCEPT !.missing = 8, !.pause = TRUE],       \* the flag is read, then it fails
   [Fine EXCEPT !.missing = 4, !.hlt = 0, !.quarantined = 1]}
(* What follows at once of these, or of Fine by one change. *)
MCFirstSummaries ==
  {Fine,
   [Fine EXCEPT !.hlt = 0, !.cloud = 1],
   [Fine EXCEPT !.stale = TRUE],
   [Fine EXCEPT !.missing = 8, !.pause = TRUE]}
=============================================================================
