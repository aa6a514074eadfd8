----------------------------- MODULE MCHubFeed -----------------------------
(* One API process, two readers, two threads, and buffers of two events    *)
(* instead of 32.  A second process would run the same code on a wire of   *)
(* its own.                                                                *)
EXTENDS HubFeed, TLC

CONSTANTS api1, t1, t2, r1, r2, none

MCInstances == {api1}
MCRooms == {t1, t2}
MCSubs == {r1, r2}
MCInstanceOf == (r1 :> api1) @@ (r2 :> api1)
=============================================================================
