---------------------------- MODULE MCShmifRing ----------------------------
(* Instances of ShmifRing for TLC. *)
EXTENDS ShmifRing

\* Kinds queuetransfer acknowledges by posting the semaphore.
WakingKinds == {"EXTERNAL", "PLANE_LAST"}

\* A forwarded event and two that are consumed inside queuetransfer.
MixedKinds == {"EXTERNAL", "CLOCKREQ", "PLANE_LEFT"}
=============================================================================
