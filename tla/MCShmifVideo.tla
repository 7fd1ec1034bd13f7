---------------------------- MODULE MCShmifVideo -----------------------------
(* Configurations of ShmifVideo for TLC. *)
EXTENDS ShmifVideo

\* Blocking signals to the engine, which may hold frames while it draws.
Engine == [cnt |-> 1, masks |-> {"block"}, subregion |-> FALSE, server |-> "engine",
           synch |-> {0, 2}, synchsize |-> FALSE, faults |-> {"crash", "destroy"}]

\* Two buffers, with a script that acknowledges resizes
Double == [Engine EXCEPT !.cnt = 2, !.synchsize = TRUE]

\* Sub-region updates, with and without blocking; the server may drop the
\* segment with its switch left set.
Sub == [Engine EXCEPT !.cnt = 2, !.subregion = TRUE, !.masks = {"block", "none"},
                      !.faults = {"crash", "destroy", "keepdms"}]

\* Three buffers against a shmif server
Srv == [Engine EXCEPT !.cnt = 3, !.server = "shmifsrv", !.synch = {0}]

Supported == {Engine, Double, Sub, Srv}

\* Three buffers against the engine
Triple == {[Engine EXCEPT !.cnt = 3, !.faults = {}]}
==============================================================================
