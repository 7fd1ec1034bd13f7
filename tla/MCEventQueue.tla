---------------------------- MODULE MCEventQueue -----------------------------
(* Configurations of EventQueue for TLC. *)
EXTENDS EventQueue

\* Frameservers fill half of the queue; the last event shuts the engine down.
Half == [limit |-> 5, exits |-> {5}, scanout |-> FALSE, draining |-> FALSE,
         overruns |-> FALSE]

\* Frameservers go to the drain, scripts run while the GPUs are locked.
Drain == [limit |-> 4, exits |-> {}, scanout |-> TRUE, draining |-> TRUE,
          overruns |-> FALSE]

\* The client spoils its ring, before or after its first resize.
Spoilt == [limit |-> 3, exits |-> {}, scanout |-> FALSE, draining |-> TRUE,
           overruns |-> TRUE]

Both == {Half, Drain, Spoilt}
==============================================================================
