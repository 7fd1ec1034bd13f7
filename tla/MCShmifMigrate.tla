--------------------------- MODULE MCShmifMigrate ----------------------------
(* Clients of ShmifMigrate for TLC. *)
EXTENDS ShmifMigrate

Client1(events, pull, calls) ==
  [events |-> events, pull |-> pull, calls |-> calls, alt |-> TRUE, noauto |-> FALSE, noreg |-> TRUE, guard |-> TRUE]

\* A client that polls or waits, one that only signals, resizes or sends; the
\* flags that keep it from reconnecting, from keeping its guid, from being
\* guarded.
Clients ==
  {Client1({"data", "alt", "noalt"}, TRUE, {"poll"}),
   Client1({"data", "move", "exit"}, TRUE, {"poll"}),
   Client1({"data", "move"}, FALSE, {"wait"}),
   Client1({"data", "exit"}, FALSE, {"poll", "enqueue"}),
   Client1({"data"}, TRUE, {"signal", "resize"}),
   [Client1({"data", "move"}, TRUE, {"poll", "signal"}) EXCEPT !.noauto = TRUE, !.noreg = FALSE],
   [Client1({"data", "move"}, TRUE, {"poll"}) EXCEPT !.guard = FALSE, !.alt = FALSE]}
==============================================================================
