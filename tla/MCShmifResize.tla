---------------------------- MODULE MCShmifResize ----------------------------
(***************************************************************************)
(* Requests and configurations for TLC.  A unit of w is a row of pixels, a *)
(* unit of b an audio buffer of the default size.                          *)
(***************************************************************************)
EXTENDS ShmifResize

R(ww, v, a, b) == [w |-> ww, v |-> v, a |-> a, b |-> b, auth |-> FALSE]

\* The same with SHMIF_RHINT_AUTH_TOK.
Token(r) == [r EXCEPT !.auth = TRUE]

\* Requests that the server grants as they are, the plain form among them, and
\* one that the client itself turns down.
Granted == {R(4, -1, -1, -1), R(1, 2, 1, 1), R(2, 1, 2, 2), R(9, 1, 0, 1), R(2, 1, 0, 0)}

\* One is refused, too wide for the script's limit; one asks for too many
\* buffers.
Refused == {R(2, -1, -1, -1), R(6, -1, -1, -1), R(1, 4, 1, 1)}

\* Requests that it changes: no video, too many buffers, default audio size,
\* audio kept with buffers too small.
Changed == {R(2, 0, -1, -1), R(2, 4, -1, -1), R(2, 1, 1, 0), R(1, -1, -1, 1)}

\* Tokens alone, as the graphics library sends them, with a new layout, and in a
\* request that is refused for its width.
Tokens == {R(2, -1, -1, -1), Token(R(1, -1, -1, -1)), Token(R(4, 2, 1, 2)),
           Token(R(6, -1, -1, -1))}

\* An engine that grants; one that changes and refuses; one that authenticates.
EngineGrants ==
  {[requests |-> Granted, max_w |-> 0, server |-> "engine", drmauth |-> FALSE, ops |-> 4,
    faults |-> {"crash", "destroy"}]}
EngineDiffers ==
  {[requests |-> Refused \cup Changed, max_w |-> 4, server |-> "engine", drmauth |-> FALSE,
    ops |-> 3, faults |-> {}]}
EngineAuthenticates ==
  {[requests |-> Tokens, max_w |-> 4, server |-> "engine", drmauth |-> TRUE, ops |-> 3,
    faults |-> {}]}

\* Shmif servers with little memory, one with a limit on the width.
Servers ==
  {[requests |-> Granted \cup {Token(R(2, -1, -1, -1))}, max_w |-> 0, server |-> "shmifsrv",
    drmauth |-> FALSE, ops |-> 3, faults |-> {"nomem"}],
   [requests |-> Refused, max_w |-> 4, server |-> "shmifsrv", drmauth |-> FALSE, ops |-> 4,
    faults |-> {"crash", "destroy", "nomem"}]}

Supported == EngineGrants \cup EngineDiffers \cup EngineAuthenticates \cup Servers
==============================================================================
