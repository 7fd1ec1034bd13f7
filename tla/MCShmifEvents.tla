---------------------------- MODULE MCShmifEvents ----------------------------
(* Configurations of ShmifEvents for TLC. *)
EXTENDS ShmifEvents

\* Events with and without descriptors, from a server that may die
Pair == [kinds |-> {"plain", "fd", "auto", "exit"}, modes |-> {"poll", "wait"},
         fresh |-> FALSE, q |-> 4, limit |-> 4, crashes |-> TRUE]

\* The same for a client that only waits, with another buffer each time
Fresh1 == [Pair EXCEPT !.modes = {"wait"}, !.fresh = TRUE]

\* Events that are merged or coalesced
Merge == [Pair EXCEPT !.kinds = {"plain", "dim", "dens", "step"}, !.q = 3,
                      !.crashes = FALSE]

\* All kinds but the stepframe, through a small ring, to a client that is paused
Pause == [Pair EXCEPT !.kinds = {"plain", "fd", "font", "fontsz", "dim", "pause", "unpause",
                                 "exit", "auto"}, !.q = 2, !.limit = 3]

\* More hints for a client that is paused, and what comes after them
PauseHint == [Pair EXCEPT !.kinds = {"plain", "dim", "pause", "unpause"}, !.crashes = FALSE]

Supported == {Pair, Fresh1, Merge, Pause, PauseHint}

Waiting(kinds, limit) ==
  {[kinds |-> kinds, modes |-> {"wait"}, fresh |-> FALSE, q |-> 4, limit |-> limit,
    crashes |-> FALSE]}

\* A paused client is sent events with descriptors.
PausedFds == Waiting({"font", "fd", "pause", "unpause"}, 4)

\* A client that has been paused is paused again.
PausedTwice == Waiting({"dim", "dens", "pause", "unpause"}, 7)
==============================================================================
