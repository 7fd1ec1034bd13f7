----------------------------- MODULE FifoChannel -----------------------------
(***************************************************************************)
(* What an event queue of a shmif segment promises while the connection is *)
(* usable: a bounded, lossless first-in first-out channel.  The promise    *)
(* ends with the connection: once `open' is FALSE nothing is guaranteed,   *)
(* which is what the dead man's switch means to both ends.                 *)
(***************************************************************************)
EXTENDS Naturals, Sequences

CONSTANTS Event,    \* what can be sent
          Cap,      \* how many events may be under way
          None      \* nothing received yet

VARIABLES q,        \* events sent and not yet received
          out,      \* the event received last
          open      \* the connection is usable

chanVars == <<q, out, open>>

Init == /\ q = << >>
        /\ out = None
        /\ open = TRUE

Send == /\ open
        /\ Len(q) < Cap
        /\ \E e \in Event : q' = Append(q, e)
        /\ UNCHANGED <<out, open>>

Receive == /\ open
           /\ q # << >>
           /\ out' = Head(q)
           /\ q' = Tail(q)
           /\ UNCHANGED open

\* The connection is lost: no promise about what was under way.
Lose == open' = FALSE

Next == Send \/ Receive \/ Lose

Spec == Init /\ [][Next]_chanVars
==============================================================================
