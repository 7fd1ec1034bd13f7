-------------------------- MODULE MCVideoTransform ---------------------------
(* Scripts of VideoTransform for TLC. *)
EXTENDS VideoTransform

One(n, calls) == [objects |-> {1}, ops |-> n, calls |-> {"transform"} \cup calls]

\* Chains that are tagged and zapped, finished at once or replaced; cycled;
\* copied to another object; in a context that is pushed for a while.
Scripts == {One(4, {"tag", "zap", "immediate", "link"}), One(4, {"tag", "instant"}), One(5, {"tag", "cycle"}),
            One(5, {"away", "tag"}),
            [objects |-> {1, 2}, ops |-> 3, calls |-> {"transform", "copy", "tag"}]}
==============================================================================
