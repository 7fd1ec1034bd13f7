---------------------------- MODULE MCA12Session -----------------------------
(* Configurations of A12Session for TLC. *)
EXTENDS A12Session

Yes == [p \in Side |-> TRUE]
Pair(c, s) == [p \in Side |-> IF p = "cl" THEN c ELSE s]
Msgs(c, s) == [p \in Side |-> IF p = "cl" THEN c ELSE s]

Base == [ephemeral |-> TRUE, role |-> Pair("SOURCE", "SINK"), known |-> Yes, samesecret |-> TRUE,
         rekey_bytes |-> 5, flush |-> TRUE, msgs |-> Msgs(2, 2), size |-> 1, faults |-> 0]

\* The keys are ratcheted as often as possible: every event of the server is
\* large enough to make a rekeying due.
Ratchet == {[Base EXCEPT !.size = 5, !.msgs = Msgs(4, 3)],
            [Base EXCEPT !.ephemeral = FALSE, !.rekey_bytes = 3, !.size = 3, !.msgs = Msgs(3, 4)]}

\* One failure of the carrier, anywhere.
Carrier == {[Base EXCEPT !.ephemeral = e, !.faults = 1, !.size = 5] : e \in BOOLEAN}

\* Peers that do not match, and a rekeying due too early.
Refused == {[Base EXCEPT !.msgs = Msgs(1, 1), !.known = Pair(TRUE, FALSE)],
            [Base EXCEPT !.msgs = Msgs(1, 1), !.known = Pair(FALSE, TRUE)],
            [Base EXCEPT !.msgs = Msgs(1, 1), !.samesecret = FALSE],
            [Base EXCEPT !.msgs = Msgs(1, 1), !.rekey_bytes = 4],
            [Base EXCEPT !.msgs = Msgs(1, 1), !.rekey_bytes = 2],
            [Base EXCEPT !.msgs = Msgs(1, 1), !.rekey_bytes = 2, !.ephemeral = FALSE]}

\* All pairs of roles.
RolePairs == {[Base EXCEPT !.msgs = Msgs(0, 0), !.rekey_bytes = 0, !.role = Pair(c, s)] :
                c \in Roles, s \in Roles}

\* A caller that does not flush what was held back.
NoFlush == {[Base EXCEPT !.flush = FALSE, !.msgs = Msgs(1, 3), !.rekey_bytes = 0]}

AllConfigs == Ratchet \cup Carrier \cup Refused \cup RolePairs \cup NoFlush
==============================================================================
