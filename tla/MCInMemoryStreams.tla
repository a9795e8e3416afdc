------------------------- MODULE MCInMemoryStreams -------------------------
(***************************************************************************)
(* Instances of InMemoryStreams for TLC.                                   *)
(***************************************************************************)
EXTENDS InMemoryStreams

CONSTANTS r1, r2, b1, b2, c1, c2

\* One body names a workflow of a noop and a delay, the other one with a delay
\* and a node that the host does not implement.
TwoWorkflows == [b \in Bodies |-> IF b = b1 THEN <<"core.noop", "core.delay">>
                                            ELSE <<"core.delay", "other">>]

WatchEach == [c \in Clients |-> IF c = c1 THEN r1 ELSE r2]

=============================================================================
