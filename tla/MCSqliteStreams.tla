-------------------------- MODULE MCSqliteStreams --------------------------
(***************************************************************************)
(* Instances of SqliteStreams for TLC, and a statement of the protocol's   *)
(* documents that the SQLite host does not meet.                           *)
(***************************************************************************)
EXTENDS SqliteStreams

CONSTANTS p1, p2, r1, c1, c2

OneDelay == [r \in Runs |-> <<"core.delay">>]
NoKeys == [r \in Runs |-> NoKey]
FullCatalog == [p \in Procs |-> Runs]
WatchIt == [c \in Clients |-> r1]

-----------------------------------------------------------------------------

\* rest-endpoints.md: the connection is closed when the run reaches a terminal
\* status.
StreamEndsWithRun ==
  \A c \in Clients, p \in Procs :
    (link[c] = "listening" /\ server[c] = p /\ status[Watch[c]] \in Terminal)
      ~> (link[c] # "listening" \/ ~Live(p))

=============================================================================
