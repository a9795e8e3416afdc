----------------------------- MODULE RunEvents -----------------------------
(***************************************************************************)
(* The vocabulary that both reference hosts share: terminal statuses, the  *)
(* types of events, the rows of an event log and the types of nodes.       *)
(***************************************************************************)
LOCAL INSTANCE Naturals

Terminal == {"completed", "failed", "cancelled"}

NodeEvent == {"node.started", "node.completed", "node.failed", "node.cancelled"}
TerminalEvent == {"run.completed", "run.failed", "run.cancelled"}
RunEvent == {"run.started", "run.resumed"} \cup TerminalEvent
EventType == NodeEvent \cup RunEvent

\* An event: its type, and the index of its node (0 for a run event).
Row == [type : EventType, node : Nat]

\* "other" stands for every type that the hosts do not implement.
NodeType == {"core.noop", "core.delay", "other"}

=============================================================================
