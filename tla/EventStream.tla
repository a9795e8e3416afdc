---------------------------- MODULE EventStream ----------------------------
(***************************************************************************)
(* How clients follow a run, the same in both hosts.  A connection to      *)
(* GET /v1/runs/{runId}/events gets the backlog after the client's         *)
(* Last-Event-ID, then the events that the serving process itself appends, *)
(* and ends with the first terminal event or at once when the run's status *)
(* is already terminal.  GET .../events/poll returns the backlog after     *)
(* since, and whether the status was terminal.  A client that loses its    *)
(* connection, or polls, comes back with the seq of its last event, to     *)
(* either endpoint.                                                        *)
(*                                                                         *)
(* The module has the state of connections and their operations; a module  *)
(* that composes it with a host says when they happen.  An event on the    *)
(* wire is its seq, which is the id of its SSE frame.                      *)
(***************************************************************************)
EXTENDS RunEvents, Integers, Sequences, FiniteSets

CONSTANTS Clients,
          Watch,      \* client -> the run it follows
          NoServer    \* no process

VARIABLES link,    \* client -> state of its connection
          server,  \* client -> the process at the other end, or NoServer
          wire,    \* client -> seqs sent and not yet received
          got      \* client -> seqs received, over all of its connections

streamVars == <<link, server, wire, got>>

\* "closed"      no connection
\* "open"/"over" the handler has read the row of the run and found it open, or
\*               terminal, and has still to read the backlog
\* "listening"   backlog sent, listener registered
\* "reply"       the reply to a poll is on its way, with isTerminal false
\* "ended"       res.end() was called on a stream, or a reply has isTerminal true
\* "done"        the client has seen that
Link == {"closed", "open", "over", "listening", "reply", "ended", "done"}

StreamTypeOK(processes) ==
  /\ link \in [Clients -> Link]
  /\ server \in [Clients -> processes \cup {NoServer}]
  /\ wire \in [Clients -> Seq(Nat)]
  /\ got \in [Clients -> Seq(Nat)]

StreamInit ==
  /\ link = [c \in Clients |-> "closed"]
  /\ server = [c \in Clients |-> NoServer]
  /\ wire = [c \in Clients |-> <<>>]
  /\ got = [c \in Clients |-> <<>>]

\* Its handler is between two statements.
Answering(c) == link[c] \in {"open", "over"}

\* The Last-Event-ID header; without one the host resumes after -1.
LastEventId(c) == IF got[c] = <<>> THEN -1 ELSE got[c][Len(got[c])]

-----------------------------------------------------------------------------
(* The serving process. *)

\* The first statement of a handler, where the second one is a step of its own.
Connect(c, p, terminal) ==
  /\ link[c] = "closed"
  /\ link' = [link EXCEPT ![c] = IF terminal THEN "over" ELSE "open"]
  /\ server' = [server EXCEPT ![c] = p]
  /\ UNCHANGED <<wire, got>>

\* ORDER BY seq.
Ascending(S) == [i \in 1 .. Cardinality(S) |->
                   CHOOSE s \in S : Cardinality({t \in S : t < s}) = i - 1]

\* Seeded bug: resumption from the Last-Event-ID itself.
Backlog_Inclusive(c, seqs) == Ascending({s \in seqs : s >= LastEventId(c)})

\* getEventsAfter: the events after the resumption point, in order.
Backlog(c, seqs) == Ascending({s \in seqs : s > LastEventId(c)})

\* Seeded bug: the stream of a run that has ended is left open.
SendBacklog_NoEnd(c, p, seqs, terminal) ==
  /\ wire' = [wire EXCEPT ![c] = Backlog(c, seqs)]
  /\ link' = [link EXCEPT ![c] = "listening"]
  /\ server' = [server EXCEPT ![c] = p]
  /\ UNCHANGED got

\* Process p writes the backlog of a run whose log has the seqs given.
Write(c, p, seqs, next) ==
  /\ wire' = [wire EXCEPT ![c] = Backlog(c, seqs)]
  /\ link' = [link EXCEPT ![c] = next]
  /\ server' = [server EXCEPT ![c] = p]
  /\ UNCHANGED got

\* The status that the handler read, terminal or not, is isTerminal of a reply ...
ReplyToPoll(c, p, seqs, terminal) == Write(c, p, seqs, IF terminal THEN "ended" ELSE "reply")

\* ... and says whether a stream ends with its backlog.
StartStream(c, p, seqs, terminal) == Write(c, p, seqs, IF terminal THEN "ended" ELSE "listening")

SendBacklog(c, p, seqs, terminal) ==
  ReplyToPoll(c, p, seqs, terminal) \/ StartStream(c, p, seqs, terminal)

Listeners(p, r) == {c \in Clients : link[c] = "listening" /\ server[c] = p /\ Watch[c] = r}

\* Seeded bug: a stream ends with the first node that ends.
Emit_EndAtNode(p, r, seq, type) ==
  /\ wire' = [c \in Clients |-> IF c \in Listeners(p, r) THEN Append(wire[c], seq) ELSE wire[c]]
  /\ link' = [c \in Clients |-> IF c \in Listeners(p, r) /\ type \notin {"run.started", "node.started"}
                                  THEN "ended" ELSE link[c]]
  /\ UNCHANGED <<server, got>>

\* Seeded bug: only run.completed ends a stream.
Emit_EndAtCompleted(p, r, seq, type) ==
  /\ wire' = [c \in Clients |-> IF c \in Listeners(p, r) THEN Append(wire[c], seq) ELSE wire[c]]
  /\ link' = [c \in Clients |-> IF c \in Listeners(p, r) /\ type = "run.completed"
                                  THEN "ended" ELSE link[c]]
  /\ UNCHANGED <<server, got>>

\* Process p has appended an event to run r: onEvent of each of its listeners.
Emit(p, r, seq, type) ==
  /\ wire' = [c \in Clients |-> IF c \in Listeners(p, r) THEN Append(wire[c], seq) ELSE wire[c]]
  /\ link' = [c \in Clients |-> IF c \in Listeners(p, r) /\ type \in TerminalEvent
                                  THEN "ended" ELSE link[c]]
  /\ UNCHANGED <<server, got>>

-----------------------------------------------------------------------------
(* The network and the clients. *)

\* Connections that break, at either end or in between, lose what is in flight.
Break(C) ==
  /\ link' = [c \in Clients |-> IF c \in C THEN "closed" ELSE link[c]]
  /\ server' = [c \in Clients |-> IF c \in C THEN NoServer ELSE server[c]]
  /\ wire' = [c \in Clients |-> IF c \in C THEN <<>> ELSE wire[c]]
  /\ UNCHANGED got

Disconnect(c) ==
  /\ link[c] \in {"listening", "reply", "ended"}
  /\ Break({c})

\* The next event of a stream.
Receive(c) ==
  /\ link[c] \in {"listening", "ended"}
  /\ wire[c] # <<>>
  /\ got' = [got EXCEPT ![c] = Append(@, Head(wire[c]))]
  /\ wire' = [wire EXCEPT ![c] = Tail(@)]
  /\ UNCHANGED <<link, server>>

\* Its end.
SeeEnd(c) ==
  /\ link[c] = "ended" /\ wire[c] = <<>>
  /\ link' = [link EXCEPT ![c] = "done"]
  /\ server' = [server EXCEPT ![c] = NoServer]
  /\ UNCHANGED <<wire, got>>

\* The reply to a poll, a single JSON document.
ReceiveReply(c) ==
  /\ link[c] \in {"reply", "ended"}
  /\ got' = [got EXCEPT ![c] = @ \o wire[c]]
  /\ wire' = [wire EXCEPT ![c] = <<>>]
  /\ link' = [link EXCEPT ![c] = IF @ = "ended" THEN "done" ELSE "closed"]
  /\ server' = [server EXCEPT ![c] = NoServer]

Read(c) == Receive(c) \/ SeeEnd(c) \/ ReceiveReply(c)

ClientStep(c) == Disconnect(c) \/ Read(c)

-----------------------------------------------------------------------------

\* Over all of its connections, a client receives every event once and in order.
GotPrefix == \A c \in Clients : \A i \in 1 .. Len(got[c]) : got[c][i] = i - 1

=============================================================================
