-------------------------- MODULE InMemoryStreams --------------------------
(***************************************************************************)
(* The in-memory host with the event streams it serves.  handleEventsSse   *)
(* has no await, so the row, the backlog and the listener are one          *)
(* macrotask here; appendEvent emits to the listeners before it returns.   *)
(***************************************************************************)
EXTENDS InMemoryHost, EventStream

vars == <<hostVars, streamVars>>

Host == "host"

ASSUME WatchAssumption == Watch \in [Clients -> Runs]
ASSUME NoServerAssumption == NoServer # Host

Init == HostInit /\ StreamInit

Ended(r) == status[r] \in Terminal

\* GET /v1/runs/{runId}/events, from the row to the registration of the listener,
\* or GET .../events/poll.
Open(c) ==
  /\ AtLoop
  /\ link[c] = "closed"
  /\ status[Watch[c]] # "absent"
  /\ SendBacklog(c, Host, 0 .. (Len(log[Watch[c]]) - 1), Ended(Watch[c]))
  /\ UNCHANGED hostVars

Publish(r) == AppendEvent(r) /\ Emit(Host, r, Len(log[r]), co[r].next)

Next ==
  \/ \E r \in Runs : Publish(r)
  \/ Request /\ UNCHANGED streamVars
  \/ Timer /\ UNCHANGED streamVars
  \/ \E c \in Clients : Open(c)
  \/ \E c \in Clients : ClientStep(c) /\ UNCHANGED hostVars

Spec == Init /\ [][Next]_vars

\* The event loop runs a coroutine on and serves its timers although requests
\* keep coming; a client reads what is on its connection.
Fairness ==
  /\ \A r \in Runs : WF_vars(Publish(r)) /\ SF_vars(Wake(r) /\ UNCHANGED streamVars)
  /\ \A c \in Clients : WF_vars(Read(c) /\ UNCHANGED hostVars)

FairSpec == Spec /\ Fairness

-----------------------------------------------------------------------------

StreamsTyped == TypeOK /\ StreamTypeOK({Host})

\* A cancellation takes effect within the macrotask that accepted it, and a run
\* is cancelled on request only.
CancelAtOnce ==
  \A r \in Runs :
    /\ AtLoop /\ cancel[r] => status[r] = "cancelled"
    /\ status[r] = "cancelled" => cancel[r]

\* The log that a run of n nodes leaves when nothing disturbs it.
FullLog(n) ==
  [i \in 1 .. 2 * n + 2 |->
     CASE i = 1         -> [type |-> "run.started", node |-> 0]
       [] i = 2 * n + 2 -> [type |-> "run.completed", node |-> 0]
       [] OTHER         -> [type |-> IF i % 2 = 0 THEN "node.started" ELSE "node.completed",
                            node |-> i \div 2]]

GoneWrong == {"node.failed", "node.cancelled", "run.failed", "run.cancelled"}

\* A completed run executed each of its nodes once and in order, and every run
\* leaves that log up to the point where a node failed or a cancel hit it.
LogTellsExecution ==
  \A r \in Runs :
    LET full == FullLog(Len(Nodes(r)))
    IN  /\ status[r] = "completed" => log[r] = full
        /\ \A i \in 1 .. Len(log[r]) :
             \/ \E j \in 1 .. i : log[r][j].type \in GoneWrong
             \/ i <= Len(full) /\ log[r][i] = full[i]

\* The last event of a run that ended, and no other, is terminal.
TerminalEventIsLast ==
  \A r \in Runs : \A i \in 1 .. Len(log[r]) :
    log[r][i].type \in TerminalEvent <=> Ended(r) /\ i = Len(log[r])

\* A client whose stream the host has ended has the whole log.
DoneHasAll ==
  \A c \in Clients : link[c] = "done" =>
    Ended(Watch[c]) /\ Len(got[c]) = Len(log[Watch[c]])

\* A client that keeps its connection sees its end.
StreamsEnd == \A c \in Clients : link[c] = "listening" ~> link[c] \in {"closed", "done"}

Lifecycle == INSTANCE RunLifecycle
  WITH Hosts <- {Host}, None <- NoServer,
       phase <- [r \in Runs |-> IF status[r] \in {"pending", "running"} THEN "open" ELSE status[r]],
       log <- [r \in Runs |-> [i \in 1 .. Len(log[r]) |-> log[r][i].type]],
       executor <- [r \in Runs |-> IF co[r].next = "idle" THEN NoServer ELSE Host]

\* The host behaves as RunLifecycle says.
ImplementsLifecycle == Lifecycle!Spec

=============================================================================
