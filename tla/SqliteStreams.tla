--------------------------- MODULE SqliteStreams ---------------------------
(***************************************************************************)
(* Processes of the SQLite host with the event streams they serve.  The    *)
(* handler reads the row of the run and then its backlog in two            *)
(* statements, other processes in between; afterwards a stream learns only *)
(* of what its own process appends, over the event bus of that process.    *)
(***************************************************************************)
EXTENDS SqliteHost, EventStream

ASSUME WatchAssumption == Watch \in [Clients -> Runs]
ASSUME NoServerAssumption == NoServer \notin Procs

streamsVars == <<vars, streamVars>>

StreamsInit == Init /\ StreamInit

\* p is inside handleEventsSse or handleEventsPoll, between its two statements.
Busy(p) == \E c \in Clients : Answering(c) /\ server[c] = p

\* GET /v1/runs/{runId}/events or .../events/poll: loadRun ...
Ask(c, p) ==
  /\ AtLoop(p) /\ ~Busy(p)
  /\ status[Watch[c]] # "absent"
  /\ Connect(c, p, status[Watch[c]] \in Terminal)
  /\ UNCHANGED vars

\* ... then the backlog and, for a stream of a run found open, the listener.
Answer(c) ==
  /\ Answering(c)
  /\ SendBacklog(c, server[c], DOMAIN events[Watch[c]], link[c] = "over")
  /\ UNCHANGED vars

\* A host step of p finds p not busy: it is a statement of another macrotask.
\* Only a crash, or the steps of other processes, come inside the handler.
Undisturbed ==
  \A p \in Procs : Busy(p) /\ proc'[p] # "crashed" =>
    /\ <<proc[p], http[p], co[p], beat[p]>>' = <<proc[p], http[p], co[p], beat[p]>>
    /\ now' = now \/ p \in MayStall

Appends(p, r) == events'[r] # events[r] /\ co'[p][r] # co[p][r]

\* The connections of p break when its Node process ends: in a crash, and in a
\* shutdown that aborts a delay, whose coroutine throws in every catch block.
\* Other shutdowns wait for the open streams to end, and write no more to them.
Gone(p) ==
  /\ proc'[p] # proc[p]
  /\ \/ proc'[p] = "crashed"
     \/ proc'[p] = "stopped" /\ \E r \in Runs : At(p, r, "sleep")

\* What a step of the host does to the streams.
Effect ==
  \/ \E p \in Procs, r \in Runs :
       Appends(p, r) /\ Emit(p, r, co[p][r].seq, co[p][r].ev)
  \/ \E p \in Procs :
       Gone(p) /\ Break({c \in Clients : server[c] = p})
  \/ /\ events' = events
     /\ ~\E p \in Procs : Gone(p)
     /\ UNCHANGED streamVars

HostStep == Next /\ Undisturbed /\ Effect

StreamsNext ==
  \/ HostStep
  \/ \E c \in Clients : Answer(c) \/ \E p \in Procs : Ask(c, p)
  \/ \E c \in Clients : ClientStep(c) /\ UNCHANGED vars

StreamsSpec == StreamsInit /\ [][StreamsNext]_streamsVars

\* The host's scheduling, a handler that runs to its end, and a client that reads
\* what is on its connection.
StreamsFairness ==
  /\ Fairness
  /\ \A c \in Clients : /\ WF_streamsVars(Answer(c))
                        /\ WF_streamsVars(Read(c) /\ UNCHANGED vars)

StreamsFairSpec == StreamsSpec /\ StreamsFairness

-----------------------------------------------------------------------------

StreamsTypeOK == TypeOK /\ StreamTypeOK(Procs)

\* When the host ended a stream, or said isTerminal, the client's last event is
\* the last of the log and announces the status that the run has, or that its
\* process is about to give it.  Only when a process died, which it may between
\* the event and the status, does the run go on behind the client's back.
DoneHasOutcome ==
  \A c \in Clients : link[c] = "done" =>
    LET r == Watch[c]
        last == events[r][LastEventId(c)].type
    IN  /\ got[c] # <<>>
        /\ last \in TerminalEvent
        /\ \/ /\ LastEventId(c) = CountEvents(r) - 1
              /\ \/ status[r] = StatusOf(last)
                 \/ \E p \in Procs : At(p, r, "terminal") /\ co[p][r].ev = last
           \/ \E p \in Procs : proc[p] = "crashed"

\* The stream of a run that the serving process executes ends with the run.
LocalStreamEnds ==
  \A c \in Clients, p \in Procs :
    (link[c] = "listening" /\ server[c] = p /\ Executing(p, Watch[c]))
      ~> (link[c] # "listening" \/ ~Live(p))

=============================================================================
