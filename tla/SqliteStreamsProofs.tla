------------------------ MODULE SqliteStreamsProofs ------------------------
(***************************************************************************)
(* Theorems about the streams and polls of the SQLite host, for any number *)
(* of processes, runs and clients, any workflows, and whatever crashes,    *)
(* shuts down or disconnects.                                              *)
(***************************************************************************)
EXTENDS SqliteStreams, SqliteHostProofs, EventStreamProofs

\* The process that a client is connected to has the run's row behind it.  It
\* executes the run already or it never will: a process takes runs over only
\* before it listens, or as it creates them.
Settled(p, r) ==
  /\ p \in Procs /\ proc[p] \in {"serving", "stopped"}
  /\ status[r] # "absent"
  /\ co[p][r].at \notin {"insertRun", "remember", "claim"}

\* A client has, or gets from its connection, a prefix of the log: all of it
\* when it listens to the executor, and when it is told that this is the end.
Followed(c) ==
  /\ InSequence(c) /\ Known(c) <= CountEvents(Watch[c])
  /\ link[c] \in {"open", "over", "listening"} => Settled(server[c], Watch[c])
  /\ link[c] = "over" => status[Watch[c]] \in Terminal
  /\ link[c] = "listening" /\ Executing(server[c], Watch[c]) =>
       Known(c) = CountEvents(Watch[c])
  /\ link[c] \in {"ended", "done"} =>
       Known(c) > 0 /\ events[Watch[c]][Known(c) - 1].type \in TerminalEvent
  /\ link[c] = "done" => wire[c] = <<>>

HostContext == RunContext /\ ExactSeqs /\ BusyIsLive

StreamInv == StreamTypeOK(Procs) /\ \A c \in Clients : Followed(c)

\* Unless a process has died, a log ends with its first terminal event, whose
\* process is about to set the status or has set it.
EndsOnce(r) ==
  \/ \E p \in Procs : proc[p] = "crashed"
  \/ \A i \in DOMAIN events[r] : events[r][i].type \in TerminalEvent =>
       /\ i = CountEvents(r) - 1
       /\ status[r] \in Terminal \/ \E p \in Procs : At(p, r, "terminal")

OutcomeInv == \A r \in Runs : EndsOnce(r)

-----------------------------------------------------------------------------
(* The steps of the host. *)

\* A process that serves a run's clients takes the run up by no step of its own.
LEMMA SettledMoves ==
  ASSUME TypeOK, NEW p \in Procs, NEW r \in Runs, Settled(p, r), RunStep(p, r)
  PROVE  \/ co'[p][r] = co[p][r] \/ co'[p][r].at = "idle"
         \/ /\ Executing(p, r)
            /\ co'[p][r].at \notin {"insertRun", "remember", "claim"}
<1>1. /\ ~CreateRun(p, r) /\ ~ResumeOrphan(p, r)
      /\ ~InsertRun(p, r) /\ ~Remember(p, r) /\ ~ClaimCreated(p, r)
  BY DEF Settled, CreateRun, ResumeOrphan, InsertRun, Remember, ClaimCreated, At
<1>2. CASE \/ Load(p, r) \/ Scan(p, r) \/ MarkRunning(p, r) \/ CheckLoop(p, r)
           \/ CheckNode(p, r) \/ CheckFinal(p, r) \/ Count(p, r) \/ Insert(p, r)
           \/ InsertThrows(p, r) \/ UnhandledRejection(p, r) \/ SetTerminal(p, r)
           \/ Release(p, r) \/ Wake(p, r)
  <2>1. Executing(p, r)
    BY <1>2 DEF Load, Scan, MarkRunning, CheckLoop, CheckNode, CheckFinal, Count, Insert,
                InsertThrows, UnhandledRejection, SetTerminal, Release, Wake, At, Executing
  <2>2. CASE Insert(p, r)
    <3>1. co[p][r].ev \in {"run.started", "run.resumed", "node.completed", "node.started",
                           "node.cancelled", "node.failed"} \cup TerminalEvent
      BY DEF TypeOK, Coroutine, EventType, RunEvent, NodeEvent
    <3>2. co'[p][r].at \in {"loop", "final", "sleep", "count", "terminal"}
      BY <2>2, <3>1, AppendMoves
    <3>3. QED
      BY <2>1, <3>2
  <2>3. QED
    BY <1>2, <2>1, <2>2, OpeningMoves, LoopMoves, AppendMoves, ClosingMoves
<1>3. CASE CancelUpdate(p, r) \/ CancelRequest(p, r) \/ Heartbeat(p, r)
  BY <1>3, LoopMoves DEF CancelRequest, Heartbeat, At, Executing
<1>4. QED
  BY <1>1, <1>2, <1>3 DEF RunStep, Statement

\* A step is a step of one process, or of the clock.
LEMMA OneProcMoves ==
  ASSUME TypeOK, BusyIsLive, [Next]_vars, NEW p \in Procs, proc'[p] # proc[p]
  PROVE  /\ \A q \in Procs : q # p => proc'[q] = proc[q]
         /\ proc[p] # "stopped" /\ proc[p] # "crashed"
         /\ proc[p] = "serving" => proc'[p] \in {"stopped", "crashed"}
         /\ events' = events
<1>1. CASE ProcStep(p)
  BY <1>1 DEF ProcStep, Start, Listen, Shutdown, Crash, AtLoop, Live, Die, TypeOK, tables,
              ReleaseAllClaims
<1>2. ASSUME NEW q \in Procs, q # p, ProcStep(q)
      PROVE  FALSE
  BY <1>2 DEF ProcStep, Start, Listen, Shutdown, Crash, Die, TypeOK
<1>3. ASSUME NEW q \in Procs, NEW r \in Runs, RunStep(q, r)
      PROVE  /\ q = p /\ UnhandledRejection(p, r) /\ proc'[p] = "crashed"
             /\ \A s \in Procs : s # p => proc'[s] = proc[s]
             /\ events' = events
  <2>1. q = p /\ UnhandledRejection(p, r) /\ proc'[p] = "crashed"
    BY <1>3, RunStepProc
  <2>2. \A s \in Procs : s # p => proc'[s] = proc[s]
    BY <1>3, <2>1, RunStepProc
  <2>3. QED
    BY <2>1, <2>2 DEF UnhandledRejection, tables
<1>4. ASSUME NEW r \in Runs, UnhandledRejection(p, r)
      PROVE  Live(p)
  BY <1>4 DEF UnhandledRejection, BusyIsLive, At
<1>5. QED
  BY <1>1, <1>2, <1>3, <1>4 DEF Next, Tick, vars, Live

\* Unless it crashes, it stays one that serves, or has served, the run.
LEMMA SettledStep ==
  ASSUME TypeOK, BusyIsLive, [Next]_vars, NEW p \in Procs, NEW r \in Runs, Settled(p, r)
  PROVE  /\ Executing(p, r)' => Executing(p, r)
         /\ Settled(p, r)' \/ (proc'[p] # proc[p] /\ proc'[p] = "crashed")
<1>1. \/ co'[p][r] = co[p][r] \/ co'[p][r].at = "idle"
      \/ Executing(p, r) /\ co'[p][r].at \notin {"insertRun", "remember", "claim"}
  BY CoStep, SettledMoves
<1>2. status'[r] # "absent"
  BY RowsStay DEF Settled
<1>3. proc'[p] = proc[p] \/ (proc[p] = "serving" /\ proc'[p] \in {"stopped", "crashed"})
  BY OneProcMoves DEF Settled
<1>4. QED
  BY <1>1, <1>2, <1>3 DEF Settled, Executing

\* The log of a run only grows.
LEMMA LogGrows ==
  ASSUME LogInv, [Next]_vars, NEW r \in Runs
  PROVE  /\ CountEvents(r) \in Nat /\ CountEvents(r)' \in Nat
         /\ CountEvents(r) <= CountEvents(r)'
         /\ DOMAIN events[r] = 0 .. (CountEvents(r) - 1)
         /\ \A i \in 0 .. (CountEvents(r) - 1) : events'[r][i] = events[r][i]
<1>0. CountEvents(r) \in Nat /\ DOMAIN events[r] = 0 .. (CountEvents(r) - 1)
  BY CountEventsType DEF LogInv, TypeOK, LogContiguous
<1>1. CASE events'[r] = events[r] /\ CountEvents(r)' = CountEvents(r)
  BY <1>0, <1>1
<1>2. ASSUME NEW p \in Procs, Insert(p, r)
      PROVE  /\ CountEvents(r)' = CountEvents(r) + 1
             /\ \A i \in DOMAIN events[r] : events'[r][i] = events[r][i]
  BY <1>2, InsertEffect
<1>3. CASE \E p \in Procs : Insert(p, r)
  BY <1>0, <1>2, <1>3
<1>4. QED
  BY <1>1, <1>3, LogStep

-----------------------------------------------------------------------------
(* The end of a log. *)

\* Between the terminal event and the status nothing comes but a crash.
LEMMA TerminalStays ==
  ASSUME TypeOK, [Next]_vars, NEW p \in Procs, NEW r \in Runs, At(p, r, "terminal")
  PROVE  At(p, r, "terminal")' \/ SetTerminal(p, r) \/ proc'[p] = "crashed"
<1>0. ~AtLoop(p) /\ ~Returned(p)
  BY DEF At, AtLoop, Quiet, Returned, Awaits
<1>1. CASE RunStep(p, r)
  <2>1. /\ ~CreateRun(p, r) /\ ~CancelRequest(p, r) /\ ~Wake(p, r) /\ ~Heartbeat(p, r)
        /\ ~ResumeOrphan(p, r)
    BY <1>0 DEF CreateRun, CancelRequest, Wake, Heartbeat, ResumeOrphan
  <2>2. Statement(p, r) => SetTerminal(p, r)
    BY DEF Statement, InsertRun, Remember, ClaimCreated, Load, Scan, MarkRunning, CheckLoop,
           CheckNode, CheckFinal, Count, Insert, InsertThrows, UnhandledRejection, Release, At
  <2>3. CancelUpdate(p, r) => co'[p][r] = co[p][r]
    BY LoopMoves DEF At
  <2>4. QED
    BY <1>1, <2>1, <2>2, <2>3 DEF RunStep, At
<1>2. ASSUME NEW q \in Procs, NEW s \in Runs, RunStep(q, s), q # p \/ s # r
      PROVE  At(p, r, "terminal")' \/ proc'[p] = "crashed"
  <2>1. CASE UnhandledRejection(q, s)
    <3>1. proc'[q] = "crashed" /\ (q # p => co'[p] = co[p])
      BY <2>1 DEF UnhandledRejection, Die, TypeOK
    <3>2. QED
      BY <3>1 DEF At
  <2>2. CASE ~UnhandledRejection(q, s)
    BY <1>2, <2>2, OthersStay DEF At
  <2>3. QED
    BY <2>1, <2>2
<1>3. ASSUME NEW q \in Procs, ProcStep(q)
      PROVE  At(p, r, "terminal")' \/ proc'[p] = "crashed"
  <2>1. CASE Start(q) \/ Listen(q)
    BY <2>1 DEF Start, Listen, At
  <2>2. CASE Shutdown(q)
    BY <1>0, <2>2 DEF Shutdown, Die, TypeOK, At
  <2>3. CASE Crash(q)
    BY <2>3 DEF Crash, Die, TypeOK, At
  <2>4. QED
    BY <1>3, <2>1, <2>2, <2>3 DEF ProcStep
<1>4. CASE Tick \/ UNCHANGED vars
  BY <1>4 DEF Tick, vars, At
<1>5. QED
  BY <1>1, <1>2, <1>3, <1>4 DEF Next

LEMMA EndsOnceStep ==
  ASSUME HostContext, [Next]_vars, NEW r \in Runs, EndsOnce(r)
  PROVE  EndsOnce(r)'
<1>0. TypeOK /\ LogInv /\ BusyIsLive /\ RunContext /\ ExclusiveExecution
  BY DEF HostContext, RunContext, LogInv
<1>1. CASE \E p \in Procs : proc[p] = "crashed"
  <2>1. PICK p \in Procs : proc[p] = "crashed"
    BY <1>1
  <2>2. proc'[p] = "crashed"
    BY <1>0, <2>1, OneProcMoves
  <2>3. QED
    BY <2>2 DEF EndsOnce
<1>2. CASE events'[r] = events[r] /\ CountEvents(r)' = CountEvents(r)
  <2>1. ASSUME status[r] \in Terminal
        PROVE  status'[r] \in Terminal
    BY <1>0, <2>1, FrozenStep
  <2>2. ASSUME NEW p \in Procs, At(p, r, "terminal")
        PROVE  \/ At(p, r, "terminal")' \/ status'[r] \in Terminal
               \/ proc'[p] = "crashed"
    <3>1. CASE SetTerminal(p, r)
      BY <1>0, <3>1 DEF SetTerminal, UpdateRunStatus, StatusOf, Terminal, TypeOK, StoreTypeOK
    <3>2. QED
      BY <1>0, <2>2, <3>1, TerminalStays
  <2>3. ASSUME \A p \in Procs : proc'[p] # "crashed",
               NEW i \in DOMAIN events[r], events[r][i].type \in TerminalEvent,
               ~(\E p \in Procs : proc[p] = "crashed")
        PROVE  /\ i = CountEvents(r)' - 1
               /\ status'[r] \in Terminal \/ \E p \in Procs : At(p, r, "terminal")'
    <3>1. /\ i = CountEvents(r) - 1
          /\ status[r] \in Terminal \/ \E p \in Procs : At(p, r, "terminal")
      BY <2>3 DEF EndsOnce
    <3>2. QED
      BY <1>2, <2>1, <2>2, <2>3, <3>1
  <2>4. QED
    BY <1>1, <1>2, <2>3 DEF EndsOnce
<1>3. ASSUME NEW p \in Procs, Insert(p, r), ~(\E q \in Procs : proc[q] = "crashed")
      PROVE  EndsOnce(r)'
  <2> DEFINE n == CountEvents(r)
             ev == co[p][r].ev
  <2>1. /\ n \in Nat /\ CountEvents(r)' = n + 1 /\ events'[r][n].type = ev
        /\ DOMAIN events'[r] = DOMAIN events[r] \cup {n}
        /\ \A i \in DOMAIN events[r] : events'[r][i] = events[r][i]
    BY <1>0, <1>3, InsertEffect
  <2>2. Executing(p, r) /\ At(p, r, "insert") /\ status[r] \notin Terminal
    BY <1>0, <1>3 DEF Insert, At, Executing, RunContext, RunInv, Course
  <2>3. \A q \in Procs : ~At(q, r, "terminal")
    <3>1. SUFFICES ASSUME NEW q \in Procs, At(q, r, "terminal")
                   PROVE  FALSE
      OBVIOUS
    <3>2. q = p
      BY <1>0, <2>2, <3>1 DEF ExclusiveExecution, Executing, At
    <3>3. QED
      BY <2>2, <3>1, <3>2 DEF At
  <2>4. \A i \in DOMAIN events[r] : events[r][i].type \notin TerminalEvent
    BY <1>3, <2>2, <2>3 DEF EndsOnce
  <2>5. ev \in TerminalEvent => At(p, r, "terminal")'
    BY <1>0, <1>3, AppendMoves DEF At
  <2>6. n = CountEvents(r)' - 1
    BY <2>1
  <2> HIDE DEF n, ev
  <2>7. ASSUME NEW i \in DOMAIN events'[r], events'[r][i].type \in TerminalEvent
        PROVE  i = CountEvents(r)' - 1 /\ At(p, r, "terminal")'
    <3>1. i = n
      BY <2>1, <2>4, <2>7
    <3>2. QED
      BY <2>1, <2>5, <2>6, <2>7, <3>1
  <2>8. QED
    BY <2>7 DEF EndsOnce
<1>4. QED
  BY <1>0, <1>1, <1>2, <1>3, LogStep

-----------------------------------------------------------------------------
(* The steps of the composition. *)

\* A client that a step leaves alone: what is known of its run only grows.
LEMMA SameFollowed ==
  ASSUME HostContext, [Next]_vars, NEW c \in Clients, Followed(c), Same(c),
         link[c] \in {"open", "over", "listening"} =>
           Settled(server[c], Watch[c])',
         link[c] = "listening" /\ Executing(server[c], Watch[c])' =>
           events'[Watch[c]] = events[Watch[c]]
  PROVE  Followed(c)'
<1> DEFINE r == Watch[c]
           n == CountEvents(r)
<1>0. /\ r \in Runs /\ LogInv /\ RunContext /\ TypeOK /\ BusyIsLive
      /\ InSequence(c) /\ Known(c) <= n
  BY WatchAssumption DEF HostContext, RunContext, LogInv, Followed
<1>1. InSequence(c)' /\ Known(c)' = Known(c) /\ Known(c) \in Nat
  <2>1. InSequence(c)' /\ Known(c)' = Known(c)
    BY <1>0, SameInSequence DEF Same
  <2>2. Known(c) \in Nat
    BY <1>0, KnownIs
  <2>3. QED
    BY <2>1, <2>2
<1>2. /\ n \in Nat /\ n' \in Nat /\ n <= n'
      /\ \A i \in 0 .. (n - 1) : events'[r][i] = events[r][i]
  BY <1>0, LogGrows
<1>3. Known(c)' <= n'
  BY <1>0, <1>1, <1>2
<1>4. link[c] = "over" => status'[r] \in Terminal
  BY <1>0, FrozenStep DEF Followed
<1>5. ASSUME link[c] = "listening", Executing(server[c], r)'
      PROVE  Known(c)' = n'
  <2>1. Settled(server[c], r)
    BY <1>5 DEF Followed
  <2>2. Executing(server[c], r)
    <3>1. PICK p \in Procs : p = server[c] /\ p = server'[c] /\ Settled(p, r)
      BY <2>1 DEF Settled, Same
    <3>2. Executing(p, r)'
      BY <1>5, <3>1 DEF Executing
    <3>3. QED
      BY <1>0, <3>1, <3>2, SettledStep
  <2>3. n' = n
    BY <1>5 DEF CountEvents
  <2>4. QED
    BY <1>1, <1>5, <2>2, <2>3 DEF Followed
<1>6. ASSUME link[c] \in {"ended", "done"}
      PROVE  Known(c)' > 0 /\ events'[r][Known(c)' - 1].type \in TerminalEvent
  <2>1. Known(c) > 0 /\ events[r][Known(c) - 1].type \in TerminalEvent
    BY <1>6 DEF Followed
  <2>2. Known(c) - 1 \in 0 .. (n - 1)
    BY <1>0, <1>1, <1>2, <2>1
  <2>3. events'[r][Known(c) - 1] = events[r][Known(c) - 1]
    BY <1>2, <2>2
  <2>4. QED
    BY <1>1, <2>1, <2>3
<1>7. link'[c] = link[c] /\ server'[c] = server[c] /\ wire'[c] = wire[c]
  BY DEF Same
<1>8. (link[c] = "listening" /\ Executing(server[c], r) => Known(c) = n)'
  BY <1>5, <1>7 DEF Executing
<1>9. (link[c] \in {"open", "over", "listening"} => Settled(server[c], r))'
  BY <1>7 DEF Settled
<1>10. QED
  BY <1>1, <1>3, <1>4, <1>6, <1>7, <1>8, <1>9 DEF Followed

\* The first statement of a handler.
LEMMA AskFollows ==
  ASSUME HostContext, StreamInv, NEW c \in Clients, NEW p \in Procs, Ask(c, p)
  PROVE  StreamInv'
<1> DEFINE r == Watch[c]
<1>0. /\ Followed(c) /\ r \in Runs /\ StreamTypeOK(Procs) /\ [Next]_vars
      /\ status' = status /\ events' = events /\ co' = co /\ proc' = proc
      /\ AtLoop(p) /\ status[r] # "absent" /\ link[c] = "closed"
  <2>1. UNCHANGED vars /\ AtLoop(p) /\ status[r] # "absent" /\ link[c] = "closed"
    BY DEF Ask, Connect
  <2>2. status' = status /\ events' = events /\ co' = co /\ proc' = proc
    BY <2>1 DEF vars, tables, runRow
  <2>3. QED
    BY <2>1, <2>2, WatchAssumption DEF StreamInv
<1>1. /\ StreamTypeOK(Procs)'
      /\ link'[c] = IF status[r] \in Terminal THEN "over" ELSE "open"
      /\ server'[c] = p /\ wire'[c] = wire[c] /\ got'[c] = got[c]
      /\ \A d \in Clients : d # c => Same(d)
  <2>1. PICK terminal \in BOOLEAN : terminal <=> status[r] \in Terminal
    <3>1. CASE status[r] \in Terminal
      BY <3>1
    <3>2. CASE status[r] \notin Terminal
      BY <3>2
    <3>3. QED
      BY <3>1, <3>2
  <2>2. Connect(c, p, terminal)
    BY <2>1 DEF Ask, Connect
  <2>3. QED
    BY <1>0, <2>1, <2>2, ConnectIs
<1>2. Settled(p, r)
  BY <1>0 DEF Settled, AtLoop, Quiet
<1>3. Settled(server[c], r)'
  BY <1>0, <1>1, <1>2 DEF Settled
<1>4. InSequence(c)' /\ Known(c)' = Known(c)
  BY <1>0, <1>1, SameInSequence DEF Followed
<1>5. Known(c)' <= CountEvents(r)'
  BY <1>0, <1>4 DEF Followed, CountEvents
<1>6. Followed(c)'
  BY <1>0, <1>1, <1>3, <1>4, <1>5 DEF Followed
<1>7. ASSUME NEW d \in Clients, d # c
      PROVE  Followed(d)'
  <2>1. Same(d) /\ Followed(d)
    BY <1>1, <1>7 DEF StreamInv
  <2>2. link[d] \in {"open", "over", "listening"} => Settled(server[d], Watch[d])'
    BY <1>0, <2>1 DEF Followed, Same, Settled
  <2>3. QED
    BY <1>0, <2>1, <2>2, SameFollowed
<1>8. QED
  BY <1>1, <1>6, <1>7 DEF StreamInv

\* The second one.
LEMMA AnswerFollows ==
  ASSUME HostContext, StreamInv, NEW c \in Clients, Answer(c)
  PROVE  StreamInv'
<1> DEFINE r == Watch[c]
           n == CountEvents(r)
<1>0. /\ Followed(c) /\ r \in Runs /\ StreamTypeOK(Procs) /\ [Next]_vars
      /\ status' = status /\ events' = events /\ co' = co /\ proc' = proc
      /\ link[c] \in {"open", "over"} /\ Settled(server[c], r) /\ server[c] \in Procs
  <2>1. UNCHANGED vars /\ link[c] \in {"open", "over"} /\ Followed(c) /\ StreamTypeOK(Procs)
    BY DEF Answer, Answering, StreamInv
  <2>2. status' = status /\ events' = events /\ co' = co /\ proc' = proc
    BY <2>1 DEF vars, tables, runRow
  <2>3. QED
    BY <2>1, <2>2, WatchAssumption DEF Followed, Settled
<1>1. n \in Nat /\ DOMAIN events[r] = 0 .. n - 1
  BY <1>0, LogGrows DEF HostContext, RunContext
<1>2. InSequence(c) /\ Len(got[c]) <= n
  <2>1. InSequence(c) /\ Known(c) <= n
    BY <1>0 DEF Followed
  <2>2. Known(c) \in Nat /\ Len(got[c]) \in Nat /\ Len(got[c]) <= Known(c)
    BY <2>1, KnownIs
  <2>3. QED
    BY <1>1, <2>1, <2>2
<1>3. PICK over \in BOOLEAN : over = (link[c] = "over")
  OBVIOUS
<1>4. /\ StreamTypeOK(Procs)'
      /\ IF over THEN link'[c] = "ended" ELSE link'[c] \in {"reply", "listening"}
      /\ server'[c] = server[c] /\ got'[c] = got[c]
      /\ InSequence(c)' /\ Known(c)' = n
      /\ \A d \in Clients : d # c => Same(d)
  <2>1. PICK p \in Procs : p = server[c]
    BY <1>0
  <2>2. SendBacklog(c, p, 0 .. n - 1, over)
    BY <1>1, <1>3, <2>1 DEF Answer
  <2>3. QED
    BY <1>0, <1>1, <1>2, <1>3, <2>1, <2>2, SendBacklogIs, ZenonT(40)
<1>5. Settled(server[c], r)'
  BY <1>0, <1>4 DEF Settled
<1>6. n' = n /\ Known(c)' <= n'
  BY <1>0, <1>1, <1>4 DEF CountEvents
<1>7. ASSUME over
      PROVE  Known(c)' > 0 /\ events'[r][Known(c)' - 1].type \in TerminalEvent
  <2>1. status[r] \in Terminal /\ EndLogged(r)
    BY <1>0, <1>3, <1>7 DEF Followed, HostContext, RunContext, RunInv
  <2>2. PICK type \in TerminalEvent : n > 0 /\ events[r][n - 1].type = type
    BY <2>1 DEF EndLogged, LastIs
  <2>3. QED
    BY <1>0, <1>4, <2>2
<1>8. Followed(c)'
  BY <1>3, <1>4, <1>5, <1>6, <1>7 DEF Followed
<1>9. ASSUME NEW d \in Clients, d # c
      PROVE  Followed(d)'
  <2>1. Same(d) /\ Followed(d)
    BY <1>4, <1>9 DEF StreamInv
  <2>2. link[d] \in {"open", "over", "listening"} => Settled(server[d], Watch[d])'
    BY <1>0, <2>1 DEF Followed, Same, Settled
  <2>3. QED
    BY <1>0, <2>1, <2>2, SameFollowed
<1>10. QED
  BY <1>4, <1>8, <1>9 DEF StreamInv

\* What a client does, and what happens to its connection.
LEMMA ClientFollows ==
  ASSUME HostContext, StreamInv, NEW c \in Clients, ClientStep(c), UNCHANGED vars
  PROVE  StreamInv'
<1> DEFINE r == Watch[c]
           n == CountEvents(r)
<1>0. /\ Followed(c) /\ StreamTypeOK(Procs) /\ [Next]_vars
      /\ status' = status /\ events' = events /\ co' = co /\ proc' = proc
      /\ InSequence(c) /\ Known(c) <= n
  <2>1. status' = status /\ events' = events /\ co' = co /\ proc' = proc
    BY DEF vars, tables, runRow
  <2>2. QED
    BY <2>1 DEF StreamInv, Followed
<1>1. /\ n \in Nat /\ n' = n
      /\ Known(c) \in Nat /\ Len(got[c]) \in Nat /\ Len(got[c]) <= Known(c)
  <2>1. n \in Nat
    BY WatchAssumption, LogGrows, <1>0 DEF HostContext, RunContext
  <2>2. n' = n
    BY <1>0 DEF CountEvents
  <2>3. QED
    BY <1>0, <2>1, <2>2, KnownIs
<1>2. ASSUME \A d \in Clients : d # c => Same(d)
      PROVE  \A d \in Clients : d # c => Followed(d)'
  <2>1. ASSUME NEW d \in Clients, d # c
        PROVE  Followed(d)'
    <3>1. Same(d) /\ Followed(d)
      BY <1>2, <2>1 DEF StreamInv
    <3>2. link[d] \in {"open", "over", "listening"} => Settled(server[d], Watch[d])'
      BY <1>0, <3>1 DEF Followed, Same, Settled
    <3>3. QED
      BY <1>0, <3>1, <3>2, SameFollowed
  <2>2. QED
    BY <2>1
<1>3. CASE Disconnect(c)
  <2>1. /\ StreamTypeOK(Procs)' /\ link'[c] = "closed" /\ got'[c] = got[c] /\ wire'[c] = <<>>
        /\ InSequence(c)' /\ \A d \in Clients : d # c => Same(d)
    BY <1>0, <1>3, BreakIs DEF Disconnect
  <2>2. Known(c)' <= n'
    <3>1. Len(got'[c]) = Len(got[c]) /\ Len(wire'[c]) = 0
      BY <2>1
    <3>2. Known(c)' = Len(got[c])
      BY <1>1, <3>1 DEF Known
    <3>3. QED
      BY <1>0, <1>1, <3>2
  <2>3. Followed(c)'
    BY <2>1, <2>2 DEF Followed
  <2>4. QED
    BY <1>2, <2>1, <2>3 DEF StreamInv
<1>4. ASSUME StreamTypeOK(Procs)', link'[c] = link[c], server'[c] = server[c], link[c] # "done",
             InSequence(c)', Known(c)' = Known(c), \A d \in Clients : d # c => Same(d)
      PROVE  StreamInv'
  <2>1. (link[c] \in {"open", "over", "listening"} => Settled(server[c], r))'
    BY <1>0, <1>4 DEF Followed, Settled
  <2>2. (link[c] = "listening" /\ Executing(server[c], r) => Known(c) = n)'
    BY <1>0, <1>1, <1>4 DEF Followed, Executing
  <2>3. (link[c] \in {"ended", "done"} =>
           Known(c) > 0 /\ events[r][Known(c) - 1].type \in TerminalEvent)'
    BY <1>0, <1>4 DEF Followed
  <2>4. Known(c)' <= n'
    BY <1>0, <1>1, <1>4
  <2>5. Followed(c)'
    BY <1>0, <1>4, <2>1, <2>2, <2>3, <2>4 DEF Followed
  <2>6. QED
    BY <1>2, <1>4, <2>5 DEF StreamInv
<1>5. CASE Receive(c)
  <2>1. link[c] # "done"
    BY <1>5 DEF Receive
  <2>2. QED
    BY <1>0, <1>4, <1>5, <2>1, ReceiveIs
<1>6. ASSUME StreamTypeOK(Procs)', link'[c] = IF link[c] = "ended" THEN "done" ELSE "closed",
             wire'[c] = <<>>, InSequence(c)', Known(c)' = Known(c),
             \A d \in Clients : d # c => Same(d)
      PROVE  StreamInv'
  <2>1. link[c] = "ended" =>
          Known(c)' > 0 /\ events'[r][Known(c)' - 1].type \in TerminalEvent
    BY <1>0, <1>6 DEF Followed
  <2>2. Known(c)' <= n'
    BY <1>0, <1>1, <1>6
  <2>3. Followed(c)'
    BY <1>6, <2>1, <2>2 DEF Followed
  <2>4. QED
    BY <1>2, <1>6, <2>3 DEF StreamInv
<1>7. CASE SeeEnd(c)
  <2>1. /\ StreamTypeOK(Procs)' /\ link[c] = "ended" /\ link'[c] = "done"
        /\ wire'[c] = wire[c] /\ wire[c] = <<>> /\ got'[c] = got[c]
        /\ \A d \in Clients : d # c => Same(d)
    BY <1>0, <1>7, SeeEndIs
  <2>2. InSequence(c)' /\ Known(c)' = Known(c)
    BY <1>0, <2>1, SameInSequence
  <2>3. QED
    BY <1>6, <2>1, <2>2
<1>8. CASE ReceiveReply(c)
  BY <1>0, <1>6, <1>8, ReceiveReplyIs
<1>9. QED
  BY <1>3, <1>5, <1>7, <1>8 DEF ClientStep, Read

\* An append reaches the listeners of its process, and the last one of a run
\* ends their streams.  Who listens elsewhere does not listen to an executor.
LEMMA EmitFollows ==
  ASSUME HostContext, StreamInv, [Next]_vars, NEW p \in Procs, NEW r \in Runs,
         Appends(p, r), Emit(p, r, co[p][r].seq, co[p][r].ev)
  PROVE  StreamInv'
<1> DEFINE n == CountEvents(r)
           ev == co[p][r].ev
<1>0. TypeOK /\ LogInv /\ RunContext /\ BusyIsLive /\ StreamTypeOK(Procs)
  BY DEF HostContext, RunContext, LogInv, StreamInv
<1>1. Insert(p, r)
  <2>1. PICK q \in Procs, s \in Runs : Insert(q, s)
    BY EventsStep DEF Appends
  <2>2. s = r
    BY <1>0, <2>1, InsertEffect DEF Appends
  <2>3. RunStep(q, s) /\ ~UnhandledRejection(q, s)
    BY <2>1 DEF RunStep, Statement, Insert, UnhandledRejection
  <2>4. q = p
    BY <1>0, <2>2, <2>3, OthersStay DEF Appends
  <2>5. QED
    BY <2>1, <2>2, <2>4
<1>2. /\ n \in Nat /\ n' = n + 1 /\ events'[r][n].type = ev
      /\ \A s \in Runs : s # r => events'[s] = events[s]
  BY <1>0, <1>1, InsertEffect
<1>3. /\ co[p][r].seq = n /\ Executing(p, r) /\ proc' = proc
      /\ \A q \in Procs : Executing(q, r) => q = p
  BY <1>0, <1>1 DEF Insert, HostContext, ExactSeqs, Executing, At, Rest, RunContext,
                    ExclusiveExecution
<1>4. /\ StreamTypeOK(Procs)'
      /\ \A c \in Clients :
           /\ server'[c] = server[c] /\ got'[c] = got[c]
           /\ c \notin Listeners(p, r) => Same(c)
           /\ c \in Listeners(p, r) =>
                /\ link'[c] = IF ev \in TerminalEvent THEN "ended" ELSE "listening"
                /\ InSequence(c) /\ Known(c) = n => InSequence(c)' /\ Known(c)' = n + 1
  <2>1. Emit(p, r, n, ev)
    BY <1>3
  <2>2. QED
    BY <1>0, <1>2, <2>1, EmitIs
<1>5. ASSUME NEW c \in Clients, link[c] \in {"open", "over", "listening"}
      PROVE  Settled(server[c], Watch[c])'
  <2>1. PICK q \in Procs : q = server[c] /\ Settled(q, Watch[c])
    BY <1>5 DEF StreamInv, Followed, Settled
  <2>2. Settled(q, Watch[c])'
    BY <1>0, <1>3, <2>1, WatchAssumption, SettledStep
  <2>3. QED
    BY <1>4, <2>1, <2>2 DEF Settled
<1>6. ASSUME NEW c \in Clients, c \in Listeners(p, r)
      PROVE  Followed(c)'
  <2>1. /\ Followed(c) /\ link[c] = "listening" /\ server[c] = p /\ Watch[c] = r
    BY <1>6 DEF Listeners, StreamInv
  <2>2. InSequence(c) /\ Known(c) = n
    BY <1>3, <2>1 DEF Followed
  <2>3. /\ InSequence(c)' /\ Known(c)' = n + 1
        /\ link'[c] = IF ev \in TerminalEvent THEN "ended" ELSE "listening"
    BY <1>4, <1>6, <2>2
  <2>4. Known(c)' = CountEvents(Watch[c])' /\ Known(c)' <= CountEvents(Watch[c])'
    BY <1>2, <2>1, <2>3
  <2>5. ev \in TerminalEvent =>
          Known(c)' > 0 /\ events'[Watch[c]][Known(c)' - 1].type \in TerminalEvent
    <3>1. Known(c)' > 0 /\ Known(c)' - 1 = n
      BY <1>2, <2>3
    <3>2. QED
      BY <1>2, <2>1, <3>1
  <2>6. QED
    BY <1>5, <2>1, <2>3, <2>4, <2>5 DEF Followed
<1>7. ASSUME NEW c \in Clients, c \notin Listeners(p, r)
      PROVE  Followed(c)'
  <2>1. Followed(c) /\ Same(c) /\ Watch[c] \in Runs
    BY <1>4, <1>7, WatchAssumption DEF StreamInv
  <2>2. ASSUME link[c] = "listening", Executing(server[c], Watch[c])'
        PROVE  Watch[c] # r
    <3>1. PICK q \in Procs : q = server[c] /\ q = server'[c] /\ Settled(q, Watch[c])
      BY <1>4, <2>1, <2>2 DEF Followed, Settled
    <3>2. Executing(q, Watch[c])'
      BY <2>2, <3>1 DEF Executing
    <3>3. Executing(q, Watch[c])
      BY <1>0, <2>1, <3>1, <3>2, SettledStep
    <3>4. QED
      BY <1>3, <1>7, <2>2, <3>1, <3>3 DEF Listeners
  <2>3. QED
    BY <1>2, <1>5, <2>1, <2>2, SameFollowed
<1>8. QED
  BY <1>4, <1>6, <1>7 DEF StreamInv

\* A process that ends takes the connections of its clients with it, and nothing
\* else does.
LEMMA QuietFollows ==
  ASSUME HostContext, StreamInv, [Next]_vars, events' = events,
         NEW C \in SUBSET Clients, \A c \in Clients \ C : Same(c),
         \A c \in C : link'[c] = "closed" /\ Len(got'[c]) = Len(got[c]) /\ wire'[c] = <<>>
                      /\ InSequence(c)',
         \A c \in Clients \ C : \A p \in Procs :
           p = server[c] /\ proc'[p] # proc[p] => proc'[p] # "crashed",
         StreamTypeOK(Procs)'
  PROVE  StreamInv'
<1>0. TypeOK /\ LogInv /\ BusyIsLive
  BY DEF HostContext, RunContext, LogInv
<1>1. ASSUME NEW c \in Clients \ C
      PROVE  Followed(c)'
  <2>1. Followed(c) /\ Same(c) /\ Watch[c] \in Runs
    BY WatchAssumption DEF StreamInv
  <2>2. ASSUME link[c] \in {"open", "over", "listening"}
        PROVE  Settled(server[c], Watch[c])'
    <3>1. PICK p \in Procs : p = server[c] /\ p = server'[c] /\ Settled(p, Watch[c])
      BY <2>1, <2>2 DEF Followed, Settled, Same
    <3>2. Settled(p, Watch[c])'
      BY <1>0, <2>1, <3>1, SettledStep
    <3>3. QED
      BY <3>1, <3>2 DEF Settled
  <2>3. QED
    BY <2>1, <2>2, SameFollowed
<1>2. ASSUME NEW c \in C
      PROVE  Followed(c)'
  <2>1. /\ InSequence(c) /\ Known(c) <= CountEvents(Watch[c])
        /\ CountEvents(Watch[c]) \in Nat /\ CountEvents(Watch[c])' = CountEvents(Watch[c])
    BY <1>0, WatchAssumption, LogGrows DEF StreamInv, Followed, CountEvents
  <2>2. Known(c) \in Nat /\ Len(got[c]) \in Nat /\ Len(got[c]) <= Known(c)
    BY <2>1, KnownIs
  <2>3. Known(c)' = Len(got[c])
    <3>1. Len(got'[c]) = Len(got[c]) /\ Len(wire'[c]) = 0
      BY <1>2
    <3>2. Len(got[c]) + 0 = Len(got[c])
      BY <2>2
    <3>3. QED
      BY <3>1, <3>2 DEF Known
  <2>4. Known(c)' <= CountEvents(Watch[c])'
    BY <2>1, <2>2, <2>3
  <2>5. QED
    BY <1>2, <2>4 DEF Followed
<1>3. QED
  BY <1>1, <1>2 DEF StreamInv

LEMMA HostStepFollows ==
  ASSUME HostContext, StreamInv, HostStep
  PROVE  StreamInv'
<1>0. /\ TypeOK /\ BusyIsLive /\ StreamTypeOK(Procs) /\ [Next]_vars
      /\ \A c \in Clients : Followed(c)
  BY DEF HostContext, RunContext, LogInv, StreamInv, HostStep
<1>1. CASE \E p \in Procs, r \in Runs :
             Appends(p, r) /\ Emit(p, r, co[p][r].seq, co[p][r].ev)
  BY <1>0, <1>1, EmitFollows
<1>2. ASSUME NEW p \in Procs, Gone(p), Break({c \in Clients : server[c] = p})
      PROVE  StreamInv'
  <2> DEFINE C == {c \in Clients : server[c] = p}
  <2>1. C \in SUBSET Clients
    OBVIOUS
  <2>2. /\ StreamTypeOK(Procs)'
        /\ \A c \in C : /\ link'[c] = "closed" /\ got'[c] = got[c] /\ wire'[c] = <<>>
                        /\ InSequence(c) => InSequence(c)'
        /\ \A c \in Clients \ C : Same(c)
    BY <1>0, <1>2, <2>1, BreakIs
  <2>3. events' = events /\ \A q \in Procs : q # p => proc'[q] = proc[q]
    BY <1>0, <1>2, OneProcMoves DEF Gone
  <2>4. \A c \in Clients : InSequence(c)
    BY <1>0 DEF Followed
  <2>5. \A c \in C : link'[c] = "closed" /\ Len(got'[c]) = Len(got[c]) /\ wire'[c] = <<>>
                     /\ InSequence(c)'
    BY <2>2, <2>4
  <2>6. \A c \in Clients \ C : \A q \in Procs : q = server[c] => proc'[q] = proc[q]
    BY <2>3
  <2> HIDE DEF C
  <2>7. QED
    BY <1>0, <2>1, <2>2, <2>3, <2>5, <2>6, QuietFollows
<1>3. CASE events' = events /\ ~(\E p \in Procs : Gone(p)) /\ UNCHANGED streamVars
  <2>1. \A c \in Clients : Same(c)
    BY <1>3 DEF Same, streamVars
  <2>2. StreamTypeOK(Procs)'
    BY <1>0, <1>3 DEF StreamTypeOK, streamVars
  <2>3. \A p \in Procs : proc'[p] # proc[p] => proc'[p] # "crashed"
    BY <1>3 DEF Gone
  <2>4. PICK C \in SUBSET Clients : C = {}
    OBVIOUS
  <2>5. QED
    BY <1>0, <1>3, <2>1, <2>2, <2>3, <2>4, QuietFollows
<1>4. QED
  BY <1>1, <1>2, <1>3 DEF HostStep, Effect

LEMMA StreamInvStep ==
  ASSUME HostContext, StreamInv, [StreamsNext]_streamsVars
  PROVE  StreamInv'
<1>1. CASE UNCHANGED streamsVars
  <2>1. UNCHANGED vars /\ UNCHANGED streamVars
    BY <1>1 DEF streamsVars
  <2>2. /\ \A c \in Clients : Same(c)
        /\ StreamTypeOK(Procs)'
        /\ events' = events /\ proc' = proc
    BY <2>1 DEF Same, streamVars, StreamInv, StreamTypeOK, vars, tables
  <2>3. PICK C \in SUBSET Clients : C = {}
    OBVIOUS
  <2>4. QED
    BY <2>1, <2>2, <2>3, QuietFollows
<1>2. QED
  BY <1>1, HostStepFollows, AskFollows, AnswerFollows, ClientFollows DEF StreamsNext

LEMMA StreamInvInit ==
  ASSUME StreamsInit
  PROVE  StreamInv
<1>1. StreamTypeOK(Procs)
  BY DEF StreamsInit, StreamInit, StreamTypeOK, Link
<1>2. ASSUME NEW c \in Clients
      PROVE  Followed(c)
  <2>1. /\ got[c] = <<>> /\ wire[c] = <<>> /\ link[c] = "closed"
        /\ CountEvents(Watch[c]) \in Nat
    BY WatchAssumption, InitTypes, CountEventsType DEF StreamsInit, StreamInit, TypeOK
  <2>2. InSequence(c)
    BY <2>1, NumberedEmpty DEF InSequence
  <2>3. Known(c) <= CountEvents(Watch[c])
    BY <2>1 DEF Known
  <2>4. QED
    BY <2>1, <2>2, <2>3 DEF Followed
<1>3. QED
  BY <1>1, <1>2 DEF StreamInv

-----------------------------------------------------------------------------
(* The theorems. *)

\* The streams do nothing to the host.
LEMMA HostBelow == StreamsSpec => Spec
<1>1. StreamsInit => Init
  BY DEF StreamsInit
<1>2. [StreamsNext]_streamsVars => [Next]_vars
  BY DEF StreamsNext, HostStep, Ask, Answer, streamsVars
<1>3. QED
  BY <1>1, <1>2, PTL DEF StreamsSpec, Spec

LEMMA HostInvariant ==
  ASSUME MayStall = {}, HeartbeatInterval <= ClaimTtl
  PROVE  Spec => []HostContext
<1>1. Init => ExactSeqs /\ BusyIsLive
  BY IdleAt DEF Init, ExactSeqs, BusyIsLive, At
<1>2. RunContext /\ ExactSeqs /\ BusyIsLive /\ [Next]_vars => (ExactSeqs /\ BusyIsLive)'
  BY ExactSeqsStep, BusyIsLiveStep DEF RunContext, LogInv
<1>3. QED
  BY <1>1, <1>2, RunInvariant, PTL DEF Spec, HostContext

LEMMA StreamInvariant ==
  ASSUME MayStall = {}, HeartbeatInterval <= ClaimTtl
  PROVE  StreamsSpec => [](HostContext /\ StreamInv)
<1>1. StreamsSpec => []HostContext
  BY HostBelow, HostInvariant, PTL
<1>2. StreamsInit => StreamInv
  BY StreamInvInit
<1>3. HostContext /\ StreamInv /\ [StreamsNext]_streamsVars => StreamInv'
  BY StreamInvStep
<1>4. QED
  BY <1>1, <1>2, <1>3, PTL DEF StreamsSpec

\* A connection's process, its position and its end are of their types, whatever
\* the processes do.
THEOREM StreamsTypeCorrect ==
  ASSUME MayStall = {}, HeartbeatInterval <= ClaimTtl
  PROVE  StreamsSpec => []StreamsTypeOK
<1>1. HostContext /\ StreamInv => StreamsTypeOK
  BY DEF HostContext, RunContext, LogInv, StreamInv, StreamsTypeOK
<1>2. QED
  BY <1>1, StreamInvariant, PTL

\* A client of handleEventsSse and handleEventsPoll gets each event of its run
\* once and in order, although the run may be executed by another process than
\* the one it is connected to, before or after.
THEOREM FollowersGetPrefixes ==
  ASSUME MayStall = {}, HeartbeatInterval <= ClaimTtl
  PROVE  StreamsSpec => []GotPrefix
<1>1. StreamInv => GotPrefix
  <2>1. SUFFICES ASSUME StreamInv, NEW c \in Clients, NEW i \in 1 .. Len(got[c])
                 PROVE  got[c][i] = i - 1
    BY DEF GotPrefix
  <2>2. got[c][i] = 0 + i - 1
    BY <2>1 DEF StreamInv, Followed, InSequence, Numbered
  <2>3. QED
    BY <2>2
<1>2. QED
  BY <1>1, StreamInvariant, PTL

LEMMA OutcomeInvariant ==
  ASSUME MayStall = {}, HeartbeatInterval <= ClaimTtl
  PROVE  Spec => []OutcomeInv
<1>1. Init => OutcomeInv
  BY DEF Init, StoreInit, OutcomeInv, EndsOnce
<1>2. HostContext /\ OutcomeInv /\ [Next]_vars => OutcomeInv'
  BY EndsOnceStep DEF OutcomeInv
<1>3. QED
  BY <1>1, <1>2, HostInvariant, PTL DEF Spec

\* A client whose stream the host ended, or whose poll said isTerminal, has the
\* whole log, and its last event tells how the run ended or is about to: only the
\* death of a process between that event and the status may change it.
THEOREM DoneFollowersKnowTheOutcome ==
  ASSUME MayStall = {}, HeartbeatInterval <= ClaimTtl
  PROVE  StreamsSpec => []DoneHasOutcome
<1>1. HostContext /\ StreamInv /\ OutcomeInv => DoneHasOutcome
  <2>1. SUFFICES ASSUME HostContext, StreamInv, OutcomeInv,
                        NEW c \in Clients, link[c] = "done"
                 PROVE  LET r == Watch[c]
                            last == events[r][LastEventId(c)].type
                        IN  /\ got[c] # <<>>
                            /\ last \in TerminalEvent
                            /\ \/ /\ LastEventId(c) = CountEvents(r) - 1
                                  /\ \/ status[r] = StatusOf(last)
                                     \/ \E p \in Procs : /\ At(p, r, "terminal")
                                                         /\ co[p][r].ev = last
                               \/ \E p \in Procs : proc[p] = "crashed"
    BY DEF DoneHasOutcome
  <2> DEFINE r == Watch[c]
             n == CountEvents(r)
             i == LastEventId(c)
             last == events[r][i].type
  <2>2. /\ InSequence(c) /\ wire[c] = <<>> /\ Known(c) > 0 /\ Known(c) <= n
        /\ events[r][Known(c) - 1].type \in TerminalEvent
    BY <2>1 DEF StreamInv, Followed
  <2>3. i = Len(got[c]) - 1
    BY <2>2, LastEventIdIs DEF InSequence
  <2>4. Known(c) = Len(got[c]) /\ Known(c) \in Nat
    <3>1. Len(got[c]) \in Nat /\ Len(wire[c]) = 0
      BY <2>2, KnownIs
    <3>2. Len(got[c]) + 0 = Len(got[c])
      BY <3>1
    <3>3. QED
      BY <3>1, <3>2 DEF Known
  <2>5. got[c] # <<>>
    BY <2>2, <2>4
  <2>6. i = Known(c) - 1 /\ last \in TerminalEvent
    BY <2>2, <2>3, <2>4
  <2>7. r \in Runs /\ n \in Nat /\ DOMAIN events[r] = 0 .. (n - 1)
    <3>1. Watch[c] \in Runs /\ TypeOK /\ LogContiguous
      BY <2>1, WatchAssumption DEF HostContext, RunContext, LogInv
    <3>2. CountEvents(Watch[c]) \in Nat
      BY <3>1, CountEventsType DEF TypeOK
    <3>3. QED
      BY <3>1, <3>2 DEF LogContiguous
  <2> HIDE DEF r, n, i, last
  <2>8. i \in DOMAIN events[r]
    BY <2>2, <2>4, <2>6, <2>7
  <2>9. ASSUME ~(\E p \in Procs : proc[p] = "crashed")
        PROVE  /\ i = n - 1
               /\ \/ status[r] = StatusOf(last)
                  \/ \E p \in Procs : At(p, r, "terminal") /\ co[p][r].ev = last
    <3>1. /\ i = n - 1
          /\ status[r] \in Terminal \/ \E p \in Procs : At(p, r, "terminal")
      BY <2>1, <2>6, <2>7, <2>8, <2>9 DEF OutcomeInv, EndsOnce, last, n
    <3>2. \A type \in EventType : LastIs(r, type) => type = last
      BY <3>1 DEF LastIs, last, n
    <3>3. CASE status[r] \in Terminal
      <4>1. PICK type \in TerminalEvent : LastIs(r, type) /\ StatusOf(type) = status[r]
        BY <2>1, <2>7, <3>3 DEF HostContext, RunContext, RunInv, EndLogged
      <4>2. QED
        BY <3>1, <3>2, <4>1 DEF EventType, RunEvent
    <3>4. ASSUME NEW p \in Procs, At(p, r, "terminal")
          PROVE  co[p][r].ev = last
      <4>1. co[p][r].ev \in TerminalEvent /\ LastIs(r, co[p][r].ev)
        BY <2>1, <2>7, <3>4 DEF HostContext, RunContext, RunInv, Course, Executing, At
      <4>2. QED
        BY <3>2, <4>1 DEF EventType, RunEvent
    <3>5. QED
      BY <3>1, <3>3, <3>4
  <2>10. QED
    BY <2>5, <2>6, <2>9 DEF r, n, i, last
<1>2. StreamsSpec => []OutcomeInv
  BY HostBelow, OutcomeInvariant, PTL
<1>3. QED
  BY <1>1, <1>2, StreamInvariant, PTL

=============================================================================
