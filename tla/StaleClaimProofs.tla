-------------------------- MODULE StaleClaimProofs --------------------------
(***************************************************************************)
(* Theorems about the stale-claim scenario: the host that it should have   *)
(* killed keeps its claim, so the other one never resumes the run.         *)
(***************************************************************************)
EXTENDS StaleClaim, SqliteHostProofs

-----------------------------------------------------------------------------
(* The hosts of the scenario are processes of SqliteHost. *)

\* All that the harness does to them is one request.
LEMMA HarnessStepOnHosts ==
  ASSUME HarnessStep
  PROVE  UNCHANGED vars \/ (step = "create" /\ CreateRun(A, Run))
BY DEF HarnessStep, Spawn, Ready, CreateTheRun, SeeRunning, KillA, KilledA, WaitForLapse,
       SeeTerminal, TimesOut, AfterEachKill, AfterEachShutdown, AfterEachRemove, Pass, Kill, Terminate

LEMMA ScenarioStep ==
  ASSUME [ScenarioNext]_allVars
  PROVE  [Next]_vars
<1>1. CASE HarnessStep
  BY <1>1, HarnessStepOnHosts, HostsAssumption DEF Next, RunStep
<1>2. ASSUME NEW p \in Procs, Boot(p) \/ HostStep(p) \/ TakeSignal(p)
      PROVE  Next \/ UNCHANGED vars
  BY <1>2, HostsAssumption
     DEF Boot, HostStep, TakeSignal, Next, ProcStep, RunStep
<1>3. QED
  BY <1>1, <1>2 DEF ScenarioNext, TimePasses, Next, allVars

LEMMA ScenarioIsSpec == ScenarioSpec => Spec
BY ScenarioStep, PTL DEF ScenarioSpec, ScenarioInit, Spec

\* Signals, timers and the step of the scenario keep their types.
THEOREM HarnessTypeCorrect == ScenarioSpec => []HarnessTypeOK
<1> DEFINE Types == /\ step \in Step
                    /\ since \in Nat
                    /\ verdict \in {"none", "passed", "not ready", "failed"}
                    /\ forwards \in BOOLEAN
                    /\ spawned \in SUBSET {A, B}
                    /\ signalled \in SUBSET {A, B}
                    /\ asleep \in [Procs -> Nat]
<1>1. ScenarioInit => Types
  BY DEF ScenarioInit, Step
<1>2. TypeOK /\ Types /\ [ScenarioNext]_allVars => Types'
  <2>1. SUFFICES ASSUME TypeOK, Types, [ScenarioNext]_allVars PROVE Types'
    OBVIOUS
  <2>2. now \in Nat /\ A \in Procs /\ B \in Procs
    BY <2>1, HostsAssumption DEF TypeOK
  <2>3. ASSUME NEW p \in {A, B}, NEW next \in Step, Kill(p, next) \/ Terminate(p, next)
        PROVE  Types'
    BY <2>1, <2>2, <2>3 DEF Kill, Terminate, EndWrapper, Go
  <2>4. CASE HarnessStep
    BY <2>1, <2>2, <2>3, <2>4
       DEF HarnessStep, Spawn, Ready, CreateTheRun, SeeRunning, KillA, KilledA, WaitForLapse,
           SeeTerminal, TimesOut, AfterEachKill, AfterEachShutdown, AfterEachRemove, Pass, Go,
           Step
  <2>5. ASSUME NEW p \in Procs, Boot(p) \/ HostStep(p) \/ TakeSignal(p)
        PROVE  Types'
    BY <2>1, <2>2, <2>5 DEF Boot, HostStep, TakeSignal, harnessVars
  <2>6. QED
    BY <2>1, <2>4, <2>5 DEF ScenarioNext, TimePasses, allVars, harnessVars
<1>3. TypeOK /\ Types => HarnessTypeOK
  BY DEF HarnessTypeOK
<1>4. QED
  BY <1>1, <1>2, <1>3, ScenarioIsSpec, TypeCorrect, PTL DEF ScenarioSpec

-----------------------------------------------------------------------------
(* The run stays with A. *)

\* Whatever kill() and the others did, the run is A's from its creation to its
\* end: A has started it, nobody else executes it, and no signal reaches A.
RunOfA ==
  LET c == co[A][Run]
  IN  /\ A \notin signalled
      /\ \A p \in Procs : http[p] = NoRun /\ (p # A => At(p, Run, "idle"))
      /\ c.at # "idle" \/ status[Run] # "absent" => proc[A] = "serving"
      /\ status[Run] \in {"absent", "pending", "running"} \cup Terminal
      /\ status[Run] = "running" => Executing(A, Run)
      /\ c.at = "release" => status[Run] \in Terminal
      /\ \/ status[Run] = "absent"
         \/ c.at \in {"insertRun", "remember", "claim", "load", "scan"}
         => ~Logged(Run, "run.started")
      /\ c.at \in {"markRunning", "count", "insert"} => c.ev # "run.resumed"
      /\ ~Logged(Run, "run.resumed")

\* The steps at which the harness has not seen the run as running.
BeforeSeen == {"spawnA", "readyA", "create", "running", "afterA", "afterAExit"}

\* A is the only host there is.
Alone == \A p \in Procs : p # A => proc[p] = "unstarted" /\ p \notin spawned

\* A executes the run, or it is over.
Seen == status[Run] \in {"running"} \cup Terminal

\* B is spawned after A was seen to execute the run.
Sequence ==
  /\ step \in {"spawnA", "readyA", "create"} => status[Run] = "absent" /\ At(A, Run, "idle")
  /\ step \in BeforeSeen => Alone
  /\ step \notin BeforeSeen => Seen \/ (step = "removed" /\ Alone)

Context ==
  HarnessTypeOK /\ RunContext /\ LeaseHeld /\ AppendNeverConflicts /\ RunOfA /\ Sequence

LEMMA ContextFacts ==
  ASSUME Context
  PROVE  /\ A \in Procs /\ B \in Procs /\ A # B /\ Run \in Runs
         /\ TypeOK /\ LogInv /\ co[A][Run] \in Coroutine
         /\ status \in [Runs -> Status] /\ proc \in [Procs -> Phase]
BY HostsAssumption
   DEF Context, RunContext, LogInv, HarnessTypeOK, TypeOK, StoreTypeOK

\* Nobody can take the run: A holds its claim from before it is marked as
\* running, and no other host is there before that.
LEMMA NobodyTakes ==
  ASSUME Context, NEW p \in Procs, proc[p] = "resuming"
  PROVE  ~Claimable(Run, now)
<1>1. CASE status[Run] = "running"
  BY <1>1, ContextFacts, NotClaimable DEF Context, RunOfA
<1>2. CASE status[Run] \in Terminal \cup {"absent"}
  BY <1>2 DEF Claimable, Resumable, Terminal
<1>3. CASE status[Run] = "pending"
  <2>1. proc[A] = "serving"
    BY <1>3 DEF Context, RunOfA
  <2>2. ~Seen
    BY <1>3 DEF Seen, Terminal
  <2>3. Alone
    BY <2>2 DEF Context, Sequence
  <2>4. QED
    BY <2>1, <2>3 DEF Alone
<1>4. QED
  BY <1>1, <1>2, <1>3 DEF Context, RunOfA

LEMMA ScanMoves ==
  ASSUME TypeOK, NEW p \in Procs, NEW r \in Runs, Scan(p, r), ~Logged(r, "run.started")
  PROVE  co'[p][r].at = "markRunning" /\ co'[p][r].ev = "run.started"
<1> DEFINE d == [co[p][r] EXCEPT !.ev = "run.started"]
<1>1. co[p][r] \in Coroutine /\ "run.started" \in EventType
  BY DEF TypeOK, EventType, RunEvent
<1>2. d \in Coroutine /\ d.ev = "run.started"
  BY <1>1 DEF Coroutine
<1>3. Resume(p, r, Goto(d, "markRunning"))
  BY DEF Scan
<1> HIDE DEF d
<1>4. QED
  BY <1>2, <1>3, GotoFields, ResumeEffect DEF Place

\* What is appended is what the coroutine said, and nothing else.
LEMMA InsertLogsOnly ==
  ASSUME LogInv, NEW p \in Procs, NEW r \in Runs, Insert(p, r), NEW type,
         co[p][r].ev # type, ~Logged(r, type)
  PROVE  ~Logged(r, type)'
<1> DEFINE n == CountEvents(r)
<1>1. /\ DOMAIN events'[r] = DOMAIN events[r] \cup {n}
      /\ events'[r][n].type = co[p][r].ev
      /\ \A i \in DOMAIN events[r] : events'[r][i] = events[r][i]
  BY InsertEffect
<1> HIDE DEF n
<1>2. QED
  BY <1>1 DEF Logged

\* A statement of A, which never throws: where it takes the run.
LEMMA StatementOfA ==
  ASSUME Context, Statement(A, Run), UNCHANGED signalled
  PROVE  RunOfA'
<1> DEFINE c == co[A][Run]
           d == co'[A][Run]
<1>0. /\ A \in Procs /\ Run \in Runs /\ TypeOK /\ LogInv /\ c \in Coroutine /\ RunOfA
      /\ status \in [Runs -> Status] /\ proc \in [Procs -> Phase] /\ RunStep(A, Run)
  BY ContextFacts DEF Context, RunStep
<1>1. ~InsertThrows(A, Run) /\ ~UnhandledRejection(A, Run)
  BY <1>0 DEF Context, AppendNeverConflicts, InsertThrows, UnhandledRejection
<1>2. c.at # "idle" /\ c.at # "sleep"
  BY DEF Statement, InsertRun, Remember, ClaimCreated, Load, Scan, MarkRunning, CheckLoop,
         CheckNode, CheckFinal, Count, Insert, InsertThrows, UnhandledRejection, SetTerminal,
         Release, At
<1>3. /\ proc' = proc /\ http' = http
      /\ \A p \in Procs : p # A => co'[p][Run] = co[p][Run]
  <2>1. proc' = proc /\ http' = http
    BY <1>1
       DEF Statement, InsertRun, Remember, ClaimCreated, Load, Scan, MarkRunning, CheckLoop,
           CheckNode, CheckFinal, Count, Insert, SetTerminal, Release, Rest
  <2>2. QED
    BY <1>0, <1>1, <2>1, OthersStay
<1>4. ~Logged(Run, "run.resumed")'
  <2>1. CASE Insert(A, Run)
    BY <1>0, <2>1, InsertLogsOnly DEF Insert, At, RunOfA
  <2>2. CASE UNCHANGED events
    BY <1>0, <2>2 DEF RunOfA, Logged
  <2>3. QED
    BY <1>0, <1>1, <2>1, <2>2
       DEF Statement, InsertRun, Remember, ClaimCreated, Load, Scan, MarkRunning, CheckLoop,
           CheckNode, CheckFinal, Count, SetTerminal, Release, TryClaim, tables, runRow,
           InsertRunRow, InsertIdempotency, AcquireClaim, UpdateRunStatus, ReleaseClaim
<1>5. status[Run] = "absent" => c.at = "insertRun"
  BY <1>0, <1>2 DEF Context, RunContext, RunInv, Unborn
<1>6. CASE InsertRun(A, Run)
  <2>1. c.at = "insertRun" /\ status'[Run] = "pending" /\ d.at \in {"remember", "claim"}
    BY <1>0, <1>6, CreationMoves DEF InsertRun, InsertRunRow, At
  <2>2. ~Logged(Run, "run.started")'
    BY <1>0, <1>6, <2>1 DEF InsertRun, InsertRunRow, RunOfA, Logged
  <2>3. QED
    BY <1>0, <1>2, <1>3, <1>4, <2>1, <2>2 DEF RunOfA, At
<1>7. CASE Remember(A, Run) \/ ClaimCreated(A, Run)
  <2>1. c.at \in {"remember", "claim"} /\ status' = status /\ events' = events
        /\ d.at \in {"idle", "claim", "load"}
    BY <1>0, <1>7, CreationMoves
       DEF Remember, ClaimCreated, At, TryClaim, AcquireClaim, InsertIdempotency, tables, runRow
  <2>2. status[Run] # "running" /\ status[Run] # "absent"
    BY <1>0, <1>5, <2>1 DEF RunOfA, Executing
  <2>3. QED
    BY <1>0, <1>2, <1>3, <1>4, <2>1, <2>2 DEF RunOfA, At, Logged
<1>8. CASE Load(A, Run) \/ Scan(A, Run)
  <2>1. c.at \in {"load", "scan"} /\ status' = status /\ events' = events
    BY <1>8 DEF Load, Scan, At, tables, runRow
  <2>2. \/ d.at = "scan"
        \/ d.at = "count" /\ d.ev = "run.failed"
        \/ d.at = "markRunning" /\ d.ev = "run.started"
    BY <1>0, <1>8, <2>1, OpeningMoves, ScanMoves DEF RunOfA
  <2>3. QED
    BY <1>0, <1>2, <1>3, <1>4, <1>5, <2>1, <2>2 DEF RunOfA, At, Logged, Executing
<1>9. CASE MarkRunning(A, Run)
  <2>1. c.at = "markRunning" /\ status'[Run] = "running" /\ d.at = "count" /\ d.ev = c.ev
    BY <1>0, <1>9, OpeningMoves DEF MarkRunning, At, UpdateRunStatus
  <2>2. QED
    BY <1>0, <1>2, <1>3, <1>4, <2>1 DEF RunOfA, At, Executing, Terminal
<1>10. CASE CheckLoop(A, Run) \/ CheckNode(A, Run) \/ CheckFinal(A, Run) \/ Count(A, Run) \/ Insert(A, Run)
  <2>1. c.at \in {"loop", "node", "final", "count", "insert"} /\ status' = status
    BY <1>10 DEF CheckLoop, CheckNode, CheckFinal, Count, Insert, InsertEvent, At, tables, runRow
  <2>2. \/ d.at \in {"node", "loop", "final", "sleep", "terminal"}
        \/ d.at = "count" /\ d.ev # "run.resumed"
        \/ d.at = "insert" /\ d.ev = c.ev /\ c.at = "count"
    <3>1. CASE CheckLoop(A, Run) \/ CheckNode(A, Run) \/ CheckFinal(A, Run)
      BY <1>0, <3>1, LoopMoves
    <3>2. CASE Count(A, Run)
      BY <1>0, <3>2, AppendMoves DEF Count, At
    <3>3. CASE Insert(A, Run)
      <4>1. c.ev \in {"run.started", "run.resumed", "node.completed", "node.started", "node.cancelled",
                      "node.failed"} \cup TerminalEvent
        BY <1>0 DEF Coroutine, EventType, NodeEvent, RunEvent
      <4>2. QED
        BY <1>0, <3>3, <4>1, AppendMoves
    <3>4. QED
      BY <1>10, <3>1, <3>2, <3>3
  <2>3. QED
    BY <1>0, <1>2, <1>3, <1>4, <1>5, <2>1, <2>2 DEF RunOfA, At, Executing
<1>11. CASE SetTerminal(A, Run) \/ Release(A, Run)
  <2>1. \/ c.at = "terminal" /\ d.at = "release" /\ status'[Run] = StatusOf(c.ev)
        \/ c.at = "release" /\ d.at = "idle" /\ status' = status
    BY <1>0, <1>11, ClosingMoves DEF SetTerminal, Release, At, UpdateRunStatus, ReleaseClaim
  <2>2. StatusOf(c.ev) \in Terminal
    BY DEF StatusOf, Terminal
  <2>3. QED
    BY <1>0, <1>2, <1>3, <1>4, <1>5, <2>1, <2>2 DEF RunOfA, At, Executing, Terminal
<1>12. QED
  BY <1>1, <1>6, <1>7, <1>8, <1>9, <1>10, <1>11 DEF Statement

\* A step of a host: the run stays A's ...
LEMMA HostsKeepRun ==
  ASSUME Context, NEW p \in Procs, Boot(p) \/ HostStep(p) \/ TakeSignal(p)
  PROVE  RunOfA'
<1>0. /\ A \in Procs /\ Run \in Runs /\ TypeOK /\ RunOfA /\ proc \in [Procs -> Phase]
      /\ co \in [Procs -> [Runs -> Coroutine]]
  BY ContextFacts DEF Context, TypeOK
<1>1. ASSUME UNCHANGED <<status, events, co, http>>, signalled' \subseteq signalled,
             proc[A] = "serving" => proc'[A] = "serving"
      PROVE  RunOfA'
  BY <1>0, <1>1 DEF RunOfA, At, Logged, Executing
<1>2. ASSUME UNCHANGED <<status, events, proc, http>>, signalled' = signalled, proc[p] = "resuming",
             At(p, Run, "idle"), At(p, Run, "idle")',
             \A q \in Procs : q # p => co'[q][Run] = co[q][Run]
      PROVE  RunOfA'
  BY <1>0, <1>2 DEF RunOfA, At, Logged, Executing
<1>3. CASE Boot(p)
  BY <1>0, <1>1, <1>3 DEF Boot, Start, harnessVars, tables, runRow, Phase
<1>4. CASE HostStep(p)
  <2>0. UNCHANGED signalled
    BY <1>4 DEF HostStep
  <2>1. CASE Statement(p, Run)
    <3>1. ~At(p, Run, "idle")
      BY <2>1 DEF Statement, InsertRun, Remember, ClaimCreated, Load, Scan, MarkRunning,
                  CheckLoop, CheckNode, CheckFinal, Count, Insert, InsertThrows,
                  UnhandledRejection, SetTerminal, Release, At
    <3>2. QED
      BY <1>0, <2>0, <2>1, <3>1, StatementOfA DEF RunOfA
  <2>2. CASE Heartbeat(p, Run) \/ Listen(p)
    BY <1>0, <1>1, <2>0, <2>2 DEF Heartbeat, RenewClaim, Listen, Rest, tables, runRow
  <2>3. CASE ResumeOrphan(p, Run)
    <3>1. proc[p] = "resuming" /\ TryClaim(p, Run) /\ ~Claimable(Run, now)
      BY <2>3, NobodyTakes DEF ResumeOrphan
    <3>2. co'[p][Run].at = "idle" /\ UNCHANGED tables
      BY <1>0, <3>1, CreationMoves
    <3>3. At(p, Run, "idle")
      BY <1>0, <3>1 DEF RunOfA, At
    <3>4. \A q \in Procs : q # p => co'[q][Run] = co[q][Run]
      BY <1>0, <2>3, OthersStay DEF RunStep, UnhandledRejection, ResumeOrphan, Returned, Awaits, At
    <3>5. QED
      BY <1>2, <2>0, <2>3, <3>1, <3>2, <3>3, <3>4 DEF ResumeOrphan, tables, runRow, At
  <2>4. CASE Wake(p, Run)
    <3>1. p = A
      BY <1>0, <2>4 DEF Wake, RunOfA, At
    <3>2. co[A][Run].at = "sleep" /\ co'[A][Run].at = "count" /\ co'[A][Run].ev = "node.completed"
      BY <1>0, <2>4, <3>1, LoopMoves DEF Wake, At
    <3>3. \A q \in Procs : q # A => co'[q][Run] = co[q][Run]
      BY <1>0, <2>4, <3>1, OthersStay DEF RunStep, UnhandledRejection, Wake, At
    <3>4. UNCHANGED <<status, events, proc, http>>
      BY <2>4 DEF Wake, Rest, tables, runRow
    <3>5. QED
      BY <1>0, <2>0, <3>2, <3>3, <3>4 DEF RunOfA, At, Logged, Executing
  <2>5. QED
    BY <1>4, <2>1, <2>2, <2>3, <2>4 DEF HostStep
<1>5. CASE TakeSignal(p)
  <2>1. p # A /\ signalled' \subseteq signalled
    BY <1>0, <1>5 DEF TakeSignal, RunOfA
  <2>2. CASE UNCHANGED vars
    BY <1>0, <1>1, <2>1, <2>2 DEF vars, tables, runRow
  <2>3. ASSUME NEW phase, Die(p, phase), UNCHANGED <<status, events>>
        PROVE  RunOfA'
    <3>1. /\ co'[A] = co[A] /\ proc'[A] = proc[A]
          /\ \A q \in Procs : q # A => co'[q][Run].at = "idle"
      BY <1>0, <2>1, <2>3, IdleAt, DieEffect DEF Die, RunOfA, At
    <3>2. \A q \in Procs : http'[q] = NoRun
      BY <1>0, <2>3 DEF Die, RunOfA, TypeOK
    <3>3. QED
      BY <1>0, <2>1, <2>3, <3>1, <3>2 DEF RunOfA, At, Logged, Executing
  <2>4. QED
    BY <1>5, <2>2, <2>3
       DEF TakeSignal, Shutdown, Crash, ReleaseAllClaims, tables, runRow
<1>6. QED
  BY <1>3, <1>4, <1>5

\* ... and nothing undoes what the harness has seen of it.
LEMMA HostsKeepSequence ==
  ASSUME Context, NEW p \in Procs, Boot(p) \/ HostStep(p) \/ TakeSignal(p), [Next]_vars
  PROVE  Sequence'
<1>0. /\ A \in Procs /\ Run \in Runs /\ TypeOK /\ RunOfA /\ RunOfA' /\ step' = step
      /\ spawned' \subseteq spawned /\ Sequence /\ proc \in [Procs -> Phase]
  BY ContextFacts, HostsKeepRun
     DEF Context, TypeOK, Boot, HostStep, TakeSignal, harnessVars
<1>1. ASSUME Alone
      PROVE  Alone'
  <2>1. ASSUME NEW q \in Procs, q # A
        PROVE  proc'[q] = "unstarted"
    <3>1. proc[q] = "unstarted" /\ q \notin spawned
      BY <1>1, <2>1 DEF Alone
    <3>2. CASE p # q
      BY <1>0, <3>1, <3>2, HostsAssumption, RunStepProc
         DEF Boot, Start, HostStep, RunStep, Listen, TakeSignal, Shutdown, Crash, Die, vars, TypeOK
    <3>3. CASE p = q
      <4>1. ~Boot(q) /\ ~Shutdown(q) /\ ~Crash(q) /\ ~Listen(q) /\ ~ResumeOrphan(q, Run)
        BY <3>1 DEF Boot, Shutdown, Crash, Listen, ResumeOrphan, AtLoop, Live
      <4>2. ~Statement(q, Run) /\ ~Wake(q, Run) /\ ~Heartbeat(q, Run)
        <5>1. At(q, Run, "idle")
          BY <1>0, <2>1 DEF RunOfA
        <5>2. QED
          BY <3>1, <5>1
             DEF Statement, InsertRun, Remember, ClaimCreated, Load, Scan, MarkRunning,
                 CheckLoop, CheckNode, CheckFinal, Count, Insert, InsertThrows,
                 UnhandledRejection, SetTerminal, Release, At, Wake, Heartbeat, AtLoop
      <4>3. QED
        BY <3>1, <3>3, <4>1, <4>2 DEF HostStep, TakeSignal, vars
    <3>4. QED
      BY <3>2, <3>3
  <2>2. QED
    BY <1>0, <1>1, <2>1 DEF Alone
<1>2. ASSUME NEW q \in Procs, InsertRun(q, Run)
      PROVE  status[Run] = "absent" /\ co[q][Run].at = "insertRun" /\ q = A
  BY <1>0, <1>2 DEF Context, RunContext, RunInv, Unborn, InsertRun, At, RunOfA
<1>3. ~\E q \in Procs : CancelUpdate(q, Run)
  BY <1>0, HostsAssumption, NoRunAssumption DEF RunOfA, CancelUpdate
<1>4. ASSUME Seen
      PROVE  Seen'
  <2>1. status[Run] # "absent"
    BY <1>4 DEF Seen, Terminal
  <2>2. \A q \in Procs : StatusOf(co[q][Run].ev) \in Terminal
    BY DEF StatusOf, Terminal
  <2>3. QED
    BY <1>0, <1>2, <1>3, <1>4, <2>1, <2>2, StatusStep DEF Seen
<1>5. ASSUME step \in {"spawnA", "readyA", "create"}
      PROVE  status'[Run] = "absent" /\ At(A, Run, "idle")'
  <2>1. status[Run] = "absent" /\ \A q \in Procs : At(q, Run, "idle")
    BY <1>0, <1>5 DEF Sequence, RunOfA
  <2>2. \A q \in Procs : ~Statement(q, Run) /\ ~Wake(q, Run)
    BY <2>1
       DEF Statement, InsertRun, Remember, ClaimCreated, Load, Scan, MarkRunning, CheckLoop,
           CheckNode, CheckFinal, Count, Insert, InsertThrows, UnhandledRejection, SetTerminal,
           Release, At, Wake
  <2>3. status'[Run] = "absent"
    BY <1>0, <1>3, <2>1, <2>2, StatusStep DEF Statement
  <2>4. CASE Boot(p) \/ Heartbeat(p, Run) \/ Listen(p)
    BY <1>0, <2>1, <2>3, <2>4 DEF Boot, Start, Heartbeat, Listen, At
  <2>5. CASE ResumeOrphan(p, Run)
    <3>1. co'[p][Run].at = "idle"
      BY <1>0, <2>5, NobodyTakes, CreationMoves DEF ResumeOrphan
    <3>2. p # A => co'[A][Run] = co[A][Run]
      BY <1>0, <2>1, <2>2, <2>5, OthersStay DEF RunStep, Statement
    <3>3. QED
      BY <1>0, <2>1, <2>3, <3>1, <3>2 DEF At
  <2>6. CASE TakeSignal(p)
    <3>1. p # A
      BY <2>6 DEF TakeSignal, Context, RunOfA
    <3>2. \A phase : Die(p, phase) => co'[A] = co[A]
      BY <1>0, <3>1, DieEffect
    <3>3. QED
      BY <1>0, <2>1, <2>3, <2>6, <3>2 DEF TakeSignal, Shutdown, Crash, vars, At
  <2>7. QED
    BY <2>2, <2>4, <2>5, <2>6 DEF HostStep
<1>6. QED
  BY <1>0, <1>1, <1>4, <1>5 DEF Sequence

\* The harness asks A for the run, sees it running before it spawns B, and sends
\* A no signal that a process can get.
LEMMA HarnessKeeps ==
  ASSUME Context, HarnessStep
  PROVE  RunOfA' /\ Sequence'
<1>0. /\ A \in Procs /\ B \in Procs /\ A # B /\ Run \in Runs /\ TypeOK /\ RunOfA /\ Sequence
      /\ proc \in [Procs -> Phase] /\ spawned \in SUBSET {A, B}
  BY ContextFacts DEF Context, HarnessTypeOK
<1>1. ASSUME UNCHANGED vars, A \notin signalled'
      PROVE  RunOfA' /\ (Seen => Seen')
  BY <1>0, <1>1 DEF RunOfA, Seen, vars, tables, runRow, At, Logged, Executing
<1>2. ASSUME UNCHANGED proc, spawned' \subseteq spawned \cup {A}, Alone
      PROVE  Alone'
  BY <1>2 DEF Alone
<1>3. CASE CreateTheRun
  <2>1. /\ proc[A] = "serving" /\ co[A][Run].at # "sleep" /\ status[Run] = "absent"
        /\ co'[A][Run].at = "insertRun" /\ UNCHANGED <<tables, proc, http, signalled, spawned>>
        /\ step = "create" /\ step' = "running"
    BY <1>0, <1>3, CreationMoves DEF CreateTheRun, CreateRun, AtLoop, Rest, Go
  <2>2. \A q \in Procs : q # A => co'[q][Run] = co[q][Run]
    BY <1>0, <1>3, ResumeEffect DEF CreateTheRun, CreateRun
  <2>3. RunOfA'
    BY <1>0, <2>1, <2>2 DEF RunOfA, At, Logged, Executing, tables, runRow
  <2>4. Alone'
    BY <1>0, <1>2, <2>1 DEF Sequence, BeforeSeen
  <2>5. QED
    BY <2>1, <2>3, <2>4 DEF Sequence, BeforeSeen
<1>4. CASE ~CreateTheRun
  <2>1. UNCHANGED vars
    BY <1>4, HarnessStepOnHosts
       DEF HarnessStep, CreateTheRun, Spawn, Ready, SeeRunning, KillA, KilledA, WaitForLapse,
           SeeTerminal, TimesOut, AfterEachKill, AfterEachShutdown, AfterEachRemove, Pass, Kill,
           Terminate
  <2>2. A \notin signalled'
    BY <1>0, <1>4
       DEF HarnessStep, RunOfA, Spawn, Ready, SeeRunning, KillA, KilledA, WaitForLapse,
           SeeTerminal, TimesOut, AfterEachKill, AfterEachShutdown, AfterEachRemove, Pass, Kill,
           Terminate
  <2>3. /\ RunOfA' /\ (Seen => Seen') /\ UNCHANGED proc
        /\ status' = status /\ co' = co
    BY <1>1, <2>1, <2>2 DEF vars, tables, runRow
  <2>4. CASE \/ step = "spawnA" /\ Spawn(A, "readyA")
             \/ step = "readyA" /\ Ready(A, "create")
    BY <1>0, <1>2, <2>3, <2>4 DEF Sequence, BeforeSeen, Spawn, Ready, Go, At
  <2>5. CASE SeeRunning
    BY <2>3, <2>5 DEF Sequence, BeforeSeen, SeeRunning, Pass, Go, Seen
  <2>6. CASE \/ KillA \/ KilledA \/ WaitForLapse \/ AfterEachShutdown
             \/ step = "spawnB" /\ Spawn(B, "readyB")
             \/ step = "readyB" /\ Ready(B, "terminal")
             \/ SeeTerminal
    BY <1>0, <2>3, <2>6
       DEF Sequence, BeforeSeen, KillA, Kill, KilledA, WaitForLapse, AfterEachShutdown,
           Terminate, Spawn, Ready, SeeTerminal, Pass, Go
  <2>7. CASE TimesOut
    BY <1>0, <1>2, <2>3, <2>7 DEF Sequence, BeforeSeen, TimesOut, Go
  <2>8. CASE AfterEachKill
    BY <1>0, <1>2, <2>3, <2>8 DEF Sequence, BeforeSeen, AfterEachKill, Kill, EndWrapper, Go
  <2>9. CASE AfterEachRemove
    BY <1>0, <1>2, <2>3, <2>9 DEF Sequence, BeforeSeen, AfterEachRemove, Pass, Go
  <2>10. QED
    BY <1>4, <2>4, <2>5, <2>6, <2>7, <2>8, <2>9 DEF HarnessStep
<1>5. QED
  BY <1>3, <1>4

LEMMA ClockKeeps ==
  ASSUME Context, TimePasses \/ UNCHANGED allVars
  PROVE  RunOfA' /\ Sequence'
<1>1. UNCHANGED <<tables, proc, co, http, harnessVars>>
  BY DEF TimePasses, Tick, allVars, vars
<1>2. RunOfA'
  BY <1>1 DEF Context, RunOfA, harnessVars, tables, runRow, At, Logged, Executing
<1>3. Sequence'
  BY <1>1 DEF Context, Sequence, harnessVars, tables, runRow, At, Alone, Seen
<1>4. QED
  BY <1>2, <1>3

\* The scenario never sees the recovery that it is there to test: kill() ends the
\* wrapper of A only, and A, which renews its claim in time, keeps the run from B.
THEOREM KilledHostKeepsItsRun ==
  ASSUME MayStall = {}, HeartbeatInterval <= ClaimTtl
  PROVE  ScenarioSpec => []NothingRecovered
<1>1. ScenarioInit => RunOfA /\ Sequence
  BY HostsAssumption, IdleAt
     DEF ScenarioInit, Init, StoreInit, RunOfA, Sequence, BeforeSeen, Alone, At, Logged,
         Terminal, Executing
<1>2. Context /\ [ScenarioNext]_allVars => RunOfA' /\ Sequence'
  <2>1. SUFFICES ASSUME Context, [ScenarioNext]_allVars PROVE RunOfA' /\ Sequence'
    OBVIOUS
  <2>2. [Next]_vars
    BY <2>1, ScenarioStep
  <2>3. QED
    BY <2>1, <2>2, HarnessKeeps, HostsKeepRun, HostsKeepSequence, ClockKeeps DEF ScenarioNext
<1>3. Context <=> HarnessTypeOK /\ RunContext /\ LeaseHeld /\ AppendNeverConflicts /\ RunOfA /\ Sequence
  BY DEF Context
<1>4. RunOfA => NothingRecovered
  BY DEF RunOfA, NothingRecovered
<1>5. QED
  BY <1>1, <1>2, <1>3, <1>4, ScenarioIsSpec, HarnessTypeCorrect, RunInvariant, LeaseIsHeld,
     AppendsDoNotConflict, PTL
     DEF ScenarioSpec

=============================================================================
